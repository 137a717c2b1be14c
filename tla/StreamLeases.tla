---------------------------- MODULE StreamLeases ----------------------------
(***************************************************************************)
(* Requests that call DeepSeek before they stream: the inline files of a   *)
(* request (internal/httpapi/openai/files), the transcript that becomes a  *)
(* file (internal/httpapi/openai/history), /v1/files, and the leases by    *)
(* which a streaming function of Vercel, which is another process, holds   *)
(* an account (internal/httpapi/openai/chat/vercel_stream.go).             *)
(*                                                                         *)
(* Each request has one RequestAuth and, once it is prepared, one lease,   *)
(* both named by the request.                                              *)
(***************************************************************************)
EXTENDS SharedAuth

CONSTANTS
  Kind,                 \* what each request is: see Roles
  MaxAttempts,          \* of a call, for each role (3)
  MaxInlineFiles,       \* file inputs per request (50)
  InlineConcurrency     \* uploads at a time (4)

\* No request; a file for /v1/files; a lease for a request without files, of the
\* pool or of a caller's own token; a lease for a request with files.
Roles == {"absent", "upload", "lease", "direct", "files"}

ASSUME StreamLeasesAssumption ==
  /\ Kind \subseteq [Requests -> Roles]
  /\ MaxAttempts \in [Roles -> Nat \ {0}]
  /\ MaxInlineFiles \in Nat /\ InlineConcurrency \in Nat \ {0}

VARIABLES
  kind,    \* a member of Kind
  phase,   \* how far the handler of each request is
  blocks,  \* the file inputs of its body, each a file
  ids,     \* the uploaded file that each block names
  leases,  \* streamLeases
  expired, \* those whose ExpiresAt has passed
  admitted,\* history: Determine gave the request a RequestAuth
  popped   \* removed from streamLeases, not yet released

leaseVars == <<kind, phase, blocks, ids, leases, expired, admitted, popped>>
vars == <<poolVars, sharedVars, leaseVars>>

Phases == {"new", "determine", "walk", "uploads", "input", "session", "pow", "hold",
           "held", "close", "over"}

Main(r) == <<r, "main">>

Unique(r) == Range(blocks[r])

Init ==
  /\ kind \in Kind
  /\ SharedInit({r \in Requests : kind[r] = "direct"})
  /\ phase = [r \in Requests |-> "new"]
  /\ blocks = [r \in Requests |-> << >>]
  /\ ids = [r \in Requests |-> << >>]
  /\ leases = {} /\ expired = {} /\ admitted = {} /\ popped = {}

-----------------------------------------------------------------------------
(***************************************************************************)
(* The handler of a request, from one call to the next.                    *)
(***************************************************************************)

Phase(r, next) == phase' = [phase EXCEPT ![r] = next]

\* The main thread of r begins a call.
Calls(r, op) == Goto(Main(r), Begin(op, MaxAttempts[kind[r]]))

NoCall == UNCHANGED <<poolVars, sharedVars>>

\* popExpiredLeasesLocked; the handler that popped a lease releases it next, and
\* which handler that is makes no difference.
Sweep ==
  /\ popped' = popped \union expired
  /\ expired' = {}

Arrive(r) ==
  /\ phase[r] = "new" /\ kind[r] # "absent"
  /\ IF kind[r] = "upload" THEN UNCHANGED <<leases, expired, popped>>
     ELSE Sweep /\ leases' = leases \ expired
  /\ Phase(r, "determine")
  /\ Goto(Main(r), [Off EXCEPT !.at = "determine"])
  /\ UNCHANGED <<poolVars, sharedVarsButRun, kind, blocks, ids, admitted>>

\* decodeOpenAIInlineFileBlock: the blocks of a body that carry a file.
FileInputs(role) ==
  IF role = "files" THEN UNION {[1..n -> Files] : n \in 0..MaxInlineFiles + 1} ELSE {<< >>}

\* The request has an account and its body is read; a body that is refused ends
\* it.  A lease without files is one whose body names none.
Admitted(r) ==
  /\ phase[r] = "determine" /\ At(Main(r), "done")
  /\ \/ /\ kind[r] = "upload"
        /\ Phase(r, "input") /\ Calls(r, "upload")
        /\ UNCHANGED blocks
     \/ /\ kind[r] # "upload"
        /\ \E b \in FileInputs(kind[r]) : blocks' = [blocks EXCEPT ![r] = b]
        /\ Phase(r, "walk") /\ Goto(Main(r), Off)
     \/ Phase(r, "close") /\ Goto(Main(r), Off) /\ UNCHANGED blocks
  /\ admitted' = admitted \union {r}
  /\ UNCHANGED <<poolVars, sharedVarsButRun,
                 kind, ids, leases, expired, popped>>

\* No account: Determine failed and there is nothing to release.
Rejected(r) ==
  /\ phase[r] = "determine" /\ At(Main(r), "failed")
  /\ Phase(r, "over") /\ Goto(Main(r), Off)
  /\ UNCHANGED <<poolVars, sharedVarsButRun,
                 kind, blocks, ids, leases, expired, admitted, popped>>

\* PreprocessInlineFileInputs finds the file inputs, counts them, and starts one
\* goroutine for each file.
Walk(r) ==
  /\ phase[r] = "walk"
  /\ IF Len(blocks[r]) > MaxInlineFiles
     THEN Phase(r, "close") /\ UNCHANGED run
     ELSE /\ Phase(r, "uploads")
          /\ run' = [t \in Threads |->
               IF t[1] = r /\ t[2] \in Unique(r) THEN [Off EXCEPT !.at = "wait"] ELSE run[t]]
  /\ UNCHANGED <<poolVars, sharedVarsButRun,
                 kind, blocks, ids, leases, expired, admitted, popped>>

Uploading(r) == {f \in Files : run[<<r, f>>].at \notin {"off", "wait", "done", "failed"}}

\* The semaphore lets a goroutine upload, or the client has gone.
UploadBegins(r, f) ==
  /\ At(<<r, f>>, "wait")
  /\ \/ /\ Cardinality(Uploading(r)) < InlineConcurrency
        /\ Goto(<<r, f>>, Begin("upload", MaxAttempts[kind[r]]))
     \/ Goto(<<r, f>>, [Off EXCEPT !.at = "failed"])
  /\ UNCHANGED <<poolVars, sharedVarsButRun, leaseVars>>

\* Mutant: the first error ends the wait.
UploadsEnd_Early(r) ==
  LET failed == {f \in Unique(r) : At(<<r, f>>, "failed")}
  IN  /\ phase[r] = "uploads"
      /\ failed # {} \/ \A f \in Unique(r) : At(<<r, f>>, "done")
      /\ IF failed = {}
         THEN /\ ids' = [ids EXCEPT ![r] = [i \in DOMAIN blocks[r] |-> blocks[r][i]]]
              /\ run' = [t \in Threads |-> IF t[1] = r THEN Off ELSE run[t]]
              /\ Phase(r, "input")
         ELSE Phase(r, "close") /\ UNCHANGED <<ids, run>>
      /\ UNCHANGED <<poolVars, sharedVarsButRun,
                     kind, blocks, leases, expired, admitted, popped>>

\* uploadInlineFiles waits for all of them, then fails with the first error, or
\* gives each block the id of its file.
UploadsEnd(r) ==
  /\ phase[r] = "uploads"
  /\ \A f \in Files : run[<<r, f>>].at \in {"off", "done", "failed"}
  /\ run' = [t \in Threads |-> IF t[1] = r THEN Off ELSE run[t]]
  /\ IF \E f \in Unique(r) : At(<<r, f>>, "failed")
     THEN Phase(r, "close") /\ UNCHANGED ids
     ELSE /\ ids' = [ids EXCEPT ![r] =
               [i \in {j \in DOMAIN blocks[r] : At(<<r, blocks[r][j]>>, "done")} |->
                  blocks[r][i]]]
          /\ Phase(r, "input")
  /\ UNCHANGED <<poolVars, sharedVarsButRun,
                 kind, blocks, leases, expired, admitted, popped>>

\* The request is refused, or its transcript becomes a file if it is long enough.
Prepare(r) ==
  /\ phase[r] = "input" /\ At(Main(r), "off")
  /\ \/ Phase(r, "close") /\ UNCHANGED run
     \/ kind[r] = "files" /\ UNCHANGED phase /\ Calls(r, "upload")
     \/ Phase(r, "session") /\ Calls(r, "session")
  /\ UNCHANGED <<poolVars, sharedVarsButRun,
                 kind, blocks, ids, leases, expired, admitted, popped>>

\* A call of the main thread has ended.
CallEnds(r) ==
  /\ phase[r] \in {"input", "session", "pow"}
  /\ \/ /\ At(Main(r), "failed") \/ (At(Main(r), "done") /\ kind[r] = "upload")
        /\ Phase(r, "close") /\ Goto(Main(r), Off)
     \/ /\ At(Main(r), "done") /\ kind[r] # "upload"
        /\ CASE phase[r] = "input"   -> Phase(r, "session") /\ Calls(r, "session")
             [] phase[r] = "session" -> Phase(r, "pow") /\ Calls(r, "pow")
             [] phase[r] = "pow"     -> Phase(r, "hold") /\ Goto(Main(r), Off)
  /\ UNCHANGED <<poolVars, sharedVarsButRun,
                 kind, blocks, ids, leases, expired, admitted, popped>>

\* Mutant: the deferred Release runs for a request that holds a lease, too.
holdStreamLease_Closes(r) ==
  /\ phase[r] = "hold"
  /\ Sweep
  /\ leases' = (leases \ expired) \union {r}
  /\ Phase(r, "close")
  /\ NoCall /\ UNCHANGED <<kind, blocks, ids, admitted>>

\* holdStreamLease, which also removes the leases that have expired.
holdStreamLease(r) ==
  /\ phase[r] = "hold"
  /\ Sweep
  /\ leases' = (leases \ expired) \union {r}
  /\ Phase(r, "held")
  /\ NoCall /\ UNCHANGED <<kind, blocks, ids, admitted>>

\* The deferred Release of a request that holds no lease.
Close(r) ==
  /\ phase[r] = "close"
  /\ Release(r)
  /\ Phase(r, "over")
  /\ UNCHANGED <<run, kind, blocks, ids, leases, expired, admitted, popped>>

-----------------------------------------------------------------------------
(***************************************************************************)
(* The leases.                                                             *)
(***************************************************************************)

LeaseExpires(r) ==
  /\ r \in leases \ expired
  /\ expired' = expired \union {r}
  /\ NoCall /\ UNCHANGED <<kind, phase, blocks, ids, leases, admitted, popped>>

\* A release request for the lease of r, which may come again, or late: the
\* expired leases go, and that of r if it is there.
releaseStreamLease(r) ==
  /\ phase[r] = "held"
  /\ popped' = popped \union expired \union ({r} \intersect leases)
  /\ expired' = {}
  /\ leases' = leases \ (expired \union {r})
  /\ NoCall /\ UNCHANGED <<kind, phase, blocks, ids, admitted>>

releasePopped(r) ==
  /\ r \in popped
  /\ Release(r)
  /\ popped' = popped \ {r}
  /\ UNCHANGED <<run, kind, phase, blocks, ids, leases, expired, admitted>>

\* A request for another proof of work finds the lease.
lookupStreamLeaseAuth(r) ==
  /\ r \in leases \ expired
  /\ At(<<r, "pow">>, "off")
  /\ Goto(<<r, "pow">>, Begin("pow", MaxAttempts[kind[r]]))
  /\ UNCHANGED <<poolVars, sharedVarsButRun, leaseVars>>

PowAnswered(r) ==
  /\ run[<<r, "pow">>].at \in {"done", "failed"}
  /\ Goto(<<r, "pow">>, Off)
  /\ UNCHANGED <<poolVars, sharedVarsButRun, leaseVars>>

Next ==
  \/ \E t \in Threads : ThreadStep(t) /\ UNCHANGED leaseVars
  \/ \E r \in Requests :
       \/ Arrive(r)
       \/ Admitted(r)
       \/ Rejected(r)
       \/ Walk(r)
       \/ \E f \in Files : UploadBegins(r, f)
       \/ UploadsEnd(r)
       \/ Prepare(r)
       \/ CallEnds(r)
       \/ holdStreamLease(r)
       \/ Close(r)
       \/ LeaseExpires(r)
       \/ releaseStreamLease(r)
       \/ releasePopped(r)
       \/ lookupStreamLeaseAuth(r)
       \/ PowAnswered(r)

\* The goroutines of a request run on, and an exchange with DeepSeek ends.
Fairness ==
  \A r \in Requests :
    /\ \A k \in Files \union {"main"} : WF_vars(ThreadStep(<<r, k>>) /\ UNCHANGED leaseVars)
    /\ \A f \in Files : WF_vars(UploadBegins(r, f))
    /\ WF_vars(\/ Admitted(r) \/ Walk(r) \/ UploadsEnd(r) \/ Prepare(r)
               \/ CallEnds(r) \/ holdStreamLease(r) \/ Close(r))

Spec == Init /\ [][Next]_vars /\ Fairness

-----------------------------------------------------------------------------
(***************************************************************************)
(* Properties.                                                             *)
(***************************************************************************)

Busy(r) == \E k \in Kinds : run[<<r, k>>].at # "off"

\* The variables hold values of their types.
TypeOK ==
  /\ SharedTypeOK
  /\ kind \in Kind /\ phase \in [Requests -> Phases]
  /\ \A r \in Requests : blocks[r] \in UNION {[1..n -> Files] : n \in 0..MaxInlineFiles + 1}
  /\ leases \subseteq Requests /\ expired \subseteq leases /\ popped \subseteq Requests \ leases

\* Each RequestAuth is released once: by its request as long as that has no
\* lease, then by the release of the lease or by the sweep that finds it expired,
\* however often and however late the release is asked for.
ReleasedOnce ==
  \A r \in Requests :
    released[r] = CASE phase[r] = "over" -> IF r \in admitted THEN 1 ELSE 0
                    [] phase[r] = "held" -> IF r \in leases \union popped THEN 0 ELSE 1
                    [] OTHER -> 0

\* No goroutine of a request outlives its preprocessing: from then on the request
\* is alone with its RequestAuth until the lease is known to others, and what it
\* gives back nobody uses.
UploadsEndFirst ==
  \A r \in Requests, f \in Files : run[<<r, f>>].at # "off" => phase[r] = "uploads"

\* A request that is over, and whose lease is released, holds no account, unless
\* two goroutines changed its account at the same time, or one did so after the
\* release: sharing as such is harmless.
NoSlotLeak ==
  \A r \in Requests \ shaken :
    /\ ~Busy(r)
    /\ phase[r] = "over" \/ (phase[r] = "held" /\ released[r] > 0)
    => \A id \in Ids : slots[r][id] = 0

\* With the same exception every call is made with the token of an account that
\* the request holds, if SwitchAccount found one.
CallsUseHeldAccount ==
  \A t \in Threads :
    /\ At(t, "ask") /\ auth[t[1]].managed /\ t[1] \notin shaken \union stray /\ released[t[1]] = 0
    /\ \A u \in Others(t) : ~Changing(u)
    => auth[t[1]].token = auth[t[1]].account /\ slots[t[1]][auth[t[1]].account] > 0

\* A request that has an account ends or comes to hold its lease: the loops of the calls, one
\* inside the other, with their refreshes and changes of account, end.
PreparesEnd ==
  \A r \in Requests : r \in admitted ~> phase[r] \in {"held", "over"}
=============================================================================
