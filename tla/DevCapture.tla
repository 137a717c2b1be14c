----------------------------- MODULE DevCapture -----------------------------
(***************************************************************************)
(* The capture of upstream answers (package devcapture, filled by the      *)
(* DeepSeek client), and the samples that an administrator makes of them   *)
(* (admin/rawsamples and package rawsample).                               *)
(*                                                                         *)
(* A call of the client is a completion and its continuations, read by a   *)
(* pump of its own.  An answer enters the store when it was read to its    *)
(* end or closed, whichever is first; so the last one of a request may     *)
(* come after the handler of the request has returned.  Retries of the     *)
(* handler are further calls in the same session.  What an answer says is  *)
(* whether it is empty; cutting a long one, and the words of a search      *)
(* among the captures, are left out.                                       *)
(***************************************************************************)
EXTENDS Naturals, Sequences, SequencesExt, FiniteSets

CONSTANTS Clients,     \* requests of clients
          Capturers,   \* administrators that capture a request of their own
          Savers,      \* administrators that save what was captured
          Uploaders,   \* requests that upload a file first
          Limit,       \* captures in the store
          MaxCalls,    \* per request: its completion, and the retry; none if it only uploads
          MaxAttempts, \* the maxAttempts of a completion
          Continued,   \* requests whose answers may be continued
          MaxRounds,   \* continuations of a call
          MaxTime,     \* seconds
          MaxClears    \* times that the store is cleared

Requests == Clients \union Capturers
Admins   == Capturers \union Savers
Calls    == {c \in Requests \X (1..2) : c[2] <= MaxCalls[c[1]]}

\* A request makes at most two calls, both in the session it began with: a restart
\* with another account, which adds calls in a session of its own, is left out.
ASSUME CaptureAssumption ==
  /\ {Limit, MaxAttempts} \subseteq Nat \ {0}
  /\ {MaxRounds, MaxTime, MaxClears} \subseteq Nat
  /\ Clients \intersect Capturers = {} /\ Capturers \intersect Savers = {}
  /\ IsFiniteSet(Admins)
  /\ MaxCalls \in [Requests -> 0..2] /\ \A r \in Capturers : MaxCalls[r] > 0
  /\ Uploaders \union Continued \subseteq Requests

VARIABLES items,    \* the store, newest first
          now,      \* the seconds of the clock
          clears,   \* times that it was cleared
          request,  \* per request: phase, and its calls so far
          pump,     \* per call: phase, round, attempts, start, and whether it is read
          admin,    \* per administrator: phase, snapshot, selection, sample
          samples   \* the directory of samples

vars == <<items, now, clears, request, pump, admin, samples>>

NoSample == <<>>
Names    == 1..Cardinality(Admins)

Admin(phase, before, chosen, name) ==
  [phase |-> phase, before |-> before, chosen |-> chosen, name |-> name]

Init ==
  /\ items = <<>> /\ now = 0 /\ clears = 0
  /\ request = [r \in Requests |->
       [phase |-> IF r \in Clients THEN "ready" ELSE "idle", calls |-> 0,
        uploads |-> r \in Uploaders]]
  /\ pump = [c \in Calls |-> [phase |-> "off", round |-> 0, attempts |-> 0, start |-> 0, read |-> FALSE]]
  /\ admin = [a \in Admins |-> Admin("idle", {}, <<>>, 0)]
  /\ samples = [n \in Names |-> NoSample]

-----------------------------------------------------------------------------
(***************************************************************************)
(* The store.                                                              *)
(***************************************************************************)

\* Of an upload, call 0.  The attempts of a completion have one id, which is that
\* of its capture session.
Entry(c, round, start, full) == [id |-> <<c, round>>, created |-> start, full |-> full]

push(entry) == items' = SubSeq(<<entry>> \o items, 1, IF Len(items) < Limit THEN Len(items) + 1 ELSE Limit)

Tick == now < MaxTime /\ now' = now + 1 /\ UNCHANGED <<items, clears, request, pump, admin, samples>>

Clear ==
  /\ clears < MaxClears /\ items # <<>>
  /\ items' = <<>> /\ clears' = clears + 1
  /\ UNCHANGED <<now, request, pump, admin, samples>>

-----------------------------------------------------------------------------
(***************************************************************************)
(* The calls of a request.                                                 *)
(***************************************************************************)
Current(r) == <<r, request[r].calls>>

Upload(r) ==
  /\ request[r].phase = "ready" /\ request[r].uploads
  /\ request' = [request EXCEPT ![r].uploads = FALSE]
  /\ push(Entry(<<r, 0>>, 0, now, TRUE))
  /\ UNCHANGED <<now, clears, pump, admin, samples>>

CallCompletion(r) ==
  /\ request[r].phase = "ready" /\ ~request[r].uploads /\ request[r].calls < MaxCalls[r]
  /\ request' = [request EXCEPT ![r].phase = "calling", ![r].calls = @ + 1]
  /\ pump' = [pump EXCEPT ![<<r, request[r].calls + 1>>].start = now]
  /\ UNCHANGED <<items, now, clears, admin, samples>>

Ended == [phase |-> "ended", round |-> 0, attempts |-> 0, start |-> 0, read |-> FALSE]

\* An attempt gets no answer, or one that is closed unread.
AttemptFails(r) ==
  /\ request[r].phase = "calling"
  /\ UNCHANGED items \/ push(Entry(Current(r), 0, pump[Current(r)].start, FALSE))
  /\ IF pump[Current(r)].attempts + 1 < MaxAttempts
     THEN /\ pump' = [pump EXCEPT ![Current(r)].attempts = @ + 1]
          /\ UNCHANGED request
     ELSE /\ pump' = [pump EXCEPT ![Current(r)] = Ended]
          /\ request' = [request EXCEPT ![r].phase = "returned"]
  /\ UNCHANGED <<now, clears, admin, samples>>

Answers(r) ==
  /\ request[r].phase = "calling"
  /\ request' = [request EXCEPT ![r].phase = "reading"]
  /\ pump' = [pump EXCEPT ![Current(r)].phase = "pumping", ![Current(r)].read = TRUE]
  /\ UNCHANGED <<items, now, clears, admin, samples>>

\* The pump has read an answer to its end, or it cannot pass it on and closes it.
Finalize(c) ==
  /\ pump[c].phase = "pumping"
  /\ \E full \in BOOLEAN : push(Entry(c, pump[c].round, pump[c].start, full))
  /\ \/ pump' = [pump EXCEPT ![c].phase = "between", ![c].start = 0]
     \/ ~pump[c].read /\ pump' = [pump EXCEPT ![c] = Ended]
  /\ UNCHANGED <<now, clears, request, admin, samples>>

callContinue(c) ==
  /\ pump[c].phase = "between" /\ c[1] \in Continued /\ pump[c].round < MaxRounds
  /\ pump' = [pump EXCEPT ![c].phase = "continuing", ![c].round = @ + 1, ![c].start = now]
  /\ UNCHANGED <<items, now, clears, request, admin, samples>>

ContinueAnswers(c) ==
  /\ pump[c].phase = "continuing"
  /\ pump' = [pump EXCEPT ![c].phase = "pumping"]
  /\ UNCHANGED <<items, now, clears, request, admin, samples>>

ContinueFails(c) ==
  /\ pump[c].phase = "continuing"
  /\ pump' = [pump EXCEPT ![c] = Ended]
  /\ UNCHANGED items \/ push(Entry(c, pump[c].round, pump[c].start, FALSE))
  /\ UNCHANGED <<now, clears, request, admin, samples>>

PumpEnds(c) ==
  /\ pump[c].phase = "between"
  /\ pump' = [pump EXCEPT ![c] = Ended]
  /\ UNCHANGED <<items, now, clears, request, admin, samples>>

\* The handler has its answer, whether or not the pump has come to the end; it
\* retries, or returns.
Leave(r) ==
  /\ request[r].phase = "reading"
  /\ pump' = [pump EXCEPT ![Current(r)].read = FALSE]
  /\ request' = [request EXCEPT ![r].phase = IF request[r].calls < MaxCalls[r] THEN "retry" ELSE "returned"]
  /\ UNCHANGED <<items, now, clears, admin, samples>>

Retry(r) ==
  /\ request[r].phase = "retry"
  /\ \E phase \in {"ready", "returned"} : request' = [request EXCEPT ![r].phase = phase]
  /\ UNCHANGED <<items, now, clears, pump, admin, samples>>

-----------------------------------------------------------------------------
(***************************************************************************)
(* Samples.                                                                *)
(***************************************************************************)
Ids(entries) == {entries[i].id : i \in DOMAIN entries}
Session(entry) == IF entry.id[1][2] = 0 THEN entry.id ELSE entry.id[1][1]

\* Captures at some positions, each after those that precede it.
Arrange(entries, positions, precedes) ==
  [k \in 1..Cardinality(positions) |->
    entries[CHOOSE i \in positions : Cardinality({j \in positions : <<j, i>> \in precedes}) = k - 1]]

\* The newest capture comes first in the store.
Older(entries) == {ij \in (DOMAIN entries) \X (DOMAIN entries) : ij[1] > ij[2]}

\* Mutant: captures of one second are in the order of a snapshot.
Chronological_AsStored(entries) ==
  {ij \in (DOMAIN entries) \X (DOMAIN entries) :
    \/ entries[ij[1]].created < entries[ij[2]].created
    \/ entries[ij[1]].created = entries[ij[2]].created /\ ij[1] < ij[2]}

\* Captures by the second in which they began; those of one second in the order
\* in which they entered the store.
Chronological(entries) ==
  {ij \in (DOMAIN entries) \X (DOMAIN entries) :
    \/ entries[ij[1]].created < entries[ij[2]].created
    \/ entries[ij[1]].created = entries[ij[2]].created /\ ij \in Older(entries)}

\* Captures of one session.
Chain(entries, session) ==
  Arrange(entries, {i \in DOMAIN entries : Session(entries[i]) = session}, Chronological(entries))

Chains(entries) == {Chain(entries, Session(entries[i])) : i \in DOMAIN entries}

\* Mutant: the new captures are as many as the store has grown by.
collectNewCaptureEntries_Count(before, after) ==
  Arrange(after, {i \in DOMAIN after : i + Cardinality(before) <= Len(after) /\ after[i].full}, Older(after))

\* What was not there before and is not empty.
collectNewCaptureEntries(before, after) ==
  Arrange(after, {i \in DOMAIN after : after[i].id \notin before /\ after[i].full}, Older(after))

Failed == Admin("failed", {}, <<>>, 0)

captureRawSample(a) ==
  /\ a \in Capturers /\ admin[a].phase = "idle"
  /\ admin' = [admin EXCEPT ![a] = Admin("capturing", Ids(items), <<>>, 0)]
  /\ request' = [request EXCEPT ![a].phase = "ready"]
  /\ UNCHANGED <<items, now, clears, pump, samples>>

\* The answers of a sample follow each other, and its summary lists their rounds.
combineCaptureBodies(entries) == [i \in DOMAIN entries |-> entries[i].id]

\* The first name that is free.  (Samples are asked for by one name.)
uniqueSampleID ==
  CHOOSE n \in Names : samples[n] = NoSample /\ \A m \in 1..(n - 1) : samples[m] # NoSample

\* An empty sample is refused; the files of another are written in a directory with
\* a name of its own.
Persist(a, entries) ==
  \/ admin' = [admin EXCEPT ![a] = Failed]
  \/ /\ \E i \in DOMAIN entries : entries[i].full
     /\ admin' = [admin EXCEPT ![a] = Admin("written", {}, combineCaptureBodies(entries), uniqueSampleID)]

Collect(a) ==
  /\ admin[a].phase = "capturing" /\ request[a].phase = "returned"
  /\ Persist(a, collectNewCaptureEntries(admin[a].before, items))
  /\ UNCHANGED <<items, now, clears, request, pump, samples>>

saveRawSampleFromCaptures(a) ==
  /\ a \in Savers /\ admin[a].phase = "idle"
  /\ \E chain \in Chains(items) : Persist(a, chain)
  /\ UNCHANGED <<items, now, clears, request, pump, samples>>

\* Mutant: a directory in the way is removed.
InTheWay_Removed(n) == FALSE

\* A directory is not renamed over another that has files.
InTheWay(n) == samples[n] # NoSample

\* The directory gets its name.
Promote(a) ==
  /\ admin[a].phase = "written"
  /\ IF InTheWay(admin[a].name)
     THEN /\ admin' = [admin EXCEPT ![a] = Failed]
          /\ UNCHANGED samples
     ELSE /\ samples' = [samples EXCEPT ![admin[a].name] = admin[a].chosen]
          /\ admin' = [admin EXCEPT ![a].phase = "saved"]
  /\ UNCHANGED <<items, now, clears, request, pump>>

Next ==
  \/ Tick \/ Clear
  \/ \E r \in Requests :
       Upload(r) \/ CallCompletion(r) \/ AttemptFails(r) \/ Answers(r) \/ Leave(r) \/ Retry(r)
  \/ \E c \in Calls :
       Finalize(c) \/ callContinue(c) \/ ContinueAnswers(c) \/ ContinueFails(c) \/ PumpEnds(c)
  \/ \E a \in Admins :
       captureRawSample(a) \/ Collect(a) \/ saveRawSampleFromCaptures(a) \/ Promote(a)

Spec == Init /\ [][Next]_vars

-----------------------------------------------------------------------------
(***************************************************************************)
(* Properties.                                                             *)
(***************************************************************************)

\* The captures of a call follow each other in a chain, and in a sample, as they did
\* upstream, though clocks count seconds and captures of several calls enter the
\* store in between: buildCaptureChains, collectNewCaptureEntries.
InOrder(ids) ==
  \A i, j \in DOMAIN ids : i < j /\ ids[i][1] = ids[j][1] => ids[i][2] <= ids[j][2]

RoundsInOrder ==
  /\ \A chain \in Chains(items) : InOrder(combineCaptureBodies(chain))
  /\ \A n \in Names : InOrder(samples[n])

\* A sample that was captured has every answer of its request that says something
\* and is in the store, and nothing from before it, whatever was pushed out or
\* cleared while the request ran: captureRawSample.
CapturedIsWhole ==
  [][\A a \in Capturers :
       (admin[a].phase = "capturing" /\ admin'[a].phase = "written") =>
         /\ Range(admin'[a].chosen) \intersect admin[a].before = {}
         /\ \A i \in DOMAIN items :
              items[i].full /\ items[i].id[1][1] = a => items[i].id \in Range(admin'[a].chosen)]_vars

\* What an administrator was told is saved is there, whole and unchanged, though
\* another may have found the same name free: Persist.
SavedIsThere ==
  \A a \in Admins : admin[a].phase = "saved" => samples[admin[a].name] = admin[a].chosen
=============================================================================
