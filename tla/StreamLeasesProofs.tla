-------------------------- MODULE StreamLeasesProofs --------------------------
(***************************************************************************)
(* Theorems about StreamLeases: every RequestAuth is released once, no     *)
(* upload outlives its request's preprocessing, and as long as no two      *)
(* threads of a request change its account at a time, no slot is leaked    *)
(* and every call is made with the token of the account that is held.      *)
(***************************************************************************)
EXTENDS StreamLeases, TLAPS

-----------------------------------------------------------------------------
(***************************************************************************)
(* The leases: who may release what, by the phase of each request.         *)
(***************************************************************************)

\* The phases of a request that has its RequestAuth and has not released it.
Served == {"walk", "uploads", "input", "session", "pow", "hold", "held", "close"}

LeaseInv ==
  /\ phase \in [Requests -> Phases] /\ released \in [Requests -> Nat]
  /\ leases \union popped \subseteq {r \in Requests : phase[r] = "held"}
  /\ expired \subseteq leases /\ leases \intersect popped = {}
  /\ \A r \in Requests :
       /\ phase[r] \in {"new", "determine"} => r \notin admitted
       /\ phase[r] \in Served => r \in admitted
  /\ ReleasedOnce


\* At the start nothing is held.
LEMMA LeaseInit == Init => LeaseInv
  BY DEF Init, SharedInit, LeaseInv, ReleasedOnce, Phases, Served

\* Every step moves a request, or a lease, on by one.
LEMMA LeaseStep == LeaseInv /\ [Next]_vars => LeaseInv'
<1> SUFFICES ASSUME LeaseInv, [Next]_vars PROVE LeaseInv'
  OBVIOUS
<1> USE DEF LeaseInv, ReleasedOnce, Served
<1>1. ASSUME UNCHANGED <<phase, released, leases, expired, popped, admitted>>
      PROVE  LeaseInv'
  BY <1>1
<1>2. ASSUME NEW t \in Threads, ThreadStep(t), UNCHANGED leaseVars
      PROVE  LeaseInv'
  <2>1. released' = released
    BY <1>2 DEF ThreadStep, Ask, DetermineDirect, DetermineAcquire, DetermineFails, Ensure, Login,
      RefreshToken, LeaveAccount, Reacquire, NoneFree, GiveBack, Got, sharedVarsButRun
  <2> QED
    BY <1>2, <1>1, <2>1 DEF leaseVars
<1>3. ASSUME NEW r \in Requests, Arrive(r)
      PROVE  LeaseInv'
  BY <1>3 DEF Arrive, Phase, Sweep, Phases, sharedVarsButRun
<1>4. ASSUME NEW r \in Requests, Admitted(r)
      PROVE  LeaseInv'
  BY <1>4 DEF Admitted, Phase, Phases, sharedVarsButRun
<1>5. ASSUME NEW r \in Requests, Rejected(r)
      PROVE  LeaseInv'
  BY <1>5 DEF Rejected, Phase, Phases, sharedVarsButRun
<1>6. ASSUME NEW r \in Requests, Walk(r) \/ UploadsEnd(r) \/ Prepare(r) \/ CallEnds(r)
      PROVE  LeaseInv'
  <2>1. \E next \in {"input", "close", "uploads", "session", "pow", "hold", phase[r]} :
          phase[r] \in {"walk", "uploads", "input", "session", "pow"} /\ Phase(r, next)
    BY <1>6 DEF Walk, UploadsEnd, Prepare, CallEnds, Phase
  <2>2. UNCHANGED <<released, leases, expired, popped, admitted>>
    BY <1>6 DEF Walk, UploadsEnd, Prepare, CallEnds, sharedVarsButRun
  <2> QED
    BY <2>1, <2>2 DEF Phase, Phases
<1>7. ASSUME NEW r \in Requests, holdStreamLease(r)
      PROVE  LeaseInv'
  BY <1>7 DEF holdStreamLease, Phase, Sweep, NoCall, sharedVars, Phases
<1>8. ASSUME NEW r \in Requests, Close(r)
      PROVE  LeaseInv'
  BY <1>8 DEF Close, Release, Phase, Phases
<1>9. ASSUME NEW r \in Requests, LeaseExpires(r) \/ releaseStreamLease(r)
      PROVE  LeaseInv'
  BY <1>9 DEF LeaseExpires, releaseStreamLease, NoCall, sharedVars
<1>10. ASSUME NEW r \in Requests, releasePopped(r)
      PROVE  LeaseInv'
  BY <1>10 DEF releasePopped, Release
<1>11. ASSUME NEW r \in Requests,
              (\E f \in Files : UploadBegins(r, f)) \/ lookupStreamLeaseAuth(r) \/ PowAnswered(r)
       PROVE  LeaseInv'
  BY <1>11, <1>1 DEF UploadBegins, lookupStreamLeaseAuth, PowAnswered, sharedVarsButRun, leaseVars
<1>12. ASSUME UNCHANGED vars
       PROVE  LeaseInv'
  BY <1>12, <1>1 DEF vars, sharedVars, leaseVars
<1> QED
  BY <1>2, <1>3, <1>4, <1>5, <1>6, <1>7, <1>8, <1>9, <1>10, <1>11, <1>12 DEF Next

(***************************************************************************)
(* Each RequestAuth is released once: by its handler, or by the release or *)
(* the expiry of its lease, however often and late that is asked for.      *)
(***************************************************************************)
THEOREM ReleasesCorrect == Spec => []ReleasedOnce
<1>1. LeaseInv => ReleasedOnce
  BY DEF LeaseInv
<1> QED
  BY <1>1, LeaseInit, LeaseStep, PTL DEF Spec

-----------------------------------------------------------------------------
(***************************************************************************)
(* The threads: which of them run in which phase, and how far they may be. *)
(***************************************************************************)

PhasesOf(k) ==
  CASE k = "main" -> {"determine", "input", "session", "pow"}
    [] k = "pow"  -> {"held"}
    [] OTHER      -> {"uploads"}

\* In Determine an account is looked for until one has a token.
DetermineStage(f) ==
  /\ f.at \in {"determine", "ensure", "login", "giveback", "done", "failed"}
  /\ f.why = "determine"

\* A call looks for an account only to change the one it has.
CallStage(f) ==
  /\ f.at # "determine"
  /\ f.at \in {"ensure", "giveback", "reacquire"} => f.why = "switch"
  /\ f.at = "login" => f.why \in {"switch", "refresh"}

Staged(t) ==
  /\ run[t].at # "off" => phase[t[1]] \in PhasesOf(t[2])
  /\ IF phase[t[1]] = "determine" /\ t[2] = "main"
     THEN DetermineStage(run[t]) ELSE CallStage(run[t])

\* Of a RequestAuth, what the calls rely on.
SomeAuth == [managed: BOOLEAN, account: Owner, token: Owner, copy: BOOLEAN, tried: SUBSET Owner]

ThreadInv ==
  /\ run \in [Threads -> Call]
  /\ auth \in [Requests -> SomeAuth]
  /\ kind \in [Requests -> Roles]
  /\ DOMAIN blocks = Requests /\ \A r \in Requests : Range(blocks[r]) \subseteq Files
  /\ \A t \in Threads : Staged(t)


\* A call that begins, goes on or ends is one, and how far it is then.
LEMMA CallBegins ==
  /\ Off \in Call
  /\ \A how \in {"determine", "wait", "done", "failed"} :
       [Off EXCEPT !.at = how] \in Call /\ [Off EXCEPT !.at = how].at = how
  /\ \A op \in {"session", "pow", "upload"}, max \in Nat :
       Begin(op, max) \in Call /\ Begin(op, max).at = "ask" /\ Begin(op, max).why = "determine"
  BY DEF Off, Call, Begin, Owner

\* The next attempt of a call is a call that asks, or has failed.
LEMMA NextAttemptType ==
  ASSUME NEW f \in Call
  PROVE  NextAttempt(f) \in Call /\ NextAttempt(f).at \in {"ask", "failed"}
<1>1. Ended("failed") \in Call /\ Ended("failed").at = "failed"
  BY CallBegins DEF Ended
<1>2. /\ f.n \in Nat /\ f.n + 1 \in Nat
      /\ f.outer \in [n: Nat, again: BOOLEAN] /\ f.outer.n + 1 \in Nat
  BY DEF Call
<1>3. /\ [f EXCEPT !.at = "ask", !.n = @ + 1] \in Call
      /\ [f EXCEPT !.at = "ask", !.n = @ + 1].at = "ask"
  BY <1>2 DEF Call
<1> DEFINE g == [f EXCEPT !.op = "powfor", !.at = "ask", !.n = 0, !.again = FALSE, !.outer.n = @ + 1]
<1>4. [f.outer EXCEPT !.n = @ + 1] \in [n: Nat, again: BOOLEAN]
  BY <1>2
<1>5. g = [f EXCEPT !.op = "powfor", !.at = "ask", !.n = 0, !.again = FALSE,
                    !.outer = [f.outer EXCEPT !.n = @ + 1]]
  BY DEF Call
<1>6. g \in Call /\ g.at = "ask"
  BY <1>4, <1>5 DEF Call
<1> QED
  BY <1>1, <1>3, <1>6 DEF NextAttempt

\* So is a call after a refresh,
LEMMA RefreshedType ==
  ASSUME NEW f \in Call
  PROVE  Refreshed(f) \in Call /\ Refreshed(f).at \in {"ask", "failed"}
<1>1. [f EXCEPT !.outer.again = TRUE] \in Call /\ [f EXCEPT !.again = TRUE, !.at = "ask"] \in Call
  BY DEF Call
<1> QED
  BY <1>1, NextAttemptType DEF Refreshed, Call

\* after a change of account,
LEMMA SwitchedType ==
  ASSUME NEW f \in Call
  PROVE  Switched(f) \in Call /\ Switched(f).at \in {"ask", "failed"}
<1>1. [f EXCEPT !.outer.again = FALSE] \in Call /\ [f EXCEPT !.again = FALSE] \in Call
  BY DEF Call
<1> QED
  BY <1>1, NextAttemptType DEF Switched

\* and after its account got a token; Determine is done then.
LEMMA EnsuredType ==
  ASSUME NEW f \in Call
  PROVE  /\ Ensured(f) \in Call
         /\ f.why = "determine" => Ensured(f) = Ended("done")
         /\ f.why # "determine" => Ensured(f).at \in {"ask", "failed"}
<1>1. [f EXCEPT !.why = "determine"] \in Call
  BY DEF Call
<1>2. f.why \in {"determine", "switch", "refresh"}
  BY DEF Call
<1>3. Ended("done") \in Call
  BY CallBegins DEF Ended
<1> QED
  BY <1>1, <1>2, <1>3, RefreshedType, SwitchedType DEF Ensured

\* A call that was answered asks, ends, refreshes or leaves its account.
LEMMA AnswersType ==
  ASSUME NEW r, NEW f \in Call, f.at = "ask", NEW g \in Answers(r, f)
  PROVE  /\ g \in Call
         /\ g.at \in {"ask", "done", "failed", "leave", "refresh"}
         /\ g.at \in {"leave", "refresh"} => auth[r].managed
<1>1. /\ Ended("done") \in Call /\ Ended("done").at = "done"
      /\ Ended("failed") \in Call /\ Ended("failed").at = "failed"
  BY CallBegins DEF Ended
<1>2. NextAttempt(f) \in Call /\ NextAttempt(f).at \in {"ask", "failed"}
  BY NextAttemptType
<1>3. ASSUME g \in Refused(r, f)
      PROVE  /\ g \in Call /\ g.at \in {"ask", "failed", "leave", "refresh"}
             /\ g.at \in {"leave", "refresh"} => auth[r].managed
  <2>1. [f EXCEPT !.at = "leave"] \in Call /\ [f EXCEPT !.at = "refresh"] \in Call
    BY DEF Call
  <2>2. [f EXCEPT !.at = "leave"].at = "leave" /\ [f EXCEPT !.at = "refresh"].at = "refresh"
    BY DEF Call
  <2>3. \/ g = NextAttempt(f)
        \/ auth[r].managed /\ g \in {[f EXCEPT !.at = "leave"], [f EXCEPT !.at = "refresh"]}
    BY <1>3 DEF Refused
  <2> QED
    BY <1>2, <2>1, <2>2, <2>3
<1>4. /\ [f EXCEPT !.op = "upload"] \in Call /\ [f EXCEPT !.op = "upload"].at = "ask"
      /\ [f EXCEPT !.op = "poll", !.n = 0] \in Call /\ [f EXCEPT !.op = "poll", !.n = 0].at = "ask"
      /\ [f EXCEPT !.n = @ + 1] \in Call /\ [f EXCEPT !.n = @ + 1].at = "ask"
  <2>1. f.n + 1 \in Nat
    BY DEF Call
  <2>2. [f EXCEPT !.op = "upload"] \in Call /\ [f EXCEPT !.op = "upload"].at = "ask"
    BY DEF Call
  <2>3. /\ [f EXCEPT !.op = "poll", !.n = 0] \in Call
        /\ [f EXCEPT !.op = "poll", !.n = 0].at = "ask"
    BY DEF Call
  <2>4. [f EXCEPT !.n = @ + 1] \in Call /\ [f EXCEPT !.n = @ + 1].at = "ask"
    BY <2>1 DEF Call
  <2> QED
    BY <2>2, <2>3, <2>4
<1>5. \/ g \in {Ended("done"), Ended("failed"), NextAttempt(f)}
      \/ g \in Refused(r, f)
      \/ g \in {[f EXCEPT !.op = "upload"], [f EXCEPT !.op = "poll", !.n = 0], [f EXCEPT !.n = @ + 1]}
  BY DEF Answers, PowAnswers, UploadAnswers, PollAnswers, LoopAnswers
<1> QED
  BY <1>1, <1>2, <1>3, <1>4, <1>5

\* Where a step of the calls takes a thread from where it is.
Leads(f, g) ==
  \/ f.at = "ask" /\ g.at \in {"ask", "done", "failed", "leave", "refresh"}
  \/ f.at = "determine" /\ g = Ended("done")
  \/ f.at = "determine" /\ g = Ended("failed")
  \/ f.at = "determine" /\ g.at = "ensure" /\ g.why = "determine"
  \/ /\ f.at \in {"ensure", "login"}
     /\ IF f.why = "determine" THEN g = Ended("done") ELSE g.at \in {"ask", "failed"}
  \/ f.at = "ensure" /\ g.at = "login" /\ g.why = f.why
  \/ f.at = "login" /\ g.why = f.why /\ g.at = IF f.why = "refresh" THEN "leave" ELSE "giveback"
  \/ f.at = "refresh" /\ g.at = "login" /\ g.why = "refresh"
  \/ f.at = "leave" /\ g.at = "reacquire" /\ g.why = "switch"
  \/ f.at = "reacquire" /\ g.at = "ensure" /\ g.why = f.why
  \/ f.at = "reacquire" /\ g.at \in {"ask", "failed"}
  \/ /\ f.at = "giveback" /\ g.why = f.why
     /\ g.at = IF f.why = "determine" THEN "determine" ELSE "reacquire"

Ats  == {"off", "ask", "determine", "refresh", "login", "leave", "reacquire", "ensure",
         "giveback", "wait", "done", "failed"}

\* A thread leads from a call to a call, within the stages of Determine or of a call.
LEMMA ThreadLeads ==
  ASSUME NEW t \in Threads, run \in [Threads -> Call], auth \in [Requests -> SomeAuth], ThreadStep(t)
  PROVE  \E g \in Call : Goto(t, g) /\ Leads(run[t], g)
<1> DEFINE f == run[t]
<1>1. f \in Call /\ t[1] \in Requests /\ auth[t[1]].account \in Owner
  BY DEF Threads, SomeAuth
<1>2. \A how \in {"done", "failed"} : Ended(how) \in Call
  BY CallBegins DEF Ended
<1> HIDE DEF f
<1>3. CASE Ask(t)
  <2>1. PICK g \in Answers(t[1], f) : Goto(t, g) /\ f.at = "ask"
    BY <1>3 DEF Ask, At, f
  <2> QED
    BY <1>1, <2>1, AnswersType DEF Leads, f
<1>4. CASE DetermineDirect(t) \/ DetermineFails(t)
  BY <1>4, <1>2 DEF DetermineDirect, DetermineFails, At, Leads
<1>5. CASE DetermineAcquire(t)
  <2> DEFINE g == [f EXCEPT !.at = "ensure", !.why = "determine"]
  <2>1. Goto(t, g) /\ f.at = "determine"
    BY <1>5 DEF DetermineAcquire, At, f
  <2>2. g \in Call /\ g.at = "ensure" /\ g.why = "determine"
    BY <1>1 DEF Call
  <2> HIDE DEF g
  <2> QED
    BY <2>1, <2>2 DEF Leads, f
<1>6. CASE Ensure(t)
  <2> DEFINE g == [f EXCEPT !.at = "login", !.who = auth[t[1]].account]
  <2>1. (Goto(t, Ensured(f)) \/ Goto(t, g)) /\ f.at = "ensure"
    BY <1>6 DEF Ensure, At, f
  <2>2. Ensured(f) \in Call /\ Leads(f, Ensured(f))
    BY <1>1, <2>1, EnsuredType DEF Leads
  <2>3. g \in Call /\ g.at = "login" /\ g.why = f.why
    BY <1>1 DEF Call
  <2> HIDE DEF g
  <2>4. Leads(f, g)
    BY <2>1, <2>3 DEF Leads
  <2> QED
    BY <2>1, <2>2, <2>3, <2>4 DEF f
<1>7. CASE Login(t)
  <2> DEFINE at == IF f.why = "refresh" THEN "leave" ELSE "giveback"
             h == [f EXCEPT !.who = NoAccount]
             g == [f EXCEPT !.who = NoAccount, !.at = at]
  <2>1. (Goto(t, Ensured(h)) \/ Goto(t, g)) /\ f.at = "login"
    BY <1>7 DEF Login, At, f
  <2>2. at \in Ats
    BY DEF Ats
  <2> HIDE DEF at
  <2>3. h \in Call /\ h.why = f.why
    BY <1>1, <2>2 DEF Call, Owner, Ats
  <2>4. g \in Call /\ g.why = f.why /\ g.at = at
    BY <1>1, <2>2 DEF Call, Owner, Ats
  <2> HIDE DEF g, h
  <2>5. Ensured(h) \in Call /\ Leads(f, Ensured(h))
    BY <2>1, <2>3, EnsuredType DEF Leads
  <2>6. Leads(f, g)
    BY <2>1, <2>4 DEF Leads, at
  <2> QED
    BY <2>1, <2>4, <2>5, <2>6 DEF f
<1>8. CASE RefreshToken(t)
  <2> DEFINE g == [f EXCEPT !.at = "login", !.who = auth[t[1]].account, !.why = "refresh"]
  <2>1. Goto(t, g) /\ f.at = "refresh"
    BY <1>8 DEF RefreshToken, At, f
  <2>2. g \in Call /\ g.at = "login" /\ g.why = "refresh"
    BY <1>1 DEF Call
  <2> HIDE DEF g
  <2> QED
    BY <2>1, <2>2 DEF Leads, f
<1>9. CASE LeaveAccount(t)
  <2> DEFINE g == [f EXCEPT !.at = "reacquire", !.why = "switch"]
  <2>1. Goto(t, g) /\ f.at = "leave"
    BY <1>9 DEF LeaveAccount, At, f
  <2>2. g \in Call /\ g.at = "reacquire" /\ g.why = "switch"
    BY <1>1 DEF Call
  <2> HIDE DEF g
  <2> QED
    BY <2>1, <2>2 DEF Leads, f
<1>10. CASE Reacquire(t)
  <2> DEFINE g == [f EXCEPT !.at = "ensure"]
  <2>1. Goto(t, g) /\ f.at = "reacquire"
    BY <1>10 DEF Reacquire, At, f
  <2>2. g \in Call /\ g.at = "ensure" /\ g.why = f.why
    BY <1>1 DEF Call
  <2> HIDE DEF g
  <2> QED
    BY <2>1, <2>2 DEF Leads, f
<1>11. CASE NoneFree(t)
  <2> DEFINE h == [f EXCEPT !.why = "determine"]
  <2>1. Goto(t, NextAttempt(h)) /\ f.at = "reacquire"
    BY <1>11 DEF NoneFree, At, f
  <2>2. h \in Call
    BY <1>1 DEF Call
  <2> HIDE DEF h
  <2> QED
    BY <2>1, <2>2, NextAttemptType DEF Leads, f
<1>12. CASE GiveBack(t)
  <2> DEFINE at == IF f.why = "determine" THEN "determine" ELSE "reacquire"
             g == [f EXCEPT !.at = at]
  <2>1. Goto(t, g) /\ f.at = "giveback"
    BY <1>12 DEF GiveBack, At, f
  <2>2. at \in Ats
    BY DEF Ats
  <2> HIDE DEF at
  <2>3. g \in Call /\ g.at = at /\ g.why = f.why
    BY <1>1, <2>2 DEF Call, Ats
  <2> HIDE DEF g
  <2> QED
    BY <2>1, <2>3 DEF Leads, f, at
<1> QED
  BY <1>3, <1>4, <1>5, <1>6, <1>7, <1>8, <1>9, <1>10, <1>11, <1>12 DEF ThreadStep

\* Where a step leads, the phase allows.
LEMMA StagesFollow ==
  ASSUME NEW f, NEW g, Leads(f, g)
  PROVE  /\ f.at # "off"
         /\ DetermineStage(f) => DetermineStage(g)
         /\ CallStage(f) => CallStage(g)
<1>1. \A how \in {"done", "failed"} : Ended(how).at = how /\ Ended(how).why = "determine"
  BY DEF Ended, Off
<1> QED
  BY <1>1 DEF Leads, DetermineStage, CallStage

\* The parts of a thread; the names of threads are distinct.
LEMMA ThreadsOf ==
  /\ \A t \in Threads : t[1] \in Requests /\ t[2] \in Kinds /\ t = <<t[1], t[2]>>
  /\ \A r \in Requests, k \in Kinds : <<r, k>> \in Threads /\ <<r, k>>[1] = r /\ <<r, k>>[2] = k
  /\ \A r \in Requests : Main(r) \in Threads /\ Main(r)[1] = r /\ Main(r)[2] = "main"
  /\ "main" \in Kinds /\ "pow" \in Kinds /\ Files \subseteq Kinds
  /\ "main" \notin Files /\ "pow" \notin Files
  BY SharedAuthAssumption DEF Threads, Kinds, Main

\* At the start no thread runs.
LEMMA ThreadInit == Init => ThreadInv
<1> SUFFICES ASSUME Init PROVE ThreadInv
  OBVIOUS
<1>1. run = [t \in Threads |-> Off] /\ Off \in Call
  BY CallBegins DEF Init, SharedInit
<1>2. auth \in [Requests -> SomeAuth]
  BY DEF Init, SharedInit, SomeAuth, Owner
<1>3. kind \in [Requests -> Roles]
  BY StreamLeasesAssumption DEF Init
<1>4. DOMAIN blocks = Requests /\ \A r \in Requests : Range(blocks[r]) \subseteq Files
  BY DEF Init, Range
<1>5. \A t \in Threads : Staged(t)
  BY <1>1, ThreadsOf DEF Init, Staged, CallStage, Off
<1> QED
  BY <1>1, <1>2, <1>3, <1>4, <1>5 DEF ThreadInv

\* A step of one thread.
LEMMA ThreadStepStaged ==
  ASSUME ThreadInv, NEW t \in Threads, ThreadStep(t), UNCHANGED leaseVars
  PROVE  ThreadInv'
<1>1. PICK g \in Call : Goto(t, g) /\ Leads(run[t], g)
  BY ThreadLeads DEF ThreadInv
<1>2. run' \in [Threads -> Call] /\ \A u \in Threads : run'[u] = IF u = t THEN g ELSE run[u]
  BY <1>1 DEF ThreadInv, Goto
<1>3. UNCHANGED <<kind, blocks, phase>>
  BY DEF leaseVars
<1>4. ASSUME NEW u \in Threads PROVE Staged(u)'
  <2>1. CASE u = t
    BY <1>1, <1>2, <1>3, <2>1, StagesFollow DEF ThreadInv, Staged
  <2>2. CASE u # t
    BY <1>2, <1>3, <2>2 DEF ThreadInv, Staged
  <2> QED
    BY <2>1, <2>2
<1>5. auth' \in [Requests -> SomeAuth]
  <2> DEFINE r == t[1]
             a == auth[r]
  <2>1. r \in Requests /\ a \in SomeAuth /\ run[t].who \in Owner
    BY ThreadsOf DEF ThreadInv, Call
  <2> HIDE DEF r, a
  <2>2. CASE UNCHANGED auth
    BY <2>2 DEF ThreadInv
  <2>3. ASSUME NEW id \in Ids, Got(t, id) PROVE auth' \in [Requests -> SomeAuth]
    <3> DEFINE b == [a EXCEPT !.account = id, !.copy = stored[id] # NoAccount]
    <3>1. auth' = [auth EXCEPT ![r] = b]
      BY <2>1, <2>3 DEF Got, ThreadInv, a, r
    <3>2. b \in SomeAuth
      BY <2>1 DEF SomeAuth, Owner
    <3> HIDE DEF b
    <3> QED
      BY <2>1, <3>1, <3>2 DEF ThreadInv
  <2>4. CASE auth' = [auth EXCEPT ![r].token = a.account]
    <3> DEFINE b == [a EXCEPT !.token = a.account]
    <3>1. auth' = [auth EXCEPT ![r] = b]
      BY <2>4 DEF a
    <3>2. b \in SomeAuth
      BY <2>1 DEF SomeAuth
    <3> HIDE DEF b
    <3> QED
      BY <2>1, <3>1, <3>2 DEF ThreadInv
  <2>5. CASE auth' = [auth EXCEPT ![r].token = run[t].who, ![r].copy = TRUE]
    <3> DEFINE b == [a EXCEPT !.token = run[t].who, !.copy = TRUE]
    <3>1. auth' = [auth EXCEPT ![r] = b]
      BY <2>1, <2>5 DEF a, ThreadInv
    <3>2. b \in SomeAuth
      BY <2>1 DEF SomeAuth
    <3> HIDE DEF b
    <3> QED
      BY <2>1, <3>1, <3>2 DEF ThreadInv
  <2>6. CASE auth' = [auth EXCEPT ![r].copy = FALSE]
    <3> DEFINE b == [a EXCEPT !.copy = FALSE]
    <3>1. auth' = [auth EXCEPT ![r] = b]
      BY <2>6 DEF a
    <3>2. b \in SomeAuth
      BY <2>1 DEF SomeAuth
    <3> HIDE DEF b
    <3> QED
      BY <2>1, <3>1, <3>2 DEF ThreadInv
  <2>7. CASE auth' = [auth EXCEPT ![r].tried = @ \union {auth[r].account}]
    <3> DEFINE b == [a EXCEPT !.tried = @ \union {a.account}]
    <3>1. auth' = [auth EXCEPT ![r] = b]
      BY <2>7 DEF a
    <3>2. b \in SomeAuth
      BY <2>1 DEF SomeAuth
    <3> HIDE DEF b
    <3> QED
      BY <2>1, <3>1, <3>2 DEF ThreadInv
  <2> QED
    BY <2>2, <2>3, <2>4, <2>5, <2>6, <2>7 DEF ThreadStep, Ask, DetermineDirect, DetermineAcquire,
      DetermineFails, Ensure, Login, RefreshToken, LeaveAccount, Reacquire, NoneFree, GiveBack,
      sharedVarsButRun, r, a
<1> QED
  BY <1>2, <1>3, <1>4, <1>5 DEF ThreadInv

\* A request in the phase of its handler alone has no other thread.
LEMMA HandlerAlone ==
  ASSUME ThreadInv, NEW r \in Requests, NEW k \in Kinds, run[<<r, k>>].at # "off"
  PROVE  phase[r] \in PhasesOf(k)
  BY ThreadsOf DEF ThreadInv, Staged

\* A step of the handler: its thread begins or ends a call.
LEMMA HandlerStaged ==
  ASSUME ThreadInv, phase \in [Requests -> Phases], NEW r \in Requests, NEW g \in Call, NEW next,
         phase[r] \notin {"uploads", "held"}, Goto(Main(r), g), Phase(r, next),
         g.at # "off" => next \in PhasesOf("main"),
         IF next = "determine" THEN DetermineStage(g) ELSE CallStage(g)
  PROVE  run' \in [Threads -> Call] /\ \A t \in Threads : Staged(t)'
<1>1. run' \in [Threads -> Call] /\ \A t \in Threads : run'[t] = IF t = Main(r) THEN g ELSE run[t]
  BY ThreadsOf DEF Goto, ThreadInv
<1>2. \A q \in Requests : phase'[q] = IF q = r THEN next ELSE phase[q]
  BY DEF Phase
<1>3. ASSUME NEW t \in Threads PROVE Staged(t)'
  <2>1. CASE t = Main(r)
    BY <1>1, <1>2, <2>1, ThreadsOf DEF Staged
  <2>2. CASE t[1] = r /\ t # Main(r)
    <3>1. t[2] # "main" /\ t = <<r, t[2]>> /\ t[2] \in Kinds
      BY <2>2, ThreadsOf DEF Main
    <3>2. phase[r] \notin PhasesOf(t[2])
      BY <3>1 DEF PhasesOf
    <3>3. run[t].at = "off"
      BY <3>1, <3>2, HandlerAlone
    <3>4. run'[t] = run[t] /\ CallStage(run[t])
      BY <1>1, <2>2, <3>1 DEF ThreadInv, Staged
    <3> QED
      BY <3>1, <3>3, <3>4 DEF Staged
  <2>3. CASE t[1] # r
    <3>1. run'[t] = run[t] /\ phase'[t[1]] = phase[t[1]]
      BY <1>1, <1>2, <2>3, ThreadsOf
    <3> QED
      BY <3>1 DEF ThreadInv, Staged
  <2> QED
    BY <2>1, <2>2, <2>3
<1> QED
  BY <1>1, <1>3

\* Another thread of a request starts or ends.
LEMMA WorkerStaged ==
  ASSUME ThreadInv, NEW r \in Requests, NEW k \in Kinds, k # "main", NEW g \in Call, Goto(<<r, k>>, g),
         phase[r] \in PhasesOf(k), CallStage(g), phase' = phase
  PROVE  run' \in [Threads -> Call] /\ \A t \in Threads : Staged(t)'
<1>1. run' \in [Threads -> Call] /\ \A t \in Threads : run'[t] = IF t = <<r, k>> THEN g ELSE run[t]
  BY ThreadsOf DEF Goto, ThreadInv
<1>2. \A t \in Threads : Staged(t)'
  BY <1>1, ThreadsOf DEF ThreadInv, Staged
<1> QED
  BY <1>1, <1>2

\* Every step keeps which threads run in which phase.
LEMMA ThreadNext == LeaseInv /\ ThreadInv /\ [Next]_vars => ThreadInv'
<1> SUFFICES ASSUME LeaseInv, ThreadInv, [Next]_vars PROVE ThreadInv'
  OBVIOUS
<1>1. /\ phase \in [Requests -> Phases] /\ kind \in [Requests -> Roles]
      /\ run \in [Threads -> Call] /\ DOMAIN blocks = Requests
      /\ \A r \in Requests : Range(blocks[r]) \subseteq Files
  BY DEF LeaseInv, ThreadInv
<1>2. /\ Off \in Call /\ CallStage(Off) /\ Off.at = "off"
      /\ [Off EXCEPT !.at = "determine"] \in Call /\ DetermineStage([Off EXCEPT !.at = "determine"])
      /\ \A how \in {"wait", "failed"} :
           [Off EXCEPT !.at = how] \in Call /\ CallStage([Off EXCEPT !.at = how])
  BY CallBegins DEF CallStage, DetermineStage, Off
<1>3. ASSUME NEW r \in Requests, NEW op \in {"session", "pow", "upload"}
      PROVE  LET g == Begin(op, MaxAttempts[kind[r]]) IN g \in Call /\ CallStage(g)
  <2>1. MaxAttempts[kind[r]] \in Nat
    BY <1>1, StreamLeasesAssumption
  <2>2. Begin(op, MaxAttempts[kind[r]]) \in Call /\ Begin(op, MaxAttempts[kind[r]]).at = "ask"
    BY <2>1, CallBegins
  <2> QED
    BY <2>2 DEF CallStage
<1>4. ASSUME UNCHANGED <<run, auth, kind, blocks, phase>> PROVE ThreadInv'
  BY <1>4 DEF ThreadInv, Staged
<1>5. ASSUME run' \in [Threads -> Call] /\ \A t \in Threads : Staged(t)',
             UNCHANGED <<auth, kind>>,
             DOMAIN blocks' = Requests /\ \A r \in Requests : Range(blocks'[r]) \subseteq Files
      PROVE  ThreadInv'
  BY <1>5 DEF ThreadInv
<1>6. ASSUME NEW t \in Threads, ThreadStep(t), UNCHANGED leaseVars
      PROVE  ThreadInv'
  BY <1>6, ThreadStepStaged
<1>7. ASSUME NEW r \in Requests, Arrive(r)
      PROVE  ThreadInv'
  <2> DEFINE g == [Off EXCEPT !.at = "determine"]
  <2>1. /\ phase[r] = "new" /\ Goto(Main(r), g) /\ Phase(r, "determine")
        /\ UNCHANGED <<auth, kind, blocks>>
    BY <1>7 DEF Arrive, sharedVarsButRun
  <2>2. g \in Call /\ DetermineStage(g)
    BY <1>2
  <2> HIDE DEF g
  <2>3. run' \in [Threads -> Call] /\ \A t \in Threads : Staged(t)'
    BY <1>1, <2>1, <2>2, HandlerStaged DEF PhasesOf
  <2> QED
    BY <1>1, <1>5, <2>1, <2>3
<1>8. ASSUME NEW r \in Requests, Admitted(r)
      PROVE  ThreadInv'
  <2>1. PICK g \in Call, next \in Phases \ {"determine"} :
          /\ Goto(Main(r), g) /\ Phase(r, next) /\ CallStage(g)
          /\ g.at # "off" => next \in PhasesOf("main")
    BY <1>8, <1>2, <1>3 DEF Admitted, Calls, Phases, PhasesOf
  <2>2. run' \in [Threads -> Call] /\ \A t \in Threads : Staged(t)'
    <3>1. phase[r] = "determine"
      BY <1>8 DEF Admitted
    <3> QED
      BY <1>1, <2>1, <3>1, HandlerStaged
  <2>3. DOMAIN blocks' = Requests /\ \A q \in Requests : Range(blocks'[q]) \subseteq Files
    <3>1. CASE UNCHANGED blocks
      BY <1>1, <3>1
    <3>2. CASE \E b \in FileInputs(kind[r]) : blocks' = [blocks EXCEPT ![r] = b]
      <4>1. PICK b \in FileInputs(kind[r]) : blocks' = [blocks EXCEPT ![r] = b]
        BY <3>2
      <4>2. Range(b) \subseteq Files
        BY <4>1 DEF FileInputs, Range
      <4> QED
        BY <1>1, <4>1, <4>2
    <3> QED
      BY <1>8, <3>1, <3>2 DEF Admitted
  <2>4. UNCHANGED <<auth, kind>>
    BY <1>8 DEF Admitted, sharedVarsButRun
  <2> QED
    BY <1>5, <2>2, <2>3, <2>4
<1>9. ASSUME NEW r \in Requests, Rejected(r) \/ Prepare(r) \/ CallEnds(r)
      PROVE  ThreadInv'
  <2>1. PICK g \in Call, next \in Phases \ {"determine"} :
          /\ Goto(Main(r), g) /\ Phase(r, next) /\ CallStage(g)
          /\ g.at # "off" => next \in PhasesOf("main")
    <3>1. CASE Rejected(r)
      BY <1>2, <3>1 DEF Rejected, Phases
    <3>2. CASE Prepare(r)
      <4>1. run[Main(r)] = run[Main(r)] /\ Main(r) \in Threads /\ At(Main(r), "off") /\ phase[r] = "input"
        BY <3>2, ThreadsOf DEF Prepare
      <4>2. CASE Phase(r, "close") /\ UNCHANGED run
        <5>1. Goto(Main(r), run[Main(r)]) /\ run[Main(r)] \in Call /\ CallStage(run[Main(r)])
          BY <1>1, <4>1, <4>2, ThreadsOf DEF Goto, ThreadInv, Staged
        <5> QED
          BY <4>1, <4>2, <5>1 DEF At, Phases
      <4>3. CASE UNCHANGED phase /\ Calls(r, "upload")
        <5>1. Phase(r, "input")
          BY <1>1, <4>1, <4>3 DEF Phase
        <5> QED
          BY <1>3, <4>3, <5>1 DEF Calls, Phases, PhasesOf
      <4>4. CASE Phase(r, "session") /\ Calls(r, "session")
        BY <1>3, <4>4 DEF Calls, Phases, PhasesOf
      <4> QED
        BY <3>2, <4>2, <4>3, <4>4 DEF Prepare
    <3>3. CASE CallEnds(r)
      <4>1. \/ Phase(r, "close") /\ Goto(Main(r), Off)
            \/ Phase(r, "session") /\ Calls(r, "session")
            \/ Phase(r, "pow") /\ Calls(r, "pow")
            \/ Phase(r, "hold") /\ Goto(Main(r), Off)
        BY <3>3 DEF CallEnds
      <4> QED
        BY <1>2, <1>3, <4>1 DEF Calls, Phases, PhasesOf
    <3> QED
      BY <1>9, <3>1, <3>2, <3>3
  <2>2. phase[r] \notin {"uploads", "held"} /\ UNCHANGED <<auth, kind, blocks>>
    BY <1>9 DEF Rejected, Prepare, CallEnds, sharedVarsButRun
  <2>3. run' \in [Threads -> Call] /\ \A t \in Threads : Staged(t)'
    BY <1>1, <2>1, <2>2, HandlerStaged
  <2> QED
    BY <1>1, <1>5, <2>2, <2>3
<1>10. ASSUME NEW r \in Requests, Walk(r)
      PROVE  ThreadInv'
  <2>1. phase[r] = "walk" /\ UNCHANGED <<auth, kind, blocks>>
    BY <1>10 DEF Walk, sharedVarsButRun
  <2>2. CASE Phase(r, "close") /\ UNCHANGED run
    <3>1. ASSUME NEW t \in Threads PROVE Staged(t)'
      <4>1. t[1] = r => run[t].at = "off"
        BY <2>1, HandlerAlone, ThreadsOf DEF PhasesOf
      <4> QED
        BY <1>1, <2>1, <2>2, <4>1, ThreadsOf DEF ThreadInv, Staged, Phase
    <3> QED
      BY <1>1, <1>5, <2>1, <2>2, <3>1
  <2>3. CASE /\ Phase(r, "uploads")
             /\ run' = [t \in Threads |->
                  IF t[1] = r /\ t[2] \in Unique(r) THEN [Off EXCEPT !.at = "wait"] ELSE run[t]]
    <3>1. Unique(r) \subseteq Files
      BY <1>1 DEF Unique
    <3>2. run' \in [Threads -> Call]
      BY <1>1, <1>2, <2>3
    <3>3. ASSUME NEW t \in Threads PROVE Staged(t)'
      <4>1. CASE t[1] = r /\ t[2] \in Unique(r)
        <5>1. "uploads" \in PhasesOf(t[2])
          BY <3>1, <4>1, ThreadsOf DEF PhasesOf
        <5>2. phase'[t[1]] = "uploads" /\ CallStage(run'[t])
          BY <1>1, <1>2, <2>3, <4>1 DEF Phase
        <5> QED
          BY <5>1, <5>2 DEF Staged
      <4>2. CASE t[1] = r /\ t[2] \notin Unique(r)
        <5>1. run'[t] = run[t] /\ run[t].at = "off"
          BY <2>1, <2>3, <4>2, HandlerAlone, ThreadsOf DEF PhasesOf
        <5> QED
          BY <1>1, <2>1, <2>3, <4>2, <5>1 DEF ThreadInv, Staged, Phase
      <4>3. CASE t[1] # r
        <5>1. run'[t] = run[t] /\ phase'[t[1]] = phase[t[1]]
          BY <1>1, <2>3, <4>3, ThreadsOf DEF Phase
        <5> QED
          BY <5>1 DEF ThreadInv, Staged
      <4> QED
        BY <4>1, <4>2, <4>3
    <3> QED
      BY <1>1, <1>5, <2>1, <3>2, <3>3
  <2> QED
    BY <1>10, <2>2, <2>3 DEF Walk
<1>11. ASSUME NEW r \in Requests, UploadsEnd(r)
      PROVE  ThreadInv'
  <2>1. /\ run' = [t \in Threads |-> IF t[1] = r THEN Off ELSE run[t]]
        /\ Phase(r, "close") \/ Phase(r, "input")
        /\ UNCHANGED <<auth, kind, blocks>>
    BY <1>11 DEF UploadsEnd, sharedVarsButRun
  <2>2. run' \in [Threads -> Call]
    BY <1>1, <1>2, <2>1
  <2>3. ASSUME NEW t \in Threads PROVE Staged(t)'
    <3>1. CASE t[1] = r
      <4>1. run'[t] = Off /\ phase'[t[1]] # "determine"
        BY <1>1, <2>1, <3>1 DEF Phase
      <4> QED
        BY <1>2, <4>1 DEF Staged
    <3>2. CASE t[1] # r
      <4>1. run'[t] = run[t] /\ phase'[t[1]] = phase[t[1]]
        BY <1>1, <2>1, <3>2, ThreadsOf DEF Phase
      <4> QED
        BY <4>1 DEF ThreadInv, Staged
    <3> QED
      BY <3>1, <3>2
  <2> QED
    BY <1>1, <1>5, <2>1, <2>2, <2>3
<1>12. ASSUME NEW r \in Requests, NEW f \in Files, UploadBegins(r, f)
      PROVE  ThreadInv'
  <2>1. PICK g \in Call : Goto(<<r, f>>, g) /\ CallStage(g)
    <3>1. Ended("failed") \in Call /\ CallStage(Ended("failed"))
      BY <1>2 DEF Ended
    <3> QED
      BY <1>12, <1>3, <1>2, <3>1 DEF UploadBegins
  <2>2. run[<<r, f>>].at = "wait" /\ UNCHANGED <<auth, kind, blocks, phase>>
    BY <1>12 DEF UploadBegins, At, sharedVarsButRun, leaseVars
  <2>3. phase[r] \in PhasesOf(f)
    BY <2>2, HandlerAlone, ThreadsOf
  <2>4. run' \in [Threads -> Call] /\ \A t \in Threads : Staged(t)'
    BY <2>1, <2>2, <2>3, WorkerStaged, ThreadsOf
  <2> QED
    BY <1>1, <1>5, <2>2, <2>4
<1>13. ASSUME NEW r \in Requests, lookupStreamLeaseAuth(r) \/ PowAnswered(r)
      PROVE  ThreadInv'
  <2>1. PICK g \in Call : Goto(<<r, "pow">>, g) /\ CallStage(g)
    BY <1>13, <1>3, <1>2 DEF lookupStreamLeaseAuth, PowAnswered
  <2>2. UNCHANGED <<auth, kind, blocks, phase>>
    BY <1>13 DEF lookupStreamLeaseAuth, PowAnswered, sharedVarsButRun, leaseVars
  <2>3. phase[r] \in PhasesOf("pow")
    <3>1. CASE lookupStreamLeaseAuth(r)
      BY <3>1 DEF lookupStreamLeaseAuth, LeaseInv, PhasesOf
    <3>2. CASE PowAnswered(r)
      <4>1. run[<<r, "pow">>].at # "off"
        BY <3>2 DEF PowAnswered
      <4> QED
        BY <4>1, HandlerAlone, ThreadsOf
    <3> QED
      BY <1>13, <3>1, <3>2
  <2>4. run' \in [Threads -> Call] /\ \A t \in Threads : Staged(t)'
    BY <2>1, <2>2, <2>3, WorkerStaged, ThreadsOf
  <2> QED
    BY <1>1, <1>5, <2>2, <2>4
<1>14. ASSUME NEW r \in Requests, holdStreamLease(r) \/ Close(r)
      PROVE  ThreadInv'
  <2>1. /\ phase[r] \in {"hold", "close"} /\ (Phase(r, "held") \/ Phase(r, "over"))
        /\ UNCHANGED <<run, auth, kind, blocks>>
    BY <1>14 DEF holdStreamLease, Close, NoCall, sharedVars, Release
  <2>2. ASSUME NEW t \in Threads PROVE Staged(t)'
    <3>1. t[1] = r => run[t].at = "off"
      BY <2>1, HandlerAlone, ThreadsOf DEF PhasesOf
    <3> QED
      BY <1>1, <2>1, <3>1, ThreadsOf DEF ThreadInv, Staged, Phase
  <2> QED
    BY <1>1, <1>5, <2>1, <2>2
<1>15. ASSUME NEW r \in Requests, LeaseExpires(r) \/ releaseStreamLease(r) \/ releasePopped(r)
       PROVE  ThreadInv'
  BY <1>15, <1>4 DEF LeaseExpires, releaseStreamLease, releasePopped, NoCall, sharedVars, Release
<1>16. ASSUME UNCHANGED vars
       PROVE  ThreadInv'
  BY <1>16, <1>4 DEF vars, sharedVars, leaseVars
<1> QED
  BY <1>6, <1>7, <1>8, <1>9, <1>10, <1>11, <1>12, <1>13, <1>14, <1>15, <1>16 DEF Next

(***************************************************************************)
(* Whatever the number of files, of parallel uploads and of attempts: when *)
(* a request goes on, none of its uploads runs any more.                   *)
(***************************************************************************)
THEOREM UploadsCorrect == Spec => []UploadsEndFirst
<1>1. ThreadInv => UploadsEndFirst
  BY HandlerAlone, ThreadsOf DEF UploadsEndFirst, PhasesOf
<1> QED
  BY <1>1, LeaseInit, LeaseStep, ThreadInit, ThreadNext, PTL DEF Spec

-----------------------------------------------------------------------------
(***************************************************************************)
(* The accounts: as long as no two threads changed it at a time, a request *)
(* has one slot, that of its account, or none, by what its threads do.     *)
(***************************************************************************)

Changes == {"login", "reacquire", "ensure", "giveback"}

\* Determine has not given the request an account, or the request had none.
Unready(r) ==
  \/ phase[r] \in {"new", "over"}
  \/ phase[r] = "determine" /\ run[Main(r)].at \in {"determine", "failed"}

EmptyHanded(r) ==
  \/ ~auth[r].managed
  \/ r \in stray
  \/ released[r] > 0
  \/ Unready(r)
  \/ \E k \in Kinds : At(<<r, k>>, "reacquire")

Handed(r) ==
  /\ EmptyHanded(r) => \A id \in Ids : slots[r][id] = 0
  /\ ~EmptyHanded(r) => /\ auth[r].account \in Ids
                        /\ slots[r][auth[r].account] = 1
                        /\ \A id \in Ids \ {auth[r].account} : slots[r][id] = 0

\* One thread at a time changes the account, and none after the release.
Sole(r) ==
  \A k \in Kinds : run[<<r, k>>].at \in Changes =>
    /\ released[r] = 0
    /\ \A l \in Kinds \ {k} : run[<<r, l>>].at \notin Changes

\* The account, or its token, is not yet the one that the request will have.
Moving(f) ==
  f.at \in {"ensure", "giveback", "reacquire"} \/ (f.at = "login" /\ f.why # "refresh")

Matching(r) ==
  /\ \A k \in Kinds : At(<<r, k>>, "login") => run[<<r, k>>].who = auth[r].account
  /\ auth[r].managed /\ r \notin stray /\ ~Unready(r) /\ (\A k \in Kinds : ~Moving(run[<<r, k>>]))
       => auth[r].token = auth[r].account

\* A caller with a token of its own has no account.
Unmanaged(r) ==
  ~auth[r].managed =>
    /\ auth[r].account = NoAccount
    /\ \A k \in Kinds : run[<<r, k>>].at \notin Changes \union {"refresh", "leave"}

AccountOf(r) ==
  /\ Unmanaged(r)
  /\ r \notin shaken => Handed(r) /\ Sole(r) /\ Matching(r)

AccountInv ==
  /\ slots \in [Requests -> [Ids -> Nat]]
  /\ \A r \in Requests : AccountOf(r)

\* At the start no request has an account.
LEMMA AccountInit == Init => AccountInv
<1> SUFFICES ASSUME Init PROVE AccountInv
  OBVIOUS
<1>1. /\ slots = [r \in Requests |-> [id \in Ids |-> 0]]
      /\ \A r \in Requests : auth[r].account = NoAccount /\ phase[r] = "new"
      /\ \A r \in Requests, k \in Kinds : run[<<r, k>>].at = "off"
  BY ThreadsOf DEF Init, SharedInit, Off
<1>2. ASSUME NEW r \in Requests PROVE AccountOf(r)
  BY <1>1, <1>2 DEF AccountOf, Unmanaged, Handed, EmptyHanded, Unready, Sole, Matching, Changes, Moving, At
<1> QED
  BY <1>1, <1>2 DEF AccountInv

-----------------------------------------------------------------------------
(***************************************************************************)
(* Steps that leave an account alone.                                      *)
(***************************************************************************)

\* What belongs to q stays, but for threads that start or end a call, and q is as
\* far from having an account as before.
Calm(q) ==
  /\ auth'[q] = auth[q] /\ slots'[q] = slots[q] /\ released'[q] = released[q]
  /\ q \in stray' <=> q \in stray
  /\ q \in shaken => q \in shaken'
  /\ \A k \in Kinds :
       \/ run'[<<q, k>>] = run[<<q, k>>]
       \/ /\ run[<<q, k>>].at \notin Changes /\ run'[<<q, k>>].at \notin Changes
          /\ run'[<<q, k>>].at \in {"refresh", "leave"} => auth[q].managed
  /\ auth[q].managed => (Unready(q)' <=> Unready(q))

\* A request whose threads, account and slots do not change keeps its account.
LEMMA CalmKeeps ==
  ASSUME NEW q \in Requests, AccountOf(q), Calm(q)
  PROVE  AccountOf(q)'
<1>1. Unmanaged(q)'
  BY DEF AccountOf, Calm, Unmanaged
<1>2. ASSUME q \notin shaken' PROVE Handed(q)' /\ Sole(q)' /\ Matching(q)'
  <2>1. q \notin shaken /\ Handed(q) /\ Sole(q) /\ Matching(q)
    BY <1>2 DEF AccountOf, Calm
  <2>2. (\E k \in Kinds : At(<<q, k>>, "reacquire"))' <=> \E k \in Kinds : At(<<q, k>>, "reacquire")
    BY DEF Calm, At, Changes
  <2>3. EmptyHanded(q)' <=> EmptyHanded(q)
    BY <2>2 DEF Calm, EmptyHanded
  <2>4. Handed(q)'
    BY <2>1, <2>3 DEF Handed, Calm
  <2>5. Sole(q)'
    BY <2>1 DEF Sole, Calm
  <2>6. Matching(q)'
    BY <2>1 DEF Matching, Calm, At, Changes, Moving
  <2> QED
    BY <2>4, <2>5, <2>6
<1> QED
  BY <1>1, <1>2 DEF AccountOf

\* The handler of r alone takes a step, and calls nobody.
LEMMA HandlerCalm ==
  ASSUME NEW r \in Requests, ThreadInv, AccountInv, phase \in [Requests -> Phases],
         UNCHANGED <<auth, slots, released, stray, shaken>>,
         \A q \in Requests \ {r} : phase'[q] = phase[q],
         \A t \in Threads : t[1] # r => run'[t] = run[t],
         \A k \in Kinds : \/ run'[<<r, k>>] = run[<<r, k>>]
                          \/ /\ run[<<r, k>>].at \notin Changes
                             /\ run'[<<r, k>>].at \notin Changes \union {"refresh", "leave"},
         Unready(r)' <=> Unready(r)
  PROVE  AccountInv'
<1>1. Calm(r)
  BY DEF Calm
<1>2. ASSUME NEW q \in Requests \ {r} PROVE Calm(q)
  <2>1. \A k \in Kinds : run'[<<q, k>>] = run[<<q, k>>]
    BY <1>2, ThreadsOf
  <2>2. run'[Main(q)] = run[Main(q)] /\ phase'[q] = phase[q]
    BY <1>2, ThreadsOf
  <2> QED
    BY <2>1, <2>2 DEF Calm, Unready
<1> QED
  BY <1>1, <1>2, CalmKeeps DEF AccountInv

-----------------------------------------------------------------------------
(***************************************************************************)
(* Giving a slot back.                                                     *)
(***************************************************************************)

\* Whoever has one slot, of the account, has none after it is given back.
LEMMA SlotGiven ==
  ASSUME AccountInv, NEW r \in Requests, Handed(r), GiveSlot(r)
  PROVE  /\ slots' \in [Requests -> [Ids -> Nat]]
         /\ \A id \in Ids : slots'[r][id] = 0
         /\ \A q \in Requests \ {r} : slots'[q] = slots[q]
<1> DEFINE s == [id \in Ids |-> IF id = auth[r].account /\ slots[r][id] > 0 THEN slots[r][id] - 1
                                ELSE slots[r][id]]
<1>1. slots \in [Requests -> [Ids -> Nat]]
  BY DEF AccountInv
<1>2. slots' = [slots EXCEPT ![r] = s]
  BY <1>1 DEF GiveSlot
<1>3. s \in [Ids -> Nat]
  BY <1>1
<1>4. \A id \in Ids : s[id] = 0
  BY <1>1 DEF Handed
<1> HIDE DEF s
<1> QED
  BY <1>1, <1>2, <1>3, <1>4

\* What it leaves of the slots, even if the account is not the one the request has.
LEMMA SlotGivenType ==
  ASSUME AccountInv, NEW r \in Requests, GiveSlot(r)
  PROVE  /\ slots' \in [Requests -> [Ids -> Nat]]
         /\ \A q \in Requests \ {r} : slots'[q] = slots[q]
<1> DEFINE s == [id \in Ids |-> IF id = auth[r].account /\ slots[r][id] > 0 THEN slots[r][id] - 1
                                ELSE slots[r][id]]
<1>1. slots \in [Requests -> [Ids -> Nat]]
  BY DEF AccountInv
<1>2. slots' = [slots EXCEPT ![r] = s]
  BY <1>1 DEF GiveSlot
<1>3. s \in [Ids -> Nat]
  BY <1>1
<1> HIDE DEF s
<1> QED
  BY <1>1, <1>2, <1>3

\* Resolver.Release: nothing is held any more, or the request is shaken.
LEMMA ReleaseKeeps ==
  ASSUME LeaseInv, ThreadInv, AccountInv, NEW r \in Requests, Release(r), run' = run,
         \A q \in Requests \ {r} : phase'[q] = phase[q],
         phase[r] = "close" \/ phase'[r] = phase[r], phase'[r] \in {"over", "held"}, phase[r] \in {"close", "held"}
  PROVE  AccountInv'
<1>1. /\ released \in [Requests -> Nat] /\ released' = [released EXCEPT ![r] = @ + 1]
      /\ UNCHANGED <<auth, stray>> /\ GiveSlot(r) /\ phase \in [Requests -> Phases]
  BY DEF Release, LeaseInv
<1>2. /\ slots' \in [Requests -> [Ids -> Nat]]
      /\ \A q \in Requests \ {r} : slots'[q] = slots[q]
  BY <1>1, SlotGivenType
<1>3. shaken \subseteq shaken' /\ shaken' \subseteq shaken \union {r}
  BY DEF Release
<1>4. ASSUME NEW q \in Requests \ {r} PROVE AccountOf(q)'
  <2>1. Calm(q)
    BY <1>1, <1>2, <1>3, <1>4 DEF Calm, Unready
  <2> QED
    BY <2>1, CalmKeeps DEF AccountInv
<1>5. Unmanaged(r)'
  BY <1>1 DEF AccountInv, AccountOf, Unmanaged
<1>6. ASSUME r \notin shaken' PROVE Handed(r)' /\ Sole(r)' /\ Matching(r)'
  <2>1. r \notin shaken /\ \A k \in Kinds : ~Changing(<<r, k>>)
    BY <1>6 DEF Release
  <2>2. \A k \in Kinds : run[<<r, k>>].at \notin Changes
    BY <2>1 DEF Changing, Changes
  <2>3. Handed(r) /\ Matching(r)
    BY <2>1 DEF AccountInv, AccountOf
  <2>4. \A id \in Ids : slots'[r][id] = 0
    BY <1>1, <2>3, SlotGiven
  <2>5. released'[r] > 0
    BY <1>1
  <2>6. Handed(r)'
    BY <2>4, <2>5 DEF Handed, EmptyHanded
  <2>7. Sole(r)'
    BY <2>2 DEF Sole
  <2>8. Matching(r)'
    <3>1. ~Unready(r)
      BY DEF Unready
    <3> QED
      BY <1>1, <2>3, <3>1 DEF Matching, At
  <2> QED
    BY <2>6, <2>7, <2>8
<1> QED
  BY <1>2, <1>4, <1>5, <1>6 DEF AccountInv, AccountOf

-----------------------------------------------------------------------------
(***************************************************************************)
(* Steps of a thread.                                                      *)
(***************************************************************************)

\* The thread k of r goes on with g and changes nothing of another request.
Moves(r, k, g) ==
  /\ run' = [run EXCEPT ![<<r, k>>] = g]
  /\ UNCHANGED <<released, phase>>
  /\ \A q \in Requests \ {r} :
       /\ auth'[q] = auth[q] /\ slots'[q] = slots[q]
       /\ q \in stray' <=> q \in stray
       /\ q \in shaken' <=> q \in shaken
  /\ auth'[r].managed = auth[r].managed
  /\ shaken \subseteq shaken'

\* The requests of the other threads keep their account.
LEMMA OthersKeep ==
  ASSUME ThreadInv, AccountInv, NEW r \in Requests, NEW k \in Kinds, NEW g, Moves(r, k, g)
  PROVE  \A q \in Requests \ {r} : AccountOf(q)'
<1> SUFFICES ASSUME NEW q \in Requests \ {r} PROVE AccountOf(q)'
  OBVIOUS
<1>1. run \in [Threads -> Call] /\ <<r, k>> \in Threads
  BY ThreadsOf DEF ThreadInv
<1>2. \A l \in Kinds : run'[<<q, l>>] = run[<<q, l>>]
  BY <1>1, ThreadsOf DEF Moves
<1>3. run'[Main(q)] = run[Main(q)]
  BY <1>2, ThreadsOf DEF Main
<1>4. Calm(q)
  BY <1>2, <1>3 DEF Calm, Moves, Unready
<1> QED
  BY <1>4, CalmKeeps DEF AccountInv

\* The situation of the thread k, which changes the account of r alone.
Alone(r, k) ==
  /\ auth[r].managed /\ released[r] = 0
  /\ phase[r] \notin {"new", "over"}
  /\ phase[r] = "determine" => k = "main"
  /\ \A l \in Kinds \ {k} : run[<<r, l>>].at \notin Changes

\* What a request knows when one thread alone takes a step.
LEMMA AloneFacts ==
  ASSUME ThreadInv, NEW r \in Requests, NEW k \in Kinds, NEW g \in Call, Moves(r, k, g), Alone(r, k)
  PROVE  /\ run'[<<r, k>>] = g
         /\ \A l \in Kinds \ {k} : run'[<<r, l>>] = run[<<r, l>>]
         /\ EmptyHanded(r) <=> \/ r \in stray \/ run[<<r, k>>].at = "reacquire"
                               \/ phase[r] = "determine" /\ run[<<r, k>>].at \in {"determine", "failed"}
         /\ EmptyHanded(r)' <=> \/ r \in stray' \/ g.at = "reacquire"
                                \/ phase[r] = "determine" /\ g.at \in {"determine", "failed"}
         /\ Sole(r)'
         /\ Unready(r) <=> phase[r] = "determine" /\ run[<<r, k>>].at \in {"determine", "failed"}
         /\ Unready(r)' <=> phase[r] = "determine" /\ g.at \in {"determine", "failed"}
<1>1. run \in [Threads -> Call] /\ <<r, k>> \in Threads
  BY ThreadsOf DEF ThreadInv
<1>2. /\ run'[<<r, k>>] = g
      /\ \A l \in Kinds \ {k} : run'[<<r, l>>] = run[<<r, l>>]
  BY <1>1, ThreadsOf DEF Moves
<1>3. \A l \in Kinds \ {k} : run[<<r, l>>].at \notin Changes /\ run'[<<r, l>>].at \notin Changes
  BY <1>2 DEF Alone
<1>4. /\ (\E l \in Kinds : At(<<r, l>>, "reacquire")) <=> run[<<r, k>>].at = "reacquire"
      /\ (\E l \in Kinds : At(<<r, l>>, "reacquire"))' <=> g.at = "reacquire"
  BY <1>2, <1>3 DEF At, Changes
<1>5. /\ Unready(r) <=> phase[r] = "determine" /\ run[<<r, k>>].at \in {"determine", "failed"}
      /\ Unready(r)' <=> phase[r] = "determine" /\ g.at \in {"determine", "failed"}
  BY <1>2 DEF Unready, Alone, Moves, Main
<1>6. /\ auth[r].managed /\ auth'[r].managed /\ ~(released[r] > 0) /\ ~(released'[r] > 0)
  BY DEF Alone, Moves
<1>7. Sole(r)'
  BY <1>2, <1>3 DEF Sole, Alone, Moves
<1> QED
  BY <1>2, <1>4, <1>5, <1>6, <1>7 DEF EmptyHanded

\* What is left to show of a change when the thread is alone.
LEMMA ChangeKeeps ==
  ASSUME ThreadInv, AccountInv, NEW r \in Requests, NEW k \in Kinds, NEW g \in Call, Moves(r, k, g),
         auth[r].managed, slots' \in [Requests -> [Ids -> Nat]],
         r \notin shaken' => Alone(r, k) /\ Handed(r)' /\ Matching(r)'
  PROVE  AccountInv'
<1>1. \A q \in Requests \ {r} : AccountOf(q)'
  BY OthersKeep
<1>2. Unmanaged(r)'
  BY DEF Unmanaged, Moves
<1>3. r \notin shaken' => Sole(r)'
  BY AloneFacts
<1> QED
  BY <1>1, <1>2, <1>3 DEF AccountInv, AccountOf

\* Who changes the account is alone with it, or shakes the request.
LEMMA ChangerAlone ==
  ASSUME LeaseInv, ThreadInv, AccountInv, NEW r \in Requests, NEW k \in Kinds,
         run[<<r, k>>].at \in Changes, r \notin shaken
  PROVE  Alone(r, k)
<1>1. phase[r] \in PhasesOf(k)
  BY HandlerAlone DEF Changes
<1>2. auth[r].managed
  BY DEF AccountInv, AccountOf, Unmanaged
<1>3. Sole(r)
  BY DEF AccountInv, AccountOf
<1> QED
  BY <1>1, <1>2, <1>3 DEF Alone, Sole, PhasesOf

\* So is one that begins to, unless that shakes the request.
LEMMA ToucherAlone ==
  ASSUME LeaseInv, ThreadInv, AccountInv, NEW r \in Requests, NEW k \in Kinds,
         run[<<r, k>>].at \in {"refresh", "leave"}, Touch(<<r, k>>), r \notin shaken'
  PROVE  Alone(r, k) /\ r \notin shaken /\ phase[r] # "determine"
<1>1. phase[r] \in PhasesOf(k)
  BY HandlerAlone
<1>2. auth[r].managed
  BY DEF AccountInv, AccountOf, Unmanaged
<1>3. released[r] \in Nat
  BY DEF LeaseInv
<1>4. /\ r \notin shaken /\ ~(released[r] > 0)
      /\ \A u \in Others(<<r, k>>) : ~Changing(u)
  BY DEF Touch
<1>5. \A l \in Kinds \ {k} : run[<<r, l>>].at \notin Changes
  <2> SUFFICES ASSUME NEW l \in Kinds \ {k} PROVE run[<<r, l>>].at \notin Changes
    OBVIOUS
  <2>1. <<r, l>> \in Others(<<r, k>>)
    BY ThreadsOf DEF Others
  <2> QED
    BY <1>4, <2>1 DEF Changing, Changes
<1>6. phase[r] # "determine"
  <2>1. phase[r] = "determine" => k = "main"
    BY <1>1 DEF PhasesOf
  <2> QED
    BY <2>1, ThreadsOf DEF ThreadInv, Staged, DetermineStage
<1> QED
  BY <1>1, <1>2, <1>3, <1>4, <1>5, <1>6 DEF Alone, PhasesOf

\* The request takes the account that the pool gives it.
LEMMA GotKeeps ==
  ASSUME LeaseInv, ThreadInv, AccountInv, NEW r \in Requests, NEW k \in Kinds, NEW g \in Call,
         NEW id \in Ids, Got(<<r, k>>, id), Goto(<<r, k>>, g), g.at = "ensure", g.why # "refresh",
         phase' = phase, auth[r].managed,
         r \notin shaken => Alone(r, k),
         \/ run[<<r, k>>].at = "reacquire"
         \/ run[<<r, k>>].at = "determine" /\ phase[r] = "determine"
  PROVE  AccountInv'
<1>1. auth \in [Requests -> SomeAuth] /\ slots \in [Requests -> [Ids -> Nat]]
  BY DEF ThreadInv, AccountInv
<1> DEFINE s == [slots[r] EXCEPT ![id] = @ + 1]
           a == [auth[r] EXCEPT !.account = id, !.copy = stored[id] # NoAccount]
<1>2. /\ auth' = [auth EXCEPT ![r] = a] /\ slots' = [slots EXCEPT ![r] = s]
      /\ stray' = stray \ {r} /\ UNCHANGED <<released, shaken>>
  BY <1>1, ThreadsOf DEF Got
<1>3. s \in [Ids -> Nat] /\ s[id] = slots[r][id] + 1 /\ \A x \in Ids \ {id} : s[x] = slots[r][x]
  BY <1>1
<1>4. a.account = id /\ a.managed = auth[r].managed
  BY <1>1 DEF SomeAuth
<1> HIDE DEF s, a
<1>5. Moves(r, k, g)
  BY <1>1, <1>2, <1>4 DEF Moves, Goto
<1>6. slots' \in [Requests -> [Ids -> Nat]]
  BY <1>1, <1>2, <1>3
<1>7. ASSUME r \notin shaken' PROVE Alone(r, k) /\ Handed(r)' /\ Matching(r)'
  <2>1. r \notin shaken /\ Alone(r, k) /\ Handed(r)
    BY <1>2, <1>7 DEF AccountInv, AccountOf
  <2>2. EmptyHanded(r) /\ ~EmptyHanded(r)'
    BY <1>2, <1>5, <2>1, AloneFacts
  <2>3. \A x \in Ids : slots[r][x] = 0
    BY <2>1, <2>2 DEF Handed
  <2>4. slots'[r] = s /\ auth'[r] = a
    BY <1>1, <1>2
  <2>5. Handed(r)'
    BY <1>3, <1>4, <2>2, <2>3, <2>4 DEF Handed
  <2>6. run'[<<r, k>>] = g /\ \A l \in Kinds \ {k} : run'[<<r, l>>].at \notin Changes
    BY <1>5, <2>1, AloneFacts DEF Alone
  <2>7. Matching(r)'
    BY <2>6 DEF Matching, Moving, At, Changes
  <2> QED
    BY <2>1, <2>5, <2>7
<1> QED
  BY <1>5, <1>6, <1>7, ChangeKeeps

\* The request gives its account back before it takes another.
LEMMA GivesKeeps ==
  ASSUME LeaseInv, ThreadInv, AccountInv, NEW r \in Requests, NEW k \in Kinds, NEW g \in Call,
         GiveSlot(r), Goto(<<r, k>>, g), phase' = phase, auth[r].managed,
         auth' = [auth EXCEPT ![r].tried = @ \union {auth[r].account}],
         UNCHANGED <<released, stray>>, shaken' \in {shaken, shaken \union {r}},
         r \notin shaken' => Alone(r, k),
         \/ g.at = "reacquire"
         \/ g.at = "determine" /\ phase[r] = "determine"
  PROVE  AccountInv'
<1>1. auth \in [Requests -> SomeAuth]
  BY DEF ThreadInv
<1>2. /\ slots' \in [Requests -> [Ids -> Nat]]
      /\ \A q \in Requests \ {r} : slots'[q] = slots[q]
  BY SlotGivenType
<1>3. auth'[r].managed = auth[r].managed /\ \A q \in Requests \ {r} : auth'[q] = auth[q]
  BY <1>1 DEF SomeAuth
<1>4. Moves(r, k, g)
  BY <1>2, <1>3 DEF Moves, Goto
<1>5. ASSUME r \notin shaken' PROVE Alone(r, k) /\ Handed(r)' /\ Matching(r)'
  <2>1. r \notin shaken /\ Alone(r, k) /\ Handed(r)
    BY <1>5 DEF AccountInv, AccountOf
  <2>2. /\ EmptyHanded(r)' /\ run'[<<r, k>>] = g
        /\ Unready(r)' <=> phase[r] = "determine" /\ g.at \in {"determine", "failed"}
    BY <1>4, <2>1, AloneFacts
  <2>3. \A x \in Ids : slots'[r][x] = 0
    BY <2>1, SlotGiven
  <2>4. Handed(r)'
    BY <2>2, <2>3 DEF Handed
  <2>5. \A l \in Kinds \ {k} : run'[<<r, l>>].at \notin Changes
    BY <1>4, <2>1, AloneFacts DEF Alone
  <2>6. Matching(r)'
    BY <2>2, <2>5 DEF Matching, Moving, At, Changes
  <2> QED
    BY <2>1, <2>4, <2>6
<1> QED
  BY <1>2, <1>4, <1>5, ChangeKeeps

\* The account stays, and its token is, or becomes, the one of the request.
LEMMA SameAccountKeeps ==
  ASSUME LeaseInv, ThreadInv, AccountInv, NEW r \in Requests, NEW k \in Kinds, NEW g \in Call,
         Goto(<<r, k>>, g), phase' = phase, auth[r].managed,
         \A q \in Requests \ {r} : auth'[q] = auth[q],
         auth'[r].managed = auth[r].managed, auth'[r].account = auth[r].account,
         UNCHANGED <<slots, released, stray>>, shaken' \in {shaken, shaken \union {r}},
         r \notin shaken' => Alone(r, k),
         run[<<r, k>>].at \notin {"reacquire", "determine", "failed"},
         g.at # "reacquire", phase[r] = "determine" => g.at \notin {"determine", "failed"},
         r \notin shaken' /\ g.at = "login" => g.who = auth[r].account,
         r \notin shaken' /\ r \notin stray /\ ~Moving(g) => auth'[r].token = auth[r].account
  PROVE  AccountInv'
<1>1. Moves(r, k, g)
  BY DEF Moves, Goto
<1>2. slots' \in [Requests -> [Ids -> Nat]]
  BY DEF AccountInv
<1>3. ASSUME r \notin shaken' PROVE Alone(r, k) /\ Handed(r)' /\ Matching(r)'
  <2>1. r \notin shaken /\ Alone(r, k) /\ Handed(r)
    BY <1>3 DEF AccountInv, AccountOf
  <2>2. EmptyHanded(r) <=> EmptyHanded(r)'
    BY <1>1, <2>1, AloneFacts
  <2>3. Handed(r)'
    BY <2>1, <2>2 DEF Handed
  <2>4. run'[<<r, k>>] = g /\ \A l \in Kinds \ {k} : run'[<<r, l>>].at \notin Changes
    BY <1>1, <2>1, AloneFacts DEF Alone
  <2>5. \A l \in Kinds : At(<<r, l>>, "login")' => l = k
    BY <2>4 DEF At, Changes
  <2>6. Matching(r)'
    BY <1>3, <2>4, <2>5 DEF Matching, At
  <2> QED
    BY <2>1, <2>3, <2>6
<1> QED
  BY <1>1, <1>2, <1>3, ChangeKeeps

\* Every step of a thread keeps the account of every request that is not shaken.
LEMMA ThreadStepKeeps ==
  ASSUME LeaseInv, ThreadInv, AccountInv, NEW t \in Threads, ThreadStep(t), UNCHANGED leaseVars
  PROVE  AccountInv'
<1> DEFINE r == t[1]
           k == t[2]
           f == run[t]
<1>1. /\ r \in Requests /\ k \in Kinds /\ t = <<r, k>> /\ f \in Call
      /\ auth \in [Requests -> SomeAuth] /\ run \in [Threads -> Call] /\ UNCHANGED <<phase, kind, blocks>>
  BY ThreadsOf DEF ThreadInv, leaseVars
<1>2. Staged(t)
  BY DEF ThreadInv
<1> HIDE DEF r, k, f
<1>3. f.at \in Changes \union {"refresh", "leave"} => auth[r].managed
  BY <1>1 DEF AccountInv, AccountOf, Unmanaged, f
<1>4. f.at \in Changes /\ r \notin shaken => Alone(r, k)
  BY <1>1, ChangerAlone DEF f
<1>5. /\ f.at # "off" => phase[r] \in PhasesOf(k)
      /\ phase[r] = "determine" /\ k = "main" => DetermineStage(f)
      /\ ~(phase[r] = "determine" /\ k = "main") => CallStage(f)
  BY <1>1, <1>2 DEF Staged, r, k, f
<1>6. f.at # "off" /\ phase[r] = "determine" => k = "main"
  BY <1>5 DEF PhasesOf
<1>7. f.at = "ensure" \/ f.at = "login" =>
        (f.why = "determine" <=> phase[r] = "determine")
  BY <1>5, <1>6 DEF DetermineStage, CallStage
<1>8. CASE Ask(t)
  <2>1. PICK g \in Answers(r, f) : Goto(t, g) /\ f.at = "ask"
    BY <1>8 DEF Ask, At, r, f
  <2>2. /\ g \in Call /\ g.at \in {"ask", "done", "failed", "leave", "refresh"}
        /\ g.at \in {"leave", "refresh"} => auth[r].managed
    BY <1>1, <2>1, AnswersType
  <2>3. UNCHANGED <<auth, slots, released, stray, shaken>>
    BY <1>8 DEF Ask, sharedVarsButRun
  <2>4. run' = [run EXCEPT ![<<r, k>>] = g]
    BY <1>1, <2>1 DEF Goto
  <2>5. Moves(r, k, g)
    BY <1>1, <2>3, <2>4 DEF Moves
  <2>6. phase[r] # "determine"
    BY <1>5, <1>6, <2>1 DEF DetermineStage
  <2>7. /\ run'[<<r, k>>] = g /\ run[<<r, k>>] = f
        /\ \A l \in Kinds \ {k} : run'[<<r, l>>] = run[<<r, l>>]
    BY <1>1, <2>4, ThreadsOf DEF f
  <2>8. Calm(r)
    BY <1>1, <2>1, <2>2, <2>3, <2>6, <2>7 DEF Calm, Unready, Changes
  <2> QED
    BY <1>1, <2>3, <2>5, <2>8, CalmKeeps, OthersKeep DEF AccountInv
<1>9. CASE DetermineDirect(t) \/ DetermineFails(t)
  <2>1. PICK how \in {"done", "failed"} :
          /\ Goto(t, Ended(how)) /\ f.at = "determine"
          /\ how = "done" => ~auth[r].managed
    BY <1>9 DEF DetermineDirect, DetermineFails, At, r, f
  <2>2. UNCHANGED <<auth, slots, released, stray, shaken>>
    BY <1>9 DEF DetermineDirect, DetermineFails, sharedVarsButRun
  <2>3. Ended(how).at = how /\ run' = [run EXCEPT ![<<r, k>>] = Ended(how)]
    BY <1>1, <2>1 DEF Goto, Ended, Off
  <2>4. phase[r] = "determine" /\ k = "main"
    BY <1>5, <2>1 DEF CallStage
  <2>5. Moves(r, k, Ended(how))
    BY <1>1, <2>2, <2>3 DEF Moves
  <2>6. /\ run'[<<r, k>>] = Ended(how) /\ run[<<r, k>>] = f
        /\ \A l \in Kinds \ {k} : run'[<<r, l>>] = run[<<r, l>>]
    BY <1>1, <2>3, ThreadsOf DEF f
  <2>7. auth[r].managed => (Unready(r)' <=> Unready(r))
    BY <1>1, <2>1, <2>3, <2>4, <2>6 DEF Unready, Main
  <2>8. Calm(r)
    BY <1>1, <2>1, <2>2, <2>3, <2>6, <2>7 DEF Calm, Changes
  <2> QED
    BY <1>1, <2>2, <2>5, <2>8, CalmKeeps, OthersKeep DEF AccountInv
<1>10. CASE DetermineAcquire(t)
  <2> DEFINE g == [f EXCEPT !.at = "ensure", !.why = "determine"]
  <2>1. Goto(<<r, k>>, g) /\ f.at = "determine" /\ auth[r].managed
    BY <1>1, <1>10 DEF DetermineAcquire, At, f, r
  <2>2. g \in Call /\ g.at = "ensure" /\ g.why = "determine"
    BY <1>1 DEF Call
  <2> HIDE DEF g
  <2>3. PICK id \in Ids : Got(<<r, k>>, id)
    BY <1>1, <1>10 DEF DetermineAcquire
  <2>4. phase[r] = "determine" /\ k = "main"
    BY <1>5, <2>1 DEF CallStage
  <2>5. Alone(r, k)
    <3>1. released[r] = 0
      BY <1>1, <2>4 DEF LeaseInv, ReleasedOnce
    <3>2. \A l \in Kinds \ {k} : run[<<r, l>>].at = "off"
      BY <1>1, <2>4, HandlerAlone DEF PhasesOf
    <3> QED
      BY <2>1, <2>4, <3>1, <3>2 DEF Alone, Changes
  <2> QED
    BY <1>1, <2>1, <2>2, <2>3, <2>4, <2>5, GotKeeps DEF f
<1>11. CASE Ensure(t)
  <2> DEFINE g == [f EXCEPT !.at = "login", !.who = auth[r].account]
  <2>1. /\ f.at = "ensure" /\ auth[r].managed /\ UNCHANGED <<slots, released, stray, shaken>>
        /\ \/ /\ auth' = [auth EXCEPT ![r].token = auth[r].account]
              /\ Goto(<<r, k>>, Ensured(f))
           \/ Goto(<<r, k>>, g) /\ UNCHANGED auth
    BY <1>1, <1>11, <1>3 DEF Ensure, At, f, r, Changes
  <2>2. g \in Call /\ g.at = "login" /\ g.why = f.why /\ g.who = auth[r].account
    BY <1>1 DEF Call, SomeAuth
  <2> HIDE DEF g
  <2>3. r \notin shaken => Alone(r, k)
    BY <1>4, <2>1 DEF Changes
  <2>4. CASE Goto(<<r, k>>, g) /\ UNCHANGED auth
    <3>1. Moving(g)
      BY <1>5, <2>1, <2>2 DEF DetermineStage, CallStage, Moving
    <3> QED
      BY <1>1, <2>1, <2>2, <2>3, <2>4, <3>1, SameAccountKeeps DEF f
  <2>5. CASE auth' = [auth EXCEPT ![r].token = auth[r].account] /\ Goto(<<r, k>>, Ensured(f))
    <3>1. /\ auth'[r].token = auth[r].account /\ auth'[r].managed = auth[r].managed
          /\ auth'[r].account = auth[r].account /\ \A q \in Requests \ {r} : auth'[q] = auth[q]
      BY <1>1, <2>5 DEF SomeAuth
    <3>2. /\ Ensured(f) \in Call
          /\ phase[r] = "determine" => Ensured(f).at = "done"
          /\ Ensured(f).at \in {"ask", "done", "failed"}
      BY <1>1, <1>7, <2>1, EnsuredType DEF Ended, Off
    <3> QED
      BY <1>1, <2>1, <2>3, <2>5, <3>1, <3>2, SameAccountKeeps DEF f
  <2> QED
    BY <2>1, <2>4, <2>5
<1>12. CASE Login(t)
  <2> DEFINE at == IF f.why = "refresh" THEN "leave" ELSE "giveback"
             h == [f EXCEPT !.who = NoAccount]
             g == [f EXCEPT !.who = NoAccount, !.at = at]
  <2>1. /\ f.at = "login" /\ auth[r].managed /\ UNCHANGED <<slots, released, stray, shaken>>
        /\ \/ /\ auth' = [auth EXCEPT ![r].token = f.who, ![r].copy = TRUE]
              /\ Goto(<<r, k>>, Ensured(h)) \/ Goto(<<r, k>>, g)
           \/ Goto(<<r, k>>, g) /\ UNCHANGED auth
    BY <1>1, <1>12, <1>3 DEF Login, At, f, r, Changes
  <2>2. at \in {"leave", "giveback"}
    OBVIOUS
  <2>3. f.why = "refresh" <=> at = "leave"
    OBVIOUS
  <2> HIDE DEF at
  <2>4. h \in Call /\ h.why = f.why
    BY <1>1 DEF Call, Owner
  <2>5. g \in Call /\ g.why = f.why /\ g.at = at
    BY <1>1, <2>2 DEF Call, Owner
  <2> HIDE DEF g, h
  <2>6. /\ Ensured(h) \in Call
        /\ phase[r] = "determine" => Ensured(h).at = "done"
        /\ Ensured(h).at \in {"ask", "done", "failed"}
    BY <1>1, <1>7, <2>1, <2>4, EnsuredType DEF Ended, Off
  <2>7. r \notin shaken => Alone(r, k)
    BY <1>4, <2>1 DEF Changes
  <2>8. r \notin shaken => f.who = auth[r].account
    BY <1>1, <2>1 DEF AccountInv, AccountOf, Matching, At, f
  <2>9. CASE auth' = [auth EXCEPT ![r].token = f.who, ![r].copy = TRUE]
    <3>1. /\ auth'[r].token = f.who /\ auth'[r].managed = auth[r].managed
          /\ auth'[r].account = auth[r].account /\ \A q \in Requests \ {r} : auth'[q] = auth[q]
      BY <1>1, <2>9 DEF SomeAuth
    <3>2. CASE Goto(<<r, k>>, Ensured(h))
      BY <1>1, <2>1, <2>6, <2>7, <2>8, <3>1, <3>2, SameAccountKeeps DEF f
    <3>3. CASE Goto(<<r, k>>, g)
      BY <1>1, <2>1, <2>2, <2>5, <2>7, <2>8, <3>1, <3>3, SameAccountKeeps DEF f
    <3> QED
      BY <2>1, <2>9, <3>2, <3>3
  <2>10. CASE Goto(<<r, k>>, g) /\ UNCHANGED auth
    <3>1. ASSUME r \notin shaken, r \notin stray, ~Moving(g) PROVE auth[r].token = auth[r].account
      <4>1. g.at = "leave" /\ f.why = "refresh"
        BY <2>2, <2>3, <2>5, <3>1 DEF Moving
      <4>2. \A l \in Kinds : ~Moving(run[<<r, l>>])
        BY <1>1, <2>1, <2>7, <3>1, <4>1 DEF Moving, Alone, Changes, f
      <4>3. ~Unready(r)
        <5>1. phase[r] # "determine"
          BY <1>7, <2>1, <4>1
        <5>2. phase[r] \in PhasesOf(k)
          BY <1>5, <2>1
        <5> QED
          BY <5>1, <5>2 DEF Unready, PhasesOf
      <4> QED
        BY <1>1, <2>1, <3>1, <4>2, <4>3 DEF AccountInv, AccountOf, Matching
    <3> QED
      BY <1>1, <2>1, <2>2, <2>5, <2>7, <2>10, <3>1, SameAccountKeeps DEF f
  <2> QED
    BY <2>1, <2>9, <2>10
<1>13. CASE RefreshToken(t)
  <2> DEFINE g == [f EXCEPT !.at = "login", !.who = auth[r].account, !.why = "refresh"]
  <2>1. /\ f.at = "refresh" /\ auth[r].managed /\ UNCHANGED <<slots, released, stray>>
        /\ auth' = [auth EXCEPT ![r].copy = FALSE] /\ Goto(<<r, k>>, g) /\ Touch(<<r, k>>)
    BY <1>1, <1>13, <1>3 DEF RefreshToken, At, f, r
  <2>2. g \in Call /\ g.at = "login" /\ g.who = auth[r].account /\ g.why = "refresh"
    BY <1>1 DEF Call, SomeAuth
  <2> HIDE DEF g
  <2>3. /\ auth'[r].token = auth[r].token /\ auth'[r].managed = auth[r].managed
        /\ auth'[r].account = auth[r].account /\ \A q \in Requests \ {r} : auth'[q] = auth[q]
    BY <1>1, <2>1 DEF SomeAuth
  <2>4. r \notin shaken' => Alone(r, k) /\ r \notin shaken /\ phase[r] # "determine"
    BY <1>1, <2>1, ToucherAlone DEF f
  <2>5. shaken' \in {shaken, shaken \union {r}}
    BY <2>1, ThreadsOf DEF Touch
  <2>6. ASSUME r \notin shaken', r \notin stray PROVE auth'[r].token = auth[r].account
    <3>1. \A l \in Kinds : ~Moving(run[<<r, l>>])
      BY <1>1, <2>1, <2>4, <2>6 DEF Moving, Alone, Changes, f
    <3>2. ~Unready(r)
      BY <2>4, <2>6 DEF Unready, Alone
    <3> QED
      BY <1>1, <2>1, <2>3, <2>4, <2>6, <3>1, <3>2 DEF AccountInv, AccountOf, Matching
  <2> QED
    BY <1>1, <2>1, <2>2, <2>3, <2>4, <2>5, <2>6, SameAccountKeeps DEF f
<1>14. CASE LeaveAccount(t)
  <2> DEFINE g == [f EXCEPT !.at = "reacquire", !.why = "switch"]
  <2>1. /\ f.at = "leave" /\ auth[r].managed /\ UNCHANGED <<released, stray>>
        /\ auth' = [auth EXCEPT ![r].tried = @ \union {auth[r].account}]
        /\ Goto(<<r, k>>, g) /\ Touch(<<r, k>>) /\ GiveSlot(r)
    BY <1>1, <1>14, <1>3 DEF LeaveAccount, At, f, r
  <2>2. g \in Call /\ g.at = "reacquire"
    BY <1>1 DEF Call
  <2> HIDE DEF g
  <2>3. r \notin shaken' => Alone(r, k)
    BY <1>1, <2>1, ToucherAlone DEF f
  <2>4. shaken' \in {shaken, shaken \union {r}}
    BY <2>1, ThreadsOf DEF Touch
  <2> QED
    BY <1>1, <2>1, <2>2, <2>3, <2>4, GivesKeeps
<1>15. CASE Reacquire(t)
  <2> DEFINE g == [f EXCEPT !.at = "ensure"]
  <2>1. Goto(<<r, k>>, g) /\ f.at = "reacquire" /\ auth[r].managed
    BY <1>1, <1>15, <1>3 DEF Reacquire, At, f, Changes
  <2>2. g \in Call /\ g.at = "ensure" /\ g.why = f.why
    BY <1>1 DEF Call
  <2> HIDE DEF g
  <2>3. PICK id \in Ids : Got(<<r, k>>, id)
    BY <1>1, <1>15 DEF Reacquire
  <2>4. r \notin shaken => Alone(r, k)
    BY <1>4, <2>1 DEF Changes
  <2>5. f.why # "refresh"
    BY <1>5, <2>1 DEF DetermineStage, CallStage
  <2> QED
    BY <1>1, <2>1, <2>2, <2>3, <2>4, <2>5, GotKeeps DEF f
<1>16. CASE NoneFree(t)
  <2> DEFINE h == [f EXCEPT !.why = "determine"]
             g == NextAttempt(h)
  <2>1. /\ Goto(<<r, k>>, g) /\ f.at = "reacquire" /\ auth[r].managed
        /\ stray' = stray \union {r} /\ UNCHANGED <<auth, slots, released, shaken>>
    BY <1>1, <1>16, <1>3 DEF NoneFree, At, f, r, Changes
  <2>2. h \in Call
    BY <1>1 DEF Call
  <2> HIDE DEF h
  <2>3. g \in Call /\ g.at \in {"ask", "failed"}
    BY <2>2, NextAttemptType
  <2> HIDE DEF g
  <2>4. Moves(r, k, g)
    BY <1>1, <2>1 DEF Moves, Goto
  <2>5. ASSUME r \notin shaken' PROVE Alone(r, k) /\ Handed(r)' /\ Matching(r)'
    <3>1. r \notin shaken /\ Alone(r, k) /\ Handed(r)
      BY <1>1, <1>4, <2>1, <2>5 DEF AccountInv, AccountOf, Changes
    <3>2. EmptyHanded(r) /\ EmptyHanded(r)' /\ run'[<<r, k>>] = g
      BY <1>1, <2>1, <2>3, <2>4, <3>1, AloneFacts DEF f
    <3>3. Handed(r)'
      BY <2>1, <3>1, <3>2 DEF Handed
    <3>4. \A l \in Kinds \ {k} : run'[<<r, l>>].at \notin Changes
      BY <1>1, <2>3, <2>4, <3>1, AloneFacts DEF Alone
    <3>5. Matching(r)'
      BY <1>1, <2>1, <2>3, <3>2, <3>4 DEF Matching, At, Changes
    <3> QED
      BY <3>1, <3>3, <3>5
  <2>6. slots' \in [Requests -> [Ids -> Nat]]
    BY <2>1 DEF AccountInv
  <2> QED
    BY <1>1, <2>1, <2>3, <2>4, <2>5, <2>6, ChangeKeeps
<1>17. CASE GiveBack(t)
  <2> DEFINE at == IF f.why = "determine" THEN "determine" ELSE "reacquire"
             g == [f EXCEPT !.at = at]
  <2>1. /\ f.at = "giveback" /\ auth[r].managed /\ UNCHANGED <<released, stray, shaken>>
        /\ auth' = [auth EXCEPT ![r].tried = @ \union {auth[r].account}]
        /\ Goto(<<r, k>>, g) /\ GiveSlot(r)
    BY <1>1, <1>17, <1>3 DEF GiveBack, At, f, r, Changes
  <2>2. /\ at \in {"determine", "reacquire"}
        /\ at = "determine" => f.why = "determine"
    OBVIOUS
  <2> HIDE DEF at
  <2>3. g \in Call /\ g.at = at
    BY <1>1, <2>2 DEF Call
  <2> HIDE DEF g
  <2>4. r \notin shaken => Alone(r, k)
    BY <1>4, <2>1 DEF Changes
  <2>5. at = "determine" => phase[r] = "determine"
    BY <1>5, <2>1, <2>2 DEF CallStage
  <2> QED
    BY <1>1, <2>1, <2>2, <2>3, <2>4, <2>5, GivesKeeps
<1> QED
  BY <1>8, <1>9, <1>10, <1>11, <1>12, <1>13, <1>14, <1>15, <1>16, <1>17 DEF ThreadStep

-----------------------------------------------------------------------------
(***************************************************************************)
(* Steps of the handlers and of the leases.                                *)
(***************************************************************************)

\* Every step keeps the account of every request that is not shaken.
LEMMA AccountNext == LeaseInv /\ ThreadInv /\ AccountInv /\ [Next]_vars => AccountInv'
<1> SUFFICES ASSUME LeaseInv, ThreadInv, AccountInv, [Next]_vars PROVE AccountInv'
  OBVIOUS
<1>1. /\ phase \in [Requests -> Phases] /\ run \in [Threads -> Call]
      /\ kind \in [Requests -> Roles]
  BY DEF LeaseInv, ThreadInv
<1>2. /\ Off.at = "off" /\ \A how \in {"determine", "wait"} : [Off EXCEPT !.at = how].at = how
      /\ Ended("failed").at = "failed" /\ Ended("failed") \in Call
      /\ Off \in Call
  BY CallBegins DEF Off, Ended
<1>3. ASSUME NEW r \in Requests, NEW op \in {"session", "pow", "upload"}
      PROVE  LET g == Begin(op, MaxAttempts[kind[r]]) IN g \in Call /\ g.at = "ask"
  <2>1. MaxAttempts[kind[r]] \in Nat
    BY <1>1, StreamLeasesAssumption
  <2> QED
    BY <2>1, CallBegins
\* The handler of r makes its thread begin or end a call.
<1>4. ASSUME NEW r \in Requests, NEW g, NEW next, Goto(Main(r), g), Phase(r, next),
             UNCHANGED <<auth, slots, released, stray, shaken>>,
             run[Main(r)].at \notin Changes, g.at \notin Changes \union {"refresh", "leave"},
             Unready(r)' <=> Unready(r)
      PROVE  AccountInv'
  <2>1. \A q \in Requests \ {r} : phase'[q] = phase[q]
    BY <1>1, <1>4 DEF Phase
  <2>2. run'[Main(r)] = g /\ \A t \in Threads \ {Main(r)} : run'[t] = run[t]
    BY <1>1, <1>4, ThreadsOf DEF Goto
  <2>3. \A t \in Threads : t[1] # r => run'[t] = run[t]
    BY <2>2, ThreadsOf
  <2>4. \A k \in Kinds : \/ run'[<<r, k>>] = run[<<r, k>>]
                         \/ /\ run[<<r, k>>].at \notin Changes
                            /\ run'[<<r, k>>].at \notin Changes \union {"refresh", "leave"}
    <3> SUFFICES ASSUME NEW k \in Kinds, run'[<<r, k>>] # run[<<r, k>>]
                 PROVE  /\ run[<<r, k>>].at \notin Changes
                        /\ run'[<<r, k>>].at \notin Changes \union {"refresh", "leave"}
      OBVIOUS
    <3>1. <<r, k>> = Main(r)
      BY <2>2, ThreadsOf
    <3> QED
      BY <1>4, <2>2, <3>1
  <2> QED
    BY <1>1, <1>4, <2>1, <2>3, <2>4, HandlerCalm
\* Another thread of r begins or ends a call.
<1>5. ASSUME NEW r \in Requests, NEW k \in Kinds \ {"main"}, NEW g, Goto(<<r, k>>, g),
             UNCHANGED <<auth, slots, released, stray, shaken, phase>>,
             run[<<r, k>>].at \notin Changes, g.at \notin Changes \union {"refresh", "leave"}
      PROVE  AccountInv'
  <2>1. run'[<<r, k>>] = g /\ \A t \in Threads \ {<<r, k>>} : run'[t] = run[t]
    BY <1>1, <1>5, ThreadsOf DEF Goto
  <2>2. \A t \in Threads : t[1] # r => run'[t] = run[t]
    BY <2>1, ThreadsOf
  <2>3. \A l \in Kinds : \/ run'[<<r, l>>] = run[<<r, l>>]
                         \/ /\ run[<<r, l>>].at \notin Changes
                            /\ run'[<<r, l>>].at \notin Changes \union {"refresh", "leave"}
    <3> SUFFICES ASSUME NEW l \in Kinds PROVE l # k => run'[<<r, l>>] = run[<<r, l>>]
      BY <1>5, <2>1
    <3> QED
      BY <2>1, ThreadsOf
  <2>4. Unready(r)' <=> Unready(r)
    <3>1. run'[Main(r)] = run[Main(r)]
      BY <1>5, <2>1, ThreadsOf DEF Main
    <3> QED
      BY <1>5, <3>1 DEF Unready
  <2> QED
    BY <1>1, <1>5, <2>2, <2>3, <2>4, HandlerCalm
\* No thread takes a step.
<1>6. ASSUME NEW r \in Requests, NEW next, Phase(r, next) \/ phase' = phase,
             UNCHANGED <<run, auth, slots, released, stray, shaken>>, Unready(r)' <=> Unready(r)
      PROVE  AccountInv'
  <2>1. \A q \in Requests \ {r} : phase'[q] = phase[q]
    BY <1>1, <1>6 DEF Phase
  <2> QED
    BY <1>1, <1>6, <2>1, HandlerCalm
<1>7. ASSUME NEW t \in Threads, ThreadStep(t), UNCHANGED leaseVars
      PROVE  AccountInv'
  BY <1>7, ThreadStepKeeps
<1>8. ASSUME NEW r \in Requests, Arrive(r)
      PROVE  AccountInv'
  <2> DEFINE g == [Off EXCEPT !.at = "determine"]
  <2>1. /\ phase[r] = "new" /\ Goto(Main(r), g) /\ Phase(r, "determine")
        /\ UNCHANGED <<auth, slots, released, stray, shaken>>
    BY <1>8 DEF Arrive, sharedVarsButRun
  <2>2. g.at = "determine"
    BY <1>2
  <2> HIDE DEF g
  <2>3. run[Main(r)].at = "off"
    BY <2>1, HandlerAlone, ThreadsOf DEF PhasesOf, Main
  <2>4. Unready(r)' <=> Unready(r)
    BY <1>1, <2>1, <2>2, ThreadsOf DEF Unready, Goto, Phase
  <2> QED
    BY <1>4, <2>1, <2>2, <2>3, <2>4 DEF Changes
<1>9. ASSUME NEW r \in Requests, Admitted(r)
      PROVE  AccountInv'
  <2>1. PICK g \in Call, next \in Phases :
          /\ Goto(Main(r), g) /\ Phase(r, next) /\ g.at \in {"off", "ask"}
          /\ next \notin {"new", "over", "determine"}
    BY <1>9, <1>2, <1>3 DEF Admitted, Calls, Phases
  <2>2. /\ phase[r] = "determine" /\ run[Main(r)].at = "done"
        /\ UNCHANGED <<auth, slots, released, stray, shaken>>
    BY <1>9 DEF Admitted, At, sharedVarsButRun
  <2>3. Unready(r)' <=> Unready(r)
    BY <1>1, <2>1, <2>2 DEF Unready, Phase
  <2> QED
    BY <1>4, <2>1, <2>2, <2>3 DEF Changes
<1>10. ASSUME NEW r \in Requests, Rejected(r)
      PROVE  AccountInv'
  <2>1. /\ phase[r] = "determine" /\ run[Main(r)].at = "failed" /\ Phase(r, "over")
        /\ Goto(Main(r), Off) /\ UNCHANGED <<auth, slots, released, stray, shaken>>
    BY <1>10 DEF Rejected, At, sharedVarsButRun
  <2>2. Unready(r)' <=> Unready(r)
    BY <1>1, <2>1 DEF Unready, Phase
  <2> QED
    BY <1>4, <1>2, <2>1, <2>2 DEF Changes
<1>11. ASSUME NEW r \in Requests, Prepare(r) \/ CallEnds(r)
      PROVE  AccountInv'
  <2>1. PICK g \in Call, next \in Phases :
          /\ Goto(Main(r), g) /\ Phase(r, next) /\ g.at \in {"off", "ask"}
          /\ next \notin {"new", "over", "determine"}
    <3>1. CASE Prepare(r)
      <4>1. /\ At(Main(r), "off") /\ phase[r] = "input" /\ Main(r) \in Threads
            /\ \/ Phase(r, "close") /\ UNCHANGED run
               \/ UNCHANGED phase /\ Calls(r, "upload")
               \/ Phase(r, "session") /\ Calls(r, "session")
        BY <3>1, ThreadsOf DEF Prepare
      <4>2. CASE Phase(r, "close") /\ UNCHANGED run
        <5>1. Goto(Main(r), run[Main(r)])
          BY <1>1, <4>1, <4>2 DEF Goto
        <5> QED
          BY <1>1, <4>1, <4>2, <5>1 DEF At, Phases
      <4>3. CASE UNCHANGED phase /\ Calls(r, "upload")
        <5>1. Phase(r, "input")
          BY <1>1, <4>1, <4>3 DEF Phase
        <5> QED
          BY <1>3, <4>3, <5>1 DEF Calls, Phases
      <4>4. CASE Phase(r, "session") /\ Calls(r, "session")
        BY <1>3, <4>4 DEF Calls, Phases
      <4> QED
        BY <4>1, <4>2, <4>3, <4>4
    <3>2. CASE CallEnds(r)
      <4>1. \/ Phase(r, "close") /\ Goto(Main(r), Off)
            \/ Phase(r, "session") /\ Calls(r, "session")
            \/ Phase(r, "pow") /\ Calls(r, "pow")
            \/ Phase(r, "hold") /\ Goto(Main(r), Off)
        BY <3>2 DEF CallEnds
      <4> QED
        BY <1>2, <1>3, <4>1 DEF Calls, Phases
    <3> QED
      BY <1>11, <3>1, <3>2
  <2>2. /\ phase[r] \in {"input", "session", "pow"}
        /\ run[Main(r)].at \in {"off", "done", "failed"}
        /\ UNCHANGED <<auth, slots, released, stray, shaken>>
    BY <1>11 DEF Prepare, CallEnds, At, sharedVarsButRun
  <2>3. Unready(r)' <=> Unready(r)
    BY <1>1, <2>1, <2>2 DEF Unready, Phase
  <2> QED
    BY <1>4, <2>1, <2>2, <2>3 DEF Changes
<1>12. ASSUME NEW r \in Requests, Walk(r) \/ UploadsEnd(r)
      PROVE  AccountInv'
  <2>1. PICK next \in {"close", "uploads", "input"} : Phase(r, next) /\ phase[r] \in {"walk", "uploads"}
    BY <1>12 DEF Walk, UploadsEnd
  <2>2. UNCHANGED <<auth, slots, released, stray, shaken>>
    BY <1>12 DEF Walk, UploadsEnd, sharedVarsButRun
  <2>3. \A t \in Threads : t[1] = r => run[t].at \in {"off", "done", "failed"}
    <3> SUFFICES ASSUME NEW t \in Threads, t[1] = r PROVE run[t].at \in {"off", "done", "failed"}
      OBVIOUS
    <3>1. CASE Walk(r)
      <4>1. phase[r] = "walk"
        BY <3>1 DEF Walk
      <4> QED
        BY <4>1, HandlerAlone, ThreadsOf DEF PhasesOf
    <3>2. CASE UploadsEnd(r)
      <4>1. /\ phase[r] = "uploads"
            /\ \A f \in Files : run[<<r, f>>].at \in {"off", "done", "failed"}
        BY <3>2 DEF UploadsEnd
      <4>2. t[2] \in Files \/ run[t].at = "off"
        BY <4>1, HandlerAlone, ThreadsOf DEF PhasesOf, Kinds
      <4> QED
        BY <4>1, <4>2, ThreadsOf
    <3> QED
      BY <1>12, <3>1, <3>2
  <2>4. \A t \in Threads : \/ run'[t] = run[t]
                           \/ t[1] = r /\ run'[t].at \in {"off", "wait"}
    BY <1>1, <1>12, <1>2 DEF Walk, UploadsEnd
  <2>5. \A k \in Kinds : \/ run'[<<r, k>>] = run[<<r, k>>]
                         \/ /\ run[<<r, k>>].at \notin Changes
                            /\ run'[<<r, k>>].at \notin Changes \union {"refresh", "leave"}
    BY <2>3, <2>4, ThreadsOf DEF Changes
  <2>6. Unready(r)' <=> Unready(r)
    BY <1>1, <2>1 DEF Unready, Phase
  <2>7. \A q \in Requests \ {r} : phase'[q] = phase[q]
    BY <1>1, <2>1 DEF Phase
  <2> QED
    BY <1>1, <2>2, <2>4, <2>5, <2>6, <2>7, HandlerCalm
<1>13. ASSUME NEW r \in Requests, NEW f \in Files, UploadBegins(r, f)
      PROVE  AccountInv'
  <2>1. PICK g \in Call : Goto(<<r, f>>, g) /\ g.at \in {"ask", "failed"}
    BY <1>13, <1>2, <1>3 DEF UploadBegins, Ended
  <2>2. /\ run[<<r, f>>].at = "wait"
        /\ UNCHANGED <<auth, slots, released, stray, shaken, phase>>
    BY <1>13 DEF UploadBegins, At, sharedVarsButRun, leaseVars
  <2> QED
    BY <1>5, <2>1, <2>2, ThreadsOf DEF Changes
<1>14. ASSUME NEW r \in Requests, lookupStreamLeaseAuth(r) \/ PowAnswered(r)
      PROVE  AccountInv'
  <2>1. PICK g \in Call : Goto(<<r, "pow">>, g) /\ g.at \in {"ask", "off"}
    BY <1>14, <1>2, <1>3 DEF lookupStreamLeaseAuth, PowAnswered
  <2>2. /\ run[<<r, "pow">>].at \in {"off", "done", "failed"}
        /\ UNCHANGED <<auth, slots, released, stray, shaken, phase>>
    BY <1>14 DEF lookupStreamLeaseAuth, PowAnswered, At, sharedVarsButRun, leaseVars
  <2> QED
    BY <1>5, <2>1, <2>2, ThreadsOf DEF Changes
<1>15. ASSUME NEW r \in Requests, holdStreamLease(r)
      PROVE  AccountInv'
  <2>1. /\ phase[r] = "hold" /\ Phase(r, "held")
        /\ UNCHANGED <<run, auth, slots, released, stray, shaken>>
    BY <1>15 DEF holdStreamLease, NoCall, sharedVars
  <2>2. Unready(r)' <=> Unready(r)
    BY <1>1, <2>1 DEF Unready, Phase
  <2> QED
    BY <1>6, <2>1, <2>2
<1>16. ASSUME NEW r \in Requests, LeaseExpires(r) \/ releaseStreamLease(r)
       PROVE  AccountInv'
  <2>1. UNCHANGED <<run, auth, slots, released, stray, shaken, phase>>
    BY <1>16 DEF LeaseExpires, releaseStreamLease, NoCall, sharedVars
  <2>2. Unready(r)' <=> Unready(r)
    BY <2>1 DEF Unready
  <2> QED
    BY <1>6, <2>1, <2>2
<1>17. ASSUME NEW r \in Requests, Close(r)
       PROVE  AccountInv'
  <2>1. phase[r] = "close" /\ Phase(r, "over") /\ Release(r) /\ run' = run
    BY <1>17 DEF Close
  <2>2. phase'[r] = "over" /\ \A q \in Requests \ {r} : phase'[q] = phase[q]
    BY <1>1, <2>1 DEF Phase
  <2> QED
    BY <2>1, <2>2, ReleaseKeeps
<1>18. ASSUME NEW r \in Requests, releasePopped(r)
       PROVE  AccountInv'
  <2>1. phase[r] = "held" /\ phase' = phase /\ Release(r) /\ run' = run
    BY <1>18 DEF releasePopped, LeaseInv
  <2> QED
    BY <2>1, ReleaseKeeps
<1>19. ASSUME UNCHANGED vars
       PROVE  AccountInv'
  <2>1. UNCHANGED <<run, auth, slots, released, stray, shaken, phase>>
    BY <1>19 DEF vars, sharedVars, leaseVars
  <2> QED
    BY <2>1 DEF AccountInv, AccountOf, Unmanaged, Handed, EmptyHanded, Unready, Sole, Matching, At, Moving
<1> QED
  BY <1>7, <1>8, <1>9, <1>10, <1>11, <1>12, <1>13, <1>14, <1>15, <1>16, <1>17, <1>18, <1>19 DEF Next

IInv == LeaseInv /\ ThreadInv /\ AccountInv

\* The conjunction is inductive.
LEMMA AlwaysIInv == Spec => []IInv
<1>1. Init => IInv
  BY LeaseInit, ThreadInit, AccountInit DEF IInv
<1>2. IInv /\ [Next]_vars => IInv'
  BY LeaseStep, ThreadNext, AccountNext DEF IInv
<1> QED
  BY <1>1, <1>2, PTL DEF Spec

(***************************************************************************)
(* Unless two threads changed its account at a time, or one did so after   *)
(* the release, a request that is over, or whose lease was released, has   *)
(* no slot left, through any number of refreshes, changes of account and   *)
(* failed logins of any of its threads.                                    *)
(***************************************************************************)
THEOREM NoSlotLeakCorrect == Spec => []NoSlotLeak
<1>1. IInv => NoSlotLeak
  <2> SUFFICES ASSUME IInv, NEW r \in Requests \ shaken,
                      phase[r] = "over" \/ (phase[r] = "held" /\ released[r] > 0)
               PROVE  \A id \in Ids : slots[r][id] = 0
    BY DEF NoSlotLeak
  <2>1. EmptyHanded(r)
    BY DEF EmptyHanded, Unready
  <2> QED
    BY <2>1 DEF IInv, AccountInv, AccountOf, Handed
<1> QED
  BY <1>1, AlwaysIInv, PTL

(***************************************************************************)
(* With the same exception, no thread calls with the token of another      *)
(* account than the one whose slot the request has, however its other      *)
(* threads refreshed the token or changed the account before.              *)
(***************************************************************************)
THEOREM HeldAccountCorrect == Spec => []CallsUseHeldAccount
<1>1. IInv => CallsUseHeldAccount
  <2> SUFFICES ASSUME IInv, NEW t \in Threads, At(t, "ask"), auth[t[1]].managed,
                      t[1] \notin shaken \union stray, released[t[1]] = 0,
                      \A u \in Others(t) : ~Changing(u)
               PROVE  auth[t[1]].token = auth[t[1]].account /\ slots[t[1]][auth[t[1]].account] > 0
    BY DEF CallsUseHeldAccount
  <2> DEFINE r == t[1]
  <2>1. r \in Requests /\ t[2] \in Kinds /\ t = <<r, t[2]>>
    BY ThreadsOf
  <2>2. \A k \in Kinds : run[<<r, k>>].at \notin Changes
    <3> SUFFICES ASSUME NEW k \in Kinds PROVE run[<<r, k>>].at \notin Changes
      OBVIOUS
    <3>1. CASE k = t[2]
      BY <2>1, <3>1 DEF At, Changes
    <3>2. CASE k # t[2]
      <4>1. <<r, k>> \in Others(t)
        BY <2>1, <3>2, ThreadsOf DEF Others
      <4> QED
        BY <4>1 DEF Changing, Changes
    <3> QED
      BY <3>1, <3>2
  <2>3. ~Unready(r)
    <3>1. phase[r] \in PhasesOf(t[2])
      BY <2>1, HandlerAlone DEF IInv, At
    <3>2. phase[r] = "determine" => t[2] = "main"
      BY <3>1 DEF PhasesOf
    <3>3. phase[r] # "determine"
      <4>1. Staged(t) /\ run[t].at = "ask"
        BY DEF IInv, ThreadInv, At
      <4> QED
        BY <3>2, <4>1 DEF Staged, DetermineStage
    <3>4. phase[r] \notin {"new", "over"}
      <4>1. \A k \in Kinds : "new" \notin PhasesOf(k) /\ "over" \notin PhasesOf(k)
        BY DEF PhasesOf
      <4> QED
        BY <2>1, <3>1, <4>1
    <3> QED
      BY <3>3, <3>4 DEF Unready
  <2>4. ~EmptyHanded(r)
    <3>1. ~(released[r] > 0)
      <4>1. ~(0 > 0)
        OBVIOUS
      <4> QED
        BY <4>1
    <3>2. \A k \in Kinds : ~At(<<r, k>>, "reacquire")
      BY <2>2 DEF At, Changes
    <3>3. auth[r].managed /\ r \notin stray
      OBVIOUS
    <3> QED
      BY <2>3, <3>1, <3>2, <3>3, Zenon DEF EmptyHanded
  <2>5. \A k \in Kinds : ~Moving(run[<<r, k>>])
    BY <2>2 DEF Moving, Changes
  <2>6. Handed(r) /\ Matching(r)
    BY <2>1 DEF IInv, AccountInv, AccountOf
  <2> QED
    BY <2>3, <2>4, <2>5, <2>6 DEF Handed, Matching
<1> QED
  BY <1>1, AlwaysIInv, PTL
=============================================================================
