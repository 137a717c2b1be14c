-------------------------- MODULE ChatRequestProofs --------------------------
(***************************************************************************)
(* Theorems about ChatRequest, for every set of accounts and requests and  *)
(* every number of attempts and retries: no slot leaks, calls use the      *)
(* account that is held, no account is used again, and every step leaves   *)
(* less to do.                                                           *)
(***************************************************************************)
EXTENDS ChatRequest, PoolProofs

(***************************************************************************)
(* The inductive invariant: where a request is says which slot it has and  *)
(* whose token it uses, until a change of account found none.  It speaks   *)
(* of one request at a time, because a request writes nothing of another.  *)
(***************************************************************************)
LocalTypes ==
  /\ pc \in [Requests -> ResolverStage \union ChatStage]
  /\ caller \in [Requests -> {"determine", "switch", "refresh"}]
  /\ auth \in [Requests -> Auth]
  /\ holds \in [Requests -> Ids \union {NoAccount}]
  /\ given \in [Requests -> SUBSET Ids]
  /\ stray \subseteq Requests

Unassigned == {"idle", "determine", "blocked"}

SlotOf(r) ==
  /\ holds[r] \in {NoAccount, auth[r].account}
  /\ pc[r] \in Unassigned \union {"reacquire"} => holds[r] = NoAccount
  /\ pc[r] \notin Unassigned => auth[r].account \in Ids

Trail(r) == given[r] \subseteq auth[r].tried /\ holds[r] \notin given[r]

TokenOf(r) ==
  r \notin stray =>
    /\ pc[r] # "unswitched"
    /\ pc[r] \notin Unassigned \union {"reacquire"} => holds[r] = auth[r].account
    /\ pc[r] \in {"ready", "switched", "refreshed", "call", "answer"}
         => auth[r].token = auth[r].account

RInv(r) == SlotOf(r) /\ Trail(r) /\ TokenOf(r)
IInv    == LocalTypes /\ \A r \in Requests : RInv(r)

\* Nothing of request q changes.
Same(q) ==
  /\ pc'[q] = pc[q]
  /\ auth'[q] = auth[q]
  /\ holds'[q] = holds[q]
  /\ given'[q] = given[q]
  /\ q \in stray' <=> q \in stray

\* A request of which nothing changes keeps its part of the invariant.
LEMMA SameInv == ASSUME NEW q, RInv(q), Same(q) PROVE RInv(q)'
  BY DEF RInv, SlotOf, Trail, TokenOf, Same

LEMMA InitIInv == Init => IInv
<1> SUFFICES ASSUME Init PROVE IInv
  OBVIOUS
<1> USE PoolAssumption DEF Init, AuthInit
<1>1. LocalTypes
  BY DEF LocalTypes, ResolverStage, ChatStage, Auth, NoAuth
<1>2. ASSUME NEW r \in Requests PROVE RInv(r)
  BY DEF RInv, SlotOf, Trail, TokenOf, Unassigned, NoAuth
<1> QED
  BY <1>1, <1>2 DEF IInv

-----------------------------------------------------------------------------
(***************************************************************************)
(* The resolver's steps.                                                   *)
(***************************************************************************)

\* The pool never gives an account that the request excludes.
LEMMA AcquireExcludes ==
  ASSUME NEW target, NEW exclude, NEW id \in Ids, acquire(target, exclude, id)
  PROVE  id \notin exclude
  BY DEF acquire, Eligible, Preferred

\* A RequestAuth with another account.
LEMMA SetAccount ==
  ASSUME NEW a \in Auth, NEW id \in Ids
  PROVE  LET b == [a EXCEPT !.account = id]
         IN  b \in Auth /\ b.account = id /\ b.tried = a.tried
  BY DEF Auth

\* The step that gives a request an account it has not tried.
LEMMA GotInv ==
  ASSUME IInv, NEW r \in Requests, NEW id \in Ids, id \notin auth[r].tried, Got(r, id),
         caller' \in [Requests -> {"determine", "switch", "refresh"}]
  PROVE  LocalTypes' /\ RInv(r)' /\ \A q \in Requests \ {r} : Same(q)
<1> USE PoolAssumption DEF IInv, LocalTypes, Got, Goto
<1>1. auth[r] \in Auth
  OBVIOUS
<1>2. auth' = [auth EXCEPT ![r] = [auth[r] EXCEPT !.account = id]]
  OBVIOUS
<1>3. auth'[r] = [auth[r] EXCEPT !.account = id]
  BY <1>2
<1>4. auth'[r] \in Auth /\ auth'[r].account = id /\ auth'[r].tried = auth[r].tried
  BY <1>1, <1>3, SetAccount
<1>5. LocalTypes'
  <2>1. auth' \in [Requests -> Auth]
    BY <1>2, <1>4
  <2>2. pc' \in [Requests -> ResolverStage \union ChatStage]
    BY DEF ResolverStage
  <2>3. holds' \in [Requests -> Ids \union {NoAccount}] /\ given' = given /\ stray' = stray
    OBVIOUS
  <2> QED
    BY <2>1, <2>2, <2>3
<1>6. holds'[r] = id /\ given'[r] = given[r] /\ stray' = stray /\ pc'[r] \in {"ensure", "login"}
  OBVIOUS
<1>7. RInv(r)'
  BY <1>4, <1>6 DEF RInv, SlotOf, Trail, TokenOf, Unassigned
<1>8. ASSUME NEW q \in Requests \ {r} PROVE Same(q)
  BY DEF Same
<1> QED
  BY <1>5, <1>7, <1>8

\* Every step of the resolver keeps the invariant of its request and touches no
\* other.
LEMMA ResolverInv ==
  ASSUME IInv, NEW r \in Requests, ResolverStep(r) \/ Determine(r) \/ Release(r)
  PROVE  LocalTypes' /\ RInv(r)' /\ \A q \in Requests \ {r} : Same(q)
<1> USE PoolAssumption DEF IInv, LocalTypes, At
<1>1. auth[r] \in Auth /\ RInv(r)
  OBVIOUS
<1>2. CASE Determine(r)
  <2>1. PICK t \in Targets : auth' = [auth EXCEPT ![r] = [auth[r] EXCEPT !.target = t]]
    BY <1>2 DEF Determine
  <2>2. t \in Ids \union {NoAccount}
    BY <2>1, RequestAuthAssumption
  <2>3. auth'[r] \in Auth /\ auth'[r].account = auth[r].account /\ auth'[r].tried = auth[r].tried
    BY <1>1, <2>1, <2>2 DEF Auth
  <2> QED
    BY <1>1, <1>2, <2>1, <2>3
    DEF Determine, Goto, ResolverStage, RInv, SlotOf, Trail, TokenOf, Unassigned, Same
<1>3. CASE DetermineAcquire(r)
  <2>1. PICK id \in Ids : acquire(auth[r].target, auth[r].tried, id) /\ Got(r, id)
    BY <1>3 DEF DetermineAcquire
  <2>2. id \notin auth[r].tried
    BY <2>1, AcquireExcludes
  <2> QED
    BY <1>3, <2>1, <2>2, GotInv DEF DetermineAcquire
<1>4. CASE DetermineWait(r)
  BY <1>1, <1>4 DEF DetermineWait, Goto, ResolverStage, RInv, SlotOf, Trail, TokenOf, Unassigned, Same
<1>5. CASE DetermineWake(r)
  BY <1>1, <1>5 DEF DetermineWake, Goto, ResolverStage, RInv, SlotOf, Trail, TokenOf, Unassigned, Same
<1>6. CASE DetermineFails(r)
  BY <1>1, <1>6 DEF DetermineFails, Goto, Forget, NoAuth, Auth, ResolverStage,
    RInv, SlotOf, Trail, TokenOf, Unassigned, Same
<1>7. CASE UseStoredToken(r)
  <2>1. auth'[r] \in Auth /\ auth'[r].account = auth[r].account
          /\ auth'[r].tried = auth[r].tried /\ auth'[r].token = auth[r].account
    BY <1>1, <1>7 DEF UseStoredToken, Auth
  <2> QED
    BY <1>1, <1>7, <2>1 DEF UseStoredToken, Succeed, Goto, ResolverStage,
      RInv, SlotOf, Trail, TokenOf, Unassigned, Same
<1>8. CASE RefreshDue(r)
  BY <1>1, <1>8 DEF RefreshDue, Goto, ResolverStage, RInv, SlotOf, Trail, TokenOf, Unassigned, Same
<1>9. CASE LoginFails(r)
  BY <1>1, <1>9 DEF LoginFails, Fail, Goto, ResolverStage, RInv, SlotOf, Trail, TokenOf, Unassigned, Same
<1>10. CASE LoginSucceeds(r)
  <2>1. auth'[r] \in Auth /\ auth'[r].account = auth[r].account
          /\ auth'[r].tried = auth[r].tried /\ auth'[r].token = auth[r].account
    BY <1>1, <1>10 DEF LoginSucceeds, Auth
  <2> QED
    BY <1>1, <1>10, <2>1 DEF LoginSucceeds, Succeed, Fail, Goto, ResolverStage,
      RInv, SlotOf, Trail, TokenOf, Unassigned, Same
<1>11. CASE RefreshToken(r)
  BY <1>1, <1>11 DEF RefreshToken, Goto, ResolverStage, RInv, SlotOf, Trail, TokenOf, Unassigned, Same
<1>12. CASE DetermineGivesBack(r)
  <2>1. auth[r].account \in Ids /\ auth[r].tried \subseteq Ids
    BY <1>1, <1>12 DEF DetermineGivesBack, RInv, SlotOf, Unassigned, Auth
  <2>2. CASE auth[r].target # NoAccount
    <3>1. /\ pc' = [pc EXCEPT ![r] = "idle"]
          /\ auth' = [auth EXCEPT ![r] = NoAuth]
          /\ given' = [given EXCEPT ![r] = {}]
          /\ holds' = [holds EXCEPT ![r] = NoAccount]
          /\ stray' = stray \ {r} /\ caller' = caller
      BY <1>12, <2>2 DEF DetermineGivesBack, Goto, Forget
    <3>2. NoAuth \in Auth /\ NoAuth.account = NoAccount
      BY DEF NoAuth, Auth
    <3>3. RInv(r)'
      BY <3>1, <3>2 DEF RInv, SlotOf, Trail, TokenOf, Unassigned
    <3> QED
      BY <3>1, <3>2, <3>3 DEF ResolverStage, Same
  <2>3. CASE auth[r].target = NoAccount
    <3> DEFINE fresh == [NoAuth EXCEPT !.tried = auth[r].tried \union {auth[r].account}]
    <3>1. fresh \in Auth /\ fresh.account = NoAccount
            /\ fresh.tried = auth[r].tried \union {auth[r].account}
      BY <2>1 DEF NoAuth, Auth
    <3>2. auth' = [auth EXCEPT ![r] = fresh]
      BY <1>12, <2>3 DEF DetermineGivesBack
    <3> HIDE DEF fresh
    <3>3. /\ pc' = [pc EXCEPT ![r] = "determine"]
          /\ given' = [given EXCEPT ![r] = @ \union {auth[r].account}]
          /\ holds' = [holds EXCEPT ![r] = NoAccount]
          /\ stray' = stray /\ caller' = caller
      BY <1>12, <2>3 DEF DetermineGivesBack, Goto
    <3>4. auth'[r] = fresh /\ holds'[r] = NoAccount /\ pc'[r] = "determine"
            /\ given'[r] = given[r] \union {auth[r].account}
      BY <3>2, <3>3
    <3>5. RInv(r)'
      BY <1>1, <2>1, <3>1, <3>3, <3>4 DEF RInv, SlotOf, Trail, TokenOf, Unassigned
    <3> QED
      BY <2>1, <3>1, <3>2, <3>3, <3>5 DEF ResolverStage, Same
  <2> QED
    BY <2>2, <2>3
<1>13. CASE SwitchGivesBack(r) \/ LeaveAccount(r)
  <2>1. auth' = [auth EXCEPT ![r] = [auth[r] EXCEPT !.tried = @ \union {auth[r].account}]]
    BY <1>13 DEF SwitchGivesBack, LeaveAccount
  <2>2. auth[r].account \in Ids
    BY <1>1, <1>13 DEF SwitchGivesBack, LeaveAccount, RInv, SlotOf, Unassigned
  <2>3. auth'[r] \in Auth /\ auth'[r].account = auth[r].account
          /\ auth'[r].tried = auth[r].tried \union {auth[r].account}
    BY <1>1, <2>1, <2>2 DEF Auth
  <2> QED
    BY <1>1, <1>13, <2>1, <2>2, <2>3
    DEF SwitchGivesBack, LeaveAccount, GiveSlot, Goto, ResolverStage,
      RInv, SlotOf, Trail, TokenOf, Unassigned, Same
<1>14. CASE Reacquire(r)
  <2>1. PICK id \in Ids : acquire(NoAccount, auth[r].tried, id) /\ Got(r, id)
    BY <1>14 DEF Reacquire
  <2>2. id \notin auth[r].tried
    BY <2>1, AcquireExcludes
  <2> QED
    BY <1>14, <2>1, <2>2, GotInv DEF Reacquire
<1>15. CASE NoneFree(r)
  BY <1>1, <1>15 DEF NoneFree, Goto, ResolverStage, RInv, SlotOf, Trail, TokenOf, Unassigned, Same
<1>16. CASE Release(r)
  BY <1>1, <1>16 DEF Release, Goto, Forget, NoAuth, Auth, ResolverStage,
    RInv, SlotOf, Trail, TokenOf, Unassigned, Same
<1> QED
  BY <1>2, <1>3, <1>4, <1>5, <1>6, <1>7, <1>8, <1>9, <1>10, <1>11, <1>12, <1>13,
     <1>14, <1>15, <1>16 DEF ResolverStep

-----------------------------------------------------------------------------
(***************************************************************************)
(* The handler's steps, which move a request without touching its account. *)
(***************************************************************************)

\* A step that only moves r, to a stage its slot and token allow.
LEMMA MoveInv ==
  ASSUME IInv, NEW r \in Requests, UNCHANGED authVarsButPc, NEW s, Goto(r, s),
         pc[r] \notin Unassigned \union {"reacquire"},
         \/ s \in {"failed", "release", "switch", "refresh"}
         \/ /\ s \in {"call", "answer"}
            /\ pc[r] \in {"ready", "switched", "unswitched", "refreshed", "call", "answer"}
  PROVE  LocalTypes' /\ RInv(r)' /\ \A q \in Requests \ {r} : Same(q)
  BY DEF IInv, LocalTypes, authVarsButPc, Goto, ResolverStage, ChatStage,
    RInv, SlotOf, Trail, TokenOf, Unassigned, Same

\* Where a call that failed, or that has failed once more, leaves its request.
LEMMA FailMoves ==
  ASSUME NEW r, NEW c, CallFails(r, c) \/ NextAttempt(r, c)
  PROVE  \E s \in {"call", "failed", "release"} : Goto(r, s)
  BY DEF CallFails, NextAttempt, StartCall

\* Every step of the client calls and of the handler keeps the invariant of its
\* request and touches no other.
LEMMA ChatInv ==
  ASSUME IInv, NEW r \in Requests, ChatStep(r)
  PROVE  LocalTypes' /\ RInv(r)' /\ \A q \in Requests \ {r} : Same(q)
<1> DEFINE Ready == {"ready", "switched", "unswitched", "refreshed", "call", "answer"}
<1>1. CASE End(r)
  BY <1>1, ResolverInv DEF End
<1>2. CASE SessionCreated(r) \/ PowComputed(r) \/ CompletionStarts(r)
  <2>1. UNCHANGED authVarsButPc /\ pc[r] = "call"
    BY <1>2 DEF SessionCreated, PowComputed, CompletionStarts, At
  <2>2. \E s \in {"call", "answer"} : Goto(r, s)
    BY <1>2 DEF SessionCreated, PowComputed, CompletionStarts, StartCall
  <2> QED
    BY <2>1, <2>2, MoveInv DEF Unassigned
<1>3. CASE CallErrs(r) \/ PowUnusable(r) \/ CallSwitched(r) \/ CallNotSwitched(r)
  <2>1. UNCHANGED authVarsButPc /\ pc[r] \in Ready
    BY <1>3 DEF CallErrs, PowUnusable, CallSwitched, CallNotSwitched, At
  <2>2. \E c : CallFails(r, c) \/ NextAttempt(r, c)
    BY <1>3 DEF CallErrs, PowUnusable, CallSwitched, CallNotSwitched
  <2>3. \E s \in {"call", "failed", "release"} : Goto(r, s)
    BY <2>2, FailMoves
  <2> QED
    BY <2>1, <2>3, MoveInv DEF Unassigned
<1>4. CASE TokenRejected(r) \/ AccountRejected(r) \/ RefreshFailed(r) \/ BanAndSwitch(r)
  <2>1. UNCHANGED authVarsButPc /\ pc[r] \in {"call", "unrefreshed", "answer"}
    BY <1>4 DEF TokenRejected, AccountRejected, RefreshFailed, BanAndSwitch, EmptyAnswer, At
  <2>2. \E s \in {"refresh", "switch"} : Goto(r, s)
    BY <1>4 DEF TokenRejected, AccountRejected, RefreshFailed, BanAndSwitch
  <2> QED
    BY <2>1, <2>2, MoveInv DEF Unassigned
<1>5. CASE TokenRefreshed(r) \/ Begin(r) \/ RetryEmpty(r) \/ RestartWithAccount(r)
  <2>1. UNCHANGED authVarsButPc /\ pc[r] \in Ready
    BY <1>5 DEF TokenRefreshed, Begin, RetryEmpty, RestartWithAccount, EmptyAnswer, At
  <2>2. \E s \in {"call", "release"} : Goto(r, s)
    BY <1>5 DEF TokenRefreshed, Begin, RetryEmpty, RestartWithAccount, StartCall
  <2> QED
    BY <2>1, <2>2, MoveInv DEF Unassigned
<1>6. CASE Answered(r) \/ NoOtherAccount(r) \/ RestartFailed(r)
  <2>1. UNCHANGED authVarsButPc /\ pc[r] \in {"answer", "unswitched", "failed"}
    BY <1>6 DEF Answered, NoOtherAccount, RestartFailed, EndEmpty, At
  <2>2. Goto(r, "release")
    BY <1>6 DEF Answered, NoOtherAccount, RestartFailed, EndEmpty
  <2> QED
    BY <2>1, <2>2, MoveInv DEF Unassigned
<1> QED
  BY <1>1, <1>2, <1>3, <1>4, <1>5, <1>6 DEF ChatStep

-----------------------------------------------------------------------------
\* The invariant is inductive.
LEMMA NextIInv == IInv /\ [Next]_vars => IInv'
<1> SUFFICES ASSUME IInv, [Next]_vars PROVE IInv'
  OBVIOUS
<1>1. ASSUME NEW r \in Requests,
             (Determine(r) /\ UNCHANGED chat) \/ RequestStep(r)
      PROVE  IInv'
  <2>1. LocalTypes' /\ RInv(r)' /\ \A q \in Requests \ {r} : Same(q)
    BY <1>1, ResolverInv, ChatInv DEF RequestStep
  <2>2. \A q \in Requests \ {r} : RInv(q)'
    BY <2>1, SameInv DEF IInv
  <2> QED
    BY <2>1, <2>2 DEF IInv
<1>2. ASSUME UNCHANGED authVars PROVE IInv'
  <2>1. LocalTypes'
    BY <1>2 DEF IInv, LocalTypes, authVars
  <2>2. \A q \in Requests : RInv(q)'
    BY <1>2, SameInv DEF IInv, Same, authVars
  <2> QED
    BY <2>1, <2>2 DEF IInv
<1> QED
  BY <1>1, <1>2 DEF Next, vars

\* The invariant holds in every behaviour.
LEMMA AlwaysIInv == Spec => []IInv
  BY InitIInv, NextIInv, PTL DEF Spec

-----------------------------------------------------------------------------
(***************************************************************************)
(* The pool under these requests.  What a step does to it is one of four   *)
(* things, and what it does to the slot of its request goes with that.     *)
(***************************************************************************)
PoolInv == PoolTypeOK /\ SlotInv /\ Covers(holds, inUse)

Takes(r) ==
  \E id \in Ids :
    /\ Took(holds, holds', r, id) /\ takeSlot(id)
    /\ UNCHANGED <<storeVars, waiters, limitVars, banned>>

Gives(r) ==
  \E id \in Ids : Gave(holds, holds', r, id) /\ releaseSlot(id)

Waits ==
  /\ waiters' \in Seq(Requests)
  /\ UNCHANGED <<storeVars, slotVars, limitVars, banned, holds>>

Bans ==
  /\ \/ \E id \in Ids : banAccount(id)
     \/ \E id \in Ids : BanExpires(id)
  /\ UNCHANGED holds

\* The steps that change the pool, by what they do to it and to the holder.
LEMMA PoolSteps ==
  ASSUME PoolInv, Waits \/ Bans \/ (\E r \in Requests : Takes(r) \/ Gives(r))
  PROVE  PoolInv'
<1> USE DEF PoolInv
<1>1. ASSUME NEW r \in Requests, Takes(r) PROVE PoolInv'
  <2>1. PICK id \in Ids : /\ Took(holds, holds', r, id) /\ takeSlot(id)
                          /\ UNCHANGED <<storeVars, waiters, limitVars, banned>>
    BY <1>1 DEF Takes
  <2>2. PoolTypeOK' /\ SlotInv'
    BY <2>1, TakeSlotInv
  <2>3. Covers(holds', inUse')
    BY <2>1, TakeCovers
  <2> QED
    BY <2>2, <2>3 DEF Covers, HoldersOf
<1>2. ASSUME NEW r \in Requests, Gives(r) PROVE PoolInv'
  <2>1. PICK id \in Ids : Gave(holds, holds', r, id) /\ releaseSlot(id)
    BY <1>2 DEF Gives
  <2>2. PoolTypeOK' /\ SlotInv'
    BY <2>1, ReleaseSlotInv
  <2>3. Covers(holds', inUse')
    BY <2>1, GiveCovers
  <2> QED
    BY <2>2, <2>3 DEF Covers, HoldersOf
<1>3. ASSUME UNCHANGED <<slotVars, holds>> PROVE Covers(holds, inUse)'
  BY <1>3 DEF Covers, HoldersOf, slotVars
<1>4. CASE Waits
  <2>1. PoolTypeOK' /\ SlotInv'
    BY <1>4, FrameInv DEF Waits, storeVars, limitVars, PoolTypeOK
  <2> QED
    BY <1>3, <1>4, <2>1 DEF Waits
<1>5. CASE Bans
  <2>1. ASSUME NEW id \in Ids, banAccount(id) PROVE PoolInv'
    <3>1. PoolTypeOK' /\ SlotInv'
      BY <2>1, NotifyInv DEF banAccount, limitVars, PoolTypeOK
    <3> QED
      BY <1>3, <1>5, <2>1, <3>1 DEF Bans, banAccount
  <2>2. ASSUME NEW id \in Ids, BanExpires(id) PROVE PoolInv'
    <3>1. PoolTypeOK' /\ SlotInv'
      BY <2>2, FrameInv DEF BanExpires, storeVars, limitVars, PoolTypeOK
    <3> QED
      BY <1>3, <1>5, <2>2, <3>1 DEF Bans, BanExpires
  <2> QED
    BY <1>5, <2>1, <2>2 DEF Bans
<1> QED
  BY <1>1, <1>2, <1>4, <1>5

\* What each step of a request is for the pool.
LEMMA StepKinds ==
  ASSUME IInv, PoolInv, NEW r \in Requests,
         (Determine(r) /\ UNCHANGED chat) \/ RequestStep(r)
  PROVE  Waits \/ Bans \/ Takes(r) \/ Gives(r)
<1>1. /\ RInv(r) /\ holds \in Holding /\ waiters \in Seq(Requests)
      /\ auth[r].account \in Ids \/ pc[r] \in Unassigned
      /\ holds[r] \in {NoAccount, auth[r].account}
      /\ PoolTypeOK /\ PoolTypeOK => waiters \in Seq(Requests)
  BY DEF IInv, LocalTypes, Holding, PoolInv, PoolTypeOK, RInv, SlotOf
<1> USE DEF At
<1>2. ASSUME UNCHANGED <<poolVars, holds>> PROVE Waits
  BY <1>1, <1>2 DEF Waits, poolVars
<1>3. CASE DetermineAcquire(r) \/ Reacquire(r)
  <2>1. PICK id \in Ids : takeSlot(id) /\ Got(r, id)
    BY <1>3 DEF DetermineAcquire, Reacquire, acquire
  <2>2. holds[r] = NoAccount
    BY <1>1, <1>3 DEF DetermineAcquire, Reacquire, RInv, SlotOf, Unassigned
  <2>3. Took(holds, holds', r, id)
    BY <1>1, <2>1, <2>2 DEF Took, Got
  <2> QED
    BY <2>1, <2>3 DEF Takes, Got
<1>4. CASE DetermineGivesBack(r) \/ SwitchGivesBack(r) \/ LeaveAccount(r) \/ Release(r)
  <2>1. auth[r].account \in Ids
    BY <1>1, <1>4 DEF DetermineGivesBack, SwitchGivesBack, LeaveAccount, Release, Unassigned
  <2>2. releaseSlot(auth[r].account)
    BY <1>4 DEF DetermineGivesBack, SwitchGivesBack, LeaveAccount, Release, GiveSlot
  <2>3. holds' = [holds EXCEPT ![r] = NoAccount]
    BY <1>1, <1>4 DEF DetermineGivesBack, SwitchGivesBack, LeaveAccount, Release, GiveSlot
  <2> QED
    BY <1>1, <2>1, <2>2, <2>3 DEF Gives, Gave
<1>5. CASE DetermineWait(r) \/ DetermineFails(r)
  <2>1. waiters' \in Seq(Requests)
    BY <1>1, <1>5, WithoutType DEF DetermineWait, DetermineFails
  <2> QED
    BY <1>5, <2>1 DEF DetermineWait, DetermineFails, Waits
<1>6. CASE Determine(r) \/ DetermineWake(r) \/ UseStoredToken(r) \/ RefreshDue(r)
           \/ LoginFails(r) \/ LoginSucceeds(r) \/ RefreshToken(r) \/ NoneFree(r)
  BY <1>2, <1>6 DEF Determine, DetermineWake, UseStoredToken, RefreshDue, LoginFails,
    LoginSucceeds, RefreshToken, NoneFree
<1>7. CASE BanAndSwitch(r) \/ NoOtherAccount(r) \/ RestartFailed(r)
  <2>1. auth[r].account \in Ids
    BY <1>1, <1>7 DEF BanAndSwitch, EmptyAnswer, NoOtherAccount, RestartFailed, Unassigned
  <2>2. banAccount(auth[r].account) \/ UNCHANGED poolVars
    BY <1>7 DEF BanAndSwitch, NoOtherAccount, RestartFailed, EndEmpty
  <2>3. holds' = holds
    BY <1>7 DEF BanAndSwitch, NoOtherAccount, RestartFailed, EndEmpty, authVarsButPc
  <2> QED
    BY <1>2, <2>1, <2>2, <2>3 DEF Bans
<1>8. ASSUME SessionCreated(r) \/ PowComputed(r) \/ CompletionStarts(r) \/ CallErrs(r)
           \/ PowUnusable(r) \/ TokenRejected(r) \/ AccountRejected(r) \/ TokenRefreshed(r)
           \/ RefreshFailed(r) \/ CallSwitched(r) \/ CallNotSwitched(r) \/ Begin(r)
           \/ Answered(r) \/ RetryEmpty(r) \/ RestartWithAccount(r)
      PROVE Waits
  BY <1>2, <1>8 DEF SessionCreated, PowComputed, CompletionStarts, CallErrs, PowUnusable,
    TokenRejected, AccountRejected, TokenRefreshed, RefreshFailed, CallSwitched,
    CallNotSwitched, Begin, Answered, RetryEmpty, RestartWithAccount, authVarsButPc
<1>9. CASE End(r)
  BY <1>4, <1>9 DEF End
<1> QED
  BY <1>3, <1>4, <1>5, <1>6, <1>7, <1>8, <1>9 DEF RequestStep, ResolverStep, ChatStep

LEMMA InitPoolInv == Init => PoolInv
<1> SUFFICES ASSUME Init PROVE PoolInv
  OBVIOUS
<1>1. PICK list \in Configured : PoolInit(list)
  BY DEF Init, AuthInit
<1>2. PoolTypeOK /\ SlotInv
  BY <1>1, PoolInitInv, RequestAuthAssumption
<1>3. Covers(holds, inUse)
  <2>1. inUse = [id \in Ids |-> 0]
    BY <1>1 DEF PoolInit
  <2>2. \A id : Cardinality(HoldersOf(holds, id)) \in Nat
    BY HoldersOfFinite
  <2> QED
    BY <2>1, <2>2 DEF Covers
<1> QED
  BY <1>2, <1>3 DEF PoolInv

\* Every step keeps the counters covered by the holders.
LEMMA NextPoolInv == IInv /\ PoolInv /\ [Next]_vars => PoolInv'
<1> SUFFICES ASSUME IInv, PoolInv, [Next]_vars PROVE PoolInv'
  OBVIOUS
<1>1. ASSUME NEW r \in Requests, (Determine(r) /\ UNCHANGED chat) \/ RequestStep(r)
      PROVE  PoolInv'
  BY <1>1, StepKinds, PoolSteps
<1>2. ASSUME NEW id \in Ids, BanExpires(id), UNCHANGED <<authVars, chat>>
      PROVE  PoolInv'
  BY <1>2, PoolSteps DEF Bans, authVars
<1>3. CASE UNCHANGED vars
  <2>1. Waits
    BY <1>3 DEF Waits, vars, poolVars, authVars, PoolInv, PoolTypeOK
  <2> QED
    BY <2>1, PoolSteps
<1> QED
  BY <1>1, <1>2, <1>3 DEF Next

(***************************************************************************)
(* No path through logins, refreshes, changes of account and retries leaks *)
(* a slot: the pool never counts more slots than requests have, so when    *)
(* all requests have ended every account is free.                          *)
(***************************************************************************)
THEOREM NoSlotLeakCorrect == Spec => []NoSlotLeak
<1>1. IInv /\ PoolInv /\ [Next]_vars => IInv' /\ PoolInv'
  BY NextIInv, NextPoolInv
<1>2. IInv /\ PoolInv => NoSlotLeak
  <2> SUFFICES ASSUME IInv, PoolInv PROVE NoSlotLeak
    OBVIOUS
  <2>1. holds \in Holding
    BY DEF IInv, LocalTypes, Holding
  <2>2. totalInUse <= Cardinality(AllHoldersOf(holds))
    BY <2>1, CoveredTotal DEF PoolInv
  <2> QED
    BY <2>2 DEF PoolInv, Covers, NoSlotLeak, Holders, HoldersOf, AllHoldersOf
<1> QED
  BY <1>1, <1>2, InitIInv, InitPoolInv, PTL DEF Spec

(***************************************************************************)
(* Until a change of account has found none, every upstream call is made   *)
(* with the token of the account whose slot the request has: resolver      *)
(* logins, refreshes and changes of account never mix two accounts.        *)
(***************************************************************************)
THEOREM HeldAccountCorrect == Spec => []CallsUseHeldAccount
<1>1. IInv => CallsUseHeldAccount
  BY DEF IInv, RInv, SlotOf, TokenOf, Unassigned, CallsUseHeldAccount
<1> QED
  BY <1>1, AlwaysIInv, PTL

(***************************************************************************)
(* A request is never given an account that it has left: SwitchAccount and *)
(* Determine record it before the pool chooses again.                      *)
(***************************************************************************)
THEOREM TriedOnceCorrect == Spec => []AccountsAreTriedOnce
<1>1. IInv => AccountsAreTriedOnce
  BY DEF IInv, RInv, Trail, AccountsAreTriedOnce
<1> QED
  BY <1>1, AlwaysIInv, PTL

-----------------------------------------------------------------------------
(***************************************************************************)
(* Every step counts.  Ahead is bounded below, and goes down, because of   *)
(* where a request may be in which call (ChatFits) and because an account  *)
(* that is left is recorded before another is taken (Left).                *)
(***************************************************************************)
ChatFits(c, stage, from) ==
  /\ c \in Chat
  /\ c.attempts < MaxAttempts
  /\ c.retries <= MaxRetries
  /\ stage \in {"call", "refresh", "refreshed", "unrefreshed"} => c.op # "none"
  /\ stage = "ensure" => from # "refresh"
  /\ stage = "login" /\ from = "refresh" => c.op # "none" /\ ~c.refreshed
  /\ stage \in {"refresh", "refreshed"} => ~c.refreshed
  /\ \/ stage \in Unassigned
     \/ stage \in {"ensure", "login", "giveback"} /\ from = "determine"
     => c.op = "none"

Left(a, stage) ==
  stage \in Unassigned \union {"reacquire"} => a.account \in a.tried \union {NoAccount}

BInv ==
  /\ chat \in [Requests -> Chat]
  /\ \A r \in Requests : ChatFits(chat[r], pc[r], caller[r]) /\ Left(auth[r], pc[r])

\* From call c at stage s to call d at stage t with no other account.
Lower(c, s, d, t) ==
  \/ Retries(d, t) < Retries(c, s)
  \/ /\ Retries(d, t) = Retries(c, s)
     /\ \/ CallRank(d, t) < CallRank(c, s)
        \/ /\ CallRank(d, t) = CallRank(c, s)
           /\ \/ c.attempts < d.attempts
              \/ /\ c.attempts = d.attempts
                 /\ \/ ~c.refreshed /\ d.refreshed
                    \/ c.refreshed = d.refreshed /\ StageRank(t) < StageRank(s)

\* What is ahead of a request is natural.
LEMMA RankTypes ==
  ASSUME NEW c, NEW s, NEW k, ChatFits(c, s, k)
  PROVE  /\ Retries(c, s) \in Nat
         /\ CallRank(c, s) \in Nat
         /\ MaxAttempts - c.attempts \in Nat
         /\ StageRank(s) \in Nat
<1>1. /\ c.attempts \in Nat /\ c.retries \in Nat
      /\ MaxAttempts \in Nat /\ MaxRetries \in Nat
      /\ c.attempts < MaxAttempts /\ c.retries <= MaxRetries
  BY ChatRequestAssumption DEF ChatFits, Chat
<1>2. Retries(c, s) \in Nat
  BY <1>1 DEF Retries
<1>3. CallRank(c, s) \in Nat
  BY DEF CallRank
<1>4. StageRank(s) \in Nat
  BY DEF StageRank
<1> QED
  BY <1>1, <1>2, <1>3, <1>4

\* The lexicographic order, place by place.
LEMMA LessAt ==
  ASSUME NEW m \in [1 .. 6 -> Nat], NEW n \in [1 .. 6 -> Nat],
         \/ m[1] < n[1]
         \/ m[1] = n[1] /\ m[2] < n[2]
         \/ m[1] = n[1] /\ m[2] = n[2] /\ m[3] < n[3]
         \/ m[1] = n[1] /\ m[2] = n[2] /\ m[3] = n[3] /\ m[4] < n[4]
         \/ m[1] = n[1] /\ m[2] = n[2] /\ m[3] = n[3] /\ m[4] = n[4] /\ m[5] < n[5]
         \/ m[1] = n[1] /\ m[2] = n[2] /\ m[3] = n[3] /\ m[4] = n[4] /\ m[5] = n[5]
              /\ m[6] < n[6]
  PROVE  Less(m, n)
<1>1. ASSUME NEW i \in 1 .. 6, m[i] < n[i], \A j \in 1 .. i - 1 : m[j] = n[j]
      PROVE  Less(m, n)
  <2>1. i \in DOMAIN m
    OBVIOUS
  <2> QED
    BY <1>1, <2>1 DEF Less
<1>2. CASE m[1] < n[1]
  BY <1>1, <1>2
<1>3. CASE m[1] = n[1] /\ m[2] < n[2]
  BY <1>1, <1>3
<1>4. CASE m[1] = n[1] /\ m[2] = n[2] /\ m[3] < n[3]
  BY <1>1, <1>4
<1>5. CASE m[1] = n[1] /\ m[2] = n[2] /\ m[3] = n[3] /\ m[4] < n[4]
  BY <1>1, <1>5
<1>6. CASE m[1] = n[1] /\ m[2] = n[2] /\ m[3] = n[3] /\ m[4] = n[4] /\ m[5] < n[5]
  BY <1>1, <1>6
<1>7. CASE m[1] = n[1] /\ m[2] = n[2] /\ m[3] = n[3] /\ m[4] = n[4] /\ m[5] = n[5]
             /\ m[6] < n[6]
  BY <1>1, <1>7
<1> QED
  BY <1>2, <1>3, <1>4, <1>5, <1>6, <1>7

\* The order on what is ahead, from its first part and from Lower.
LEMMA LowerIsLess ==
  ASSUME NEW a \in Nat, NEW b \in Nat,
         NEW c, NEW s, NEW k, ChatFits(c, s, k),
         NEW d, NEW t, NEW l, ChatFits(d, t, l),
         \/ a < b
         \/ a = b /\ Lower(c, s, d, t)
  PROVE  LET m == <<a, Retries(d, t), CallRank(d, t), MaxAttempts - d.attempts,
                    IF d.refreshed THEN 0 ELSE 1, StageRank(t)>>
             n == <<b, Retries(c, s), CallRank(c, s), MaxAttempts - c.attempts,
                    IF c.refreshed THEN 0 ELSE 1, StageRank(s)>>
         IN  m \in [1 .. 6 -> Nat] /\ Less(m, n)
<1> DEFINE m == <<a, Retries(d, t), CallRank(d, t), MaxAttempts - d.attempts,
                  IF d.refreshed THEN 0 ELSE 1, StageRank(t)>>
           n == <<b, Retries(c, s), CallRank(c, s), MaxAttempts - c.attempts,
                  IF c.refreshed THEN 0 ELSE 1, StageRank(s)>>
<1>1. /\ Retries(c, s) \in Nat /\ CallRank(c, s) \in Nat
      /\ MaxAttempts - c.attempts \in Nat /\ StageRank(s) \in Nat
      /\ Retries(d, t) \in Nat /\ CallRank(d, t) \in Nat
      /\ MaxAttempts - d.attempts \in Nat /\ StageRank(t) \in Nat
  BY RankTypes
<1>2. m \in [1 .. 6 -> Nat] /\ n \in [1 .. 6 -> Nat]
  BY <1>1
<1>3. /\ c.attempts \in Nat /\ d.attempts \in Nat /\ MaxAttempts \in Nat
      /\ c.refreshed \in BOOLEAN /\ d.refreshed \in BOOLEAN
  BY ChatRequestAssumption DEF ChatFits, Chat
<1>4. /\ m[1] = a /\ m[2] = Retries(d, t) /\ m[3] = CallRank(d, t)
      /\ m[4] = MaxAttempts - d.attempts /\ m[5] = (IF d.refreshed THEN 0 ELSE 1)
      /\ m[6] = StageRank(t)
      /\ n[1] = b /\ n[2] = Retries(c, s) /\ n[3] = CallRank(c, s)
      /\ n[4] = MaxAttempts - c.attempts /\ n[5] = (IF c.refreshed THEN 0 ELSE 1)
      /\ n[6] = StageRank(s)
  OBVIOUS
<1> HIDE DEF m, n
<1>5. CASE a < b
  BY <1>2, <1>4, <1>5, LessAt
<1>6. CASE a = b /\ Lower(c, s, d, t)
  <2>1. c.attempts < d.attempts => m[4] < n[4]
    BY <1>3, <1>4
  <2>2. ~c.refreshed /\ d.refreshed => m[5] < n[5]
    BY <1>3, <1>4
  <2>3. /\ c.attempts = d.attempts => m[4] = n[4]
        /\ c.refreshed = d.refreshed => m[5] = n[5]
    BY <1>4
  <2> QED
    BY <1>2, <1>4, <1>6, <2>1, <2>2, <2>3, LessAt DEF Lower
<1> QED
  BY <1>2, <1>5, <1>6 DEF m, n

\* A call that has one more attempt, or fails.
LEMMA AttemptLower ==
  ASSUME BInv, LocalTypes, NEW r \in Requests, NEW b \in BOOLEAN, UNCHANGED caller,
         pc[r] \in {"call", "switched", "unswitched"}, chat[r].op # "none",
         \/ NextAttempt(r, [chat[r] EXCEPT !.refreshed = b])
         \/ pc[r] = "call" /\ CallFails(r, chat[r])
  PROVE  /\ chat' \in [Requests -> Chat]
         /\ ChatFits(chat'[r], pc'[r], caller'[r])
         /\ Lower(chat[r], pc[r], chat'[r], pc'[r])
         /\ \A q \in Requests \ {r} : chat'[q] = chat[q]
<1> DEFINE c == chat[r]
           e == [c EXCEPT !.refreshed = b]
<1>1. /\ c \in Chat /\ c.attempts \in Nat /\ c.retries \in Nat
      /\ MaxAttempts \in Nat /\ MaxRetries \in Nat /\ MaxAttempts > 0
      /\ c.attempts < MaxAttempts /\ c.retries <= MaxRetries
      /\ caller[r] \in {"determine", "switch", "refresh"}
  BY ChatRequestAssumption DEF BInv, ChatFits, Chat, LocalTypes
<1>2. /\ e \in Chat /\ e.op = c.op /\ e.phase = c.phase
      /\ e.attempts = c.attempts /\ e.retries = c.retries
  BY <1>1 DEF Chat
<1>3. ASSUME NEW d \in Chat, d.op = c.op, d.phase = c.phase, d.retries = c.retries,
             d.attempts = c.attempts + 1, d.attempts < MaxAttempts, StartCall(r, d)
      PROVE  /\ chat' \in [Requests -> Chat] /\ chat'[r] = d /\ pc'[r] = "call"
             /\ ChatFits(chat'[r], pc'[r], caller'[r])
             /\ Lower(chat[r], pc[r], chat'[r], pc'[r])
             /\ \A q \in Requests \ {r} : chat'[q] = chat[q]
  <2>1. /\ chat' \in [Requests -> Chat] /\ chat'[r] = d /\ pc'[r] = "call"
        /\ \A q \in Requests \ {r} : chat'[q] = chat[q]
    BY <1>3 DEF StartCall, Goto, BInv, LocalTypes
  <2>2. ChatFits(d, "call", caller[r])
    BY <1>1, <1>3 DEF ChatFits, Unassigned
  <2>3. Retries(d, "call") = Retries(c, pc[r]) /\ CallRank(d, "call") = CallRank(c, pc[r])
    BY <1>1, <1>3 DEF Retries, Restarting, CallRank
  <2>4. Lower(c, pc[r], d, "call")
    BY <1>1, <1>3, <2>3 DEF Lower
  <2> QED
    BY <2>1, <2>2, <2>4
<1>4. ASSUME NEW d \in Chat, d.op = c.op, d.phase = c.phase, d.retries = c.retries,
             CallFails(r, d)
      PROVE  /\ chat' \in [Requests -> Chat]
             /\ ChatFits(chat'[r], pc'[r], caller'[r])
             /\ Lower(chat[r], pc[r], chat'[r], pc'[r])
             /\ \A q \in Requests \ {r} : chat'[q] = chat[q]
  <2>1. CASE d.phase = "retry" /\ d.op = "getPow"
    <3> DEFINE f == [d EXCEPT !.op = "callCompletion", !.attempts = 0, !.refreshed = FALSE]
    <3>1. /\ f \in Chat /\ f.op = "callCompletion" /\ f.phase = c.phase
          /\ f.retries = c.retries /\ f.attempts = 0
      BY <1>4 DEF Chat
    <3>2. StartCall(r, f)
      BY <1>4, <2>1 DEF CallFails
    <3> HIDE DEF f
    <3>3. /\ chat' \in [Requests -> Chat] /\ chat'[r] = f /\ pc'[r] = "call"
          /\ \A q \in Requests \ {r} : chat'[q] = chat[q]
      BY <3>1, <3>2 DEF StartCall, Goto, BInv, LocalTypes
    <3>4. ChatFits(f, "call", caller[r])
      BY <1>1, <3>1 DEF ChatFits, Unassigned
    <3>5. Retries(f, "call") = Retries(c, pc[r])
      BY <1>1, <3>1 DEF Retries, Restarting
    <3>6. CallRank(f, "call") = 1 /\ CallRank(c, pc[r]) = 2
      <4>1. c.op = "getPow"
        BY <1>4, <2>1
      <4> QED
        BY <3>1, <4>1 DEF CallRank
    <3>7. Lower(c, pc[r], f, "call")
      BY <3>5, <3>6 DEF Lower
    <3> QED
      BY <3>3, <3>4, <3>7
  <2>2. CASE ~(d.phase = "retry" /\ d.op = "getPow")
    <3>1. PICK t \in {"failed", "release"} : Goto(r, t) /\ UNCHANGED chat
      BY <1>4, <2>2 DEF CallFails
    <3>2. pc'[r] = t /\ chat'[r] = c
      BY <3>1 DEF Goto, LocalTypes
    <3>3. ChatFits(c, t, caller[r])
      BY <3>1 DEF BInv, ChatFits, Unassigned
    <3>4. /\ Retries(c, t) = Retries(c, pc[r]) /\ CallRank(c, t) = CallRank(c, pc[r])
          /\ StageRank(t) < StageRank(pc[r])
      BY <3>1 DEF Retries, Restarting, CallRank, StageRank
    <3>5. Lower(c, pc[r], c, t)
      BY <1>1, <3>4 DEF Lower, Chat
    <3>6. chat' \in [Requests -> Chat] /\ \A q \in Requests \ {r} : chat'[q] = chat[q]
      BY <3>1 DEF BInv
    <3> QED
      BY <3>2, <3>3, <3>5, <3>6
  <2> QED
    BY <2>1, <2>2
<1>5. CASE NextAttempt(r, e) /\ e.attempts + 1 < MaxAttempts
  <2> HIDE DEF e
  <2> DEFINE d == [e EXCEPT !.attempts = @ + 1]
  <2>1. /\ d \in Chat /\ d.op = c.op /\ d.phase = c.phase /\ d.retries = c.retries
        /\ d.attempts = c.attempts + 1
    BY <1>1, <1>2 DEF Chat
  <2>2. StartCall(r, d)
    BY <1>5 DEF NextAttempt
  <2> HIDE DEF d
  <2> QED
    BY <1>2, <1>3, <1>5, <2>1, <2>2
<1>6. CASE NextAttempt(r, e) /\ ~(e.attempts + 1 < MaxAttempts)
  <2>1. CallFails(r, e)
    BY <1>6 DEF NextAttempt
  <2> HIDE DEF e
  <2> QED
    BY <1>2, <1>4, <2>1
<1>7. CASE CallFails(r, chat[r])
  BY <1>1, <1>4, <1>7
<1> QED
  BY <1>5, <1>6, <1>7

\* What the handler and its calls may do; only End ends what is ahead.
ChatCounts(r) ==
  /\ chat' \in [Requests -> Chat]
  /\ ChatFits(chat'[r], pc'[r], caller'[r])
  /\ pc'[r] = "idle" \/ Lower(chat[r], pc[r], chat'[r], pc'[r])
  /\ \A q \in Requests \ {r} : chat'[q] = chat[q]

\* A step that goes on with a new call.
LEMMA CallLower ==
  ASSUME BInv, LocalTypes, NEW r \in Requests, UNCHANGED caller,
         NEW d, d.op # "none", d.attempts = 0 \/ d.attempts = chat[r].attempts,
         d.retries <= MaxRetries, d \in Chat, StartCall(r, d),
         Lower(chat[r], pc[r], d, "call")
  PROVE  ChatCounts(r)
<1>1. /\ chat' \in [Requests -> Chat] /\ chat'[r] = d /\ pc'[r] = "call"
      /\ \A q \in Requests \ {r} : chat'[q] = chat[q]
  BY DEF StartCall, Goto, BInv, LocalTypes
<1>2. d.attempts < MaxAttempts
  BY ChatRequestAssumption DEF BInv, ChatFits
<1>3. ChatFits(d, "call", caller[r])
  BY <1>2 DEF ChatFits, Unassigned
<1> QED
  BY <1>1, <1>3 DEF ChatCounts

\* A step that goes on to stage t in the same call.
LEMMA MoveLower ==
  ASSUME BInv, LocalTypes, NEW r \in Requests, UNCHANGED <<caller, chat>>,
         NEW t, Goto(r, t), ChatFits(chat[r], t, caller[r]),
         Lower(chat[r], pc[r], chat[r], t)
  PROVE  ChatCounts(r)
<1>1. pc'[r] = t /\ chat' = chat /\ caller' = caller
  BY DEF Goto, LocalTypes
<1> QED
  BY <1>1 DEF ChatCounts, BInv

\* Every step of the client calls and of the handler leaves less of what is ahead
\* with the account of the request, or ends it.
LEMMA ChatLower ==
  ASSUME BInv, IInv, NEW r \in Requests, ChatStep(r)
  PROVE  ChatCounts(r)
<1> DEFINE c == chat[r]
<1>1. /\ LocalTypes /\ auth[r] \in Auth /\ auth[r].token \in Ids \union {NoAccount}
      /\ ChatFits(c, pc[r], caller[r]) /\ c \in Chat
      /\ c.attempts \in Nat /\ c.retries \in Nat
      /\ MaxAttempts \in Nat /\ MaxRetries \in Nat
      /\ c.retries <= MaxRetries
      /\ c.refreshed \in BOOLEAN
  BY ChatRequestAssumption DEF BInv, ChatFits, Chat, IInv, LocalTypes, Auth
<1> USE DEF At
<1>2. CASE SessionCreated(r)
  <2> DEFINE d == [c EXCEPT !.op = "getPow", !.attempts = 0, !.refreshed = FALSE,
                            !.session = auth[r].token]
  <2>1. StartCall(r, d) /\ pc[r] = "call" /\ c.op = "createSession" /\ UNCHANGED caller
    BY <1>1, <1>2 DEF SessionCreated, Calling, authVarsButPc, Chat
  <2>2. /\ d \in Chat /\ d.op = "getPow" /\ d.attempts = 0
        /\ d.phase = c.phase /\ d.retries = c.retries
    BY <1>1 DEF Chat
  <2> HIDE DEF d
  <2>3. Retries(d, "call") = Retries(c, "call") /\ CallRank(d, "call") = 2 /\ CallRank(c, "call") = 3
    BY <2>1, <2>2 DEF Retries, Restarting, CallRank
  <2>4. Lower(c, pc[r], d, "call")
    BY <2>1, <2>3 DEF Lower
  <2> QED
    BY <1>1, <2>1, <2>2, <2>4, CallLower
<1>3. CASE PowComputed(r)
  <2> DEFINE d == Calling(r, "callCompletion")
  <2>1. StartCall(r, d) /\ pc[r] = "call" /\ c.op = "getPow" /\ UNCHANGED caller
    BY <1>3 DEF PowComputed, authVarsButPc
  <2>2. /\ d \in Chat /\ d.op = "callCompletion" /\ d.attempts = 0
        /\ d.phase = c.phase /\ d.retries = c.retries
    BY <1>1 DEF Chat, Calling
  <2> HIDE DEF d
  <2>3. Retries(d, "call") = Retries(c, "call") /\ CallRank(d, "call") = 1 /\ CallRank(c, "call") = 2
    BY <2>1, <2>2 DEF Retries, Restarting, CallRank
  <2>4. Lower(c, pc[r], d, "call")
    BY <2>1, <2>3 DEF Lower
  <2> QED
    BY <1>1, <2>1, <2>2, <2>4, CallLower
<1>4. CASE CompletionStarts(r)
  <2> DEFINE d == [c EXCEPT !.op = "none",
                            !.retries = IF c.phase = "restart" THEN 0 ELSE @,
                            !.stale = r \in Streaming /\ c.phase = "restart"]
  <2>1. /\ chat' = [chat EXCEPT ![r] = d] /\ Goto(r, "answer")
        /\ pc[r] = "call" /\ c.op = "callCompletion" /\ UNCHANGED caller
    BY <1>1, <1>4 DEF CompletionStarts, authVarsButPc, BInv, Chat
  <2>2. /\ d \in Chat /\ d.op = "none" /\ d.attempts = c.attempts /\ d.phase = c.phase
        /\ d.retries = IF c.phase = "restart" THEN 0 ELSE c.retries
    BY <1>1 DEF Chat
  <2> HIDE DEF d
  <2>3. Retries(d, "answer") = Retries(c, "call") /\ CallRank(d, "answer") = 0 /\ CallRank(c, "call") = 1
    BY <2>1, <2>2 DEF Retries, Restarting, CallRank
  <2>4. Lower(c, pc[r], d, "answer")
    BY <2>1, <2>3 DEF Lower
  <2>5. ChatFits(d, "answer", caller[r])
    BY <1>1, <2>2 DEF ChatFits, Unassigned
  <2>6. /\ chat' \in [Requests -> Chat] /\ chat'[r] = d /\ pc'[r] = "answer"
        /\ \A q \in Requests \ {r} : chat'[q] = chat[q]
    BY <1>1, <2>1, <2>2 DEF Goto, BInv, LocalTypes
  <2> QED
    BY <2>1, <2>4, <2>5, <2>6 DEF ChatCounts
<1>5. CASE CallErrs(r) \/ PowUnusable(r) \/ CallSwitched(r) \/ CallNotSwitched(r)
  <2>1. UNCHANGED caller /\ pc[r] \in {"call", "switched", "unswitched"} /\ c.op # "none"
    BY <1>1, <1>5 DEF CallErrs, PowUnusable, CallSwitched, CallNotSwitched, authVarsButPc, ChatFits
  <2>2. c = [c EXCEPT !.refreshed = c.refreshed]
    BY <1>1 DEF Chat
  <2>3. \/ \E b \in BOOLEAN : NextAttempt(r, [c EXCEPT !.refreshed = b])
        \/ pc[r] = "call" /\ CallFails(r, c)
    BY <1>1, <1>5, <2>2 DEF CallErrs, PowUnusable, CallSwitched, CallNotSwitched
  <2> QED
    BY <1>1, <2>1, <2>3, AttemptLower DEF ChatCounts
<1>6. CASE TokenRefreshed(r)
  <2> DEFINE d == [c EXCEPT !.refreshed = TRUE]
  <2>1. StartCall(r, d) /\ pc[r] = "refreshed" /\ UNCHANGED caller
    BY <1>6 DEF TokenRefreshed, StartCall, authVarsButPc
  <2>2. c.op # "none" /\ ~c.refreshed
    BY <1>1, <2>1 DEF ChatFits
  <2>3. /\ d \in Chat /\ d.op = c.op /\ d.attempts = c.attempts
        /\ d.phase = c.phase /\ d.retries = c.retries /\ d.refreshed
    BY <1>1 DEF Chat
  <2> HIDE DEF d
  <2>4. Retries(d, "call") = Retries(c, "refreshed") /\ CallRank(d, "call") = CallRank(c, "refreshed")
    BY <2>2, <2>3 DEF Retries, Restarting, CallRank
  <2>5. Lower(c, pc[r], d, "call")
    BY <2>1, <2>2, <2>3, <2>4 DEF Lower
  <2> QED
    BY <1>1, <2>1, <2>2, <2>3, <2>5, CallLower
<1>7. CASE Begin(r) /\ StartCall(r, Calling(r, "createSession"))
  <2> DEFINE d == Calling(r, "createSession")
  <2>1. StartCall(r, d) /\ pc[r] = "ready" /\ UNCHANGED caller
    BY <1>7 DEF Begin, authVarsButPc
  <2>2. /\ d \in Chat /\ d.op = "createSession" /\ d.attempts = 0
        /\ d.phase = c.phase /\ d.retries = c.retries
    BY <1>1 DEF Chat, Calling
  <2> HIDE DEF d
  <2>3. Retries(d, "call") = Retries(c, "ready") /\ CallRank(d, "call") = 3 /\ CallRank(c, "ready") = 4
    BY <2>1, <2>2 DEF Retries, Restarting, CallRank
  <2>4. Lower(c, pc[r], d, "call")
    BY <2>1, <2>3 DEF Lower
  <2> QED
    BY <1>1, <2>1, <2>2, <2>4, CallLower
<1>8. CASE RetryEmpty(r)
  <2> DEFINE d == [Calling(r, "getPow") EXCEPT !.phase = "retry", !.retries = @ + 1]
  <2>1. StartCall(r, d) /\ pc[r] = "answer" /\ UNCHANGED caller
    BY <1>8 DEF RetryEmpty, EmptyAnswer, authVarsButPc
  <2>2. c.retries < MaxRetries
    BY <1>1, <1>8 DEF RetryEmpty, MayRetry
  <2>3. /\ d \in Chat /\ d.op = "getPow" /\ d.attempts = 0
        /\ d.phase = "retry" /\ d.retries = c.retries + 1
    <3>1. PICK e : e = Calling(r, "getPow")
      OBVIOUS
    <3>2. e \in Chat /\ e.op = "getPow" /\ e.attempts = 0 /\ e.retries = c.retries
      BY <1>1, <3>1 DEF Chat, Calling
    <3>3. d = [e EXCEPT !.phase = "retry", !.retries = @ + 1]
      BY <3>1
    <3> HIDE DEF d
    <3>4. d.op = e.op /\ d.attempts = e.attempts
      BY <3>2, <3>3 DEF Chat
    <3>5. d.phase = "retry" /\ d.retries = e.retries + 1
      BY <3>2, <3>3 DEF Chat
    <3>6. d \in Chat
      <4>1. PICK f : f = [e EXCEPT !.phase = "retry"]
        OBVIOUS
      <4>2. f \in Chat /\ f.retries + 1 \in Nat /\ f.retries = e.retries
        BY <3>2, <4>1 DEF Chat
      <4>3. d = [f EXCEPT !.retries = f.retries + 1]
        BY <3>3, <4>1, <4>2
      <4> QED
        BY <4>2, <4>3 DEF Chat
    <3> QED
      BY <3>2, <3>4, <3>5, <3>6
  <2> HIDE DEF d
  <2>4. Retries(d, "call") = MaxRetries - (c.retries + 1) /\ d.retries <= MaxRetries
    BY <1>1, <2>2, <2>3 DEF Retries, Restarting
  <2>5. Retries(c, "answer") \in {MaxRetries + 1, MaxRetries - c.retries}
    BY DEF Retries, Restarting
  <2>6. Lower(c, pc[r], d, "call")
    BY <1>1, <2>1, <2>4, <2>5 DEF Lower
  <2> QED
    BY <1>1, <2>1, <2>3, <2>4, <2>6, CallLower
<1>9. CASE RestartWithAccount(r)
  <2> DEFINE d == [c EXCEPT !.op = "createSession", !.attempts = 0, !.refreshed = FALSE,
                            !.phase = "restart"]
  <2>1. StartCall(r, d) /\ pc[r] = "switched" /\ c.op = "none" /\ UNCHANGED caller
    BY <1>1, <1>9 DEF RestartWithAccount, Calling, authVarsButPc, Chat
  <2>2. /\ d \in Chat /\ d.op = "createSession" /\ d.attempts = 0
        /\ d.phase = "restart" /\ d.retries = c.retries
    BY <1>1 DEF Chat
  <2> HIDE DEF d
  <2>3. Retries(d, "call") < Retries(c, "switched")
    BY <1>1, <2>1, <2>2 DEF Retries, Restarting
  <2>4. Lower(c, pc[r], d, "call")
    BY <2>1, <2>3 DEF Lower
  <2> QED
    BY <1>1, <2>1, <2>2, <2>4, CallLower
<1>10. ASSUME NEW s, NEW t, pc[r] = s, Goto(r, t), UNCHANGED <<caller, chat>>,
             \/ s = "call" /\ t = "refresh" /\ ~c.refreshed
             \/ s \in {"call", "answer", "unrefreshed"} /\ t = "switch"
             \/ s \in {"ready", "answer", "unswitched", "failed"} /\ t = "release"
      PROVE ChatCounts(r)
  <2>1. ChatFits(c, t, caller[r])
    BY <1>1, <1>10 DEF ChatFits, Unassigned
  <2>2. StageRank(t) < StageRank(s)
    BY <1>10 DEF StageRank
  <2>3. Retries(c, t) = Retries(c, s)
    BY <1>10 DEF Retries, Restarting
  <2>4. s # "ready" => CallRank(c, t) = CallRank(c, s)
    BY <1>10 DEF CallRank
  <2>5. s = "ready" => CallRank(c, t) < CallRank(c, s)
    BY <1>10 DEF CallRank
  <2>6. Lower(c, s, c, t)
    BY <1>1, <2>2, <2>3, <2>4, <2>5 DEF Lower
  <2> QED
    BY <1>1, <1>10, <2>1, <2>6, MoveLower
<1>11. CASE TokenRejected(r)
  BY <1>10, <1>11 DEF TokenRejected, authVarsButPc
<1>12. CASE AccountRejected(r) \/ RefreshFailed(r) \/ BanAndSwitch(r)
  BY <1>10, <1>12 DEF AccountRejected, RefreshFailed, BanAndSwitch, EmptyAnswer, authVarsButPc
<1>13. CASE Begin(r) /\ Goto(r, "release") /\ UNCHANGED chat
  BY <1>10, <1>13 DEF Begin, authVarsButPc
<1>14. CASE Answered(r) \/ NoOtherAccount(r) \/ RestartFailed(r)
  BY <1>10, <1>14 DEF Answered, NoOtherAccount, RestartFailed, EndEmpty, authVarsButPc
<1>15. CASE End(r)
  <2>1. /\ pc' = [pc EXCEPT ![r] = "idle"] /\ chat' = [chat EXCEPT ![r] = NoChat]
        /\ UNCHANGED caller
    BY <1>15 DEF End, Release, Goto
  <2>2. NoChat \in Chat /\ NoChat.op = "none" /\ NoChat.attempts = 0 /\ NoChat.retries = 0
    BY DEF NoChat, Chat
  <2>3. pc'[r] = "idle" /\ chat'[r] = NoChat /\ caller'[r] = caller[r]
    BY <1>1, <2>1 DEF BInv, LocalTypes
  <2>4. ChatFits(NoChat, "idle", caller[r])
    BY <2>2, ChatRequestAssumption DEF ChatFits
  <2>5. chat' \in [Requests -> Chat] /\ \A q \in Requests \ {r} : chat'[q] = chat[q]
    BY <2>1, <2>2 DEF BInv
  <2> QED
    BY <2>3, <2>4, <2>5 DEF ChatCounts
<1> QED
  BY <1>2, <1>3, <1>4, <1>5, <1>6, <1>7, <1>8, <1>9, <1>11, <1>12, <1>13, <1>14, <1>15
     DEF ChatStep, Begin

\* There are finitely many accounts left to try.
LEMMA UntriedNat == \A a : Untried(a) \in Nat
  BY PoolAssumption, FS_Subset, FS_CardinalityType DEF Untried

\* Another account leaves one fewer to try.
LEMMA TakenLess ==
  ASSUME NEW a \in Auth, NEW b \in Auth, NEW id \in Ids, id \notin a.tried,
         a.account \in a.tried \union {NoAccount}, b.account = id, b.tried = a.tried
  PROVE  Untried(b) < Untried(a)
<1> DEFINE S == Ids \ (a.tried \union {a.account})
<1>1. IsFiniteSet(S)
  BY PoolAssumption, FS_Subset
<1>2. id \in S
  BY PoolAssumption
<1>3. Ids \ (b.tried \union {b.account}) = S \ {id}
  BY PoolAssumption
<1> HIDE DEF S
<1>4. Cardinality(S \ {id}) = Cardinality(S) - 1 /\ Cardinality(S) \in Nat
  BY <1>1, <1>2, FS_RemoveElement, FS_CardinalityType
<1> QED
  BY <1>3, <1>4 DEF Untried, S

\* An account that is recorded as tried when it is left makes no difference.
LEMMA LeftSame ==
  ASSUME NEW a \in Auth, NEW b \in Auth,
         \/ b.account = a.account /\ b.tried \in {a.tried, a.tried \union {a.account}}
         \/ b.account = NoAccount /\ b.tried = a.tried \union {a.account}
  PROVE  Untried(b) = Untried(a)
<1>1. Ids \ (b.tried \union {b.account}) = Ids \ (a.tried \union {a.account})
  BY PoolAssumption
<1> QED
  BY <1>1 DEF Untried

\* The same for a step of the resolver, which may give the request another account.
ResolverCounts(r) ==
  /\ ChatFits(chat[r], pc'[r], caller'[r])
  /\ Left(auth'[r], pc'[r])
  /\ \/ {pc[r], pc'[r]} \intersect {"idle", "blocked"} # {}
     \/ Untried(auth'[r]) < Untried(auth[r])
     \/ Untried(auth'[r]) = Untried(auth[r]) /\ Lower(chat[r], pc[r], chat[r], pc'[r])

\* The ways through the resolver with one account.
LEMMA WayLower ==
  ASSUME NEW c, NEW s, NEW k, NEW t, ChatFits(c, s, k),
         \/ s = "ensure" /\ t \in {"login", "switched"}
         \/ s = "login" /\ t \in {"switched", "giveback"}
         \/ s \in {"ensure", "login"} /\ t = "ready" /\ c.op = "none"
         \/ s = "login" /\ t \in {"refreshed", "unrefreshed"} /\ c.op # "none"
         \/ s = "refresh" /\ t = "login"
         \/ s = "giveback" /\ t \in {"determine", "reacquire"}
         \/ s = "switch" /\ t = "reacquire"
         \/ s = "reacquire" /\ t = "unswitched"
  PROVE  Lower(c, s, c, t)
<1>1. /\ c.retries \in Nat /\ MaxRetries \in Nat /\ c.retries <= MaxRetries
      /\ c.refreshed \in BOOLEAN
      /\ s = "refresh" => c.op # "none"
  BY ChatRequestAssumption DEF ChatFits, Chat
<1>2. CASE Restarting(c, s) /\ ~Restarting(c, t)
  <2>1. Retries(c, t) < Retries(c, s)
    BY <1>1, <1>2 DEF Retries
  <2> QED
    BY <2>1 DEF Lower
<1>3. CASE ~(Restarting(c, s) /\ ~Restarting(c, t))
  <2>1. t # "ready" /\ s # "ready"
    BY <1>3 DEF Restarting
  <2>2. Restarting(c, t) = Restarting(c, s)
    BY <1>1, <1>3 DEF Restarting
  <2>3. Retries(c, t) = Retries(c, s)
    BY <2>2 DEF Retries
  <2>4. CallRank(c, t) = CallRank(c, s)
    BY <2>1 DEF CallRank
  <2>5. StageRank(t) < StageRank(s)
    BY <2>1 DEF StageRank
  <2> QED
    BY <1>1, <2>3, <2>4, <2>5 DEF Lower
<1> QED
  BY <1>2, <1>3

\* A step that gives r another account.
LEMMA GotCounts ==
  ASSUME BInv, IInv, NEW r \in Requests, pc[r] \in {"determine", "reacquire"},
         NEW id \in Ids, id \notin auth[r].tried, Got(r, id),
         NEW k \in {"determine", "switch"}, caller' = [caller EXCEPT ![r] = k],
         pc[r] = "determine" => k = "determine", pc[r] = "reacquire" => k = "switch"
  PROVE  ResolverCounts(r)
<1>1. /\ LocalTypes /\ auth[r] \in Auth
      /\ ChatFits(chat[r], pc[r], caller[r]) /\ Left(auth[r], pc[r])
  BY DEF IInv, LocalTypes, BInv
<1>2. auth' = [auth EXCEPT ![r] = [auth[r] EXCEPT !.account = id]]
  BY DEF Got
<1>3. auth'[r] = [auth[r] EXCEPT !.account = id]
  BY <1>1, <1>2 DEF LocalTypes
<1>4. auth'[r] \in Auth /\ auth'[r].account = id /\ auth'[r].tried = auth[r].tried
  BY <1>1, <1>3, SetAccount
<1>5. Untried(auth'[r]) < Untried(auth[r])
  BY <1>1, <1>4, TakenLess DEF Left, Unassigned
<1>6. pc'[r] \in {"ensure", "login"} /\ caller'[r] = k
  BY <1>1 DEF Got, Goto, LocalTypes
<1>7. ChatFits(chat[r], pc'[r], caller'[r])
  BY <1>1, <1>6 DEF ChatFits, Unassigned
<1>8. Left(auth'[r], pc'[r])
  BY <1>6 DEF Left, Unassigned
<1> QED
  BY <1>5, <1>7, <1>8 DEF ResolverCounts

\* Every step of the resolver counts.
LEMMA ResolverLower ==
  ASSUME BInv, IInv, NEW r \in Requests, ResolverStep(r) \/ Determine(r)
  PROVE  ResolverCounts(r)
<1> DEFINE c == chat[r]
           a == auth[r]
<1>1. /\ LocalTypes /\ a \in Auth /\ RInv(r)
      /\ ChatFits(c, pc[r], caller[r]) /\ Left(a, pc[r])
      /\ caller[r] \in {"determine", "switch", "refresh"}
  BY DEF IInv, LocalTypes, BInv
<1>2. a.tried \subseteq Ids /\ a.account \in Ids \union {NoAccount}
  BY <1>1 DEF Auth
<1> USE DEF At
<1>3. ASSUME NEW t, NEW k, NEW b \in Auth, pc'[r] = t, caller'[r] = k, auth'[r] = b,
             ChatFits(c, t, k), t \notin Unassigned \union {"reacquire"},
             b.account = a.account, b.tried = a.tried, Lower(c, pc[r], c, t)
      PROVE  ResolverCounts(r)
  <2>1. Untried(b) = Untried(a)
    BY <1>1, <1>3, LeftSame
  <2>2. Left(b, t)
    BY <1>3 DEF Left
  <2> QED
    BY <1>3, <2>1, <2>2 DEF ResolverCounts
<1>4. CASE Determine(r)
  <2>1. PICK u \in Targets : auth' = [auth EXCEPT ![r] = [auth[r] EXCEPT !.target = u]]
    BY <1>4 DEF Determine
  <2>2. auth'[r].account = a.account /\ auth'[r].tried = a.tried
    BY <1>1, <2>1 DEF Auth, LocalTypes
  <2>3. pc[r] = "idle" /\ pc'[r] = "determine" /\ caller' = caller
    BY <1>1, <1>4 DEF Determine, Goto, LocalTypes
  <2>4. ChatFits(c, "determine", caller[r]) /\ Left(auth'[r], "determine")
    BY <1>1, <2>2, <2>3 DEF ChatFits, Left, Unassigned
  <2> QED
    BY <2>3, <2>4 DEF ResolverCounts
<1>5. CASE DetermineAcquire(r) \/ Reacquire(r)
  <2>1. PICK id \in Ids : /\ \E target : acquire(target, a.tried, id)
                         /\ Got(r, id)
    BY <1>5 DEF DetermineAcquire, Reacquire
  <2>2. id \notin a.tried
    BY <2>1, AcquireExcludes
  <2> QED
    BY <1>5, <2>1, <2>2, GotCounts DEF DetermineAcquire, Reacquire
<1>6. CASE DetermineWait(r) \/ DetermineWake(r)
  <2>1. /\ pc[r] \in {"determine", "blocked"} /\ pc'[r] \in {"determine", "blocked"}
        /\ "blocked" \in {pc[r], pc'[r]}
        /\ UNCHANGED <<auth, caller>>
    BY <1>1, <1>6 DEF DetermineWait, DetermineWake, Goto, LocalTypes
  <2>2. ChatFits(c, pc'[r], caller[r]) /\ Left(a, pc'[r])
    BY <1>1, <2>1 DEF ChatFits, Left, Unassigned
  <2> QED
    BY <2>1, <2>2 DEF ResolverCounts
<1>7. ASSUME c.op = "none", pc'[r] = "idle", auth'[r] = NoAuth, UNCHANGED caller
      PROVE  ResolverCounts(r)
  <2>1. ChatFits(c, "idle", caller[r])
    BY <1>1, <1>7 DEF ChatFits
  <2>2. Left(NoAuth, "idle")
    BY DEF Left, NoAuth
  <2> QED
    BY <1>7, <2>1, <2>2 DEF ResolverCounts
<1>8. CASE DetermineFails(r)
  <2>1. /\ pc[r] \in Unassigned /\ pc'[r] = "idle" /\ auth'[r] = NoAuth /\ UNCHANGED caller
    BY <1>1, <1>8 DEF DetermineFails, Goto, Forget, LocalTypes, Unassigned
  <2>2. c.op = "none"
    BY <1>1, <2>1 DEF ChatFits
  <2> QED
    BY <1>7, <2>1, <2>2
<1>9. ASSUME pc[r] \in {"ensure", "login"}, Succeed(r), NEW b \in Auth, auth'[r] = b,
             b.account = a.account, b.tried = a.tried
      PROVE  ResolverCounts(r)
  <2>1. PICK t : /\ pc'[r] = t
                 /\ caller[r] = "determine" => t = "ready"
                 /\ caller[r] = "switch" => t = "switched"
                 /\ caller[r] = "refresh" => t = "refreshed"
    BY <1>1, <1>9 DEF Succeed, Goto, LocalTypes
  <2>2. caller'[r] = "determine"
    BY <1>1, <1>9 DEF Succeed, LocalTypes
  <2>3. /\ t \in {"ready", "switched", "refreshed"}
        /\ t = "ready" => c.op = "none"
        /\ t = "refreshed" => pc[r] = "login" /\ c.op # "none" /\ ~c.refreshed
    BY <1>1, <1>9, <2>1 DEF ChatFits
  <2>4. ChatFits(c, t, "determine")
    BY <1>1, <2>3 DEF ChatFits, Unassigned
  <2>5. Lower(c, pc[r], c, t)
    BY <1>1, <1>9, <2>3, WayLower
  <2> QED
    BY <1>3, <1>9, <2>1, <2>2, <2>3, <2>4, <2>5 DEF Unassigned
<1>10. ASSUME pc[r] = "login", Fail(r), NEW b \in Auth, auth'[r] = b,
              b.account = a.account, b.tried = a.tried
       PROVE  ResolverCounts(r)
  <2>1. CASE caller[r] = "refresh"
    <3>1. pc'[r] = "unrefreshed" /\ caller'[r] = "determine"
      BY <1>1, <1>10, <2>1 DEF Fail, Goto, LocalTypes
    <3>2. c.op # "none"
      BY <1>1, <1>10, <2>1 DEF ChatFits
    <3>3. ChatFits(c, "unrefreshed", "determine")
      BY <1>1, <3>2 DEF ChatFits, Unassigned
    <3>4. Lower(c, pc[r], c, "unrefreshed")
      BY <1>1, <1>10, <3>2, WayLower
    <3> QED
      BY <1>3, <1>10, <3>1, <3>3, <3>4 DEF Unassigned
  <2>2. CASE caller[r] # "refresh"
    <3>1. pc'[r] = "giveback" /\ caller'[r] = caller[r]
      BY <1>1, <1>10, <2>2 DEF Fail, Goto, LocalTypes
    <3>2. ChatFits(c, "giveback", caller[r])
      BY <1>1, <1>10 DEF ChatFits, Unassigned
    <3>3. Lower(c, pc[r], c, "giveback")
      BY <1>1, <1>10, WayLower
    <3> QED
      BY <1>3, <1>10, <3>1, <3>2, <3>3 DEF Unassigned
  <2> QED
    BY <2>1, <2>2
<1>11. CASE UseStoredToken(r) \/ LoginSucceeds(r)
  <2>1. auth' = [auth EXCEPT ![r] = [auth[r] EXCEPT !.token = auth[r].account]]
    BY <1>11 DEF UseStoredToken, LoginSucceeds
  <2>2. auth'[r] \in Auth /\ auth'[r].account = a.account /\ auth'[r].tried = a.tried
    BY <1>1, <1>2, <2>1 DEF Auth, LocalTypes
  <2>3. \/ pc[r] \in {"ensure", "login"} /\ Succeed(r)
        \/ pc[r] = "login" /\ Fail(r)
    BY <1>11 DEF UseStoredToken, LoginSucceeds
  <2> QED
    BY <1>9, <1>10, <2>2, <2>3
<1>12. CASE LoginFails(r)
  BY <1>1, <1>10, <1>12 DEF LoginFails
<1>13. CASE RefreshDue(r)
  <2>1. pc[r] = "ensure" /\ pc'[r] = "login" /\ UNCHANGED <<caller, auth>>
    BY <1>1, <1>13 DEF RefreshDue, Goto, LocalTypes
  <2>2. ChatFits(c, "login", caller[r])
    BY <1>1, <2>1 DEF ChatFits, Unassigned
  <2>3. Lower(c, pc[r], c, "login")
    BY <1>1, <2>1, WayLower
  <2> QED
    BY <1>1, <1>3, <2>1, <2>2, <2>3 DEF Unassigned
<1>14. CASE RefreshToken(r)
  <2>1. pc[r] = "refresh" /\ pc'[r] = "login" /\ caller'[r] = "refresh" /\ UNCHANGED auth
    BY <1>1, <1>14 DEF RefreshToken, Goto, LocalTypes
  <2>2. ChatFits(c, "login", "refresh")
    BY <1>1, <2>1 DEF ChatFits, Unassigned
  <2>3. Lower(c, pc[r], c, "login")
    BY <1>1, <2>1, WayLower
  <2> QED
    BY <1>1, <1>3, <2>1, <2>2, <2>3 DEF Unassigned
<1>15. CASE DetermineGivesBack(r)
  <2>1. pc[r] = "giveback" /\ caller[r] = "determine" /\ UNCHANGED caller
    BY <1>15 DEF DetermineGivesBack
  <2>2. c.op = "none"
    BY <1>1, <2>1 DEF ChatFits
  <2>3. CASE auth[r].target # NoAccount
    <3>1. pc'[r] = "idle" /\ auth'[r] = NoAuth
      BY <1>1, <1>15, <2>3 DEF DetermineGivesBack, Goto, Forget, LocalTypes
    <3> QED
      BY <1>7, <2>1, <2>2, <3>1
  <2>4. CASE auth[r].target = NoAccount
    <3> DEFINE b == [NoAuth EXCEPT !.tried = auth[r].tried \union {auth[r].account}]
    <3>1. a.account \in Ids
      BY <1>1, <2>1 DEF RInv, SlotOf, Unassigned
    <3>2. b \in Auth /\ b.account = NoAccount /\ b.tried = a.tried \union {a.account}
      BY <1>2, <3>1 DEF NoAuth, Auth
    <3>3. auth' = [auth EXCEPT ![r] = b] /\ Goto(r, "determine")
      BY <1>15, <2>4 DEF DetermineGivesBack
    <3> HIDE DEF b
    <3>4. auth'[r] = b /\ pc'[r] = "determine"
      BY <1>1, <3>3 DEF Goto, LocalTypes
    <3>5. Untried(b) = Untried(a)
      BY <1>1, <3>2, LeftSame
    <3>6. ChatFits(c, "determine", caller[r]) /\ Left(b, "determine")
      BY <1>1, <2>2, <3>2 DEF ChatFits, Left
    <3>7. Lower(c, pc[r], c, "determine")
      BY <1>1, <2>1, WayLower
    <3> QED
      BY <2>1, <3>4, <3>5, <3>6, <3>7 DEF ResolverCounts
  <2> QED
    BY <2>3, <2>4
<1>16. CASE SwitchGivesBack(r) \/ LeaveAccount(r)
  <2>1. auth' = [auth EXCEPT ![r] = [auth[r] EXCEPT !.tried = @ \union {auth[r].account}]]
    BY <1>16 DEF SwitchGivesBack, LeaveAccount
  <2>2. pc[r] \in {"giveback", "switch"} /\ pc'[r] = "reacquire"
    BY <1>1, <1>16 DEF SwitchGivesBack, LeaveAccount, GiveSlot, Goto, LocalTypes
  <2>3. a.account \in Ids
    BY <1>1, <2>2 DEF RInv, SlotOf, Unassigned
  <2>4. auth'[r] \in Auth /\ auth'[r].account = a.account
          /\ auth'[r].tried = a.tried \union {a.account}
    BY <1>1, <2>1, <2>3 DEF Auth, LocalTypes
  <2>5. Untried(auth'[r]) = Untried(a)
    BY <1>1, <2>4, LeftSame
  <2>6. Left(auth'[r], "reacquire")
    BY <2>4 DEF Left
  <2>7. \A k : ChatFits(c, "reacquire", k)
    BY <1>1 DEF ChatFits, Unassigned
  <2>8. Lower(c, pc[r], c, "reacquire")
    BY <1>1, <2>2, WayLower
  <2> QED
    BY <2>2, <2>5, <2>6, <2>7, <2>8 DEF ResolverCounts
<1>17. CASE NoneFree(r)
  <2>1. pc[r] = "reacquire" /\ pc'[r] = "unswitched" /\ UNCHANGED <<caller, auth>>
    BY <1>1, <1>17 DEF NoneFree, Goto, LocalTypes
  <2>2. ChatFits(c, "unswitched", caller[r])
    BY <1>1 DEF ChatFits, Unassigned
  <2>3. Lower(c, pc[r], c, "unswitched")
    BY <1>1, <2>1, WayLower
  <2> QED
    BY <1>1, <1>3, <2>1, <2>2, <2>3 DEF Unassigned
<1> QED
  BY <1>4, <1>5, <1>6, <1>8, <1>11, <1>12, <1>13, <1>14, <1>15, <1>16, <1>17 DEF ResolverStep

-----------------------------------------------------------------------------
\* What a step of r leaves of r: BInv, and less ahead of it.
Counts(r) ==
  /\ chat' \in [Requests -> Chat]
  /\ ChatFits(chat'[r], pc'[r], caller'[r])
  /\ Left(auth'[r], pc'[r])
  /\ \/ {pc[r], pc'[r]} \intersect {"idle", "blocked"} # {}
     \/ Untried(auth'[r]) < Untried(auth[r])
     \/ Untried(auth'[r]) = Untried(auth[r]) /\ Lower(chat[r], pc[r], chat'[r], pc'[r])

\* Nothing that is ahead of request q changes.
Waiting(q) ==
  pc'[q] = pc[q] /\ auth'[q] = auth[q] /\ caller'[q] = caller[q] /\ chat'[q] = chat[q]

\* The client calls and the handler leave the account to the resolver.
LEMMA ChatMoves ==
  ASSUME NEW r \in Requests, ChatStep(r), LocalTypes
  PROVE  /\ UNCHANGED caller
         /\ \/ UNCHANGED auth /\ pc'[r] \notin Unassigned \union {"reacquire"}
            \/ auth' = [auth EXCEPT ![r] = NoAuth] /\ pc'[r] = "idle"
<1> USE DEF authVarsButPc, LocalTypes, Goto, Unassigned
<1>1. CASE End(r)
  BY <1>1 DEF End, Release, Forget
<1>2. CASE SessionCreated(r) \/ PowComputed(r) \/ CompletionStarts(r)
  BY <1>2 DEF SessionCreated, PowComputed, CompletionStarts, StartCall
<1>3. CASE CallErrs(r) \/ PowUnusable(r) \/ CallSwitched(r) \/ CallNotSwitched(r)
  <2>1. /\ UNCHANGED authVarsButPc
        /\ \E c : CallFails(r, c) \/ NextAttempt(r, c)
    BY <1>3 DEF CallErrs, PowUnusable, CallSwitched, CallNotSwitched
  <2>2. \E s \in {"call", "failed", "release"} : Goto(r, s)
    BY <2>1, FailMoves
  <2> QED
    BY <2>1, <2>2
<1>4. CASE TokenRejected(r) \/ AccountRejected(r) \/ RefreshFailed(r) \/ BanAndSwitch(r)
  BY <1>4 DEF TokenRejected, AccountRejected, RefreshFailed, BanAndSwitch
<1>5. CASE TokenRefreshed(r) \/ Begin(r) \/ RetryEmpty(r) \/ RestartWithAccount(r)
  BY <1>5 DEF TokenRefreshed, Begin, RetryEmpty, RestartWithAccount, StartCall
<1>6. CASE Answered(r) \/ NoOtherAccount(r) \/ RestartFailed(r)
  BY <1>6 DEF Answered, NoOtherAccount, RestartFailed, EndEmpty
<1> QED
  BY <1>1, <1>2, <1>3, <1>4, <1>5, <1>6 DEF ChatStep

\* The resolver notes the method that a login returns to for its request alone.
LEMMA CallerOf ==
  ASSUME NEW r \in Requests, LocalTypes, ResolverStep(r) \/ Determine(r)
  PROVE  \E k : caller' = [caller EXCEPT ![r] = k]
<1>1. ASSUME UNCHANGED caller PROVE \E k : caller' = [caller EXCEPT ![r] = k]
  <2>1. caller' = [caller EXCEPT ![r] = caller[r]]
    BY <1>1 DEF LocalTypes
  <2> QED
    BY <2>1
<1>2. CASE \/ Determine(r) \/ DetermineWait(r) \/ DetermineWake(r) \/ DetermineFails(r)
           \/ RefreshDue(r) \/ DetermineGivesBack(r) \/ LeaveAccount(r) \/ NoneFree(r)
  BY <1>1, <1>2 DEF Determine, DetermineWait, DetermineWake, DetermineFails, RefreshDue,
    DetermineGivesBack, LeaveAccount, NoneFree
<1>3. CASE DetermineAcquire(r) \/ Reacquire(r) \/ RefreshToken(r) \/ SwitchGivesBack(r)
  BY <1>3 DEF DetermineAcquire, Reacquire, RefreshToken, SwitchGivesBack
<1>4. ASSUME Succeed(r) \/ Fail(r) PROVE \E k : caller' = [caller EXCEPT ![r] = k]
  BY <1>1, <1>4 DEF Succeed, Fail
<1>5. CASE UseStoredToken(r) \/ LoginFails(r) \/ LoginSucceeds(r)
  BY <1>4, <1>5 DEF UseStoredToken, LoginFails, LoginSucceeds
<1> QED
  BY <1>2, <1>3, <1>5 DEF ResolverStep

\* A step of r counts, and touches nothing that is ahead of another request.
LEMMA StepCounts ==
  ASSUME IInv, BInv, NEW r \in Requests,
         (Determine(r) /\ UNCHANGED chat) \/ RequestStep(r)
  PROVE  Counts(r) /\ \A q \in Requests \ {r} : Waiting(q)
<1>1. /\ LocalTypes /\ chat \in [Requests -> Chat]
      /\ auth[r] \in Auth /\ Left(auth[r], pc[r])
  BY DEF IInv, LocalTypes, BInv
<1>2. CASE (ResolverStep(r) \/ Determine(r)) /\ UNCHANGED chat
  <2>1. ResolverCounts(r)
    BY <1>2, ResolverLower
  <2>2. Counts(r)
    BY <1>1, <1>2, <2>1 DEF ResolverCounts, Counts
  <2>3. \A q \in Requests \ {r} : Same(q)
    BY <1>2, ResolverInv
  <2>4. \A q \in Requests \ {r} : caller'[q] = caller[q]
    BY <1>1, <1>2, CallerOf DEF LocalTypes
  <2> QED
    BY <1>2, <2>2, <2>3, <2>4 DEF Waiting, Same
<1>3. CASE ChatStep(r)
  <2>1. ChatCounts(r)
    BY <1>3, ChatLower
  <2>2. /\ UNCHANGED caller
        /\ \/ UNCHANGED auth /\ pc'[r] \notin Unassigned \union {"reacquire"}
           \/ auth' = [auth EXCEPT ![r] = NoAuth] /\ pc'[r] = "idle"
    BY <1>1, <1>3, ChatMoves
  <2>3. Counts(r)
    <3>1. CASE UNCHANGED auth /\ pc'[r] \notin Unassigned \union {"reacquire"}
      BY <2>1, <3>1 DEF ChatCounts, Counts, Left
    <3>2. CASE auth' = [auth EXCEPT ![r] = NoAuth] /\ pc'[r] = "idle"
      <4>1. auth'[r] = NoAuth
        BY <1>1, <3>2 DEF LocalTypes
      <4>2. Left(auth'[r], pc'[r])
        BY <4>1 DEF Left, NoAuth
      <4> QED
        BY <2>1, <3>2, <4>2 DEF ChatCounts, Counts
    <3> QED
      BY <2>2, <3>1, <3>2
  <2>4. \A q \in Requests \ {r} : Same(q)
    BY <1>3, ChatInv
  <2> QED
    BY <2>1, <2>2, <2>3, <2>4 DEF ChatCounts, Waiting, Same
<1> QED
  BY <1>2, <1>3 DEF RequestStep

\* Before its first step a request has all of it ahead.
LEMMA InitBInv == Init => BInv
<1> SUFFICES ASSUME Init PROVE BInv
  OBVIOUS
<1>1. NoChat \in Chat /\ NoChat.attempts = 0 /\ NoChat.retries = 0 /\ NoChat.op = "none"
  BY DEF NoChat, Chat
<1>2. chat \in [Requests -> Chat]
  BY <1>1 DEF Init
<1>3. ASSUME NEW r \in Requests
      PROVE  ChatFits(chat[r], pc[r], caller[r]) /\ Left(auth[r], pc[r])
  <2>1. chat[r] = NoChat /\ pc[r] = "idle" /\ auth[r] = NoAuth
    BY DEF Init, AuthInit
  <2>2. ChatFits(chat[r], pc[r], caller[r])
    BY <1>1, <2>1, ChatRequestAssumption DEF ChatFits
  <2>3. Left(auth[r], pc[r])
    BY <2>1 DEF Left, NoAuth
  <2> QED
    BY <2>2, <2>3
<1> QED
  BY <1>2, <1>3 DEF BInv

\* BInv is inductive, given IInv.
LEMMA NextBInv == IInv /\ BInv /\ [Next]_vars => BInv'
<1> SUFFICES ASSUME IInv, BInv, [Next]_vars PROVE BInv'
  OBVIOUS
<1>1. ASSUME NEW r \in Requests,
             (Determine(r) /\ UNCHANGED chat) \/ RequestStep(r)
      PROVE  BInv'
  <2>1. Counts(r) /\ \A q \in Requests \ {r} : Waiting(q)
    BY <1>1, StepCounts
  <2>2. \A q \in Requests :
          ChatFits(chat'[q], pc'[q], caller'[q]) /\ Left(auth'[q], pc'[q])
    BY <2>1 DEF BInv, Counts, Waiting
  <2>3. chat' \in [Requests -> Chat]
    BY <2>1 DEF Counts
  <2> QED
    BY <2>2, <2>3 DEF BInv
<1>2. ASSUME UNCHANGED <<authVars, chat>> PROVE BInv'
  BY <1>2 DEF BInv, authVars
<1> QED
  BY <1>1, <1>2 DEF Next, vars

\* What a step does to one request: nothing that shows, or less is ahead of it.
LEMMA NextCounts ==
  ASSUME IInv, BInv, BInv', [Next]_vars, NEW r \in Requests,
         {pc[r], pc'[r]} \intersect {"idle", "blocked"} = {},
         pc'[r] # pc[r] \/ chat'[r] # chat[r]
  PROVE  Ahead(r)' \in [1 .. 6 -> Nat] /\ Less(Ahead(r)', Ahead(r))
<1>1. ASSUME NEW q \in Requests, (Determine(q) /\ UNCHANGED chat) \/ RequestStep(q)
      PROVE  Counts(r)
  BY <1>1, StepCounts DEF Waiting
<1>2. ~UNCHANGED <<authVars, chat>>
  BY DEF authVars
<1>3. Counts(r)
  BY <1>1, <1>2 DEF Next, vars
<1>4. \/ Untried(auth'[r]) < Untried(auth[r])
      \/ Untried(auth'[r]) = Untried(auth[r]) /\ Lower(chat[r], pc[r], chat'[r], pc'[r])
  BY <1>3 DEF Counts
<1>5. Untried(auth'[r]) \in Nat /\ Untried(auth[r]) \in Nat
  BY UntriedNat
<1>6. ChatFits(chat[r], pc[r], caller[r]) /\ ChatFits(chat'[r], pc'[r], caller'[r])
  BY <1>3 DEF BInv, Counts
<1> DEFINE m == <<Untried(auth'[r]), Retries(chat'[r], pc'[r]), CallRank(chat'[r], pc'[r]),
                  MaxAttempts - chat'[r].attempts,
                  IF chat'[r].refreshed THEN 0 ELSE 1, StageRank(pc'[r])>>
           n == <<Untried(auth[r]), Retries(chat[r], pc[r]), CallRank(chat[r], pc[r]),
                  MaxAttempts - chat[r].attempts,
                  IF chat[r].refreshed THEN 0 ELSE 1, StageRank(pc[r])>>
<1>7. m \in [1 .. 6 -> Nat] /\ Less(m, n)
  BY <1>4, <1>5, <1>6, LowerIsLess
<1>8. Ahead(r) = n
  BY DEF Ahead
<1>9. Ahead(r)' = m
  BY DEF Ahead
<1> HIDE DEF m, n
<1> QED
  BY <1>7, <1>8, <1>9

\* BInv holds in every behaviour.
LEMMA AlwaysBInv == Spec => []BInv
  BY AlwaysIInv, InitBInv, NextBInv, PTL DEF Spec

(***************************************************************************)
(* The refreshes, the changes of account, the retries and the restarts of  *)
(* a served request cannot go round: every step of it but those from and   *)
(* to the queue, its first and its last leaves less ahead of it, in a      *)
(* lexicographic order of naturals.  That order has no infinite descent:   *)
(* a request that keeps taking steps ends.                                 *)
(***************************************************************************)
THEOREM EveryStepCountsCorrect == Spec => EveryStepCounts
<1>1. IInv /\ BInv /\ BInv' /\ [Next]_vars =>
        [\A r \in Requests :
           /\ {pc[r], pc'[r]} \intersect {"idle", "blocked"} = {}
           /\ pc'[r] # pc[r] \/ chat'[r] # chat[r]
           => Ahead(r)' \in [1 .. 6 -> Nat] /\ Less(Ahead(r)', Ahead(r))]_vars
  BY NextCounts
<1> QED
  BY <1>1, AlwaysIInv, AlwaysBInv, PTL DEF Spec, EveryStepCounts
=============================================================================
