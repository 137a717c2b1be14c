-------------------------- MODULE AccountPoolProofs --------------------------
(***************************************************************************)
(* Theorems about AccountPool, for every set of accounts and requests and  *)
(* every configuration.                                                    *)
(***************************************************************************)
EXTENDS AccountPool, PoolProofs

-----------------------------------------------------------------------------
\* AcquireWait, Acquire and Release return into a well-formed request.
LEMMA ReturnType ==
  ASSUME ClientTypeOK, NEW r \in Requests, NEW id \in Ids \union {NoAccount}, Return(r, id)
  PROVE  ClientTypeOK'
<1>1. NoCall \in Call
  BY DEF NoCall, Call
<1> QED
  BY <1>1 DEF ClientTypeOK, Return, Stage

-----------------------------------------------------------------------------
(***************************************************************************)
(* The inductive invariant.                                                *)
(***************************************************************************)
IInv == TypeOK /\ SlotInv

LEMMA InitIInv == Init => IInv
<1> SUFFICES ASSUME Init PROVE IInv
  OBVIOUS
<1> USE AccountPoolAssumption, PoolAssumption DEF Init
<1>1. PoolTypeOK /\ SlotInv
  BY PoolInitInv
<1>2. ClientTypeOK
  BY DEF ClientTypeOK, Stage, Call, NoCall
<1>3. AdminTypeOK
  BY DEF AdminTypeOK, Job
<1> QED
  BY <1>1, <1>2, <1>3 DEF IInv, TypeOK, Init

\* Every step of a request preserves it.
LEMMA RequestIInv ==
  ASSUME IInv, NEW r \in Requests,
         StartWait(r) \/ AcquireNow(r) \/ RequestStep(r) \/ Ban(r) \/ CtxDone(r)
  PROVE  IInv'
<1> USE DEF IInv
<1>1. /\ PoolTypeOK /\ SlotInv /\ ClientTypeOK /\ AdminTypeOK /\ exact \in BOOLEAN
      /\ held[r] \in Ids \union {NoAccount}
      /\ waiters \in Seq(Requests)
  BY DEF TypeOK, ClientTypeOK, PoolTypeOK
<1>2. ASSUME UNCHANGED poolVars PROVE PoolTypeOK' /\ SlotInv'
  BY <1>1, <1>2, FrameInv DEF poolVars, storeVars, limitVars, PoolTypeOK
<1>3. ASSUME UNCHANGED <<adminVars, exact>> PROVE AdminTypeOK' /\ exact' \in BOOLEAN
  BY <1>1, <1>3 DEF AdminTypeOK, adminVars
<1>4. NoAccount \in Ids \union {NoAccount}
  OBVIOUS
<1>5. CASE StartWait(r)
  <2>1. ClientTypeOK'
    <3>1. PICK t \in Targets, e \in Exclusions :
            call' = [call EXCEPT ![r] = [target |-> t, exclude |-> e]]
      BY <1>5 DEF StartWait
    <3>2. [target |-> t, exclude |-> e] \in Call
      BY AccountPoolAssumption DEF Call
    <3> QED
      BY <1>1, <1>5, <3>1, <3>2 DEF ClientTypeOK, StartWait, Stage
  <2> QED
    BY <1>1, <1>5, <1>2, <1>3, <2>1 DEF StartWait, TypeOK
<1>6. CASE AcquireNow(r)
  <2>1. PICK id \in Ids : takeSlot(id) /\ Return(r, id)
    BY <1>6 DEF AcquireNow, acquire
  <2>2. PoolTypeOK' /\ SlotInv'
    BY <1>1, <1>6, <2>1, TakeSlotInv DEF AcquireNow
  <2>3. ClientTypeOK'
    BY <1>1, <2>1, ReturnType
  <2> QED
    BY <1>6, <1>3, <2>2, <2>3 DEF AcquireNow, TypeOK
<1>7. CASE CheckContext(r)
  <2>1. ClientTypeOK'
    <3>1. CASE r \in cancelled
      BY <1>1, <1>7, <1>4, <3>1, ReturnType DEF CheckContext
    <3>2. CASE r \notin cancelled
      BY <1>1, <1>7, <3>2 DEF CheckContext, ClientTypeOK, Stage
    <3> QED
      BY <3>1, <3>2
  <2> QED
    BY <1>7, <1>2, <1>3, <2>1 DEF CheckContext, TypeOK
<1>8. CASE Grant(r)
  <2>1. PICK id \in Ids : takeSlot(id) /\ Return(r, id)
    BY <1>8 DEF Grant, acquire
  <2>2. PoolTypeOK' /\ SlotInv'
    BY <1>1, <1>8, <2>1, TakeSlotInv DEF Grant
  <2>3. ClientTypeOK'
    BY <1>1, <2>1, ReturnType
  <2> QED
    BY <1>8, <1>3, <2>2, <2>3 DEF Grant, TypeOK
<1>9. CASE Enqueue(r)
  <2>1. waiters' \in Seq(Requests)
    BY <1>1, <1>9 DEF Enqueue
  <2>2. PoolTypeOK' /\ SlotInv'
    BY <1>1, <1>9, <2>1, FrameInv DEF Enqueue, storeVars, limitVars, PoolTypeOK
  <2>3. ClientTypeOK'
    BY <1>1, <1>9 DEF Enqueue, ClientTypeOK, Stage
  <2> QED
    BY <1>9, <1>3, <2>2, <2>3 DEF Enqueue, TypeOK
<1>10. CASE Reject(r)
  BY <1>1, <1>10, <1>2, <1>3, <1>4, ReturnType DEF Reject, TypeOK
<1>11. CASE Wake(r)
  <2>1. ClientTypeOK'
    BY <1>1, <1>11 DEF Wake, ClientTypeOK, Stage
  <2> QED
    BY <1>11, <1>2, <1>3, <2>1 DEF Wake, TypeOK
<1>12. CASE GiveUp(r)
  <2>1. waiters' \in Seq(Requests)
    BY <1>1, <1>12, WithoutType DEF GiveUp
  <2>2. PoolTypeOK' /\ SlotInv'
    BY <1>1, <1>12, <2>1, FrameInv DEF GiveUp, storeVars, limitVars, PoolTypeOK
  <2>3. ClientTypeOK'
    BY <1>1, <1>12, <1>4, ReturnType DEF GiveUp
  <2> QED
    BY <1>12, <1>3, <2>2, <2>3 DEF GiveUp, TypeOK
<1>13. CASE Release(r)
  <2>1. PoolTypeOK' /\ SlotInv'
    BY <1>1, <1>13, ReleaseSlotInv DEF Release
  <2>2. ClientTypeOK'
    BY <1>1, <1>13, <1>4, ReturnType DEF Release
  <2> QED
    BY <1>13, <1>3, <2>1, <2>2 DEF Release, TypeOK
<1>14. CASE Ban(r)
  <2>1. held[r] \in Ids
    BY <1>14, AccountPoolAssumption DEF Ban
  <2>2. PoolTypeOK' /\ SlotInv'
    BY <1>1, <1>14, <2>1, NotifyInv DEF Ban, banAccount, limitVars, PoolTypeOK
  <2>3. ClientTypeOK'
    BY <1>1, <1>14 DEF Ban, clientVars, ClientTypeOK
  <2> QED
    BY <1>14, <1>3, <2>2, <2>3 DEF Ban, TypeOK
<1>15. CASE CtxDone(r)
  <2>1. ClientTypeOK'
    BY <1>1, <1>15 DEF CtxDone, ClientTypeOK
  <2> QED
    BY <1>15, <1>2, <1>3, <2>1 DEF CtxDone, TypeOK
<1> QED
  BY <1>5, <1>6, <1>7, <1>8, <1>9, <1>10, <1>11, <1>12, <1>13, <1>14, <1>15 DEF RequestStep

\* Every step of an administration request preserves it.
LEMMA AdminIInv ==
  ASSUME IInv, NEW m \in Admins,
         UpdateAccounts(m) \/ UpdateSettings(m) \/ AdminStep(m)
  PROVE  IInv'
<1> USE DEF IInv
<1>1. /\ PoolTypeOK /\ SlotInv /\ ClientTypeOK /\ AdminTypeOK /\ exact \in BOOLEAN
      /\ accounts \in Seq(Ids) /\ settings \in Settings
      /\ admin \in [Admins -> Job] /\ adminOps \in Nat
  BY DEF TypeOK, PoolTypeOK, AdminTypeOK
<1>2. ASSUME UNCHANGED clientVars PROVE ClientTypeOK'
  BY <1>1, <1>2 DEF ClientTypeOK, clientVars
<1>3. ASSUME UNCHANGED poolVars PROVE PoolTypeOK' /\ SlotInv'
  BY <1>1, <1>3, FrameInv DEF poolVars, storeVars, limitVars, PoolTypeOK
<1>4. NoJob \in Job /\ ResetJob \in Job /\ ApplyJob \in Job
  BY DEF Job
<1>5. /\ settings.perAccount \in Nat \ {0}
      /\ settings.queue \in Nat
      /\ settings.global \in Nat
  BY <1>1, SettingsType
<1>6. CASE UpdateAccounts(m)
  <2>1. accounts' \in Seq(Ids)
    BY <1>1, <1>6, WithoutType DEF UpdateAccounts
  <2>2. PoolTypeOK' /\ SlotInv'
    BY <1>1, <1>6, <2>1, FrameInv DEF UpdateAccounts, limitVars, PoolTypeOK
  <2>3. AdminTypeOK'
    BY <1>1, <1>6, <1>4 DEF UpdateAccounts, StartJob, AdminTypeOK
  <2> QED
    BY <1>1, <1>6, <1>2, <2>2, <2>3 DEF UpdateAccounts, TypeOK
<1>7. CASE UpdateSettings(m)
  <2>1. PoolTypeOK' /\ SlotInv'
    BY <1>1, <1>7, FrameInv DEF UpdateSettings, limitVars, PoolTypeOK
  <2>2. AdminTypeOK'
    BY <1>1, <1>7, <1>4 DEF UpdateSettings, StartJob, AdminTypeOK
  <2> QED
    BY <1>1, <1>7, <1>2, <2>1, <2>2 DEF UpdateSettings, TypeOK
<1>8. CASE ResetAccounts(m)
  <2>1. PICK holders \in SUBSET Ids : \E ids \in tokenHoldersFirst(accounts, holders) :
          admin' = [admin EXCEPT ![m] = [op |-> "listed", ids |-> ids]]
    BY <1>8 DEF ResetAccounts
  <2>2. PICK ids \in tokenHoldersFirst(accounts, holders) :
          admin' = [admin EXCEPT ![m] = [op |-> "listed", ids |-> ids]]
    BY <2>1
  <2>3. [op |-> "listed", ids |-> ids] \in Job
    BY <1>1, <2>2, TokenOrderType DEF Job
  <2>4. AdminTypeOK'
    BY <1>1, <1>8, <2>2, <2>3 DEF ResetAccounts, AdminTypeOK
  <2> QED
    BY <1>1, <1>8, <1>2, <1>3, <2>4 DEF ResetAccounts, TypeOK
<1>9. CASE ResetPerAccount(m)
  <2>1. [admin[m] EXCEPT !.op = "limited"] \in Job
    BY <1>1, <1>9 DEF ResetPerAccount, Job, NoJob, ResetJob, ApplyJob
  <2>2. AdminTypeOK'
    BY <1>1, <1>9, <2>1 DEF ResetPerAccount, AdminTypeOK
  <2>3. PoolTypeOK' /\ SlotInv'
    BY <1>1, <1>9, <1>5, FrameInv DEF ResetPerAccount, storeVars, limitVars, PoolTypeOK
  <2> QED
    BY <1>1, <1>9, <1>2, <2>2, <2>3 DEF ResetPerAccount, TypeOK
<1>10. CASE ResetLimits(m)
  <2> DEFINE recommended == recommendedConcurrency(Len(admin[m].ids), maxInflightPerAccount)
             job == [op |-> "install", ids |-> admin[m].ids,
                     queueSize |-> orDefault(settings.queue, recommended),
                     global |-> orDefault(settings.global, recommended)]
  <2>1. admin[m].ids \in Seq(Ids)
    BY <1>1, <1>10 DEF ResetLimits, Job, NoJob, ResetJob, ApplyJob
  <2>2. recommended \in Nat
    <3>1. Len(admin[m].ids) \in Nat /\ maxInflightPerAccount \in Nat
      BY <1>1, <2>1 DEF PoolTypeOK
    <3> QED
      BY <3>1, RecommendedType
  <2>3. admin' = [admin EXCEPT ![m] = job]
    BY <1>10 DEF ResetLimits
  <2> HIDE DEF recommended
  <2>4. job \in Job
    BY <1>5, <2>1, <2>2, DefaultType DEF Job
  <2> HIDE DEF job
  <2>5. AdminTypeOK'
    BY <1>1, <1>10, <2>3, <2>4 DEF ResetLimits, AdminTypeOK
  <2> QED
    BY <1>1, <1>10, <1>2, <1>3, <2>5 DEF ResetLimits, TypeOK
<1>11. CASE ResetInstall(m)
  <2>1. /\ admin[m].ids \in Seq(Ids)
        /\ admin[m].queueSize \in Nat
        /\ admin[m].global \in Nat
    BY <1>1, <1>11 DEF ResetInstall, Job, NoJob, ResetJob, ApplyJob
  <2>2. PoolTypeOK' /\ SlotInv'
    BY <1>1, <1>11, <2>1, ResetInv DEF ResetInstall
  <2>3. AdminTypeOK'
    BY <1>1, <1>11, <1>4 DEF ResetInstall, AdminTypeOK
  <2> QED
    BY <1>1, <1>11, <1>2, <2>2, <2>3 DEF ResetInstall, TypeOK
<1>12. CASE ApplyCount(m)
  <2>1. [op |-> "counted", count |-> IF accounts = <<>> THEN 1 ELSE Len(accounts)] \in Job
    <3>1. (IF accounts = <<>> THEN 1 ELSE Len(accounts)) \in Nat
      BY <1>1
    <3> QED
      BY <3>1 DEF Job
  <2>2. AdminTypeOK'
    BY <1>1, <1>12, <2>1 DEF ApplyCount, AdminTypeOK
  <2> QED
    BY <1>1, <1>12, <1>2, <1>3, <2>2 DEF ApplyCount, TypeOK
<1>13. CASE ApplySettings(m)
  <2> DEFINE recommended == recommendedConcurrency(admin[m].count, settings.perAccount)
             job == [op |-> "limit", perAccount |-> settings.perAccount,
                     queueSize |-> orDefault(settings.queue, recommended),
                     global |-> orDefault(settings.global, recommended)]
  <2>1. recommended \in Nat
    <3>1. admin[m].count \in Nat /\ settings.perAccount \in Nat
      BY <1>1, <1>5, <1>13 DEF ApplySettings, Job, NoJob, ResetJob, ApplyJob
    <3> QED
      BY <3>1, RecommendedType
  <2>2. admin' = [admin EXCEPT ![m] = job]
    BY <1>13 DEF ApplySettings
  <2> HIDE DEF recommended
  <2>3. job \in Job
    BY <1>5, <2>1, DefaultType DEF Job
  <2> HIDE DEF job
  <2>4. AdminTypeOK'
    BY <1>1, <1>13, <2>2, <2>3 DEF ApplySettings, AdminTypeOK
  <2> QED
    BY <1>1, <1>13, <1>2, <1>3, <2>4 DEF ApplySettings, TypeOK
<1>14. CASE ApplyInstall(m)
  <2>1. /\ admin[m].perAccount \in Nat \ {0}
        /\ admin[m].queueSize \in Nat
        /\ admin[m].global \in Nat
    BY <1>1, <1>14 DEF ApplyInstall, Job, NoJob, ResetJob, ApplyJob
  <2>2. PoolTypeOK' /\ SlotInv'
    BY <1>1, <1>14, <2>1, NotifyInv DEF ApplyInstall, applyRuntimeLimits, PoolTypeOK
  <2>3. AdminTypeOK'
    BY <1>1, <1>14, <1>4 DEF ApplyInstall, AdminTypeOK
  <2> QED
    BY <1>1, <1>14, <1>2, <2>2, <2>3 DEF ApplyInstall, TypeOK
<1> QED
  BY <1>6, <1>7, <1>8, <1>11, <1>12, <1>14, <1>9, <1>10, <1>13 DEF AdminStep

LEMMA NextIInv == IInv /\ [Next]_vars => IInv'
<1> SUFFICES ASSUME IInv, [Next]_vars PROVE IInv'
  OBVIOUS
<1>1. PoolTypeOK /\ SlotInv /\ ClientTypeOK /\ AdminTypeOK /\ exact \in BOOLEAN
  BY DEF IInv, TypeOK
<1>2. ASSUME UNCHANGED <<clientVars, adminVars, exact>>
      PROVE  ClientTypeOK' /\ AdminTypeOK' /\ exact' \in BOOLEAN
  BY <1>1, <1>2 DEF clientVars, adminVars, ClientTypeOK, AdminTypeOK
<1>3. ASSUME NEW r \in Requests,
             StartWait(r) \/ AcquireNow(r) \/ RequestStep(r) \/ Ban(r) \/ CtxDone(r)
      PROVE  IInv'
  BY <1>3, RequestIInv
<1>4. ASSUME NEW m \in Admins, UpdateAccounts(m) \/ UpdateSettings(m) \/ AdminStep(m)
      PROVE  IInv'
  BY <1>4, AdminIInv
<1>5. ASSUME NEW id \in Ids, BanExpires(id), UNCHANGED <<clientVars, adminVars, exact>>
      PROVE  IInv'
  <2>1. PoolTypeOK' /\ SlotInv'
    BY <1>1, <1>5, FrameInv DEF BanExpires, storeVars, limitVars, PoolTypeOK
  <2> QED
    BY <1>5, <1>2, <2>1 DEF IInv, TypeOK
<1>6. CASE UNCHANGED vars
  <2>1. PoolTypeOK' /\ SlotInv'
    BY <1>1, <1>6, FrameInv DEF vars, poolVars, storeVars, limitVars, PoolTypeOK
  <2> QED
    BY <1>6, <1>2, <2>1 DEF vars, IInv, TypeOK
<1> QED
  BY <1>3, <1>4, <1>5, <1>6 DEF Next

-----------------------------------------------------------------------------
(***************************************************************************)
(* The pool is well typed in every reachable state; in particular the      *)
(* total that Release decrements without a test never goes below zero.     *)
(***************************************************************************)
THEOREM TypeCorrect == Spec => []TypeOK
<1>1. IInv => TypeOK
  BY DEF IInv
<1> QED
  BY <1>1, InitIInv, NextIInv, PTL DEF Spec

(***************************************************************************)
(* The total that the global limit is tested against is the sum of the     *)
(* per-account counters, across every interleaving of requests and admins. *)
(***************************************************************************)
THEOREM TotalCorrect == Spec => []TotalIsSum
<1>1. IInv => TotalIsSum
  BY DEF IInv, SlotInv
<1> QED
  BY <1>1, InitIInv, NextIInv, PTL DEF Spec

-----------------------------------------------------------------------------
(***************************************************************************)
(* The counters and the requests that hold accounts.  Three kinds of step  *)
(* matter: one takes a slot, one releases it, one resets the counters; any *)
(* other leaves the counters and the holders alone.                        *)
(***************************************************************************)
Takes(r, id) ==
  /\ held[r] = NoAccount
  /\ held' = [held EXCEPT ![r] = id]
  /\ inUse' = [inUse EXCEPT ![id] = @ + 1]
  /\ totalInUse' = totalInUse + 1
  /\ canAcquireID(id)
  /\ UNCHANGED <<limitVars, exact>>

Gives(r) ==
  /\ held[r] \in Ids
  /\ held' = [held EXCEPT ![r] = NoAccount]
  /\ IF inUse[held[r]] = 0
     THEN UNCHANGED <<inUse, totalInUse>>
     ELSE /\ inUse' = [inUse EXCEPT ![held[r]] = @ - 1]
          /\ totalInUse' = totalInUse - 1
  /\ UNCHANGED exact

Resets ==
  /\ inUse' = [id \in Ids |-> 0]
  /\ totalInUse' = 0
  /\ exact' = (exact /\ totalInUse = 0)
  /\ UNCHANGED held

\* Every step is one of these.
LEMMA StepKinds ==
  ASSUME IInv, [Next]_vars
  PROVE  \/ \E r \in Requests, id \in Ids : Takes(r, id)
         \/ \E r \in Requests : Gives(r)
         \/ Resets
         \/ UNCHANGED <<held, inUse, totalInUse, exact>>
<1>1. /\ held \in [Requests -> Ids \union {NoAccount}]
      /\ \A r \in Requests : pc[r] = "holding" <=> held[r] # NoAccount
  BY DEF IInv, TypeOK, ClientTypeOK
<1>2. ASSUME NEW r \in Requests, Grant(r) \/ AcquireNow(r)
      PROVE  \E id \in Ids : Takes(r, id)
  <2>1. PICK id \in Ids : (\E t, e : acquire(t, e, id)) /\ Return(r, id)
    BY <1>2 DEF Grant, AcquireNow
  <2>2. PICK t, e : acquire(t, e, id)
    BY <2>1
  <2>3. canAcquireID(id) /\ takeSlot(id)
    BY <2>2 DEF acquire, Preferred, Eligible
  <2>4. held[r] = NoAccount
    BY <1>1, <1>2 DEF Grant, AcquireNow
  <2> QED
    BY <1>2, <2>1, <2>2, <2>3, <2>4 DEF Grant, AcquireNow, Takes, takeSlot, Return
<1>3. ASSUME NEW r \in Requests, Release(r)
      PROVE  Gives(r)
  <2>1. held[r] \in Ids
    BY <1>1, <1>3, PoolAssumption DEF Release
  <2> QED
    BY <1>3, <2>1, PoolAssumption
    DEF Release, releaseSlot, Gives, Return, poolVars, slotVars
<1>4. ASSUME NEW r \in Requests,
             \/ StartWait(r) \/ CheckContext(r) \/ Enqueue(r) \/ Reject(r)
             \/ Wake(r) \/ GiveUp(r) \/ Ban(r) \/ CtxDone(r)
      PROVE  UNCHANGED <<held, inUse, totalInUse, exact>>
  <2>1. CASE StartWait(r) \/ Enqueue(r) \/ Wake(r) \/ Ban(r) \/ CtxDone(r)
    BY <2>1 DEF StartWait, Enqueue, Wake, Ban, banAccount, CtxDone, poolVars, slotVars, clientVars
  <2>2. CASE CheckContext(r) \/ Reject(r) \/ GiveUp(r)
    <3>1. held[r] = NoAccount
      BY <1>1, <2>2 DEF CheckContext, Reject, GiveUp
    <3>2. held' = held
      BY <1>1, <2>2, <3>1 DEF CheckContext, Reject, GiveUp, Return
    <3> QED
      BY <2>2, <3>2 DEF CheckContext, Reject, GiveUp, poolVars, slotVars
  <2> QED
    BY <1>4, <2>1, <2>2
<1>5. ASSUME NEW m \in Admins, ResetInstall(m)
      PROVE  Resets
  BY <1>5 DEF ResetInstall, reset, Resets, clientVars
<1>6. ASSUME NEW m \in Admins,
             \/ UpdateAccounts(m) \/ UpdateSettings(m)
             \/ ResetAccounts(m) \/ ResetPerAccount(m) \/ ResetLimits(m)
             \/ ApplyCount(m) \/ ApplySettings(m) \/ ApplyInstall(m)
      PROVE  UNCHANGED <<held, inUse, totalInUse, exact>>
  BY <1>6 DEF UpdateAccounts, UpdateSettings, ResetAccounts, ResetPerAccount, ResetLimits,
              ApplyCount, ApplySettings, ApplyInstall, applyRuntimeLimits, poolVars, slotVars, clientVars
<1>7. ASSUME NEW id \in Ids, BanExpires(id), UNCHANGED <<clientVars, adminVars, exact>>
      PROVE  UNCHANGED <<held, inUse, totalInUse, exact>>
  BY <1>7 DEF BanExpires, slotVars, clientVars
<1>8. CASE UNCHANGED vars
  BY <1>8 DEF vars, poolVars, slotVars, clientVars
<1> QED
  BY <1>2, <1>3, <1>4, <1>5, <1>6, <1>7, <1>8 DEF Next, RequestStep, AdminStep

\* The sets of holders are finite.
LEMMA HoldersFinite ==
  /\ IsFiniteSet(AllHolders) /\ IsFiniteSet(AllHolders')
  /\ \A id : IsFiniteSet(Holders(id)) /\ IsFiniteSet(Holders(id)')
<1>1. /\ AllHolders \subseteq Requests /\ AllHolders' \subseteq Requests
      /\ \A id : Holders(id) \subseteq Requests /\ Holders(id)' \subseteq Requests
  BY DEF AllHolders, Holders
<1> QED
  BY <1>1, PoolAssumption, FS_Subset

\* A grant adds the request to the holders of its account and of no other.
LEMMA TakesHolders ==
  ASSUME IInv, NEW r \in Requests, NEW id \in Ids, Takes(r, id)
  PROVE  /\ Cardinality(Holders(id)') = Cardinality(Holders(id)) + 1
         /\ Cardinality(AllHolders') = Cardinality(AllHolders) + 1
         /\ \A other \in Ids \ {id} : Holders(other)' = Holders(other)
<1>1. Took(held, held', r, id)
  BY DEF IInv, TypeOK, ClientTypeOK, Takes, Took, Holding
<1>2. /\ AllHoldersOf(held) = AllHolders /\ AllHoldersOf(held') = AllHolders'
      /\ \A x : HoldersOf(held, x) = Holders(x) /\ HoldersOf(held', x) = Holders(x)'
  BY DEF Holders, AllHolders, HoldersOf, AllHoldersOf
<1> QED
  BY <1>1, <1>2, TakeHolders

\* A release removes it.
LEMMA GivesHolders ==
  ASSUME IInv, NEW r \in Requests, NEW id \in Ids, Gives(r), held[r] = id
  PROVE  /\ r \in Holders(id) /\ r \in AllHolders
         /\ Cardinality(Holders(id)') = Cardinality(Holders(id)) - 1
         /\ Cardinality(AllHolders') = Cardinality(AllHolders) - 1
         /\ \A other \in Ids \ {id} : Holders(other)' = Holders(other)
<1>1. Gave(held, held', r, id)
  BY DEF IInv, TypeOK, ClientTypeOK, Gives, Gave, Holding
<1>2. /\ AllHoldersOf(held) = AllHolders /\ AllHoldersOf(held') = AllHolders'
      /\ \A x : HoldersOf(held, x) = Holders(x) /\ HoldersOf(held', x) = Holders(x)'
  BY DEF Holders, AllHolders, HoldersOf, AllHoldersOf
<1> QED
  BY <1>1, <1>2, GiveHolders

-----------------------------------------------------------------------------
(***************************************************************************)
(* Until a Reset discards slots in use, the counters are exact.            *)
(***************************************************************************)
LEMMA CountersStep ==
  ASSUME IInv, CountersAreExact, [Next]_vars
  PROVE  CountersAreExact'
<1>1. inUse \in [Ids -> Nat] /\ totalInUse \in Nat
  BY DEF IInv, TypeOK, PoolTypeOK
<1>2. ASSUME NEW r \in Requests, NEW id \in Ids, Takes(r, id)
      PROVE  CountersAreExact'
  BY <1>1, <1>2, TakesHolders DEF CountersAreExact, Takes
<1>3. ASSUME NEW r \in Requests, Gives(r)
      PROVE  CountersAreExact'
  <2>1. PICK id \in Ids : held[r] = id
    BY <1>3 DEF Gives
  <2>2. SUFFICES ASSUME exact PROVE CountersAreExact'
    BY <1>3 DEF CountersAreExact, Gives
  <2>3. Cardinality(Holders(id)) # 0
    BY <1>3, <2>1, GivesHolders, HoldersFinite, FS_EmptySet
  <2>4. /\ inUse' = [inUse EXCEPT ![id] = @ - 1]
        /\ totalInUse' = totalInUse - 1
        /\ exact
        /\ \A x \in Ids : inUse[x] = Cardinality(Holders(x))
        /\ totalInUse = Cardinality(AllHolders)
    BY <1>3, <2>1, <2>2, <2>3 DEF CountersAreExact, Gives
  <2>5. /\ Cardinality(Holders(id)') = Cardinality(Holders(id)) - 1
        /\ Cardinality(AllHolders') = Cardinality(AllHolders) - 1
        /\ \A other \in Ids \ {id} : Holders(other)' = Holders(other)
    BY <1>3, <2>1, GivesHolders
  <2>6. \A x \in Ids : inUse'[x] = Cardinality(Holders(x)')
    BY <1>1, <2>4, <2>5
  <2> QED
    BY <2>4, <2>5, <2>6 DEF CountersAreExact
<1>4. CASE Resets
  <2>1. SUFFICES ASSUME exact, totalInUse = 0 PROVE CountersAreExact'
    BY <1>4 DEF CountersAreExact, Resets
  <2>2. AllHolders = {}
    BY <2>1, HoldersFinite, FS_EmptySet DEF CountersAreExact
  <2>3. \A id \in Ids : Holders(id) = {}
    BY <2>2, PoolAssumption DEF AllHolders, Holders
  <2>4. AllHolders' = {} /\ \A id \in Ids : Holders(id)' = {}
    BY <1>4, <2>2, <2>3 DEF AllHolders, Holders, Resets
  <2> QED
    BY <1>4, <2>4, FS_EmptySet DEF CountersAreExact, Resets
<1>5. CASE UNCHANGED <<held, inUse, totalInUse, exact>>
  BY <1>5 DEF CountersAreExact, Holders, AllHolders
<1> QED
  BY <1>2, <1>3, <1>4, <1>5, StepKinds

LEMMA CountersInit == Init => CountersAreExact
<1> SUFFICES ASSUME Init PROVE CountersAreExact
  OBVIOUS
<1>1. AllHolders = {} /\ \A id \in Ids : Holders(id) = {}
  BY PoolAssumption DEF Init, AllHolders, Holders
<1> QED
  BY <1>1, FS_EmptySet DEF Init, PoolInit, CountersAreExact

(***************************************************************************)
(* The pool's counters equal the numbers of requests that hold accounts    *)
(* for as long as no Reset discards a slot in use.                         *)
(***************************************************************************)
THEOREM CountersCorrect == Spec => []CountersAreExact
<1>1. IInv /\ CountersAreExact /\ [Next]_vars => IInv' /\ CountersAreExact'
  BY NextIInv, CountersStep
<1> QED
  BY <1>1, InitIInv, CountersInit, PTL DEF Spec

(***************************************************************************)
(* An account is granted only while its holders, and all holders, number   *)
(* fewer than the limits in force, as long as the counters are exact.      *)
(***************************************************************************)
THEOREM GrantsCorrect == Spec => GrantsRespectLimits
<1> DEFINE Respects ==
      \A id \in Ids :
        exact /\ Cardinality(Holders(id)') > Cardinality(Holders(id))
          => /\ Cardinality(Holders(id)') <= maxInflightPerAccount
             /\ globalMaxInflight > 0 => Cardinality(AllHolders') <= globalMaxInflight
<1>1. IInv /\ CountersAreExact /\ [Next]_vars => Respects
  <2> SUFFICES ASSUME IInv, CountersAreExact, [Next]_vars PROVE Respects
    OBVIOUS
  <2>1. /\ inUse \in [Ids -> Nat] /\ totalInUse \in Nat
        /\ maxInflightPerAccount \in Nat /\ globalMaxInflight \in Nat
        /\ \A id \in Ids : Cardinality(Holders(id)) \in Nat
    BY HoldersFinite, FS_CardinalityType DEF IInv, TypeOK, PoolTypeOK
  <2>2. ASSUME NEW r \in Requests, NEW id \in Ids, Takes(r, id)
        PROVE  Respects
    <3>1. /\ Cardinality(Holders(id)') = Cardinality(Holders(id)) + 1
          /\ Cardinality(AllHolders') = Cardinality(AllHolders) + 1
          /\ \A other \in Ids \ {id} : Holders(other)' = Holders(other)
      BY <2>2, TakesHolders
    <3>2. canAcquireID(id)
      BY <2>2 DEF Takes
    <3> SUFFICES ASSUME NEW x \in Ids, exact,
                        Cardinality(Holders(x)') > Cardinality(Holders(x))
                 PROVE  /\ Cardinality(Holders(x)') <= maxInflightPerAccount
                        /\ globalMaxInflight > 0
                             => Cardinality(AllHolders') <= globalMaxInflight
      OBVIOUS
    <3>3. x = id
      BY <2>1, <3>1
    <3>4. inUse[id] = Cardinality(Holders(id)) /\ totalInUse = Cardinality(AllHolders)
      BY DEF CountersAreExact
    <3> QED
      BY <2>1, <3>1, <3>2, <3>3, <3>4 DEF canAcquireID
  <2>3. ASSUME NEW r \in Requests, Gives(r)
        PROVE  Respects
    <3>1. PICK id \in Ids : held[r] = id
      BY <2>3 DEF Gives
    <3> QED
      BY <2>1, <2>3, <3>1, GivesHolders
  <2>4. CASE UNCHANGED held
    BY <2>1, <2>4 DEF Holders
  <2> QED
    BY <2>2, <2>3, <2>4, StepKinds DEF Resets
<1>2. IInv /\ CountersAreExact /\ [Next]_vars => IInv' /\ CountersAreExact'
  BY NextIInv, CountersStep
<1>3. Respects => [Respects]_vars
  OBVIOUS
<1> QED
  BY <1>1, <1>2, <1>3, InitIInv, CountersInit, PTL DEF Spec, GrantsRespectLimits

-----------------------------------------------------------------------------
(***************************************************************************)
(* No slot is leaked, Resets included.  The bound per account is           *)
(* inductive; the bound on the total follows from it, because the counted  *)
(* slots of an account inject into its holders.                            *)
(***************************************************************************)
WithinHolders == \A id \in Ids : inUse[id] <= Cardinality(Holders(id))

\* No step makes the pool count more slots than there are holders.
LEMMA WithinHoldersStep ==
  ASSUME IInv, WithinHolders, [Next]_vars
  PROVE  WithinHolders'
<1>1. inUse \in [Ids -> Nat]
  BY DEF IInv, TypeOK, PoolTypeOK
<1>2. \A id \in Ids : Cardinality(Holders(id)) \in Nat /\ Cardinality(Holders(id)') \in Nat
  BY HoldersFinite, FS_CardinalityType
<1>3. ASSUME NEW r \in Requests, NEW id \in Ids, Takes(r, id)
      PROVE  WithinHolders'
  <2>1. /\ Cardinality(Holders(id)') = Cardinality(Holders(id)) + 1
        /\ \A other \in Ids \ {id} : Holders(other)' = Holders(other)
    BY <1>3, TakesHolders
  <2>2. inUse' = [inUse EXCEPT ![id] = @ + 1]
    BY <1>3 DEF Takes
  <2>3. \A x \in Ids : inUse'[x] <= Cardinality(Holders(x)')
    BY <1>1, <1>2, <2>1, <2>2 DEF WithinHolders
  <2> QED
    BY <2>3 DEF WithinHolders
<1>4. ASSUME NEW r \in Requests, Gives(r)
      PROVE  WithinHolders'
  <2>1. PICK id \in Ids : held[r] = id
    BY <1>4 DEF Gives
  <2>2. /\ Cardinality(Holders(id)') = Cardinality(Holders(id)) - 1
        /\ \A other \in Ids \ {id} : Holders(other)' = Holders(other)
    BY <1>4, <2>1, GivesHolders
  <2>3. \A other \in Ids \ {id} : inUse'[other] = inUse[other]
    BY <1>1, <1>4, <2>1 DEF Gives
  <2>4. inUse'[id] <= Cardinality(Holders(id)')
    <3>1. CASE inUse[id] = 0
      BY <1>2, <1>4, <2>1, <3>1 DEF Gives
    <3>2. CASE inUse[id] # 0
      <4>1. inUse'[id] = inUse[id] - 1
        BY <1>1, <1>4, <2>1, <3>2 DEF Gives
      <4> QED
        BY <1>1, <1>2, <2>2, <4>1 DEF WithinHolders
    <3> QED
      BY <3>1, <3>2
  <2> QED
    BY <2>2, <2>3, <2>4 DEF WithinHolders
<1>5. CASE Resets
  BY <1>5, <1>2 DEF WithinHolders, Resets
<1>6. CASE UNCHANGED <<held, inUse, totalInUse, exact>>
  BY <1>6 DEF WithinHolders, Holders
<1> QED
  BY <1>3, <1>4, <1>5, <1>6, StepKinds

LEMMA WithinHoldersInit == Init => WithinHolders
<1> SUFFICES ASSUME Init PROVE WithinHolders
  OBVIOUS
<1>1. \A id \in Ids : Cardinality(Holders(id)) \in Nat
  BY HoldersFinite, FS_CardinalityType
<1> QED
  BY <1>1 DEF Init, PoolInit, WithinHolders

\* No slot is leaked, then, for the total is covered by the holders as well.
LEMMA SlotsWithinHolders ==
  ASSUME IInv, WithinHolders
  PROVE  NoSlotLeak
<1>1. \A id : HoldersOf(held, id) = Holders(id)
  BY DEF HoldersOf, Holders
<1>2. AllHoldersOf(held) = AllHolders
  BY DEF AllHoldersOf, AllHolders
<1>3. PoolTypeOK /\ SlotInv /\ held \in Holding /\ Covers(held, inUse)
  BY <1>1 DEF IInv, TypeOK, ClientTypeOK, Holding, Covers, WithinHolders
<1>4. totalInUse <= Cardinality(AllHolders)
  BY <1>2, <1>3, CoveredTotal
<1> QED
  BY <1>4 DEF NoSlotLeak, WithinHolders

(***************************************************************************)
(* The pool never counts more slots than requests hold, whatever Resets    *)
(* and releases interleave.                                                *)
(***************************************************************************)
THEOREM NoSlotLeakCorrect == Spec => []NoSlotLeak
<1>1. IInv /\ WithinHolders /\ [Next]_vars => IInv' /\ WithinHolders'
  BY NextIInv, WithinHoldersStep
<1>2. IInv /\ WithinHolders => NoSlotLeak
  BY SlotsWithinHolders
<1> QED
  BY <1>1, <1>2, InitIInv, WithinHoldersInit, PTL DEF Spec

-----------------------------------------------------------------------------
(***************************************************************************)
(* The waiter list.  Waking and giving up keep some of its entries, in     *)
(* places that an injection finds in the old list.                         *)
(***************************************************************************)
\* Keeping a part of the list preserves its invariant.
LEMMA PartBlocked ==
  ASSUME WaitersAreBlocked, PartOf(waiters', waiters),
         \A i \in DOMAIN waiters' : pc[waiters'[i]] = "blocked" => pc'[waiters'[i]] = "blocked"
  PROVE  WaitersAreBlocked'
<1>1. PICK f \in [DOMAIN waiters' -> DOMAIN waiters] :
        /\ \A i \in DOMAIN waiters' : waiters'[i] = waiters[f[i]]
        /\ \A i, j \in DOMAIN waiters' : f[i] = f[j] => i = j
  BY DEF PartOf
<1>2. \A i \in DOMAIN waiters' : pc'[waiters'[i]] = "blocked"
  BY <1>1 DEF WaitersAreBlocked
<1>3. \A i, j \in DOMAIN waiters' : waiters'[i] = waiters'[j] => i = j
  BY <1>1 DEF WaitersAreBlocked
<1> QED
  BY <1>2, <1>3 DEF WaitersAreBlocked

\* A step that leaves the list alone and every blocked request blocked.
LEMMA SameWaiters ==
  ASSUME WaitersAreBlocked, waiters' = waiters,
         \A i \in DOMAIN waiters : pc'[waiters[i]] = pc[waiters[i]]
  PROVE  WaitersAreBlocked'
  BY DEF WaitersAreBlocked

\* Waking the oldest waiters.
LEMMA NotifyBlocked ==
  ASSUME IInv, IInv', WaitersAreBlocked, notifyWaiters,
         \A r \in Requests : pc[r] = "blocked" => pc'[r] = "blocked"
  PROVE  WaitersAreBlocked'
<1>1. CapacityTypes'
  BY DEF IInv, TypeOK, PoolTypeOK, CapacityTypes
<1>2. PICK n \in 0..Len(waiters) : waiters' = SubSeq(waiters, n + 1, Len(waiters))
  BY <1>1, CapacityPrimed, NotifyType DEF IInv, TypeOK
<1>3. waiters \in Seq(Requests) /\ waiters' \in Seq(Requests)
  BY DEF IInv, TypeOK, PoolTypeOK
<1>4. PartOf(waiters', waiters)
  BY <1>2, <1>3, SuffixPart
<1>5. \A i \in DOMAIN waiters' : waiters'[i] \in Requests
  BY <1>3
<1> QED
  BY <1>4, <1>5, PartBlocked

\* A waiter is blocked, before and after every step.
LEMMA WaitersStep ==
  ASSUME IInv, IInv', WaitersAreBlocked, [Next]_vars
  PROVE  WaitersAreBlocked'
<1>1. /\ pc \in [Requests -> Stage] /\ waiters \in Seq(Requests)
      /\ \A i \in DOMAIN waiters : waiters[i] \in Requests
  BY DEF IInv, TypeOK, ClientTypeOK, PoolTypeOK
\* A request that is not blocked may move: it is not in the list.
<1>2. ASSUME NEW r \in Requests, r \notin Range(waiters), waiters' = waiters,
             \A q \in Requests \ {r} : pc'[q] = pc[q]
      PROVE  WaitersAreBlocked'
  BY <1>1, <1>2, SameWaiters DEF Range
<1>3. ASSUME NEW r \in Requests, pc[r] # "blocked"
      PROVE  r \notin Range(waiters)
  BY <1>3 DEF WaitersAreBlocked, Range
<1>4. ASSUME NEW r \in Requests,
             StartWait(r) \/ AcquireNow(r) \/ CheckContext(r) \/ Grant(r) \/ Reject(r)
      PROVE  WaitersAreBlocked'
  <2>1. waiters' = waiters /\ pc[r] # "blocked" /\ \A q \in Requests \ {r} : pc'[q] = pc[q]
    BY <1>1, <1>4 DEF StartWait, AcquireNow, CheckContext, Grant, Reject, Return, poolVars
  <2> QED
    BY <1>2, <1>3, <2>1
<1>5. ASSUME NEW r \in Requests, Wake(r)
      PROVE  WaitersAreBlocked'
  <2>1. waiters' = waiters /\ \A q \in Requests \ {r} : pc'[q] = pc[q]
    BY <1>1, <1>5 DEF Wake, poolVars
  <2> QED
    BY <1>5, <1>2, <2>1 DEF Wake
<1>6. ASSUME NEW r \in Requests, Enqueue(r)
      PROVE  WaitersAreBlocked'
  <2>1. /\ waiters' = Append(waiters, r) /\ pc'[r] = "blocked"
        /\ r \notin Range(waiters) /\ \A q \in Requests \ {r} : pc'[q] = pc[q]
    BY <1>1, <1>6, <1>3 DEF Enqueue
  <2>2. \A i \in DOMAIN waiters : waiters[i] # r
    BY <2>1 DEF Range
  <2> QED
    BY <1>1, <2>1, <2>2 DEF WaitersAreBlocked
<1>7. ASSUME NEW r \in Requests, GiveUp(r)
      PROVE  WaitersAreBlocked'
  <2>1. waiters' = Without(waiters, r) /\ \A q \in Requests \ {r} : pc'[q] = pc[q]
    BY <1>1, <1>7 DEF GiveUp, Return
  <2>2. /\ PartOf(waiters', waiters)
        /\ \A i \in DOMAIN waiters' : waiters'[i] # r
    BY <1>1, <2>1, WithoutPart DEF WaitersAreBlocked
  <2>3. \A i \in DOMAIN waiters' : waiters'[i] \in Requests
    BY DEF IInv, TypeOK, PoolTypeOK
  <2> QED
    BY <2>1, <2>2, <2>3, PartBlocked
<1>8. ASSUME NEW r \in Requests, Release(r)
      PROVE  WaitersAreBlocked'
  <2>1. pc[r] = "holding" /\ releaseSlot(held[r]) /\ \A q \in Requests \ {r} : pc'[q] = pc[q]
    BY <1>1, <1>8 DEF Release, Return
  <2>2. CASE waiters' = waiters
    BY <1>2, <1>3, <2>1, <2>2
  <2>3. CASE notifyWaiters
    BY <2>1, <2>3, NotifyBlocked
  <2> QED
    BY <2>1, <2>2, <2>3 DEF releaseSlot, poolVars
<1>9. ASSUME NEW r \in Requests, Ban(r)
      PROVE  WaitersAreBlocked'
  BY <1>9, NotifyBlocked DEF Ban, banAccount, clientVars
<1>10. ASSUME NEW m \in Admins, ApplyInstall(m)
       PROVE  WaitersAreBlocked'
  BY <1>10, NotifyBlocked DEF ApplyInstall, applyRuntimeLimits, clientVars
<1>11. ASSUME NEW m \in Admins, ResetInstall(m)
       PROVE  WaitersAreBlocked'
  BY <1>11 DEF ResetInstall, reset, WaitersAreBlocked
<1>12. ASSUME UNCHANGED <<waiters, pc>>
       PROVE  WaitersAreBlocked'
  BY <1>12, SameWaiters
<1>13. ASSUME NEW r \in Requests, CtxDone(r) PROVE UNCHANGED <<waiters, pc>>
  BY <1>13 DEF CtxDone, poolVars
<1>14. ASSUME NEW m \in Admins,
              \/ UpdateAccounts(m) \/ UpdateSettings(m)
              \/ ResetAccounts(m) \/ ResetPerAccount(m) \/ ResetLimits(m)
              \/ ApplyCount(m) \/ ApplySettings(m)
       PROVE  UNCHANGED <<waiters, pc>>
  BY <1>14 DEF UpdateAccounts, UpdateSettings, ResetAccounts, ResetPerAccount, ResetLimits,
               ApplyCount, ApplySettings, poolVars, clientVars
<1>15. ASSUME NEW id \in Ids, BanExpires(id), UNCHANGED <<clientVars, adminVars, exact>>
       PROVE  UNCHANGED <<waiters, pc>>
  BY <1>15 DEF BanExpires, clientVars
<1>16. CASE UNCHANGED vars
  BY <1>12, <1>16 DEF vars, poolVars, clientVars
<1> QED
  BY <1>4, <1>5, <1>6, <1>7, <1>8, <1>9, <1>10, <1>11, <1>12, <1>13, <1>14, <1>15, <1>16
  DEF Next, RequestStep, AdminStep

(***************************************************************************)
(* The waiter list holds blocked requests only, each once: no request that *)
(* has left AcquireWait can swallow a wake-up.                             *)
(***************************************************************************)
THEOREM WaitersCorrect == Spec => []WaitersAreBlocked
<1>1. Init => WaitersAreBlocked
  BY DEF Init, PoolInit, WaitersAreBlocked
<1>2. IInv /\ WaitersAreBlocked /\ [Next]_vars => IInv' /\ WaitersAreBlocked'
  BY NextIInv, WaitersStep
<1> QED
  BY <1>1, <1>2, InitIInv, PTL DEF Spec

-----------------------------------------------------------------------------
(***************************************************************************)
(* The queue and the store.  While one request at a time administers the   *)
(* accounts, what a Reset has read of them stays true until it installs    *)
(* the queue, and bumping an account loses none.                           *)
(***************************************************************************)
OneAdmin == \A m, n \in Admins : m = n

Queued ==
  /\ Lists(accounts, Range(accounts))
  /\ Lists(queue, Range(queue))
  /\ \A m \in Admins : admin[m].op \in {"listed", "limited", "install"}
                         => Lists(admin[m].ids, Range(accounts))
  /\ (\A m \in Admins : admin[m].op \in {"none", "apply", "counted", "limit"})
       => Range(queue) = Range(accounts)

LEMMA QueuedInit == Init => Queued
<1> SUFFICES ASSUME Init PROVE Queued
  OBVIOUS
<1>1. accounts = InitAccounts /\ queue = InitAccounts /\ \A m \in Admins : admin[m].op = "none"
  BY DEF Init, PoolInit, NoJob
<1>2. InitAccounts \in Seq(Range(InitAccounts))
  <2>1. /\ DOMAIN InitAccounts = 1..Len(InitAccounts) /\ Len(InitAccounts) \in Nat
        /\ InitAccounts \in [1..Len(InitAccounts) -> Range(InitAccounts)]
    BY AccountPoolAssumption DEF Range
  <2> QED
    BY <2>1, SeqDef
<1>3. Lists(InitAccounts, Range(InitAccounts))
  BY <1>2, AccountPoolAssumption DEF Lists, Range
<1> QED
  BY <1>1, <1>3 DEF Queued

\* A step of a request, which may bump an account.
LEMMA QueuedRequest ==
  ASSUME Queued, UNCHANGED <<accounts, admin>>,
         \/ queue' = queue
         \/ \E id \in Ids : takeSlot(id)
  PROVE  Queued'
<1>1. CASE queue' = queue
  BY <1>1 DEF Queued
<1>2. ASSUME NEW id \in Ids, takeSlot(id) PROVE Queued'
  <2>1. queue' = IF id \in Range(queue) THEN Append(Without(queue, id), id) ELSE queue
    BY <1>2 DEF takeSlot
  <2>2. Lists(queue', Range(queue))
    BY <2>1, ListsBumped DEF Queued
  <2>3. Range(queue') = Range(queue)
    BY <2>2, ListsRange
  <2> QED
    BY <2>2, <2>3 DEF Queued
<1> QED
  BY <1>1, <1>2

\* A step of the request that administers, which is the only one.
LEMMA QueuedAdmin ==
  ASSUME OneAdmin, IInv, Queued, NEW m \in Admins,
         UpdateAccounts(m) \/ UpdateSettings(m) \/ AdminStep(m)
  PROVE  Queued'
<1>1. /\ admin \in [Admins -> Job] /\ admin' = [admin EXCEPT ![m] = admin'[m]]
      /\ \A n \in Admins : n = m
  <2>1. admin \in [Admins -> Job]
    BY DEF IInv, TypeOK, AdminTypeOK
  <2> QED
    BY <2>1 DEF OneAdmin, UpdateAccounts, UpdateSettings, StartJob, AdminStep, ResetAccounts,
      ResetPerAccount, ResetLimits, ResetInstall, ApplyCount, ApplySettings, ApplyInstall
\* A step that touches neither list, to a stage that promises no more.
<1>2. ASSUME UNCHANGED <<accounts, queue>>,
             admin'[m].op \in {"none", "apply", "counted", "limit"}
               => admin[m].op \in {"none", "apply", "counted", "limit"},
             admin'[m].op \in {"listed", "limited", "install"}
               => Lists(admin'[m].ids, Range(accounts))
      PROVE  Queued'
  BY <1>1, <1>2 DEF Queued
<1>3. CASE UpdateAccounts(m)
  <2>1. Lists(accounts', Range(accounts'))
    <3>1. CASE \E id \in Ids \ Range(accounts) : accounts' = Append(accounts, id)
      <4>1. PICK id \in Ids \ Range(accounts) : accounts' = Append(accounts, id)
        BY <3>1
      <4>2. Lists(accounts', Range(accounts) \union {id})
        BY <4>1, ListsAppend DEF Queued
      <4> QED
        BY <4>2, ListsRange
    <3>2. CASE \E id \in Range(accounts) : accounts' = Without(accounts, id)
      <4>1. PICK id \in Range(accounts) : accounts' = Without(accounts, id)
        BY <3>2
      <4>2. Lists(accounts', Range(accounts) \ {id})
        BY <4>1, ListsWithout DEF Queued
      <4> QED
        BY <4>2, ListsRange
    <3>3. CASE UNCHANGED accounts
      BY <3>3 DEF Queued
    <3> QED
      BY <1>3, <3>1, <3>2, <3>3 DEF UpdateAccounts
  <2>2. queue' = queue /\ admin'[m] = ResetJob
    BY <1>1, <1>3 DEF UpdateAccounts, StartJob, slotVars
  <2> QED
    BY <1>1, <2>1, <2>2 DEF Queued, ResetJob
<1>4. CASE UpdateSettings(m)
  BY <1>1, <1>4, <1>2 DEF UpdateSettings, StartJob, slotVars, NoJob, ApplyJob
<1>5. CASE ResetAccounts(m)
  <2>1. PICK holders \in SUBSET Ids : \E ids \in tokenHoldersFirst(accounts, holders) :
          admin' = [admin EXCEPT ![m] = [op |-> "listed", ids |-> ids]]
    BY <1>5 DEF ResetAccounts
  <2>2. PICK ids \in tokenHoldersFirst(accounts, holders) :
          admin' = [admin EXCEPT ![m] = [op |-> "listed", ids |-> ids]]
    BY <2>1
  <2>3. Lists(ids, Range(accounts))
    BY <2>2, ListsOrdered DEF Queued
  <2>4. admin'[m].op = "listed" /\ admin'[m].ids = ids /\ UNCHANGED <<accounts, queue>>
    BY <1>1, <1>5, <2>2 DEF ResetAccounts, poolVars, storeVars, slotVars
  <2> QED
    BY <1>2, <2>3, <2>4
<1>6. CASE ResetPerAccount(m)
  <2>1. /\ admin[m].op = "listed" /\ UNCHANGED <<accounts, queue>>
        /\ admin'[m] = [admin[m] EXCEPT !.op = "limited"]
    BY <1>1, <1>6 DEF ResetPerAccount, storeVars, slotVars
  <2>2. admin[m] \in [op: {"listed", "limited"}, ids: Seq(Ids)]
    BY <1>1, <2>1 DEF Job, NoJob, ResetJob, ApplyJob
  <2>3. admin'[m].op = "limited" /\ admin'[m].ids = admin[m].ids
    BY <2>1, <2>2
  <2> QED
    BY <1>2, <2>1, <2>3 DEF Queued
<1>7. CASE ResetLimits(m)
  <2>1. /\ admin[m].op = "limited" /\ UNCHANGED <<accounts, queue>>
        /\ admin'[m].op = "install" /\ admin'[m].ids = admin[m].ids
    BY <1>1, <1>7 DEF ResetLimits, poolVars, storeVars, slotVars
  <2> QED
    BY <1>2, <2>1 DEF Queued
<1>8. CASE ResetInstall(m)
  <2>1. /\ Lists(admin[m].ids, Range(accounts))
        /\ queue' = rotateQueueAfter(admin[m].ids, lastPolled)
        /\ accounts' = accounts /\ admin'[m] = NoJob
    BY <1>1, <1>8 DEF ResetInstall, reset, storeVars, Queued
  <2>2. Lists(queue', Range(accounts))
    BY <2>1, ListsRotated
  <2>3. Range(queue') = Range(accounts)
    BY <2>2, ListsRange
  <2> QED
    BY <1>1, <2>1, <2>2, <2>3 DEF Queued, NoJob
<1>9. CASE ApplyCount(m)
  BY <1>1, <1>9, <1>2 DEF ApplyCount, poolVars, storeVars, slotVars, ApplyJob
<1>10. CASE ApplySettings(m)
  BY <1>1, <1>10, <1>2 DEF ApplySettings, poolVars, storeVars, slotVars
<1>11. CASE ApplyInstall(m)
  BY <1>1, <1>11, <1>2 DEF ApplyInstall, applyRuntimeLimits, storeVars, slotVars, NoJob
<1> QED
  BY <1>3, <1>4, <1>5, <1>6, <1>7, <1>8, <1>9, <1>10, <1>11 DEF AdminStep

\* What QueueFollowsStore rests on survives every step.
LEMMA QueuedStep ==
  ASSUME OneAdmin, IInv, Queued, [Next]_vars
  PROVE  Queued'
<1>1. ASSUME NEW r \in Requests,
             StartWait(r) \/ AcquireNow(r) \/ RequestStep(r) \/ Ban(r) \/ CtxDone(r)
      PROVE  Queued'
  <2>1. UNCHANGED <<accounts, admin>>
    BY <1>1 DEF StartWait, AcquireNow, RequestStep, Ban, CtxDone, CheckContext, Grant,
      Enqueue, Reject, Wake, GiveUp, Release, releaseSlot, banAccount, poolVars, storeVars, adminVars
  <2>2. CASE AcquireNow(r) \/ Grant(r)
    <3>1. \E id \in Ids : takeSlot(id)
      BY <2>2 DEF AcquireNow, Grant, acquire
    <3> QED
      BY <2>1, <3>1, QueuedRequest
  <2>3. CASE ~(AcquireNow(r) \/ Grant(r))
    <3>1. queue' = queue
      BY <1>1, <2>3 DEF StartWait, RequestStep, Ban, CtxDone, CheckContext, Enqueue, Reject,
        Wake, GiveUp, Release, releaseSlot, banAccount, poolVars, slotVars
    <3> QED
      BY <2>1, <3>1, QueuedRequest
  <2> QED
    BY <2>2, <2>3
<1>2. ASSUME NEW m \in Admins, UpdateAccounts(m) \/ UpdateSettings(m) \/ AdminStep(m)
      PROVE  Queued'
  BY <1>2, QueuedAdmin
<1>3. ASSUME NEW id \in Ids, BanExpires(id), UNCHANGED <<clientVars, adminVars, exact>>
      PROVE  Queued'
  BY <1>3, QueuedRequest DEF BanExpires, storeVars, slotVars, adminVars
<1>4. CASE UNCHANGED vars
  BY <1>4, QueuedRequest DEF vars, poolVars, storeVars, slotVars, adminVars
<1> QED
  BY <1>1, <1>2, <1>3, <1>4 DEF Next

(***************************************************************************)
(* Whenever nobody administers the accounts, the queue holds exactly the   *)
(* configured accounts, each once, if they are administered by one request *)
(* at a time: a second one may change them between a Reset's copy of the   *)
(* accounts and its lock.                                                  *)
(***************************************************************************)
THEOREM QueueCorrect ==
  ASSUME OneAdmin
  PROVE  Spec => []QueueFollowsStore
<1>1. IInv /\ Queued /\ [Next]_vars => IInv' /\ Queued'
  BY NextIInv, QueuedStep
<1>2. Queued => QueueFollowsStore
  <2> SUFFICES ASSUME Queued, \A m \in Admins : admin[m] = NoJob
               PROVE  Range(queue) = Range(accounts) /\ Len(queue) = Len(accounts)
    BY DEF QueueFollowsStore
  <2>1. Range(queue) = Range(accounts)
    BY DEF Queued, NoJob
  <2> QED
    BY <2>1, ListsLen DEF Queued
<1> QED
  BY <1>1, <1>2, InitIInv, QueuedInit, PTL DEF Spec

-----------------------------------------------------------------------------
(***************************************************************************)
(* Wake-ups.  A waiter that gives up takes its wake-up along, and the end  *)
(* of a ban wakes nobody; where neither happens, the accounts stay as they *)
(* are and every request may have any account, no wake-up is lost.         *)
(***************************************************************************)
Quiet ==
  /\ Cancellable = {} /\ Bannable = {} /\ MaxAdminOps = 0
  /\ Targets \subseteq {NoAccount} /\ Exclusions \subseteq {{}}

Undisturbed ==
  /\ cancelled = {} /\ banned = {} /\ \A m \in Admins : admin[m] = NoJob
  /\ \A r \in Requests : call[r] = NoCall
  /\ Lists(queue, Range(accounts))
  /\ \A id \in Ids : inUse[id] <= maxInflightPerAccount
  /\ \A id \in Ids : inUse[id] > 0 => id \in Range(queue)

LEMMA UndisturbedInit == Init => Undisturbed
<1> SUFFICES ASSUME Init PROVE Undisturbed
  OBVIOUS
<1>1. Queued /\ IInv
  BY QueuedInit, InitIInv
<1>2. Lists(queue, Range(accounts))
  BY <1>1 DEF Queued, Init, PoolInit
<1>3. \A id \in Ids : inUse[id] = 0 /\ 0 <= maxInflightPerAccount
  BY <1>1 DEF Init, PoolInit, IInv, TypeOK, PoolTypeOK
<1> QED
  BY <1>2, <1>3 DEF Init, PoolInit, Undisturbed

\* The steps that are left, for the pool and for the requests on their way.
Passes ==
  /\ UNCHANGED poolVars
  /\ OnTheirWay \subseteq OnTheirWay'

Served ==
  \E id \in Ids, r \in Requests :
    /\ takeSlot(id) /\ canAcquireID(id) /\ id \in Range(queue)
    /\ UNCHANGED <<storeVars, waiters, limitVars, banned>>
    /\ OnTheirWay \subseteq OnTheirWay' \union {r}

Stays ==
  \E r \in Requests :
    /\ Eligible(NoAccount, {}) = {}
    /\ waiters' \in {waiters, Append(waiters, r)}
    /\ UNCHANGED <<storeVars, slotVars, limitVars, banned>>

Returns ==
  \E id \in Ids :
    /\ inUse[id] > 0 /\ releaseSlot(id)
    /\ \A r \in Requests : \/ pc[r] = "holding" /\ r \notin OnTheirWay
                           \/ pc'[r] = pc[r]
    /\ \A i \in DOMAIN waiters : pc'[waiters[i]] = "blocked"

\* What each step does to the pool and to the requests on their way.
LEMMA QuietSteps ==
  ASSUME Quiet, IInv, Undisturbed, WaitersAreBlocked, [Next]_vars
  PROVE  /\ Passes \/ Served \/ Stays \/ Returns
         /\ UNCHANGED <<cancelled, admin, call>>
<1>1. /\ pc \in [Requests -> Stage] /\ held \in [Requests -> Ids \union {NoAccount}]
      /\ call \in [Requests -> Call] /\ adminOps \in Nat /\ waiters \in Seq(Requests)
      /\ \A r \in Requests : pc[r] = "holding" <=> held[r] # NoAccount
  BY DEF IInv, TypeOK, ClientTypeOK, AdminTypeOK, PoolTypeOK
<1>2. ASSUME NEW r \in Requests, NEW id, Return(r, id)
      PROVE  UNCHANGED <<cancelled, call>>
  BY <1>1, <1>2 DEF Undisturbed, Return
<1>3. ASSUME NEW r \in Requests, pc' = [pc EXCEPT ![r] = "trying"] \/ pc' = [pc EXCEPT ![r] = "checked"],
             waiters' = waiters
      PROVE  OnTheirWay \subseteq OnTheirWay'
  BY <1>1, <1>3 DEF OnTheirWay
<1>4. ASSUME NEW r \in Requests, StartWait(r)
      PROVE  Passes /\ UNCHANGED <<cancelled, admin, call>>
  <2>1. call' = call
    <3>1. call' = [call EXCEPT ![r] = [target |-> NoAccount, exclude |-> {}]]
      BY <1>4 DEF StartWait, Quiet
    <3> QED
      BY <1>1, <3>1 DEF Undisturbed, NoCall
  <2> QED
    BY <1>4, <1>3, <2>1 DEF StartWait, Passes, poolVars, adminVars
<1>5. ASSUME NEW r \in Requests, CheckContext(r) \/ Wake(r)
      PROVE  Passes /\ UNCHANGED <<cancelled, admin, call>>
  <2>1. pc' = [pc EXCEPT ![r] = "trying"] \/ pc' = [pc EXCEPT ![r] = "checked"]
    BY <1>5 DEF CheckContext, Wake, Undisturbed
  <2> QED
    BY <1>5, <1>3, <2>1 DEF CheckContext, Wake, Undisturbed, Passes, poolVars, adminVars
<1>6. ASSUME NEW r \in Requests, Grant(r) \/ AcquireNow(r)
      PROVE  Served /\ UNCHANGED <<cancelled, admin, call>>
  <2>1. PICK id \in Ids : acquire(NoAccount, {}, id) /\ Return(r, id)
    <3>1. CASE Grant(r)
      <4>1. call[r].target = NoAccount /\ call[r].exclude = {}
        BY DEF Undisturbed, NoCall
      <4> QED
        BY <3>1, <4>1 DEF Grant
    <3>2. CASE AcquireNow(r)
      <4>1. PICK e \in Exclusions, id \in Ids : acquire(NoAccount, e, id) /\ Return(r, id)
        BY <3>2 DEF AcquireNow
      <4>2. e = {}
        BY <4>1 DEF Quiet
      <4> QED
        BY <4>1, <4>2
    <3> QED
      BY <1>6, <3>1, <3>2
  <2>2. takeSlot(id) /\ canAcquireID(id) /\ id \in Range(queue)
    BY <2>1 DEF acquire, Preferred, Eligible
  <2>3. /\ UNCHANGED <<storeVars, waiters, limitVars, banned>>
        /\ admin' = admin
    BY <1>6 DEF Grant, AcquireNow, adminVars
  <2>4. \A q \in Requests \ {r} : pc'[q] = pc[q]
    BY <1>1, <2>1 DEF Return
  <2>5. OnTheirWay \subseteq OnTheirWay' \union {r}
    BY <2>3, <2>4 DEF OnTheirWay
  <2>6. Served
    BY <2>2, <2>3, <2>5 DEF Served
  <2>7. UNCHANGED <<cancelled, call>>
    BY <1>2, <2>1
  <2> QED
    BY <2>3, <2>6, <2>7
<1>7. ASSUME NEW r \in Requests, Enqueue(r) \/ Reject(r)
      PROVE  Stays /\ UNCHANGED <<cancelled, admin, call>>
  <2>1. Eligible(NoAccount, {}) = {}
    <3>1. call[r].target = NoAccount /\ call[r].exclude = {}
      BY DEF Undisturbed, NoCall
    <3> QED
      BY <1>7, <3>1 DEF Enqueue, Reject
  <2> QED
    BY <1>7, <1>2, <2>1
    DEF Enqueue, Reject, Stays, poolVars, storeVars, slotVars, limitVars, adminVars
<1>8. ASSUME NEW r \in Requests, Release(r)
      PROVE  (Returns \/ Passes) /\ UNCHANGED <<cancelled, admin, call>>
  <2>1. /\ pc[r] = "holding" /\ releaseSlot(held[r]) /\ held[r] \in Ids
        /\ \A q \in Requests \ {r} : pc'[q] = pc[q]
    BY <1>1, <1>8, PoolAssumption DEF Release, Return
  <2>2. r \notin OnTheirWay
    BY <2>1 DEF OnTheirWay
  <2>3. \A i \in DOMAIN waiters : pc'[waiters[i]] = "blocked"
    BY <1>1, <2>1 DEF WaitersAreBlocked
  <2>4. CASE inUse[held[r]] = 0
    <3>1. UNCHANGED poolVars
      BY <2>1, <2>4 DEF releaseSlot
    <3>2. waiters' = waiters
      BY <3>1 DEF poolVars
    <3>3. OnTheirWay \subseteq OnTheirWay'
      BY <2>1, <2>2, <3>2 DEF OnTheirWay
    <3> QED
      BY <1>8, <1>2, <3>1, <3>3 DEF Passes, Release, adminVars
  <2>5. CASE inUse[held[r]] # 0
    <3>1. inUse[held[r]] > 0
      BY <2>1, <2>5 DEF IInv, TypeOK, PoolTypeOK
    <3>2. Returns
      BY <2>1, <2>2, <2>3, <3>1 DEF Returns
    <3> QED
      BY <1>8, <1>2, <3>2 DEF Release, adminVars
  <2> QED
    BY <2>4, <2>5
<1>9. ASSUME NEW r \in Requests PROVE ~(GiveUp(r) \/ Ban(r) \/ CtxDone(r))
  BY DEF GiveUp, Ban, CtxDone, Quiet, Undisturbed
<1>10. ASSUME NEW m \in Admins PROVE ~(UpdateAccounts(m) \/ UpdateSettings(m) \/ AdminStep(m))
  BY <1>1 DEF UpdateAccounts, UpdateSettings, StartJob, AdminStep, ResetAccounts, ResetPerAccount,
    ResetLimits, ResetInstall, ApplyCount, ApplySettings, ApplyInstall, Quiet, Undisturbed,
    NoJob, ResetJob, ApplyJob
<1>11. ASSUME NEW id \in Ids PROVE ~BanExpires(id)
  BY DEF BanExpires, Undisturbed
<1>12. ASSUME UNCHANGED vars
       PROVE  Passes /\ UNCHANGED <<cancelled, admin, call>>
  <2>1. UNCHANGED <<poolVars, pc, waiters, cancelled, admin, call>>
    BY <1>12 DEF vars, clientVars, adminVars, poolVars
  <2> QED
    BY <2>1 DEF Passes, OnTheirWay
<1> QED
  BY <1>4, <1>5, <1>6, <1>7, <1>8, <1>9, <1>10, <1>11, <1>12 DEF Next, RequestStep

\* Quiet pools stay so: every account in the queue, none over its limit.
LEMMA UndisturbedStep ==
  ASSUME Quiet, IInv, Undisturbed, WaitersAreBlocked, [Next]_vars
  PROVE  Undisturbed'
<1>1. /\ inUse \in [Ids -> Nat] /\ maxInflightPerAccount \in Nat
      /\ UNCHANGED <<cancelled, admin, call>>
  BY QuietSteps DEF IInv, TypeOK, PoolTypeOK
<1>2. ASSUME UNCHANGED <<storeVars, slotVars, limitVars, banned>>
      PROVE  Undisturbed'
  BY <1>1, <1>2 DEF Undisturbed, storeVars, slotVars, limitVars
<1>3. CASE Passes \/ Stays
  BY <1>2, <1>3 DEF Passes, Stays, poolVars
<1>4. CASE Served
  <2>1. PICK id \in Ids : /\ takeSlot(id) /\ canAcquireID(id) /\ id \in Range(queue)
                          /\ UNCHANGED <<storeVars, waiters, limitVars, banned>>
    BY <1>4 DEF Served
  <2>2. Lists(queue', Range(accounts))
    BY <2>1, ListsBumped DEF takeSlot, Undisturbed
  <2>3. Range(queue') = Range(accounts) /\ Range(queue) = Range(accounts)
    BY <2>2, ListsRange DEF Undisturbed
  <2>4. inUse' = [inUse EXCEPT ![id] = @ + 1] /\ inUse[id] < maxInflightPerAccount
    BY <2>1 DEF takeSlot, canAcquireID
  <2>5. \A x \in Ids : /\ inUse'[x] <= maxInflightPerAccount
                       /\ inUse'[x] > 0 => x \in Range(queue')
    BY <1>1, <2>1, <2>3, <2>4 DEF Undisturbed
  <2> QED
    BY <1>1, <2>1, <2>2, <2>5 DEF Undisturbed, storeVars, limitVars
<1>5. CASE Returns
  <2>1. PICK id \in Ids : inUse[id] > 0 /\ releaseSlot(id)
    BY <1>5 DEF Returns
  <2>2. /\ inUse' = [inUse EXCEPT ![id] = @ - 1]
        /\ UNCHANGED <<accounts, queue, limitVars, banned>>
    BY <2>1, PoolAssumption DEF releaseSlot
  <2>3. \A x \in Ids : inUse'[x] <= inUse[x] /\ inUse'[x] \in Nat
    BY <1>1, <2>1, <2>2
  <2>4. \A x \in Ids : /\ inUse'[x] <= maxInflightPerAccount
                       /\ inUse'[x] > 0 => x \in Range(queue)
    BY <1>1, <2>3 DEF Undisturbed
  <2> QED
    BY <1>1, <2>2, <2>4 DEF Undisturbed, limitVars
<1> QED
  BY <1>3, <1>4, <1>5, QuietSteps

\* FreeSlots is the smaller of what the accounts and what the limit leave.
FreePlaces == {slot \in Ids \X (1..maxInflightPerAccount) :
                 slot[1] \in Range(queue) \ banned /\ slot[2] > inUse[slot[1]]}
FreeGlobal == IF globalMaxInflight > totalInUse THEN globalMaxInflight - totalInUse ELSE 0

FreeFacts ==
  /\ FreeSlots = IF Cardinality(FreePlaces) < FreeGlobal THEN Cardinality(FreePlaces) ELSE FreeGlobal
  /\ IsFiniteSet(FreePlaces) /\ Cardinality(FreePlaces) \in Nat
  /\ FreeGlobal \in Nat /\ FreeSlots \in Nat
  /\ IsFiniteSet(OnTheirWay) /\ Cardinality(OnTheirWay) \in Nat

\* The free slots, and the requests on their way, can be counted.
LEMMA FreeSlotsIs == IInv => FreeFacts
<1> SUFFICES ASSUME IInv PROVE FreeFacts
  OBVIOUS
<1>1. /\ maxInflightPerAccount \in Nat /\ globalMaxInflight \in Nat /\ totalInUse \in Nat
  BY DEF IInv, TypeOK, PoolTypeOK
<1>2. IsFiniteSet(Ids \X (1..maxInflightPerAccount))
  <2>1. IsFiniteSet(1..maxInflightPerAccount)
    BY <1>1, FS_Interval
  <2> QED
    BY <2>1, PoolAssumption, FS_Product
<1>3. /\ FreePlaces \subseteq Ids \X (1..maxInflightPerAccount)
      /\ OnTheirWay \subseteq Requests
  BY DEF FreePlaces, OnTheirWay
<1>4. /\ IsFiniteSet(FreePlaces) /\ Cardinality(FreePlaces) \in Nat
      /\ IsFiniteSet(OnTheirWay) /\ Cardinality(OnTheirWay) \in Nat
  BY <1>2, <1>3, PoolAssumption, FS_Subset, FS_CardinalityType
<1>5. FreeGlobal \in Nat
  BY <1>1 DEF FreeGlobal
<1>6. FreeSlots = IF Cardinality(FreePlaces) < FreeGlobal THEN Cardinality(FreePlaces) ELSE FreeGlobal
  BY DEF FreeSlots, FreePlaces, FreeGlobal
<1> QED
  BY <1>4, <1>5, <1>6 DEF FreeFacts

LEMMA FreeSlotsPrimed == IInv' => FreeFacts'
  BY FreeSlotsIs, PTL

\* No slot is free when no account can be acquired.
LEMMA NothingFree ==
  ASSUME IInv, Undisturbed, Eligible(NoAccount, {}) = {}
  PROVE  FreeSlots = 0
<1>1. /\ inUse \in [Ids -> Nat] /\ maxInflightPerAccount \in Nat
      /\ globalMaxInflight \in Nat /\ totalInUse \in Nat
  BY DEF IInv, TypeOK, PoolTypeOK
<1>2. Range(queue) = Range(accounts)
  BY ListsRange DEF Undisturbed
<1>3. \A id \in Range(queue) : ~canAcquireID(id)
  BY <1>2 DEF Eligible, Undisturbed
<1>4. CASE globalMaxInflight > 0 /\ totalInUse >= globalMaxInflight
  <2>1. FreeGlobal = 0
    BY <1>1, <1>4 DEF FreeGlobal
  <2> QED
    BY <2>1, FreeSlotsIs, FreeSlotsPrimed DEF FreeFacts
<1>5. CASE globalMaxInflight = 0
  <2>1. FreeGlobal = 0
    BY <1>1, <1>5 DEF FreeGlobal
  <2> QED
    BY <2>1, FreeSlotsIs, FreeSlotsPrimed DEF FreeFacts
<1>6. CASE globalMaxInflight > 0 /\ totalInUse < globalMaxInflight
  <2>1. \A id \in Range(queue) : ~(inUse[id] < maxInflightPerAccount)
    BY <1>3, <1>6 DEF canAcquireID
  <2>2. FreePlaces = {}
    BY <1>1, <2>1 DEF FreePlaces
  <2>3. Cardinality(FreePlaces) = 0
    BY <2>2, FS_EmptySet
  <2> QED
    BY <2>3, FreeSlotsIs, FreeSlotsPrimed DEF FreeFacts
<1> QED
  BY <1>1, <1>4, <1>5, <1>6

\* A grant uses up a free slot.
LEMMA FreeAfterTake ==
  ASSUME IInv, IInv', Undisturbed, NEW id \in Ids, takeSlot(id), canAcquireID(id),
         id \in Range(queue), Range(queue') = Range(queue), UNCHANGED <<limitVars, banned>>
  PROVE  FreeSlots' = 0 \/ FreeSlots' = FreeSlots - 1
<1>1. /\ inUse \in [Ids -> Nat] /\ maxInflightPerAccount \in Nat
      /\ globalMaxInflight \in Nat /\ totalInUse \in Nat
      /\ inUse' = [inUse EXCEPT ![id] = @ + 1] /\ totalInUse' = totalInUse + 1
      /\ inUse[id] < maxInflightPerAccount
      /\ UNCHANGED <<maxInflightPerAccount, globalMaxInflight, banned>>
  BY DEF IInv, TypeOK, PoolTypeOK, takeSlot, canAcquireID, limitVars
<1>2. FreePlaces' = FreePlaces \ {<<id, inUse[id] + 1>>}
  BY <1>1 DEF FreePlaces
<1>3. <<id, inUse[id] + 1>> \in FreePlaces
  BY <1>1 DEF FreePlaces, Undisturbed
<1>4. Cardinality(FreePlaces') = Cardinality(FreePlaces) - 1
  BY <1>2, <1>3, FreeSlotsIs, FS_RemoveElement DEF FreeFacts
<1>5. FreeGlobal' = FreeGlobal - 1 \/ (globalMaxInflight = 0 /\ FreeGlobal' = 0)
  BY <1>1 DEF FreeGlobal, canAcquireID
<1>6. /\ FreeSlots = IF Cardinality(FreePlaces) < FreeGlobal THEN Cardinality(FreePlaces) ELSE FreeGlobal
      /\ FreeSlots' = IF Cardinality(FreePlaces') < FreeGlobal' THEN Cardinality(FreePlaces') ELSE FreeGlobal'
      /\ Cardinality(FreePlaces) \in Nat /\ FreeGlobal \in Nat
      /\ Cardinality(FreePlaces') \in Nat /\ FreeGlobal' \in Nat
  BY FreeSlotsIs, FreeSlotsPrimed DEF FreeFacts
<1> QED
  BY <1>4, <1>5, <1>6

\* A release frees at most one.
LEMMA FreeAfterRelease ==
  ASSUME IInv, IInv', Undisturbed, NEW id \in Ids, inUse[id] > 0,
         inUse' = [inUse EXCEPT ![id] = @ - 1], totalInUse' = totalInUse - 1,
         UNCHANGED <<queue, limitVars, banned>>
  PROVE  FreeSlots' <= FreeSlots + 1
<1>1. /\ inUse \in [Ids -> Nat] /\ maxInflightPerAccount \in Nat
      /\ globalMaxInflight \in Nat /\ totalInUse \in Nat /\ totalInUse' \in Nat
      /\ inUse[id] <= maxInflightPerAccount /\ id \in Range(queue) /\ banned = {}
      /\ UNCHANGED <<maxInflightPerAccount, globalMaxInflight>>
  BY DEF IInv, TypeOK, PoolTypeOK, Undisturbed, limitVars
<1>2. FreePlaces' = FreePlaces \union {<<id, inUse[id]>>}
  BY <1>1 DEF FreePlaces
<1>3. <<id, inUse[id]>> \notin FreePlaces
  BY <1>1 DEF FreePlaces
<1>4. Cardinality(FreePlaces') = Cardinality(FreePlaces) + 1
  BY <1>2, <1>3, FreeSlotsIs, FS_AddElement DEF FreeFacts
<1>5. FreeGlobal' <= FreeGlobal + 1
  BY <1>1 DEF FreeGlobal
<1>6. /\ FreeSlots = IF Cardinality(FreePlaces) < FreeGlobal THEN Cardinality(FreePlaces) ELSE FreeGlobal
      /\ FreeSlots' = IF Cardinality(FreePlaces') < FreeGlobal' THEN Cardinality(FreePlaces') ELSE FreeGlobal'
      /\ Cardinality(FreePlaces) \in Nat /\ FreeGlobal \in Nat
      /\ Cardinality(FreePlaces') \in Nat /\ FreeGlobal' \in Nat
  BY FreeSlotsIs, FreeSlotsPrimed DEF FreeFacts
<1> QED
  BY <1>4, <1>5, <1>6

\* While an account of the queue has a slot, not all slots are in use.
SlotsRemain ==
  \A id \in Ids : id \in Range(queue) /\ inUse[id] < maxInflightPerAccount
                 => totalInUse < Len(queue) * maxInflightPerAccount

LEMMA SlotsLeft == IInv /\ Undisturbed => SlotsRemain
<1> SUFFICES ASSUME IInv, Undisturbed, NEW id \in Ids, id \in Range(queue),
                    inUse[id] < maxInflightPerAccount
             PROVE  totalInUse < Len(queue) * maxInflightPerAccount
  BY DEF SlotsRemain
<1>1. inUse \in [Ids -> Nat] /\ maxInflightPerAccount \in Nat \ {0} /\ totalInUse = Cardinality(Slots)
  BY DEF IInv, TypeOK, PoolTypeOK, SlotInv, TotalIsSum
<1> DEFINE all == Range(queue) \X (1..maxInflightPerAccount)
<1>2. IsFiniteSet(Range(queue)) /\ Cardinality(Range(queue)) = Len(queue)
  BY ListsRange, ListsCardinality DEF Undisturbed
<1>3. IsFiniteSet(1..maxInflightPerAccount) /\ Cardinality(1..maxInflightPerAccount) = maxInflightPerAccount
  <2>1. \A n \in Nat : IsFiniteSet(1..n) /\ Cardinality(1..n) = n
    BY FS_Interval
  <2> QED
    BY <1>1, <2>1
<1>4. IsFiniteSet(all) /\ Cardinality(all) = Len(queue) * maxInflightPerAccount
  BY <1>2, <1>3, FS_Product
<1>5. Slots \subseteq all
  <2> SUFFICES ASSUME NEW slot \in Slots PROVE slot \in all
    OBVIOUS
  <2>1. slot \in Ids \X Nat /\ 1 <= slot[2] /\ slot[2] <= inUse[slot[1]]
    BY <1>1, SlotMembership
  <2>2. slot[1] \in Range(queue) /\ slot[2] <= maxInflightPerAccount
    BY <1>1, <2>1 DEF Undisturbed
  <2> QED
    BY <1>1, <2>1, <2>2
<1>6. <<id, inUse[id] + 1>> \in all
  BY <1>1
<1>7. <<id, inUse[id] + 1>> \notin Slots
  BY <1>1, SlotMembership
<1> HIDE DEF all
<1>8. Cardinality(Slots) <= Cardinality(all) /\ Cardinality(Slots) # Cardinality(all)
  BY <1>4, <1>5, <1>6, <1>7, FS_Subset
<1>9. Cardinality(Slots) \in Nat /\ Cardinality(all) \in Nat
  BY <1>4, <1>5, FS_Subset, FS_CardinalityType
<1> QED
  BY <1>1, <1>4, <1>8, <1>9

LEMMA SlotsLeftPrimed == IInv' /\ Undisturbed' => SlotsRemain'
  BY SlotsLeft, PTL

\* An element more is at most one more to count.
LEMMA OneMore ==
  ASSUME NEW S, IsFiniteSet(S), Cardinality(S) \in Nat, NEW x
  PROVE  /\ IsFiniteSet(S \union {x})
         /\ Cardinality(S \union {x}) <= Cardinality(S) + 1
<1>1. CASE x \in S
  <2> DEFINE T == S \union {x}
  <2>1. T = S
    BY <1>1
  <2> HIDE DEF T
  <2>2. IsFiniteSet(T) /\ Cardinality(T) <= Cardinality(S) + 1
    BY <2>1
  <2> QED
    BY <2>2 DEF T
<1>2. CASE x \notin S
  BY <1>2, FS_AddElement
<1> QED
  BY <1>1, <1>2

\* A release wakes somebody if anybody waits and a slot is free after it.
LEMMA ReturnWakes ==
  ASSUME IInv, IInv', Undisturbed, Undisturbed', WaitersAreBlocked, Returns, waiters' # <<>>
  PROVE  FreeSlots' = 0 \/ Cardinality(OnTheirWay') >= Cardinality(OnTheirWay) + 1
<1>1. PICK id \in Ids :
        /\ inUse[id] > 0 /\ releaseSlot(id)
        /\ \A r \in Requests : \/ pc[r] = "holding" /\ r \notin OnTheirWay
                               \/ pc'[r] = pc[r]
        /\ \A i \in DOMAIN waiters : pc'[waiters[i]] = "blocked"
  BY DEF Returns
<1>2. /\ inUse' = [inUse EXCEPT ![id] = @ - 1]
      /\ UNCHANGED <<accounts, queue, limitVars, banned>>
      /\ notifyWaiters
  BY <1>1, PoolAssumption DEF releaseSlot
<1>3. /\ inUse \in [Ids -> Nat] /\ maxInflightPerAccount \in Nat \ {0}
      /\ globalMaxInflight \in Nat /\ totalInUse' \in Nat
      /\ waiters \in Seq(Requests) /\ waiters' \in Seq(Requests)
      /\ UNCHANGED <<maxInflightPerAccount, globalMaxInflight, queue>>
      /\ banned = {} /\ banned' = {} /\ queue \in Seq(Ids)
  BY <1>2 DEF IInv, TypeOK, PoolTypeOK, Undisturbed, limitVars
<1>4. id \in Range(queue) /\ inUse'[id] < maxInflightPerAccount
  BY <1>1, <1>2, <1>3 DEF Undisturbed
<1>5. availableCapacity' \in Nat
  BY CapacityPrimed DEF IInv, TypeOK, PoolTypeOK, CapacityTypes
<1>6. CASE availableCapacity' = 0
  <2>1. openPlaces' # {}
    BY <1>3, <1>4 DEF openPlaces, Range
  <2>2. Cardinality(openPlaces') \in Nat \ {0}
    <3>1. IsFiniteSet(DOMAIN queue')
      BY <1>3, FS_Interval
    <3>2. IsFiniteSet(openPlaces')
      BY <3>1, FS_Subset DEF openPlaces
    <3> QED
      BY <2>1, <3>2, FS_CardinalityType, FS_EmptySet
  <2> DEFINE slots == Len(queue') * maxInflightPerAccount'
  <2>3. totalInUse' < slots
    BY <1>3, <1>4, SlotsLeftPrimed DEF SlotsRemain
  <2>4. slots \in Nat
    BY <1>3
  <2>5. LET cap   == IF globalMaxInflight' > 0 /\ globalMaxInflight' < slots
                     THEN globalMaxInflight' ELSE slots
            spare == IF cap > totalInUse' THEN cap - totalInUse' ELSE 0
        IN  (IF spare > Cardinality(openPlaces') THEN Cardinality(openPlaces') ELSE spare) = 0
    BY <1>6 DEF availableCapacity
  <2> HIDE DEF slots
  <2>6. ~(globalMaxInflight' > totalInUse')
    <3> DEFINE open   == Cardinality(openPlaces')
               used   == totalInUse'
               global == globalMaxInflight'
               cap    == IF global > 0 /\ global < slots THEN global ELSE slots
               spare  == IF cap > used THEN cap - used ELSE 0
    <3>1. (IF spare > open THEN open ELSE spare) = 0
      BY <2>5
    <3>2. open \in Nat \ {0} /\ used \in Nat /\ global \in Nat /\ used < slots
      BY <1>3, <2>2, <2>3
    <3> HIDE DEF open, used, global
    <3>3. ~(global > used)
      BY <2>4, <3>1, <3>2
    <3> QED
      BY <3>3 DEF used, global
  <2>7. FreeGlobal' = 0
    BY <2>6 DEF FreeGlobal
  <2> QED
    BY <2>7, FreeSlotsPrimed DEF FreeFacts
<1>7. CASE availableCapacity' # 0
  <2> DEFINE n == IF availableCapacity' > Len(waiters) THEN Len(waiters) ELSE availableCapacity'
  <2>1. waiters' = SubSeq(waiters, n + 1, Len(waiters)) /\ n \in 0..Len(waiters)
    BY <1>2, <1>3, <1>5 DEF notifyWaiters
  <2>2. n > 0 /\ Len(waiters) > 0 /\ n \in Nat /\ n <= Len(waiters)
    BY <1>3, <1>5, <1>7, <2>1
  <2> HIDE DEF n
  <2>3. /\ Len(waiters') = Len(waiters) - n
        /\ \A i \in 1..(Len(waiters) - n) : waiters'[i] = waiters[i + n]
        /\ DOMAIN waiters' = 1..Len(waiters') /\ DOMAIN waiters = 1..Len(waiters)
        /\ Len(waiters) \in Nat
    BY <1>3, <2>1
  <2> DEFINE first == waiters[1]
  <2>4. first \in Requests /\ first \in Range(waiters) /\ pc[first] = "blocked" /\ pc'[first] = "blocked"
    <3>1. 1 \in DOMAIN waiters
      BY <2>2, <2>3
    <3>2. first \in Requests /\ first \in Range(waiters)
      BY <1>3, <3>1 DEF Range
    <3> QED
      BY <1>1, <3>1, <3>2 DEF WaitersAreBlocked
  <2>5. \A i \in DOMAIN waiters' :
          i \in Nat /\ i > 0 /\ i + n \in DOMAIN waiters /\ waiters'[i] = waiters[i + n]
    <3> SUFFICES ASSUME NEW i \in DOMAIN waiters'
                 PROVE  i \in Nat /\ i > 0 /\ i + n \in DOMAIN waiters /\ waiters'[i] = waiters[i + n]
      OBVIOUS
    <3>1. i \in 1..(Len(waiters) - n)
      BY <2>3
    <3>2. i \in Nat /\ i > 0 /\ i + n \in 1..Len(waiters)
      BY <2>2, <2>3, <3>1
    <3>3. waiters'[i] = waiters[i + n]
      BY <2>3, <3>1
    <3> QED
      BY <2>3, <3>2, <3>3
  <2> HIDE DEF first
  <2>6. first \notin Range(waiters')
    <3> SUFFICES ASSUME first \in Range(waiters') PROVE FALSE
      OBVIOUS
    <3>1. PICK i \in DOMAIN waiters' : waiters'[i] = first
      BY DEF Range
    <3>2. i \in Nat /\ i > 0 /\ i + n \in DOMAIN waiters /\ waiters[i + n] = waiters[1]
      BY <2>5, <3>1 DEF first
    <3>3. 1 \in DOMAIN waiters
      BY <2>2, <2>3
    <3>4. i + n = 1
      BY <3>2, <3>3 DEF WaitersAreBlocked
    <3> QED
      BY <2>1, <2>2, <3>2, <3>4
  <2>7. Range(waiters') \subseteq Range(waiters)
    BY <2>5 DEF Range
  <2>8. first \notin OnTheirWay /\ first \in OnTheirWay'
    BY <2>4, <2>6 DEF OnTheirWay
  <2>9. OnTheirWay \subseteq OnTheirWay'
    BY <1>1, <2>7 DEF OnTheirWay
  <2>10. Cardinality(OnTheirWay \union {first}) = Cardinality(OnTheirWay) + 1
    BY <2>8, FreeSlotsIs, FS_AddElement DEF FreeFacts
  <2>11. Cardinality(OnTheirWay \union {first}) <= Cardinality(OnTheirWay')
    BY <2>8, <2>9, FreeSlotsPrimed, FS_Subset DEF FreeFacts
  <2> QED
    BY <2>10, <2>11, FreeSlotsIs, FreeSlotsPrimed DEF FreeFacts
<1> QED
  BY <1>6, <1>7

\* Whatever a step takes away from the one side it takes from the other.
LEMMA WakeStep ==
  ASSUME Quiet, IInv, IInv', Undisturbed, Undisturbed', WaitersAreBlocked, NoLostWakeup,
         [Next]_vars
  PROVE  NoLostWakeup'
<1> SUFFICES ASSUME waiters' # <<>> PROVE FreeSlots' <= Cardinality(OnTheirWay')
  BY DEF NoLostWakeup
<1>1. /\ FreeSlots \in Nat /\ FreeSlots' \in Nat
      /\ Cardinality(OnTheirWay) \in Nat /\ Cardinality(OnTheirWay') \in Nat
      /\ IsFiniteSet(OnTheirWay) /\ IsFiniteSet(OnTheirWay')
  BY FreeSlotsIs, FreeSlotsPrimed DEF FreeFacts
<1>2. CASE Passes
  <2>1. waiters # <<>> /\ FreeSlots' = FreeSlots
    BY <1>2 DEF Passes, poolVars, slotVars, limitVars, FreeSlots
  <2>2. Cardinality(OnTheirWay) <= Cardinality(OnTheirWay')
    BY <1>2, <1>1, FS_Subset DEF Passes
  <2> QED
    BY <1>1, <2>1, <2>2 DEF NoLostWakeup
<1>3. CASE Served
  <2>1. PICK id \in Ids, r \in Requests :
          /\ takeSlot(id) /\ canAcquireID(id) /\ id \in Range(queue)
          /\ UNCHANGED <<storeVars, waiters, limitVars, banned>>
          /\ OnTheirWay \subseteq OnTheirWay' \union {r}
    BY <1>3 DEF Served
  <2>2. Range(queue') = Range(queue)
    <3>1. Lists(queue', Range(accounts))
      BY <2>1, ListsBumped DEF takeSlot, Undisturbed
    <3> QED
      BY <3>1, ListsRange DEF Undisturbed
  <2>3. FreeSlots' = 0 \/ FreeSlots' = FreeSlots - 1
    BY <2>1, <2>2, FreeAfterTake
  <2>4. /\ IsFiniteSet(OnTheirWay' \union {r})
        /\ Cardinality(OnTheirWay' \union {r}) <= Cardinality(OnTheirWay') + 1
    BY <1>1, OneMore
  <2>5. Cardinality(OnTheirWay) <= Cardinality(OnTheirWay' \union {r})
    BY <2>1, <2>4, FS_Subset
  <2>6. Cardinality(OnTheirWay' \union {r}) \in Nat
    BY <2>4, FS_CardinalityType
  <2>7. Cardinality(OnTheirWay) <= Cardinality(OnTheirWay') + 1
    BY <1>1, <2>4, <2>5, <2>6
  <2>8. waiters # <<>>
    BY <2>1
  <2> QED
    BY <1>1, <2>3, <2>7, <2>8 DEF NoLostWakeup
<1>4. CASE Stays
  <2>1. FreeSlots = 0
    BY <1>4, NothingFree DEF Stays
  <2>2. FreeSlots' = FreeSlots
    BY <1>4 DEF Stays, slotVars, limitVars, FreeSlots
  <2> QED
    BY <1>1, <2>1, <2>2
<1>5. CASE Returns
  <2>1. PICK id \in Ids : inUse[id] > 0 /\ releaseSlot(id)
    BY <1>5 DEF Returns
  <2>2. /\ inUse' = [inUse EXCEPT ![id] = @ - 1] /\ totalInUse' = totalInUse - 1
        /\ UNCHANGED <<queue, limitVars, banned>>
        /\ notifyWaiters
    BY <2>1, PoolAssumption DEF releaseSlot
  <2>3. FreeSlots' <= FreeSlots + 1
    BY <2>1, <2>2, FreeAfterRelease
  <2>4. waiters # <<>>
    <3> SUFFICES ASSUME waiters = <<>> PROVE FALSE
      OBVIOUS
    <3>1. PICK n \in 0..Len(waiters) : waiters' = SubSeq(waiters, n + 1, Len(waiters))
      BY <2>2, CapacityPrimed, NotifyType DEF IInv, TypeOK, PoolTypeOK, CapacityTypes
    <3> QED
      BY <3>1
  <2>5. FreeSlots <= Cardinality(OnTheirWay)
    BY <2>4 DEF NoLostWakeup
  <2>6. FreeSlots' = 0 \/ Cardinality(OnTheirWay') >= Cardinality(OnTheirWay) + 1
    BY <1>5, ReturnWakes
  <2> QED
    BY <1>1, <2>3, <2>5, <2>6
<1> QED
  BY <1>2, <1>3, <1>4, <1>5, QuietSteps

(***************************************************************************)
(* No wake-up is lost, for any number of accounts, requests and slots,     *)
(* unless a waiter gives up, a ban ends, the accounts or limits change, or *)
(* a request wants a particular account: whoever leaves a slot wakes one   *)
(* that waits, and whoever stays away finds another on its way.            *)
(***************************************************************************)
THEOREM WakeupsCorrect ==
  ASSUME Quiet
  PROVE  Spec => []NoLostWakeup
<1> DEFINE Inv == IInv /\ WaitersAreBlocked /\ Undisturbed /\ NoLostWakeup
<1>1. Init => Inv
  <2>1. Init => WaitersAreBlocked /\ NoLostWakeup
    BY DEF Init, PoolInit, WaitersAreBlocked, NoLostWakeup
  <2> QED
    BY <2>1, InitIInv, UndisturbedInit
<1>2. Inv /\ [Next]_vars => Inv'
  BY NextIInv, WaitersStep, UndisturbedStep, WakeStep
<1> QED
  BY <1>1, <1>2, PTL DEF Spec
=============================================================================
