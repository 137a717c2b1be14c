------------------------------- MODULE Pool -------------------------------
(***************************************************************************)
(* The account pool of internal/account: the state that Pool.mu guards and *)
(* one operator per critical section.  The goroutines that call the pool   *)
(* are modelled by the modules that extend this one.                       *)
(*                                                                         *)
(* An account is one member of Ids: the identifier under which             *)
(* Store.FindAccount finds it.  A waiter channel is named by the request   *)
(* that blocks on it, which has at most one; closing the channel is        *)
(* removing the request from waiters.  A ban is in force (id \in banned)   *)
(* or not: an expired entry that isBannedLocked or bannedCleanupLoop has   *)
(* yet to delete is never told apart from an absent one.                   *)
(***************************************************************************)
EXTENDS Naturals, Sequences, FiniteSets, SequencesExt

CONSTANTS
  Ids,        \* account identifiers
  Requests,   \* requests that may hold or wait for an account
  NoAccount,  \* the empty account identifier
  Settings    \* the runtime settings an administrator may store

ASSUME PoolAssumption ==
  /\ IsFiniteSet(Ids)
  /\ IsFiniteSet(Requests)
  /\ NoAccount \notin Ids
  \* account_max_inflight is positive; 0 for the others selects the default
  /\ Settings \subseteq [perAccount: Nat \ {0}, queue: Nat, global: Nat]

VARIABLES
  accounts,       \* Store.cfg.Accounts, in configuration order
  settings,       \* Store.cfg.Runtime
  lastPolled,     \* Store.cfg.LastPolledAccountID
  queue,          \* scheduling order
  inUse,          \* slots taken, per account (an absent key counts 0)
  totalInUse,
  waiters,        \* blocked requests, oldest first
  maxInflightPerAccount,
  maxQueueSize,
  globalMaxInflight,
  banned

storeVars == <<accounts, settings, lastPolled>>
limitVars == <<maxInflightPerAccount, maxQueueSize, globalMaxInflight>>
slotVars  == <<queue, inUse, totalInUse>>
poolVars  == <<storeVars, slotVars, waiters, limitVars, banned>>

PoolTypeOK ==
  /\ accounts \in Seq(Ids)
  /\ settings \in Settings
  /\ lastPolled \in Ids \union {NoAccount}
  /\ queue \in Seq(Ids)
  /\ inUse \in [Ids -> Nat]
  /\ totalInUse \in Nat
  /\ waiters \in Seq(Requests)
  /\ maxInflightPerAccount \in Nat \ {0}
  /\ maxQueueSize \in Nat
  /\ globalMaxInflight \in Nat
  /\ banned \subseteq Ids

-----------------------------------------------------------------------------
(***************************************************************************)
(* Reading the pool.                                                       *)
(***************************************************************************)

\* The position of x in s (queue and waiters hold an element at most once).
Position(s, x) == CHOOSE i \in DOMAIN s : s[i] = x

Without(s, x) ==
  IF x \in Range(s) THEN RemoveAt(s, Position(s, x)) ELSE s

canAcquireID(id) ==
  /\ inUse[id] < maxInflightPerAccount
  /\ globalMaxInflight > 0 => totalInUse < globalMaxInflight

\* Accounts that a request with this target and these exclusions may be given.
Eligible(target, exclude) ==
  {id \in (IF target = NoAccount THEN Range(queue) ELSE {target}) :
     /\ id \notin exclude
     /\ canAcquireID(id)
     /\ id \notin banned
     /\ id \in Range(accounts)}

\* tryAcquire: the least used account, the first in the queue among equals.
Preferred(S) ==
  {id \in S : \A other \in S \ {id} :
     \/ inUse[id] < inUse[other]
     \/ inUse[id] = inUse[other] /\ Position(queue, id) < Position(queue, other)}

canQueue(target, exclude) ==
  /\ target # NoAccount => target \notin exclude /\ target \in Range(accounts)
  /\ Len(waiters) < maxQueueSize

\* The places of the queue whose account is neither full nor banned.
openPlaces ==
  {i \in DOMAIN queue :
     inUse[queue[i]] < maxInflightPerAccount /\ queue[i] \notin banned}

availableCapacity ==
  LET slots == Len(queue) * maxInflightPerAccount
      cap   == IF globalMaxInflight > 0 /\ globalMaxInflight < slots
               THEN globalMaxInflight ELSE slots
      open  == Cardinality(openPlaces)
      spare == IF cap > totalInUse THEN cap - totalInUse ELSE 0
  IN  IF spare > open THEN open ELSE spare

-----------------------------------------------------------------------------
(***************************************************************************)
(* Changing the pool.  Each operator constrains the primed variables it    *)
(* names; its caller states what else the critical section leaves alone.   *)
(***************************************************************************)

\* acquireLocked's success branch: the account moves to the back of the queue.
takeSlot(id) ==
  /\ inUse' = [inUse EXCEPT ![id] = @ + 1]
  /\ totalInUse' = totalInUse + 1
  /\ queue' = IF id \in Range(queue) THEN Append(Without(queue, id), id) ELSE queue

\* acquireLocked gives id to the caller; with a target there is no choice.
acquire(target, exclude, id) ==
  LET S == Eligible(target, exclude)
  IN  /\ id \in IF target = NoAccount THEN Preferred(S) ELSE S
      /\ takeSlot(id)

\* Mutant: the capacity is computed before the slot is given back.
notifyWaiters_Before ==
  LET woken == IF availableCapacity > Len(waiters) THEN Len(waiters)
               ELSE availableCapacity
  IN  waiters' = SubSeq(waiters, woken + 1, Len(waiters))

\* The oldest waiters are woken, as many as there is capacity after the change.
notifyWaiters ==
  LET woken == IF availableCapacity' > Len(waiters) THEN Len(waiters)
               ELSE availableCapacity'
  IN  waiters' = SubSeq(waiters, woken + 1, Len(waiters))

\* Mutant: nobody is woken.
releaseSlot_Silent(id) ==
  IF id = NoAccount \/ inUse[id] = 0
  THEN UNCHANGED poolVars
  ELSE /\ inUse' = [inUse EXCEPT ![id] = @ - 1]
       /\ totalInUse' = totalInUse - 1
       /\ lastPolled' = IF inUse[id] = 1 THEN id ELSE lastPolled
       /\ UNCHANGED <<accounts, settings, queue, waiters, limitVars, banned>>

releaseSlot(id) ==
  IF id = NoAccount \/ inUse[id] = 0
  THEN UNCHANGED poolVars
  ELSE /\ inUse' = [inUse EXCEPT ![id] = @ - 1]
       /\ totalInUse' = totalInUse - 1
       /\ lastPolled' = IF inUse[id] = 1 THEN id ELSE lastPolled
       /\ UNCHANGED <<accounts, settings, queue, limitVars, banned>>
       /\ notifyWaiters

banAccount(id) ==
  /\ banned' = banned \union {id}
  /\ UNCHANGED <<storeVars, slotVars, limitVars>>
  /\ notifyWaiters

\* Time passes a ban's end.  Nothing wakes the waiters.
BanExpires(id) ==
  /\ id \in banned
  /\ banned' = banned \ {id}
  /\ UNCHANGED <<storeVars, slotVars, waiters, limitVars>>

-----------------------------------------------------------------------------
(***************************************************************************)
(* Limits and Reset.                                                       *)
(***************************************************************************)

orDefault(n, default) == IF n > 0 THEN n ELSE default

recommendedConcurrency(count, perAccount) == count * perAccount

applyRuntimeLimits(perAccount, queueSize, global) ==
  /\ maxInflightPerAccount' = perAccount
  /\ maxQueueSize' = queueSize
  /\ globalMaxInflight' = global
  /\ UNCHANGED <<storeVars, slotVars, banned>>
  /\ notifyWaiters

\* Reset's order (a singleton set): the accounts that hold a token first, each
\* half in stored order.
tokenHoldersFirst(ids, holders) ==
  LET before(i, j) == \/ ids[i] \in holders /\ ids[j] \notin holders
                      \/ (ids[i] \in holders) = (ids[j] \in holders) /\ i < j
  IN  {[i \in DOMAIN ids |-> ids[p[i]]] :
         p \in {f \in [DOMAIN ids -> DOMAIN ids] :
                  \A i, j \in DOMAIN ids : i < j => before(f[i], f[j])}}

\* Mutant: the account polled last falls between the two halves.
rotateQueueAfter_Drops(ids, last) ==
  IF last \in Range(ids) /\ Position(ids, last) < Len(ids)
  THEN LET k == Position(ids, last)
       IN  SubSeq(ids, k + 1, Len(ids)) \o SubSeq(ids, 1, k - 1)
  ELSE ids

rotateQueueAfter(ids, last) ==
  IF last \in Range(ids) /\ Position(ids, last) < Len(ids)
  THEN LET k == Position(ids, last)
       IN  SubSeq(ids, k + 1, Len(ids)) \o SubSeq(ids, 1, k)
  ELSE ids

\* Mutant: the total survives the Reset.
reset_TotalKept(ids, queueSize, global) ==
  /\ waiters' = <<>>
  /\ queue' = rotateQueueAfter(ids, lastPolled)
  /\ inUse' = [id \in Ids |-> 0]
  /\ maxQueueSize' = queueSize
  /\ globalMaxInflight' = global
  /\ UNCHANGED <<storeVars, totalInUse, maxInflightPerAccount, banned>>

\* The part of Reset under the lock: ids was read before it was taken.
reset(ids, queueSize, global) ==
  /\ waiters' = <<>>
  /\ queue' = rotateQueueAfter(ids, lastPolled)
  /\ inUse' = [id \in Ids |-> 0]
  /\ totalInUse' = 0
  /\ maxQueueSize' = queueSize
  /\ globalMaxInflight' = global
  /\ UNCHANGED <<storeVars, maxInflightPerAccount, banned>>

\* NewPool: the state after the first Reset of a pool over `ids'.
PoolInit(ids) ==
  /\ accounts = ids
  /\ settings \in Settings
  /\ lastPolled = NoAccount
  /\ queue = ids
  /\ inUse = [id \in Ids |-> 0]
  /\ totalInUse = 0
  /\ waiters = <<>>
  /\ maxInflightPerAccount = settings.perAccount
  /\ LET recommended == recommendedConcurrency(Len(ids), settings.perAccount)
     IN  /\ maxQueueSize = orDefault(settings.queue, recommended)
         /\ globalMaxInflight = orDefault(settings.global, recommended)
  /\ banned = {}

-----------------------------------------------------------------------------
(***************************************************************************)
(* totalInUse, which the global limit is tested against, is the sum of the *)
(* per-account counters: the two are updated by different statements of    *)
(* Acquire, Release and Reset.                                             *)
(***************************************************************************)
SlotsOf(id) == {id} \X (1..inUse[id])
Slots == UNION {SlotsOf(id) : id \in Ids}
TotalIsSum == totalInUse = Cardinality(Slots)
=============================================================================
