------------------------------ MODULE PoolProofs ------------------------------
(***************************************************************************)
(* Lemmas about the operators of Pool, and what they preserve of its       *)
(* counters, for every set of accounts and requests and every              *)
(* configuration.  The proofs about the modules that extend Pool use them. *)
(***************************************************************************)
EXTENDS Pool, FiniteSetTheorems, SequenceTheorems, TLAPS

-----------------------------------------------------------------------------
(***************************************************************************)
(* Lemmas about the operators of Pool.                                     *)
(***************************************************************************)

\* Position finds an element of a sequence where it is.
LEMMA PositionProperties ==
  ASSUME NEW S, NEW s \in Seq(S), NEW x \in Range(s)
  PROVE  Position(s, x) \in 1..Len(s) /\ s[Position(s, x)] = x
<1>1. \E i \in DOMAIN s : s[i] = x
  BY DEF Range
<1>2. Position(s, x) \in DOMAIN s /\ s[Position(s, x)] = x
  BY <1>1 DEF Position
<1> QED
  BY <1>2

\* Removing an element leaves a sequence over the same set.
LEMMA WithoutType ==
  ASSUME NEW S, NEW s \in Seq(S), NEW x
  PROVE  Without(s, x) \in Seq(S)
<1>1. CASE x \in Range(s)
  <2> DEFINE k == Position(s, x)
  <2>1. k \in 1..Len(s)
    BY <1>1, PositionProperties
  <2> HIDE DEF k
  <2>2. SubSeq(s, 1, k - 1) \in Seq(S) /\ SubSeq(s, k + 1, Len(s)) \in Seq(S)
    BY <2>1
  <2>3. RemoveAt(s, k) \in Seq(S)
    BY <2>2 DEF RemoveAt
  <2> QED
    BY <1>1, <2>3 DEF Without, k
<1>2. CASE x \notin Range(s)
  BY <1>2 DEF Without
<1> QED
  BY <1>1, <1>2

\* Sorting the accounts by token leaves a sequence over the same set.
LEMMA TokenOrderType ==
  ASSUME NEW S, NEW s \in Seq(S), NEW holders, NEW t \in tokenHoldersFirst(s, holders)
  PROVE  t \in Seq(S)
<1>1. PICK p \in [DOMAIN s -> DOMAIN s] : t = [i \in DOMAIN s |-> s[p[i]]]
  BY DEF tokenHoldersFirst
<1>2. DOMAIN s = 1..Len(s) /\ Len(s) \in Nat /\ \A i \in DOMAIN s : s[i] \in S
  OBVIOUS
<1>3. t \in [1..Len(s) -> S]
  BY <1>1, <1>2
<1> QED
  BY <1>2, <1>3, SeqDef

\* Rotating the queue leaves a sequence over the same set.
LEMMA RotateType ==
  ASSUME NEW S, NEW s \in Seq(S), NEW x
  PROVE  rotateQueueAfter(s, x) \in Seq(S)
<1>1. CASE x \in Range(s) /\ Position(s, x) < Len(s)
  <2> DEFINE k == Position(s, x)
  <2>1. k \in 1..Len(s)
    BY <1>1, PositionProperties
  <2> HIDE DEF k
  <2>2. SubSeq(s, k + 1, Len(s)) \in Seq(S) /\ SubSeq(s, 1, k) \in Seq(S)
    BY <2>1
  <2>3. SubSeq(s, k + 1, Len(s)) \o SubSeq(s, 1, k) \in Seq(S)
    BY <2>2
  <2> QED
    BY <1>1, <2>3 DEF rotateQueueAfter, k
<1>2. CASE ~(x \in Range(s) /\ Position(s, x) < Len(s))
  BY <1>2 DEF rotateQueueAfter
<1> QED
  BY <1>1, <1>2

\* The arithmetic of availableCapacity.
LEMMA CapacityRange ==
  ASSUME NEW slots \in Nat, NEW open \in Nat, NEW total \in Nat, NEW global \in Nat
  PROVE  LET cap   == IF global > 0 /\ global < slots THEN global ELSE slots
             spare == IF cap > total THEN cap - total ELSE 0
         IN  (IF spare > open THEN open ELSE spare) \in Nat
  OBVIOUS

\* What availableCapacity reads.
CapacityTypes ==
  /\ queue \in Seq(Ids)
  /\ inUse \in [Ids -> Nat]
  /\ totalInUse \in Nat
  /\ maxInflightPerAccount \in Nat \ {0}
  /\ globalMaxInflight \in Nat

\* The number of waiters to wake after a change is a natural number.
LEMMA CapacityPrimed ==
  CapacityTypes' => availableCapacity' \in Nat
<1> SUFFICES ASSUME CapacityTypes' PROVE availableCapacity' \in Nat
  OBVIOUS
<1>1. DOMAIN queue' = 1..Len(queue') /\ Len(queue') \in Nat
  BY DEF CapacityTypes
<1>2. Cardinality(openPlaces') \in Nat
  <2>1. IsFiniteSet(DOMAIN queue')
    BY <1>1, FS_Interval
  <2>2. openPlaces' \subseteq DOMAIN queue'
    BY DEF openPlaces
  <2> QED
    BY <2>1, <2>2, FS_Subset, FS_CardinalityType
<1>3. Len(queue') * maxInflightPerAccount' \in Nat
  BY <1>1 DEF CapacityTypes
<1>4. totalInUse' \in Nat /\ globalMaxInflight' \in Nat
  BY DEF CapacityTypes
<1> QED
  BY <1>2, <1>3, <1>4, CapacityRange DEF availableCapacity

\* Waking keeps a suffix of the waiters.
LEMMA NotifyType ==
  ASSUME PoolTypeOK, availableCapacity' \in Nat, notifyWaiters
  PROVE  /\ waiters' \in Seq(Requests)
         /\ \E n \in 0..Len(waiters) : waiters' = SubSeq(waiters, n + 1, Len(waiters))
<1> DEFINE woken == IF availableCapacity' > Len(waiters) THEN Len(waiters)
                    ELSE availableCapacity'
<1>1. waiters \in Seq(Requests) /\ Len(waiters) \in Nat
  BY DEF PoolTypeOK
<1>2. woken \in 0..Len(waiters)
  BY <1>1
<1>3. waiters' = SubSeq(waiters, woken + 1, Len(waiters))
  BY DEF notifyWaiters
<1> HIDE DEF woken
<1>4. SubSeq(waiters, woken + 1, Len(waiters)) \in Seq(Requests)
  BY <1>1, <1>2
<1> QED
  BY <1>2, <1>3, <1>4

-----------------------------------------------------------------------------
(***************************************************************************)
(* totalInUse counts the slots in use.  Release subtracts from it without  *)
(* a test of its own, so its type rests on this fact.                      *)
(***************************************************************************)
SlotInv == IsFiniteSet(Slots) /\ TotalIsSum

\* A slot of an account is a number between one and the account's counter.
LEMMA SlotMembership ==
  ASSUME inUse \in [Ids -> Nat]
  PROVE  Slots = {slot \in Ids \X Nat : 1 <= slot[2] /\ slot[2] <= inUse[slot[1]]}
  BY DEF Slots, SlotsOf

\* acquireLocked adds one slot.
LEMMA TakeSlotInv ==
  ASSUME PoolTypeOK, SlotInv, NEW id \in Ids, takeSlot(id),
         UNCHANGED <<storeVars, waiters, limitVars, banned>>
  PROVE  PoolTypeOK' /\ SlotInv'
<1>1. inUse \in [Ids -> Nat] /\ inUse' \in [Ids -> Nat]
  BY DEF PoolTypeOK, takeSlot
<1>2. queue' \in Seq(Ids)
  <2>1. Without(queue, id) \in Seq(Ids)
    BY WithoutType DEF PoolTypeOK
  <2> QED
    BY <2>1 DEF PoolTypeOK, takeSlot
<1>3. PoolTypeOK'
  BY <1>1, <1>2 DEF PoolTypeOK, takeSlot, storeVars, limitVars
<1>4. Slots' = Slots \union {<<id, inUse[id] + 1>>}
  <2>1. Slots' = {slot \in Ids \X Nat : 1 <= slot[2] /\ slot[2] <= inUse'[slot[1]]}
    BY <1>1, SlotMembership DEF Slots, SlotsOf
  <2>2. Slots = {slot \in Ids \X Nat : 1 <= slot[2] /\ slot[2] <= inUse[slot[1]]}
    BY <1>1, SlotMembership
  <2>3. inUse' = [inUse EXCEPT ![id] = @ + 1]
    BY DEF takeSlot
  <2> QED
    BY <1>1, <2>1, <2>2, <2>3
<1>5. <<id, inUse[id] + 1>> \notin Slots
  BY <1>1, SlotMembership
<1>6. SlotInv'
  BY <1>4, <1>5, FS_AddElement DEF SlotInv, TotalIsSum, takeSlot
<1> QED
  BY <1>3, <1>6

\* Release removes the slot it subtracts.
LEMMA ReleaseSlotInv ==
  ASSUME PoolTypeOK, SlotInv, NEW id \in Ids \union {NoAccount}, releaseSlot(id)
  PROVE  PoolTypeOK' /\ SlotInv'
<1>1. CASE id = NoAccount \/ inUse[id] = 0
  <2>1. UNCHANGED poolVars
    BY <1>1 DEF releaseSlot
  <2> QED
    BY <2>1 DEF PoolTypeOK, SlotInv, TotalIsSum, Slots, SlotsOf,
                poolVars, storeVars, slotVars, limitVars
<1>2. CASE id # NoAccount /\ inUse[id] # 0
  <2>1. id \in Ids /\ inUse \in [Ids -> Nat] /\ inUse[id] \in Nat \ {0}
    BY <1>2 DEF PoolTypeOK
  <2>2. /\ inUse' = [inUse EXCEPT ![id] = @ - 1]
        /\ totalInUse' = totalInUse - 1
        /\ lastPolled' = IF inUse[id] = 1 THEN id ELSE lastPolled
        /\ UNCHANGED <<accounts, settings, queue, limitVars, banned>>
        /\ notifyWaiters
    BY <1>2 DEF releaseSlot
  <2>3. inUse' \in [Ids -> Nat]
    BY <2>1, <2>2
  <2>4. Slots' = Slots \ {<<id, inUse[id]>>}
    <3>1. Slots' = {slot \in Ids \X Nat : 1 <= slot[2] /\ slot[2] <= inUse'[slot[1]]}
      BY <2>3, SlotMembership DEF Slots, SlotsOf
    <3>2. Slots = {slot \in Ids \X Nat : 1 <= slot[2] /\ slot[2] <= inUse[slot[1]]}
      BY <2>1, SlotMembership
    <3> QED
      BY <2>1, <2>2, <3>1, <3>2
  <2>5. <<id, inUse[id]>> \in Slots
    BY <2>1, SlotMembership
  <2>6. SlotInv' /\ totalInUse' \in Nat
    <3>1. /\ IsFiniteSet(Slots')
          /\ Cardinality(Slots') = Cardinality(Slots) - 1
      BY <2>4, <2>5, FS_RemoveElement DEF SlotInv
    <3>2. Cardinality(Slots') \in Nat
      BY <3>1, FS_CardinalityType
    <3> QED
      BY <2>2, <3>1, <3>2 DEF SlotInv, TotalIsSum
  <2>7. waiters' \in Seq(Requests)
    <3>1. availableCapacity' \in Nat
      BY <2>2, <2>3, <2>6, CapacityPrimed DEF PoolTypeOK, limitVars, CapacityTypes
    <3> QED
      BY <2>2, <3>1, NotifyType
  <2>8. PoolTypeOK'
    BY <2>1, <2>2, <2>3, <2>6, <2>7 DEF PoolTypeOK, limitVars
  <2> QED
    BY <2>6, <2>8
<1> QED
  BY <1>1, <1>2

\* Steps that change no counter and wake waiters: bans and new limits.
LEMMA NotifyInv ==
  ASSUME PoolTypeOK, SlotInv, notifyWaiters, UNCHANGED <<storeVars, slotVars>>,
         maxInflightPerAccount' \in Nat \ {0}, maxQueueSize' \in Nat,
         globalMaxInflight' \in Nat, banned' \subseteq Ids
  PROVE  PoolTypeOK' /\ SlotInv'
<1>1. CapacityTypes'
  BY DEF CapacityTypes, PoolTypeOK, slotVars
<1>2. waiters' \in Seq(Requests)
  BY <1>1, CapacityPrimed, NotifyType
<1>3. PoolTypeOK'
  BY <1>2 DEF PoolTypeOK, storeVars, slotVars
<1>4. SlotInv'
  BY DEF SlotInv, TotalIsSum, Slots, SlotsOf, slotVars
<1> QED
  BY <1>3, <1>4

\* Steps that leave the counters and the waiters alone or only edit the list.
LEMMA FrameInv ==
  ASSUME PoolTypeOK, SlotInv, UNCHANGED slotVars,
         accounts' \in Seq(Ids), settings' \in Settings,
         lastPolled' = lastPolled, waiters' \in Seq(Requests),
         maxInflightPerAccount' \in Nat \ {0}, maxQueueSize' = maxQueueSize,
         globalMaxInflight' = globalMaxInflight, banned' \subseteq Ids
  PROVE  PoolTypeOK' /\ SlotInv'
  BY DEF PoolTypeOK, SlotInv, TotalIsSum, Slots, SlotsOf, slotVars

\* With every counter at zero there are no slots in use.
LEMMA NoSlots ==
  ASSUME inUse = [id \in Ids |-> 0], totalInUse = 0
  PROVE  SlotInv
<1>1. Slots = {}
  BY SlotMembership
<1> QED
  BY <1>1, FS_EmptySet DEF SlotInv, TotalIsSum

LEMMA ResetInv ==
  ASSUME PoolTypeOK, NEW ids \in Seq(Ids), NEW size \in Nat, NEW global \in Nat,
         reset(ids, size, global)
  PROVE  PoolTypeOK' /\ SlotInv'
<1>1. queue' \in Seq(Ids)
  BY RotateType DEF reset
<1>2. PoolTypeOK'
  BY <1>1 DEF PoolTypeOK, reset, storeVars
<1>3. Slots' = {}
  BY DEF reset, Slots, SlotsOf
<1>4. SlotInv'
  BY <1>3, FS_EmptySet DEF SlotInv, TotalIsSum, reset
<1> QED
  BY <1>2, <1>4

LEMMA DefaultType ==
  ASSUME NEW n \in Nat, NEW d \in Nat
  PROVE  orDefault(n, d) \in Nat
  BY DEF orDefault

LEMMA RecommendedType ==
  ASSUME NEW n \in Nat, NEW d \in Nat
  PROVE  recommendedConcurrency(n, d) \in Nat
  BY DEF recommendedConcurrency

\* A stored setting has the type the pool's limits need.
LEMMA SettingsType ==
  ASSUME NEW s \in Settings
  PROVE  s.perAccount \in Nat \ {0} /\ s.queue \in Nat /\ s.global \in Nat
  BY PoolAssumption


\* NewPool makes a well-formed pool.
LEMMA PoolInitInv ==
  ASSUME NEW ids \in Seq(Ids), PoolInit(ids)
  PROVE  PoolTypeOK /\ SlotInv
<1> USE PoolAssumption DEF PoolInit
<1>1. /\ settings.perAccount \in Nat \ {0}
      /\ settings.queue \in Nat
      /\ settings.global \in Nat
  BY SettingsType
<1>2. recommendedConcurrency(Len(ids), settings.perAccount) \in Nat
  BY <1>1, RecommendedType
<1>3. maxQueueSize \in Nat /\ globalMaxInflight \in Nat
  BY <1>1, <1>2, DefaultType
<1>4. PoolTypeOK
  BY <1>1, <1>3 DEF PoolTypeOK
<1> QED
  BY <1>4, NoSlots

-----------------------------------------------------------------------------
(***************************************************************************)
(* The counters and the requests that hold accounts, in whatever variable  *)
(* a module records them: H[r] is the account that request r holds.        *)
(***************************************************************************)
Holding == [Requests -> Ids \union {NoAccount}]

HoldersOf(H, id) == {r \in Requests : H[r] = id}
AllHoldersOf(H)  == {r \in Requests : H[r] # NoAccount}

\* No account is counted more often than requests hold it.
Covers(H, use) == \A id \in Ids : use[id] <= Cardinality(HoldersOf(H, id))

\* Request r takes account id, or gives back what it has of it.
Took(H, G, r, id) ==
  H \in Holding /\ H[r] = NoAccount /\ G = [H EXCEPT ![r] = id]

Gave(H, G, r, id) ==
  H \in Holding /\ H[r] \in {NoAccount, id} /\ G = [H EXCEPT ![r] = NoAccount]

\* The sets of holders are finite.
LEMMA HoldersOfFinite ==
  ASSUME NEW H
  PROVE  /\ IsFiniteSet(AllHoldersOf(H))
         /\ \A id : /\ IsFiniteSet(HoldersOf(H, id))
                    /\ Cardinality(HoldersOf(H, id)) \in Nat
<1>1. AllHoldersOf(H) \subseteq Requests /\ \A id : HoldersOf(H, id) \subseteq Requests
  BY DEF AllHoldersOf, HoldersOf
<1> QED
  BY <1>1, PoolAssumption, FS_Subset, FS_CardinalityType

\* A request that takes an account joins its holders and no others.
LEMMA TakeHolders ==
  ASSUME NEW H, NEW G, NEW r \in Requests, NEW id \in Ids, Took(H, G, r, id)
  PROVE  /\ Cardinality(HoldersOf(G, id)) = Cardinality(HoldersOf(H, id)) + 1
         /\ Cardinality(AllHoldersOf(G)) = Cardinality(AllHoldersOf(H)) + 1
         /\ \A other \in Ids \ {id} : HoldersOf(G, other) = HoldersOf(H, other)
<1> USE PoolAssumption DEF Holding, Took
<1>1. HoldersOf(G, id) = HoldersOf(H, id) \union {r} /\ r \notin HoldersOf(H, id)
  BY DEF HoldersOf
<1>2. AllHoldersOf(G) = AllHoldersOf(H) \union {r} /\ r \notin AllHoldersOf(H)
  BY DEF AllHoldersOf
<1>3. \A other \in Ids \ {id} : HoldersOf(G, other) = HoldersOf(H, other)
  BY DEF HoldersOf
<1> QED
  BY <1>1, <1>2, <1>3, HoldersOfFinite, FS_AddElement

\* A request that gives its account back leaves its holders and no others.
LEMMA GiveHolders ==
  ASSUME NEW H, NEW G, NEW r \in Requests, NEW id \in Ids, H[r] = id, Gave(H, G, r, id)
  PROVE  /\ r \in HoldersOf(H, id) /\ r \in AllHoldersOf(H)
         /\ Cardinality(HoldersOf(G, id)) = Cardinality(HoldersOf(H, id)) - 1
         /\ Cardinality(AllHoldersOf(G)) = Cardinality(AllHoldersOf(H)) - 1
         /\ \A other \in Ids \ {id} : HoldersOf(G, other) = HoldersOf(H, other)
<1> USE PoolAssumption DEF Holding, Gave
<1>1. HoldersOf(G, id) = HoldersOf(H, id) \ {r} /\ r \in HoldersOf(H, id)
  BY DEF HoldersOf
<1>2. AllHoldersOf(G) = AllHoldersOf(H) \ {r} /\ r \in AllHoldersOf(H)
  BY DEF AllHoldersOf
<1>3. \A other \in Ids \ {id} : HoldersOf(G, other) = HoldersOf(H, other)
  BY DEF HoldersOf
<1> QED
  BY <1>1, <1>2, <1>3, HoldersOfFinite, FS_RemoveElement

\* acquireLocked counts the slot that the request takes.
LEMMA TakeCovers ==
  ASSUME PoolTypeOK, NEW H, NEW G, Covers(H, inUse),
         NEW r \in Requests, NEW id \in Ids, Took(H, G, r, id), takeSlot(id)
  PROVE  Covers(G, inUse')
<1>1. /\ inUse \in [Ids -> Nat]
      /\ inUse' = [inUse EXCEPT ![id] = @ + 1]
  BY DEF PoolTypeOK, takeSlot
<1>2. /\ Cardinality(HoldersOf(G, id)) = Cardinality(HoldersOf(H, id)) + 1
      /\ \A other \in Ids \ {id} : HoldersOf(G, other) = HoldersOf(H, other)
  BY TakeHolders
<1>3. ASSUME NEW x \in Ids PROVE inUse'[x] <= Cardinality(HoldersOf(G, x))
  <2>1. inUse[x] <= Cardinality(HoldersOf(H, x)) /\ Cardinality(HoldersOf(H, x)) \in Nat
    BY HoldersOfFinite DEF Covers
  <2> QED
    BY <1>1, <1>2, <2>1
<1> QED
  BY <1>3 DEF Covers

\* Release uncounts at least what the request gives back, or has counted too
\* little already.
LEMMA GiveCovers ==
  ASSUME PoolTypeOK, NEW H, NEW G, Covers(H, inUse),
         NEW r \in Requests, NEW id \in Ids, Gave(H, G, r, id), releaseSlot(id)
  PROVE  Covers(G, inUse')
<1>1. id # NoAccount /\ inUse \in [Ids -> Nat]
  BY PoolAssumption DEF PoolTypeOK
<1>2. inUse' = IF inUse[id] = 0 THEN inUse ELSE [inUse EXCEPT ![id] = @ - 1]
  BY <1>1 DEF releaseSlot, poolVars, slotVars
<1>3. ASSUME NEW x \in Ids PROVE inUse'[x] <= Cardinality(HoldersOf(G, x))
  <2>1. inUse[x] <= Cardinality(HoldersOf(H, x)) /\ Cardinality(HoldersOf(H, x)) \in Nat
    BY HoldersOfFinite DEF Covers
  <2>2. inUse'[x] <= inUse[x] /\ (x = id /\ inUse[x] # 0 => inUse'[x] = inUse[x] - 1)
        /\ (x = id /\ inUse[x] = 0 => inUse'[x] = 0) /\ inUse'[x] \in Nat /\ inUse[x] \in Nat
    BY <1>1, <1>2
  <2>3. CASE H[r] = NoAccount
    <3>1. G = H
      BY <2>3 DEF Holding, Gave
    <3> QED
      BY <2>1, <2>2, <3>1
  <2>4. CASE H[r] = id
    <3>1. /\ Cardinality(HoldersOf(G, id)) = Cardinality(HoldersOf(H, id)) - 1
          /\ \A other \in Ids \ {id} : HoldersOf(G, other) = HoldersOf(H, other)
      BY <2>4, GiveHolders
    <3>2. Cardinality(HoldersOf(G, id)) \in Nat
      BY HoldersOfFinite
    <3> QED
      BY <2>1, <2>2, <3>1, <3>2
  <2> QED
    BY <2>3, <2>4 DEF Gave
<1> QED
  BY <1>3 DEF Covers

\* The counted slots inject into the requests that hold an account.
LEMMA CoveredTotal ==
  ASSUME PoolTypeOK, SlotInv, NEW H \in Holding, Covers(H, inUse)
  PROVE  totalInUse <= Cardinality(AllHoldersOf(H))
<1>1. inUse \in [Ids -> Nat] /\ NoAccount \notin Ids
  BY PoolAssumption DEF PoolTypeOK
<1> DEFINE enum == [id \in Ids |->
                      CHOOSE f : f \in Bijection(1..Cardinality(HoldersOf(H, id)), HoldersOf(H, id))]
           inject == [slot \in Slots |-> enum[slot[1]][slot[2]]]
<1>2. \A id \in Ids : enum[id] \in Bijection(1..Cardinality(HoldersOf(H, id)), HoldersOf(H, id))
  BY HoldersOfFinite, FS_CardinalityType DEF ExistsBijection
<1> HIDE DEF enum
<1>3. \A slot \in Slots : /\ slot[1] \in Ids
                          /\ slot[2] \in 1..Cardinality(HoldersOf(H, slot[1]))
                          /\ slot = <<slot[1], slot[2]>>
  <2>1. \A id \in Ids : Cardinality(HoldersOf(H, id)) \in Nat
    BY HoldersOfFinite
  <2>2. \A slot \in Slots : /\ slot \in Ids \X Nat
                            /\ 1 <= slot[2] /\ slot[2] <= inUse[slot[1]]
    BY <1>1, SlotMembership
  <2> QED
    BY <1>1, <2>1, <2>2 DEF Covers
<1>4. \A slot \in Slots : inject[slot] \in HoldersOf(H, slot[1])
  BY <1>2, <1>3 DEF Bijection, Injection
<1>5. inject \in [Slots -> AllHoldersOf(H)]
  BY <1>1, <1>3, <1>4 DEF HoldersOf, AllHoldersOf
<1>6. ASSUME NEW x \in Slots, NEW y \in Slots, inject[x] = inject[y]
      PROVE  x = y
  <2>1. x[1] = y[1]
    BY <1>4, <1>6 DEF HoldersOf
  <2>2. enum[x[1]][x[2]] = enum[x[1]][y[2]]
    BY <1>6, <2>1
  <2>3. IsInjective(enum[x[1]]) /\ DOMAIN enum[x[1]] = 1..Cardinality(HoldersOf(H, x[1]))
    BY <1>2, <1>3 DEF Bijection, Injection
  <2>4. x[2] = y[2]
    BY <1>3, <2>1, <2>2, <2>3 DEF IsInjective
  <2> QED
    BY <1>3, <2>1, <2>4
<1> HIDE DEF inject
<1>7. inject \in Injection(Slots, AllHoldersOf(H))
  BY <1>5, <1>6 DEF Injection, IsInjective
<1>8. Cardinality(Slots) <= Cardinality(AllHoldersOf(H))
  BY <1>7, HoldersOfFinite, FS_Injection
<1> QED
  BY <1>8 DEF SlotInv, TotalIsSum

-----------------------------------------------------------------------------
(***************************************************************************)
(* Parts of a list: the entries of t are entries of s, in places that an   *)
(* injection finds.                                                        *)
(***************************************************************************)
PartOf(t, s) ==
  \E f \in [DOMAIN t -> DOMAIN s] :
    /\ \A i \in DOMAIN t : t[i] = s[f[i]]
    /\ \A i, j \in DOMAIN t : f[i] = f[j] => i = j

\* What is left at the end of a list is a part of it.
LEMMA SuffixPart ==
  ASSUME NEW S, NEW s \in Seq(S), NEW n \in 0..Len(s)
  PROVE  PartOf(SubSeq(s, n + 1, Len(s)), s)
<1> DEFINE t == SubSeq(s, n + 1, Len(s))
           f == [i \in DOMAIN t |-> i + n]
<1>1. /\ DOMAIN t = 1..(Len(s) - n) /\ DOMAIN s = 1..Len(s) /\ Len(s) \in Nat
      /\ \A i \in DOMAIN t : t[i] = s[i + n]
  OBVIOUS
<1> HIDE DEF t
<1>2. f \in [DOMAIN t -> DOMAIN s]
  BY <1>1
<1>3. \A i, j \in DOMAIN t : f[i] = f[j] => i = j
  BY <1>1
<1>4. PartOf(t, s)
  BY <1>1, <1>2, <1>3 DEF PartOf
<1> QED
  BY <1>4 DEF t

\* What removing an element leaves at each place.
LEMMA WithoutElements ==
  ASSUME NEW S, NEW s \in Seq(S), NEW x \in Range(s)
  PROVE  LET k == Position(s, x)
             t == Without(s, x)
         IN  /\ DOMAIN t = 1..(Len(s) - 1) /\ DOMAIN s = 1..Len(s) /\ Len(s) \in Nat
             /\ \A i \in DOMAIN t : t[i] = s[IF i < k THEN i ELSE i + 1]
<1> DEFINE k == Position(s, x)
           u == SubSeq(s, 1, k - 1)
           v == SubSeq(s, k + 1, Len(s))
           t == u \o v
<1>1. k \in 1..Len(s) /\ s[k] = x
  BY PositionProperties
<1> HIDE DEF k
<1>2. Without(s, x) = t
  BY DEF Without, RemoveAt, k
<1>3. /\ u \in Seq(S) /\ Len(u) = k - 1 /\ \A i \in 1..(k - 1) : u[i] = s[i]
      /\ v \in Seq(S) /\ Len(v) = Len(s) - k /\ \A i \in 1..(Len(s) - k) : v[i] = s[i + k]
  BY <1>1
<1> HIDE DEF u, v
<1>4. /\ DOMAIN t = 1..(Len(s) - 1) /\ DOMAIN s = 1..Len(s) /\ Len(s) \in Nat
      /\ \A i \in DOMAIN t : t[i] = s[IF i < k THEN i ELSE i + 1]
  <2>1. /\ t \in Seq(S) /\ Len(t) = Len(u) + Len(v)
        /\ \A i \in 1..Len(u) + Len(v) : t[i] = IF i <= Len(u) THEN u[i] ELSE v[i - Len(u)]
    BY <1>3, ConcatProperties
  <2> HIDE DEF t
  <2>2. Len(s) \in Nat /\ Len(t) = Len(s) - 1 /\ DOMAIN t = 1..Len(t) /\ DOMAIN s = 1..Len(s)
    BY <1>1, <1>3, <2>1
  <2>3. ASSUME NEW i \in 1..(Len(s) - 1)
        PROVE  t[i] = s[IF i < k THEN i ELSE i + 1]
    <3>1. CASE i < k
      <4>1. i \in 1..(k - 1) /\ i \in 1..Len(u) + Len(v)
        BY <1>1, <1>3, <2>2, <3>1
      <4>2. t[i] = u[i] /\ u[i] = s[i]
        BY <1>3, <2>1, <4>1
      <4> QED
        BY <3>1, <4>2
    <3>2. CASE i >= k
      <4>1. t[i] = v[i - (k - 1)]
        BY <1>1, <1>3, <2>1, <2>2, <3>2
      <4>2. i - (k - 1) \in 1..(Len(s) - k)
        BY <1>1, <2>2, <3>2
      <4>3. i - (k - 1) + k = i + 1
        BY <1>1
      <4>4. v[i - (k - 1)] = s[i + 1]
        BY <1>3, <4>2, <4>3
      <4> QED
        BY <1>1, <3>2, <4>1, <4>4
    <3> QED
      BY <1>1, <2>2, <3>1, <3>2
  <2> QED
    BY <2>2, <2>3
<1> QED
  BY <1>2, <1>4 DEF k

\* Removing an element that occurs once leaves the others.
LEMMA WithoutPart ==
  ASSUME NEW S, NEW s \in Seq(S), NEW x,
         \A i, j \in DOMAIN s : s[i] = s[j] => i = j
  PROVE  PartOf(Without(s, x), s) /\ \A i \in DOMAIN Without(s, x) : Without(s, x)[i] # x
<1>1. CASE x \in Range(s)
  <2> DEFINE k == Position(s, x)
             t == Without(s, x)
             f == [i \in DOMAIN t |-> IF i < k THEN i ELSE i + 1]
  <2>1. k \in 1..Len(s) /\ s[k] = x
    BY <1>1, PositionProperties
  <2>2. /\ DOMAIN t = 1..(Len(s) - 1) /\ DOMAIN s = 1..Len(s) /\ Len(s) \in Nat
        /\ \A i \in DOMAIN t : t[i] = s[IF i < k THEN i ELSE i + 1]
    BY <1>1, WithoutElements
  <2> HIDE DEF k, t
  <2>3. f \in [DOMAIN t -> DOMAIN s]
    BY <2>1, <2>2
  <2>4. \A i, j \in DOMAIN t : f[i] = f[j] => i = j
    BY <2>1, <2>2
  <2>5. \A i \in DOMAIN t : f[i] # k
    BY <2>1, <2>2
  <2>6. \A i \in DOMAIN t : t[i] = s[f[i]]
    BY <2>2
  <2> HIDE DEF f
  <2>7. PartOf(t, s)
    BY <2>3, <2>4, <2>6 DEF PartOf
  <2>8. \A i \in DOMAIN t : t[i] # x
    BY <2>1, <2>2, <2>3, <2>5, <2>6
  <2> QED
    BY <2>7, <2>8 DEF t
<1>2. CASE x \notin Range(s)
  <2>1. Without(s, x) = s
    BY <1>2 DEF Without
  <2>2. [i \in DOMAIN s |-> i] \in [DOMAIN s -> DOMAIN s]
    OBVIOUS
  <2>3. PartOf(s, s)
    BY <2>2 DEF PartOf
  <2>4. \A i \in DOMAIN s : s[i] # x
    BY <1>2 DEF Range
  <2> QED
    BY <2>1, <2>3, <2>4
<1> QED
  BY <1>1, <1>2

-----------------------------------------------------------------------------
(***************************************************************************)
(* Lists without repetition: s lists S.  The scheduling queue and the      *)
(* stored accounts are such lists, and list the same set.                  *)
(***************************************************************************)
Lists(s, S) ==
  /\ s \in Seq(S)
  /\ \A i, j \in DOMAIN s : s[i] = s[j] => i = j
  /\ \A x \in S : \E i \in DOMAIN s : s[i] = x

\* The set that a list lists.
LEMMA ListsRange ==
  ASSUME NEW S, NEW s, Lists(s, S)
  PROVE  Range(s) = S
BY DEF Lists, Range

\* Two lists of the same set are equally long: each injects into the other.
LEMMA ListsShorter ==
  ASSUME NEW S, NEW s, NEW t, Lists(s, S), Lists(t, S)
  PROVE  Len(s) <= Len(t)
<1> DEFINE f == [i \in 1..Len(s) |-> CHOOSE j \in 1..Len(t) : t[j] = s[i]]
<1>1. /\ DOMAIN s = 1..Len(s) /\ Len(s) \in Nat /\ DOMAIN t = 1..Len(t) /\ Len(t) \in Nat
      /\ \A i \in 1..Len(s) : s[i] \in S
  BY DEF Lists
<1>2. \A i \in 1..Len(s) : \E j \in 1..Len(t) : t[j] = s[i]
  BY <1>1 DEF Lists
<1>3. \A i \in 1..Len(s) : f[i] \in 1..Len(t) /\ t[f[i]] = s[i]
  BY <1>2
<1> HIDE DEF f
<1>4. f \in [1..Len(s) -> 1..Len(t)]
  BY <1>3 DEF f
<1>5. ASSUME NEW i \in 1..Len(s), NEW j \in 1..Len(s), f[i] = f[j] PROVE i = j
  <2>1. s[i] = s[j]
    BY <1>3, <1>5
  <2> QED
    BY <1>1, <2>1 DEF Lists
<1>6. f \in Injection(1..Len(s), 1..Len(t))
  BY <1>4, <1>5 DEF Injection, IsInjective
<1>7. /\ IsFiniteSet(1..Len(t))
      /\ Cardinality(1..Len(s)) = Len(s) /\ Cardinality(1..Len(t)) = Len(t)
  <2>1. \A n \in Nat : IsFiniteSet(1..n) /\ Cardinality(1..n) = n
    BY FS_Interval
  <2> QED
    BY <1>1, <2>1
<1> QED
  BY <1>6, <1>7, FS_Injection

\* Two lists of the same elements are equally long.
LEMMA ListsLen ==
  ASSUME NEW S, NEW s, NEW t, Lists(s, S), Lists(t, S)
  PROVE  Len(s) = Len(t)
<1>1. Len(s) \in Nat /\ Len(t) \in Nat
  BY DEF Lists
<1> QED
  BY <1>1, ListsShorter

\* A new element at the end.
LEMMA ListsAppend ==
  ASSUME NEW S, NEW s, NEW x, Lists(s, S), x \notin S
  PROVE  Lists(Append(s, x), S \union {x})
<1> DEFINE t == Append(s, x)
<1>1. /\ DOMAIN s = 1..Len(s) /\ Len(s) \in Nat /\ \A i \in 1..Len(s) : s[i] \in S
      /\ s \in Seq(S \union {x})
  BY DEF Lists
<1>2. /\ t \in Seq(S \union {x}) /\ Len(t) = Len(s) + 1 /\ DOMAIN t = 1..(Len(s) + 1)
      /\ \A i \in 1..Len(s) : t[i] = s[i]
      /\ t[Len(s) + 1] = x
  BY <1>1
<1> HIDE DEF t
<1>3. \A i \in 1..Len(s) : t[i] # x
  BY <1>1, <1>2
<1>4. \A i, j \in DOMAIN t : t[i] = t[j] => i = j
  <2> SUFFICES ASSUME NEW i \in DOMAIN t, NEW j \in DOMAIN t, t[i] = t[j]
               PROVE  i = j
    OBVIOUS
  <2>1. CASE i \in 1..Len(s) /\ j \in 1..Len(s)
    BY <1>1, <1>2, <2>1 DEF Lists
  <2>2. CASE ~(i \in 1..Len(s) /\ j \in 1..Len(s))
    BY <1>1, <1>2, <1>3, <2>2
  <2> QED
    BY <2>1, <2>2
<1>5. \A y \in S \union {x} : \E i \in DOMAIN t : t[i] = y
  <2>1. ASSUME NEW y \in S PROVE \E i \in DOMAIN t : t[i] = y
    <3>1. PICK i \in 1..Len(s) : s[i] = y
      BY <1>1, <2>1 DEF Lists
    <3> QED
      BY <1>1, <1>2, <3>1
  <2>2. \E i \in DOMAIN t : t[i] = x
    BY <1>1, <1>2
  <2> QED
    BY <2>1, <2>2
<1>6. Lists(t, S \union {x})
  BY <1>2, <1>4, <1>5 DEF Lists
<1> QED
  BY <1>6 DEF t

\* The same elements in other places: p says where each comes from.
LEMMA ListsMoved ==
  ASSUME NEW S, NEW s, Lists(s, S), NEW t \in Seq(S), Len(t) = Len(s),
         NEW p \in [DOMAIN s -> DOMAIN s],
         \A i \in DOMAIN s : t[i] = s[p[i]],
         \A i, j \in DOMAIN s : p[i] = p[j] => i = j
  PROVE  Lists(t, S)
<1>1. DOMAIN s = 1..Len(s) /\ Len(s) \in Nat /\ DOMAIN t = DOMAIN s
  BY DEF Lists
<1>2. IsFiniteSet(DOMAIN s)
  BY <1>1, FS_Interval
<1>3. p \in Injection(DOMAIN s, DOMAIN s)
  BY DEF Injection, IsInjective
<1>4. p \in Surjection(DOMAIN s, DOMAIN s)
  BY <1>2, <1>3, FS_Injection
<1>5. \A j \in DOMAIN s : \E i \in DOMAIN s : p[i] = j
  BY <1>4 DEF Surjection
<1>6. \A i, j \in DOMAIN t : t[i] = t[j] => i = j
  BY <1>1 DEF Lists
<1>7. \A x \in S : \E i \in DOMAIN t : t[i] = x
  BY <1>1, <1>5 DEF Lists
<1> QED
  BY <1>6, <1>7 DEF Lists

\* Without an element.
LEMMA ListsWithout ==
  ASSUME NEW S, NEW s, NEW x, Lists(s, S)
  PROVE  Lists(Without(s, x), S \ {x})
<1> DEFINE t == Without(s, x)
<1>1. s \in Seq(S) /\ Range(s) = S
  BY ListsRange DEF Lists
<1>2. CASE x \in S
  <2> DEFINE k == Position(s, x)
  <2>1. /\ k \in 1..Len(s) /\ s[k] = x
        /\ DOMAIN t = 1..(Len(s) - 1) /\ DOMAIN s = 1..Len(s) /\ Len(s) \in Nat
        /\ \A i \in DOMAIN t : t[i] = s[IF i < k THEN i ELSE i + 1]
        /\ t \in Seq(S)
    BY <1>1, <1>2, PositionProperties, WithoutElements, WithoutType
  <2> HIDE DEF k, t
  <2>2. \A i, j \in DOMAIN t : t[i] = t[j] => i = j
    <3> SUFFICES ASSUME NEW i \in DOMAIN t, NEW j \in DOMAIN t, t[i] = t[j]
                 PROVE  i = j
      OBVIOUS
    <3> DEFINE from(n) == IF n < k THEN n ELSE n + 1
    <3>1. from(i) \in DOMAIN s /\ from(j) \in DOMAIN s /\ s[from(i)] = s[from(j)]
      BY <2>1
    <3>2. from(i) = from(j)
      BY <3>1 DEF Lists
    <3> QED
      BY <2>1, <3>2
  <2>3. \A i \in DOMAIN t : t[i] \in S \ {x}
    <3> SUFFICES ASSUME NEW i \in DOMAIN t PROVE t[i] \in S \ {x}
      OBVIOUS
    <3>1. PICK j \in DOMAIN s : j # k /\ t[i] = s[j]
      BY <2>1
    <3>2. k \in DOMAIN s /\ s[j] \in S
      BY <1>1, <2>1, <3>1
    <3>3. s[j] # s[k]
      BY <3>1, <3>2 DEF Lists
    <3> QED
      BY <2>1, <3>1, <3>2, <3>3
  <2>4. ASSUME NEW y \in S \ {x} PROVE \E i \in DOMAIN t : t[i] = y
    <3>1. PICK j \in DOMAIN s : s[j] = y
      BY DEF Lists
    <3> DEFINE i == IF j < k THEN j ELSE j - 1
    <3>2. j # k
      BY <2>1, <3>1
    <3>3. i \in DOMAIN t /\ (IF i < k THEN i ELSE i + 1) = j
      BY <2>1, <3>1, <3>2
    <3> HIDE DEF i
    <3>4. t[i] = s[j]
      BY <2>1, <3>3
    <3> QED
      BY <3>1, <3>3, <3>4
  <2>5. t \in Seq(S)
    BY <2>1
  <2>6. Len(t) \in Nat /\ DOMAIN t = 1..Len(t)
    BY <2>5
  <2>7. t \in Seq(S \ {x})
    BY <2>1, <2>3, <2>6, SeqDef
  <2> QED
    BY <2>2, <2>4, <2>7 DEF Lists, t
<1>3. CASE x \notin S
  BY <1>1, <1>3 DEF Without
<1> QED
  BY <1>2, <1>3

\* The account that is granted moves to the back.
LEMMA ListsBumped ==
  ASSUME NEW S, NEW s, NEW x, Lists(s, S)
  PROVE  Lists(IF x \in Range(s) THEN Append(Without(s, x), x) ELSE s, S)
<1>1. CASE x \in S
  <2>1. Lists(Append(Without(s, x), x), (S \ {x}) \union {x})
    BY ListsWithout, ListsAppend
  <2>2. (S \ {x}) \union {x} = S
    BY <1>1
  <2> QED
    BY <1>1, <2>1, <2>2, ListsRange
<1>2. CASE x \notin S
  BY <1>2, ListsRange
<1> QED
  BY <1>1, <1>2

\* The queue begins after the account that was polled last.
LEMMA ListsRotated ==
  ASSUME NEW S, NEW s, NEW x, Lists(s, S)
  PROVE  Lists(rotateQueueAfter(s, x), S)
<1>1. s \in Seq(S) /\ Range(s) = S
  BY ListsRange DEF Lists
<1>2. CASE x \in Range(s) /\ Position(s, x) < Len(s)
  <2> DEFINE k == Position(s, x)
             u == SubSeq(s, k + 1, Len(s))
             v == SubSeq(s, 1, k)
             t == u \o v
             p == [i \in DOMAIN s |-> IF i <= Len(s) - k THEN i + k ELSE i - (Len(s) - k)]
  <2>1. k \in 1..Len(s) /\ k < Len(s)
    BY <1>1, <1>2, PositionProperties
  <2>2. rotateQueueAfter(s, x) = t
    BY <1>2 DEF rotateQueueAfter
  <2> HIDE DEF k
  <2>3. /\ u \in Seq(S) /\ Len(u) = Len(s) - k /\ \A i \in 1..(Len(s) - k) : u[i] = s[i + k]
        /\ v \in Seq(S) /\ Len(v) = k /\ \A i \in 1..k : v[i] = s[i]
    BY <1>1, <2>1
  <2> HIDE DEF u, v
  <2>4. /\ t \in Seq(S) /\ Len(t) = Len(u) + Len(v)
        /\ \A i \in 1..Len(u) + Len(v) : t[i] = IF i <= Len(u) THEN u[i] ELSE v[i - Len(u)]
    BY <2>3, ConcatProperties
  <2> HIDE DEF t
  <2>5. DOMAIN s = 1..Len(s) /\ Len(s) \in Nat
    BY <1>1
  <2>6. ASSUME NEW i \in DOMAIN s PROVE p[i] \in DOMAIN s /\ t[i] = s[p[i]]
    <3>1. CASE i <= Len(s) - k
      BY <2>1, <2>3, <2>4, <2>5, <3>1
    <3>2. CASE ~(i <= Len(s) - k)
      <4>1. i - (Len(s) - k) \in 1..k /\ i \in 1..Len(u) + Len(v)
        BY <2>1, <2>3, <2>5, <3>2
      <4>2. t[i] = v[i - (Len(s) - k)]
        BY <2>3, <2>4, <3>2, <4>1
      <4> QED
        BY <2>1, <2>3, <2>5, <3>2, <4>1, <4>2
    <3> QED
      BY <3>1, <3>2
  <2>7. \A i, j \in DOMAIN s : p[i] = p[j] => i = j
    BY <2>1, <2>5
  <2>8. p \in [DOMAIN s -> DOMAIN s]
    BY <2>6
  <2> HIDE DEF p
  <2>9. Len(t) = Len(s)
    BY <2>1, <2>3, <2>4
  <2>10. t \in Seq(S) /\ \A i \in DOMAIN s : t[i] = s[p[i]]
    BY <2>4, <2>6
  <2>11. Lists(t, S)
    BY <2>7, <2>8, <2>9, <2>10, ListsMoved
  <2> QED
    BY <2>2, <2>11
<1>3. CASE ~(x \in Range(s) /\ Position(s, x) < Len(s))
  BY <1>3 DEF rotateQueueAfter
<1> QED
  BY <1>2, <1>3

\* Reset's order of the stored accounts.
LEMMA ListsOrdered ==
  ASSUME NEW S, NEW s, Lists(s, S), NEW holders, NEW t \in tokenHoldersFirst(s, holders)
  PROVE  Lists(t, S)
<1> DEFINE before(i, j) == \/ s[i] \in holders /\ s[j] \notin holders
                           \/ (s[i] \in holders) = (s[j] \in holders) /\ i < j
<1>1. PICK p \in [DOMAIN s -> DOMAIN s] :
        /\ t = [i \in DOMAIN s |-> s[p[i]]]
        /\ \A i, j \in DOMAIN s : i < j => before(p[i], p[j])
  BY DEF tokenHoldersFirst
<1>2. DOMAIN s = 1..Len(s) /\ Len(s) \in Nat /\ s \in Seq(S)
  BY DEF Lists
<1>3. ASSUME NEW i \in DOMAIN s PROVE ~before(i, i)
  BY <1>2
<1> HIDE DEF before
<1>4. \A i, j \in DOMAIN s : i < j => p[i] # p[j]
  BY <1>1, <1>3
<1>5. \A i, j \in DOMAIN s : p[i] = p[j] => i = j
  BY <1>2, <1>4
<1>6. t \in Seq(S)
  BY <1>2, TokenOrderType
<1>7. Len(t) = Len(s)
  BY <1>1, <1>2, <1>6
<1> QED
  BY <1>1, <1>5, <1>6, <1>7, ListsMoved

\* A list is as long as the set that it lists is large.
LEMMA ListsCardinality ==
  ASSUME NEW S, NEW s, Lists(s, S)
  PROVE  IsFiniteSet(S) /\ Cardinality(S) = Len(s)
<1>1. DOMAIN s = 1..Len(s) /\ Len(s) \in Nat /\ s \in [1..Len(s) -> S]
  BY DEF Lists
<1>2. s \in Bijection(1..Len(s), S)
  BY <1>1 DEF Lists, Bijection, Injection, Surjection, IsInjective
<1>3. ExistsBijection(1..Len(s), S)
  BY <1>2 DEF ExistsBijection
<1>4. IsFiniteSet(1..Len(s)) /\ Cardinality(1..Len(s)) = Len(s)
  <2>1. \A n \in Nat : IsFiniteSet(1..n) /\ Cardinality(1..n) = n
    BY FS_Interval
  <2> QED
    BY <1>1, <2>1
<1> QED
  BY <1>3, <1>4, FS_Bijection
=============================================================================
