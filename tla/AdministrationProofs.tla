------------------------ MODULE AdministrationProofs ------------------------
(***************************************************************************)
(* Theorems about Administration, for every set of administrators, every   *)
(* configuration and every number of failures.                             *)
(***************************************************************************)
EXTENDS Administration, FiniteSetTheorems, SequenceTheorems, WellFoundedInduction, TLAPS

-----------------------------------------------------------------------------
(***************************************************************************)
(* The least element, and the elements of a list that are kept.            *)
(***************************************************************************)

\* A set of natural numbers has a least element.
LEMMA Least ==
  ASSUME NEW S \in SUBSET Nat, S # {}
  PROVE  \E m \in S : \A n \in S : m <= n
<1> DEFINE R == OpToRel(<, Nat)
<1>1. IsWellFoundedOn(R, Nat)
  BY NatLessThanWellFounded
<1> HIDE DEF R
<1>2. \E x \in S : \A y \in S : ~ (<<y, x>> \in R)
  BY <1>1, WFMin
<1>3. \A x, y \in Nat : y < x => <<y, x>> \in R
  BY DEF R, OpToRel
<1>4. PICK x \in S : \A y \in S : ~ (<<y, x>> \in R)
  BY <1>2
<1>5. ASSUME NEW y \in S PROVE x <= y
  <2>1. x \in Nat /\ y \in Nat
    OBVIOUS
  <2>2. ~ (y < x)
    BY <1>3, <1>4, <2>1
  <2> QED
    BY <2>1, <2>2
<1> QED
  BY <1>5

\* A handler finds the first of the places where there is one.
LEMMA FirstIsOne ==
  ASSUME NEW S \in SUBSET Nat, S # {}
  PROVE  First(S) \in S
<1>1. \E i \in S : \A j \in S : i <= j
  BY Least
<1> QED
  BY <1>1 DEF First

\* A set of places has a last one.
LEMMA Greatest ==
  ASSUME NEW N \in Nat, NEW S \in SUBSET (1..N), S # {}
  PROVE  \E m \in S : \A n \in S : n <= m
<1>1. \A n \in S : n \in Nat /\ 1 <= n /\ n <= N
  OBVIOUS
<1> DEFINE B == {b \in Nat : \A n \in S : n <= b}
<1>2. N \in B
  BY <1>1
<1>3. PICK m \in B : \A b \in B : m <= b
  BY <1>2, Least
<1>4. m \in Nat /\ (\A n \in S : n <= m) /\ \A b \in Nat : (\A n \in S : n <= b) => m <= b
  BY <1>3
<1> HIDE DEF B
<1>5. PICK x \in S : TRUE
  OBVIOUS
<1>6. m - 1 \in Nat
  BY <1>1, <1>4, <1>5
<1>7. ~ \A n \in S : n <= m - 1
  BY <1>4, <1>6
<1>8. m \in S
  BY <1>1, <1>4, <1>7
<1> QED
  BY <1>4, <1>8

\* How many of the places are at or before i.
UpTo(places, i) == {j \in places : j <= i}

\* A place is the n-th for one n, and every n up to their number has its place.
LEMMA Enumeration ==
  ASSUME NEW N \in Nat, NEW P \in SUBSET (1..N)
  PROVE  /\ IsFiniteSet(P) /\ Cardinality(P) \in Nat
         /\ \A n \in 1..Cardinality(P) : \E i \in P : Cardinality(UpTo(P, i)) = n
<1>1. \A j \in P : j \in Nat /\ 1 <= j /\ j <= N
  OBVIOUS
<1>2. IsFiniteSet(1..N)
  BY FS_Interval
<1>3. IsFiniteSet(P) /\ Cardinality(P) \in Nat
  BY <1>2, FS_Subset, FS_CardinalityType
<1>4. \A i : IsFiniteSet(UpTo(P, i)) /\ Cardinality(UpTo(P, i)) \in Nat
  BY <1>3, FS_Subset, FS_CardinalityType DEF UpTo
<1>5. ASSUME NEW n \in 1..Cardinality(P)
      PROVE  \E i \in P : Cardinality(UpTo(P, i)) = n
  <2> DEFINE T == {i \in Nat : Cardinality(UpTo(P, i)) >= n}
  <2>1. UpTo(P, N) = P
    BY <1>1 DEF UpTo
  <2>2. N \in T
    BY <1>3, <2>1
  <2>3. PICK m \in T : \A i \in T : m <= i
    BY <2>2, Least
  <2>4. /\ m \in Nat /\ Cardinality(UpTo(P, m)) >= n
        /\ \A i \in Nat : Cardinality(UpTo(P, i)) >= n => m <= i
    BY <2>3
  <2> HIDE DEF T
  <2>5. Cardinality(UpTo(P, 0)) = 0
    <3>1. \A j \in P : ~ (j <= 0)
      BY <1>1
    <3>2. UpTo(P, 0) = {}
      BY <3>1 DEF UpTo
    <3> QED
      BY <3>2, FS_EmptySet
  <2>6. n \in Nat \ {0}
    BY <1>3
  <2>7. m # 0
    BY <2>4, <2>5, <2>6
  <2>8. m - 1 \in Nat /\ ~ (m <= m - 1)
    BY <2>4, <2>7
  <2> DEFINE below == Cardinality(UpTo(P, m - 1))
  <2>9. below \in Nat /\ ~ (below >= n)
    BY <1>4, <2>4, <2>8
  <2>10. \A j \in P : j # m => (j <= m <=> j <= m - 1)
    BY <1>1, <2>4
  <2>11. m \notin UpTo(P, m - 1)
    BY <2>8 DEF UpTo
  <2>12. m \in P
    <3> SUFFICES ASSUME m \notin P PROVE FALSE
      OBVIOUS
    <3>1. UpTo(P, m) = UpTo(P, m - 1)
      BY <2>10 DEF UpTo
    <3> QED
      BY <2>4, <2>9, <3>1
  <2>13. UpTo(P, m) = UpTo(P, m - 1) \union {m}
    BY <2>4, <2>8, <2>10, <2>12 DEF UpTo
  <2>14. Cardinality(UpTo(P, m)) = below + 1
    BY <1>4, <2>11, <2>13, FS_AddElement
  <2> HIDE DEF below
  <2>15. Cardinality(UpTo(P, m)) = n
    BY <2>4, <2>6, <2>9, <2>14
  <2> QED
    BY <2>12, <2>15
<1> QED
  BY <1>3, <1>5

\* The kept elements stand at places of their own in the list.
LEMMA KeptProperties ==
  ASSUME NEW S, NEW s \in Seq(S), NEW P \in SUBSET (DOMAIN s)
  PROVE  /\ Kept(s, P) \in Seq(S) /\ Len(Kept(s, P)) \in Nat
         /\ \E place \in [1..Len(Kept(s, P)) -> P] :
              /\ \A n \in 1..Len(Kept(s, P)) : Kept(s, P)[n] = s[place[n]]
              /\ \A n, m \in 1..Len(Kept(s, P)) : place[n] = place[m] => n = m
<1> DEFINE place == [n \in 1..Cardinality(P) |-> CHOOSE i \in P : Cardinality(UpTo(P, i)) = n]
<1>1. DOMAIN s = 1..Len(s) /\ Len(s) \in Nat /\ \A i \in DOMAIN s : s[i] \in S
  OBVIOUS
<1>2. /\ Cardinality(P) \in Nat
      /\ \A n \in 1..Cardinality(P) : \E i \in P : Cardinality(UpTo(P, i)) = n
  BY <1>1, Enumeration
<1>3. \A n \in 1..Cardinality(P) : place[n] \in P /\ Cardinality(UpTo(P, place[n])) = n
  BY <1>2
<1>4. Kept(s, P) = [n \in 1..Cardinality(P) |-> s[place[n]]]
  BY DEF Kept, UpTo
<1> HIDE DEF place
<1>5. Kept(s, P) \in [1..Cardinality(P) -> S]
  BY <1>1, <1>3, <1>4
<1>6. Kept(s, P) \in Seq(S) /\ Len(Kept(s, P)) = Cardinality(P)
  BY <1>2, <1>5, SeqDef
<1>7. place \in [1..Cardinality(P) -> P]
  BY <1>3 DEF place
<1>8. \A n, m \in 1..Cardinality(P) : place[n] = place[m] => n = m
  BY <1>3
<1> QED
  BY <1>2, <1>4, <1>6, <1>7, <1>8

\* A list of which everything is kept is the list.
LEMMA KeptAll ==
  ASSUME NEW S, NEW s \in Seq(S)
  PROVE  Kept(s, DOMAIN s) = s
<1>1. DOMAIN s = 1..Len(s) /\ Len(s) \in Nat /\ s = [i \in 1..Len(s) |-> s[i]]
  OBVIOUS
<1>2. Cardinality(DOMAIN s) = Len(s)
  BY <1>1, FS_Interval
<1>3. \A i \in DOMAIN s : {j \in DOMAIN s : j <= i} = 1..i
  BY <1>1
<1>4. \A i \in DOMAIN s : Cardinality({j \in DOMAIN s : j <= i}) = i
  <2> TAKE i \in DOMAIN s
  <2>1. i \in Int /\ 1 <= i
    BY <1>1
  <2>2. Cardinality(1..i) = i
    BY <2>1, FS_Interval
  <2> QED
    BY <1>3, <2>2
<1>5. \A n \in 1..Len(s) : (CHOOSE i \in DOMAIN s : Cardinality({j \in DOMAIN s : j <= i}) = n) = n
  BY <1>1, <1>4
<1> QED
  BY <1>1, <1>2, <1>5 DEF Kept

-----------------------------------------------------------------------------
(***************************************************************************)
(* Lists of accounts.                                                      *)
(***************************************************************************)

\* Every account can be addressed by an identifier of its own.
Addressable(accs) ==
  /\ accs \in Seq(Account)
  /\ \A i \in DOMAIN accs : Identifier(accs[i]) # Empty
  /\ DistinctAccounts(accs)

OwnTokens(accs) == \A i \in DOMAIN accs : accs[i].token \in Text({Identifier(accs[i])})

\* What the two hold of is what the store keeps.
Sound(accs) == Addressable(accs) /\ OwnTokens(accs)

\* A place of a list of accounts holds an account.
LEMMA AccountAt ==
  ASSUME NEW accs \in Seq(Account)
  PROVE  /\ DOMAIN accs = 1..Len(accs) /\ Len(accs) \in Nat
         /\ \A i \in DOMAIN accs : accs[i] \in Account
  OBVIOUS

\* A function on the first places is a list.
LEMMA IsSeq ==
  ASSUME NEW S, NEW n \in Nat, NEW f, f = [i \in 1..n |-> f[i]], \A i \in 1..n : f[i] \in S
  PROVE  f \in Seq(S)
<1>1. f \in [1..n -> S]
  OBVIOUS
<1> QED
  BY <1>1, SeqDef

\* An account that has an identifier has the key of that identifier alone.
LEMMA KeyIsIdentifier ==
  ASSUME NEW x \in Account, NEW y \in Account
  PROVE  /\ Identifier(x) # Empty /\ Identifier(x) = Identifier(y)
            => accountDedupeKey(x) = accountDedupeKey(y)
         /\ accountDedupeKey(x) = accountDedupeKey(y) => Identifier(x) = Identifier(y)
         /\ Identifier(x) \in Text(Emails \union Mobiles)
<1>1. /\ x.email \in Text(Emails) /\ x.mobile \in Text(Mobiles)
      /\ y.email \in Text(Emails) /\ y.mobile \in Text(Mobiles)
  BY DEF Account
<1>2. \A v : v \in Emails => v \notin Mobiles
  BY ConfigAssumption DEF ConfigAssumption
<1> QED
  BY <1>1, <1>2 DEF Identifier, accountDedupeKey, Text

\* Changing what is not the address leaves a list addressable.
LEMMA SameAddresses ==
  ASSUME NEW accs, Addressable(accs), NEW new \in Seq(Account), DOMAIN new = DOMAIN accs,
         \A i \in DOMAIN accs : new[i].email = accs[i].email /\ new[i].mobile = accs[i].mobile
  PROVE  /\ Addressable(new)
         /\ \A i \in DOMAIN accs : Identifier(new[i]) = Identifier(accs[i])
<1>1. \A i \in DOMAIN accs : /\ Identifier(new[i]) = Identifier(accs[i])
                             /\ accountDedupeKey(new[i]) = accountDedupeKey(accs[i])
  BY DEF Identifier, accountDedupeKey
<1> QED
  BY <1>1 DEF Addressable, DistinctAccounts

\* An account that nobody logged in with has no token.
LEMMA NewAccountsOwn ==
  ASSUME NEW accs \in Seq(NewAccount)
  PROVE  accs \in Seq(Account) /\ OwnTokens(accs)
<1>1. DOMAIN accs = 1..Len(accs) /\ \A i \in DOMAIN accs : accs[i] \in NewAccount
  OBVIOUS
<1>2. NewAccount \subseteq Account
  BY DEF NewAccount
<1> QED
  BY <1>1, <1>2, SeqMonotonic DEF OwnTokens, NewAccount, Text

\* What AppendNew keeps of the incoming accounts.
Fresh(accs, incoming) ==
  {i \in NewPlaces(accs, incoming) :
     \A j \in 1..(i - 1) : accountDedupeKey(incoming[j]) # accountDedupeKey(incoming[i])}

\* Appending the accounts a list does not have leaves it addressable.
LEMMA AppendNewSound ==
  ASSUME NEW accs, Sound(accs), NEW incoming \in Seq(NewAccount)
  PROVE  /\ Sound(AppendNew(accs, incoming))
         /\ \A i \in DOMAIN AppendNew(accs, incoming) :
              \/ \E j \in DOMAIN accs : AppendNew(accs, incoming)[i] = accs[j]
              \/ \E j \in DOMAIN incoming : AppendNew(accs, incoming)[i] = incoming[j]
<1> DEFINE P == Fresh(accs, incoming)
           add == Kept(incoming, P)
           all == AppendNew(accs, incoming)
<1>1. accs \in Seq(Account) /\ incoming \in Seq(Account) /\ OwnTokens(incoming)
  BY NewAccountsOwn DEF Sound, Addressable
<1>2. P \in SUBSET (DOMAIN incoming) /\ DOMAIN incoming = 1..Len(incoming) /\ Len(incoming) \in Nat
  BY <1>1 DEF Fresh, NewPlaces
<1>3. AppendNew(accs, incoming) = accs \o Kept(incoming, P)
  BY DEF AppendNew, Fresh
<1> HIDE DEF P
<1>4. /\ add \in Seq(Account) /\ Len(add) \in Nat
      /\ \E place \in [1..Len(add) -> P] :
           /\ \A n \in 1..Len(add) : add[n] = incoming[place[n]]
           /\ \A n, m \in 1..Len(add) : place[n] = place[m] => n = m
  BY <1>1, <1>2, KeptProperties
<1>5. all = accs \o add
  BY <1>3
<1>6. DOMAIN incoming \subseteq Nat \ {0}
  BY <1>2
<1>7. /\ \A p \in P : /\ p \in DOMAIN incoming /\ p \in Nat
                      /\ Identifier(incoming[p]) # Empty
                      /\ accountDedupeKey(incoming[p]) \notin DedupeKeys(accs)
      /\ \A p, q \in P : p # q => accountDedupeKey(incoming[p]) # accountDedupeKey(incoming[q])
  <2>1. \A p \in P : /\ p \in DOMAIN incoming /\ p \in Nat /\ 1 <= p
                     /\ Identifier(incoming[p]) # Empty
                     /\ accountDedupeKey(incoming[p]) \notin DedupeKeys(accs)
                     /\ \A j \in 1..(p - 1) :
                          accountDedupeKey(incoming[j]) # accountDedupeKey(incoming[p])
    BY <1>2, <1>6 DEF P, Fresh, NewPlaces
  <2>2. ASSUME NEW p \in P, NEW q \in P, p < q
        PROVE  accountDedupeKey(incoming[p]) # accountDedupeKey(incoming[q])
    <3>1. p \in 1..(q - 1)
      BY <2>1, <2>2
    <3> QED
      BY <2>1, <3>1
  <2>3. ASSUME NEW p \in P, NEW q \in P, p # q
        PROVE  accountDedupeKey(incoming[p]) # accountDedupeKey(incoming[q])
    <3>1. p < q \/ q < p
      BY <2>1, <2>3
    <3> QED
      BY <2>2, <3>1
  <2> QED
    BY <2>1, <2>3
<1> HIDE DEF add, all
<1>8. PICK place \in [1..Len(add) -> P] :
        /\ \A n \in 1..Len(add) : add[n] = incoming[place[n]]
        /\ \A n, m \in 1..Len(add) : place[n] = place[m] => n = m
  BY <1>4
<1>9. /\ all \in Seq(Account) /\ DOMAIN all = 1..(Len(accs) + Len(add))
      /\ \A i \in DOMAIN all : all[i] = IF i <= Len(accs) THEN accs[i] ELSE add[i - Len(accs)]
  BY <1>1, <1>4, <1>5, ConcatProperties
<1>10. Len(accs) \in Nat /\ DOMAIN accs = 1..Len(accs)
  BY <1>1
<1>11. ASSUME NEW i \in DOMAIN all
      PROVE  \/ i \in DOMAIN accs /\ all[i] = accs[i]
             \/ /\ i - Len(accs) \in 1..Len(add) /\ i \notin DOMAIN accs
                /\ all[i] = incoming[place[i - Len(accs)]]
  <2>1. CASE i <= Len(accs)
    BY <1>9, <1>10, <2>1
  <2>2. CASE ~ (i <= Len(accs))
    <3>1. i - Len(accs) \in 1..Len(add) /\ i \notin DOMAIN accs
      BY <1>4, <1>9, <1>10, <2>2
    <3> QED
      BY <1>8, <1>9, <2>2, <3>1
  <2> QED
    BY <2>1, <2>2
<1>12. \A n \in 1..Len(add) : place[n] \in P
  BY <1>8
<1>13. \A i \in DOMAIN all : Identifier(all[i]) # Empty /\ all[i].token \in Text({Identifier(all[i])})
  BY <1>1, <1>7, <1>11, <1>12 DEF Sound, Addressable, OwnTokens
<1>14. ASSUME NEW i \in DOMAIN all, NEW j \in DOMAIN all, i # j
       PROVE  accountDedupeKey(all[i]) # accountDedupeKey(all[j])
  <2>1. CASE i \in DOMAIN accs /\ j \in DOMAIN accs
    BY <1>11, <1>14, <2>1 DEF Sound, Addressable, DistinctAccounts
  <2>2. CASE i \in DOMAIN accs /\ j \notin DOMAIN accs
    BY <1>7, <1>11, <1>12, <2>2 DEF DedupeKeys
  <2>3. CASE i \notin DOMAIN accs /\ j \in DOMAIN accs
    BY <1>7, <1>11, <1>12, <2>3 DEF DedupeKeys
  <2>4. CASE i \notin DOMAIN accs /\ j \notin DOMAIN accs
    <3>1. i - Len(accs) # j - Len(accs)
      BY <1>9, <1>10, <1>4, <1>14
    <3>2. place[i - Len(accs)] # place[j - Len(accs)]
      BY <1>8, <1>11, <2>4, <3>1
    <3> QED
      BY <1>7, <1>11, <1>12, <2>4, <3>2
  <2> QED
    BY <2>1, <2>2, <2>3, <2>4
<1>15. Sound(all)
  BY <1>9, <1>13, <1>14 DEF Sound, Addressable, OwnTokens, DistinctAccounts
<1>16. \A i \in DOMAIN all : \/ \E j \in DOMAIN accs : all[i] = accs[j]
                             \/ \E j \in DOMAIN incoming : all[i] = incoming[j]
  BY <1>7, <1>11, <1>12
<1> QED
  BY <1>15, <1>16 DEF all

\* An import that lists an account twice takes it once.
LEMMA DedupeSound ==
  ASSUME NEW incoming \in Seq(NewAccount)
  PROVE  /\ Sound(normalizeAndDedupeAccounts(incoming))
         /\ \A i \in DOMAIN normalizeAndDedupeAccounts(incoming) :
              \E j \in DOMAIN incoming : normalizeAndDedupeAccounts(incoming)[i] = incoming[j]
<1>1. Sound(<< >>) /\ DOMAIN << >> = {}
  BY EmptySeq DEF Sound, Addressable, OwnTokens, DistinctAccounts
<1> QED
  BY <1>1, AppendNewSound DEF normalizeAndDedupeAccounts

\* addAccount leaves the list addressable.
LEMMA AppendSound ==
  ASSUME NEW accs, Sound(accs), NEW acc \in NewAccount, Identifier(acc) # Empty,
         \A i \in DOMAIN accs : /\ acc.email # Empty => accs[i].email # acc.email
                                /\ acc.mobile # Empty => accs[i].mobile # acc.mobile
  PROVE  /\ Sound(Append(accs, acc))
         /\ \A i \in DOMAIN Append(accs, acc) :
              Append(accs, acc)[i] = acc \/ \E j \in DOMAIN accs : Append(accs, acc)[i] = accs[j]
<1> DEFINE all == Append(accs, acc)
<1>1. accs \in Seq(Account) /\ acc \in Account /\ acc.token = Empty
  BY DEF Sound, Addressable, NewAccount
<1>2. DOMAIN accs = 1..Len(accs) /\ Len(accs) \in Nat
  BY <1>1
<1>3. /\ all \in Seq(Account) /\ DOMAIN all = 1..(Len(accs) + 1)
      /\ \A i \in DOMAIN all : IF i = Len(accs) + 1 THEN all[i] = acc
                               ELSE i \in DOMAIN accs /\ all[i] = accs[i]
  BY <1>1, <1>2, AppendProperties
<1> HIDE DEF all
<1>4. \A i \in DOMAIN accs : accountDedupeKey(accs[i]) # accountDedupeKey(acc)
  <2> TAKE i \in DOMAIN accs
  <2>1. CASE acc.email # Empty
    BY <2>1 DEF accountDedupeKey
  <2>2. CASE acc.email = Empty
    <3>1. acc.mobile # Empty
      BY <2>2 DEF Identifier
    <3> QED
      BY <2>2, <3>1 DEF accountDedupeKey
  <2> QED
    BY <2>1, <2>2
<1>5. \A i \in DOMAIN all : Identifier(all[i]) # Empty /\ all[i].token \in Text({Identifier(all[i])})
  BY <1>1, <1>3 DEF Sound, Addressable, OwnTokens, Text
<1>6. DistinctAccounts(all)
  BY <1>3, <1>4 DEF Sound, Addressable, DistinctAccounts
<1>7. Sound(all)
  BY <1>3, <1>5, <1>6 DEF Sound, Addressable, OwnTokens
<1> QED
  BY <1>3, <1>7 DEF all

\* deleteAccount leaves the list addressable.
LEMMA RemoveSound ==
  ASSUME NEW accs, Sound(accs), NEW k \in DOMAIN accs
  PROVE  /\ Sound(RemoveAt(accs, k))
         /\ \A i \in DOMAIN RemoveAt(accs, k) :
              \E j \in DOMAIN accs : RemoveAt(accs, k)[i] = accs[j]
<1> DEFINE left  == RemoveAt(accs, k)
           at(i) == IF i < k THEN i ELSE i + 1
<1>1. accs \in Seq(Account)
  BY DEF Sound, Addressable
<1>2. DOMAIN accs = 1..Len(accs) /\ Len(accs) \in Nat /\ k \in 1..Len(accs)
  BY <1>1
<1> DEFINE before == SubSeq(accs, 1, k - 1)
           after  == SubSeq(accs, k + 1, Len(accs))
<1>3. /\ before \in Seq(Account) /\ Len(before) = k - 1
      /\ \A i \in 1..(k - 1) : before[i] = accs[i]
  <2>1. k - 1 \in Int /\ \A i \in 1..(k - 1) : i \in DOMAIN accs /\ accs[i] \in Account
    BY <1>1, <1>2
  <2> QED
    BY <1>2, <2>1, SubSeqProperties
<1>4. /\ after \in Seq(Account) /\ Len(after) = Len(accs) - k
      /\ \A i \in 1..(Len(accs) - k) : after[i] = accs[i + k]
  <2>1. k + 1 \in Int /\ \A i \in (k + 1)..Len(accs) : i \in DOMAIN accs /\ accs[i] \in Account
    BY <1>1, <1>2
  <2>2. /\ after \in Seq(Account)
        /\ Len(after) = IF k + 1 <= Len(accs) THEN Len(accs) - (k + 1) + 1 ELSE 0
        /\ \A i \in 1..Len(after) : after[i] = accs[i + (k + 1) - 1]
    BY <1>2, <2>1, SubSeqProperties
  <2> HIDE DEF after
  <2>3. Len(after) = Len(accs) - k
    BY <1>2, <2>2
  <2> QED
    BY <1>2, <2>2, <2>3
<1>5. left = before \o after
  BY DEF RemoveAt
<1> HIDE DEF before, after, left
<1>6. /\ left \in Seq(Account) /\ DOMAIN left = 1..(Len(accs) - 1)
      /\ \A i \in DOMAIN left :
           left[i] = IF i <= k - 1 THEN before[i] ELSE after[i - (k - 1)]
  <2>1. /\ left \in Seq(Account) /\ Len(left) = Len(before) + Len(after)
        /\ \A i \in 1..(Len(before) + Len(after)) :
             left[i] = IF i <= Len(before) THEN before[i] ELSE after[i - Len(before)]
    BY <1>3, <1>4, <1>5, ConcatProperties
  <2>2. Len(before) + Len(after) = Len(accs) - 1 /\ DOMAIN left = 1..Len(left)
    BY <1>2, <1>3, <1>4, <2>1
  <2> QED
    BY <1>3, <2>1, <2>2
<1>7. \A i \in DOMAIN left : left[i] = accs[at(i)] /\ at(i) \in DOMAIN accs
  <2> TAKE i \in DOMAIN left
  <2>1. i \in Nat /\ 1 <= i /\ i <= Len(accs) - 1
    BY <1>2, <1>6
  <2>2. CASE i < k
    <3>1. i \in 1..(k - 1) /\ at(i) = i /\ i \in DOMAIN accs
      BY <1>2, <2>1, <2>2
    <3> QED
      BY <1>3, <1>6, <3>1
  <2>3. CASE ~ (i < k)
    <3>1. /\ i - (k - 1) \in 1..(Len(accs) - k) /\ i - (k - 1) + k = i + 1 /\ ~ (i <= k - 1)
          /\ at(i) = i + 1 /\ i + 1 \in DOMAIN accs
      BY <1>2, <2>1, <2>3
    <3> QED
      BY <1>4, <1>6, <3>1
  <2> QED
    BY <2>2, <2>3
<1>8. \A i, j \in DOMAIN left : i # j => at(i) # at(j)
  BY <1>2, <1>6
<1> HIDE DEF at
<1>9. Sound(left)
  BY <1>6, <1>7, <1>8 DEF Sound, Addressable, OwnTokens, DistinctAccounts
<1> QED
  BY <1>7, <1>9 DEF left

\* updateConfig changes only passwords.
LEMMA PasswordsSound ==
  ASSUME NEW accs, Sound(accs), NEW old \in Seq(Account)
  PROVE  /\ Sound(KeepPasswords(accs, old))
         /\ DOMAIN KeepPasswords(accs, old) = DOMAIN accs
         /\ \A i \in DOMAIN accs : KeepPasswords(accs, old)[i].proxy = accs[i].proxy
<1> DEFINE From(acc) == {i \in DOMAIN old : accountDedupeKey(old[i]) = accountDedupeKey(acc)}
           last(acc) == CHOOSE j \in From(acc) : \A k \in From(acc) : k <= j
           new == KeepPasswords(accs, old)
<1>1. accs \in Seq(Account)
  BY DEF Sound, Addressable
<1>2. DOMAIN accs = 1..Len(accs) /\ Len(accs) \in Nat /\ \A i \in DOMAIN accs : accs[i] \in Account
  BY <1>1, AccountAt
<1>3. DOMAIN old = 1..Len(old) /\ Len(old) \in Nat /\ \A i \in DOMAIN old : old[i] \in Account
  BY AccountAt
<1>4. new = [i \in DOMAIN accs |->
               IF accs[i].password = Empty /\ From(accs[i]) # {}
               THEN [accs[i] EXCEPT !.password = old[last(accs[i])].password] ELSE accs[i]]
  BY DEF KeepPasswords
<1>5. ASSUME NEW acc, From(acc) # {} PROVE last(acc) \in DOMAIN old
  <2>1. From(acc) \in SUBSET (1..Len(old))
    BY <1>3
  <2> HIDE DEF From
  <2>2. \E j \in From(acc) : \A k \in From(acc) : k <= j
    BY <1>3, <1>5, <2>1, Greatest
  <2>3. last(acc) \in From(acc)
    BY <2>2
  <2> QED
    BY <2>3 DEF From
<1> HIDE DEF From, last, new
<1>6. \A x \in Account : \A p \in Text(Passwords) :
        /\ [x EXCEPT !.password = p] \in Account
        /\ [x EXCEPT !.password = p].email = x.email /\ [x EXCEPT !.password = p].mobile = x.mobile
        /\ [x EXCEPT !.password = p].token = x.token /\ [x EXCEPT !.password = p].proxy = x.proxy
  BY DEF Account
<1>7. \A y \in Account : y.password \in Text(Passwords)
  BY DEF Account
<1>8. ASSUME NEW i \in DOMAIN accs
      PROVE  /\ new[i] \in Account
             /\ new[i].email = accs[i].email /\ new[i].mobile = accs[i].mobile
             /\ new[i].token = accs[i].token /\ new[i].proxy = accs[i].proxy
  <2>1. CASE accs[i].password = Empty /\ From(accs[i]) # {}
    <3>1. old[last(accs[i])].password \in Text(Passwords)
      BY <1>3, <1>5, <1>7, <2>1
    <3>2. new[i] = [accs[i] EXCEPT !.password = old[last(accs[i])].password]
      BY <1>4, <2>1
    <3> QED
      BY <1>2, <1>6, <3>1, <3>2
  <2>2. CASE ~ (accs[i].password = Empty /\ From(accs[i]) # {})
    BY <1>2, <1>4, <2>2
  <2> QED
    BY <2>1, <2>2
<1>9. DOMAIN new = DOMAIN accs /\ new = [i \in DOMAIN accs |-> new[i]]
  BY <1>4
<1>10. new \in Seq(Account)
  BY <1>2, <1>8, <1>9, IsSeq
<1>11. Addressable(new) /\ \A i \in DOMAIN accs : Identifier(new[i]) = Identifier(accs[i])
  BY <1>8, <1>9, <1>10, SameAddresses DEF Sound
<1> QED
  BY <1>8, <1>9, <1>11 DEF Sound, OwnTokens, new

\* A change of the proxies of accounts leaves the list addressable.
LEMMA ProxiesSound ==
  ASSUME NEW accs, Sound(accs), NEW proxy, DOMAIN proxy = DOMAIN accs,
         \A i \in DOMAIN accs : proxy[i] \in Text(ProxyIds)
  PROVE  LET new == [i \in DOMAIN accs |-> [accs[i] EXCEPT !.proxy = proxy[i]]] IN
         /\ Sound(new)
         /\ \A i \in DOMAIN accs : new[i].proxy = proxy[i]
<1> DEFINE new == [i \in DOMAIN accs |-> [accs[i] EXCEPT !.proxy = proxy[i]]]
<1>1. accs \in Seq(Account)
  BY DEF Sound, Addressable
<1>2. DOMAIN accs = 1..Len(accs) /\ Len(accs) \in Nat /\ \A i \in DOMAIN accs : accs[i] \in Account
  BY <1>1, AccountAt
<1>3. \A x \in Account : \A p \in Text(ProxyIds) :
        /\ [x EXCEPT !.proxy = p] \in Account
        /\ [x EXCEPT !.proxy = p].email = x.email /\ [x EXCEPT !.proxy = p].mobile = x.mobile
        /\ [x EXCEPT !.proxy = p].token = x.token /\ [x EXCEPT !.proxy = p].proxy = p
  BY DEF Account
<1>4. DOMAIN new = DOMAIN accs /\ new = [i \in DOMAIN accs |-> new[i]]
  OBVIOUS
<1>5. \A i \in DOMAIN accs :
        /\ new[i] \in Account
        /\ new[i].email = accs[i].email /\ new[i].mobile = accs[i].mobile
        /\ new[i].token = accs[i].token /\ new[i].proxy = proxy[i]
  BY <1>2, <1>3
<1> HIDE DEF new
<1>6. new \in Seq(Account)
  BY <1>2, <1>4, <1>5, IsSeq
<1>7. Addressable(new) /\ \A i \in DOMAIN accs : Identifier(new[i]) = Identifier(accs[i])
  BY <1>4, <1>5, <1>6, SameAddresses DEF Sound
<1>8. Sound(new) /\ \A i \in DOMAIN accs : new[i].proxy = proxy[i]
  BY <1>4, <1>5, <1>7 DEF Sound, OwnTokens
<1> QED
  BY <1>8 DEF new

\* A login stores the identifier of an account as its token; reading a saved
\* configuration clears the tokens.
LEMMA TokensSound ==
  ASSUME NEW accs, Addressable(accs), NEW token, DOMAIN token = DOMAIN accs,
         \A i \in DOMAIN accs : token[i] \in Text({Identifier(accs[i])})
  PROVE  LET new == [i \in DOMAIN accs |-> [accs[i] EXCEPT !.token = token[i]]] IN
         /\ Sound(new) /\ DOMAIN new = DOMAIN accs
         /\ \A i \in DOMAIN accs : Identifier(new[i]) = Identifier(accs[i])
<1> DEFINE new == [i \in DOMAIN accs |-> [accs[i] EXCEPT !.token = token[i]]]
<1>1. accs \in Seq(Account)
  BY DEF Addressable
<1>2. DOMAIN accs = 1..Len(accs) /\ Len(accs) \in Nat /\ \A i \in DOMAIN accs : accs[i] \in Account
  BY <1>1, AccountAt
<1>3. \A x \in Account : \A t \in Text(Emails \union Mobiles) :
        /\ [x EXCEPT !.token = t] \in Account
        /\ [x EXCEPT !.token = t].email = x.email /\ [x EXCEPT !.token = t].mobile = x.mobile
        /\ [x EXCEPT !.token = t].token = t
  BY DEF Account
<1>4. DOMAIN new = DOMAIN accs /\ new = [i \in DOMAIN accs |-> new[i]]
  OBVIOUS
<1>5. \A i \in DOMAIN accs : token[i] \in Text(Emails \union Mobiles)
  BY <1>2, KeyIsIdentifier DEF Text
<1>6. \A i \in DOMAIN accs :
        /\ new[i] \in Account
        /\ new[i].email = accs[i].email /\ new[i].mobile = accs[i].mobile
        /\ new[i].token = token[i]
  BY <1>2, <1>3, <1>5
<1> HIDE DEF new
<1>7. new \in Seq(Account)
  BY <1>2, <1>4, <1>6, IsSeq
<1>8. Addressable(new) /\ \A i \in DOMAIN accs : Identifier(new[i]) = Identifier(accs[i])
  BY <1>4, <1>6, <1>7, SameAddresses
<1>9. Sound(new) /\ DOMAIN new = DOMAIN accs
  BY <1>4, <1>6, <1>8 DEF Sound, OwnTokens
<1> QED
  BY <1>8, <1>9 DEF new

-----------------------------------------------------------------------------
(***************************************************************************)
(* Configurations.                                                         *)
(***************************************************************************)

\* The fields of a configuration, whatever they hold.
Fields(c) == [keys |-> c.keys, api |-> c.api, accounts |-> c.accounts, proxies |-> c.proxies,
              inflight |-> c.inflight, global |-> c.global, polled |-> c.polled,
              hash |-> c.hash, after |-> c.after, sync |-> c.sync]

\* A configuration whose synchronisation is any value.
IsConfig(c) ==
  /\ c = Fields(c)
  /\ c.api = [k \in DOMAIN c.api |-> c.api[k]]
  /\ Sound(c.accounts)
  /\ c.proxies \subseteq ProxyIds
  /\ c.inflight \in 0..MaxLimit /\ c.global \in 0..MaxLimit /\ c.after \in Nat

\* The two lists of keys agree.
Normal(c) == IsConfig(c) /\ c.keys = DOMAIN c.api

\* Two configurations differ in their keys only.
SameRest(x, y) ==
  /\ x.accounts = y.accounts /\ x.proxies = y.proxies
  /\ x.inflight = y.inflight /\ x.global = y.global
  /\ x.polled = y.polled /\ x.hash = y.hash /\ x.after = y.after /\ x.sync = y.sync

\* Normalising makes the lists of keys agree and changes nothing else.
LEMMA Normalized ==
  ASSUME NEW c, IsConfig(c)
  PROVE  /\ Normal(NormalizeCredentials(c)) /\ SameRest(NormalizeCredentials(c), c)
         /\ Normal(c) => NormalizeCredentials(c) = c
<1> DEFINE n == NormalizeCredentials(c)
<1>1. CASE DOMAIN c.api # {}
  <2>1. n = [c EXCEPT !.keys = DOMAIN c.api]
    BY <1>1 DEF NormalizeCredentials
  <2>2. n = Fields(n) /\ n.keys = DOMAIN n.api /\ SameRest(n, c) /\ n.api = c.api
    BY <2>1 DEF IsConfig, Fields, SameRest
  <2>3. Normal(c) => n = c
    BY <2>1 DEF Normal, IsConfig, Fields
  <2> HIDE DEF n
  <2>4. IsConfig(n)
    BY <2>2 DEF IsConfig, SameRest
  <2> QED
    BY <2>2, <2>3, <2>4 DEF Normal, n
<1>2. CASE DOMAIN c.api = {}
  <2> DEFINE api == apiKeysFromStrings(c.keys, << >>)
  <2>1. n = [c EXCEPT !.api = api]
    BY <1>2 DEF NormalizeCredentials
  <2>2. DOMAIN api = c.keys /\ api = [k \in DOMAIN api |-> api[k]]
    BY DEF apiKeysFromStrings
  <2>3. Normal(c) => api = c.api
    <3>1. Normal(c) => c.keys = {} /\ c.api = [k \in {} |-> c.api[k]]
      BY <1>2 DEF Normal, IsConfig
    <3> QED
      BY <2>2, <3>1
  <2> HIDE DEF api
  <2>4. n = Fields(n) /\ n.keys = c.keys /\ SameRest(n, c) /\ n.api = api
    BY <2>1 DEF IsConfig, Fields, SameRest
  <2>5. Normal(c) => n = c
    BY <2>1, <2>3 DEF Normal, IsConfig, Fields
  <2> HIDE DEF n
  <2>6. IsConfig(n)
    BY <2>2, <2>4 DEF IsConfig, SameRest
  <2> QED
    BY <2>2, <2>4, <2>5, <2>6 DEF Normal, n
<1> QED
  BY <1>1, <1>2

\* What Update puts in force.
Settled(c, base) == NormalizeCredentials(ReconcileCredentials(c, base))

\* Update settles the lists of keys; if neither changed, it changes nothing.
LEMMA SettledIsNormal ==
  ASSUME NEW c, IsConfig(c), NEW base, Normal(base)
  PROVE  /\ Normal(Settled(c, base)) /\ SameRest(Settled(c, base), c)
         /\ c.keys = base.keys /\ c.api = base.api => Settled(c, base) = c
<1> DEFINE api == IF c.keys # base.keys /\ c.api = base.api
                  THEN apiKeysFromStrings(c.keys, base.api) ELSE c.api
           r == ReconcileCredentials(c, base)
<1>1. r = [c EXCEPT !.api = api, !.keys = DOMAIN api]
  BY DEF ReconcileCredentials
<1>2. api = [k \in DOMAIN api |-> api[k]]
  BY DEF apiKeysFromStrings, IsConfig
<1>3. c.keys = base.keys => api = c.api
  OBVIOUS
<1> HIDE DEF api
<1>4. r = Fields(r) /\ r.keys = DOMAIN api /\ SameRest(r, c) /\ r.api = api
  BY <1>1 DEF IsConfig, Fields, SameRest
<1>5. ASSUME c.keys = base.keys, c.api = base.api PROVE r = c
  <2>1. c.keys = DOMAIN c.api
    BY <1>5 DEF Normal
  <2> QED
    BY <1>1, <1>3, <1>5, <2>1 DEF IsConfig, Fields
<1> HIDE DEF r
<1>6. IsConfig(r)
  BY <1>2, <1>4 DEF IsConfig, SameRest
<1>7. Normal(r)
  BY <1>4, <1>6 DEF Normal
<1> QED
  BY <1>4, <1>5, <1>6, <1>7, Normalized DEF Settled, r

\* Clearing the tokens of accounts that have identifiers drops none of them.
LEMMA Cleared ==
  ASSUME NEW accs, Addressable(accs)
  PROVE  LET new == ClearAccountTokens(accs) IN
         /\ Sound(new) /\ DropInvalidAccounts(new) = new /\ DOMAIN new = DOMAIN accs
         /\ ClearAccountTokens(new) = new
         /\ \A i \in DOMAIN accs : new[i].proxy = accs[i].proxy
<1> DEFINE new == ClearAccountTokens(accs)
           token == [i \in DOMAIN accs |-> Empty]
<1>1. new = [i \in DOMAIN accs |-> [accs[i] EXCEPT !.token = token[i]]]
  BY DEF ClearAccountTokens
<1>2. DOMAIN token = DOMAIN accs /\ \A i \in DOMAIN accs : token[i] \in Text({Identifier(accs[i])})
  BY DEF Text
<1>3. accs \in Seq(Account)
  BY DEF Addressable
<1>4. \A i \in DOMAIN accs : accs[i] \in Account
  BY <1>3, AccountAt
<1>5. \A i \in DOMAIN accs : new[i].proxy = accs[i].proxy /\ [new[i] EXCEPT !.token = Empty] = new[i]
  <2>1. \A x \in Account : LET y == [x EXCEPT !.token = Empty] IN
          y.proxy = x.proxy /\ [y EXCEPT !.token = Empty] = y
    BY DEF Account
  <2>2. \A i \in DOMAIN accs : new[i] = [accs[i] EXCEPT !.token = Empty]
    BY <1>1
  <2> HIDE DEF new
  <2> QED
    BY <1>4, <2>1, <2>2
<1> HIDE DEF token, new
<1>6. Sound(new) /\ DOMAIN new = DOMAIN accs
  BY <1>1, <1>2, TokensSound
<1>7. \A i \in DOMAIN new : Identifier(new[i]) # Empty
  BY <1>6 DEF Sound, Addressable
<1>8. new \in Seq(Account)
  BY <1>6 DEF Sound, Addressable
<1>9. new = [i \in DOMAIN new |-> new[i]]
  BY <1>1
<1>10. DropInvalidAccounts(new) = new
  <2>1. {i \in DOMAIN new : Identifier(new[i]) # Empty} = DOMAIN new
    BY <1>7
  <2> QED
    BY <1>8, <2>1, KeptAll DEF DropInvalidAccounts
<1>11. ClearAccountTokens(new) = new
  BY <1>5, <1>6, <1>9 DEF ClearAccountTokens
<1> QED
  BY <1>5, <1>6, <1>10, <1>11 DEF new

\* The account polled last, as far as it is saved.
SavedPolled(c) == IF c.inflight > 0 \/ c.global > 0 THEN c.polled ELSE Empty

\* What is saved is a configuration, even if the lists of keys did not agree.
LEMMA PersistedIsNormal ==
  ASSUME NEW c, IsConfig(c)
  PROVE  /\ Normal(Persisted(c))
         /\ Persisted(c).accounts = ClearAccountTokens(c.accounts)
         /\ Persisted(c).polled = SavedPolled(c)
         /\ Persisted(c).proxies = c.proxies /\ Persisted(c).inflight = c.inflight
         /\ Persisted(c).global = c.global /\ Persisted(c).hash = c.hash
         /\ Persisted(c).after = c.after /\ Persisted(c).sync = c.sync
<1> DEFINE accs == DropInvalidAccounts(ClearAccountTokens(c.accounts))
           polled == SavedPolled(c)
           s == [c EXCEPT !.accounts = accs, !.polled = polled]
<1>1. Addressable(c.accounts)
  BY DEF IsConfig, Sound
<1>2. accs = ClearAccountTokens(c.accounts) /\ Sound(accs)
  BY <1>1, Cleared
<1>3. Persisted(c) = NormalizeCredentials(s)
  BY DEF Persisted, SavedPolled
<1> HIDE DEF accs, polled
<1>4. /\ s = Fields(s) /\ s.keys = c.keys /\ s.api = c.api /\ s.accounts = accs
      /\ s.proxies = c.proxies /\ s.inflight = c.inflight /\ s.global = c.global
      /\ s.polled = polled /\ s.hash = c.hash /\ s.after = c.after /\ s.sync = c.sync
  <2>1. c = Fields(c)
    BY DEF IsConfig
  <2>2. s = [c EXCEPT !.accounts = accs, !.polled = polled]
    OBVIOUS
  <2> HIDE DEF s
  <2> QED
    BY <2>1, <2>2 DEF Fields
<1> HIDE DEF s
<1>5. IsConfig(s)
  BY <1>2, <1>4 DEF IsConfig
<1> QED
  BY <1>2, <1>3, <1>4, <1>5, Normalized DEF SameRest, polled

\* A configuration whose lists of keys agree is saved with the keys it has.
LEMMA PersistedShape ==
  ASSUME NEW c, Normal(c)
  PROVE  Persisted(c) = [c EXCEPT !.accounts = ClearAccountTokens(c.accounts),
                                  !.polled = SavedPolled(c)]
<1> DEFINE accs == DropInvalidAccounts(ClearAccountTokens(c.accounts))
           polled == SavedPolled(c)
           s == [c EXCEPT !.accounts = accs, !.polled = polled]
<1>1. Addressable(c.accounts)
  BY DEF Normal, IsConfig, Sound
<1>2. accs = ClearAccountTokens(c.accounts) /\ Sound(accs)
  BY <1>1, Cleared
<1>3. Persisted(c) = NormalizeCredentials(s)
  BY DEF Persisted, SavedPolled
<1> HIDE DEF accs, polled
<1>4. /\ s = Fields(s) /\ s.keys = c.keys /\ s.api = c.api /\ s.accounts = accs
      /\ s.proxies = c.proxies /\ s.inflight = c.inflight /\ s.global = c.global
      /\ s.after = c.after
  <2>1. c = Fields(c)
    BY DEF Normal, IsConfig
  <2>2. s = [c EXCEPT !.accounts = accs, !.polled = polled]
    OBVIOUS
  <2> HIDE DEF s
  <2> QED
    BY <2>1, <2>2 DEF Fields
<1>5. Normal(s)
  <2> HIDE DEF s
  <2> QED
    BY <1>2, <1>4 DEF Normal, IsConfig
<1>6. NormalizeCredentials(s) = s
  BY <1>5, Normalized DEF Normal
<1> QED
  BY <1>2, <1>3, <1>6 DEF polled

\* Saving what was read from a file writes the same file.
LEMMA PersistedTwice ==
  ASSUME NEW c, IsConfig(c)
  PROVE  Persisted(Persisted(c)) = Persisted(c)
<1> DEFINE p == Persisted(c)
<1>1. Normal(p)
  BY PersistedIsNormal
<1>2. p.accounts = ClearAccountTokens(c.accounts)
  BY PersistedIsNormal
<1>3. ClearAccountTokens(p.accounts) = p.accounts
  <2>1. Addressable(c.accounts)
    BY DEF IsConfig, Sound
  <2> QED
    BY <1>2, <2>1, Cleared
<1>4. SavedPolled(p) = p.polled
  <2>1. /\ p.polled = SavedPolled(c)
        /\ p.inflight = c.inflight /\ p.global = c.global
    BY PersistedIsNormal
  <2> QED
    BY <2>1 DEF SavedPolled
<1> HIDE DEF p
<1>5. Persisted(p) = [p EXCEPT !.accounts = p.accounts, !.polled = p.polled]
  BY <1>1, <1>3, <1>4, PersistedShape
<1>6. p = Fields(p)
  BY <1>1 DEF Normal, IsConfig
<1>7. Persisted(p) = p
  BY <1>5, <1>6 DEF Fields
<1> QED
  BY <1>7 DEF p

\* A saved configuration is as valid as the one in force.
LEMMA PersistedIsAsValid ==
  ASSUME NEW c, IsConfig(c)
  PROVE  ValidateConfig(Persisted(c)) <=> ValidateConfig(c)
<1> DEFINE p == Persisted(c)
<1>1. /\ p.accounts = ClearAccountTokens(c.accounts) /\ p.proxies = c.proxies
      /\ p.inflight = c.inflight /\ p.global = c.global
  BY PersistedIsNormal
<1>2. Addressable(c.accounts)
  BY DEF IsConfig, Sound
<1>3. /\ DOMAIN p.accounts = DOMAIN c.accounts
      /\ \A i \in DOMAIN c.accounts : p.accounts[i].proxy = c.accounts[i].proxy
  BY <1>1, <1>2, Cleared
<1> HIDE DEF p
<1>4. ValidateConfig(p) <=> ValidateConfig(c)
  BY <1>1, <1>3 DEF ValidateConfig, ValidateAccountProxyReferences
<1> QED
  BY <1>4 DEF p

\* The configuration of a file that was lost.
LEMMA EmptyIsNormal ==
  Normal(EmptyConfig) /\ ValidateConfig(EmptyConfig)
<1>1. Sound(<< >>) /\ DOMAIN << >> = {}
  BY EmptySeq DEF Sound, Addressable, OwnTokens, DistinctAccounts
<1>2. MaxLimit \in Nat
  BY ConfigAssumption DEF ConfigAssumption
<1> QED
  BY <1>1, <1>2 DEF EmptyConfig, Normal, IsConfig, Fields, ValidateConfig, ValidateRuntimeConfig,
     ValidateAccountProxyReferences

-----------------------------------------------------------------------------
(***************************************************************************)
(* The inductive invariant.                                                *)
(***************************************************************************)

\* The index has the identifiers of the accounts, each with its place.
IndexOf(accs, index) ==
  /\ DOMAIN index = {Identifier(accs[i]) : i \in DOMAIN accs}
  /\ \A i \in DOMAIN accs : index[Identifier(accs[i])] = i

\* What the store holds, in memory, on disk and in the environment.
Stored ==
  /\ Normal(cfg) /\ Normal(file) /\ Normal(env)
  /\ mode \in {"file", "env", "writeback"} /\ disk \in {"absent", "torn", "whole"}
  /\ failures \in Nat
  /\ disk = "whole" => file = Persisted(file)
  /\ up => IndexOf(cfg.accounts, accMap)

\* What a request knows at a stage.
Known(at, old) ==
  /\ at \in {"idle", "config", "test", "settings", "export", "uploaded", "login", "sign",
             "password"}
  /\ at = "config" => old \in Seq(Account)
  /\ at = "test" => old \in Emails \union Mobiles
  /\ at = "settings" =>
       /\ old = <<old[1], old[2], old[3], old[4]>>
       /\ old[1] \in 0..MaxLimit /\ old[2] \in 0..MaxLimit
       /\ ValidateRuntimeConfig(Positive(old[1], old[3]), Positive(old[2], old[4]))

Desks ==
  /\ desk = [a \in Admins |-> [at |-> desk[a].at, old |-> desk[a].old]]
  /\ \A a \in Admins : Known(desk[a].at, desk[a].old)

\* Unless something was not validated, everything is valid.
Validated ==
  ~unchecked => ValidateConfig(cfg) /\ ValidateConfig(env) /\ ValidateConfig(file)

\* Memory and file agree on what was asked for, and if no error was dropped on all
\* that is saved.
Asked(c) == [Persisted(c) EXCEPT !.polled = Empty, !.sync = << >>]
Saved ==
  up /\ ~fromEnv /\ ~told =>
    IF dropped THEN disk = "whole" => Asked(file) = Asked(cfg)
    ELSE disk = "whole" /\ file = Persisted(cfg)

\* The project has held what is recorded, and holds what the latest request is about
\* to record; otherwise, unless it went astray, it holds what is recorded.
Uploaded(a) == desk[a].at = "uploaded"
Syncing ==
  /\ env.sync = << >>
  /\ {cfg.sync, file.sync} \subseteq uploaded \union {<< >>}
  /\ \A a \in Admins : Uploaded(a) => desk[a].old \in uploaded
  /\ latest \subseteq Admins
  /\ \A a \in latest : Uploaded(a) /\ remote = desk[a].old
  /\ ~up /\ ~astray => file.sync = << >>
  /\ up /\ ~astray /\ (\A a \in Admins : ~Uploaded(a)) /\ cfg.sync # << >> => remote = cfg.sync

\* When a token was asked for, it was dated after the cutoff of that moment.
Dated(t, now) ==
  /\ t.asked \in 1..now /\ t.cutoff \in 0..t.asked
  /\ t.iat = IF t.cutoff >= t.asked THEN t.cutoff + 1 ELSE t.asked

\* What a request of a session has read is not of the future.
Timely(at, old, now) ==
  /\ at = "sign" => Dated(old, now)
  /\ at = "password" => old \in 0..now

Sessions ==
  /\ clock \in Nat \ {0} /\ envSecret \in BOOLEAN
  /\ area = "sessions" => {cfg.after, file.after, env.after} \subseteq 0..clock
  /\ \A a \in Admins : Timely(desk[a].at, desk[a].old, clock)
  /\ \A t \in sessions : Dated(t, clock) /\ (~envSecret => t.secret = t.hash)

IInv == Stored /\ Desks /\ Validated /\ Saved /\ Syncing /\ Sessions

-----------------------------------------------------------------------------
(***************************************************************************)
(* What Update keeps.                                                      *)
(***************************************************************************)

\* The index that an update builds leads to each account.
LEMMA IndexesIndex ==
  ASSUME NEW c, Addressable(c.accounts)
  PROVE  IndexOf(c.accounts, Indexes(c))
<1> DEFINE accs == c.accounts
           ids == {Identifier(accs[i]) : i \in DOMAIN accs} \ {Empty}
<1>1. /\ DOMAIN accs = 1..Len(accs) /\ Len(accs) \in Nat
      /\ \A i \in DOMAIN accs : accs[i] \in Account /\ Identifier(accs[i]) # Empty
  BY AccountAt DEF Addressable
<1>2. \A i, j \in DOMAIN accs : Identifier(accs[i]) = Identifier(accs[j]) => i = j
  BY <1>1, KeyIsIdentifier DEF Addressable, DistinctAccounts
<1>3. ids = {Identifier(accs[i]) : i \in DOMAIN accs}
  BY <1>1
<1>4. Indexes(c) = [id \in ids |-> CHOOSE i \in DOMAIN accs :
                      /\ Identifier(accs[i]) = id
                      /\ \A j \in DOMAIN accs : Identifier(accs[j]) = id => j <= i]
  BY DEF Indexes
<1> HIDE DEF accs, ids
<1>5. ASSUME NEW i \in DOMAIN accs
      PROVE  Indexes(c)[Identifier(accs[i])] = i
  <2>1. \A j \in DOMAIN accs : Identifier(accs[j]) = Identifier(accs[i]) => j <= i
    BY <1>1, <1>2
  <2> QED
    BY <1>2, <1>3, <1>4, <2>1
<1>6. DOMAIN Indexes(c) = ids
  BY <1>4
<1> QED
  BY <1>3, <1>5, <1>6 DEF IndexOf, accs

\* What a save of configuration c leaves behind.
SavedAs(c, answers) ==
  \/ fromEnv /\ fromEnv' = fromEnv /\ disk' = disk /\ file' = file
  \/ disk' = "whole" /\ file' = Persisted(c) /\ ~told' /\ ~dropped'
  \/ /\ (disk' = disk /\ file' = file) \/ (disk' = "torn" /\ file' = EmptyConfig)
     /\ fromEnv' = fromEnv
     /\ told' <=> answers \/ told
     /\ dropped' <=> ~answers \/ dropped

\* A save is skipped, succeeds, or fails before or after the file was truncated.
LEMMA SaveEffect ==
  ASSUME failures \in Nat, NEW c, NEW answers \in BOOLEAN, Save(c, answers)
  PROVE  failures' \in Nat /\ (failures' = 0 => failures = 0) /\ SavedAs(c, answers)
<1>1. PICK ok \in BOOLEAN :
        /\ saveLocked(c, ok)
        /\ told'    = ((~ok /\ answers)  \/ (told    /\ (~ok \/ SkipsSave)))
        /\ dropped' = ((~ok /\ ~answers) \/ (dropped /\ (~ok \/ SkipsSave)))
  BY DEF Save
<1>2. /\ told'    <=> (~ok /\ answers)  \/ (told    /\ (~ok \/ SkipsSave))
      /\ dropped' <=> (~ok /\ ~answers) \/ (dropped /\ (~ok \/ SkipsSave))
  BY <1>1
<1>3. \/ SkipsSave /\ ok /\ KeepFile /\ UNCHANGED <<fromEnv, failures>>
      \/ ~SkipsSave /\ ok /\ Write(c) /\ UNCHANGED failures
      \/ ~SkipsSave /\ ~ok /\ failures' = failures + 1 /\ (KeepFile \/ Tear) /\ UNCHANGED fromEnv
  BY <1>1 DEF saveLocked
<1>4. failures' \in Nat /\ (failures' = 0 => failures = 0)
  <2>1. failures' = failures \/ failures' = failures + 1
    BY <1>3
  <2> QED
    BY <2>1
<1>5. SavedAs(c, answers)
  <2>1. CASE SkipsSave /\ ok /\ KeepFile /\ UNCHANGED <<fromEnv, failures>>
    BY <2>1 DEF SkipsSave, KeepFile, SavedAs
  <2>2. CASE ~SkipsSave /\ ok /\ Write(c)
    BY <1>2, <2>2 DEF Write, SavedAs
  <2>3. CASE ~SkipsSave /\ ~ok /\ (KeepFile \/ Tear) /\ UNCHANGED fromEnv
    <3>1. /\ told' <=> answers \/ told
          /\ dropped' <=> ~answers \/ dropped
      BY <1>2, <2>3, Zenon
    <3>2. /\ (disk' = disk /\ file' = file) \/ (disk' = "torn" /\ file' = EmptyConfig)
          /\ fromEnv' = fromEnv
      BY <2>3 DEF KeepFile, Tear
    <3> QED
      BY <3>1, <3>2, Zenon DEF SavedAs
  <2> QED
    BY <1>3, <2>1, <2>2, <2>3, Zenon
<1> QED
  BY <1>4, <1>5

\* What Update and its save do to the variables of the store.
LEMMA UpdateEffect ==
  ASSUME Stored, NEW c, IsConfig(c), NEW answers \in BOOLEAN, Update(c, answers)
  PROVE  /\ cfg' = Settled(c, cfg) /\ Normal(cfg') /\ SameRest(cfg', c)
         /\ up /\ up' = up /\ mode' = mode /\ env' = env
         /\ accMap' = Indexes(cfg')
         /\ failures' \in Nat /\ (failures' = 0 => failures = 0)
         /\ SavedAs(cfg', answers)
<1> DEFINE new == Settled(c, cfg)
<1>1. Normal(new) /\ SameRest(new, c)
  BY SettledIsNormal DEF Stored
<1>2. cfg' = new /\ accMap' = Indexes(new) /\ up /\ UNCHANGED <<mode, env, up>> /\ Save(new, answers)
  BY DEF Update, Install, rebuildIndexes, Settled
<1>3. failures \in Nat
  BY DEF Stored
<1> HIDE DEF new
<1>4. failures' \in Nat /\ (failures' = 0 => failures = 0) /\ SavedAs(new, answers)
  BY <1>2, <1>3, SaveEffect
<1> QED
  BY <1>1, <1>2, <1>4 DEF new

\* A configuration that is in order is saved in order.
LEMMA SavedIsStored ==
  ASSUME Stored, Normal(cfg'), UNCHANGED <<mode, env>>, failures' \in Nat,
         NEW answers \in BOOLEAN, SavedAs(cfg', answers), IndexOf(cfg'.accounts, accMap')
  PROVE  Stored'
<1>1. \/ disk' = disk /\ file' = file
      \/ disk' = "whole" /\ file' = Persisted(cfg')
      \/ disk' = "torn" /\ file' = EmptyConfig
  BY DEF SavedAs
<1>2. IsConfig(cfg')
  BY DEF Normal
<1>3. Normal(file') /\ (disk' = "whole" => file' = Persisted(file'))
  BY <1>1, <1>2, PersistedIsNormal, PersistedTwice, EmptyIsNormal DEF Stored
<1>4. disk' \in {"absent", "torn", "whole"}
  BY <1>1 DEF Stored
<1> QED
  BY <1>3, <1>4 DEF Stored

\* What was answered as done is in the file also after the next save.
LEMMA SavedIsSaved ==
  ASSUME Stored, Saved, up, NEW answers \in BOOLEAN, SavedAs(cfg', answers),
         answers \/ Asked(cfg') = Asked(cfg)
  PROVE  Saved'
<1>1. Asked(Persisted(cfg)) = Asked(cfg)
  BY PersistedTwice DEF Asked, Stored, Normal
<1>2. CASE fromEnv /\ fromEnv' = fromEnv
  BY <1>2 DEF Saved
<1>3. CASE disk' = "whole" /\ file' = Persisted(cfg') /\ ~dropped'
  BY <1>3 DEF Saved
<1>4. CASE /\ (disk' = disk /\ file' = file) \/ disk' = "torn"
           /\ fromEnv' = fromEnv
           /\ told' <=> answers \/ told
           /\ dropped' <=> ~answers \/ dropped
  <2>1. CASE answers \/ told \/ fromEnv
    BY <1>4, <2>1, Zenon DEF Saved
  <2>2. CASE ~answers /\ ~told /\ ~fromEnv
    <3>1. disk = "whole" => Asked(file) = Asked(cfg)
      BY <1>1, <2>2 DEF Saved
    <3>2. disk' = "whole" => Asked(file') = Asked(cfg')
      BY <1>4, <2>2, <3>1
    <3>3. dropped'
      BY <1>4, <2>2
    <3> QED
      BY <3>2, <3>3 DEF Saved
  <2> QED
    BY <2>1, <2>2, Zenon
<1> QED
  BY <1>2, <1>3, <1>4, Zenon DEF SavedAs

\* A configuration that is validated is saved valid.
LEMMA SavedIsValid ==
  ASSUME Validated, IsConfig(cfg'), env' = env, NEW answers, SavedAs(cfg', answers),
         ~unchecked' => ~unchecked /\ ValidateConfig(cfg')
  PROVE  Validated'
<1>1. file' \in {file, EmptyConfig, Persisted(cfg')}
  BY DEF SavedAs
<1>2. ValidateConfig(Persisted(cfg')) <=> ValidateConfig(cfg')
  BY PersistedIsAsValid
<1> QED
  BY <1>1, <1>2, EmptyIsNormal DEF Validated

\* What is saved has the cutoff of the configuration.
LEMMA SavedIsTimely ==
  ASSUME IsConfig(cfg'), NEW answers, SavedAs(cfg', answers)
  PROVE  file'.after \in {file.after, 0, cfg'.after}
<1>1. Persisted(cfg').after = cfg'.after /\ EmptyConfig.after = 0
  BY PersistedIsNormal DEF EmptyConfig
<1> QED
  BY <1>1 DEF SavedAs

\* An update leaves the store in order.
LEMMA UpdateStored ==
  ASSUME Stored, NEW c, IsConfig(c), NEW answers \in BOOLEAN, Update(c, answers)
  PROVE  Stored'
<1>1. /\ Normal(cfg') /\ UNCHANGED <<mode, env>> /\ accMap' = Indexes(cfg') /\ failures' \in Nat
      /\ SavedAs(cfg', answers)
  BY UpdateEffect
<1>2. IndexOf(cfg'.accounts, accMap')
  BY <1>1, IndexesIndex DEF Normal, IsConfig, Sound
<1> QED
  BY <1>1, <1>2, SavedIsStored

\* What administrators ask for is all of a configuration but the tokens, the account
\* polled last and the record of a synchronisation.
LEMMA AskedSame ==
  ASSUME NEW c, Normal(c), NEW d, Normal(d),
         c.api = d.api, c.proxies = d.proxies, c.inflight = d.inflight, c.global = d.global,
         c.hash = d.hash, c.after = d.after,
         ClearAccountTokens(c.accounts) = ClearAccountTokens(d.accounts)
  PROVE  Asked(c) = Asked(d)
<1> DEFINE wanted(x) ==
             [keys |-> DOMAIN x.api, api |-> x.api, accounts |-> ClearAccountTokens(x.accounts),
              proxies |-> x.proxies, inflight |-> x.inflight, global |-> x.global,
              polled |-> Empty, hash |-> x.hash, after |-> x.after, sync |-> << >>]
<1>1. ASSUME NEW x, Normal(x)
      PROVE  Asked(x) = wanted(x)
  <2> DEFINE p == Persisted(x)
             accs == ClearAccountTokens(x.accounts)
             polled == SavedPolled(x)
  <2>1. p = [x EXCEPT !.accounts = accs, !.polled = polled]
    BY <1>1, PersistedShape
  <2>2. x = Fields(x) /\ x.keys = DOMAIN x.api
    BY <1>1 DEF Normal, IsConfig
  <2>3. Asked(x) = [p EXCEPT !.polled = Empty, !.sync = << >>]
    BY DEF Asked
  <2>4. wanted(x) = [keys |-> DOMAIN x.api, api |-> x.api, accounts |-> accs,
                     proxies |-> x.proxies, inflight |-> x.inflight, global |-> x.global,
                     polled |-> Empty, hash |-> x.hash, after |-> x.after, sync |-> << >>]
    OBVIOUS
  <2> HIDE DEF p, accs, polled, wanted
  <2> QED
    BY <2>1, <2>2, <2>3, <2>4 DEF Fields
<1>2. Asked(c) = wanted(c) /\ Asked(d) = wanted(d)
  BY <1>1
<1> QED
  BY <1>2

\* A step of one request leaves the desks of the others.
LEMMA DeskStep ==
  ASSUME Desks, NEW a \in Admins, NEW at, NEW old, Known(at, old),
         desk' = [desk EXCEPT ![a] = [at |-> at, old |-> old]]
  PROVE  /\ Desks'
         /\ desk'[a].at = at /\ desk'[a].old = old
         /\ \A b \in Admins : b # a => desk'[b].at = desk[b].at /\ desk'[b].old = desk[b].old
<1>1. DOMAIN desk = Admins /\ \A b \in Admins : desk[b] = [at |-> desk[b].at, old |-> desk[b].old]
  BY DEF Desks
<1>2. /\ desk'[a].at = at /\ desk'[a].old = old /\ DOMAIN desk' = Admins
      /\ \A b \in Admins : desk'[b] = IF b = a THEN [at |-> at, old |-> old] ELSE desk[b]
  BY <1>1
<1>3. \A b \in Admins : /\ desk'[b] = [at |-> desk'[b].at, old |-> desk'[b].old]
                        /\ Known(desk'[b].at, desk'[b].old)
  BY <1>1, <1>2 DEF Desks
<1>4. desk' = [b \in Admins |-> desk'[b]]
  BY <1>1
<1>5. desk' = [b \in Admins |-> [at |-> desk'[b].at, old |-> desk'[b].old]]
  BY <1>3, <1>4
<1> QED
  BY <1>2, <1>3, <1>5 DEF Desks

\* A request that is done.
LEMMA DoneStep ==
  ASSUME Desks, NEW a \in Admins, Done(a)
  PROVE  /\ Desks'
         /\ desk'[a].at = "idle"
         /\ \A b \in Admins : b # a => desk'[b].at = desk[b].at /\ desk'[b].old = desk[b].old
<1>1. Known("idle", << >>)
  BY DEF Known
<1> QED
  BY <1>1, DeskStep DEF Done, Idle

\* The desks of an update: untouched, or one request is done with it.
Finishes == desk' = desk \/ \E a \in Admins : ~Uploaded(a) /\ Done(a)

\* Finishing leaves the synchronisation and the sessions under way as they were.
LEMMA FinishesEffect ==
  ASSUME Desks, Finishes
  PROVE  /\ Desks'
         /\ \A b \in Admins : \/ desk'[b].at = desk[b].at /\ desk'[b].old = desk[b].old
                              \/ desk'[b].at = "idle" /\ ~Uploaded(b)
<1>1. CASE desk' = desk
  BY <1>1 DEF Desks
<1>2. CASE \E a \in Admins : ~Uploaded(a) /\ Done(a)
  BY <1>2, DoneStep
<1> QED
  BY <1>1, <1>2 DEF Finishes

\* Nothing about sessions changes but what the requests know.
LEMMA SessionsKept ==
  ASSUME Sessions, UNCHANGED <<sessionVars, area>>,
         area = "sessions" => {cfg'.after, file'.after, env'.after} \subseteq 0..clock,
         \A b \in Admins : \/ desk'[b].at = desk[b].at /\ desk'[b].old = desk[b].old
                           \/ Timely(desk'[b].at, desk'[b].old, clock)
  PROVE  Sessions'
<1>1. \A b \in Admins : Timely(desk'[b].at, desk'[b].old, clock)
  BY DEF Sessions
<1> QED
  BY <1>1 DEF Sessions, sessionVars

\* What is saved has the synchronisation of the configuration.
LEMMA SavedIsInStep ==
  ASSUME IsConfig(cfg'), NEW answers, SavedAs(cfg', answers)
  PROVE  file'.sync \in {file.sync, << >>, cfg'.sync}
<1>1. Persisted(cfg').sync = cfg'.sync /\ EmptyConfig.sync = << >>
  BY PersistedIsNormal DEF EmptyConfig
<1> QED
  BY <1>1 DEF SavedAs

\* A step that leaves the uploads and the record alone.
LEMMA SyncKept ==
  ASSUME Syncing, UNCHANGED <<syncVars, env, up>>, cfg'.sync = cfg.sync,
         up \/ file'.sync = file.sync, file'.sync \in {file.sync, << >>, cfg'.sync},
         \A b \in Admins : \/ desk'[b].at = desk[b].at /\ desk'[b].old = desk[b].old
                           \/ desk'[b].at # "uploaded" /\ ~Uploaded(b)
  PROVE  Syncing'
<1>1. \A b \in Admins : /\ Uploaded(b)' <=> Uploaded(b)
                        /\ Uploaded(b) => desk'[b].old = desk[b].old
  BY DEF Uploaded
<1>2. /\ remote' = remote /\ uploaded' = uploaded /\ latest' = latest
      /\ astray' = astray /\ env' = env /\ up' = up
  BY DEF syncVars
<1>3. {cfg'.sync, file'.sync} \subseteq uploaded \union {<< >>}
  BY DEF Syncing
<1>4. \A b \in latest : Uploaded(b)' /\ remote' = desk'[b].old
  BY <1>1, <1>2 DEF Syncing
<1> QED
  BY <1>1, <1>2, <1>3, <1>4 DEF Syncing

\* A change of the configuration by a request, or by the pool.
LEMMA ChangeStep ==
  ASSUME IInv, NEW c, IsConfig(c), NEW answers \in BOOLEAN, Update(c, answers),
         answers \/ c = [cfg EXCEPT !.polled = c.polled],
         c.sync = cfg.sync,
         area = "sessions" => c.after \in 0..clock,
         ~unchecked' => ~unchecked /\ (ValidateConfig(cfg) => ValidateConfig(c)),
         Finishes,
         UNCHANGED <<syncVars, sessionVars, area>>
  PROVE  IInv'
<1>1. Stored /\ Desks /\ Validated /\ Saved /\ Syncing /\ Sessions
  BY DEF IInv
<1>2. /\ cfg' = Settled(c, cfg) /\ Normal(cfg') /\ SameRest(cfg', c)
      /\ up /\ up' = up /\ env' = env
      /\ failures' \in Nat /\ (failures' = 0 => failures = 0)
      /\ SavedAs(cfg', answers) /\ IsConfig(cfg')
  BY <1>1, UpdateEffect DEF Normal
<1>3. Stored'
  BY <1>1, UpdateStored
<1>4. /\ Desks'
      /\ \A b \in Admins : \/ desk'[b].at = desk[b].at /\ desk'[b].old = desk[b].old
                           \/ desk'[b].at = "idle" /\ ~Uploaded(b)
  BY <1>1, FinishesEffect
<1>5. Validated'
  <2>1. ~unchecked' => ~unchecked /\ ValidateConfig(c)
    BY <1>1 DEF Validated
  <2>2. ValidateConfig(cfg') <=> ValidateConfig(c)
    BY <1>2 DEF SameRest, ValidateConfig, ValidateAccountProxyReferences
  <2> QED
    BY <1>1, <1>2, <2>1, <2>2, SavedIsValid
<1>6. Saved'
  <2>1. ASSUME ~answers PROVE Asked(cfg') = Asked(cfg)
    <3>1. c = [cfg EXCEPT !.polled = c.polled]
      BY <2>1
    <3>2. Normal(cfg) /\ cfg = Fields(cfg)
      BY <1>1 DEF Stored, Normal, IsConfig
    <3>3. /\ c.keys = cfg.keys /\ c.api = cfg.api /\ c.accounts = cfg.accounts
          /\ c.proxies = cfg.proxies /\ c.inflight = cfg.inflight /\ c.global = cfg.global
          /\ c.hash = cfg.hash /\ c.after = cfg.after
      BY <3>1, <3>2 DEF Fields
    <3>4. cfg' = c
      BY <1>2, <3>2, <3>3, SettledIsNormal
    <3> QED
      BY <1>2, <3>2, <3>3, <3>4, AskedSame
  <2> QED
    BY <1>1, <1>2, <2>1, SavedIsSaved
<1>7. Syncing'
  <2>1. cfg'.sync = cfg.sync
    BY <1>2 DEF SameRest
  <2>2. file'.sync \in {file.sync, << >>, cfg'.sync}
    BY <1>2, SavedIsInStep
  <2> QED
    BY <1>1, <1>2, <1>4, <2>1, <2>2, SyncKept
<1>8. Sessions'
  <2>1. \A b \in Admins : \/ desk'[b].at = desk[b].at /\ desk'[b].old = desk[b].old
                          \/ Timely(desk'[b].at, desk'[b].old, clock)
    BY <1>4 DEF Timely
  <2>2. area = "sessions" => {cfg'.after, file'.after, env'.after} \subseteq 0..clock
    <3>1. file'.after \in {file.after, 0, cfg'.after}
      BY <1>2, SavedIsTimely
    <3> QED
      BY <1>1, <1>2, <3>1 DEF SameRest, Sessions
  <2> QED
    BY <1>1, <2>1, <2>2, SessionsKept
<1> QED
  BY <1>3, <1>4, <1>5, <1>6, <1>7, <1>8 DEF IInv

-----------------------------------------------------------------------------
(***************************************************************************)
(* The other kinds of steps.                                               *)
(***************************************************************************)

\* The store stays as it is.
LEMMA StoreSame ==
  ASSUME Stored, Validated, Saved, UNCHANGED <<storeVars, unchecked>>
  PROVE  Stored' /\ Validated' /\ Saved'
<1>1. /\ mode' = mode /\ env' = env /\ disk' = disk /\ file' = file /\ up' = up /\ cfg' = cfg
      /\ fromEnv' = fromEnv /\ accMap' = accMap /\ failures' = failures /\ told' = told
      /\ dropped' = dropped /\ unchecked' = unchecked
  BY DEF storeVars
<1>2. Stored'
  BY <1>1 DEF Stored
<1>3. Validated'
  BY <1>1 DEF Validated
<1>4. Saved'
  BY <1>1 DEF Saved
<1> QED
  BY <1>2, <1>3, <1>4

\* A request reads something and goes on.
LEMMA ReadStep ==
  ASSUME IInv, NEW a \in Admins, NEW at, NEW old, Known(at, old), Timely(at, old, clock),
         ~Uploaded(a), at # "uploaded",
         desk' = [desk EXCEPT ![a] = [at |-> at, old |-> old]],
         UNCHANGED <<storeVars, syncVars, unchecked, sessionVars, area>>
  PROVE  IInv'
<1>1. Stored /\ Desks /\ Validated /\ Saved /\ Syncing /\ Sessions
  BY DEF IInv
<1>2. Stored' /\ Validated' /\ Saved'
  BY <1>1, StoreSame
<1>3. /\ Desks'
      /\ desk'[a].at = at /\ desk'[a].old = old
      /\ \A b \in Admins : b # a => desk'[b].at = desk[b].at /\ desk'[b].old = desk[b].old
  BY <1>1, DeskStep
<1>4. Syncing'
  <2>1. env' = env /\ up' = up /\ file' = file /\ cfg' = cfg
    BY DEF storeVars
  <2> QED
    BY <1>1, <1>3, <2>1, SyncKept
<1>5. Sessions'
  <2>1. \A b \in Admins : \/ desk'[b].at = desk[b].at /\ desk'[b].old = desk[b].old
                          \/ Timely(desk'[b].at, desk'[b].old, clock)
    BY <1>3
  <2>2. area = "sessions" => {cfg'.after, file'.after, env'.after} \subseteq 0..clock
    BY <1>1 DEF Sessions, storeVars
  <2> QED
    BY <1>1, <2>1, <2>2, SessionsKept
<1> QED
  BY <1>2, <1>3, <1>4, <1>5 DEF IInv

\* Nothing changes.
LEMMA StutterStep ==
  ASSUME IInv, UNCHANGED vars
  PROVE  IInv'
<1>1. Stored /\ Desks /\ Validated /\ Saved /\ Syncing /\ Sessions
  BY DEF IInv
<1>2. Stored' /\ Validated' /\ Saved'
  BY <1>1, StoreSame DEF vars, adminVars, auditVars
<1>3. Desks'
  BY <1>1 DEF vars, adminVars, Desks
<1>4. Syncing'
  BY <1>1, SyncKept DEF vars, storeVars, adminVars
<1>5. Sessions'
  BY <1>1 DEF vars, storeVars, adminVars, sessionVars, Sessions
<1> QED
  BY <1>2, <1>3, <1>4, <1>5 DEF IInv

\* The upload of a synchronisation, or its failure.
LEMMA UpsertStep ==
  ASSUME IInv, NEW a \in Admins, upsertEnv(a), UNCHANGED <<sessionVars, area>>
  PROVE  IInv'
<1>1. Stored /\ Desks /\ Validated /\ Saved /\ Syncing /\ Sessions
  BY DEF IInv
<1>2. up /\ desk[a].at = "export" /\ UNCHANGED <<storeVars, unchecked>>
  BY DEF upsertEnv, auditVars
<1>3. Stored' /\ Validated' /\ Saved'
  BY <1>1, <1>2, StoreSame
<1>4. env' = env /\ up' = up /\ file' = file /\ cfg' = cfg
  BY <1>2 DEF storeVars
<1>5. area = "sessions" => {cfg'.after, file'.after, env'.after} \subseteq 0..clock
  BY <1>1, <1>4 DEF Sessions
<1> DEFINE Taken == /\ Uploads(desk[a].old)
                    /\ latest' = {a}
                    /\ desk' = [desk EXCEPT ![a].at = "uploaded"]
                    /\ UNCHANGED astray
           Over  == \/ UNCHANGED syncVars
                    \/ Uploads(desk[a].old) /\ latest' = {} /\ astray' = TRUE
<1>6. CASE Taken
  <2>1. desk' = [desk EXCEPT ![a] = [at |-> "uploaded", old |-> desk[a].old]]
    <3>1. desk[a] = [at |-> desk[a].at, old |-> desk[a].old] /\ DOMAIN desk = Admins
      BY <1>1 DEF Desks
    <3>2. [desk[a] EXCEPT !.at = "uploaded"] = [at |-> "uploaded", old |-> desk[a].old]
      BY <3>1
    <3>3. desk' = [desk EXCEPT ![a] = [desk[a] EXCEPT !.at = "uploaded"]]
      BY <1>6
    <3> QED
      BY <3>2, <3>3
  <2>2. Known("uploaded", desk[a].old)
    BY DEF Known
  <2>3. /\ Desks'
        /\ desk'[a].at = "uploaded" /\ desk'[a].old = desk[a].old
        /\ \A b \in Admins : b # a => desk'[b].at = desk[b].at /\ desk'[b].old = desk[b].old
    BY <1>1, <2>1, <2>2, DeskStep
  <2>4. Syncing'
    BY <1>1, <1>2, <1>4, <1>6, <2>3 DEF Syncing, Uploaded, Uploads
  <2>5. Sessions'
    BY <1>1, <1>5, <2>3, SessionsKept DEF Timely
  <2> QED
    BY <1>3, <2>3, <2>4, <2>5 DEF IInv
<1>7. CASE Done(a) /\ Over
  <2>1. /\ Desks'
        /\ desk'[a].at = "idle"
        /\ \A b \in Admins : b # a => desk'[b].at = desk[b].at /\ desk'[b].old = desk[b].old
    BY <1>1, <1>7, DoneStep
  <2>2. Syncing'
    <3>1. CASE UNCHANGED syncVars
      BY <1>1, <1>2, <1>4, <2>1, <3>1, SyncKept DEF Uploaded
    <3>2. CASE Uploads(desk[a].old) /\ latest' = {} /\ astray' = TRUE
      BY <1>1, <1>2, <1>4, <2>1, <3>2 DEF Syncing, Uploaded, Uploads
    <3> QED
      BY <1>7, <3>1, <3>2
  <2>3. Sessions'
    BY <1>1, <1>5, <2>1, SessionsKept DEF Timely
  <2> QED
    BY <1>3, <2>1, <2>2, <2>3 DEF IInv
<1>8. Taken \/ (Done(a) /\ Over)
  BY DEF upsertEnv
<1> QED
  BY <1>6, <1>7, <1>8

\* The record of a synchronisation is the one of its upload.
LEMMA RecordStep ==
  ASSUME IInv, NEW a \in Admins, SetVercelSync(a), UNCHANGED <<sessionVars, area>>
  PROVE  IInv'
<1> DEFINE c == [cfg EXCEPT !.sync = desk[a].old]
<1>1. Stored /\ Desks /\ Validated /\ Saved /\ Syncing /\ Sessions
  BY DEF IInv
<1>2. up /\ Uploaded(a) /\ Update(c, FALSE) /\ Records(a) /\ Done(a) /\ UNCHANGED unchecked
  BY DEF SetVercelSync, Uploaded, auditVars
<1>3. Normal(cfg) /\ cfg = Fields(cfg)
  BY <1>1 DEF Stored, Normal, IsConfig
<1>4. c = [cfg EXCEPT !.sync = desk[a].old]
  OBVIOUS
<1> HIDE DEF c
<1>5. /\ c = Fields(c) /\ c.keys = cfg.keys /\ c.api = cfg.api /\ c.accounts = cfg.accounts
      /\ c.proxies = cfg.proxies /\ c.inflight = cfg.inflight /\ c.global = cfg.global
      /\ c.hash = cfg.hash /\ c.after = cfg.after /\ c.sync = desk[a].old
  BY <1>3, <1>4 DEF Fields
<1>6. IsConfig(c)
  BY <1>3, <1>5 DEF Normal, IsConfig
<1>7. /\ Normal(cfg') /\ cfg' = c /\ up' = up /\ env' = env
      /\ failures' \in Nat /\ (failures' = 0 => failures = 0)
      /\ SavedAs(cfg', FALSE) /\ IsConfig(cfg')
  <2>1. Settled(c, cfg) = c
    BY <1>3, <1>5, <1>6, SettledIsNormal
  <2> QED
    BY <1>1, <1>2, <1>6, <2>1, UpdateEffect DEF Normal
<1>8. Stored'
  BY <1>1, <1>2, <1>6, UpdateStored
<1>9. Validated'
  <2>1. ValidateConfig(cfg) => ValidateConfig(c)
    BY <1>5 DEF ValidateConfig, ValidateAccountProxyReferences
  <2> QED
    BY <1>1, <1>2, <1>7, <2>1, SavedIsValid DEF Validated
<1>10. Saved'
  <2>1. Asked(cfg') = Asked(cfg)
    BY <1>3, <1>5, <1>7, AskedSame
  <2> QED
    BY <1>1, <1>2, <1>7, <2>1, SavedIsSaved
<1>11. /\ Desks'
       /\ desk'[a].at = "idle"
       /\ \A b \in Admins : b # a => desk'[b].at = desk[b].at /\ desk'[b].old = desk[b].old
  BY <1>1, <1>2, DoneStep
<1>12. Syncing'
  <2>1. /\ latest' = latest \ {a} /\ remote' = remote /\ uploaded' = uploaded
        /\ ~astray' => a \in latest
    BY <1>2 DEF Records
  <2>2. /\ ~Uploaded(a)'
        /\ \A b \in Admins \ {a} : /\ Uploaded(b)' <=> Uploaded(b)
                                   /\ desk'[b].old = desk[b].old
    BY <1>11 DEF Uploaded
  <2>3. cfg'.sync = desk[a].old /\ desk[a].old \in uploaded
    BY <1>1, <1>2, <1>5, <1>7 DEF Syncing
  <2>4. file'.sync \in {file.sync, << >>, cfg'.sync}
    BY <1>7, SavedIsInStep
  <2>5. {cfg'.sync, file'.sync} \subseteq uploaded' \union {<< >>}
    BY <1>1, <2>1, <2>3, <2>4 DEF Syncing
  <2>6. \A b \in latest' : b \in Admins /\ Uploaded(b)' /\ remote' = desk'[b].old
    BY <1>1, <2>1, <2>2 DEF Syncing
  <2>7. ~astray' => remote' = cfg'.sync
    BY <1>1, <2>1, <2>3 DEF Syncing
  <2>8. \A b \in Admins : Uploaded(b)' => desk'[b].old \in uploaded'
    BY <1>1, <2>1, <2>2 DEF Syncing
  <2> QED
    BY <1>1, <1>2, <1>7, <2>5, <2>6, <2>7, <2>8 DEF Syncing
<1>13. Sessions'
  <2>1. area = "sessions" => {cfg'.after, file'.after, env'.after} \subseteq 0..clock
    <3>1. file'.after \in {file.after, 0, cfg'.after}
      BY <1>7, SavedIsTimely
    <3> QED
      BY <1>1, <1>5, <1>7, <3>1 DEF Sessions
  <2> QED
    BY <1>1, <1>11, <2>1, SessionsKept DEF Timely
<1> QED
  BY <1>8, <1>9, <1>10, <1>11, <1>12, <1>13 DEF IInv

\* A login stores its token with the account that the index leads to.
LEMMA TokenStep ==
  ASSUME IInv, NEW a \in Admins, storeToken(a), UNCHANGED <<sessionVars, area>>
  PROVE  IInv'
<1> DEFINE id == desk[a].old
           i  == accMap[id]
<1>1. Stored /\ Desks /\ Validated /\ Saved /\ Syncing /\ Sessions
  BY DEF IInv
<1>2. up /\ desk[a].at = "test" /\ Done(a) /\ UNCHANGED <<syncVars, unchecked>> /\ ~Uploaded(a)
  BY DEF storeToken, Uploaded, auditVars
<1>3. Finishes
  BY <1>2 DEF Finishes
<1>4. /\ Desks'
      /\ \A b \in Admins : \/ desk'[b].at = desk[b].at /\ desk'[b].old = desk[b].old
                           \/ desk'[b].at = "idle" /\ ~Uploaded(b)
  BY <1>1, <1>3, FinishesEffect
<1>5. CASE UNCHANGED storeVars
  <2>1. Stored' /\ Validated' /\ Saved'
    BY <1>1, <1>2, <1>5, StoreSame
  <2>2. Syncing'
    BY <1>1, <1>2, <1>4, <1>5, SyncKept DEF storeVars
  <2>3. Sessions'
    <3>1. area = "sessions" => {cfg'.after, file'.after, env'.after} \subseteq 0..clock
      BY <1>1, <1>5 DEF Sessions, storeVars
    <3>2. \A b \in Admins : \/ desk'[b].at = desk[b].at /\ desk'[b].old = desk[b].old
                            \/ Timely(desk'[b].at, desk'[b].old, clock)
      BY <1>4 DEF Timely
    <3> QED
      BY <1>1, <3>1, <3>2, SessionsKept
  <2> QED
    BY <1>4, <2>1, <2>2, <2>3 DEF IInv
<1>6. CASE UpdateAccountToken(id, id)
  <2> DEFINE accs  == cfg.accounts
             token == [j \in DOMAIN accs |-> IF j = i THEN id ELSE accs[j].token]
             after == [j \in DOMAIN accs |-> [accs[j] EXCEPT !.token = token[j]]]
  <2>1. Normal(cfg) /\ cfg = Fields(cfg) /\ Sound(accs) /\ Addressable(accs) /\ OwnTokens(accs)
    BY <1>1 DEF Stored, Normal, IsConfig, Sound
  <2>2. IndexOf(accs, accMap)
    BY <1>1, <1>2 DEF Stored
  <2>3. DOMAIN accs = 1..Len(accs) /\ \A j \in DOMAIN accs : accs[j] \in Account
    BY <2>1, AccountAt DEF Addressable
  <2>4. id \in Emails \union Mobiles
    BY <1>1, <1>2 DEF Desks, Known
  <2>5. id \in DOMAIN accMap
    <3> SUFFICES ASSUME id \notin DOMAIN accMap PROVE FALSE
      OBVIOUS
    <3>1. {j \in DOMAIN accs : Identifier(accs[j]) = id} = {}
      BY <2>2 DEF IndexOf
    <3>2. Find(id) = 0
      BY <3>1 DEF Find
    <3> QED
      BY <1>6, <3>2 DEF UpdateAccountToken
  <2>6. i \in DOMAIN accs /\ Identifier(accs[i]) = id
    BY <2>2, <2>5 DEF IndexOf
  <2>7. Find(id) = i
    BY <2>5, <2>6 DEF Find
  <2>8. /\ cfg' = [cfg EXCEPT !.accounts[i].token = id]
        /\ Save(cfg', FALSE) /\ up' = up /\ UNCHANGED <<mode, env>>
        /\ accMap' = LET ids == {id, Identifier(accs[i])} \ {Empty} IN
                     [x \in DOMAIN accMap \union ids |-> IF x \in ids THEN i ELSE accMap[x]]
    BY <1>6, <2>7 DEF UpdateAccountToken
  <2>9. DOMAIN token = DOMAIN accs /\ \A j \in DOMAIN accs : token[j] \in Text({Identifier(accs[j])})
    BY <2>1, <2>6 DEF OwnTokens, Text
  <2>10. after = [accs EXCEPT ![i].token = id]
    <3> DEFINE with(x, t) == [email |-> x.email, mobile |-> x.mobile, password |-> x.password,
                              token |-> t, proxy |-> x.proxy]
    <3>1. \A x \in Account : \A t : [x EXCEPT !.token = t] = with(x, t)
      BY DEF Account
    <3>2. \A j \in DOMAIN accs : after[j] = IF j = i THEN [accs[i] EXCEPT !.token = id] ELSE accs[j]
      <4>1. \A x \in Account : with(x, x.token) = x
        BY DEF Account
      <4>2. \A j \in DOMAIN accs : /\ after[j] = with(accs[j], token[j])
                                   /\ token[j] = IF j = i THEN id ELSE accs[j].token
        BY <2>3, <3>1
      <4>3. [accs[i] EXCEPT !.token = id] = with(accs[i], id)
        BY <2>3, <2>6, <3>1
      <4> HIDE DEF after, token, with, i, id
      <4> QED
        BY <2>3, <4>1, <4>2, <4>3
    <3>3. accs = [j \in DOMAIN accs |-> accs[j]]
      BY <2>1 DEF Addressable
    <3> QED
      BY <2>6, <3>2, <3>3
  <2>11. cfg' = [cfg EXCEPT !.accounts = after]
    BY <2>1, <2>8, <2>10
  <2>12. /\ Sound(after) /\ DOMAIN after = DOMAIN accs
         /\ \A j \in DOMAIN accs : Identifier(after[j]) = Identifier(accs[j])
    <3> HIDE DEF token
    <3> QED
      BY <2>1, <2>9, TokensSound
  <2>13. /\ ClearAccountTokens(after) = ClearAccountTokens(accs)
         /\ \A j \in DOMAIN accs : after[j].proxy = accs[j].proxy
    <3>1. \A x \in Account : \A t :
            /\ [[x EXCEPT !.token = t] EXCEPT !.token = Empty] = [x EXCEPT !.token = Empty]
            /\ [x EXCEPT !.token = t].proxy = x.proxy
      BY DEF Account
    <3> HIDE DEF token
    <3> QED
      BY <2>3, <3>1 DEF ClearAccountTokens
  <2> HIDE DEF after, token
  <2>14. /\ cfg' = Fields(cfg') /\ cfg'.keys = cfg.keys /\ cfg'.api = cfg.api
         /\ cfg'.accounts = after
         /\ cfg'.proxies = cfg.proxies /\ cfg'.inflight = cfg.inflight
         /\ cfg'.global = cfg.global /\ cfg'.polled = cfg.polled
         /\ cfg'.hash = cfg.hash /\ cfg'.after = cfg.after /\ cfg'.sync = cfg.sync
    BY <2>1, <2>11 DEF Fields
  <2>15. Normal(cfg') /\ IsConfig(cfg')
    BY <2>1, <2>12, <2>14 DEF Normal, IsConfig
  <2>16. IndexOf(cfg'.accounts, accMap')
    <3>1. id # Empty
      BY <2>4, ConfigAssumption DEF ConfigAssumption
    <3>2. accMap' = [x \in DOMAIN accMap |-> IF x = id THEN i ELSE accMap[x]]
      <4>1. {id, Identifier(accs[i])} \ {Empty} = {id}
        BY <2>6, <3>1
      <4>2. DOMAIN accMap \union {id} = DOMAIN accMap
        BY <2>5
      <4> QED
        BY <2>8, <4>1, <4>2
    <3>3. IndexOf(accs, accMap')
      BY <2>2, <3>2 DEF IndexOf
    <3>4. DOMAIN accMap' = {Identifier(after[j]) : j \in DOMAIN after}
      BY <2>12, <3>3 DEF IndexOf
    <3> QED
      BY <2>12, <2>14, <3>3, <3>4 DEF IndexOf
  <2>17. failures' \in Nat /\ (failures' = 0 => failures = 0) /\ SavedAs(cfg', FALSE)
    BY <1>1, <2>8, SaveEffect DEF Stored
  <2>18. Stored'
    BY <1>1, <2>8, <2>15, <2>16, <2>17, SavedIsStored
  <2>19. Saved'
    <3>1. Asked(cfg') = Asked(cfg)
      BY <2>1, <2>13, <2>14, <2>15, AskedSame
    <3> QED
      BY <1>1, <1>2, <2>17, <3>1, SavedIsSaved
  <2>20. Validated'
    <3>1. ValidateConfig(cfg') <=> ValidateConfig(cfg)
      BY <2>12, <2>13, <2>14 DEF ValidateConfig, ValidateAccountProxyReferences
    <3> QED
      BY <1>1, <1>2, <2>8, <2>15, <2>17, <3>1, SavedIsValid DEF Validated
  <2>21. Syncing'
    <3>1. env' = env /\ up' = up /\ up /\ cfg'.sync = cfg.sync
      BY <1>2, <2>8, <2>14
    <3>2. file'.sync \in {file.sync, << >>, cfg'.sync}
      BY <2>15, <2>17, SavedIsInStep DEF Normal
    <3> QED
      BY <1>1, <1>2, <1>4, <3>1, <3>2, SyncKept
  <2>22. Sessions'
    <3>1. area = "sessions" => {cfg'.after, file'.after, env'.after} \subseteq 0..clock
      <4>1. file'.after \in {file.after, 0, cfg.after}
        BY <2>14, <2>15, <2>17, SavedIsTimely
      <4> QED
        BY <1>1, <2>8, <2>14, <4>1 DEF Sessions
    <3>2. \A b \in Admins : \/ desk'[b].at = desk[b].at /\ desk'[b].old = desk[b].old
                            \/ Timely(desk'[b].at, desk'[b].old, clock)
      BY <1>4 DEF Timely
    <3> QED
      BY <1>1, <3>1, <3>2, SessionsKept
  <2> QED
    BY <1>4, <2>18, <2>19, <2>20, <2>21, <2>22 DEF IInv
<1> QED
  BY <1>2, <1>5, <1>6 DEF storeToken

\* A crash leaves nothing of a request, and the file whole or torn.
LEMMA CrashStep ==
  ASSUME IInv, Crash, Forget, UNCHANGED <<sessionVars, area>>
  PROVE  IInv'
<1>1. Stored /\ Desks /\ Validated /\ Saved /\ Syncing /\ Sessions
  BY DEF IInv
<1>2. /\ failures' = failures + 1 /\ failures \in Nat
      /\ ~up'
      /\ UNCHANGED <<mode, env, cfg, uploaded, unchecked>> /\ latest' = {} /\ astray'
      /\ (disk' = disk /\ file' = file) \/ (disk' = "torn" /\ file' = EmptyConfig)
  BY <1>1 DEF Crash, Forget, KeepFile, Tear, Stored, auditVars
<1>3. desk' = [a \in Admins |-> Idle]
  BY DEF Forget
<1>4. \A a \in Admins : desk'[a].at = "idle"
  BY <1>3 DEF Idle
<1>5. Stored'
  BY <1>1, <1>2, EmptyIsNormal DEF Stored
<1>6. Desks'
  <2>1. Known("idle", << >>)
    BY DEF Known
  <2>2. \A a \in Admins : desk'[a].at = "idle" /\ desk'[a].old = << >>
    BY <1>3 DEF Idle
  <2>3. desk' = [a \in Admins |-> [at |-> desk'[a].at, old |-> desk'[a].old]]
    BY <1>3, <2>2 DEF Idle
  <2> QED
    BY <2>1, <2>2, <2>3 DEF Desks
<1>7. Validated'
  BY <1>1, <1>2, EmptyIsNormal DEF Validated
<1>8. Saved'
  BY <1>2 DEF Saved
<1>9. Syncing'
  <2>1. file'.sync \in {file.sync, << >>}
    BY <1>2 DEF EmptyConfig
  <2>2. \A a \in Admins : ~Uploaded(a)'
    BY <1>4 DEF Uploaded
  <2> QED
    BY <1>1, <1>2, <2>1, <2>2 DEF Syncing
<1>10. Sessions'
  <2>1. area = "sessions" => {cfg'.after, file'.after, env'.after} \subseteq 0..clock
    BY <1>1, <1>2 DEF Sessions, EmptyConfig
  <2> QED
    BY <1>1, <1>4, <2>1, SessionsKept DEF Timely
<1> QED
  BY <1>5, <1>6, <1>7, <1>8, <1>9, <1>10 DEF IInv

\* A start takes the configuration of the file or of the environment.
LEMMA RestartStep ==
  ASSUME IInv, Restart, UNCHANGED area
  PROVE  IInv'
<1>1. Stored /\ Desks /\ Validated /\ Saved /\ Syncing /\ Sessions
  BY DEF IInv
<1>2. PICK c \in {file, env}, env_ \in BOOLEAN, written \in BOOLEAN :
        /\ loadConfig(c, env_, written)
        /\ ValidateConfig(c)
        /\ Install(NormalizeCredentials(c))
        /\ fromEnv' = env_
        /\ IF written THEN Write(c) ELSE KeepFile
  BY DEF Restart, Start
<1>3. /\ ~up /\ up' /\ UNCHANGED <<mode, env, failures, told, dropped, desk, unchecked>>
      /\ UNCHANGED <<syncVars, sessionVars>>
  BY DEF Restart, Start, adminVars, auditVars
<1>4. Normal(c) /\ NormalizeCredentials(c) = c
  BY <1>1, <1>2, Normalized DEF Stored, Normal
<1>5. cfg' = c /\ accMap' = Indexes(c)
  BY <1>2, <1>4 DEF Install, rebuildIndexes
<1>6. IndexOf(cfg'.accounts, accMap')
  BY <1>4, <1>5, IndexesIndex DEF Normal, IsConfig, Sound
<1>7. \/ disk' = disk /\ file' = file /\ disk = "whole" /\ c = file
      \/ disk' = disk /\ file' = file /\ fromEnv'
      \/ disk' = "whole" /\ file' = Persisted(c)
  BY <1>1, <1>2 DEF loadConfig, Write, KeepFile, Stored
<1>8. IsConfig(c) /\ Normal(Persisted(c)) /\ Persisted(Persisted(c)) = Persisted(c)
      /\ Persisted(c).after = c.after /\ Persisted(c).sync = c.sync
      /\ (ValidateConfig(Persisted(c)) <=> ValidateConfig(c))
  BY <1>4, PersistedIsNormal, PersistedTwice, PersistedIsAsValid DEF Normal
<1>9. Stored'
  BY <1>1, <1>3, <1>4, <1>5, <1>6, <1>7, <1>8 DEF Stored
<1>10. Desks'
  BY <1>1, <1>3 DEF Desks
<1>11. Validated'
  BY <1>1, <1>2, <1>3, <1>5, <1>7, <1>8 DEF Validated
<1>12. Saved'
  <2>1. \/ fromEnv'
        \/ disk' = "whole" /\ file' = Persisted(cfg')
    BY <1>1, <1>5, <1>7 DEF Stored
  <2>2. disk' = "whole" /\ file' = Persisted(cfg') => Asked(file') = Asked(cfg')
    BY <1>5, <1>8 DEF Asked
  <2> QED
    BY <2>1, <2>2 DEF Saved
<1>13. Syncing'
  <2>1. \A a \in Admins : (Uploaded(a)' <=> Uploaded(a)) /\ desk'[a] = desk[a]
    BY <1>3 DEF Uploaded
  <2>2. /\ ~astray => cfg'.sync = << >>
        /\ {cfg'.sync, file'.sync} \subseteq {file.sync, << >>}
    BY <1>1, <1>2, <1>3, <1>5, <1>7, <1>8 DEF Syncing
  <2>3. /\ remote' = remote /\ uploaded' = uploaded /\ latest' = latest
        /\ astray' = astray /\ env' = env
    BY <1>3 DEF syncVars
  <2> QED
    BY <1>1, <1>3, <2>1, <2>2, <2>3 DEF Syncing
<1>14. Sessions'
  <2>1. area = "sessions" => {cfg'.after, file'.after, env'.after} \subseteq 0..clock
    BY <1>1, <1>2, <1>3, <1>5, <1>7, <1>8 DEF Sessions
  <2> QED
    BY <1>1, <1>3, <2>1, SessionsKept
<1> QED
  BY <1>9, <1>10, <1>11, <1>12, <1>13, <1>14 DEF IInv

\* The clock goes on.
LEMMA TickStep ==
  ASSUME IInv, Tick, UNCHANGED area
  PROVE  IInv'
<1>1. Stored /\ Desks /\ Validated /\ Saved /\ Syncing /\ Sessions
  BY DEF IInv
<1>2. clock' = clock + 1 /\ UNCHANGED <<storeVars, desk, syncVars, unchecked, envSecret, sessions>>
  BY DEF Tick, adminVars, auditVars
<1>3. Stored' /\ Validated' /\ Saved'
  BY <1>1, <1>2, StoreSame
<1>4. Desks'
  BY <1>1, <1>2 DEF Desks
<1>5. Syncing'
  BY <1>1, <1>2, SyncKept DEF storeVars
<1>6. Sessions'
  <2>1. \A t : Dated(t, clock) => Dated(t, clock')
    BY <1>1, <1>2 DEF Sessions, Dated
  <2>2. \A a \in Admins : Timely(desk'[a].at, desk'[a].old, clock')
    BY <1>1, <1>2, <2>1 DEF Sessions, Timely
  <2>3. clock' \in Nat \ {0}
    BY <1>1, <1>2 DEF Sessions
  <2>4. area = "sessions" => {cfg'.after, file'.after, env'.after} \subseteq 0..clock'
    BY <1>1, <1>2 DEF Sessions, storeVars
  <2> QED
    BY <1>1, <1>2, <2>1, <2>2, <2>3, <2>4 DEF Sessions
<1> QED
  BY <1>3, <1>4, <1>5, <1>6 DEF IInv

\* A token is dated by what its login has read.
LEMMA SignStep ==
  ASSUME IInv, NEW a \in Admins, signHS256(a), UNCHANGED area
  PROVE  IInv'
<1>1. Stored /\ Desks /\ Validated /\ Saved /\ Syncing /\ Sessions
  BY DEF IInv
<1>2. /\ desk[a].at = "sign" /\ Done(a) /\ ~Uploaded(a)
      /\ UNCHANGED <<storeVars, syncVars, unchecked, clock, envSecret>>
  BY DEF signHS256, Uploaded, auditVars
<1>3. Stored' /\ Validated' /\ Saved'
  BY <1>1, <1>2, StoreSame
<1>4. /\ Desks'
      /\ desk'[a].at = "idle"
      /\ \A b \in Admins : b # a => desk'[b].at = desk[b].at /\ desk'[b].old = desk[b].old
  BY <1>1, <1>2, DoneStep
<1>5. Syncing'
  BY <1>1, <1>2, <1>4, SyncKept DEF storeVars
<1>6. Sessions'
  <2> DEFINE old == desk[a].old
             t == [iat |-> old.iat, asked |-> old.asked, cutoff |-> old.cutoff,
                   secret |-> jwtSecret, hash |-> cfg.hash]
  <2>1. sessions' = sessions \union {t}
    BY DEF signHS256
  <2>2. Dated(old, clock)
    BY <1>1, <1>2 DEF Sessions, Timely
  <2>3. Dated(t, clock) /\ (~envSecret => t.secret = t.hash)
    BY <2>2 DEF Dated, jwtSecret
  <2> HIDE DEF t
  <2>4. \A s \in sessions' : Dated(s, clock) /\ (~envSecret => s.secret = s.hash)
    BY <1>1, <2>1, <2>3 DEF Sessions
  <2>5. \A b \in Admins : Timely(desk'[b].at, desk'[b].old, clock)
    BY <1>1, <1>4 DEF Sessions, Timely
  <2>6. area = "sessions" => {cfg'.after, file'.after, env'.after} \subseteq 0..clock
    BY <1>1, <1>2 DEF Sessions, storeVars
  <2> QED
    BY <1>1, <1>2, <2>4, <2>5, <2>6 DEF Sessions
<1> QED
  BY <1>3, <1>4, <1>5, <1>6 DEF IInv

-----------------------------------------------------------------------------
(***************************************************************************)
(* The requests.                                                           *)
(***************************************************************************)

\* A change of the lists of keys.
LEMMA KeysChange ==
  ASSUME IInv, NEW a \in Admins, NEW c,
         \/ \E api : api = [k \in DOMAIN api |-> api[k]] /\ c = [cfg EXCEPT !.api = api]
         \/ \E keys : c = [cfg EXCEPT !.keys = keys],
         Change(c), UNCHANGED <<sessionVars, area>>
  PROVE  IInv'
<1>1. Normal(cfg) /\ cfg = Fields(cfg) /\ cfg.api = [k \in DOMAIN cfg.api |-> cfg.api[k]]
  BY DEF IInv, Stored, Normal, IsConfig
<1>2. /\ c = Fields(c) /\ c.api = [k \in DOMAIN c.api |-> c.api[k]]
      /\ c.accounts = cfg.accounts /\ c.proxies = cfg.proxies
      /\ c.inflight = cfg.inflight /\ c.global = cfg.global /\ c.after = cfg.after
      /\ c.sync = cfg.sync
  <2>1. CASE \E api : api = [k \in DOMAIN api |-> api[k]] /\ c = [cfg EXCEPT !.api = api]
    <3>1. PICK api : api = [k \in DOMAIN api |-> api[k]] /\ c = [cfg EXCEPT !.api = api]
      BY <2>1
    <3>2. c = Fields(c) /\ c.api = api
      BY <1>1, <3>1 DEF Fields
    <3> QED
      BY <1>1, <3>1, <3>2 DEF Fields
  <2>2. CASE \E keys : c = [cfg EXCEPT !.keys = keys]
    BY <1>1, <2>2 DEF Fields
  <2> QED
    BY <2>1, <2>2
<1>3. IsConfig(c)
  BY <1>1, <1>2 DEF Normal, IsConfig
<1>4. ValidateConfig(cfg) => ValidateConfig(c)
  BY <1>2 DEF ValidateConfig, ValidateAccountProxyReferences
<1>5. Update(c, TRUE) /\ Finishes /\ UNCHANGED <<syncVars, unchecked>>
  BY DEF Change, adminVars, auditVars, Finishes
<1>6. area = "sessions" => c.after \in 0..clock
  BY <1>2 DEF IInv, Sessions
<1> QED
  BY <1>2, <1>3, <1>4, <1>5, <1>6, ChangeStep

\* The requests that change keys.
LEMMA KeySteps ==
  ASSUME IInv, NEW a \in Admins, KeyRequest(a), UNCHANGED <<sessionVars, area>>
  PROVE  IInv'
<1>1. CASE addKey(a)
  <2>1. PICK k \in KeyIds \ DOMAIN cfg.api, n \in Text(Names) :
          Change([cfg EXCEPT !.api = [x \in DOMAIN cfg.api \union {k} |->
                                        IF x = k THEN n ELSE cfg.api[x]]])
    BY <1>1 DEF addKey
  <2> DEFINE api == [x \in DOMAIN cfg.api \union {k} |-> IF x = k THEN n ELSE cfg.api[x]]
  <2>2. api = [x \in DOMAIN api |-> api[x]]
    OBVIOUS
  <2> HIDE DEF api
  <2> QED
    BY <2>1, <2>2, KeysChange DEF api
<1>2. CASE updateKey(a)
  <2>1. PICK k \in DOMAIN cfg.api, n \in Text(Names) : Change([cfg EXCEPT !.api[k] = n])
    BY <1>2 DEF updateKey
  <2> DEFINE api == [cfg.api EXCEPT ![k] = n]
  <2>2. api = [x \in DOMAIN api |-> api[x]]
    OBVIOUS
  <2>3. Change([cfg EXCEPT !.api = api])
    BY <2>1
  <2> HIDE DEF api
  <2> QED
    BY <2>2, <2>3, KeysChange
<1>3. CASE deleteKey(a)
  <2>1. PICK k \in DOMAIN cfg.api :
          Change([cfg EXCEPT !.api = [x \in DOMAIN cfg.api \ {k} |-> cfg.api[x]]])
    BY <1>3 DEF deleteKey
  <2> DEFINE api == [x \in DOMAIN cfg.api \ {k} |-> cfg.api[x]]
  <2>2. api = [x \in DOMAIN api |-> api[x]]
    OBVIOUS
  <2>3. Change([cfg EXCEPT !.api = api])
    BY <2>1
  <2> HIDE DEF api
  <2> QED
    BY <2>2, <2>3, KeysChange
<1>4. CASE replaceKeys(a)
  <2>1. CASE \E api \in KeySets : Change([cfg EXCEPT !.api = api])
    <3>1. PICK api \in KeySets : Change([cfg EXCEPT !.api = api])
      BY <2>1
    <3>2. api = [x \in DOMAIN api |-> api[x]]
      BY DEF KeySets
    <3> QED
      BY <3>1, <3>2, KeysChange
  <2>2. CASE \E keys \in SUBSET KeyIds : Change([cfg EXCEPT !.keys = keys])
    <3>1. PICK keys \in SUBSET KeyIds : Change([cfg EXCEPT !.keys = keys])
      BY <2>2
    <3> QED
      BY <3>1, KeysChange
  <2> QED
    BY <1>4, <2>1, <2>2 DEF replaceKeys
<1>5. CASE importKeys(a)
  <2>1. PICK other \in KeySets :
          Change([cfg EXCEPT !.api = mergeAPIKeysPreferStructured(cfg.api, other)])
    BY <1>5 DEF importKeys
  <2> DEFINE api == mergeAPIKeysPreferStructured(cfg.api, other)
  <2>2. api = [x \in DOMAIN api |-> api[x]]
    BY DEF mergeAPIKeysPreferStructured
  <2>3. Change([cfg EXCEPT !.api = api])
    BY <2>1
  <2> HIDE DEF api
  <2> QED
    BY <2>2, <2>3, KeysChange
<1> QED
  BY <1>1, <1>2, <1>3, <1>4, <1>5 DEF KeyRequest

\* A change of the accounts, or of the proxies with them.
LEMMA AccountsChange ==
  ASSUME IInv, NEW accs, Sound(accs), NEW proxies, proxies \subseteq ProxyIds,
         NEW c, c = [cfg EXCEPT !.accounts = accs, !.proxies = proxies],
         Update(c, TRUE), Finishes, UNCHANGED <<syncVars, sessionVars, area>>,
         ~unchecked' => /\ ~unchecked
                        /\ ValidateConfig(cfg) => ValidateAccountProxyReferences(c)
  PROVE  IInv'
<1>1. Normal(cfg) /\ cfg = Fields(cfg)
  BY DEF IInv, Stored, Normal, IsConfig
<1>2. /\ c = Fields(c) /\ c.api = cfg.api /\ c.accounts = accs /\ c.proxies = proxies
      /\ c.inflight = cfg.inflight /\ c.global = cfg.global /\ c.after = cfg.after
      /\ c.sync = cfg.sync
  BY <1>1 DEF Fields
<1>3. IsConfig(c)
  BY <1>1, <1>2 DEF Normal, IsConfig
<1>4. ~unchecked' => ~unchecked /\ (ValidateConfig(cfg) => ValidateConfig(c))
  BY <1>2 DEF ValidateConfig
<1>5. area = "sessions" => c.after \in 0..clock
  BY <1>2 DEF IInv, Sessions
<1> QED
  BY <1>2, <1>3, <1>4, <1>5, ChangeStep

\* The lists that requests submit are lists of accounts without tokens.
LEMMA SubmittedType ==
  ASSUME NEW list \in Lists
  PROVE  list \in Seq(NewAccount)
<1>1. PICK n \in 0..MaxSubmitted : list \in [1..n -> AccountInputs]
  BY DEF Lists
<1>2. n \in Nat /\ AccountInputs \subseteq NewAccount
  BY ConfigAdminAssumption DEF ConfigAdminAssumption
<1>3. list \in [1..n -> NewAccount]
  BY <1>1, <1>2
<1> QED
  BY <1>2, <1>3, SeqDef

\* A request that reads is at its desk with what it read.
LEMMA ReadIsStep ==
  ASSUME IInv, NEW a \in Admins, NEW at, NEW old, Read(a, at, old), Known(at, old),
         Timely(at, old, clock), at # "uploaded",
         UNCHANGED <<sessionVars, area>>
  PROVE  IInv'
<1>1. /\ ~Uploaded(a) /\ desk' = [desk EXCEPT ![a] = [at |-> at, old |-> old]]
      /\ UNCHANGED <<storeVars, syncVars, unchecked>>
  BY DEF Read, Asks, Uploaded, auditVars
<1> QED
  BY <1>1, ReadStep

\* A change of the accounts alone.
LEMMA AccountsOnly ==
  ASSUME IInv, NEW accs, Sound(accs), Update([cfg EXCEPT !.accounts = accs], TRUE), Finishes,
         UNCHANGED <<syncVars, sessionVars, area>>,
         ~unchecked' =>
           /\ ~unchecked
           /\ (\A i \in DOMAIN cfg.accounts : cfg.accounts[i].proxy \in Text(cfg.proxies))
                => \A i \in DOMAIN accs : accs[i].proxy \in Text(cfg.proxies)
  PROVE  IInv'
<1> DEFINE c == [cfg EXCEPT !.accounts = accs, !.proxies = cfg.proxies]
<1>1. cfg = Fields(cfg) /\ cfg.proxies \subseteq ProxyIds
  BY DEF IInv, Stored, Normal, IsConfig
<1>2. c = [cfg EXCEPT !.accounts = accs] /\ c.accounts = accs /\ c.proxies = cfg.proxies
  BY <1>1 DEF Fields
<1> HIDE DEF c
<1>3. ~unchecked' => ~unchecked /\ (ValidateConfig(cfg) => ValidateAccountProxyReferences(c))
  BY <1>2 DEF ValidateConfig, ValidateAccountProxyReferences
<1> QED
  BY <1>1, <1>2, <1>3, AccountsChange DEF c

\* A change is an update that leaves the desks.
LEMMA ChangeIsUpdate ==
  ASSUME NEW c, Change(c)
  PROVE  Update(c, TRUE) /\ Finishes /\ UNCHANGED <<syncVars, unchecked>>
BY DEF Change, adminVars, auditVars, Finishes

\* The accounts in force.
LEMMA AccountsInForce ==
  ASSUME IInv
  PROVE  /\ Sound(cfg.accounts) /\ cfg.accounts \in Seq(Account) /\ cfg.proxies \subseteq ProxyIds
         /\ cfg = Fields(cfg)
BY DEF IInv, Stored, Normal, IsConfig, Sound, Addressable

\* An account is added that none in force is mistaken for.
LEMMA AddStep ==
  ASSUME IInv, NEW a \in Admins, addAccount(a), UNCHANGED <<sessionVars, area>>
  PROVE  IInv'
<1> DEFINE accs == cfg.accounts
<1>1. PICK acc \in AccountInputs :
        /\ Identifier(acc) # Empty
        /\ acc.proxy \in Text(cfg.proxies)
        /\ \A i \in DOMAIN accs :
             /\ acc.email # Empty => accs[i].email # acc.email
             /\ acc.mobile # Empty => accs[i].mobile # acc.mobile
        /\ Update([cfg EXCEPT !.accounts = Append(accs, acc)], TRUE)
  BY DEF addAccount
<1> DEFINE new == Append(accs, acc)
<1>2. acc \in NewAccount
  BY ConfigAdminAssumption DEF ConfigAdminAssumption
<1>3. Sound(new) /\ \A i \in DOMAIN new : new[i] = acc \/ \E j \in DOMAIN accs : new[i] = accs[j]
  BY <1>1, <1>2, AppendSound, AccountsInForce
<1>4. Update([cfg EXCEPT !.accounts = new], TRUE)
  BY <1>1
<1> HIDE DEF new
<1>5. Finishes /\ UNCHANGED <<syncVars, unchecked>>
  BY DEF addAccount, Finishes
<1> QED
  BY <1>1, <1>3, <1>4, <1>5, AccountsOnly

\* updateAccount and updateProxy save what is in force.
LEMMA SameAgainStep ==
  ASSUME IInv, Change(cfg), UNCHANGED <<sessionVars, area>>
  PROVE  IInv'
<1>1. cfg = [cfg EXCEPT !.accounts = cfg.accounts] /\ Sound(cfg.accounts)
  BY AccountsInForce DEF Fields
<1>2. Update([cfg EXCEPT !.accounts = cfg.accounts], TRUE) /\ Finishes /\ UNCHANGED <<syncVars, unchecked>>
  BY <1>1, ChangeIsUpdate
<1> QED
  BY <1>1, <1>2, AccountsOnly

\* An account is deleted.
LEMMA DeleteStep ==
  ASSUME IInv, NEW a \in Admins, deleteAccount(a), UNCHANGED <<sessionVars, area>>
  PROVE  IInv'
<1> DEFINE accs == cfg.accounts
<1>1. PICK id \in Emails \union Mobiles :
        /\ Matching(accs, id) # {}
        /\ Change([cfg EXCEPT !.accounts = RemoveAt(accs, First(Matching(accs, id)))])
  BY DEF deleteAccount
<1> DEFINE k == First(Matching(accs, id))
           new == RemoveAt(accs, k)
<1>2. Matching(accs, id) \subseteq DOMAIN accs /\ DOMAIN accs \subseteq Nat
  BY AccountsInForce, AccountAt DEF Matching
<1>3. k \in DOMAIN accs
  BY <1>1, <1>2, FirstIsOne
<1> HIDE DEF k
<1>4. Sound(new) /\ \A i \in DOMAIN new : \E j \in DOMAIN accs : new[i] = accs[j]
  BY <1>3, RemoveSound, AccountsInForce
<1>5. Change([cfg EXCEPT !.accounts = new])
  BY <1>1 DEF k
<1> HIDE DEF new
<1>6. Update([cfg EXCEPT !.accounts = new], TRUE) /\ Finishes /\ UNCHANGED <<syncVars, unchecked>>
  BY <1>5, ChangeIsUpdate
<1> QED
  BY <1>4, <1>6, AccountsOnly

\* Accounts are imported, each once.
LEMMA ImportAccountsStep ==
  ASSUME IInv, NEW a \in Admins, importAccounts(a), UNCHANGED <<sessionVars, area>>
  PROVE  IInv'
<1> DEFINE accs == cfg.accounts
<1>1. PICK list \in Lists :
        Update([cfg EXCEPT !.accounts = AppendNew(accs, list)], TRUE) /\ Unvalidated(list)
  BY DEF importAccounts
<1> DEFINE new == AppendNew(accs, list)
<1>2. /\ Sound(new)
      /\ \A i \in DOMAIN new : \/ \E j \in DOMAIN accs : new[i] = accs[j]
                               \/ \E j \in DOMAIN list : new[i] = list[j]
  BY AccountsInForce, SubmittedType, AppendNewSound
<1>3. ~unchecked' => ~unchecked /\ \A i \in DOMAIN list : list[i].proxy \in Text(cfg.proxies)
  BY <1>1 DEF Unvalidated
<1>4. Update([cfg EXCEPT !.accounts = new], TRUE)
  BY <1>1
<1> HIDE DEF new
<1>5. Finishes /\ UNCHANGED syncVars
  BY DEF importAccounts, Finishes
<1> QED
  BY <1>2, <1>3, <1>4, <1>5, AccountsOnly

\* The list of accounts is replaced, with passwords of the one read before.
LEMMA ReplaceAccountsStep ==
  ASSUME IInv, NEW a \in Admins, replaceAccounts(a), UNCHANGED <<sessionVars, area>>
  PROVE  IInv'
<1>1. PICK list \in Lists :
        /\ Update([cfg EXCEPT !.accounts =
             KeepPasswords(normalizeAndDedupeAccounts(list), desk[a].old)], TRUE)
        /\ Unvalidated(list)
  BY DEF replaceAccounts
<1> DEFINE deduped == normalizeAndDedupeAccounts(list)
           new == KeepPasswords(deduped, desk[a].old)
<1>2. Sound(deduped) /\ \A i \in DOMAIN deduped : \E j \in DOMAIN list : deduped[i] = list[j]
  BY SubmittedType, DedupeSound
<1>3. desk[a].old \in Seq(Account) /\ ~Uploaded(a)
  BY DEF replaceAccounts, IInv, Desks, Known, Uploaded
<1>4. Update([cfg EXCEPT !.accounts = new], TRUE)
  BY <1>1
<1> HIDE DEF deduped
<1>5. Sound(new) /\ DOMAIN new = DOMAIN deduped /\ \A i \in DOMAIN deduped : new[i].proxy = deduped[i].proxy
  BY <1>2, <1>3, PasswordsSound
<1>6. ~unchecked' => ~unchecked /\ \A i \in DOMAIN list : list[i].proxy \in Text(cfg.proxies)
  BY <1>1 DEF Unvalidated
<1> HIDE DEF new
<1>7. Finishes /\ UNCHANGED syncVars
  BY <1>3 DEF replaceAccounts, Finishes
<1>8. ~unchecked' => ~unchecked /\ \A i \in DOMAIN new : new[i].proxy \in Text(cfg.proxies)
  BY <1>2, <1>5, <1>6
<1> QED
  BY <1>4, <1>5, <1>7, <1>8, AccountsOnly

\* Another set of proxies, of which the accounts name members.
LEMMA ProxiesChange ==
  ASSUME IInv, NEW accs, Sound(accs), NEW proxies, proxies \subseteq ProxyIds,
         NEW c, c = [cfg EXCEPT !.accounts = accs, !.proxies = proxies],
         ValidateAccountProxyReferences(c), Change(c), UNCHANGED <<sessionVars, area>>
  PROVE  IInv'
<1>1. Update(c, TRUE) /\ Finishes /\ UNCHANGED <<syncVars, unchecked>>
  BY ChangeIsUpdate
<1> HIDE DEF Finishes
<1> QED
  BY <1>1, AccountsChange

\* A proxy is added.
LEMMA AddProxyStep ==
  ASSUME IInv, NEW a \in Admins, addProxy(a), UNCHANGED <<sessionVars, area>>
  PROVE  IInv'
<1>1. PICK p \in ProxyIds \ cfg.proxies :
        LET new == [cfg EXCEPT !.proxies = cfg.proxies \union {p}]
        IN  ValidateAccountProxyReferences(new) /\ Change(new)
  BY DEF addProxy
<1> DEFINE proxies == cfg.proxies \union {p}
           c == [cfg EXCEPT !.proxies = proxies]
<1>2. ValidateAccountProxyReferences(c) /\ Change(c) /\ proxies \subseteq ProxyIds
  BY <1>1, AccountsInForce
<1> HIDE DEF proxies
<1>3. Sound(cfg.accounts) /\ c = [cfg EXCEPT !.accounts = cfg.accounts, !.proxies = proxies]
  BY AccountsInForce DEF Fields
<1> HIDE DEF c
<1> QED
  BY <1>2, <1>3, ProxiesChange

\* A proxy is deleted, and no account names it any more.
LEMMA DeleteProxyStep ==
  ASSUME IInv, NEW a \in Admins, deleteProxy(a), UNCHANGED <<sessionVars, area>>
  PROVE  IInv'
<1> DEFINE accs == cfg.accounts
<1>1. PICK p \in cfg.proxies :
        LET new == [cfg EXCEPT !.proxies = cfg.proxies \ {p},
                      !.accounts = [i \in DOMAIN accs |->
                         IF accs[i].proxy = p THEN [accs[i] EXCEPT !.proxy = Empty] ELSE accs[i]]]
        IN  ValidateAccountProxyReferences(new) /\ Change(new)
  BY DEF deleteProxy
<1> DEFINE proxy == [i \in DOMAIN accs |-> IF accs[i].proxy = p THEN Empty ELSE accs[i].proxy]
           new == [i \in DOMAIN accs |-> [accs[i] EXCEPT !.proxy = proxy[i]]]
           made == [i \in DOMAIN accs |->
                      IF accs[i].proxy = p THEN [accs[i] EXCEPT !.proxy = Empty] ELSE accs[i]]
           proxies == cfg.proxies \ {p}
           c == [cfg EXCEPT !.proxies = proxies, !.accounts = made]
<1>2. /\ \A i \in DOMAIN accs : accs[i] \in Account
      /\ Sound(accs) /\ proxies \subseteq ProxyIds /\ cfg = Fields(cfg)
  BY AccountsInForce, AccountAt
<1>3. \A i \in DOMAIN accs :
        (IF accs[i].proxy = p THEN [accs[i] EXCEPT !.proxy = Empty] ELSE accs[i])
          = [accs[i] EXCEPT !.proxy = IF accs[i].proxy = p THEN Empty ELSE accs[i].proxy]
  BY <1>2 DEF Account
<1>4. made = new
  BY <1>3
<1>5. \A i \in DOMAIN accs : proxy[i] \in Text(ProxyIds)
  BY <1>2 DEF Account, Text
<1>6. DOMAIN proxy = DOMAIN accs
  OBVIOUS
<1>7. ValidateAccountProxyReferences(c) /\ Change(c)
  BY <1>1
<1> HIDE DEF proxy
<1>8. Sound(new)
  BY <1>2, <1>5, <1>6, ProxiesSound
<1> HIDE DEF made, new, proxies
<1>9. c = [cfg EXCEPT !.accounts = new, !.proxies = proxies]
  BY <1>2, <1>4 DEF Fields
<1> HIDE DEF c
<1> QED
  BY <1>2, <1>7, <1>8, <1>9, ProxiesChange

\* An account is given a proxy.
LEMMA AccountProxyStep ==
  ASSUME IInv, NEW a \in Admins, updateAccountProxy(a), UNCHANGED <<sessionVars, area>>
  PROVE  IInv'
<1> DEFINE accs == cfg.accounts
<1>1. PICK id \in Emails \union Mobiles, p \in Text(cfg.proxies) :
        /\ Matching(accs, id) # {}
        /\ LET new == [cfg EXCEPT !.accounts[First(Matching(accs, id))].proxy = p]
           IN  ValidateAccountProxyReferences(new) /\ Change(new)
  BY DEF updateAccountProxy
<1> DEFINE k == First(Matching(accs, id))
           proxy == [i \in DOMAIN accs |-> IF i = k THEN p ELSE accs[i].proxy]
           new == [i \in DOMAIN accs |-> [accs[i] EXCEPT !.proxy = proxy[i]]]
           made == [accs EXCEPT ![k] = [accs[k] EXCEPT !.proxy = p]]
           c == [cfg EXCEPT !.accounts = made]
<1>2. /\ \A i \in DOMAIN accs : accs[i] \in Account
      /\ accs = [i \in DOMAIN accs |-> accs[i]]
      /\ Sound(accs) /\ cfg.proxies \subseteq ProxyIds /\ cfg = Fields(cfg)
  BY AccountsInForce, AccountAt
<1>3. Matching(accs, id) \subseteq DOMAIN accs /\ DOMAIN accs \subseteq Nat
  BY AccountsInForce, AccountAt DEF Matching
<1>4. k \in DOMAIN accs
  BY <1>1, <1>3, FirstIsOne
<1>5. ValidateAccountProxyReferences(c) /\ Change(c)
  BY <1>1
<1> HIDE DEF k
<1>6. \A i \in DOMAIN accs : accs[i] = [accs[i] EXCEPT !.proxy = accs[i].proxy]
  BY <1>2 DEF Account
<1>7. \A i \in DOMAIN accs : made[i] = new[i]
  BY <1>4, <1>6
<1>8. made = new
  BY <1>2, <1>7
<1>9. \A i \in DOMAIN accs : proxy[i] \in Text(ProxyIds)
  BY <1>2 DEF Account, Text
<1>10. DOMAIN proxy = DOMAIN accs
  OBVIOUS
<1> HIDE DEF proxy
<1>11. Sound(new)
  BY <1>2, <1>9, <1>10, ProxiesSound
<1> HIDE DEF made, new
<1>12. c = [cfg EXCEPT !.accounts = new, !.proxies = cfg.proxies]
  BY <1>2, <1>8 DEF Fields
<1> HIDE DEF c
<1> QED
  BY <1>2, <1>5, <1>11, <1>12, ProxiesChange

\* The requests that read accounts before they change them.
LEMMA ReadAccountsStep ==
  ASSUME IInv, NEW a \in Admins, snapshotAccounts(a) \/ readAccount(a),
         UNCHANGED <<sessionVars, area>>
  PROVE  IInv'
<1>1. CASE snapshotAccounts(a)
  <2>1. Known("config", cfg.accounts) /\ Timely("config", cfg.accounts, clock)
    BY AccountsInForce DEF Known, Timely
  <2> QED
    BY <1>1, <2>1, ReadIsStep DEF snapshotAccounts
<1>2. CASE readAccount(a)
  <2>1. PICK i \in DOMAIN cfg.accounts : Read(a, "test", Identifier(cfg.accounts[i]))
    BY <1>2 DEF readAccount
  <2>2. cfg.accounts[i] \in Account /\ Identifier(cfg.accounts[i]) # Empty
    BY AccountsInForce, AccountAt DEF Sound, Addressable
  <2>3. Identifier(cfg.accounts[i]) \in Emails \union Mobiles
    BY <2>2, KeyIsIdentifier DEF Text
  <2> DEFINE id == Identifier(cfg.accounts[i])
  <2>4. Known("test", id) /\ Timely("test", id, clock)
    BY <2>3 DEF Known, Timely
  <2> QED
    BY <2>1, <2>4, ReadIsStep
<1> QED
  BY <1>1, <1>2

\* The requests that change accounts and proxies.
LEMMA AccountSteps ==
  ASSUME IInv, NEW a \in Admins, AccountRequest(a), UNCHANGED <<sessionVars, area>>
  PROVE  IInv'
<1>1. updateAccount(a) \/ updateProxy(a) => Change(cfg)
  BY DEF updateAccount, updateProxy
<1> QED
  BY <1>1, AddStep, SameAgainStep, DeleteStep, ImportAccountsStep, ReadAccountsStep,
     ReplaceAccountsStep, AddProxyStep, DeleteProxyStep, AccountProxyStep, TokenStep
     DEF AccountRequest

\* Settings that were checked against the limits in force are valid; others are put
\* in unchecked.
LEMMA SettingsSteps ==
  ASSUME IInv, NEW a \in Admins, checkSettings(a) \/ applySettings(a),
         UNCHANGED <<sessionVars, area>>
  PROVE  IInv'
<1>1. /\ Normal(cfg) /\ cfg = Fields(cfg)
      /\ cfg.inflight \in 0..MaxLimit /\ cfg.global \in 0..MaxLimit
  BY DEF IInv, Stored, Normal, IsConfig
<1>2. CASE checkSettings(a)
  <2>1. PICK i, g \in 0..MaxLimit :
          /\ ValidateRuntimeConfig(Positive(i, cfg.inflight), Positive(g, cfg.global))
          /\ Read(a, "settings", <<i, g, cfg.inflight, cfg.global>>)
    BY <1>2 DEF checkSettings
  <2> DEFINE old == <<i, g, cfg.inflight, cfg.global>>
  <2>2. Known("settings", old) /\ Timely("settings", old, clock)
    BY <2>1 DEF Known, Timely
  <2> HIDE DEF old
  <2>3. Read(a, "settings", old)
    BY <2>1 DEF old
  <2> QED
    BY <2>2, <2>3, ReadIsStep
<1>3. CASE applySettings(a)
  <2> DEFINE old == desk[a].old
             inflight == Positive(old[1], cfg.inflight)
             global == Positive(old[2], cfg.global)
             c == [cfg EXCEPT !.inflight = inflight, !.global = global]
  <2>1. /\ desk[a].at = "settings" /\ Update(c, TRUE) /\ Done(a) /\ UNCHANGED syncVars
        /\ ~unchecked' => ~unchecked /\ SubSeq(old, 3, 4) = <<cfg.inflight, cfg.global>>
    BY <1>3 DEF applySettings
  <2>2. Known("settings", old)
    BY <2>1 DEF IInv, Desks
  <2>3. Finishes
    BY <2>1 DEF Finishes, Uploaded
  <2>4. inflight \in 0..MaxLimit /\ global \in 0..MaxLimit
    BY <1>1, <2>2 DEF Positive, Known
  <2>5. ~unchecked' => ~unchecked /\ ValidateRuntimeConfig(inflight, global)
    <3> SUFFICES ASSUME ~unchecked' PROVE ~unchecked /\ ValidateRuntimeConfig(inflight, global)
      OBVIOUS
    <3>1. SubSeq(old, 3, 4)[1] = old[3] /\ SubSeq(old, 3, 4)[2] = old[4]
      <4> DEFINE o1 == old[1]
                 o2 == old[2]
                 o3 == old[3]
                 o4 == old[4]
      <4>1. old = <<o1, o2, o3, o4>>
        BY <2>2 DEF Known
      <4> HIDE DEF old, o1, o2, o3, o4
      <4>2. old \in Seq({o1, o2, o3, o4}) /\ Len(old) = 4
        BY <4>1
      <4> QED
        BY <4>2
    <3>2. old[3] = cfg.inflight /\ old[4] = cfg.global
      <4> DEFINE s == SubSeq(old, 3, 4)
      <4>1. s = <<cfg.inflight, cfg.global>> /\ s[1] = old[3] /\ s[2] = old[4]
        BY <2>1, <3>1
      <4> HIDE DEF s
      <4> QED
        BY <4>1
    <3> QED
      BY <2>1, <2>2, <3>2 DEF Known
  <2> HIDE DEF inflight, global
  <2>6. c = [cfg EXCEPT !.inflight = inflight, !.global = global]
    OBVIOUS
  <2>7. /\ c = Fields(c) /\ c.keys = cfg.keys /\ c.api = cfg.api /\ c.accounts = cfg.accounts
        /\ c.proxies = cfg.proxies /\ c.inflight = inflight /\ c.global = global
        /\ c.after = cfg.after /\ c.sync = cfg.sync
    <3> HIDE DEF c
    <3>1. c = [keys |-> cfg.keys, api |-> cfg.api, accounts |-> cfg.accounts,
               proxies |-> cfg.proxies, inflight |-> inflight, global |-> global,
               polled |-> cfg.polled, hash |-> cfg.hash, after |-> cfg.after, sync |-> cfg.sync]
      BY <1>1, <2>6 DEF Fields
    <3> QED
      BY <3>1 DEF Fields
  <2> HIDE DEF c
  <2>8. IsConfig(c)
    BY <1>1, <2>4, <2>7 DEF Normal, IsConfig
  <2>9. ~unchecked' => ~unchecked /\ (ValidateConfig(cfg) => ValidateConfig(c))
    BY <2>5, <2>7 DEF ValidateConfig, ValidateAccountProxyReferences
  <2>10. area = "sessions" => c.after \in 0..clock
    BY <2>7 DEF IInv, Sessions
  <2> QED
    BY <2>1, <2>3, <2>7, <2>8, <2>9, <2>10, ChangeStep
<1> QED
  BY <1>2, <1>3

\* The account polled last is not what administrators ask for.
LEMMA PollStep ==
  ASSUME IInv, NEW id, poll(id), UNCHANGED <<sessionVars, area>>
  PROVE  IInv'
<1> DEFINE c == [cfg EXCEPT !.polled = id]
<1>1. Normal(cfg) /\ cfg = Fields(cfg)
  BY DEF IInv, Stored, Normal, IsConfig
<1>2. Update(c, FALSE) /\ Finishes /\ UNCHANGED <<syncVars, unchecked>>
  BY DEF poll, SetLastPolled, adminVars, auditVars, Finishes
<1>3. /\ c = Fields(c) /\ c.keys = cfg.keys /\ c.api = cfg.api /\ c.accounts = cfg.accounts
      /\ c.proxies = cfg.proxies /\ c.inflight = cfg.inflight /\ c.global = cfg.global
      /\ c.after = cfg.after /\ c.sync = cfg.sync
      /\ c = [cfg EXCEPT !.polled = c.polled]
  BY <1>1 DEF Fields
<1> HIDE DEF c
<1>4. IsConfig(c)
  BY <1>1, <1>3 DEF Normal, IsConfig
<1>5. ValidateConfig(cfg) => ValidateConfig(c)
  BY <1>3 DEF ValidateConfig, ValidateAccountProxyReferences
<1>6. area = "sessions" => c.after \in 0..clock
  BY <1>3 DEF IInv, Sessions
<1> QED
  BY <1>2, <1>3, <1>4, <1>5, <1>6, ChangeStep

\* An export keeps the hash of what it read.
LEMMA ExportStep ==
  ASSUME IInv, NEW a \in Admins, exportConfig(a), UNCHANGED <<sessionVars, area>>
  PROVE  IInv'
<1>1. PICK c \in {cfg, env} : Read(a, "export", SyncHash(c))
  BY DEF exportConfig
<1> DEFINE old == SyncHash(c)
<1>2. Known("export", old) /\ Timely("export", old, clock)
  BY DEF Known, Timely
<1> HIDE DEF old
<1>3. Read(a, "export", old)
  BY <1>1 DEF old
<1> QED
  BY <1>2, <1>3, ReadIsStep

\* A login reads what the token will be dated by.
LEMMA LoginSteps ==
  ASSUME IInv, NEW a \in Admins, login(a) \/ CreateJWT(a) \/ askPassword(a),
         area = "sessions", UNCHANGED area
  PROVE  IInv'
<1>1. /\ clock \in Nat \ {0} /\ cfg.after \in 0..clock
  BY DEF IInv, Sessions
<1>2. CASE login(a)
  <2>1. Known("login", cfg.hash) /\ Timely("login", cfg.hash, clock)
    BY DEF Known, Timely
  <2> QED
    BY <1>2, <2>1, ReadIsStep DEF login
<1>3. CASE CreateJWT(a)
  <2> DEFINE iat == IF cfg.after >= clock THEN cfg.after + 1 ELSE clock
             old == [iat |-> iat, asked |-> clock, cutoff |-> cfg.after]
  <2>1. Dated(old, clock)
    BY <1>1 DEF Dated
  <2>2. /\ ~Uploaded(a) /\ desk' = [desk EXCEPT ![a] = [at |-> "sign", old |-> old]]
        /\ UNCHANGED <<storeVars, syncVars, unchecked, sessionVars>>
    BY <1>3 DEF CreateJWT, Uploaded, auditVars
  <2> HIDE DEF old
  <2>3. Known("sign", old) /\ Timely("sign", old, clock)
    BY <2>1 DEF Known, Timely
  <2> QED
    BY <2>2, <2>3, ReadStep
<1>4. CASE askPassword(a)
  <2>1. Known("password", clock) /\ Timely("password", clock, clock)
    BY <1>1 DEF Known, Timely
  <2> QED
    BY <1>4, <2>1, ReadIsStep DEF askPassword
<1> QED
  BY <1>2, <1>3, <1>4

\* A password and its cutoff, which is of a moment that has been.
LEMMA PasswordStep ==
  ASSUME IInv, NEW a \in Admins, updateSettingsPassword(a), UNCHANGED area
  PROVE  IInv'
<1>1. PICK p \in Passwords : Update([cfg EXCEPT !.hash = p, !.after = desk[a].old], TRUE)
  BY DEF updateSettingsPassword
<1> DEFINE after == desk[a].old
           c == [cfg EXCEPT !.hash = p, !.after = after]
<1>2. /\ desk[a].at = "password" /\ Done(a) /\ UNCHANGED <<syncVars, unchecked, sessionVars>>
      /\ Update(c, TRUE)
  BY <1>1 DEF updateSettingsPassword, auditVars
<1>3. Finishes
  BY <1>2 DEF Finishes, Uploaded
<1>4. after \in 0..clock /\ clock \in Nat
  BY <1>2 DEF IInv, Sessions, Timely
<1>5. Normal(cfg) /\ cfg = Fields(cfg)
  BY DEF IInv, Stored, Normal, IsConfig
<1> HIDE DEF after
<1>6. c = [cfg EXCEPT !.hash = p, !.after = after]
  OBVIOUS
<1>7. /\ c = Fields(c) /\ c.keys = cfg.keys /\ c.api = cfg.api /\ c.accounts = cfg.accounts
      /\ c.proxies = cfg.proxies /\ c.inflight = cfg.inflight /\ c.global = cfg.global
      /\ c.after = after /\ c.sync = cfg.sync
  <2> HIDE DEF c
  <2>1. c = [keys |-> cfg.keys, api |-> cfg.api, accounts |-> cfg.accounts,
             proxies |-> cfg.proxies, inflight |-> cfg.inflight, global |-> cfg.global,
             polled |-> cfg.polled, hash |-> p, after |-> after, sync |-> cfg.sync]
    BY <1>5, <1>6 DEF Fields
  <2> QED
    BY <2>1 DEF Fields
<1> HIDE DEF c
<1>8. IsConfig(c)
  BY <1>4, <1>5, <1>7 DEF Normal, IsConfig
<1>9. ~unchecked' => ~unchecked /\ (ValidateConfig(cfg) => ValidateConfig(c))
  BY <1>2, <1>7 DEF ValidateConfig, ValidateAccountProxyReferences
<1> QED
  BY <1>2, <1>3, <1>4, <1>7, <1>8, <1>9, ChangeStep

\* What an import brings: accounts without tokens, of which some may occur twice.
IsImport(c) ==
  /\ c = Fields(c)
  /\ c.api = [k \in DOMAIN c.api |-> c.api[k]]
  /\ c.accounts \in Seq(NewAccount)
  /\ c.proxies \subseteq ProxyIds
  /\ c.inflight \in 0..MaxLimit /\ c.global \in 0..MaxLimit /\ c.after \in Nat

\* An import leaves the accounts addressable and the record of synchronisations.
LEMMA ImportedIsConfig ==
  ASSUME IInv, NEW incoming, IsImport(incoming),
         NEW m \in {"merge", "replace"}
  PROVE  LET c == Imported(cfg, incoming, m) IN
         /\ IsConfig(c) /\ c.sync = cfg.sync
         /\ c.after \in {cfg.after, incoming.after}
<1> DEFINE c == Imported(cfg, incoming, m)
<1>1. Normal(cfg) /\ cfg = Fields(cfg) /\ incoming = Fields(incoming)
  BY DEF IInv, Stored, Normal, IsConfig, IsImport
<1>2. CASE m = "replace"
  <2> DEFINE accs == normalizeAndDedupeAccounts(incoming.accounts)
  <2>1. Sound(accs)
    BY DedupeSound DEF IsImport
  <2>2. c = [incoming EXCEPT !.accounts = accs, !.sync = cfg.sync]
    BY <1>2 DEF Imported
  <2> HIDE DEF c, accs
  <2>3. /\ c = Fields(c) /\ c.api = incoming.api /\ c.accounts = accs
        /\ c.proxies = incoming.proxies /\ c.inflight = incoming.inflight
        /\ c.global = incoming.global /\ c.after = incoming.after /\ c.sync = cfg.sync
    <3>1. c = [keys |-> incoming.keys, api |-> incoming.api, accounts |-> accs,
               proxies |-> incoming.proxies, inflight |-> incoming.inflight,
               global |-> incoming.global, polled |-> incoming.polled, hash |-> incoming.hash,
               after |-> incoming.after, sync |-> cfg.sync]
      BY <1>1, <2>2 DEF Fields
    <3> QED
      BY <3>1 DEF Fields
  <2>4. IsConfig(c)
    BY <2>1, <2>3 DEF IsConfig, IsImport
  <2> QED
    BY <2>3, <2>4 DEF c
<1>3. CASE m = "merge"
  <2> DEFINE api == mergeAPIKeysPreferStructured(cfg.api, incoming.api)
             accs == AppendNew(cfg.accounts, incoming.accounts)
             inflight == Positive(incoming.inflight, cfg.inflight)
             global == Positive(incoming.global, cfg.global)
             hash == IF incoming.hash # Empty THEN incoming.hash ELSE cfg.hash
             after == Positive(incoming.after, cfg.after)
  <2>1. Sound(accs)
    BY <1>1, AppendNewSound DEF Normal, IsConfig, IsImport
  <2>2. c = [cfg EXCEPT !.api = api, !.accounts = accs, !.inflight = inflight,
                        !.global = global, !.hash = hash, !.after = after]
    BY <1>3 DEF Imported
  <2>3. /\ inflight \in 0..MaxLimit /\ global \in 0..MaxLimit
        /\ after \in Nat /\ after \in {cfg.after, incoming.after}
    BY <1>1 DEF Positive, Normal, IsConfig, IsImport
  <2>4. api = [k \in DOMAIN api |-> api[k]]
    BY DEF mergeAPIKeysPreferStructured
  <2> HIDE DEF c, api, accs, inflight, global, hash, after
  <2>5. /\ c = Fields(c) /\ c.api = api /\ c.accounts = accs
        /\ c.proxies = cfg.proxies /\ c.inflight = inflight
        /\ c.global = global /\ c.after = after /\ c.sync = cfg.sync
    <3>1. c = [keys |-> cfg.keys, api |-> api, accounts |-> accs,
               proxies |-> cfg.proxies, inflight |-> inflight,
               global |-> global, polled |-> cfg.polled, hash |-> hash,
               after |-> after, sync |-> cfg.sync]
      BY <1>1, <2>2 DEF Fields
    <3> QED
      BY <3>1 DEF Fields
  <2>6. IsConfig(c)
    BY <1>1, <2>1, <2>3, <2>4, <2>5 DEF Normal, IsConfig
  <2> QED
    BY <2>3, <2>5, <2>6 DEF c
<1> QED
  BY <1>2, <1>3

\* An import that is validated.
LEMMA ImportStep ==
  ASSUME IInv, NEW a \in Admins, NEW incoming, configImport(a, incoming),
         IsImport(incoming),
         area = "sessions" => incoming.after \in 0..clock,
         UNCHANGED <<sessionVars, area>>
  PROVE  IInv'
<1>1. PICK m \in {"merge", "replace"} :
        LET new == Imported(cfg, incoming, m) IN ValidateConfig(new) /\ Update(new, TRUE)
  BY DEF configImport
<1> DEFINE c == Imported(cfg, incoming, m)
<1>2. IsConfig(c) /\ c.sync = cfg.sync /\ c.after \in {cfg.after, incoming.after}
  BY ImportedIsConfig
<1>3. ValidateConfig(c) /\ Update(c, TRUE)
  BY <1>1
<1> HIDE DEF c
<1>4. Finishes /\ UNCHANGED <<syncVars, unchecked>>
  BY DEF configImport, Finishes
<1>5. area = "sessions" => c.after \in 0..clock
  BY <1>2 DEF IInv, Sessions
<1> QED
  BY <1>2, <1>3, <1>4, <1>5, ChangeStep

\* A configuration of its type.
LEMMA ConfigHasFields ==
  ASSUME NEW c \in Config
  PROVE  /\ c = Fields(c) /\ c.api = [k \in DOMAIN c.api |-> c.api[k]]
         /\ c.proxies \subseteq ProxyIds
         /\ c.inflight \in 0..MaxLimit /\ c.global \in 0..MaxLimit /\ c.after \in Nat
         /\ c.sync = << >>
<1>1. c = Fields(c)
  BY DEF Config, Fields
<1>2. c.api = [k \in DOMAIN c.api |-> c.api[k]]
  <2>1. PICK K \in SUBSET KeyIds : c.api \in [K -> Text(Names)]
    BY DEF Config
  <2> QED
    BY <2>1
<1> QED
  BY <1>1, <1>2 DEF Config

\* An import of keys or accounts.
LEMMA ConfigImportStep ==
  ASSUME IInv, area \in Areas, NEW a \in Admins, NEW c \in Imports(area), configImport(a, c),
         UNCHANGED <<sessionVars, area>>
  PROVE  IInv'
<1>1. /\ c \in Config /\ c.accounts \in Seq(NewAccount) /\ area # "sessions"
  BY AdministrationAssumption DEF AdministrationAssumption
<1>2. IsImport(c)
  BY <1>1, ConfigHasFields DEF IsImport
<1> QED
  BY <1>1, <1>2, ImportStep

\* An import of a password brings nothing else.
LEMMA PasswordIsImport ==
  ASSUME NEW p
  PROVE  LET c == [EmptyConfig EXCEPT !.hash = p] IN IsImport(c) /\ c.after = 0
<1> DEFINE c == [EmptyConfig EXCEPT !.hash = p]
<1>1. /\ EmptyConfig.accounts = << >> /\ EmptyConfig.proxies = {} /\ EmptyConfig.inflight = 0
      /\ EmptyConfig.global = 0 /\ EmptyConfig.after = 0
  BY DEF EmptyConfig
<1>2. /\ EmptyConfig = Fields(EmptyConfig)
      /\ EmptyConfig.api = [k \in DOMAIN EmptyConfig.api |-> EmptyConfig.api[k]]
  BY EmptyIsNormal DEF Normal, IsConfig
<1>3. c = [EmptyConfig EXCEPT !.hash = p]
  OBVIOUS
<1> HIDE DEF c
<1>4. /\ c = Fields(c) /\ c.api = EmptyConfig.api /\ c.accounts = << >> /\ c.proxies = {}
      /\ c.inflight = 0 /\ c.global = 0 /\ c.after = 0
  BY <1>1, <1>2, <1>3 DEF Fields
<1>5. IsImport(c)
  BY <1>2, <1>4, ConfigAssumption DEF ConfigAssumption, IsImport
<1> QED
  BY <1>4, <1>5 DEF c

\* An import of a password, which has no cutoff of its own.
LEMMA ImportPasswordStep ==
  ASSUME IInv, NEW a \in Admins, importPassword(a), UNCHANGED area
  PROVE  IInv'
<1>1. PICK p \in Passwords : configImport(a, [EmptyConfig EXCEPT !.hash = p])
  BY DEF importPassword
<1> DEFINE c == [EmptyConfig EXCEPT !.hash = p]
<1>2. configImport(a, c) /\ UNCHANGED sessionVars
  BY <1>1 DEF importPassword
<1>3. IsImport(c) /\ c.after = 0
  BY PasswordIsImport
<1> HIDE DEF c
<1>4. area = "sessions" => c.after \in 0..clock
  BY <1>3 DEF IInv, Sessions
<1> QED
  BY <1>2, <1>3, <1>4, ImportStep

-----------------------------------------------------------------------------
(***************************************************************************)
(* The invariant is inductive.                                             *)
(***************************************************************************)

\* The invariant holds of a deployment that begins.
LEMMA InitIInv == Init => IInv
<1> SUFFICES ASSUME Init PROVE IInv
  OBVIOUS
<1>1. PICK m \in Modes(area) : StoreInit(Initial(area), m)
  BY DEF Init
<1> DEFINE c == Initial(area)
<1>2. /\ c \in Config /\ ValidateConfig(c) /\ c.after <= 1
      /\ c.accounts \in Seq(NewAccount) /\ DistinctAccounts(c.accounts)
      /\ \A i \in DOMAIN c.accounts : Identifier(c.accounts[i]) # Empty
  BY AdministrationAssumption DEF AdministrationAssumption, Init
<1>3. IsConfig(c) /\ c.sync = << >> /\ c.after \in Nat
  BY <1>2, ConfigHasFields, NewAccountsOwn DEF IsConfig, Sound, Addressable
<1>4. /\ mode = m /\ env = NormalizeCredentials(c) /\ disk \in {"absent", "torn", "whole"}
      /\ file = IF m = "file" THEN Persisted(c) ELSE EmptyConfig
      /\ disk = "whole" => file = Persisted(c)
      /\ up = FALSE /\ cfg = EmptyConfig /\ failures = 0
  BY <1>1 DEF StoreInit
<1> HIDE DEF c
<1>5. Normal(cfg) /\ ValidateConfig(cfg) /\ cfg.after = 0 /\ cfg.sync = << >>
  BY <1>4, EmptyIsNormal DEF EmptyConfig
<1>6. Normal(env) /\ ValidateConfig(env) /\ env.after = c.after /\ env.sync = << >>
  BY <1>2, <1>3, <1>4, Normalized DEF SameRest, ValidateConfig, ValidateAccountProxyReferences
<1>7. /\ Normal(Persisted(c)) /\ ValidateConfig(Persisted(c))
      /\ Persisted(c).after = c.after /\ Persisted(c).sync = << >>
  BY <1>2, <1>3, PersistedIsNormal, PersistedIsAsValid
<1>8. Normal(file) /\ ValidateConfig(file) /\ file.after \in {0, c.after} /\ file.sync = << >>
  BY <1>4, <1>5, <1>7
<1>9. Stored
  <2>1. mode \in {"file", "env", "writeback"}
    BY <1>4, AdministrationAssumption DEF AdministrationAssumption, Init
  <2> QED
    BY <1>3, <1>4, <1>5, <1>6, <1>8, <2>1, PersistedTwice DEF Stored
<1>10. desk = [a \in Admins |-> Idle] /\ latest = {} /\ unchecked = FALSE
  BY DEF Init, AdminInit
<1>11. \A a \in Admins : desk[a].at = "idle" /\ desk[a] = [at |-> desk[a].at, old |-> desk[a].old]
  BY <1>10 DEF Idle
<1>12. Desks
  <2>1. desk = [a \in Admins |-> [at |-> desk[a].at, old |-> desk[a].old]]
    BY <1>10, <1>11
  <2> QED
    BY <1>11, <2>1 DEF Desks, Known
<1>13. Validated /\ Saved
  BY <1>4, <1>5, <1>6, <1>8 DEF Validated, Saved
<1>14. Syncing
  BY <1>4, <1>5, <1>6, <1>8, <1>10, <1>11 DEF Syncing, Uploaded
<1>15. Sessions
  <2>1. clock = 1 /\ envSecret \in BOOLEAN /\ sessions = {}
    BY DEF Init, SessionsInit
  <2>2. {cfg.after, file.after, env.after} \subseteq 0..clock
    <3>1. cfg.after \in 0..1 /\ file.after \in 0..1 /\ env.after \in 0..1
      BY <1>2, <1>3, <1>5, <1>6, <1>8
    <3> QED
      BY <2>1, <3>1
  <2>3. \A a \in Admins : Timely(desk[a].at, desk[a].old, clock)
    BY <1>11 DEF Timely
  <2>4. clock \in Nat \ {0} /\ \A t \in sessions : FALSE
    BY <2>1
  <2> QED
    BY <2>1, <2>2, <2>3, <2>4 DEF Sessions
<1> QED
  BY <1>9, <1>12, <1>13, <1>14, <1>15 DEF IInv

\* A request keeps the invariant.
LEMMA RequestStep ==
  ASSUME IInv, area \in Areas, NEW a \in Admins, Request(a), UNCHANGED area
  PROVE  IInv'
<1>1. CASE KeyRequest(a) /\ UNCHANGED sessionVars
  BY <1>1, KeySteps
<1>2. CASE AccountRequest(a) /\ UNCHANGED sessionVars
  BY <1>2, AccountSteps
<1>3. CASE SettingsRequest(a) /\ UNCHANGED sessionVars
  BY <1>3, SettingsSteps, PollStep DEF SettingsRequest
<1>4. CASE SyncRequest(a) /\ UNCHANGED sessionVars
  BY <1>4, SettingsSteps, ExportStep, UpsertStep, RecordStep DEF SyncRequest
<1>5. CASE area = "sessions" /\ SessionRequest(a)
  BY <1>5, LoginSteps, SignStep, PasswordStep, ImportPasswordStep DEF SessionRequest
<1>6. CASE (\E c \in Imports(area) : configImport(a, c) /\ UNCHANGED sessionVars)
  BY <1>6, ConfigImportStep
<1>7. CASE readConfig(a) /\ UNCHANGED sessionVars
  BY <1>7, StutterStep DEF readConfig, vars
<1> QED
  BY <1>1, <1>2, <1>3, <1>4, <1>5, <1>6, <1>7 DEF Request

\* Every step keeps the invariant.
LEMMA NextIInv == IInv /\ area \in Areas /\ [Next]_vars => IInv' /\ area' \in Areas
<1> SUFFICES ASSUME IInv, area \in Areas, [Next]_vars PROVE IInv' /\ area' \in Areas
  OBVIOUS
<1>1. CASE UNCHANGED vars
  BY <1>1, StutterStep DEF vars
<1>2. CASE Next
  <2>1. UNCHANGED area
    BY <1>2 DEF Next
  <2>2. CASE \E a \in Admins : Request(a)
    BY <2>1, <2>2, RequestStep
  <2>3. CASE Tick
    BY <2>1, <2>3, TickStep
  <2>4. CASE Crash /\ Forget /\ UNCHANGED sessionVars
    BY <2>1, <2>4, CrashStep
  <2>5. CASE Restart
    BY <2>1, <2>5, RestartStep
  <2>6. CASE StartFails /\ UNCHANGED <<adminVars, sessionVars>>
    BY <2>1, <2>6, StutterStep DEF StartFails, vars
  <2> QED
    BY <1>2, <2>1, <2>2, <2>3, <2>4, <2>5, <2>6 DEF Next
<1> QED
  BY <1>1, <1>2

\* The invariant holds throughout.
LEMMA SpecIInv == Spec => []IInv
<1>1. Init => IInv /\ area \in Areas
  BY InitIInv DEF Init
<1>2. (IInv /\ area \in Areas) /\ [Next]_vars => (IInv /\ area \in Areas)'
  BY NextIInv
<1> QED
  BY <1>1, <1>2, PTL DEF Spec

-----------------------------------------------------------------------------
(***************************************************************************)
(* The passwords of accounts.                                              *)
(***************************************************************************)

\* Every password that is stored, or that a request looks up, was submitted for the
\* account it is with.
Meant ==
  /\ Given(cfg.accounts) \subseteq given
  /\ Given(file.accounts) \subseteq given
  /\ Given(env.accounts) \subseteq given
  /\ \A a \in Admins : desk[a].at = "config" => Given(desk[a].old) \subseteq given

\* A list made of the members of two others.
LEMMA GivenOfBoth ==
  ASSUME NEW accs, NEW first, NEW second,
         \A i \in DOMAIN accs : \/ \E j \in DOMAIN first : accs[i] = first[j]
                                \/ \E j \in DOMAIN second : accs[i] = second[j]
  PROVE  Given(accs) \subseteq Given(first) \union Given(second)
BY DEF Given

\* A list whose accounts keep their address and their password.
LEMMA GivenSame ==
  ASSUME NEW accs, NEW new, DOMAIN new = DOMAIN accs,
         \A i \in DOMAIN accs : /\ new[i].email = accs[i].email /\ new[i].mobile = accs[i].mobile
                                /\ new[i].password = accs[i].password
  PROVE  Given(new) = Given(accs)
<1>1. \A i \in DOMAIN accs : accountDedupeKey(new[i]) = accountDedupeKey(accs[i])
  BY DEF accountDedupeKey
<1> QED
  BY <1>1 DEF Given

\* A blank password is filled in with one of the same account.
LEMMA GivenKept ==
  ASSUME NEW accs \in Seq(Account), NEW old \in Seq(Account)
  PROVE  Given(KeepPasswords(accs, old)) \subseteq Given(accs) \union Given(old)
<1> DEFINE From(acc) == {i \in DOMAIN old : accountDedupeKey(old[i]) = accountDedupeKey(acc)}
           last(acc) == CHOOSE j \in From(acc) : \A k \in From(acc) : k <= j
           new == KeepPasswords(accs, old)
<1>1. \A i \in DOMAIN accs : accs[i] \in Account
  BY AccountAt
<1>2. DOMAIN old = 1..Len(old) /\ Len(old) \in Nat
  BY AccountAt
<1>3. /\ DOMAIN new = DOMAIN accs
      /\ \A i \in DOMAIN accs :
           new[i] = IF accs[i].password = Empty /\ From(accs[i]) # {}
                    THEN [accs[i] EXCEPT !.password = old[last(accs[i])].password] ELSE accs[i]
  BY DEF KeepPasswords
<1>4. ASSUME NEW acc, From(acc) # {}
      PROVE  last(acc) \in DOMAIN old /\ accountDedupeKey(old[last(acc)]) = accountDedupeKey(acc)
  <2>1. From(acc) \in SUBSET (1..Len(old))
    BY <1>2
  <2> HIDE DEF From
  <2>2. \E j \in From(acc) : \A k \in From(acc) : k <= j
    BY <1>2, <1>4, <2>1, Greatest
  <2>3. last(acc) \in From(acc)
    BY <2>2
  <2> QED
    BY <2>3 DEF From
<1> HIDE DEF From, last, new
<1>5. ASSUME NEW x \in Account, NEW y, NEW p, y = [x EXCEPT !.password = p]
      PROVE  accountDedupeKey(y) = accountDedupeKey(x) /\ y.password = p
  BY <1>5 DEF Account, accountDedupeKey
<1>6. ASSUME NEW i \in DOMAIN accs, new[i].password # Empty
      PROVE  <<accountDedupeKey(new[i]), new[i].password>> \in Given(accs) \union Given(old)
  <2>1. CASE accs[i].password = Empty /\ From(accs[i]) # {}
    <3> DEFINE j == last(accs[i])
    <3>1. j \in DOMAIN old /\ accountDedupeKey(old[j]) = accountDedupeKey(accs[i])
      BY <1>4, <2>1
    <3>2. new[i] = [accs[i] EXCEPT !.password = old[j].password]
      BY <1>3, <2>1
    <3> HIDE DEF j
    <3> DEFINE p == old[j].password
    <3>3. accs[i] \in Account /\ new[i] = [accs[i] EXCEPT !.password = p]
      BY <1>1, <3>2
    <3> HIDE DEF p
    <3>4. accountDedupeKey(new[i]) = accountDedupeKey(accs[i]) /\ new[i].password = p
      BY <1>5, <3>3
    <3> QED
      BY <1>6, <3>1, <3>4 DEF Given, p
  <2>2. CASE ~ (accs[i].password = Empty /\ From(accs[i]) # {})
    <3>1. new[i] = accs[i]
      BY <1>3, <2>2
    <3> QED
      BY <1>6, <3>1 DEF Given
  <2> QED
    BY <2>1, <2>2
<1>7. Given(new) \subseteq Given(accs) \union Given(old)
  BY <1>3, <1>6 DEF Given
<1> QED
  BY <1>7 DEF new

\* Saving keeps the passwords.
LEMMA GivenSaved ==
  ASSUME NEW c, IsConfig(c)
  PROVE  Given(Persisted(c).accounts) = Given(c.accounts)
<1> DEFINE accs == c.accounts
           new == ClearAccountTokens(accs)
<1>1. Persisted(c).accounts = new /\ accs \in Seq(Account)
  BY PersistedIsNormal DEF IsConfig, Sound, Addressable
<1>2. \A x \in Account : /\ [x EXCEPT !.token = Empty].email = x.email
                         /\ [x EXCEPT !.token = Empty].mobile = x.mobile
                         /\ [x EXCEPT !.token = Empty].password = x.password
  BY DEF Account
<1>3. DOMAIN new = DOMAIN accs /\ \A i \in DOMAIN accs : new[i] = [accs[i] EXCEPT !.token = Empty]
  BY DEF ClearAccountTokens
<1>4. \A i \in DOMAIN accs : accs[i] \in Account
  BY <1>1, AccountAt
<1> HIDE DEF new, accs
<1>5. \A i \in DOMAIN accs : /\ new[i].email = accs[i].email /\ new[i].mobile = accs[i].mobile
                            /\ new[i].password = accs[i].password
  BY <1>2, <1>3, <1>4
<1>6. Given(new) = Given(accs)
  BY <1>3, <1>5, GivenSame
<1> QED
  BY <1>1, <1>6 DEF accs

\* An account with an email is the only one that the email leads to.
LEMMA EmailIsOne ==
  ASSUME NEW accs, Addressable(accs), NEW i \in DOMAIN accs, accs[i].email # Empty
  PROVE  Matching(accs, accs[i].email) = {i}
<1>1. \A j \in DOMAIN accs : accs[j].email \in Text(Emails) /\ accs[j].mobile \in Text(Mobiles)
  BY AccountAt DEF Addressable, Account
<1>2. \A j \in DOMAIN accs : accs[j].mobile # accs[i].email
  BY <1>1, ConfigAssumption DEF ConfigAssumption, Text
<1>3. ASSUME NEW j \in DOMAIN accs, accs[j].email = accs[i].email PROVE j = i
  BY <1>3 DEF Addressable, DistinctAccounts, accountDedupeKey
<1> QED
  BY <1>2, <1>3 DEF Matching, accountMatchesIdentifier

\* Requests that stay at their desks, or leave them.
Sits == \A b \in Admins :
          desk'[b].at = "config" => desk[b].at = "config" /\ desk'[b].old = desk[b].old

\* Whatever a request does at its desk but read the accounts.
LEMMA DeskSits ==
  ASSUME Desks, NEW a \in Admins, NEW at, NEW old, at # "config",
         desk' = [desk EXCEPT ![a] = [at |-> at, old |-> old]]
  PROVE  Sits
<1>1. DOMAIN desk = Admins
  BY DEF Desks
<1>2. \A b \in Admins : desk'[b] = IF b = a THEN [at |-> at, old |-> old] ELSE desk[b]
  BY <1>1
<1> QED
  BY <1>2 DEF Sits

\* A request that is done leaves its desk.
LEMMA DoneSits ==
  ASSUME Desks, NEW a \in Admins, Done(a)
  PROVE  Sits
BY DeskSits DEF Done, Idle

\* A request that read something else sits down with it.
LEMMA ReadSits ==
  ASSUME Desks, NEW a \in Admins, NEW at, NEW old, at # "config", Read(a, at, old)
  PROVE  Sits
BY DeskSits DEF Read

\* An update with accounts whose passwords were meant for them.
LEMMA UpdateMeant ==
  ASSUME IInv, IInv', Meant, NEW c, c = Fields(c), NEW answers \in BOOLEAN, Update(c, answers),
         Given(c.accounts) \subseteq given', given \subseteq given', Sits
  PROVE  Meant'
<1> DEFINE new == Settled(c, cfg)
<1>1. cfg' = new /\ env' = env /\ Save(new, answers) /\ failures \in Nat
  BY DEF IInv, Stored, Update, Install, Settled
<1>2. new.accounts = c.accounts
  <2> DEFINE r == ReconcileCredentials(c, cfg)
  <2>1. r.accounts = c.accounts /\ "accounts" \in DOMAIN r
    BY DEF ReconcileCredentials, Fields
  <2> HIDE DEF r
  <2>2. NormalizeCredentials(r).accounts = r.accounts
    BY <2>1 DEF NormalizeCredentials
  <2> QED
    BY <2>1, <2>2 DEF Settled, r
<1> HIDE DEF new
<1>3. file' \in {file, EmptyConfig, Persisted(cfg')}
  BY <1>1, SaveEffect DEF SavedAs
<1>4. Given(Persisted(cfg').accounts) = Given(cfg'.accounts)
  BY GivenSaved DEF IInv, Stored, Normal
<1>5. Given(EmptyConfig.accounts) = {}
  BY DEF EmptyConfig, Given
<1>6. Given(file'.accounts) \subseteq given'
  BY <1>1, <1>2, <1>3, <1>4, <1>5 DEF Meant
<1> QED
  BY <1>1, <1>2, <1>6 DEF Meant, Sits

\* An update of something else.
LEMMA OtherMeant ==
  ASSUME IInv, IInv', Meant, NEW c, c = Fields(c), NEW answers \in BOOLEAN, Update(c, answers),
         c.accounts = cfg.accounts, given' = given, Sits
  PROVE  Meant'
BY UpdateMeant DEF Meant

\* A step that leaves the store.
LEMMA StoreMeant ==
  ASSUME Meant, UNCHANGED <<storeVars, given>>, Sits
  PROVE  Meant'
<1>1. cfg' = cfg /\ file' = file /\ env' = env /\ given' = given
  BY DEF storeVars
<1> QED
  BY <1>1 DEF Meant, Sits

\* A change leaves the desks and what was submitted.
LEMMA ChangeMeant ==
  ASSUME IInv, IInv', Meant, NEW c, c = Fields(c), Change(c),
         Given(c.accounts) \subseteq Given(cfg.accounts)
  PROVE  Meant'
<1>1. Update(c, TRUE) /\ given' = given /\ desk' = desk
  BY DEF Change, adminVars, auditVars
<1>2. Sits
  BY <1>1 DEF Sits
<1> QED
  BY <1>1, <1>2, UpdateMeant DEF Meant

\* A configuration with other accounts, has the same fields.
LEMMA AccountsPut ==
  ASSUME NEW c, c = Fields(c), NEW accs, NEW n, n = [c EXCEPT !.accounts = accs]
  PROVE  n = Fields(n) /\ n.accounts = accs
<1>1. n = [keys |-> c.keys, api |-> c.api, accounts |-> accs, proxies |-> c.proxies,
           inflight |-> c.inflight, global |-> c.global, polled |-> c.polled,
           hash |-> c.hash, after |-> c.after, sync |-> c.sync]
  BY DEF Fields
<1> QED
  BY <1>1 DEF Fields

\* Other proxies leave the accounts.
LEMMA ProxiesPut ==
  ASSUME NEW c, c = Fields(c), NEW proxies, NEW n, n = [c EXCEPT !.proxies = proxies]
  PROVE  n = Fields(n) /\ n.accounts = c.accounts
<1>1. n = [keys |-> c.keys, api |-> c.api, accounts |-> c.accounts, proxies |-> proxies,
           inflight |-> c.inflight, global |-> c.global, polled |-> c.polled,
           hash |-> c.hash, after |-> c.after, sync |-> c.sync]
  BY DEF Fields
<1> QED
  BY <1>1 DEF Fields

\* The requests about keys.
LEMMA KeysMeant ==
  ASSUME IInv, IInv', Meant, NEW a \in Admins, KeyRequest(a)
  PROVE  Meant'
<1>1. cfg = Fields(cfg)
  BY DEF IInv, Stored, Normal, IsConfig
<1>2. ASSUME NEW c, Change(c),
             \/ \E api : c = [cfg EXCEPT !.api = api]
             \/ \E keys : c = [cfg EXCEPT !.keys = keys]
      PROVE  Meant'
  <2>1. c = Fields(c) /\ c.accounts = cfg.accounts
    BY <1>1, <1>2 DEF Fields
  <2> QED
    BY <1>2, <2>1, ChangeMeant
<1>3. \E c : /\ Change(c)
             /\ \/ \E api : c = [cfg EXCEPT !.api = api]
                \/ \E keys : c = [cfg EXCEPT !.keys = keys]
  <2>1. CASE addKey(a)
    BY <2>1, Zenon DEF addKey
  <2>2. CASE updateKey(a)
    <3>1. PICK k \in DOMAIN cfg.api, n \in Text(Names) : Change([cfg EXCEPT !.api[k] = n])
      BY <2>2 DEF updateKey
    <3> DEFINE api == [cfg.api EXCEPT ![k] = n]
    <3>2. Change([cfg EXCEPT !.api = api])
      BY <3>1
    <3> HIDE DEF api
    <3> QED
      BY <3>2, Zenon
  <2>3. CASE deleteKey(a)
    BY <2>3, Zenon DEF deleteKey
  <2>4. CASE replaceKeys(a)
    BY <2>4, Zenon DEF replaceKeys
  <2>5. CASE importKeys(a)
    BY <2>5, Zenon DEF importKeys
  <2> QED
    BY <2>1, <2>2, <2>3, <2>4, <2>5 DEF KeyRequest
<1> QED
  BY <1>2, <1>3

\* The requests that submit accounts.
LEMMA SubmittedMeant ==
  ASSUME IInv, IInv', Meant, NEW a \in Admins,
         addAccount(a) \/ importAccounts(a) \/ replaceAccounts(a)
  PROVE  Meant'
<1> DEFINE accs == cfg.accounts
<1>1. Sound(accs) /\ accs \in Seq(Account) /\ cfg = Fields(cfg) /\ Desks
  BY AccountsInForce DEF IInv
<1>2. ASSUME NEW new, NEW list, NEW from, Given(from) \subseteq given,
             Update([cfg EXCEPT !.accounts = new], TRUE), Submitted(list), Sits,
             Given(new) \subseteq Given(from) \union Given(list)
      PROVE  Meant'
  <2> DEFINE c == [cfg EXCEPT !.accounts = new]
  <2>1. c = Fields(c) /\ c.accounts = new
    BY <1>1, AccountsPut
  <2>2. given' = given \union Given(list)
    BY <1>2 DEF Submitted
  <2> HIDE DEF c
  <2>3. Given(c.accounts) \subseteq given' /\ given \subseteq given'
    BY <1>2, <2>1, <2>2
  <2>4. Update(c, TRUE)
    BY <1>2 DEF c
  <2> QED
    BY <1>2, <2>1, <2>3, <2>4, UpdateMeant
<1>3. CASE addAccount(a)
  <2>1. PICK acc \in AccountInputs :
          /\ Update([cfg EXCEPT !.accounts = Append(accs, acc)], TRUE)
          /\ Submitted(<<acc>>)
    BY <1>3 DEF addAccount
  <2>2. acc \in Account
    BY ConfigAdminAssumption DEF ConfigAdminAssumption, NewAccount
  <2> DEFINE new == Append(accs, acc)
             one == <<acc>>
  <2>3. \A i \in DOMAIN new : \/ \E j \in DOMAIN accs : new[i] = accs[j]
                              \/ \E j \in DOMAIN one : new[i] = one[j]
    <3>1. \A i \in DOMAIN new : new[i] = acc \/ (i \in DOMAIN accs /\ new[i] = accs[i])
      BY <1>1, <2>2, AppendProperties
    <3>2. 1 \in DOMAIN one /\ one[1] = acc
      OBVIOUS
    <3> HIDE DEF new, one, accs
    <3> QED
      BY <3>1, <3>2
  <2>4. Given(new) \subseteq Given(accs) \union Given(one)
    BY <2>3, GivenOfBoth
  <2>5. Sits
    BY <1>3 DEF addAccount, Sits
  <2>6. Given(accs) \subseteq given
    BY DEF Meant
  <2>7. Update([cfg EXCEPT !.accounts = new], TRUE) /\ Submitted(one)
    BY <2>1
  <2> HIDE DEF new, one, accs
  <2> QED
    BY <1>2, <2>4, <2>5, <2>6, <2>7
<1>4. CASE importAccounts(a)
  <2>1. PICK list \in Lists :
          Update([cfg EXCEPT !.accounts = AppendNew(accs, list)], TRUE) /\ Submitted(list)
    BY <1>4 DEF importAccounts
  <2> DEFINE new == AppendNew(accs, list)
  <2>2. \A i \in DOMAIN new : \/ \E j \in DOMAIN accs : new[i] = accs[j]
                              \/ \E j \in DOMAIN list : new[i] = list[j]
    BY <1>1, SubmittedType, AppendNewSound
  <2>3. Update([cfg EXCEPT !.accounts = new], TRUE) /\ Submitted(list)
    BY <2>1
  <2> HIDE DEF new
  <2>4. Given(new) \subseteq Given(accs) \union Given(list)
    BY <2>2, GivenOfBoth
  <2>5. Sits
    BY <1>4 DEF importAccounts, Sits
  <2>6. Given(accs) \subseteq given
    BY DEF Meant
  <2> HIDE DEF accs
  <2> QED
    BY <1>2, <2>3, <2>4, <2>5, <2>6
<1>5. CASE replaceAccounts(a)
  <2> DEFINE old == desk[a].old
  <2>1. PICK list \in Lists :
          /\ Update([cfg EXCEPT !.accounts =
               KeepPasswords(normalizeAndDedupeAccounts(list), desk[a].old)], TRUE)
          /\ Submitted(list)
    BY <1>5 DEF replaceAccounts
  <2>2. desk[a].at = "config" /\ Done(a)
    BY <1>5 DEF replaceAccounts
  <2>3. old \in Seq(Account) /\ Given(old) \subseteq given
    BY <1>1, <2>2 DEF Desks, Known, Meant
  <2> DEFINE deduped == normalizeAndDedupeAccounts(list)
             new == KeepPasswords(deduped, old)
  <2>4. Sound(deduped) /\ \A i \in DOMAIN deduped : \E j \in DOMAIN list : deduped[i] = list[j]
    BY SubmittedType, DedupeSound
  <2>5. Update([cfg EXCEPT !.accounts = new], TRUE) /\ Submitted(list)
    BY <2>1
  <2> HIDE DEF deduped, old
  <2>6. deduped \in Seq(Account)
    BY <2>4 DEF Sound, Addressable
  <2>7. Given(new) \subseteq Given(deduped) \union Given(old)
    BY <2>3, <2>6, GivenKept
  <2>8. Given(deduped) \subseteq Given(list)
    <3>1. Given(deduped) \subseteq Given(list) \union Given(list)
      BY <2>4, GivenOfBoth
    <3> QED
      BY <3>1
  <2>9. Sits
    BY <1>1, <2>2, DoneSits
  <2> HIDE DEF new
  <2>10. Given(new) \subseteq Given(old) \union Given(list)
    BY <2>7, <2>8
  <2> QED
    BY <1>2, <2>3, <2>5, <2>9, <2>10
<1> QED
  BY <1>3, <1>4, <1>5

\* The requests that change accounts and proxies, and submit none.
LEMMA ManagedMeant ==
  ASSUME IInv, IInv', Meant, NEW a \in Admins,
         \/ updateAccount(a) \/ updateProxy(a) \/ deleteAccount(a)
         \/ addProxy(a) \/ deleteProxy(a) \/ updateAccountProxy(a)
  PROVE  Meant'
<1> DEFINE accs == cfg.accounts
<1>1. /\ Sound(accs) /\ accs \in Seq(Account) /\ cfg = Fields(cfg)
      /\ accs = [i \in DOMAIN accs |-> accs[i]]
      /\ DOMAIN accs \subseteq Nat /\ \A i \in DOMAIN accs : accs[i] \in Account
  BY AccountsInForce, AccountAt
<1>2. ASSUME NEW new, Given(new) \subseteq Given(accs), NEW proxies, NEW c,
             c = [cfg EXCEPT !.accounts = new, !.proxies = proxies], Change(c)
      PROVE  Meant'
  <2>1. c = Fields(c) /\ c.accounts = new
    BY <1>1, <1>2 DEF Fields
  <2> QED
    BY <1>2, <2>1, ChangeMeant
<1>3. \A x \in Account : \A p : /\ [x EXCEPT !.proxy = p].email = x.email
                                /\ [x EXCEPT !.proxy = p].mobile = x.mobile
                                /\ [x EXCEPT !.proxy = p].password = x.password
  BY DEF Account
<1>4. CASE updateAccount(a) \/ updateProxy(a)
  <2>1. Change(cfg)
    BY <1>4 DEF updateAccount, updateProxy
  <2> QED
    BY <1>1, <2>1, ChangeMeant
<1>5. CASE deleteAccount(a)
  <2>1. PICK id \in Emails \union Mobiles :
          /\ Matching(accs, id) # {}
          /\ Change([cfg EXCEPT !.accounts = RemoveAt(accs, First(Matching(accs, id)))])
    BY <1>5 DEF deleteAccount
  <2> DEFINE k == First(Matching(accs, id))
             new == RemoveAt(accs, k)
  <2>2. k \in DOMAIN accs
    <3>1. Matching(accs, id) \subseteq DOMAIN accs
      BY DEF Matching
    <3> QED
      BY <1>1, <2>1, <3>1, FirstIsOne
  <2>3. Change([cfg EXCEPT !.accounts = new])
    BY <2>1
  <2> HIDE DEF k
  <2>4. \A i \in DOMAIN new : \E j \in DOMAIN accs : new[i] = accs[j]
    BY <1>1, <2>2, RemoveSound
  <2> HIDE DEF new
  <2>5. Given(new) \subseteq Given(accs)
    <3>1. Given(new) \subseteq Given(accs) \union Given(accs)
      BY <2>4, GivenOfBoth
    <3> QED
      BY <3>1
  <2> DEFINE c == [cfg EXCEPT !.accounts = new]
  <2>6. c = Fields(c) /\ c.accounts = new
    BY <1>1, AccountsPut
  <2>7. Change(c)
    BY <2>3
  <2> HIDE DEF c, accs
  <2> QED
    BY <2>5, <2>6, <2>7, ChangeMeant DEF accs
<1>6. CASE addProxy(a)
  <2>1. PICK p \in ProxyIds \ cfg.proxies : Change([cfg EXCEPT !.proxies = cfg.proxies \union {p}])
    BY <1>6 DEF addProxy
  <2> DEFINE proxies == cfg.proxies \union {p}
             c == [cfg EXCEPT !.proxies = proxies]
  <2>2. c = [cfg EXCEPT !.proxies = proxies] /\ Change(c)
    BY <2>1
  <2> HIDE DEF c, proxies
  <2>3. c = Fields(c) /\ c.accounts = accs
    BY <1>1, <2>2, ProxiesPut
  <2> QED
    BY <2>2, <2>3, ChangeMeant
<1>7. CASE deleteProxy(a)
  <2>1. PICK p \in cfg.proxies :
          Change([cfg EXCEPT !.proxies = cfg.proxies \ {p},
                    !.accounts = [i \in DOMAIN accs |->
                       IF accs[i].proxy = p THEN [accs[i] EXCEPT !.proxy = Empty] ELSE accs[i]]])
    BY <1>7 DEF deleteProxy
  <2> DEFINE new == [i \in DOMAIN accs |->
                       IF accs[i].proxy = p THEN [accs[i] EXCEPT !.proxy = Empty] ELSE accs[i]]
             proxies == cfg.proxies \ {p}
             c == [cfg EXCEPT !.proxies = proxies, !.accounts = new]
  <2>2. Change(c)
    BY <2>1
  <2>3. DOMAIN new = DOMAIN accs /\ \A i \in DOMAIN accs :
          /\ new[i].email = accs[i].email /\ new[i].mobile = accs[i].mobile
          /\ new[i].password = accs[i].password
    BY <1>1, <1>3
  <2> HIDE DEF new, proxies
  <2>4. Given(new) \subseteq Given(accs)
    BY <2>3, GivenSame
  <2>5. c = [cfg EXCEPT !.accounts = new, !.proxies = proxies]
    BY <1>1 DEF Fields
  <2> HIDE DEF c
  <2> QED
    BY <1>2, <2>2, <2>4, <2>5
<1>8. CASE updateAccountProxy(a)
  <2>1. PICK id \in Emails \union Mobiles, p \in Text(cfg.proxies) :
          Change([cfg EXCEPT !.accounts[First(Matching(accs, id))].proxy = p])
    BY <1>8 DEF updateAccountProxy
  <2> DEFINE k == First(Matching(accs, id))
             new == [accs EXCEPT ![k] = [accs[k] EXCEPT !.proxy = p]]
             c == [cfg EXCEPT !.accounts = new]
  <2>2. Change(c)
    BY <2>1
  <2> HIDE DEF k
  <2>3. DOMAIN new = DOMAIN accs /\ \A i \in DOMAIN accs :
          /\ new[i].email = accs[i].email /\ new[i].mobile = accs[i].mobile
          /\ new[i].password = accs[i].password
    BY <1>1, <1>3
  <2> HIDE DEF new
  <2>4. Given(new) \subseteq Given(accs)
    BY <2>3, GivenSame
  <2>5. c = Fields(c) /\ c.accounts = new
    BY <1>1, AccountsPut
  <2> HIDE DEF c
  <2> QED
    BY <2>2, <2>4, <2>5, ChangeMeant
<1> QED
  BY <1>4, <1>5, <1>6, <1>7, <1>8

\* A token does not touch the passwords.
LEMMA TokenMeant ==
  ASSUME IInv, IInv', Meant, NEW a \in Admins, storeToken(a)
  PROVE  Meant'
<1> DEFINE accs == cfg.accounts
           id == desk[a].old
<1>1. Done(a) /\ given' = given /\ Desks
  BY DEF storeToken, auditVars, IInv
<1>2. Sits
  BY <1>1, DoneSits
<1>3. CASE UNCHANGED storeVars
  BY <1>1, <1>2, <1>3, StoreMeant
<1>4. CASE UpdateAccountToken(id, id)
  <2> DEFINE new == [cfg EXCEPT !.accounts[Find(id)].token = id]
             list == [accs EXCEPT ![Find(id)] = [accs[Find(id)] EXCEPT !.token = id]]
  <2>1. cfg' = new /\ Save(new, FALSE) /\ env' = env
    BY <1>4 DEF UpdateAccountToken
  <2>2. cfg = Fields(cfg) /\ \A i \in DOMAIN accs : accs[i] \in Account
    BY AccountsInForce, AccountAt
  <2>3. new.accounts = list
    BY <2>2 DEF Fields
  <2>4. \A x \in Account : \A t : /\ [x EXCEPT !.token = t].email = x.email
                                  /\ [x EXCEPT !.token = t].mobile = x.mobile
                                  /\ [x EXCEPT !.token = t].password = x.password
    BY DEF Account
  <2>5. DOMAIN list = DOMAIN accs /\ \A i \in DOMAIN accs :
          /\ list[i].email = accs[i].email /\ list[i].mobile = accs[i].mobile
          /\ list[i].password = accs[i].password
    BY <2>2, <2>4
  <2> HIDE DEF new, list
  <2>6. Given(cfg'.accounts) = Given(accs)
    BY <2>1, <2>3, <2>5, GivenSame
  <2>7. file' \in {file, EmptyConfig, Persisted(cfg')}
    BY <2>1, SaveEffect DEF SavedAs, IInv, Stored
  <2>8. Given(Persisted(cfg').accounts) = Given(cfg'.accounts)
    BY GivenSaved DEF IInv, Stored, Normal
  <2>9. Given(EmptyConfig.accounts) = {}
    BY DEF EmptyConfig, Given
  <2>10. Given(file'.accounts) \subseteq given'
    BY <1>1, <2>6, <2>7, <2>8, <2>9 DEF Meant
  <2> QED
    BY <1>1, <1>2, <2>1, <2>6, <2>10 DEF Meant, Sits
<1> QED
  BY <1>3, <1>4 DEF storeToken

\* The requests about accounts.
LEMMA AccountsMeant ==
  ASSUME IInv, IInv', Meant, NEW a \in Admins, AccountRequest(a)
  PROVE  Meant'
<1>1. Desks
  BY DEF IInv
<1>2. CASE snapshotAccounts(a)
  <2>1. /\ desk' = [desk EXCEPT ![a] = [at |-> "config", old |-> cfg.accounts]]
        /\ UNCHANGED <<storeVars, given>>
    BY <1>2 DEF snapshotAccounts, Read, auditVars
  <2>2. DOMAIN desk = Admins
    BY <1>1 DEF Desks
  <2>3. \A b \in Admins :
          desk'[b] = IF b = a THEN [at |-> "config", old |-> cfg.accounts] ELSE desk[b]
    BY <2>1, <2>2
  <2>4. cfg' = cfg /\ file' = file /\ env' = env /\ given' = given
    BY <2>1 DEF storeVars
  <2> QED
    BY <2>3, <2>4 DEF Meant
<1>3. CASE readAccount(a)
  <2>1. Sits
    BY <1>1, <1>3, ReadSits DEF readAccount
  <2>2. UNCHANGED <<storeVars, given>>
    BY <1>3 DEF readAccount, Read, auditVars
  <2> QED
    BY <2>1, <2>2, StoreMeant
<1> QED
  BY <1>2, <1>3, SubmittedMeant, ManagedMeant, TokenMeant DEF AccountRequest

\* The requests about settings, the account polled last and the synchronisation.
LEMMA OthersMeant ==
  ASSUME IInv, IInv', Meant, NEW a \in Admins, SettingsRequest(a) \/ SyncRequest(a)
  PROVE  Meant'
<1>1. Desks /\ cfg = Fields(cfg)
  BY AccountsInForce DEF IInv
<1>2. CASE checkSettings(a) \/ exportConfig(a)
  <2>1. Sits
    BY <1>1, <1>2, ReadSits DEF checkSettings, exportConfig
  <2>2. UNCHANGED <<storeVars, given>>
    BY <1>2 DEF checkSettings, exportConfig, Read, auditVars
  <2> QED
    BY <2>1, <2>2, StoreMeant
<1>3. CASE applySettings(a)
  <2> DEFINE inflight == Positive(desk[a].old[1], cfg.inflight)
             global == Positive(desk[a].old[2], cfg.global)
             c == [cfg EXCEPT !.inflight = inflight, !.global = global]
  <2>1. Update(c, TRUE) /\ Done(a) /\ given' = given
    BY <1>3 DEF applySettings
  <2>2. c = [cfg EXCEPT !.inflight = inflight, !.global = global]
    OBVIOUS
  <2> HIDE DEF inflight, global, c
  <2>3. c = Fields(c) /\ c.accounts = cfg.accounts
    <3>1. c = [keys |-> cfg.keys, api |-> cfg.api, accounts |-> cfg.accounts,
               proxies |-> cfg.proxies, inflight |-> inflight, global |-> global,
               polled |-> cfg.polled, hash |-> cfg.hash, after |-> cfg.after, sync |-> cfg.sync]
      BY <1>1, <2>2 DEF Fields
    <3> QED
      BY <3>1 DEF Fields
  <2> QED
    BY <1>1, <2>1, <2>3, DoneSits, OtherMeant
<1>4. ASSUME NEW id, poll(id) PROVE Meant'
  <2> DEFINE c == [cfg EXCEPT !.polled = id]
  <2>1. Update(c, FALSE) /\ given' = given /\ desk' = desk
    BY <1>4 DEF poll, SetLastPolled, adminVars, auditVars
  <2>2. c = Fields(c) /\ c.accounts = cfg.accounts
    BY <1>1 DEF Fields
  <2>3. Sits
    BY <2>1 DEF Sits
  <2> HIDE DEF c
  <2> QED
    BY <2>1, <2>2, <2>3, OtherMeant
<1>5. CASE upsertEnv(a)
  <2>1. UNCHANGED <<storeVars, given>>
    BY <1>5 DEF upsertEnv, auditVars
  <2>2. Sits
    <3>1. CASE Done(a)
      BY <1>1, <3>1, DoneSits
    <3>2. CASE desk' = [desk EXCEPT ![a].at = "uploaded"]
      <4>1. DOMAIN desk = Admins /\ \A b \in Admins : desk[b] = [at |-> desk[b].at, old |-> desk[b].old]
        BY <1>1 DEF Desks
      <4>2. \A b \in Admins : \/ desk'[b] = desk[b]
                              \/ desk'[b].at = "uploaded"
        BY <3>2, <4>1
      <4> QED
        BY <4>2 DEF Sits
    <3> QED
      BY <1>5, <3>1, <3>2 DEF upsertEnv
  <2> QED
    BY <2>1, <2>2, StoreMeant
<1>6. CASE SetVercelSync(a)
  <2> DEFINE c == [cfg EXCEPT !.sync = desk[a].old]
  <2>1. Update(c, FALSE) /\ Done(a) /\ given' = given
    BY <1>6 DEF SetVercelSync, auditVars
  <2>2. c = Fields(c) /\ c.accounts = cfg.accounts
    BY <1>1 DEF Fields
  <2> HIDE DEF c
  <2> QED
    BY <1>1, <2>1, <2>2, DoneSits, OtherMeant
<1> QED
  BY <1>2, <1>3, <1>4, <1>5, <1>6 DEF SettingsRequest, SyncRequest

\* An import takes over the passwords of the accounts it adds.
LEMMA ImportMeant ==
  ASSUME IInv, IInv', Meant, NEW a \in Admins, NEW incoming, configImport(a, incoming),
         IsImport(incoming)
  PROVE  Meant'
<1> DEFINE accs == cfg.accounts
           list == incoming.accounts
<1>1. PICK m \in {"merge", "replace"} : Update(Imported(cfg, incoming, m), TRUE)
  BY DEF configImport
<1>2. given' = given \union Given(list) /\ desk' = desk
  BY DEF configImport, Submitted
<1>3. Sits
  BY <1>2 DEF Sits
<1>4. /\ Sound(accs) /\ cfg = Fields(cfg) /\ incoming = Fields(incoming)
      /\ list \in Seq(NewAccount)
  BY AccountsInForce DEF IsImport
<1> DEFINE c == Imported(cfg, incoming, m)
<1>5. c = Fields(c)
  BY ImportedIsConfig DEF IsConfig
<1>6. Given(c.accounts) \subseteq Given(accs) \union Given(list)
  <2>1. CASE m = "replace"
    <3> DEFINE new == normalizeAndDedupeAccounts(list)
    <3>1. c = [incoming EXCEPT !.accounts = new, !.sync = cfg.sync]
      BY <2>1 DEF Imported
    <3>2. \A i \in DOMAIN new : \E j \in DOMAIN list : new[i] = list[j]
      BY <1>4, DedupeSound
    <3> HIDE DEF new, c
    <3>3. c.accounts = new
      BY <1>4, <3>1 DEF Fields
    <3> QED
      BY <3>2, <3>3, GivenOfBoth
  <2>2. CASE m = "merge"
    <3> DEFINE new == AppendNew(accs, list)
    <3>1. c.accounts = new
      BY <1>4, <2>2 DEF Imported, Fields
    <3>2. \A i \in DOMAIN new : \/ \E j \in DOMAIN accs : new[i] = accs[j]
                                \/ \E j \in DOMAIN list : new[i] = list[j]
      BY <1>4, AppendNewSound
    <3> HIDE DEF new, c
    <3> QED
      BY <3>1, <3>2, GivenOfBoth
  <2> QED
    BY <2>1, <2>2
<1>7. Given(c.accounts) \subseteq given' /\ given \subseteq given'
  BY <1>2, <1>6 DEF Meant
<1>8. Update(c, TRUE)
  BY <1>1
<1> HIDE DEF c
<1> QED
  BY <1>3, <1>5, <1>7, <1>8, UpdateMeant

\* The requests of a session, and the moment it is dated.
LEMMA SessionsMeant ==
  ASSUME IInv, IInv', Meant, NEW a \in Admins, SessionRequest(a)
  PROVE  Meant'
<1>1. Desks /\ cfg = Fields(cfg)
  BY AccountsInForce DEF IInv
<1>2. CASE login(a) \/ askPassword(a)
  <2>1. Sits
    BY <1>1, <1>2, ReadSits DEF login, askPassword
  <2>2. UNCHANGED <<storeVars, given>>
    BY <1>2 DEF login, askPassword, Read, auditVars
  <2> QED
    BY <2>1, <2>2, StoreMeant
<1>3. CASE CreateJWT(a)
  <2>1. Sits
    BY <1>1, <1>3, DeskSits DEF CreateJWT
  <2>2. UNCHANGED <<storeVars, given>>
    BY <1>3 DEF CreateJWT, auditVars
  <2> QED
    BY <2>1, <2>2, StoreMeant
<1>4. CASE signHS256(a)
  <2>1. Sits
    BY <1>1, <1>4, DoneSits DEF signHS256
  <2>2. UNCHANGED <<storeVars, given>>
    BY <1>4 DEF signHS256, auditVars
  <2> QED
    BY <2>1, <2>2, StoreMeant
<1>5. CASE updateSettingsPassword(a)
  <2>1. PICK p \in Passwords : Update([cfg EXCEPT !.hash = p, !.after = desk[a].old], TRUE)
    BY <1>5 DEF updateSettingsPassword
  <2> DEFINE after == desk[a].old
             c == [cfg EXCEPT !.hash = p, !.after = after]
  <2>2. /\ c = [cfg EXCEPT !.hash = p, !.after = after]
        /\ Update(c, TRUE) /\ Done(a) /\ given' = given
    BY <1>5, <2>1 DEF updateSettingsPassword, auditVars
  <2> HIDE DEF c, after
  <2>3. c = Fields(c) /\ c.accounts = cfg.accounts
    <3>1. c = [keys |-> cfg.keys, api |-> cfg.api, accounts |-> cfg.accounts,
               proxies |-> cfg.proxies, inflight |-> cfg.inflight, global |-> cfg.global,
               polled |-> cfg.polled, hash |-> p, after |-> after, sync |-> cfg.sync]
      BY <1>1, <2>2 DEF Fields
    <3> QED
      BY <3>1 DEF Fields
  <2> QED
    BY <1>1, <2>2, <2>3, DoneSits, OtherMeant
<1>6. CASE importPassword(a)
  <2>1. PICK p \in Passwords : configImport(a, [EmptyConfig EXCEPT !.hash = p])
    BY <1>6 DEF importPassword
  <2> QED
    BY <2>1, PasswordIsImport, ImportMeant
<1> QED
  BY <1>2, <1>3, <1>4, <1>5, <1>6 DEF SessionRequest

\* Every step keeps it.
LEMMA NextMeant ==
  ASSUME IInv, IInv', Meant, area \in Areas, [Next]_vars
  PROVE  Meant'
<1>1. CASE UNCHANGED vars
  <2>1. UNCHANGED <<storeVars, given, desk>>
    BY <1>1 DEF vars, adminVars, auditVars
  <2>2. Sits
    BY <2>1 DEF Sits
  <2> QED
    BY <2>1, <2>2, StoreMeant
<1>2. ASSUME NEW a \in Admins, Request(a) PROVE Meant'
  <2>1. CASE KeyRequest(a)
    BY <2>1, KeysMeant
  <2>2. CASE AccountRequest(a)
    BY <2>2, AccountsMeant
  <2>3. CASE SettingsRequest(a) \/ SyncRequest(a)
    BY <2>3, OthersMeant
  <2>4. CASE SessionRequest(a)
    BY <2>4, SessionsMeant
  <2>5. CASE \E c \in Imports(area) : configImport(a, c)
    <3>1. PICK c \in Imports(area) : configImport(a, c)
      BY <2>5
    <3>2. c \in Config /\ c.accounts \in Seq(NewAccount)
      BY AdministrationAssumption DEF AdministrationAssumption
    <3> QED
      BY <3>1, <3>2, ConfigHasFields, ImportMeant DEF IsImport
  <2>6. CASE readConfig(a)
    <3>1. UNCHANGED <<storeVars, given, desk>>
      BY <2>6 DEF readConfig, adminVars, auditVars
    <3>2. Sits
      BY <3>1 DEF Sits
    <3> QED
      BY <3>1, <3>2, StoreMeant
  <2> QED
    BY <1>2, <2>1, <2>2, <2>3, <2>4, <2>5, <2>6 DEF Request
<1>3. CASE Tick \/ (StartFails /\ UNCHANGED adminVars)
  <2>1. UNCHANGED <<storeVars, given, desk>>
    BY <1>3 DEF Tick, StartFails, adminVars, auditVars
  <2>2. Sits
    BY <2>1 DEF Sits
  <2> QED
    BY <2>1, <2>2, StoreMeant
<1>4. CASE Crash /\ Forget
  <2>1. /\ cfg' = cfg /\ env' = env /\ given' = given
        /\ file' \in {file, EmptyConfig}
        /\ desk' = [a \in Admins |-> Idle]
    BY <1>4 DEF Crash, Forget, KeepFile, Tear, auditVars
  <2>2. Given(EmptyConfig.accounts) = {}
    BY DEF EmptyConfig, Given
  <2> QED
    BY <2>1, <2>2 DEF Meant, Idle
<1>5. CASE Restart
  <2>1. PICK c \in {file, env} :
          Install(NormalizeCredentials(c)) /\ (Write(c) \/ KeepFile)
    BY <1>5 DEF Restart, Start
  <2>2. env' = env /\ given' = given /\ desk' = desk
    BY <1>5 DEF Restart, Start, adminVars, auditVars
  <2>3. Normal(c) /\ IsConfig(c) /\ NormalizeCredentials(c) = c
    BY <2>1, Normalized DEF IInv, Stored, Normal
  <2>4. cfg' = c /\ file' \in {file, Persisted(c)}
    BY <2>1, <2>3 DEF Install, Write, KeepFile
  <2>5. Given(Persisted(c).accounts) = Given(c.accounts)
    BY <2>3, GivenSaved
  <2> QED
    BY <2>1, <2>2, <2>4, <2>5 DEF Meant
<1> QED
  BY <1>1, <1>2, <1>3, <1>4, <1>5 DEF Next

\* It holds of a deployment that begins, whose passwords are those of its
\* configuration.
LEMMA InitMeant == Init => Meant
<1> SUFFICES ASSUME Init PROVE Meant
  OBVIOUS
<1>1. PICK m \in Modes(area) : StoreInit(Initial(area), m)
  BY DEF Init
<1> DEFINE c == Initial(area)
<1>2. c \in Config /\ c.accounts \in Seq(NewAccount) /\ DistinctAccounts(c.accounts)
      /\ \A i \in DOMAIN c.accounts : Identifier(c.accounts[i]) # Empty
  BY AdministrationAssumption DEF AdministrationAssumption, Init
<1>3. IsConfig(c)
  BY <1>2, ConfigHasFields, NewAccountsOwn DEF IsConfig, Sound, Addressable
<1>4. env = NormalizeCredentials(c) /\ file \in {Persisted(c), EmptyConfig} /\ cfg = EmptyConfig
  BY <1>1 DEF StoreInit
<1> HIDE DEF c
<1>5. env.accounts = c.accounts
  BY <1>3, <1>4, Normalized DEF SameRest
<1>6. Given(Persisted(c).accounts) = Given(c.accounts)
  BY <1>3, GivenSaved
<1>7. Given(EmptyConfig.accounts) = {}
  BY DEF EmptyConfig, Given
<1>8. desk = [a \in Admins |-> Idle] /\ given = Given(env.accounts)
  BY DEF Init, AdminInit
<1> QED
  BY <1>4, <1>5, <1>6, <1>7, <1>8 DEF Meant, Idle

\* It holds throughout.
LEMMA SpecMeant == Spec => []Meant
<1>1. Init => IInv /\ area \in Areas /\ Meant
  BY InitIInv, InitMeant DEF Init
<1>2. (IInv /\ area \in Areas /\ Meant) /\ [Next]_vars => (IInv /\ area \in Areas /\ Meant)'
  BY NextIInv, NextMeant
<1> QED
  BY <1>1, <1>2, PTL DEF Spec

-----------------------------------------------------------------------------
(***************************************************************************)
(* What the administration promises.                                       *)
(***************************************************************************)

\* What was answered as done is in the file, unless a later failure was answered
\* or an error dropped whose change nobody asked for: for every number of
\* administrators, requests, failures and crashes.
THEOREM SpecDoneIsSaved == Spec => []DoneIsSaved
<1>1. IInv => DoneIsSaved
  BY DEF IInv, Saved, DoneIsSaved, Asked
<1> QED
  BY <1>1, SpecIInv, PTL

\* The program can start from what it saved, but for the lists and settings that
\* nobody validated.
THEOREM SpecStartsAgain == Spec => []StartsAgain
<1>1. IInv => StartsAgain
  BY DEF IInv, Validated, StartsAgain
<1> QED
  BY <1>1, SpecIInv, PTL

\* A token stays with the account that logged in.
THEOREM SpecTokenOfItsAccount == Spec => []TokenOfItsAccount
<1>1. IInv => TokenOfItsAccount
  BY DEF IInv, Stored, Normal, IsConfig, Sound, OwnTokens, TokenOfItsAccount
<1> QED
  BY <1>1, SpecIInv, PTL

\* A password stays with the account it was submitted for.
THEOREM SpecPasswordOfItsAccount == Spec => []PasswordOfItsAccount
<1>1. Meant => PasswordOfItsAccount
  BY DEF Meant, PasswordOfItsAccount
<1> QED
  BY <1>1, SpecMeant, PTL

\* What names an account leads to it: its dedupe key, its identifier in the index,
\* and its email in the handlers; and its token and password are its own.
THEOREM SpecAccountsAddressable == Spec => []AccountsAddressable
<1>1. ASSUME IInv, up, NEW i \in DOMAIN cfg.accounts
      PROVE  /\ DistinctAccounts(cfg.accounts)
             /\ Find(Identifier(cfg.accounts[i])) = i
             /\ cfg.accounts[i].email # Empty =>
                  Matching(cfg.accounts, cfg.accounts[i].email) = {i}
  <2>1. Addressable(cfg.accounts) /\ IndexOf(cfg.accounts, accMap)
    BY <1>1 DEF IInv, Stored, Normal, IsConfig, Sound
  <2>2. DistinctAccounts(cfg.accounts) /\ Find(Identifier(cfg.accounts[i])) = i
    BY <2>1 DEF Addressable, IndexOf, Find
  <2> QED
    BY <2>1, <2>2, EmailIsOne
<1>2. IInv /\ TokenOfItsAccount /\ PasswordOfItsAccount => AccountsAddressable
  <2>1. ASSUME IInv PROVE up => DistinctAccounts(cfg.accounts)
    BY <2>1 DEF IInv, Stored, Normal, IsConfig, Sound, Addressable
  <2> QED
    BY <1>1, <2>1 DEF AccountsAddressable
<1> QED
  BY <1>2, SpecIInv, SpecTokenOfItsAccount, SpecPasswordOfItsAccount, PTL

\* What is called synchronised was uploaded, and is in the project unless the record
\* went astray: for every number of synchronisations at a time.
THEOREM SpecSyncedIsTrue == Spec => []SyncedIsTrue
<1>1. IInv => SyncedIsTrue
  BY DEF IInv, Syncing, Uploaded, Synced, SyncedIsTrue
<1> QED
  BY <1>1, SpecIInv, PTL

\* Sessions end with the password they were opened under, with the two exceptions
\* of a secret of the environment, and a session just opened is good.
THEOREM SpecSessionsFollowPassword == Spec => []SessionsFollowPassword
<1>1. ASSUME IInv, NEW t \in sessions
      PROVE  /\ t.secret = jwtSecret /\ t.cutoff = cfg.after /\ clock <= t.asked + Lifetime
                  => VerifyJWT(t)
             /\ VerifyJWT(t) /\ t.hash # cfg.hash =>
                  /\ envSecret
                  /\ \/ t.asked > cfg.after
                     \/ t.asked = cfg.after /\ t.iat = t.asked + 1
  <2>1. /\ Dated(t, clock) /\ (~envSecret => t.secret = t.hash) /\ clock \in Nat
        /\ cfg.after \in Nat /\ Lifetime \in Nat
    BY <1>1, SessionsAssumption DEF IInv, Sessions, Stored, Normal, IsConfig, SessionsAssumption
  <2>2. ASSUME t.secret = jwtSecret, t.cutoff = cfg.after, clock <= t.asked + Lifetime
        PROVE  VerifyJWT(t)
    BY <2>1, <2>2 DEF Dated, VerifyJWT
  <2>3. ASSUME VerifyJWT(t), t.hash # cfg.hash
        PROVE  /\ envSecret
               /\ \/ t.asked > cfg.after
                  \/ t.asked = cfg.after /\ t.iat = t.asked + 1
    <3>1. envSecret
      BY <2>1, <2>3 DEF VerifyJWT, jwtSecret
    <3>2. cfg.after > 0 => t.iat > cfg.after
      BY <2>3 DEF VerifyJWT
    <3> QED
      BY <2>1, <3>1, <3>2 DEF Dated
  <2> QED
    BY <2>2, <2>3
<1>2. IInv => SessionsFollowPassword
  BY <1>1 DEF SessionsFollowPassword
<1> QED
  BY <1>2, SpecIInv, PTL
=============================================================================
