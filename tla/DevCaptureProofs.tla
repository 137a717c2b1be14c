-------------------------- MODULE DevCaptureProofs --------------------------
(***************************************************************************)
(* What the captures and their samples keep, for any number of requests,   *)
(* administrators, continuations and seconds, and any size of the store.   *)
(*                                                                         *)
(* The captures of one call enter the store with rounds and seconds that   *)
(* never go back, for a call has one pump, which knows both for the        *)
(* capture it is at.  Arranging captures by a total order of theirs loses  *)
(* none and keeps that order.  A sample is named once, and its name is     *)
(* free as long as no other sample took it.                                *)
(***************************************************************************)
EXTENDS DevCapture, FiniteSetTheorems, SequenceTheorems, WellFoundedInduction, TLAPS

-----------------------------------------------------------------------------
(***************************************************************************)
(* The invariant.                                                          *)
(***************************************************************************)

Identity == (Requests \X (0..2)) \X Nat
Capture  == [id: Identity, created: Nat, full: BOOLEAN]

TypeOK ==
  /\ items \in Seq(Capture)
  /\ now \in Nat
  /\ request \in [Requests -> [phase: {"ready", "idle", "calling", "reading", "retry", "returned"},
                               calls: 0..2, uploads: BOOLEAN]]
  /\ pump \in [Calls -> [phase: {"off", "pumping", "between", "continuing", "ended"},
                         round: Nat, attempts: Nat, start: Nat, read: BOOLEAN]]
  /\ admin \in [Admins -> [phase: {"idle", "capturing", "written", "saved", "failed"},
                           before: SUBSET Identity, chosen: Seq(Identity), name: Nat]]
  /\ samples \in [Names -> Seq(Identity)]

\* Where a request and the pumps of its calls are.
Calling ==
  /\ \A r \in Requests :
       /\ request[r].calls <= MaxCalls[r]
       /\ request[r].phase \in {"calling", "reading"} => request[r].calls > 0
       /\ request[r].phase = "calling" => pump[Current(r)].phase = "off"
  /\ \A c \in Calls :
       /\ pump[c].start <= now
       /\ pump[c].phase = "off" => pump[c].round = 0
       /\ c[2] > request[c[1]].calls => pump[c].phase = "off"

\* What a capture in the store was made of, and what its pump has gone to since.
Known(e) ==
  LET c == e.id[1] IN
    /\ e.created <= now
    /\ c[2] <= request[c[1]].calls
    /\ c[2] = 0 => e.id[2] = 0
    /\ c[2] > 0 =>
         /\ c \in Calls
         /\ pump[c].phase # "ended" => e.id[2] <= pump[c].round
         /\ pump[c].phase \in {"off", "pumping", "continuing"} => e.created <= pump[c].start

AllKnown == \A i \in DOMAIN items : Known(items[i])

\* The captures of a call entered the store in the order of their rounds.
Ordered ==
  \A i, j \in DOMAIN items :
    i < j /\ items[i].id[1] = items[j].id[1] =>
      items[j].id[2] <= items[i].id[2] /\ items[j].created <= items[i].created

\* The samples that are written, and those that are saved.
Sampled ==
  /\ \A a \in Admins :
       /\ admin[a].phase \in {"written", "saved"} =>
            admin[a].name \in Names /\ admin[a].chosen # NoSample /\ InOrder(admin[a].chosen)
       /\ admin[a].phase = "saved" => samples[admin[a].name] = admin[a].chosen
  /\ \A n \in Names :
       /\ samples[n] # NoSample => \E a \in Admins : admin[a].phase = "saved" /\ admin[a].name = n
       /\ InOrder(samples[n])

\* A request that is to be captured has no captures before.
Own ==
  \A a \in Capturers :
    /\ admin[a].phase = "idle" =>
         /\ request[a].phase = "idle" /\ request[a].calls = 0
         /\ \A i \in DOMAIN items : items[i].id[1][1] # a
    /\ \A id \in admin[a].before : id[1][1] # a

IInv == TypeOK /\ Calling /\ AllKnown /\ Ordered /\ Sampled /\ Own

-----------------------------------------------------------------------------
(***************************************************************************)
(* The order of captures.                                                  *)
(***************************************************************************)

\* A strict total order of some positions.
Orders(R, P) ==
  /\ \A i \in P : <<i, i>> \notin R
  /\ \A i, j, k \in P : <<i, j>> \in R /\ <<j, k>> \in R => <<i, k>> \in R
  /\ \A i, j \in P : i = j \/ <<i, j>> \in R \/ <<j, i>> \in R

\* How many of the positions precede one.
Rank(R, P, i) == Cardinality({j \in P : <<j, i>> \in R})

Ranked(R, P) ==
  /\ \A i \in P : Rank(R, P, i) \in 0..(Cardinality(P) - 1)
  /\ \A i, j \in P : <<i, j>> \in R => Rank(R, P, i) < Rank(R, P, j)
  /\ \A i, j \in P : Rank(R, P, i) = Rank(R, P, j) => i = j
  /\ \A k \in 1..Cardinality(P) : \E i \in P : Rank(R, P, i) = k - 1

\* Each position has a rank of its own, and every rank is taken.
LEMMA Ranks ==
  ASSUME NEW P, NEW R, IsFiniteSet(P), Orders(R, P)
  PROVE  Ranked(R, P)
<1> DEFINE Before(i) == {j \in P : <<j, i>> \in R}
           N == Cardinality(P)
<1>1. N \in Nat
  BY FS_CardinalityType
<1>2. ASSUME NEW i \in P
      PROVE  IsFiniteSet(Before(i)) /\ Rank(R, P, i) \in Nat /\ Rank(R, P, i) < N
  <2>1. Before(i) \in SUBSET P /\ i \notin Before(i)
    BY DEF Orders
  <2>2. IsFiniteSet(Before(i)) /\ Cardinality(Before(i)) <= N /\ (N = Cardinality(Before(i)) => P = Before(i))
    BY <2>1, FS_Subset
  <2>3. Cardinality(Before(i)) \in Nat
    BY <2>2, FS_CardinalityType
  <2> QED
    BY <1>1, <2>1, <2>2, <2>3 DEF Rank
<1>3. ASSUME NEW i \in P, NEW j \in P, <<i, j>> \in R
      PROVE  Rank(R, P, i) < Rank(R, P, j)
  <2>1. Before(i) \in SUBSET Before(j) /\ i \in Before(j) /\ i \notin Before(i)
    BY <1>3 DEF Orders
  <2>2. IsFiniteSet(Before(j))
    BY <1>2
  <2>3. /\ Cardinality(Before(i)) <= Cardinality(Before(j))
        /\ Cardinality(Before(j)) = Cardinality(Before(i)) => Before(j) = Before(i)
    BY <2>1, <2>2, FS_Subset
  <2>4. Rank(R, P, i) \in Nat /\ Rank(R, P, j) \in Nat
    BY <1>2
  <2> QED
    BY <2>1, <2>3, <2>4 DEF Rank
<1> HIDE DEF Before
<1>4. ASSUME NEW i \in P, NEW j \in P, Rank(R, P, i) = Rank(R, P, j)
      PROVE  i = j
  <2>1. Rank(R, P, i) \in Nat /\ Rank(R, P, j) \in Nat
    BY <1>2
  <2>2. <<i, j>> \notin R /\ <<j, i>> \notin R
    BY <1>3, <1>4, <2>1
  <2> QED
    BY <2>2 DEF Orders
<1>5. ASSUME NEW k \in 1..N
      PROVE  \E i \in P : Rank(R, P, i) = k - 1
  <2> DEFINE f == [i \in P |-> Rank(R, P, i)]
  <2>1. f \in [P -> 0..(N - 1)]
    BY <1>1, <1>2
  <2>2. f \in Injection(P, 0..(N - 1))
    BY <1>4, <2>1 DEF Injection, IsInjective
  <2>3. IsFiniteSet(0..(N - 1)) /\ Cardinality(0..(N - 1)) = N
    <3>1. 0 \in Int /\ N - 1 \in Int /\ (0 > N - 1 <=> N = 0) /\ (N - 1) - 0 + 1 = N
      BY <1>1
    <3>2. /\ IsFiniteSet(0..(N - 1))
          /\ Cardinality(0..(N - 1)) = IF 0 > N - 1 THEN 0 ELSE (N - 1) - 0 + 1
      BY <3>1, FS_Interval, Zenon
    <3> QED
      BY <3>1, <3>2
  <2>4. f \in Surjection(P, 0..(N - 1))
    BY <2>2, <2>3, FS_Injection
  <2>5. k - 1 \in 0..(N - 1)
    BY <1>1
  <2>6. PICK i \in P : f[i] = k - 1
    BY <2>4, <2>5 DEF Surjection
  <2> QED
    BY <2>6
<1>6. \A i \in P : Rank(R, P, i) \in 0..(N - 1)
  BY <1>1, <1>2
<1> QED
  BY <1>3, <1>4, <1>5, <1>6 DEF Ranked

\* Captures that are arranged follow each other by the order, and none is lost.
LEMMA Arranged ==
  ASSUME NEW entries \in Seq(Capture), NEW P \in SUBSET (1..Len(entries)), NEW R, Orders(R, P)
  PROVE  /\ Cardinality(P) \in Nat
         /\ DOMAIN Arrange(entries, P, R) = 1..Cardinality(P)
         /\ \E pos \in [1..Cardinality(P) -> P] :
              /\ \A k \in 1..Cardinality(P) : Arrange(entries, P, R)[k] = entries[pos[k]]
              /\ \A k, l \in 1..Cardinality(P) : k < l => <<pos[k], pos[l]>> \in R
              /\ \A i \in P : \E k \in 1..Cardinality(P) : pos[k] = i
<1> DEFINE N == Cardinality(P)
<1>1. IsFiniteSet(P) /\ N \in Nat
  <2>1. Len(entries) \in Nat
    BY LenProperties
  <2>2. IsFiniteSet(1..Len(entries))
    BY <2>1, FS_Interval
  <2> QED
    BY <2>2, FS_Subset, FS_CardinalityType
<1>2. /\ \A i \in P : Rank(R, P, i) \in 0..(N - 1)
      /\ \A i, j \in P : <<i, j>> \in R => Rank(R, P, i) < Rank(R, P, j)
      /\ \A i, j \in P : Rank(R, P, i) = Rank(R, P, j) => i = j
      /\ \A k \in 1..N : \E i \in P : Rank(R, P, i) = k - 1
  <2>1. Orders(R, P)
    OBVIOUS
  <2>2. IsFiniteSet(P)
    BY <1>1
  <2>3. Ranked(R, P)
    BY <2>1, <2>2, Ranks
  <2> QED
    BY <2>3 DEF Ranked
<1> DEFINE pos == [k \in 1..N |-> CHOOSE i \in P : Rank(R, P, i) = k - 1]
<1>3. \A k \in 1..N : pos[k] \in P /\ Rank(R, P, pos[k]) = k - 1
  BY <1>2
<1>4. pos \in [1..N -> P]
  BY <1>3
<1>5. \A k \in 1..N : Arrange(entries, P, R)[k] = entries[pos[k]]
  BY DEF Arrange, Rank
<1>6. DOMAIN Arrange(entries, P, R) = 1..N
  BY DEF Arrange
<1> HIDE DEF pos
<1>7. ASSUME NEW k \in 1..N, NEW l \in 1..N, k < l
      PROVE  <<pos[k], pos[l]>> \in R
  <2>1. /\ pos[k] \in P /\ pos[l] \in P
        /\ Rank(R, P, pos[k]) = k - 1 /\ Rank(R, P, pos[l]) = l - 1
    BY <1>3
  <2>2. pos[k] # pos[l] /\ <<pos[l], pos[k]>> \notin R
    <3>1. k - 1 < l - 1 /\ ~(l - 1 < k - 1) /\ k - 1 # l - 1
      BY <1>1, <1>7
    <3> QED
      BY <1>2, <2>1, <3>1
  <2> QED
    BY <2>1, <2>2 DEF Orders
<1>8. ASSUME NEW i \in P PROVE \E k \in 1..N : pos[k] = i
  <2>1. PICK k \in 1..N : k = Rank(R, P, i) + 1
    BY <1>1, <1>2
  <2>2. Rank(R, P, pos[k]) = Rank(R, P, i) /\ pos[k] \in P
    BY <1>1, <1>2, <1>3, <2>1
  <2> QED
    BY <1>2, <2>2
<1> QED
  BY <1>1, <1>4, <1>5, <1>6, <1>7, <1>8

\* Both orders of captures are total.
LEMMA TotalOrders ==
  ASSUME NEW entries \in Seq(Capture), NEW P \in SUBSET (1..Len(entries))
  PROVE  Orders(Older(entries), P) /\ Orders(Chronological(entries), P)
<1>1. /\ DOMAIN entries = 1..Len(entries) /\ Len(entries) \in Nat
      /\ \A i \in P : i \in DOMAIN entries /\ i \in Nat /\ entries[i].created \in Nat
  <2>1. /\ DOMAIN entries = 1..Len(entries) /\ Len(entries) \in Nat
        /\ \A i \in 1..Len(entries) : entries[i] \in Capture
    BY LenProperties, ElementOfSeq
  <2>2. \A i \in 1..Len(entries) : entries[i].created \in Nat
    BY <2>1 DEF Capture
  <2>3. ASSUME NEW i \in P PROVE i \in DOMAIN entries /\ i \in Nat
    <3>1. i \in 1..Len(entries)
      OBVIOUS
    <3> QED
      BY <2>1, <3>1
  <2> QED
    BY <2>1, <2>2, <2>3
<1>2. \A i, j \in P : <<i, j>> \in Older(entries) <=> i > j
  BY <1>1 DEF Older
<1>3. \A i, j \in P : <<i, j>> \in Chronological(entries) <=>
        \/ entries[i].created < entries[j].created
        \/ entries[i].created = entries[j].created /\ i > j
  BY <1>1, <1>2 DEF Chronological
<1>4. Orders(Older(entries), P)
  BY <1>1, <1>2 DEF Orders
<1> DEFINE created(i) == entries[i].created
<1>5. Orders(Chronological(entries), P)
  <2>1. /\ \A i \in P : created(i) \in Nat
        /\ \A i, j \in P : <<i, j>> \in Chronological(entries) <=>
             created(i) < created(j) \/ (created(i) = created(j) /\ i > j)
    BY <1>1, <1>3
  <2> HIDE DEF created
  <2> QED
    BY <1>1, <2>1 DEF Orders
<1> QED
  BY <1>4, <1>5

-----------------------------------------------------------------------------
(***************************************************************************)
(* The store.                                                              *)
(***************************************************************************)

\* A capture is pushed in front of the others, and the oldest may fall out.
LEMMA Pushed ==
  ASSUME items \in Seq(Capture), NEW entry \in Capture, push(entry)
  PROVE  /\ items' \in Seq(Capture)
         /\ Len(items') \in Nat /\ Len(items') <= Len(items) + 1
         /\ \A i \in 1..Len(items') : items'[i] = IF i = 1 THEN entry ELSE items[i - 1]
<1> DEFINE all == <<entry>> \o items
<1> PICK m \in Nat : m = IF Len(items) < Limit THEN Len(items) + 1 ELSE Limit
  BY CaptureAssumption
<1>1. /\ all \in Seq(Capture) /\ Len(all) = Len(items) + 1 /\ Len(items) \in Nat
      /\ \A i \in 1..Len(all) : all[i] = IF i = 1 THEN entry ELSE items[i - 1]
  OBVIOUS
<1>2. items' = SubSeq(all, 1, m) /\ m <= Len(items) + 1
  BY CaptureAssumption DEF push
<1> HIDE DEF all
<1>3. \A i \in 1..m : all[i] \in Capture
  BY <1>1, <1>2, ElementOfSeq
<1>4. /\ items' \in Seq(Capture) /\ Len(items') = m
      /\ \A i \in 1..m : items'[i] = all[i]
  BY <1>1, <1>2, <1>3, SubSeqProperties
<1>5. \A i \in 1..m : i \in 1..Len(all)
  BY <1>1, <1>2
<1> QED
  BY <1>1, <1>2, <1>4, <1>5

\* Captures that may come next: all that the store has of their call are before.
Fits(entry) ==
  /\ entry \in Capture /\ Known(entry)'
  /\ request[entry.id[1][1]].phase = "idle" => request[entry.id[1][1]].calls > 0
  /\ \A e \in Capture : Known(e) /\ e.id[1] = entry.id[1] =>
       e.id[2] <= entry.id[2] /\ e.created <= entry.created

\* A call of a request.
LEMMA CallParts ==
  /\ \A c \in Calls : /\ c[1] \in Requests /\ c[2] \in 1..2 /\ c[2] <= MaxCalls[c[1]]
                      /\ c = <<c[1], c[2]>> /\ c \in Requests \X (0..2)
  /\ \A r \in Requests : \A n \in 1..2 : n <= MaxCalls[r] => <<r, n>> \in Calls
BY DEF Calls

\* A request counts its calls.
LEMMA CallCounts ==
  ASSUME TypeOK, NEW r \in Requests
  PROVE  request[r].calls \in 0..2 /\ request[r].calls \in Nat
BY DEF TypeOK

\* The call that a request is at.
LEMMA CurrentCall ==
  ASSUME TypeOK, Calling, NEW r \in Requests, request[r].phase \in {"calling", "reading"}
  PROVE  /\ Current(r) \in Calls /\ Current(r)[1] = r /\ Current(r)[2] = request[r].calls
         /\ Current(r) = <<r, request[r].calls>>
<1>1. request[r].calls \in 1..2 /\ request[r].calls <= MaxCalls[r]
  BY DEF TypeOK, Calling
<1> QED
  BY <1>1, CallParts DEF Current

\* A capture of a pump, as it is now.
LEMMA PumpFits ==
  ASSUME TypeOK, Calling, NEW c \in Calls, NEW full \in BOOLEAN,
         c[2] <= request[c[1]].calls, pump[c].phase \in {"off", "pumping", "continuing"},
         request'[c[1]].calls = request[c[1]].calls, now' = now,
         pump'[c].phase # "ended" => pump'[c].round = pump[c].round,
         pump'[c].phase \in {"off", "between", "ended"},
         pump'[c].phase = "off" => pump'[c].start = pump[c].start
  PROVE  \E entry \in Capture : entry = Entry(c, pump[c].round, pump[c].start, full) /\ Fits(entry)
<1>1. c \in Requests \X (0..2) /\ c[2] \in 1..2
  BY CallParts
<1>2. pump[c].round \in Nat /\ pump[c].start \in Nat /\ now \in Nat /\ pump[c].start <= now
  BY DEF TypeOK, Calling
<1>3. PICK entry \in Capture : entry = Entry(c, pump[c].round, pump[c].start, full)
  BY <1>1, <1>2 DEF Entry, Capture, Identity
<1>4. /\ entry.created = pump[c].start /\ entry.id[1] = c /\ entry.id[2] = pump[c].round
  BY <1>3 DEF Entry
<1>5. Known(entry)'
  BY <1>1, <1>2, <1>4 DEF Known
<1>6. ASSUME NEW e \in Capture, Known(e), e.id[1] = entry.id[1]
      PROVE  e.id[2] <= entry.id[2] /\ e.created <= entry.created
  BY <1>1, <1>4, <1>6 DEF Known
<1>7. request[entry.id[1][1]].calls > 0
  <2>1. entry.id[1][1] = c[1] /\ request[c[1]].calls \in Nat
    BY <1>4, CallParts, CallCounts
  <2> QED
    BY <1>1, <2>1
<1> QED
  BY <1>3, <1>5, <1>6, <1>7 DEF Fits

\* What a step does to the store.
LEMMA StoreStep ==
  ASSUME TypeOK, Calling, [Next]_vars
  PROVE  \/ items' = items \/ items' = <<>>
         \/ \E entry \in Capture : push(entry) /\ Fits(entry)
<1>1. ASSUME NEW r \in Requests, Upload(r)
      PROVE  \E entry \in Capture : push(entry) /\ Fits(entry)
  <2>1. now' = now /\ now \in Nat /\ request'[r].calls = request[r].calls /\ request[r].calls \in 0..2
    BY <1>1 DEF Upload, TypeOK
  <2>2. PICK entry \in Capture : entry = Entry(<<r, 0>>, 0, now, TRUE)
    <3>1. <<r, 0>> \in Requests \X (0..2)
      OBVIOUS
    <3>2. <<<<r, 0>>, 0>> \in Identity
      BY <3>1 DEF Identity
    <3> QED
      BY <2>1, <3>2 DEF Entry, Capture
  <2>3. entry.id[1] = <<r, 0>> /\ entry.id[2] = 0 /\ entry.created = now
    BY <2>2 DEF Entry
  <2>4. Known(entry)'
    BY <2>1, <2>3 DEF Known
  <2>5. ASSUME NEW e \in Capture, Known(e), e.id[1] = entry.id[1]
        PROVE  e.id[2] <= entry.id[2] /\ e.created <= entry.created
    BY <2>3, <2>5 DEF Known
  <2>6. push(entry)
    BY <1>1, <2>2 DEF Upload
  <2>7. request[entry.id[1][1]].phase # "idle"
    BY <1>1, <2>3 DEF Upload
  <2> QED
    BY <2>4, <2>5, <2>6, <2>7 DEF Fits
<1>2. ASSUME NEW r \in Requests, AttemptFails(r), items' # items
      PROVE  \E entry \in Capture : push(entry) /\ Fits(entry)
  <2>1. PICK c \in Calls : c = Current(r)
    BY <1>2, CurrentCall DEF AttemptFails
  <2>2. c[1] = r /\ c[2] = request[r].calls /\ pump[c].phase = "off" /\ pump[c].round = 0
    BY <1>2, <2>1, CurrentCall DEF AttemptFails, Calling
  <2>3. push(Entry(c, pump[c].round, pump[c].start, FALSE)) /\ now' = now
    BY <1>2, <2>1, <2>2 DEF AttemptFails
  <2>4. /\ request'[r].calls = request[r].calls
        /\ pump'[c].phase \in {"off", "ended"}
        /\ pump'[c].phase = "off" => pump'[c].round = pump[c].round /\ pump'[c].start = pump[c].start
    <3>1. CASE pump[c].attempts + 1 < MaxAttempts
      BY <1>2, <2>1, <2>2, <3>1 DEF AttemptFails, TypeOK
    <3>2. CASE ~(pump[c].attempts + 1 < MaxAttempts)
      BY <1>2, <2>1, <2>2, <3>2 DEF AttemptFails, TypeOK, Ended
    <3> QED
      BY <3>1, <3>2
  <2>5. c[2] <= request[c[1]].calls
    BY <2>2, CallCounts
  <2>6. \E entry \in Capture : entry = Entry(c, pump[c].round, pump[c].start, FALSE) /\ Fits(entry)
    BY <2>2, <2>3, <2>4, <2>5, PumpFits
  <2> QED
    BY <2>3, <2>6
<1>3. ASSUME NEW c \in Calls, Finalize(c) \/ (ContinueFails(c) /\ items' # items)
      PROVE  \E entry \in Capture : push(entry) /\ Fits(entry)
  <2>1. /\ pump[c].phase \in {"pumping", "continuing"} /\ now' = now /\ request' = request
        /\ \E full \in BOOLEAN : push(Entry(c, pump[c].round, pump[c].start, full))
    BY <1>3, Zenon DEF Finalize, ContinueFails
  <2>2. /\ pump'[c].phase \in {"between", "ended"}
        /\ pump'[c].phase = "between" => pump'[c].round = pump[c].round
    <3>1. \/ pump' = [pump EXCEPT ![c].phase = "between", ![c].start = 0]
          \/ pump' = [pump EXCEPT ![c] = Ended]
      BY <1>3 DEF Finalize, ContinueFails
    <3> QED
      BY <3>1 DEF TypeOK, Ended
  <2>3. c[2] <= request[c[1]].calls
    <3>1. c[1] \in Requests /\ c[2] \in Nat
      BY CallParts
    <3>2. request[c[1]].calls \in Nat
      BY <3>1, CallCounts
    <3> QED
      BY <2>1, <3>1, <3>2 DEF Calling
  <2>4. PICK full \in BOOLEAN : push(Entry(c, pump[c].round, pump[c].start, full))
    BY <2>1
  <2>5. \E entry \in Capture : entry = Entry(c, pump[c].round, pump[c].start, full) /\ Fits(entry)
    BY <2>1, <2>2, <2>3, PumpFits
  <2> QED
    BY <2>4, <2>5
<1> QED
  BY <1>1, <1>2, <1>3 DEF Next, vars, Tick, Clear, CallCompletion, Answers, Leave, Retry,
     callContinue, ContinueAnswers, PumpEnds, captureRawSample, Collect,
     saveRawSampleFromCaptures, Promote

\* How the pump of a call that was begun goes on.
Goes(c) ==
  \/ pump'[c] = pump[c] \/ pump'[c].phase = "ended"
  \/ /\ pump'[c].round = pump[c].round /\ pump'[c].start = pump[c].start
     /\ pump'[c].phase = pump[c].phase \/ pump[c].phase \in {"off", "continuing"}
  \/ pump'[c].phase = "between" /\ pump'[c].round = pump[c].round /\ pump[c].phase = "pumping"
  \/ pump[c].phase = "between" /\ pump'[c].round = pump[c].round + 1 /\ pump'[c].start = now

\* While a call has begun, its pump only goes this way.
LEMMA PumpGoes ==
  ASSUME TypeOK, Calling, [Next]_vars, NEW c \in Calls, c[2] <= request[c[1]].calls
  PROVE  Goes(c)
<1>1. c[1] \in Requests /\ c = <<c[1], c[2]>>
  BY CallParts
<1>2. CASE pump' = pump
  BY <1>2 DEF Goes
<1>3. ASSUME NEW r \in Requests, CallCompletion(r)
      PROVE  Goes(c)
  <2>1. c # <<r, request[r].calls + 1>>
    <3>1. c[1] = r => c[2] # request[r].calls + 1
      BY CallCounts
    <3> QED
      BY <3>1
  <2>2. pump' = [pump EXCEPT ![<<r, request[r].calls + 1>>].start = now]
    BY <1>3 DEF CallCompletion
  <2>3. pump'[c] = pump[c]
    BY <2>1, <2>2 DEF TypeOK
  <2> QED
    BY <2>3 DEF Goes
<1>4. ASSUME NEW r \in Requests, AttemptFails(r) \/ Answers(r) \/ Leave(r)
      PROVE  Goes(c)
  <2>1. PICK d \in Calls : d = Current(r)
    BY <1>4, CurrentCall DEF AttemptFails, Answers, Leave
  <2>2. request[r].phase = "calling" => pump[d].phase = "off"
    BY <2>1 DEF Calling
  <2>3. CASE AttemptFails(r)
    <3>1. \/ pump' = [pump EXCEPT ![d].attempts = @ + 1]
          \/ pump' = [pump EXCEPT ![d] = Ended]
      BY <2>1, <2>3 DEF AttemptFails
    <3> QED
      BY <3>1 DEF Goes, Ended, TypeOK
  <2>4. CASE Answers(r)
    <3>1. pump' = [pump EXCEPT ![d].phase = "pumping", ![d].read = TRUE] /\ pump[d].phase = "off"
      BY <2>1, <2>2, <2>4 DEF Answers
    <3> QED
      BY <3>1 DEF Goes, TypeOK
  <2>5. CASE Leave(r)
    <3>1. pump' = [pump EXCEPT ![d].read = FALSE]
      BY <2>1, <2>5 DEF Leave
    <3> QED
      BY <3>1 DEF Goes, TypeOK
  <2> QED
    BY <1>4, <2>3, <2>4, <2>5
<1>5. ASSUME NEW d \in Calls, Finalize(d) \/ ContinueFails(d) \/ PumpEnds(d)
      PROVE  Goes(c)
  <2>1. \/ pump' = [pump EXCEPT ![d].phase = "between", ![d].start = 0] /\ pump[d].phase = "pumping"
        \/ pump' = [pump EXCEPT ![d] = Ended]
    BY <1>5 DEF Finalize, ContinueFails, PumpEnds
  <2> QED
    BY <2>1 DEF Goes, Ended, TypeOK
<1>6. ASSUME NEW d \in Calls, ContinueAnswers(d)
      PROVE  Goes(c)
  BY <1>6 DEF ContinueAnswers, TypeOK, Goes
<1>7. ASSUME NEW d \in Calls, callContinue(d)
      PROVE  Goes(c)
  BY <1>7 DEF callContinue, TypeOK, Goes
<1>8. \/ pump' = pump
      \/ \E r \in Requests : CallCompletion(r) \/ AttemptFails(r) \/ Answers(r) \/ Leave(r)
      \/ \E d \in Calls : Finalize(d) \/ ContinueFails(d) \/ PumpEnds(d) \/ ContinueAnswers(d) \/ callContinue(d)
  BY DEF Next, vars, Tick, Clear, Upload, Retry, captureRawSample, Collect,
     saveRawSampleFromCaptures, Promote
<1> QED
  BY <1>2, <1>3, <1>4, <1>5, <1>6, <1>7, <1>8

\* How time and the requests go on.
LEMMA RequestGoes ==
  ASSUME TypeOK, [Next]_vars
  PROVE  /\ now' \in {now, now + 1}
         /\ \A r \in Requests : request'[r].calls \in {request[r].calls, request[r].calls + 1}
<1>1. ASSUME NEW q \in Requests, Upload(q) \/ AttemptFails(q) \/ Answers(q) \/ Leave(q) \/ Retry(q)
      PROVE  now' = now /\ \A r \in Requests : request'[r].calls = request[r].calls
  <2>1. CASE Upload(q)
    BY <2>1 DEF Upload, TypeOK
  <2>2. CASE AttemptFails(q)
    <3>1. now' = now
      BY <2>2 DEF AttemptFails
    <3>2. request' = request \/ request' = [request EXCEPT ![q].phase = "returned"]
      BY <2>2 DEF AttemptFails
    <3>3. CASE request' = [request EXCEPT ![q].phase = "returned"]
      BY <3>1, <3>3 DEF TypeOK
    <3> QED
      BY <3>1, <3>2, <3>3
  <2>3. CASE Answers(q)
    BY <2>3 DEF Answers, TypeOK
  <2>4. CASE Leave(q)
    BY <2>4 DEF Leave, TypeOK
  <2>5. CASE Retry(q)
    BY <2>5 DEF Retry, TypeOK
  <2> QED
    BY <1>1, <2>1, <2>2, <2>3, <2>4, <2>5
<1>2. ASSUME NEW q \in Requests, CallCompletion(q)
      PROVE  now' = now /\ \A r \in Requests : request'[r].calls \in {request[r].calls, request[r].calls + 1}
  BY <1>2 DEF CallCompletion, TypeOK
<1>3. ASSUME NEW a \in Admins, captureRawSample(a) \/ Collect(a) \/ saveRawSampleFromCaptures(a) \/ Promote(a)
      PROVE  now' = now /\ \A r \in Requests : request'[r].calls = request[r].calls
  <2>1. CASE captureRawSample(a)
    BY <2>1 DEF captureRawSample, TypeOK
  <2>2. CASE ~captureRawSample(a)
    BY <1>3, <2>2 DEF Collect, saveRawSampleFromCaptures, Promote
  <2> QED
    BY <2>1, <2>2
<1>4. ASSUME NEW c \in Calls, \/ Finalize(c) \/ callContinue(c) \/ ContinueAnswers(c)
                              \/ ContinueFails(c) \/ PumpEnds(c)
      PROVE  now' = now /\ request' = request
  BY <1>4 DEF Finalize, callContinue, ContinueAnswers, ContinueFails, PumpEnds
<1>5. CASE Tick \/ Clear \/ UNCHANGED vars
  BY <1>5 DEF Tick, Clear, vars
<1> QED
  BY <1>1, <1>2, <1>3, <1>4, <1>5 DEF Next

\* What is known of a capture stays so.
LEMMA KnownStays ==
  ASSUME TypeOK, Calling, [Next]_vars, NEW e \in Capture, Known(e)
  PROVE  Known(e)'
<1>1. PICK c \in Requests \X (0..2) : c = e.id[1]
  BY DEF Capture, Identity
<1>2. /\ c[1] \in Requests /\ c[2] \in 0..2
      /\ e.created \in Nat /\ e.id[2] \in Nat /\ now \in Nat /\ request[c[1]].calls \in Nat
  BY <1>1 DEF Capture, Identity, TypeOK
<1>3. /\ e.created <= now
      /\ c[2] <= request[c[1]].calls
      /\ c[2] = 0 => e.id[2] = 0
      /\ c[2] > 0 =>
           /\ c \in Calls
           /\ pump[c].phase # "ended" => e.id[2] <= pump[c].round
           /\ pump[c].phase \in {"off", "pumping", "continuing"} => e.created <= pump[c].start
  BY <1>1 DEF Known
<1>4. e.created <= now' /\ c[2] <= request'[c[1]].calls
  BY <1>2, <1>3, RequestGoes
<1>5. ASSUME c[2] > 0
      PROVE  /\ pump'[c].phase # "ended" => e.id[2] <= pump'[c].round
             /\ pump'[c].phase \in {"off", "pumping", "continuing"} => e.created <= pump'[c].start
  <2>1. pump[c].round \in Nat /\ pump[c].start \in Nat
    BY <1>5, <1>3 DEF TypeOK
  <2>2. Goes(c)
    BY <1>5, <1>3, PumpGoes
  <2> QED
    BY <1>2, <1>5, <1>3, <2>1, <2>2 DEF Goes
<1> QED
  BY <1>1, <1>3, <1>4, <1>5 DEF Known

\* Requests and pumps keep together.
LEMMA CallingNext ==
  ASSUME TypeOK, Calling, [Next]_vars
  PROVE  Calling'
<1> DEFINE Requested(r) == /\ request[r].calls <= MaxCalls[r]
                           /\ request[r].phase \in {"calling", "reading"} => request[r].calls > 0
                           /\ request[r].phase = "calling" => pump[<<r, request[r].calls>>].phase = "off"
           Pumped(c) == /\ pump[c].start <= now
                        /\ pump[c].phase = "off" => pump[c].round = 0
                        /\ c[2] > request[c[1]].calls => pump[c].phase = "off"
<1>1. \A r \in Requests : Requested(r)
  BY DEF Calling, Current
<1>2. \A c \in Calls : Pumped(c)
  BY DEF Calling
<1>3. now \in Nat /\ MaxCalls \in [Requests -> 0..2]
  BY CaptureAssumption DEF TypeOK
<1>4. (\A r \in Requests : Requested(r)') /\ (\A c \in Calls : Pumped(c)') => Calling'
  BY DEF Calling, Current
\* Steps of one request.
<1>5. ASSUME NEW q \in Requests, CallCompletion(q)
      PROVE  Calling'
  <2>1. PICK d \in Calls : d = <<q, request[q].calls + 1>> /\ d[1] = q /\ d[2] = request[q].calls + 1
    <3>1. request[q].calls + 1 \in 1..2 /\ request[q].calls + 1 <= MaxCalls[q]
      BY <1>5, <1>3, CallCounts DEF CallCompletion
    <3> QED
      BY <3>1, CallParts
  <2>2. /\ request' = [request EXCEPT ![q].phase = "calling", ![q].calls = @ + 1]
        /\ pump' = [pump EXCEPT ![d].start = now] /\ now' = now
        /\ request[q].calls < MaxCalls[q] /\ request[q].calls \in Nat
    BY <1>5, <2>1, CallCounts DEF CallCompletion
  <2>3. pump[d].phase = "off"
    BY <1>2, <2>1, <2>2, CallParts
  <2>4. ASSUME NEW r \in Requests PROVE Requested(r)'
    <3>1. CASE r = q
      <4>1. request'[q].calls = request[q].calls + 1 /\ pump'[<<q, request'[q].calls>>].phase = "off"
        BY <2>1, <2>2, <2>3 DEF TypeOK
      <4>2. request[q].calls + 1 <= MaxCalls[q] /\ request[q].calls + 1 > 0
        BY <1>3, <2>2
      <4> QED
        BY <3>1, <4>1, <4>2
    <3>2. CASE r # q
      <4>1. request'[r] = request[r] /\ <<r, request[r].calls>> # d
        BY <2>1, <2>2, <3>2 DEF TypeOK
      <4>2. request[r].phase = "calling" => <<r, request[r].calls>> \in Calls
        BY CurrentCall DEF Current
      <4>3. request[r].phase = "calling" => pump'[<<r, request[r].calls>>] = pump[<<r, request[r].calls>>]
        BY <2>2, <4>1, <4>2 DEF TypeOK
      <4> QED
        BY <1>1, <4>1, <4>3
    <3> QED
      BY <3>1, <3>2
  <2>5. ASSUME NEW c \in Calls PROVE Pumped(c)'
    <3>1. c[1] \in Requests /\ c[2] \in Nat /\ request[c[1]].calls \in Nat
      BY CallParts, CallCounts
    <3>2. /\ pump'[c].phase = pump[c].phase /\ pump'[c].round = pump[c].round
          /\ pump'[c].start = pump[c].start \/ pump'[c].start = now
          /\ request'[c[1]].calls >= request[c[1]].calls
      BY <2>2, <3>1 DEF TypeOK
    <3>3. request'[c[1]].calls \in Nat
      BY <2>2, <3>1 DEF TypeOK
    <3> QED
      BY <1>2, <1>3, <2>2, <3>1, <3>2, <3>3
  <2> HIDE DEF Requested, Pumped
  <2> QED
    BY <1>4, <2>4, <2>5
\* The pump of a call that was begun, and its request, which does not call anew.
<1>6. ASSUME NEW q \in Requests, NEW d \in Calls, NEW p \in {"ready", "idle", "calling", "reading", "retry", "returned"},
             d[1] = q, d[2] = request[q].calls,
             request' = request \/ request' = [request EXCEPT ![q].phase = p],
             request'[q].phase = "calling" => pump'[d].phase = "off",
             request'[q].phase = "reading" => request[q].phase \in {"calling", "reading"},
             \A c \in Calls : c # d => pump'[c] = pump[c],
             pump'[d].start <= now, pump'[d].phase = "off" => pump'[d].round = 0,
             now' = now
      PROVE  Calling'
  <2>1. d = <<q, request[q].calls>>
    BY <1>6, CallParts
  <2>2. /\ \A r \in Requests : request'[r].calls = request[r].calls
        /\ \A r \in Requests : r # q => request'[r] = request[r]
    <3>1. CASE request' = [request EXCEPT ![q].phase = p]
      BY <3>1 DEF TypeOK
    <3> QED
      BY <1>6, <3>1
  <2>3. ASSUME NEW r \in Requests PROVE Requested(r)'
    <3>1. CASE r = q
      <4>1. request'[q].phase \in {"calling", "reading"} => request[q].calls > 0
        BY <1>6, <2>1, CallParts
      <4> QED
        BY <1>1, <1>6, <2>1, <2>2, <3>1, <4>1
    <3>2. CASE r # q
      <4>1. request'[r] = request[r] /\ <<r, request[r].calls>> # d
        BY <2>1, <2>2, <3>2
      <4>2. request[r].phase = "calling" => <<r, request[r].calls>> \in Calls
        BY CurrentCall DEF Current
      <4>3. request[r].phase = "calling" => pump'[<<r, request[r].calls>>] = pump[<<r, request[r].calls>>]
        BY <1>6, <4>1, <4>2
      <4> QED
        BY <1>1, <4>1, <4>3
    <3> QED
      BY <3>1, <3>2
  <2>4. ASSUME NEW c \in Calls PROVE Pumped(c)'
    <3>1. c[1] \in Requests /\ c[2] \in Nat /\ request'[c[1]].calls = request[c[1]].calls
      BY <2>2, CallParts
    <3>2. CASE c = d
      BY <1>6, <1>3, <3>1, <3>2, CallCounts
    <3>3. CASE c # d
      BY <1>2, <1>6, <3>1, <3>3
    <3> QED
      BY <3>2, <3>3
  <2> HIDE DEF Requested, Pumped
  <2> QED
    BY <1>4, <2>3, <2>4
\* Steps of a pump by itself.
<1>7. ASSUME NEW d \in Calls, request' = request, now' = now,
             \A c \in Calls : c # d => pump'[c] = pump[c],
             pump[d].phase # "off", pump'[d].phase # "off", pump'[d].start <= now
      PROVE  Calling'
  <2>1. ASSUME NEW r \in Requests PROVE Requested(r)'
    <3>1. request[r].phase = "calling" => <<r, request[r].calls>> \in Calls
      BY CurrentCall DEF Current
    <3>2. request[r].phase = "calling" => <<r, request[r].calls>> # d
      BY <1>1, <1>7
    <3> QED
      BY <1>1, <1>7, <3>1, <3>2
  <2>2. ASSUME NEW c \in Calls PROVE Pumped(c)'
    BY <1>2, <1>7
  <2> HIDE DEF Requested, Pumped
  <2> QED
    BY <1>4, <2>1, <2>2
\* Steps that change no calls and no pump.
<1>8. ASSUME pump' = pump, now' = now \/ now' = now + 1,
             \A r \in Requests : /\ request'[r].calls = request[r].calls
                                 /\ \/ request'[r].phase = request[r].phase
                                    \/ request'[r].phase \notin {"calling", "reading"}
      PROVE  Calling'
  <2>1. ASSUME NEW r \in Requests PROVE Requested(r)'
    BY <1>1, <1>8
  <2>2. ASSUME NEW c \in Calls PROVE Pumped(c)'
    <3>1. c[1] \in Requests /\ pump[c].start \in Nat
      BY CallParts DEF TypeOK
    <3> QED
      BY <1>2, <1>8, <1>3, <3>1
  <2> HIDE DEF Requested, Pumped
  <2> QED
    BY <1>4, <2>1, <2>2
<1> HIDE DEF Requested, Pumped
<1>9. ASSUME NEW q \in Requests, AttemptFails(q) \/ Answers(q) \/ Leave(q)
      PROVE  Calling'
  <2>1. PICK d \in Calls : d = Current(q) /\ d[1] = q /\ d[2] = request[q].calls
    BY <1>9, CurrentCall DEF AttemptFails, Answers, Leave
  <2>2. request[q].phase = "calling" => pump[d].phase = "off"
    BY <2>1 DEF Calling
  <2>3. pump[d].start <= now /\ (pump[d].phase = "off" => pump[d].round = 0) /\ 0 <= now
    BY <1>3 DEF Calling
  <2>4. CASE AttemptFails(q)
    <3>1. CASE pump' = [pump EXCEPT ![d].attempts = @ + 1] /\ request' = request
      <4>1. /\ \A c \in Calls : c # d => pump'[c] = pump[c]
            /\ pump'[d].phase = pump[d].phase /\ pump'[d].round = pump[d].round
            /\ pump'[d].start = pump[d].start
        BY <3>1 DEF TypeOK
      <4>2. now' = now /\ request[q].phase = "calling"
        BY <2>4 DEF AttemptFails
      <4> QED
        BY <1>6, <2>1, <2>2, <2>3, <3>1, <4>1, <4>2
    <3>2. CASE pump' = [pump EXCEPT ![d] = Ended] /\ request' = [request EXCEPT ![q].phase = "returned"]
      <4>1. /\ \A c \in Calls : c # d => pump'[c] = pump[c]
            /\ pump'[d].phase = "ended" /\ pump'[d].start = 0
        BY <3>2 DEF TypeOK, Ended
      <4>2. now' = now /\ request'[q].phase = "returned"
        BY <2>4, <3>2 DEF AttemptFails, TypeOK
      <4> QED
        BY <1>6, <2>1, <2>3, <3>2, <4>1, <4>2
    <3> QED
      BY <2>1, <2>4, <3>1, <3>2 DEF AttemptFails
  <2>5. CASE Answers(q)
    <3>1. /\ pump' = [pump EXCEPT ![d].phase = "pumping", ![d].read = TRUE]
          /\ request' = [request EXCEPT ![q].phase = "reading"]
          /\ request[q].phase = "calling" /\ now' = now
      BY <2>1, <2>5 DEF Answers
    <3>2. /\ \A c \in Calls : c # d => pump'[c] = pump[c]
          /\ pump'[d].phase = "pumping" /\ pump'[d].start = pump[d].start
          /\ request'[q].phase = "reading"
      BY <3>1 DEF TypeOK
    <3> QED
      BY <1>6, <2>1, <2>3, <3>1, <3>2
  <2>6. CASE Leave(q)
    <3>1. PICK p \in {"retry", "returned"} : request' = [request EXCEPT ![q].phase = p]
      BY <2>6 DEF Leave
    <3>2. /\ pump' = [pump EXCEPT ![d].read = FALSE] /\ now' = now
      BY <2>1, <2>6 DEF Leave
    <3>3. /\ \A c \in Calls : c # d => pump'[c] = pump[c]
          /\ pump'[d].phase = pump[d].phase /\ pump'[d].round = pump[d].round
          /\ pump'[d].start = pump[d].start /\ request'[q].phase = p
          /\ p # "calling" /\ p # "reading"
          /\ p \in {"ready", "idle", "calling", "reading", "retry", "returned"}
      BY <3>1, <3>2 DEF TypeOK
    <3> QED
      BY <1>6, <2>1, <2>3, <3>1, <3>2, <3>3
  <2> QED
    BY <1>9, <2>4, <2>5, <2>6
<1>10. ASSUME NEW d \in Calls, \/ Finalize(d) \/ callContinue(d) \/ ContinueAnswers(d)
                              \/ ContinueFails(d) \/ PumpEnds(d)
      PROVE  Calling'
  <2>1. now' = now /\ request' = request /\ pump[d].phase # "off"
    BY <1>10 DEF Finalize, callContinue, ContinueAnswers, ContinueFails, PumpEnds
  <2>2. \/ pump' = [pump EXCEPT ![d].phase = "between", ![d].start = 0]
        \/ pump' = [pump EXCEPT ![d].phase = "continuing", ![d].round = @ + 1, ![d].start = now]
        \/ pump' = [pump EXCEPT ![d].phase = "pumping"]
        \/ pump' = [pump EXCEPT ![d] = Ended]
    BY <1>10 DEF Finalize, callContinue, ContinueAnswers, ContinueFails, PumpEnds
  <2>3. /\ \A c \in Calls : c # d => pump'[c] = pump[c]
        /\ pump'[d].phase # "off"
        /\ pump'[d].start \in {0, now, pump[d].start}
    BY <2>2 DEF TypeOK, Ended
  <2>4. pump'[d].start <= now
    BY <1>3, <2>3 DEF Calling
  <2> QED
    BY <1>7, <2>1, <2>3, <2>4
<1>11. ASSUME NEW q \in Requests, Upload(q) \/ Retry(q)
      PROVE  Calling'
  <2>1. /\ pump' = pump /\ now' = now
        /\ \A r \in Requests : request'[r].calls = request[r].calls
        /\ \A r \in Requests : r # q => request'[r] = request[r]
        /\ request'[q].phase = request[q].phase \/ request'[q].phase \notin {"calling", "reading"}
    <3>1. CASE Upload(q)
      BY <3>1 DEF Upload, TypeOK
    <3>2. CASE Retry(q)
      BY <3>2 DEF Retry, TypeOK
    <3> QED
      BY <1>11, <3>1, <3>2
  <2> QED
    BY <1>8, <2>1
<1>12. ASSUME NEW a \in Admins, captureRawSample(a) \/ Collect(a) \/ saveRawSampleFromCaptures(a) \/ Promote(a)
      PROVE  Calling'
  <2>1. /\ pump' = pump /\ now' = now
        /\ request' = request \/ request' = [request EXCEPT ![a].phase = "ready"]
    BY <1>12 DEF captureRawSample, Collect, saveRawSampleFromCaptures, Promote
  <2>2. \A r \in Requests : /\ request'[r].calls = request[r].calls
                            /\ request'[r].phase = request[r].phase \/ request'[r].phase = "ready"
    <3>1. CASE request' = [request EXCEPT ![a].phase = "ready"]
      BY <3>1 DEF TypeOK
    <3> QED
      BY <2>1, <3>1
  <2> QED
    BY <1>8, <2>1, <2>2
<1>13. CASE Tick \/ Clear \/ UNCHANGED vars
  BY <1>8, <1>13 DEF Tick, Clear, vars
<1> QED
  BY <1>5, <1>9, <1>10, <1>11, <1>12, <1>13 DEF Next

\* The store stays in the order of rounds.
LEMMA OrderedNext ==
  ASSUME TypeOK, Calling, AllKnown, Ordered, [Next]_vars
  PROVE  AllKnown' /\ Ordered'
<1>1. /\ items \in Seq(Capture) /\ DOMAIN items = 1..Len(items) /\ Len(items) \in Nat
      /\ \A i \in DOMAIN items : items[i] \in Capture
  BY ElementOfSeq DEF TypeOK
<1>2. CASE items' = items
  <2>1. AllKnown'
    BY <1>1, <1>2, KnownStays DEF AllKnown
  <2> QED
    BY <1>2, <2>1 DEF Ordered
<1>3. CASE items' = <<>>
  BY <1>3 DEF AllKnown, Ordered
<1>4. ASSUME NEW entry \in Capture, push(entry), Fits(entry)
      PROVE  AllKnown' /\ Ordered'
  <2>1. /\ items' \in Seq(Capture)
        /\ Len(items') \in Nat /\ Len(items') <= Len(items) + 1
        /\ \A i \in 1..Len(items') : items'[i] = IF i = 1 THEN entry ELSE items[i - 1]
    BY <1>1, <1>4, Pushed
  <2>2. /\ DOMAIN items' = 1..Len(items')
        /\ \A i \in 1..Len(items') : i # 1 => i - 1 \in DOMAIN items /\ items'[i] = items[i - 1]
    BY <1>1, <2>1
  <2>3. ASSUME NEW i \in DOMAIN items' PROVE \E e \in Capture : e = items'[i] /\ Known(e)'
    <3>1. CASE i = 1
      BY <1>4, <2>1, <2>2, <3>1 DEF Fits
    <3>2. CASE i # 1
      <4>1. PICK e \in Capture : e = items[i - 1] /\ Known(e)
        BY <1>1, <2>2, <3>2 DEF AllKnown
      <4>2. Known(e)'
        BY <4>1, KnownStays
      <4> QED
        BY <2>2, <3>2, <4>1, <4>2
    <3> QED
      BY <3>1, <3>2
  <2>4. ASSUME NEW i \in DOMAIN items', NEW j \in DOMAIN items', i < j, items'[i].id[1] = items'[j].id[1]
        PROVE  items'[j].id[2] <= items'[i].id[2] /\ items'[j].created <= items'[i].created
    <3>1. j # 1 /\ j - 1 \in DOMAIN items /\ items'[j] = items[j - 1]
      BY <2>2, <2>4
    <3>2. CASE i = 1
      <4>1. items'[i] = entry
        BY <2>1, <2>2, <3>2
      <4>2. items[j - 1] \in Capture /\ Known(items[j - 1]) /\ items[j - 1].id[1] = entry.id[1]
        BY <1>1, <2>4, <3>1, <4>1 DEF AllKnown
      <4> QED
        BY <1>4, <3>1, <4>1, <4>2 DEF Fits
    <3>3. CASE i # 1
      <4>1. i - 1 \in DOMAIN items /\ items'[i] = items[i - 1] /\ i - 1 < j - 1
        BY <2>2, <2>4, <3>3
      <4> QED
        BY <2>4, <3>1, <4>1 DEF Ordered
    <3> QED
      BY <3>2, <3>3
  <2>5. AllKnown'
    BY <2>3 DEF AllKnown, Known
  <2>6. Ordered'
    BY <2>4 DEF Ordered
  <2> QED
    BY <2>5, <2>6
<1> QED
  BY <1>2, <1>3, <1>4, StoreStep

-----------------------------------------------------------------------------
(***************************************************************************)
(* Samples.                                                                *)
(***************************************************************************)

\* The answers of captures that are arranged.
LEMMA Bodies ==
  ASSUME NEW entries \in Seq(Capture), NEW P \in SUBSET (1..Len(entries)), NEW R, Orders(R, P)
  PROVE  /\ combineCaptureBodies(Arrange(entries, P, R)) \in Seq(Identity)
         /\ Range(combineCaptureBodies(Arrange(entries, P, R))) = {entries[i].id : i \in P}
         /\ (\E i \in DOMAIN Arrange(entries, P, R) : Arrange(entries, P, R)[i].full) =>
              combineCaptureBodies(Arrange(entries, P, R)) # <<>>
         /\ (\A i, j \in P : <<i, j>> \in R /\ entries[i].id[1] = entries[j].id[1] =>
               entries[i].id[2] <= entries[j].id[2]) =>
              InOrder(combineCaptureBodies(Arrange(entries, P, R)))
<1> DEFINE chain == Arrange(entries, P, R)
           N == Cardinality(P)
           ids == combineCaptureBodies(chain)
<1>1. N \in Nat /\ DOMAIN chain = 1..N
  BY Arranged
<1>2. PICK pos \in [1..N -> P] :
        /\ \A k \in 1..N : chain[k] = entries[pos[k]]
        /\ \A k, l \in 1..N : k < l => <<pos[k], pos[l]>> \in R
        /\ \A i \in P : \E k \in 1..N : pos[k] = i
  BY Arranged
<1> HIDE DEF N, chain
<1>3. /\ ids = [k \in 1..N |-> chain[k].id]
      /\ DOMAIN ids = 1..N
      /\ \A k \in 1..N : pos[k] \in P /\ ids[k] = entries[pos[k]].id
  BY <1>1, <1>2 DEF combineCaptureBodies
<1>4. \A i \in P : entries[i].id \in Identity
  <2>1. \A i \in 1..Len(entries) : entries[i] \in Capture
    BY ElementOfSeq
  <2> QED
    BY <2>1 DEF Capture
<1>5. ids \in Seq(Identity)
  <2>1. \A k \in 1..N : chain[k].id \in Identity
    BY <1>2, <1>3, <1>4
  <2> QED
    BY <1>1, <1>3, <2>1
<1> HIDE DEF ids
<1>6. Range(ids) = {entries[i].id : i \in P}
  <2>1. Range(ids) = {ids[k] : k \in 1..N}
    BY <1>3 DEF Range
  <2>2. \A k \in 1..N : ids[k] \in {entries[i].id : i \in P}
    BY <1>3
  <2>3. \A i \in P : \E k \in 1..N : ids[k] = entries[i].id
    BY <1>2, <1>3
  <2> QED
    BY <2>1, <2>2, <2>3
<1>7. (\E i \in DOMAIN chain : chain[i].full) => ids # <<>>
  <2>1. DOMAIN <<>> = {}
    OBVIOUS
  <2> QED
    BY <1>1, <1>3, <2>1
<1>8. ASSUME \A i, j \in P : <<i, j>> \in R /\ entries[i].id[1] = entries[j].id[1] =>
               entries[i].id[2] <= entries[j].id[2]
      PROVE  InOrder(ids)
  <2>1. \A k, l \in 1..N : k < l => <<pos[k], pos[l]>> \in R
    BY <1>2
  <2>2. ASSUME NEW k \in 1..N, NEW l \in 1..N, k < l, ids[k][1] = ids[l][1]
        PROVE  ids[k][2] <= ids[l][2]
    <3>1. /\ pos[k] \in P /\ pos[l] \in P /\ <<pos[k], pos[l]>> \in R
          /\ ids[k] = entries[pos[k]].id /\ ids[l] = entries[pos[l]].id
      BY <1>3, <2>1, <2>2
    <3> QED
      BY <1>8, <2>2, <3>1
  <2> QED
    BY <1>3, <2>2 DEF InOrder
<1> QED
  BY <1>5, <1>6, <1>7, <1>8 DEF ids, chain

\* Chains and collected captures have the rounds of a call in order.
LEMMA InBothOrders ==
  ASSUME TypeOK, Ordered, NEW P \in SUBSET (1..Len(items)), NEW i \in P, NEW j \in P,
         <<i, j>> \in Older(items) \/ <<i, j>> \in Chronological(items),
         items[i].id[1] = items[j].id[1]
  PROVE  items[i].id[2] <= items[j].id[2]
<1>1. /\ DOMAIN items = 1..Len(items) /\ Len(items) \in Nat
      /\ \A k \in 1..Len(items) : items[k] \in Capture
  BY ElementOfSeq DEF TypeOK
<1>2. /\ i \in DOMAIN items /\ j \in DOMAIN items /\ i \in Nat /\ j \in Nat
      /\ items[i] \in Capture /\ items[j] \in Capture
  BY <1>1
<1>3. items[i].created \in Nat /\ items[j].created \in Nat /\ items[i].id[2] \in Nat
  BY <1>2 DEF Capture, Identity
<1>4. i > j \/ items[i].created < items[j].created
  BY DEF Older, Chronological
<1>5. CASE i > j
  BY <1>2, <1>5 DEF Ordered
<1>6. CASE items[i].created < items[j].created
  <2>1. ~(i < j)
    BY <1>2, <1>3, <1>6 DEF Ordered
  <2>2. i # j
    BY <1>3, <1>6
  <2> QED
    BY <1>2, <1>5, <2>1, <2>2
<1> QED
  BY <1>4, <1>5, <1>6

\* The captures of which a sample is made.
Chosen(entries) ==
  \/ \E session : entries = Chain(items, session)
  \/ \E before : entries = collectNewCaptureEntries(before, items)

\* Their answers are in the order of their rounds, and not none if one says something.
LEMMA ChosenBodies ==
  ASSUME TypeOK, Ordered, NEW entries, Chosen(entries)
  PROVE  /\ combineCaptureBodies(entries) \in Seq(Identity)
         /\ InOrder(combineCaptureBodies(entries))
         /\ (\E i \in DOMAIN entries : entries[i].full) => combineCaptureBodies(entries) # <<>>
<1>1. items \in Seq(Capture) /\ DOMAIN items = 1..Len(items)
  BY DEF TypeOK
<1>2. \E P \in SUBSET (1..Len(items)), R \in {Older(items), Chronological(items)} :
        entries = Arrange(items, P, R)
  <2>1. ASSUME NEW session, entries = Chain(items, session)
        PROVE  \E P \in SUBSET (1..Len(items)) : entries = Arrange(items, P, Chronological(items))
    <3>1. {i \in DOMAIN items : Session(items[i]) = session} \in SUBSET (1..Len(items))
      BY <1>1
    <3> QED
      BY <2>1, <3>1 DEF Chain
  <2>2. ASSUME NEW before, entries = collectNewCaptureEntries(before, items)
        PROVE  \E P \in SUBSET (1..Len(items)) : entries = Arrange(items, P, Older(items))
    <3>1. {i \in DOMAIN items : items[i].id \notin before /\ items[i].full} \in SUBSET (1..Len(items))
      BY <1>1
    <3> QED
      BY <2>2, <3>1 DEF collectNewCaptureEntries
  <2> QED
    BY <2>1, <2>2 DEF Chosen
<1>3. PICK P \in SUBSET (1..Len(items)), R \in {Older(items), Chronological(items)} :
        entries = Arrange(items, P, R)
  BY <1>2
<1>4. Orders(R, P)
  BY <1>1, <1>3, TotalOrders
<1>5. \A i, j \in P : <<i, j>> \in R /\ items[i].id[1] = items[j].id[1] => items[i].id[2] <= items[j].id[2]
  BY <1>3, InBothOrders
<1> QED
  BY <1>1, <1>3, <1>4, <1>5, Bodies

\* A set of natural numbers has a least element.
LEMMA Least ==
  ASSUME NEW S \in SUBSET Nat, S # {}
  PROVE  \E m \in S : \A n \in S : m <= n
<1> DEFINE R == OpToRel(<, Nat)
<1>1. IsWellFoundedOn(R, Nat)
  BY NatLessThanWellFounded
<1> HIDE DEF R
<1>2. PICK x \in S : \A y \in S : ~ (<<y, x>> \in R)
  BY <1>1, WFMin
<1>3. \A y \in Nat : y < x => <<y, x>> \in R
  BY DEF R, OpToRel
<1>4. ASSUME NEW y \in S PROVE x <= y
  <2>1. x \in Nat /\ y \in Nat
    OBVIOUS
  <2>2. ~ (y < x)
    BY <1>2, <1>3, <2>1
  <2> QED
    BY <2>1, <2>2
<1> QED
  BY <1>4

\* There is a name for whoever has none.
LEMMA NameIsFree ==
  ASSUME Sampled, NEW a \in Admins, admin[a].phase # "saved"
  PROVE  uniqueSampleID \in Names /\ samples[uniqueSampleID] = NoSample
<1> DEFINE Used == {n \in Names : samples[n] # NoSample}
           Free == Names \ Used
<1>1. IsFiniteSet(Admins) /\ Cardinality(Admins) \in Nat
  BY CaptureAssumption, FS_CardinalityType
<1>2. Cardinality(Names) = Cardinality(Admins) /\ IsFiniteSet(Names)
  <2>1. 1 \in Int /\ Cardinality(Admins) \in Int
    BY <1>1
  <2>2. /\ IsFiniteSet(1..Cardinality(Admins))
        /\ Cardinality(1..Cardinality(Admins)) =
             IF 1 > Cardinality(Admins) THEN 0 ELSE Cardinality(Admins) - 1 + 1
    BY <2>1, FS_Interval, Zenon
  <2> QED
    BY <1>1, <2>2 DEF Names
<1>3. Free # {}
  <2> SUFFICES ASSUME Free = {} PROVE FALSE
    OBVIOUS
  <2>1. \A n \in Names : \E b \in Admins \ {a} : admin[b].phase = "saved" /\ admin[b].name = n
    BY DEF Sampled
  <2> DEFINE f == [n \in Names |-> CHOOSE b \in Admins \ {a} : admin[b].phase = "saved" /\ admin[b].name = n]
  <2>2. \A n \in Names : f[n] \in Admins \ {a} /\ admin[f[n]].name = n
    BY <2>1
  <2>3. f \in [Names -> Admins \ {a}]
    BY <2>2
  <2> HIDE DEF f
  <2>4. \A m, n \in Names : f[m] = f[n] => m = n
    BY <2>2
  <2>5. f \in Injection(Names, Admins \ {a})
    BY <2>3, <2>4 DEF Injection, IsInjective
  <2>6. IsFiniteSet(Admins \ {a}) /\ Cardinality(Admins \ {a}) = Cardinality(Admins) - 1
    BY <1>1, FS_RemoveElement
  <2>7. Cardinality(Names) <= Cardinality(Admins \ {a})
    BY <2>5, <2>6, FS_Injection
  <2> QED
    BY <1>1, <1>2, <2>6, <2>7
<1>4. \E n \in Names : samples[n] = NoSample /\ \A m \in 1..(n - 1) : samples[m] # NoSample
  <2>1. Free \in SUBSET Nat
    BY <1>1 DEF Names
  <2>2. PICK n \in Free : \A m \in Free : n <= m
    BY <1>3, <2>1, Least
  <2>3. ASSUME NEW m \in 1..(n - 1) PROVE samples[m] # NoSample
    <3>1. m \in Names /\ ~(n <= m)
      BY <1>1, <2>2 DEF Names
    <3> QED
      BY <2>2, <3>1
  <2> QED
    BY <2>2, <2>3
<1> QED
  BY <1>4 DEF uniqueSampleID

\* What an administrator is after the files of a sample were written, or not.
LEMMA Persisted ==
  ASSUME TypeOK, Ordered, Sampled, NEW a \in Admins, admin[a].phase # "saved",
         NEW entries, Chosen(entries), Persist(a, entries)
  PROVE  \/ admin' = [admin EXCEPT ![a] = Failed]
         \/ \E chosen \in Seq(Identity), n \in Names :
              /\ chosen # <<>> /\ InOrder(chosen)
              /\ chosen = combineCaptureBodies(entries)
              /\ admin' = [admin EXCEPT ![a] = Admin("written", {}, chosen, n)]
  BY ChosenBodies, NameIsFree DEF Persist

\* What a step does to the samples and their administrators.
LEMMA SampleStep ==
  ASSUME TypeOK, Ordered, Sampled, [Next]_vars
  PROVE  \/ UNCHANGED <<admin, samples>>
         \/ \E a \in Admins :
              /\ admin[a].phase # "saved" /\ samples' = samples
              /\ \/ admin' = [admin EXCEPT ![a] = Failed]
                 \/ \E before \in SUBSET Identity :
                      /\ before = Ids(items) /\ admin[a].phase = "idle"
                      /\ admin' = [admin EXCEPT ![a] = Admin("capturing", before, <<>>, 0)]
                 \/ \E chosen \in Seq(Identity), n \in Names :
                      /\ chosen # <<>> /\ InOrder(chosen)
                      /\ admin' = [admin EXCEPT ![a] = Admin("written", {}, chosen, n)]
         \/ \E a \in Admins :
              /\ admin[a].phase = "written" /\ samples[admin[a].name] = NoSample
              /\ samples' = [samples EXCEPT ![admin[a].name] = admin[a].chosen]
              /\ admin' = [admin EXCEPT ![a].phase = "saved"]
<1>1. ASSUME NEW a \in Admins, captureRawSample(a)
      PROVE  /\ admin[a].phase # "saved" /\ samples' = samples
             /\ \E before \in SUBSET Identity :
                  /\ before = Ids(items) /\ admin[a].phase = "idle"
                  /\ admin' = [admin EXCEPT ![a] = Admin("capturing", before, <<>>, 0)]
  <2>1. Ids(items) \in SUBSET Identity
    <3>1. \A i \in DOMAIN items : items[i] \in Capture
      BY ElementOfSeq DEF TypeOK
    <3> QED
      BY <3>1 DEF Ids, Capture
  <2> QED
    BY <1>1, <2>1 DEF captureRawSample
<1>2. ASSUME NEW a \in Admins, Collect(a) \/ saveRawSampleFromCaptures(a)
      PROVE  /\ admin[a].phase # "saved" /\ samples' = samples
             /\ \/ admin' = [admin EXCEPT ![a] = Failed]
                \/ \E chosen \in Seq(Identity), n \in Names :
                     /\ chosen # <<>> /\ InOrder(chosen)
                     /\ admin' = [admin EXCEPT ![a] = Admin("written", {}, chosen, n)]
  <2>1. admin[a].phase # "saved" /\ samples' = samples
    BY <1>2 DEF Collect, saveRawSampleFromCaptures
  <2>2. \E entries : Chosen(entries) /\ Persist(a, entries)
    <3>1. CASE Collect(a)
      BY <3>1 DEF Collect, Chosen
    <3>2. CASE saveRawSampleFromCaptures(a)
      <4>1. PICK chain \in Chains(items) : Persist(a, chain)
        BY <3>2 DEF saveRawSampleFromCaptures
      <4>2. Chosen(chain)
        BY DEF Chains, Chosen
      <4> QED
        BY <4>1, <4>2
    <3> QED
      BY <1>2, <3>1, <3>2
  <2>3. PICK entries : Chosen(entries) /\ Persist(a, entries)
    BY <2>2
  <2> QED
    BY <2>1, <2>3, Persisted
<1>3. ASSUME NEW a \in Admins, Promote(a)
      PROVE  \/ /\ admin[a].phase # "saved" /\ samples' = samples
                /\ admin' = [admin EXCEPT ![a] = Failed]
             \/ /\ admin[a].phase = "written" /\ samples[admin[a].name] = NoSample
                /\ samples' = [samples EXCEPT ![admin[a].name] = admin[a].chosen]
                /\ admin' = [admin EXCEPT ![a].phase = "saved"]
  BY <1>3 DEF Promote, InTheWay
<1>4. \/ UNCHANGED <<admin, samples>>
      \/ \E a \in Admins : captureRawSample(a) \/ Collect(a) \/ saveRawSampleFromCaptures(a) \/ Promote(a)
  BY DEF Next, vars, Tick, Clear, Upload, CallCompletion, AttemptFails, Answers, Leave, Retry,
     Finalize, callContinue, ContinueAnswers, ContinueFails, PumpEnds
<1> QED
  BY <1>1, <1>2, <1>3, <1>4

\* A sample keeps its name and its order, and only a free name is taken.
LEMMA SampledNext ==
  ASSUME TypeOK, Ordered, Sampled, [Next]_vars
  PROVE  Sampled'
<1>1. /\ \A a \in Admins : /\ admin[a].chosen \in Seq(Identity)
                           /\ admin[a].phase \in {"written", "saved"} =>
                                admin[a].name \in Names /\ admin[a].chosen # NoSample /\ InOrder(admin[a].chosen)
                           /\ admin[a].phase = "saved" => samples[admin[a].name] = admin[a].chosen
      /\ \A n \in Names :
           /\ samples[n] # NoSample => \E a \in Admins : admin[a].phase = "saved" /\ admin[a].name = n
           /\ InOrder(samples[n])
  BY DEF TypeOK, Sampled
<1>2. CASE UNCHANGED <<admin, samples>>
  BY <1>2 DEF Sampled
<1>3. ASSUME NEW a \in Admins, admin[a].phase # "saved", samples' = samples,
             \A b \in Admins : b # a => admin'[b] = admin[b],
             admin'[a].phase # "saved",
             admin'[a].phase = "written" =>
               admin'[a].name \in Names /\ admin'[a].chosen # NoSample /\ InOrder(admin'[a].chosen)
      PROVE  Sampled'
  <2>1. ASSUME NEW b \in Admins
        PROVE  /\ admin'[b].phase \in {"written", "saved"} =>
                    admin'[b].name \in Names /\ admin'[b].chosen # NoSample /\ InOrder(admin'[b].chosen)
               /\ admin'[b].phase = "saved" => samples'[admin'[b].name] = admin'[b].chosen
    BY <1>1, <1>3
  <2>2. ASSUME NEW n \in Names
        PROVE  /\ samples'[n] # NoSample => \E b \in Admins : admin'[b].phase = "saved" /\ admin'[b].name = n
               /\ InOrder(samples'[n])
    BY <1>1, <1>3
  <2> QED
    BY <2>1, <2>2 DEF Sampled, InOrder
<1>4. ASSUME NEW a \in Admins, admin[a].phase # "saved", samples' = samples,
             NEW it \in {Failed} \union {Admin("capturing", before, <<>>, 0) : before \in SUBSET Identity},
             admin' = [admin EXCEPT ![a] = it]
      PROVE  Sampled'
  <2>1. it.phase \in {"failed", "capturing"}
    BY DEF Failed, Admin
  <2>2. (\A b \in Admins : b # a => admin'[b] = admin[b]) /\ admin'[a] = it
    BY <1>4 DEF TypeOK
  <2> QED
    BY <1>3, <1>4, <2>1, <2>2
<1>5. ASSUME NEW a \in Admins, admin[a].phase # "saved", samples' = samples,
             NEW chosen \in Seq(Identity), NEW n \in Names, chosen # <<>>, InOrder(chosen),
             admin' = [admin EXCEPT ![a] = Admin("written", {}, chosen, n)]
      PROVE  Sampled'
  <2>1. /\ \A b \in Admins : b # a => admin'[b] = admin[b]
        /\ admin'[a].phase = "written" /\ admin'[a].name = n /\ admin'[a].chosen = chosen
    BY <1>5 DEF TypeOK, Admin
  <2> QED
    BY <1>3, <1>5, <2>1 DEF NoSample
<1>6. ASSUME NEW a \in Admins, admin[a].phase = "written", samples[admin[a].name] = NoSample,
             samples' = [samples EXCEPT ![admin[a].name] = admin[a].chosen],
             admin' = [admin EXCEPT ![a].phase = "saved"]
      PROVE  Sampled'
  <2>1. admin[a].name \in Names /\ admin[a].chosen # NoSample /\ InOrder(admin[a].chosen)
    BY <1>1, <1>6
  <2>2. /\ samples'[admin[a].name] = admin[a].chosen
        /\ \A n \in Names : n # admin[a].name => samples'[n] = samples[n]
    BY <1>6, <2>1 DEF TypeOK
  <2>3. /\ \A b \in Admins : b # a => admin'[b] = admin[b]
        /\ admin'[a].phase = "saved" /\ admin'[a].name = admin[a].name /\ admin'[a].chosen = admin[a].chosen
    BY <1>6 DEF TypeOK
  <2>4. ASSUME NEW b \in Admins
        PROVE  /\ admin'[b].phase \in {"written", "saved"} =>
                    admin'[b].name \in Names /\ admin'[b].chosen # NoSample /\ InOrder(admin'[b].chosen)
               /\ admin'[b].phase = "saved" => samples'[admin'[b].name] = admin'[b].chosen
    <3>1. CASE b = a
      BY <2>1, <2>2, <2>3, <3>1
    <3>2. CASE b # a
      BY <1>1, <1>6, <2>2, <2>3, <3>2
    <3> QED
      BY <3>1, <3>2
  <2>5. ASSUME NEW n \in Names
        PROVE  /\ samples'[n] # NoSample => \E b \in Admins : admin'[b].phase = "saved" /\ admin'[b].name = n
               /\ InOrder(samples'[n])
    <3>1. CASE n = admin[a].name
      BY <2>1, <2>2, <2>3, <3>1
    <3>2. CASE n # admin[a].name
      BY <1>1, <1>6, <2>2, <2>3, <3>2
    <3> QED
      BY <3>1, <3>2
  <2> QED
    BY <2>4, <2>5 DEF Sampled, InOrder
<1> QED
  BY <1>2, <1>4, <1>5, <1>6, SampleStep

\* A request that waits for its administrator starts only with the capture.
LEMMA IdleStays ==
  ASSUME TypeOK, [Next]_vars, NEW a \in Requests, request[a].phase = "idle",
         a \in Admins => ~captureRawSample(a)
  PROVE  request'[a] = request[a]
<1>1. ASSUME NEW r \in Requests, \/ Upload(r) \/ CallCompletion(r) \/ AttemptFails(r) \/ Answers(r)
                                 \/ Leave(r) \/ Retry(r)
      PROVE  request'[a] = request[a]
  <2>1. request[r].phase # "idle"
    BY <1>1 DEF Upload, CallCompletion, AttemptFails, Answers, Leave, Retry
  <2>2. a # r
    BY <2>1
  <2>3. CASE Upload(r) \/ CallCompletion(r)
    BY <2>2, <2>3 DEF Upload, CallCompletion, TypeOK
  <2>4. CASE AttemptFails(r) \/ Answers(r) \/ Leave(r) \/ Retry(r)
    <3>1. request' = request \/ \E phase : request' = [request EXCEPT ![r].phase = phase]
      <4>1. CASE AttemptFails(r)
        BY <4>1 DEF AttemptFails
      <4>2. CASE Answers(r)
        BY <4>2 DEF Answers
      <4>3. CASE Leave(r)
        BY <4>3 DEF Leave
      <4>4. CASE Retry(r)
        BY <4>4 DEF Retry
      <4> QED
        BY <2>4, <4>1, <4>2, <4>3, <4>4
    <3> QED
      BY <2>2, <3>1 DEF TypeOK
  <2> QED
    BY <1>1, <2>3, <2>4
<1>2. ASSUME NEW b \in Admins, captureRawSample(b)
      PROVE  request'[a] = request[a]
  <2>1. b # a
    BY <1>2
  <2> QED
    BY <1>2, <2>1 DEF captureRawSample, TypeOK
<1>3. \/ request' = request
      \/ \E r \in Requests : \/ Upload(r) \/ CallCompletion(r) \/ AttemptFails(r) \/ Answers(r)
                             \/ Leave(r) \/ Retry(r)
      \/ \E b \in Admins : captureRawSample(b)
  BY DEF Next, vars, Tick, Clear, Finalize, callContinue, ContinueAnswers, ContinueFails, PumpEnds,
     Collect, saveRawSampleFromCaptures, Promote
<1> QED
  BY <1>1, <1>2, <1>3

\* Until its request runs, an administrator has no captures in the store.
LEMMA OwnNext ==
  ASSUME TypeOK, Calling, Ordered, Sampled, Own, [Next]_vars
  PROVE  Own'
<1> SUFFICES ASSUME NEW a \in Capturers
             PROVE  /\ admin'[a].phase = "idle" =>
                         /\ request'[a].phase = "idle" /\ request'[a].calls = 0
                         /\ \A i \in DOMAIN items' : items'[i].id[1][1] # a
                    /\ \A id \in admin'[a].before : id[1][1] # a
  BY DEF Own
<1>1. a \in Admins /\ a \in Requests
  BY DEF Admins, Requests
<1>2. /\ admin[a].phase = "idle" =>
           /\ request[a].phase = "idle" /\ request[a].calls = 0
           /\ \A i \in DOMAIN items : items[i].id[1][1] # a
      /\ \A id \in admin[a].before : id[1][1] # a
  BY DEF Own
<1>3. /\ admin'[a].phase = "idle" => admin'[a] = admin[a]
      /\ \/ admin'[a].before \in {admin[a].before, {}}
         \/ admin'[a].before = Ids(items) /\ admin[a].phase = "idle"
  <2>1. CASE UNCHANGED <<admin, samples>>
    BY <2>1
  <2>2. ASSUME NEW b \in Admins, admin' = [admin EXCEPT ![b].phase = "saved"]
        PROVE  /\ admin'[a].phase = "idle" => admin'[a] = admin[a]
               /\ admin'[a].before = admin[a].before
    BY <1>1, <2>2 DEF TypeOK
  <2>3. ASSUME NEW b \in Admins, NEW it, admin' = [admin EXCEPT ![b] = it], it.phase # "idle",
               it.before = {} \/ (it.before = Ids(items) /\ admin[b].phase = "idle")
        PROVE  /\ admin'[a].phase = "idle" => admin'[a] = admin[a]
               /\ \/ admin'[a].before \in {admin[a].before, {}}
                  \/ admin'[a].before = Ids(items) /\ admin[a].phase = "idle"
    <3>1. CASE a = b
      <4>1. admin'[a] = it
        BY <1>1, <2>3, <3>1 DEF TypeOK
      <4> QED
        BY <2>3, <3>1, <4>1
    <3>2. CASE a # b
      <4>1. admin'[a] = admin[a]
        BY <1>1, <2>3, <3>2 DEF TypeOK
      <4> QED
        BY <4>1
    <3> QED
      BY <3>1, <3>2
  <2>4. /\ Failed.phase # "idle" /\ Failed.before = {}
        /\ \A chosen, n : /\ Admin("written", {}, chosen, n).phase # "idle"
                          /\ Admin("written", {}, chosen, n).before = {}
        /\ \A before : /\ Admin("capturing", before, <<>>, 0).phase # "idle"
                       /\ Admin("capturing", before, <<>>, 0).before = before
    BY DEF Failed, Admin
  <2> QED
    BY <2>1, <2>2, <2>3, <2>4, SampleStep
<1>4. ASSUME NEW id \in admin'[a].before PROVE id[1][1] # a
  <2>1. CASE admin'[a].before \in {admin[a].before, {}}
    BY <1>2, <1>4, <2>1
  <2>2. CASE admin'[a].before = Ids(items) /\ admin[a].phase = "idle"
    <3>1. \E i \in DOMAIN items : id = items[i].id
      BY <1>4, <2>2 DEF Ids
    <3> QED
      BY <1>2, <2>2, <3>1
  <2> QED
    BY <1>3, <2>1, <2>2
<1>5. ASSUME admin'[a].phase = "idle"
      PROVE  /\ request'[a].phase = "idle" /\ request'[a].calls = 0
             /\ \A i \in DOMAIN items' : items'[i].id[1][1] # a
  <2>1. admin[a].phase = "idle"
    BY <1>3, <1>5
  <2>2. ~captureRawSample(a)
    <3>1. CASE captureRawSample(a)
      <4>1. admin'[a].phase = "capturing"
        BY <1>1, <3>1 DEF captureRawSample, Admin, TypeOK
      <4> QED
        BY <1>5, <4>1
    <3> QED
      BY <3>1
  <2>3. request'[a] = request[a]
    BY <1>1, <1>2, <2>1, <2>2, IdleStays
  <2>4. ASSUME NEW i \in DOMAIN items' PROVE items'[i].id[1][1] # a
    <3>1. CASE items' = items
      BY <1>2, <2>1, <3>1
    <3>2. CASE items' = <<>>
      BY <3>2
    <3>3. ASSUME NEW entry \in Capture, push(entry), Fits(entry)
          PROVE  items'[i].id[1][1] # a
      <4>1. /\ items' \in Seq(Capture) /\ Len(items') <= Len(items) + 1
            /\ \A k \in 1..Len(items') : items'[k] = IF k = 1 THEN entry ELSE items[k - 1]
        BY <3>3, Pushed DEF TypeOK
      <4>2. entry.id[1][1] # a
        BY <1>2, <2>1, <3>3 DEF Fits
      <4>3. i \in 1..Len(items') /\ (i # 1 => i - 1 \in DOMAIN items)
        BY <4>1 DEF TypeOK
      <4> QED
        BY <1>2, <2>1, <4>1, <4>2, <4>3
    <3> QED
      BY <3>1, <3>2, <3>3, StoreStep
  <2> QED
    BY <1>2, <2>1, <2>3, <2>4
<1> QED
  BY <1>4, <1>5

-----------------------------------------------------------------------------
(***************************************************************************)
(* The types.                                                              *)
(***************************************************************************)

RequestPhase == {"ready", "idle", "calling", "reading", "retry", "returned"}
PumpPhase    == {"off", "pumping", "between", "continuing", "ended"}
AdminPhase   == {"idle", "capturing", "written", "saved", "failed"}

\* The store and the clock keep their types.
LEMMA StoreType ==
  ASSUME TypeOK, Calling, [Next]_vars
  PROVE  items' \in Seq(Capture) /\ now' \in Nat
<1>1. items' \in Seq(Capture)
  <2>1. <<>> \in Seq(Capture) /\ items \in Seq(Capture)
    BY DEF TypeOK
  <2> QED
    BY <2>1, StoreStep, Pushed
<1>2. now' \in Nat
  BY RequestGoes DEF TypeOK
<1> QED
  BY <1>1, <1>2

\* So do the administrators and the samples.
LEMMA SampleType ==
  ASSUME TypeOK, Ordered, Sampled, [Next]_vars
  PROVE  /\ admin' \in [Admins -> [phase: AdminPhase, before: SUBSET Identity,
                                   chosen: Seq(Identity), name: Nat]]
         /\ samples' \in [Names -> Seq(Identity)]
<1> DEFINE It == [phase: AdminPhase, before: SUBSET Identity, chosen: Seq(Identity), name: Nat]
<1>1. admin \in [Admins -> It] /\ samples \in [Names -> Seq(Identity)]
  BY DEF TypeOK, AdminPhase
<1>2. Failed \in It /\ \A before \in SUBSET Identity : Admin("capturing", before, <<>>, 0) \in It
  BY DEF Failed, Admin, AdminPhase
<1>3. \A chosen \in Seq(Identity), n \in Names : Admin("written", {}, chosen, n) \in It
  <2>1. \A n \in Names : n \in Nat
    BY CaptureAssumption, FS_CardinalityType DEF Names
  <2> QED
    BY <2>1 DEF Admin, AdminPhase
<1>4. ASSUME NEW a \in Admins, admin[a].phase = "written", samples[admin[a].name] = NoSample,
             samples' = [samples EXCEPT ![admin[a].name] = admin[a].chosen],
             admin' = [admin EXCEPT ![a].phase = "saved"]
      PROVE  admin' \in [Admins -> It] /\ samples' \in [Names -> Seq(Identity)]
  <2>1. admin[a] \in It
    BY <1>1
  <2>2. admin' \in [Admins -> It]
    BY <1>1, <1>4, <2>1 DEF AdminPhase
  <2>3. admin[a].chosen \in Seq(Identity)
    BY <2>1
  <2> QED
    BY <1>1, <1>4, <2>2, <2>3
<1> HIDE DEF It
<1>5. ASSUME NEW a \in Admins, NEW it \in It, admin' = [admin EXCEPT ![a] = it]
      PROVE  admin' \in [Admins -> It]
  BY <1>1, <1>5
<1>6. admin' \in [Admins -> It] /\ samples' \in [Names -> Seq(Identity)]
  BY <1>1, <1>2, <1>3, <1>4, <1>5, SampleStep
<1> QED
  BY <1>6 DEF It

\* And the requests and their pumps.
LEMMA CallType ==
  ASSUME TypeOK, Calling, [Next]_vars
  PROVE  /\ request' \in [Requests -> [phase: RequestPhase, calls: 0..2, uploads: BOOLEAN]]
         /\ pump' \in [Calls -> [phase: PumpPhase, round: Nat, attempts: Nat, start: Nat, read: BOOLEAN]]
<1> DEFINE R == [phase: RequestPhase, calls: 0..2, uploads: BOOLEAN]
           P == [phase: PumpPhase, round: Nat, attempts: Nat, start: Nat, read: BOOLEAN]
<1>1. request \in [Requests -> R] /\ pump \in [Calls -> P] /\ now \in Nat
  BY DEF TypeOK, RequestPhase, PumpPhase
<1>2. Ended \in P
  BY DEF Ended, PumpPhase
<1>3. ASSUME NEW r \in Requests, NEW phase \in RequestPhase,
             \/ request' = request
             \/ request' = [request EXCEPT ![r].phase = phase]
             \/ request' = [request EXCEPT ![r].uploads = FALSE]
      PROVE  request' \in [Requests -> R]
  <2>1. CASE request' = [request EXCEPT ![r].phase = phase]
    BY <1>1, <2>1
  <2>2. CASE request' = [request EXCEPT ![r].uploads = FALSE]
    BY <1>1, <2>2
  <2> QED
    BY <1>1, <1>3, <2>1, <2>2
<1>4. {"pumping", "between", "continuing"} \subseteq PumpPhase
      /\ {"ready", "reading", "retry", "returned", "calling"} \subseteq RequestPhase
  BY DEF PumpPhase, RequestPhase
<1>5. ASSUME NEW r \in Requests, CallCompletion(r)
      PROVE  request' \in [Requests -> R] /\ pump' \in [Calls -> P]
  <2>1. /\ request' = [request EXCEPT ![r].phase = "calling", ![r].calls = @ + 1]
        /\ pump' = [pump EXCEPT ![<<r, request[r].calls + 1>>].start = now]
        /\ request[r].calls < MaxCalls[r]
    BY <1>5 DEF CallCompletion
  <2>2. request[r].calls + 1 \in 0..2
    BY <2>1, CallCounts, CaptureAssumption
  <2> QED
    BY <1>1, <1>4, <2>1, <2>2
<1>6. ASSUME NEW r \in Requests, AttemptFails(r) \/ Answers(r) \/ Leave(r)
      PROVE  request' \in [Requests -> R] /\ pump' \in [Calls -> P]
  <2>1. PICK d \in Calls : d = Current(r)
    BY <1>6, CurrentCall DEF AttemptFails, Answers, Leave
  <2>2. \/ pump' = [pump EXCEPT ![d].attempts = @ + 1]
        \/ pump' = [pump EXCEPT ![d] = Ended]
        \/ pump' = [pump EXCEPT ![d].phase = "pumping", ![d].read = TRUE]
        \/ pump' = [pump EXCEPT ![d].read = FALSE]
    BY <1>6, <2>1 DEF AttemptFails, Answers, Leave
  <2>3. \/ request' = request
        \/ \E phase \in {"returned", "reading", "retry"} : request' = [request EXCEPT ![r].phase = phase]
    <3>1. CASE Leave(r)
      BY <3>1 DEF Leave
    <3>2. CASE AttemptFails(r) \/ Answers(r)
      BY <3>2 DEF AttemptFails, Answers
    <3> QED
      BY <1>6, <3>1, <3>2
  <2>4. pump' \in [Calls -> P]
    <3>1. CASE pump' = [pump EXCEPT ![d].attempts = @ + 1]
      BY <1>1, <3>1
    <3>2. CASE pump' = [pump EXCEPT ![d] = Ended]
      BY <1>1, <1>2, <3>2
    <3>3. CASE pump' = [pump EXCEPT ![d].phase = "pumping", ![d].read = TRUE]
      BY <1>1, <1>4, <3>3
    <3>4. CASE pump' = [pump EXCEPT ![d].read = FALSE]
      BY <1>1, <3>4
    <3> QED
      BY <2>2, <3>1, <3>2, <3>3, <3>4
  <2>5. request' \in [Requests -> R]
    BY <1>1, <1>4, <1>3, <2>3
  <2> QED
    BY <2>4, <2>5
<1>7. ASSUME NEW d \in Calls, \/ Finalize(d) \/ callContinue(d) \/ ContinueAnswers(d)
                              \/ ContinueFails(d) \/ PumpEnds(d)
      PROVE  request' \in [Requests -> R] /\ pump' \in [Calls -> P]
  <2>1. request' = request
    BY <1>7 DEF Finalize, callContinue, ContinueAnswers, ContinueFails, PumpEnds
  <2>2. \/ pump' = [pump EXCEPT ![d].phase = "between", ![d].start = 0]
        \/ pump' = [pump EXCEPT ![d].phase = "continuing", ![d].round = @ + 1, ![d].start = now]
        \/ pump' = [pump EXCEPT ![d].phase = "pumping"]
        \/ pump' = [pump EXCEPT ![d] = Ended]
    BY <1>7 DEF Finalize, callContinue, ContinueAnswers, ContinueFails, PumpEnds
  <2>3. pump' \in [Calls -> P]
    <3>1. CASE pump' = [pump EXCEPT ![d].phase = "between", ![d].start = 0]
      BY <1>1, <1>4, <3>1
    <3>2. CASE pump' = [pump EXCEPT ![d].phase = "continuing", ![d].round = @ + 1, ![d].start = now]
      BY <1>1, <1>4, <3>2
    <3>3. CASE pump' = [pump EXCEPT ![d].phase = "pumping"]
      BY <1>1, <1>4, <3>3
    <3>4. CASE pump' = [pump EXCEPT ![d] = Ended]
      BY <1>1, <1>2, <3>4
    <3> QED
      BY <2>2, <3>1, <3>2, <3>3, <3>4
  <2> QED
    BY <1>1, <2>1, <2>3
<1>8. ASSUME NEW r \in Requests, Upload(r) \/ Retry(r)
      PROVE  request' \in [Requests -> R] /\ pump' \in [Calls -> P]
  <2>1. /\ pump' = pump
        /\ \/ request' = [request EXCEPT ![r].uploads = FALSE]
           \/ \E phase \in {"ready", "returned"} : request' = [request EXCEPT ![r].phase = phase]
    BY <1>8 DEF Upload, Retry
  <2> QED
    BY <1>1, <1>4, <1>3, <2>1
<1>9. ASSUME NEW a \in Admins, captureRawSample(a)
      PROVE  request' \in [Requests -> R] /\ pump' \in [Calls -> P]
  <2>1. pump' = pump /\ request' = [request EXCEPT ![a].phase = "ready"] /\ a \in Requests
    BY <1>9 DEF captureRawSample, Requests
  <2> QED
    BY <1>1, <1>4, <1>3, <2>1
<1>10. ASSUME UNCHANGED <<request, pump>>
      PROVE  request' \in [Requests -> R] /\ pump' \in [Calls -> P]
  BY <1>1, <1>10
<1>11. \/ UNCHANGED <<request, pump>>
       \/ \E r \in Requests : \/ CallCompletion(r) \/ AttemptFails(r) \/ Answers(r) \/ Leave(r)
                              \/ Upload(r) \/ Retry(r)
       \/ \E d \in Calls : \/ Finalize(d) \/ callContinue(d) \/ ContinueAnswers(d)
                           \/ ContinueFails(d) \/ PumpEnds(d)
       \/ \E a \in Admins : captureRawSample(a)
  BY DEF Next, vars, Tick, Clear, Collect, saveRawSampleFromCaptures, Promote
<1> HIDE DEF R, P
<1>12. request' \in [Requests -> R] /\ pump' \in [Calls -> P]
  <2>1. CASE \E r \in Requests : \/ CallCompletion(r) \/ AttemptFails(r) \/ Answers(r) \/ Leave(r)
                                 \/ Upload(r) \/ Retry(r)
    BY <1>5, <1>6, <1>8, <2>1, Zenon
  <2>2. CASE \E d \in Calls : \/ Finalize(d) \/ callContinue(d) \/ ContinueAnswers(d)
                              \/ ContinueFails(d) \/ PumpEnds(d)
    BY <1>7, <2>2, Zenon
  <2>3. CASE \E a \in Admins : captureRawSample(a)
    BY <1>9, <2>3, Zenon
  <2> QED
    BY <1>10, <1>11, <2>1, <2>2, <2>3
<1> QED
  BY <1>12 DEF R, P

-----------------------------------------------------------------------------
(***************************************************************************)
(* The theorems.                                                           *)
(***************************************************************************)

\* Nothing is captured, and nobody has a sample.
LEMMA InitIInv == Init => IInv
<1> SUFFICES ASSUME Init PROVE IInv
  OBVIOUS
<1>1. TypeOK
  BY DEF Init, TypeOK, Admin, NoSample
<1>2. Calling
  <2>1. ASSUME NEW r \in Requests
        PROVE  request[r].calls = 0 /\ request[r].phase \in {"ready", "idle"} /\ MaxCalls[r] \in Nat
    BY CaptureAssumption DEF Init
  <2>2. ASSUME NEW c \in Calls
        PROVE  pump[c].start = 0 /\ pump[c].round = 0 /\ pump[c].phase = "off"
    BY DEF Init
  <2>3. now = 0
    BY DEF Init
  <2> QED
    BY <2>1, <2>2, <2>3 DEF Calling
<1>3. AllKnown /\ Ordered
  BY DEF Init, AllKnown, Ordered
<1>4. Sampled
  <2>1. \A a \in Admins : admin[a].phase = "idle"
    BY DEF Init, Admin
  <2>2. \A n \in Names : samples[n] = <<>>
    BY DEF Init, NoSample
  <2> QED
    BY <2>1, <2>2 DEF Sampled, NoSample, InOrder
<1>5. Own
  <2> SUFFICES ASSUME NEW a \in Capturers
               PROVE  /\ request[a].phase = "idle" /\ request[a].calls = 0
                      /\ items = <<>> /\ admin[a].before = {}
    BY DEF Own
  <2>1. a \in Requests /\ a \in Admins /\ a \notin Clients
    BY CaptureAssumption DEF Requests, Admins
  <2> QED
    BY <2>1 DEF Init, Admin
<1> QED
  BY <1>1, <1>2, <1>3, <1>4, <1>5 DEF IInv

\* The invariant holds in every state.
LEMMA AlwaysIInv == Spec => []IInv
<1>1. IInv /\ [Next]_vars => IInv'
  <2> SUFFICES ASSUME IInv, [Next]_vars PROVE IInv'
    OBVIOUS
  <2>1. TypeOK /\ Calling /\ AllKnown /\ Ordered /\ Sampled /\ Own
    BY DEF IInv
  <2>2. TypeOK'
    BY <2>1, StoreType, SampleType, CallType DEF TypeOK, RequestPhase, PumpPhase, AdminPhase
  <2>3. Calling' /\ AllKnown' /\ Ordered' /\ Sampled' /\ Own'
    BY <2>1, CallingNext, OrderedNext, SampledNext, OwnNext
  <2> QED
    BY <2>2, <2>3 DEF IInv
<1> QED
  BY <1>1, InitIInv, PTL DEF Spec

(***************************************************************************)
(* For any number of calls and administrators: the captures of a call are  *)
(* in the order of its rounds in every chain, and in every sample.         *)
(***************************************************************************)
THEOREM RoundsCorrect == Spec => []RoundsInOrder
<1>1. IInv => RoundsInOrder
  <2> SUFFICES ASSUME IInv PROVE RoundsInOrder
    OBVIOUS
  <2>1. ASSUME NEW chain \in Chains(items) PROVE InOrder(combineCaptureBodies(chain))
    <3>1. Chosen(chain)
      BY DEF Chains, Chosen
    <3> QED
      BY <3>1, ChosenBodies DEF IInv
  <2>2. \A n \in Names : InOrder(samples[n])
    BY DEF IInv, Sampled
  <2> QED
    BY <2>1, <2>2 DEF RoundsInOrder
<1> QED
  BY <1>1, AlwaysIInv, PTL

(***************************************************************************)
(* For any number of administrators: what one was told is saved is there,  *)
(* whole, though others may have found its name free.                      *)
(***************************************************************************)
THEOREM SavedCorrect == Spec => []SavedIsThere
<1>1. IInv => SavedIsThere
  BY DEF IInv, Sampled, SavedIsThere
<1> QED
  BY <1>1, AlwaysIInv, PTL

(***************************************************************************)
(* For any size of the store and any number of requests: a sample that was *)
(* captured has nothing from before, and every answer of its request that  *)
(* says something and is in the store.                                     *)
(***************************************************************************)
THEOREM CapturedCorrect == Spec => CapturedIsWhole
<1> DEFINE Whole(a) ==
      (admin[a].phase = "capturing" /\ admin'[a].phase = "written") =>
        /\ Range(admin'[a].chosen) \intersect admin[a].before = {}
        /\ \A i \in DOMAIN items :
             items[i].full /\ items[i].id[1][1] = a => items[i].id \in Range(admin'[a].chosen)
<1>1. IInv /\ [Next]_vars => [\A a \in Capturers : Whole(a)]_vars
  <2> SUFFICES ASSUME IInv, [Next]_vars, NEW a \in Capturers,
                      admin[a].phase = "capturing", admin'[a].phase = "written"
               PROVE  /\ Range(admin'[a].chosen) \intersect admin[a].before = {}
                      /\ \A i \in DOMAIN items :
                           items[i].full /\ items[i].id[1][1] = a => items[i].id \in Range(admin'[a].chosen)
    OBVIOUS
  <2>1. /\ a \in Admins /\ admin \in [Admins -> [phase: AdminPhase, before: SUBSET Identity,
                                                 chosen: Seq(Identity), name: Nat]]
        /\ items \in Seq(Capture) /\ DOMAIN items = 1..Len(items) /\ Ordered /\ TypeOK
    BY DEF IInv, TypeOK, Admins, AdminPhase
  <2>2. Collect(a)
    <3>1. ASSUME NEW b \in Admins, captureRawSample(b) \/ saveRawSampleFromCaptures(b) \/ Promote(b) PROVE FALSE
      <4>1. b # a
        <5>1. CASE b = a
          BY <2>1, <3>1, <5>1 DEF captureRawSample, saveRawSampleFromCaptures, Promote
        <5> QED
          BY <5>1
      <4>2. admin'[a] = admin[a]
        <5>1. \E it : admin' = [admin EXCEPT ![b] = it]
          <6>1. CASE captureRawSample(b)
            BY <6>1 DEF captureRawSample
          <6>2. CASE saveRawSampleFromCaptures(b)
            BY <6>2 DEF saveRawSampleFromCaptures, Persist
          <6>3. CASE Promote(b)
            <7>1. admin' = [admin EXCEPT ![b] = Failed] \/ admin' = [admin EXCEPT ![b].phase = "saved"]
              BY <6>3 DEF Promote
            <7>2. [admin EXCEPT ![b].phase = "saved"] = [admin EXCEPT ![b] = [admin[b] EXCEPT !.phase = "saved"]]
              OBVIOUS
            <7> QED
              BY <7>1, <7>2
          <6> QED
            BY <3>1, <6>1, <6>2, <6>3
        <5> QED
          BY <2>1, <4>1, <5>1
      <4> QED
        BY <4>2
    <3>2. ASSUME NEW b \in Admins, Collect(b), b # a PROVE FALSE
      <4>1. \E it : admin' = [admin EXCEPT ![b] = it]
        BY <3>2 DEF Collect, Persist
      <4> QED
        BY <2>1, <3>2, <4>1
    <3>3. admin' # admin
      OBVIOUS
    <3> QED
      BY <3>1, <3>2, <3>3 DEF Next, vars, Tick, Clear, Upload, CallCompletion, AttemptFails, Answers,
         Leave, Retry, Finalize, callContinue, ContinueAnswers, ContinueFails, PumpEnds
  <2> DEFINE P == {i \in DOMAIN items : items[i].id \notin admin[a].before /\ items[i].full}
             chain == Arrange(items, P, Older(items))
  <2>3. P \in SUBSET (1..Len(items))
    BY <2>1
  <2>4. Orders(Older(items), P)
    BY <2>1, <2>3, TotalOrders
  <2>5. Range(combineCaptureBodies(chain)) = {items[i].id : i \in P}
    BY <2>1, <2>3, <2>4, Bodies
  <2>6. admin'[a].chosen = combineCaptureBodies(chain)
    <3>1. Persist(a, chain)
      BY <2>2 DEF Collect, collectNewCaptureEntries
    <3> HIDE DEF chain
    <3>2. admin' = [admin EXCEPT ![a] = Failed]
          \/ admin' = [admin EXCEPT ![a] = Admin("written", {}, combineCaptureBodies(chain), uniqueSampleID)]
      BY <3>1 DEF Persist
    <3> QED
      BY <2>1, <3>2 DEF Failed, Admin
  <2> HIDE DEF chain
  <2>7. Range(admin'[a].chosen) = {items[i].id : i \in P}
    BY <2>5, <2>6
  <2>8. ASSUME NEW i \in DOMAIN items, items[i].full, items[i].id[1][1] = a
        PROVE  items[i].id \in Range(admin'[a].chosen)
    <3>1. items[i].id \notin admin[a].before
      BY <2>8 DEF IInv, Own
    <3> QED
      BY <2>7, <2>8, <3>1
  <2>9. Range(admin'[a].chosen) \intersect admin[a].before = {}
    BY <2>7
  <2> QED
    BY <2>8, <2>9
<1> QED
  BY <1>1, AlwaysIInv, PTL DEF Spec, CapturedIsWhole
=============================================================================
