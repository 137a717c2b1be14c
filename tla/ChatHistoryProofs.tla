------------------------- MODULE ChatHistoryProofs -------------------------
(***************************************************************************)
(* Theorems about ChatHistory, for any requests, entries, limits and       *)
(* bound: nothing pending is forgotten, nothing deleted comes back, the    *)
(* list is never wrongly taken for current, no request is listed twice or  *)
(* left running, and the whole is a durable table.                         *)
(*                                                                         *)
(* The invariants speak of memory; a crash leaves the disk only.  So the   *)
(* inductive invariant adds what the disk keeps of each of them while the  *)
(* program is down (OnDisk, Restart), that identifiers are fresh (Fresh),  *)
(* and how a request's session relates to its entry (Recorded); for the    *)
(* table, that a start finds every file it needs (Readable).               *)
(***************************************************************************)
EXTENDS ChatHistory, FiniteSetTheorems, TLAPS

Live == {"open", "missing", "recreated"}

\* No identifier that a new entry may take occurs anywhere.
Fresh ==
  /\ Ids(details) \subseteq used
  /\ Ids(files) \subseteq used
  /\ Ids(index.items) \subseteq used
  /\ \A r \in Requests : session[r].id \in used \union {NoEntry}

\* No revision is later than the clock.
Bounded ==
  /\ clock > 0
  /\ revision <= clock
  /\ index.revision <= clock
  /\ poll.etag <= clock

\* A store that is down, or that failed.
Restart ==
  /\ ~up => details = Empty
  /\ failed => up /\ torn /\ details = Empty
  /\ \A r \in Requests :
       session[r].stage \in Live => up /\ ~failed /\ session[r].id # NoEntry
  /\ index.form # "split" =>
       \A id \in EntryIds : index.items[id] \in {NoEntry, OldEntry}

\* What a clean stop leaves on disk.
OnDisk ==
  ~up /\ ~torn =>
    IF index.form = "split"
    THEN /\ poll.etag = index.revision => poll.list = index.items
         /\ \A id \in Ids(index.items) : files[id] = index.items[id]
         /\ index.limit > 0 => Cardinality(Ids(index.items)) <= index.limit
    ELSE poll = [etag |-> 0, list |-> Empty]

\* Memory, files and index agree on whose entry it is.
SameOwner(table1, table2) ==
  \A id \in Ids(table1) \intersect Ids(table2) : table1[id].owner = table2[id].owner

OnePerOwner(table) ==
  \A id1, id2 \in Ids(table) :
    table[id1].owner = table[id2].owner /\ table[id1].owner # NoEntry => id1 = id2

Owned ==
  /\ SameOwner(details, files)
  /\ SameOwner(details, index.items)
  /\ SameOwner(files, index.items)
  /\ OnePerOwner(details)
  /\ OnePerOwner(index.items)

\* Request r, with session s: while it runs it has no entry but that of its
\* session, and none before it begins or while its entry is missing.
RecordedAs(r, s, table) ==
  /\ s.stage \in Live => \A id \in Ids(table) : table[id].owner = r => s.id = id
  /\ s.stage = "missing" => s.id \notin Ids(table)
  /\ s.stage = "new" =>
       \A id \in EntryIds :
         /\ id \in Ids(table) => table[id].owner # r
         /\ id \in Ids(files) => files[id].owner # r
         /\ id \in Ids(index.items) => index.items[id].owner # r

Recorded == \A r \in Requests : RecordedAs(r, session[r], details)

\* A file that says its request runs is of one that a crash interrupted.
CutShort ==
  ~up => \A id \in Ids(files) \ cut : ~files[id].running

Base ==
  /\ TypeOK
  /\ Fresh
  /\ Bounded
  /\ Restart
  /\ PendingCoversDisk
  /\ DeletedStaysDeleted
  /\ RetentionLimit
  /\ NotModifiedIsTrue
  /\ OnDisk

IInv ==
  /\ Base
  /\ Owned
  /\ Recorded
  /\ CutShort
  /\ RunningEntriesAreLive

-----------------------------------------------------------------------------
(***************************************************************************)
(* What Commit does, whatever it evicts and wherever its save stops.       *)
(***************************************************************************)

Effects(table, l, toRemove) ==
  /\ details' \in Table
  /\ \A id \in EntryIds : details'[id] \in {table[id], NoEntry}
  /\ limit' = l
  /\ l > 0 => Cardinality(Ids(details')) <= l
  /\ l = 0 \/ Cardinality(Ids(table)) <= l => details' = table
  /\ files' \in Table
  /\ \A id \in EntryIds : files'[id] \in {files[id], details'[id]}
  /\ \A id \in Ids(details') \ dirty' : files'[id] = details'[id]
  /\ dirty' \subseteq Ids(details')
  /\ deleted' \subseteq EntryIds \ Ids(details')
  /\ \/ /\ saved' = TRUE
        /\ index' = [form |-> "split", limit |-> l, revision |-> revision', items |-> details']
        /\ dirty' = {}
        /\ deleted' = {}
        /\ \A id \in toRemove : files'[id] = NoEntry
     \/ /\ saved' = FALSE
        /\ index' = index

LEMMA OnlyTable ==
  ASSUME NEW table \in Table, NEW K \in SUBSET Ids(table)
  PROVE  /\ Only(table, K) \in Table
         /\ Ids(Only(table, K)) = K
         /\ \A id \in EntryIds : Only(table, K)[id] = IF id \in K THEN table[id] ELSE NoEntry
  BY DEF Only, Ids, Table

LEMMA OnlyAll ==
  ASSUME NEW table \in Table
  PROVE  Only(table, Ids(table)) = table
  BY DEF Only, Ids, Table

LEMMA KeptFacts ==
  ASSUME NEW table \in Table, NEW l \in Limits, NEW K \in Kept(table, l)
  PROVE  /\ K \subseteq Ids(table)
         /\ l > 0 => Cardinality(K) <= l
         /\ l = 0 \/ Cardinality(Ids(table)) <= l => K = Ids(table)
<1>1. l \in Nat
  BY ChatHistoryAssumption
<1>2. CASE l = 0 \/ Cardinality(Ids(table)) <= l
  BY <1>1, <1>2 DEF Kept
<1>3. CASE ~(l = 0 \/ Cardinality(Ids(table)) <= l)
  BY <1>1, <1>3 DEF Kept
<1> QED
  BY <1>2, <1>3

LEMMA CommitEffects ==
  ASSUME NEW table \in Table, NEW l \in Limits,
         NEW W \in SUBSET Ids(table), NEW R \in SUBSET (EntryIds \ Ids(table)),
         files \in Table,
         \A id \in Ids(table) \ W : files[id] = table[id],
         Commit(table, l, W, R)
  PROVE  Effects(table, l, R)
<1>1. PICK K \in Kept(table, l) :
        LET evicted == Ids(table) \ K
        IN  /\ details' = Only(table, K)
            /\ limit' = l
            /\ \/ SaveCompletes(R \union evicted, W \ evicted)
               \/ SaveStops(R \union evicted, W \ evicted)
  BY DEF Commit
<1>2. /\ K \subseteq Ids(table)
      /\ l > 0 => Cardinality(K) <= l
      /\ l = 0 \/ Cardinality(Ids(table)) <= l => K = Ids(table)
  BY KeptFacts
<1>3. /\ details' \in Table
      /\ Ids(details') = K
      /\ \A id \in EntryIds : details'[id] = IF id \in K THEN table[id] ELSE NoEntry
  BY <1>1, <1>2, OnlyTable
<1>4. l = 0 \/ Cardinality(Ids(table)) <= l => details' = table
  BY <1>1, <1>2, OnlyAll
<1> DEFINE toRemove == R \union (Ids(table) \ K)
           toWrite == W \ (Ids(table) \ K)
<1>5. PICK removed \in SUBSET toRemove, written \in SUBSET toWrite :
        /\ files' = FilesAfter(removed, written)
        /\ \/ /\ removed = toRemove /\ written = toWrite
              /\ SaveCompletes(toRemove, toWrite)
           \/ SaveStops(toRemove, toWrite)
  BY <1>1 DEF SaveCompletes, SaveStops
<1>6. /\ toWrite \subseteq K
      /\ toRemove \intersect K = {}
      /\ toRemove \subseteq EntryIds
      /\ K \ W = K \ toWrite
  BY <1>2 DEF Ids
<1>7. \A id \in EntryIds :
        files'[id] = IF id \in removed THEN NoEntry
                     ELSE IF id \in written THEN details'[id] ELSE files[id]
  BY <1>5 DEF FilesAfter
<1>8. /\ files' \in Table
      /\ \A id \in EntryIds : files'[id] \in {files[id], details'[id]}
  <2>1. \A id \in removed : details'[id] = NoEntry
    BY <1>3, <1>6
  <2>2. \A id \in EntryIds : files'[id] \in {files[id], details'[id]}
    BY <1>7, <2>1
  <2>3. files' = [id \in EntryIds |-> files'[id]]
    BY <1>5 DEF FilesAfter
  <2>4. \A id \in EntryIds : files'[id] \in Entry \union {NoEntry}
    BY <1>3, <2>2 DEF Table
  <2> QED
    BY <2>2, <2>3, <2>4 DEF Table
<1>9. \A id \in K \ toWrite : files'[id] = details'[id]
  BY <1>2, <1>3, <1>6, <1>7 DEF Ids
<1>10. CASE removed = toRemove /\ written = toWrite /\ SaveCompletes(toRemove, toWrite)
  <2>1. \A id \in K : files'[id] = details'[id]
    BY <1>3, <1>6, <1>7, <1>9, <1>10 DEF Ids
  <2>2. /\ saved' = TRUE
        /\ index' = [form |-> "split", limit |-> l, revision |-> revision', items |-> details']
        /\ dirty' = {}
        /\ deleted' = {}
    BY <1>1, <1>10 DEF SaveCompletes
  <2>3. \A id \in R : files'[id] = NoEntry
    BY <1>7, <1>10
  <2> QED
    BY <1>1, <1>2, <1>3, <1>4, <1>8, <2>1, <2>2, <2>3 DEF Effects
<1>11. CASE SaveStops(toRemove, toWrite)
  <2>1. saved' = FALSE /\ index' = index /\ dirty' = toWrite /\ deleted' = toRemove
    BY <1>11 DEF SaveStops
  <2> QED
    BY <1>1, <1>2, <1>3, <1>4, <1>6, <1>8, <1>9, <2>1 DEF Effects
<1> QED
  BY <1>5, <1>10, <1>11

-----------------------------------------------------------------------------
(***************************************************************************)
(* Base is inductive.  First an operation of a running store: it makes the *)
(* table its memory and saves.                                             *)
(***************************************************************************)

Operation(table, l, toWrite, toRemove) ==
  /\ up /\ ~failed
  /\ table \in Table
  /\ l \in Limits
  /\ toWrite \subseteq Ids(table)
  /\ toRemove \subseteq EntryIds \ Ids(table)
  /\ \A id \in Ids(table) \ toWrite : files[id] = table[id]
  /\ Tick
  /\ Commit(table, l, toWrite, toRemove)
  /\ used' \subseteq EntryIds
  /\ used \subseteq used'
  /\ Ids(table) \subseteq used'
  /\ Ids(table) \intersect gone = {}
  /\ gone \subseteq gone'
  /\ gone' \subseteq used'
  /\ gone' \subseteq gone \union (IF saved' THEN toRemove ELSE {})
  /\ torn' = FALSE
  /\ UNCHANGED <<up, failed, cut, poll>>

\* The sessions, after a step, of a running store.
SessionsFit ==
  /\ session' \in [Requests -> Session]
  /\ \A r \in Requests :
       /\ session'[r].id \in used' \union {NoEntry}
       /\ session'[r].stage \in Live => session'[r].id # NoEntry

LEMMA TickFacts ==
  ASSUME Tick, clock \in Nat
  PROVE  clock' = clock + 1 /\ revision' = clock + 1 /\ clock' \in Nat
  BY DEF Tick

\* The disk after a save: nothing that was deleted, nothing unknown.
LEMMA SavedDisk ==
  ASSUME NEW table \in Table, NEW l, NEW R, Effects(table, l, R),
         NEW S, Ids(table) \subseteq S, Ids(files) \subseteq S,
         Ids(index.items) \subseteq S
  PROVE  /\ Ids(details') \subseteq Ids(table)
         /\ Ids(details') \subseteq S
         /\ Ids(files') \subseteq S
         /\ Ids(index'.items) \subseteq S
<1>1. \A id \in EntryIds : details'[id] \in {table[id], NoEntry}
  BY DEF Effects
<1>2. Ids(details') \subseteq Ids(table)
  BY <1>1 DEF Ids
<1>3. \A id \in EntryIds : files'[id] \in {files[id], details'[id]}
  BY DEF Effects
<1>4. Ids(files') \subseteq S
  BY <1>2, <1>3 DEF Ids
<1>5. index'.items = details' \/ index' = index
  BY DEF Effects
<1> QED
  BY <1>2, <1>4, <1>5

LEMMA OperationBase ==
  ASSUME Base,
         NEW table, NEW l, NEW W, NEW R, Operation(table, l, W, R),
         SessionsFit
  PROVE  Base'
<1>1. Effects(table, l, R)
  <2>1. /\ table \in Table /\ l \in Limits
        /\ W \in SUBSET Ids(table) /\ R \in SUBSET (EntryIds \ Ids(table))
        /\ \A id \in Ids(table) \ W : files[id] = table[id]
        /\ Commit(table, l, W, R)
    BY DEF Operation
  <2>2. files \in Table
    BY DEF Base, TypeOK
  <2> QED
    BY <2>1, <2>2, CommitEffects
<1>2. clock' = clock + 1 /\ revision' = clock + 1 /\ clock' \in Nat
  BY TickFacts DEF Operation, Base, TypeOK
<1>3. index' \in Index
  <2>1. l \in Limits
    BY DEF Operation
  <2>2. index \in Index
    BY DEF Base, TypeOK
  <2>3. details' \in Table /\ revision' \in Nat
    BY <1>1, <1>2 DEF Effects
  <2>4. [form |-> "split", limit |-> l, revision |-> revision', items |-> details'] \in Index
    BY <2>1, <2>3 DEF Index
  <2>5. \/ index' = index
        \/ index' = [form |-> "split", limit |-> l, revision |-> revision', items |-> details']
    BY <1>1 DEF Effects
  <2> QED
    BY <2>2, <2>4, <2>5
<1>4. TypeOK'
  <2>1. /\ up' \in BOOLEAN /\ failed' \in BOOLEAN
        /\ limit' \in Limits /\ revision' \in Nat /\ clock' \in Nat
    BY <1>1, <1>2 DEF Operation, Effects, Base, TypeOK
  <2>2. /\ details' \in Table /\ files' \in Table
        /\ dirty' \subseteq Ids(details') /\ deleted' \subseteq EntryIds \ Ids(details')
        /\ saved' \in BOOLEAN
    BY <1>1 DEF Effects
  <2>3. /\ used' \subseteq EntryIds /\ torn' \in BOOLEAN
        /\ gone' \subseteq used' /\ cut' \subseteq used'
        /\ poll' \in [etag: Nat, list: Table]
    BY DEF Operation, Base, TypeOK
  <2> QED
    BY <1>3, <2>1, <2>2, <2>3 DEF TypeOK, SessionsFit
<1>5. Fresh'
  <2>1. /\ Ids(table) \subseteq used' /\ Ids(files) \subseteq used'
        /\ Ids(index.items) \subseteq used' /\ table \in Table
    BY DEF Operation, Base, Fresh
  <2>2. /\ Ids(details') \subseteq used'
        /\ Ids(files') \subseteq used'
        /\ Ids(index'.items) \subseteq used'
    BY <1>1, <2>1, SavedDisk
  <2> QED
    BY <2>2 DEF Fresh, SessionsFit
<1>6. Bounded'
  BY <1>1, <1>2 DEF Bounded, Base, Effects, Operation, TypeOK, Index
<1>7. Restart'
  BY <1>1 DEF Restart, Base, Effects, Operation, SessionsFit
<1>8. PendingCoversDisk'
  BY <1>1 DEF PendingCoversDisk, Effects
<1>9. DeletedStaysDeleted'
  <2>1. CASE saved'
    <3>1. \A id \in R : files'[id] = NoEntry /\ id \notin Ids(details')
      BY <1>1, <2>1 DEF Effects, Operation, Ids
    <3>2. index'.items = details'
      BY <1>1, <2>1 DEF Effects
    <3>3. \A id \in gone : /\ id \in EntryIds
                           /\ table[id] = NoEntry /\ files[id] = NoEntry
      BY DEF Operation, Base, DeletedStaysDeleted, TypeOK, Ids
    <3>4. \A id \in gone : details'[id] = NoEntry /\ files'[id] = NoEntry
      BY <1>1, <3>3 DEF Effects
    <3>5. \A id \in gone' : id \in gone \/ id \in R
      BY DEF Operation
    <3> QED
      BY <3>1, <3>2, <3>4, <3>5 DEF DeletedStaysDeleted, Ids
  <2>2. CASE ~saved'
    <3>1. gone' = gone /\ index' = index
      BY <1>1, <2>2 DEF Effects, Operation
    <3>3. \A id \in gone : /\ id \in EntryIds
                           /\ table[id] = NoEntry /\ files[id] = NoEntry
      BY DEF Operation, Base, DeletedStaysDeleted, TypeOK, Ids
    <3>4. \A id \in gone : details'[id] = NoEntry /\ files'[id] = NoEntry
      BY <1>1, <3>3 DEF Effects
    <3> QED
      BY <3>1, <3>4 DEF DeletedStaysDeleted, Ids, Base
  <2> QED
    BY <2>1, <2>2
<1>10. RetentionLimit'
  BY <1>1 DEF RetentionLimit, Effects
<1>11. NotModifiedIsTrue'
  BY <1>2 DEF NotModifiedIsTrue, Operation, Base, Bounded, TypeOK
<1>12. OnDisk'
  BY DEF OnDisk, Operation
<1> QED
  BY <1>4, <1>5, <1>6, <1>7, <1>8, <1>9, <1>10, <1>11, <1>12 DEF Base

LEMMA MillisNat ==
  ASSUME clock' \in Nat
  PROVE  Millis \in Nat
<1>1. TicksPerMilli \in Nat /\ TicksPerMilli > 0
  BY ChatHistoryAssumption
<1>2. \A n \in Nat, d \in Nat : d > 0 => n \div d \in Nat
  OBVIOUS
<1> QED
  BY <1>1, <1>2 DEF Millis

LEMMA StartOperation ==
  ASSUME Base, up, ~failed, NEW r \in Requests, NEW id, Start(r, id),
         torn' = FALSE, UNCHANGED <<up, failed, gone, cut, poll>>
  PROVE  /\ id \in EntryIds \ used
         /\ used' = used \union {id}
         /\ \E table \in Table :
              /\ Operation(table, limit, dirty \union {id}, deleted \ {id})
              /\ \A i \in EntryIds \ {id} : table[i] = details[i]
              /\ table[id] # NoEntry
              /\ table[id].owner = r
<1>1. PICK entry : entry = [revision |-> clock', created |-> Millis, updated |-> Millis,
                            running |-> TRUE, owner |-> r]
  OBVIOUS
<1>2. PICK table : table = [details EXCEPT ![id] = entry]
  OBVIOUS
<1>3. /\ id \in EntryIds \ used
      /\ used' = used \union {id}
      /\ Tick
      /\ Commit(table, limit, dirty \union {id}, deleted \ {id})
  BY <1>1, <1>2 DEF Start
<1>4. clock' \in Nat
  BY <1>3, TickFacts DEF Base, TypeOK
<1>5. entry \in Entry /\ entry.owner = r
  BY <1>1, <1>4, MillisNat DEF Entry
<1>6. entry # NoEntry
  BY <1>5, NoEntryAssumption
<1>7. details \in Table
  BY DEF Base, TypeOK
<1>8. /\ table \in Table
      /\ table[id] = entry
      /\ \A i \in EntryIds \ {id} : table[i] = details[i]
  BY <1>2, <1>3, <1>5, <1>7 DEF Table
<1>9. Ids(table) = Ids(details) \union {id}
  BY <1>3, <1>6, <1>8 DEF Ids
<1>10. /\ dirty \union {id} \subseteq Ids(table)
       /\ deleted \ {id} \subseteq EntryIds \ Ids(table)
  BY <1>9 DEF Base, TypeOK
<1>11. \A i \in Ids(table) \ (dirty \union {id}) : files[i] = table[i]
  <2>1. ASSUME NEW i \in Ids(table) \ (dirty \union {id})
        PROVE  files[i] = table[i]
    <3>1. i \in Ids(details) \ dirty /\ i \in EntryIds /\ i # id
      BY <1>9, <2>1 DEF Ids
    <3> QED
      BY <1>8, <3>1 DEF Base, PendingCoversDisk
  <2> QED
    BY <2>1
<1>12. /\ used' \subseteq EntryIds
       /\ used \subseteq used'
       /\ Ids(table) \subseteq used'
       /\ Ids(table) \intersect gone = {}
       /\ gone' = gone
       /\ gone \subseteq used'
  BY <1>3, <1>9 DEF Base, TypeOK, Fresh, DeletedStaysDeleted
<1>13. limit \in Limits
  BY DEF Base, TypeOK
<1>14. Operation(table, limit, dirty \union {id}, deleted \ {id})
  BY <1>3, <1>8, <1>10, <1>11, <1>12, <1>13 DEF Operation
<1> QED
  BY <1>3, <1>5, <1>6, <1>8, <1>14

LEMMA UpdateOperation ==
  ASSUME Base, up, ~failed, NEW id \in EntryIds, details[id] # NoEntry,
         NEW last \in BOOLEAN, Update(id, last),
         torn' = FALSE, UNCHANGED <<up, failed, gone, cut, poll, used>>
  PROVE  \E table \in Table :
           /\ Operation(table, limit, dirty \union {id}, deleted \ {id})
           /\ \A i \in EntryIds \ {id} : table[i] = details[i]
           /\ table[id] # NoEntry
           /\ table[id].owner = details[id].owner
           /\ table[id].running = (~last /\ details[id].running)
<1>1. PICK entry : entry = Updated(details[id], last)
  OBVIOUS
<1>2. PICK table : table = [details EXCEPT ![id] = entry]
  OBVIOUS
<1>3. /\ Tick
      /\ Commit(table, limit, dirty \union {id}, deleted \ {id})
  BY <1>1, <1>2 DEF Update
<1>4. details \in Table
  BY DEF Base, TypeOK
<1>5. /\ entry \in Entry /\ entry.owner = details[id].owner
      /\ entry.running = (~last /\ details[id].running)
  <2>1. details[id] \in Entry
    BY <1>4 DEF Table
  <2>2. clock' \in Nat /\ Millis \in Nat
    BY <1>3, TickFacts, MillisNat DEF Base, TypeOK
  <2> QED
    BY <1>1, <2>1, <2>2 DEF Entry, Updated
<1>6. entry # NoEntry
  BY <1>5, NoEntryAssumption
<1>8. /\ table \in Table
      /\ table[id] = entry
      /\ \A i \in EntryIds \ {id} : table[i] = details[i]
  BY <1>2, <1>4, <1>5 DEF Table
<1>9. Ids(table) = Ids(details) /\ id \in Ids(details)
  BY <1>6, <1>8 DEF Ids
<1>10. /\ dirty \union {id} \subseteq Ids(table)
       /\ deleted \ {id} \subseteq EntryIds \ Ids(table)
  BY <1>9 DEF Base, TypeOK
<1>11. \A i \in Ids(table) \ (dirty \union {id}) : files[i] = table[i]
  <2>1. ASSUME NEW i \in Ids(table) \ (dirty \union {id})
        PROVE  files[i] = table[i]
    <3>1. i \in Ids(details) \ dirty /\ i \in EntryIds /\ i # id
      BY <1>9, <2>1 DEF Ids
    <3> QED
      BY <1>8, <3>1 DEF Base, PendingCoversDisk
  <2> QED
    BY <2>1
<1>12. /\ used' = used
       /\ used \subseteq EntryIds
       /\ Ids(table) \subseteq used
       /\ Ids(table) \intersect gone = {}
       /\ gone' = gone
       /\ gone \subseteq used
  BY <1>9 DEF Base, TypeOK, Fresh, DeletedStaysDeleted
<1>13. limit \in Limits
  BY DEF Base, TypeOK
<1>14. Operation(table, limit, dirty \union {id}, deleted \ {id})
  BY <1>3, <1>8, <1>10, <1>11, <1>12, <1>13 DEF Operation
<1> QED
  BY <1>5, <1>6, <1>8, <1>14

LEMMA DeleteOperation ==
  ASSUME Base, NEW id \in EntryIds, Delete(id)
  PROVE  \E table \in Table :
           /\ Operation(table, limit, dirty \ {id}, deleted \union {id})
           /\ \A i \in EntryIds : table[i] \in {details[i], NoEntry}
<1>1. PICK table : table = [details EXCEPT ![id] = NoEntry]
  OBVIOUS
<1>2. /\ up /\ ~failed /\ details[id] # NoEntry
      /\ Tick
      /\ Commit(table, limit, dirty \ {id}, deleted \union {id})
      /\ gone' = IF saved' THEN gone \union {id} ELSE gone
      /\ torn' = FALSE
      /\ UNCHANGED <<up, failed, session, used, cut, poll>>
  BY <1>1 DEF Delete
<1>3. details \in Table
  BY DEF Base, TypeOK
<1>4. /\ table \in Table
      /\ table[id] = NoEntry
      /\ \A i \in EntryIds \ {id} : table[i] = details[i]
  BY <1>1, <1>3 DEF Table
<1>5. Ids(table) = Ids(details) \ {id} /\ id \in Ids(details)
  BY <1>2, <1>4 DEF Ids
<1>6. /\ dirty \ {id} \subseteq Ids(table)
      /\ deleted \union {id} \subseteq EntryIds \ Ids(table)
  BY <1>5 DEF Base, TypeOK
<1>7. \A i \in Ids(table) \ (dirty \ {id}) : files[i] = table[i]
  <2>1. ASSUME NEW i \in Ids(table) \ (dirty \ {id})
        PROVE  files[i] = table[i]
    <3>1. i \in Ids(details) \ dirty /\ i \in EntryIds /\ i # id
      BY <1>5, <2>1 DEF Ids
    <3> QED
      BY <1>2, <1>4, <3>1 DEF Base, PendingCoversDisk
  <2> QED
    BY <2>1
<1>8. /\ used' = used
      /\ used \subseteq EntryIds
      /\ Ids(table) \subseteq used
      /\ Ids(table) \intersect gone = {}
      /\ gone \subseteq gone'
      /\ gone' \subseteq used
      /\ gone' \subseteq gone \union (IF saved' THEN deleted \union {id} ELSE {})
  BY <1>2, <1>5 DEF Base, TypeOK, Fresh, DeletedStaysDeleted
<1>9. limit \in Limits
  BY DEF Base, TypeOK
<1>10. Operation(table, limit, dirty \ {id}, deleted \union {id})
  BY <1>2, <1>4, <1>6, <1>7, <1>8, <1>9 DEF Operation
<1> QED
  BY <1>4, <1>10

LEMMA ClearOperation ==
  ASSUME Base, Clear
  PROVE  /\ Empty \in Table
         /\ Ids(Empty) = {}
         /\ Operation(Empty, limit, {}, deleted \union Ids(details))
<1>1. /\ Empty \in Table
      /\ Ids(Empty) = {}
  BY DEF Empty, Table, Ids
<1>2. deleted \union Ids(details) \subseteq EntryIds \ Ids(Empty)
  BY <1>1 DEF Base, TypeOK, Ids
<1>3. /\ used' = used
      /\ used \subseteq EntryIds
      /\ gone \subseteq gone'
      /\ gone' \subseteq used
      /\ gone' \subseteq gone \union (IF saved' THEN deleted \union Ids(details) ELSE {})
  BY DEF Clear, Base, TypeOK, Fresh
<1>4. limit \in Limits
  BY DEF Base, TypeOK
<1> QED
  BY <1>1, <1>2, <1>3, <1>4 DEF Operation, Clear

LEMMA SetLimitOperation ==
  ASSUME Base, NEW l \in Limits, SetLimit(l)
  PROVE  Operation(details, l, dirty, deleted)
<1>1. /\ dirty \subseteq Ids(details)
      /\ deleted \subseteq EntryIds \ Ids(details)
      /\ details \in Table
      /\ used' = used
      /\ gone' = gone
      /\ used \subseteq EntryIds
      /\ gone \subseteq used
  BY DEF Base, TypeOK, SetLimit
<1>2. /\ \A id \in Ids(details) \ dirty : files[id] = details[id]
      /\ Ids(details) \subseteq used
      /\ Ids(details) \intersect gone = {}
  BY DEF Base, PendingCoversDisk, Fresh, DeletedStaysDeleted, SetLimit
<1> QED
  BY <1>1, <1>2 DEF Operation, SetLimit

Stages == {"new", "open", "missing", "recreated", "over"}

\* A step that moves one session.
LEMMA SessionFacts ==
  ASSUME Base, NEW r \in Requests,
         NEW stage \in Stages, NEW id \in EntryIds \union {NoEntry}, NEW last \in BOOLEAN,
         SetSession(r, stage, id, last),
         used \subseteq used',
         id \in used' \union {NoEntry},
         stage \in Live => id # NoEntry
  PROVE  /\ SessionsFit
         /\ session'[r] = [stage |-> stage, id |-> id, last |-> last]
         /\ \A q \in Requests \ {r} : session'[q] = session[q]
<1>1. session \in [Requests -> Session]
  BY DEF Base, TypeOK
<1>2. [stage |-> stage, id |-> id, last |-> last] \in Session
  BY DEF Session, Stages
<1>3. /\ session' \in [Requests -> Session]
      /\ session'[r] = [stage |-> stage, id |-> id, last |-> last]
      /\ \A q \in Requests \ {r} : session'[q] = session[q]
  BY <1>1, <1>2 DEF SetSession
<1> QED
  BY <1>3 DEF SessionsFit, Base, Fresh, Restart

\* The session of a request that runs.
LEMMA LiveSession ==
  ASSUME Base, NEW r \in Requests, session[r].stage \in Live
  PROVE  /\ up /\ ~failed
         /\ session[r].id \in EntryIds \intersect used
         /\ session[r].last \in BOOLEAN
  BY DEF Base, TypeOK, Session, Restart, Fresh

\* A step that only moves a session.
LEMMA QuietBase ==
  ASSUME Base,
         UNCHANGED <<up, memVars, diskVars, clock, used, saved, torn, gone, cut, poll>>,
         SessionsFit,
         \/ up /\ ~failed
         \/ \A r \in Requests : session'[r].stage \in Live => session[r].stage \in Live
  PROVE  Base'
<1> USE DEF memVars, diskVars, SessionsFit
<1>1. TypeOK'
  BY DEF Base, TypeOK
<1>2. Fresh' /\ Bounded' /\ PendingCoversDisk' /\ DeletedStaysDeleted'
  BY DEF Base, Fresh, Bounded, PendingCoversDisk, DeletedStaysDeleted
<1>3. Restart'
  BY DEF Base, Restart
<1>4. RetentionLimit' /\ NotModifiedIsTrue' /\ OnDisk'
  BY DEF Base, RetentionLimit, NotModifiedIsTrue, OnDisk
<1> QED
  BY <1>1, <1>2, <1>3, <1>4 DEF Base


-----------------------------------------------------------------------------
(***************************************************************************)
(* Base and the other steps: start, crash and load.                        *)
(***************************************************************************)

LEMMA EmptyFacts ==
  Empty \in Table /\ Ids(Empty) = {} /\ Cardinality(Ids(Empty)) = 0
<1>1. Empty \in Table /\ Ids(Empty) = {}
  BY DEF Empty, Table, Ids
<1> QED
  BY <1>1, FS_EmptySet

\* A store that has just read the disk and saves.
LEMMA LoadBase ==
  ASSUME Base, ~up, up' = TRUE,
         NEW table \in Table, NEW l \in Limits, Effects(table, l, {}),
         Ids(table) \subseteq Ids(index.items),
         revision' \in Nat, revision' <= clock,
         ~torn /\ poll.etag = revision' => poll.list = details',
         UNCHANGED <<failed, session, clock, used, torn, gone, cut, poll>>
  PROVE  Base'
<1>1. ~failed /\ ~failed'
  BY DEF Base, Restart
<1>2. index' \in Index /\ index'.revision <= clock
  <2>1. index \in Index /\ index.revision <= clock
    BY DEF Base, TypeOK, Bounded
  <2>2. details' \in Table
    BY DEF Effects
  <2>3. [form |-> "split", limit |-> l, revision |-> revision', items |-> details'] \in Index
    BY <2>2 DEF Index
  <2>4. \/ index' = index
        \/ index' = [form |-> "split", limit |-> l, revision |-> revision', items |-> details']
    BY DEF Effects
  <2> QED
    BY <2>1, <2>3, <2>4
<1>3. TypeOK'
  <2>1. /\ details' \in Table /\ files' \in Table /\ limit' \in Limits
        /\ dirty' \subseteq Ids(details') /\ deleted' \subseteq EntryIds \ Ids(details')
        /\ saved' \in BOOLEAN
    BY DEF Effects
  <2>2. /\ up' \in BOOLEAN /\ failed' \in BOOLEAN
        /\ session' \in [Requests -> Session]
        /\ clock' \in Nat
        /\ used' \subseteq EntryIds /\ torn' \in BOOLEAN
        /\ gone' \subseteq used' /\ cut' \subseteq used'
        /\ poll' \in [etag: Nat, list: Table]
    BY DEF Base, TypeOK
  <2> QED
    BY <1>2, <2>1, <2>2 DEF TypeOK
<1>4. \A S : Ids(index.items) \subseteq S /\ Ids(files) \subseteq S
             => /\ Ids(details') \subseteq S
                /\ Ids(files') \subseteq S
                /\ Ids(index'.items) \subseteq S
  BY SavedDisk
<1>5. Fresh'
  BY <1>4 DEF Base, Fresh
<1>6. Bounded'
  BY <1>2 DEF Base, Bounded
<1>7. Restart'
  BY <1>1 DEF Base, Restart, Effects
<1>8. PendingCoversDisk'
  BY DEF PendingCoversDisk, Effects
<1>9. DeletedStaysDeleted'
  <2>1. Ids(index.items) \subseteq EntryIds \ gone /\ Ids(files) \subseteq EntryIds \ gone
    BY DEF Base, DeletedStaysDeleted, Ids
  <2> QED
    BY <1>4, <2>1 DEF DeletedStaysDeleted
<1>10. RetentionLimit'
  BY DEF RetentionLimit, Effects
<1>11. NotModifiedIsTrue' /\ OnDisk'
  BY DEF NotModifiedIsTrue, OnDisk
<1> QED
  BY <1>3, <1>5, <1>6, <1>7, <1>8, <1>9, <1>10, <1>11 DEF Base

LEMMA LoadNewEffects ==
  ASSUME Base, LoadNew
  PROVE  /\ index.items \in Table
         /\ index.limit \in Limits
         /\ Effects(index.items, index.limit, {})
         /\ \A id \in Ids(index.items) : index.items[id] = OldEntry
<1>1. index.items \in Table /\ index.limit \in Limits /\ files \in Table
  BY DEF Base, TypeOK, Index
<1>2. Ids(index.items) \in SUBSET Ids(index.items) /\ {} \in SUBSET (EntryIds \ Ids(index.items))
  OBVIOUS
<1>3. Commit(index.items, index.limit, Ids(index.items), {})
  BY DEF LoadNew
<1>4. Effects(index.items, index.limit, {})
  BY <1>1, <1>2, <1>3, CommitEffects
<1>5. \A id \in Ids(index.items) : index.items[id] = OldEntry
  BY DEF LoadNew, Base, Restart, Ids
<1> QED
  BY <1>1, <1>4, <1>5

LEMMA LoadNewBase ==
  ASSUME Base, LoadNew
  PROVE  Base'
<1>1. /\ index.items \in Table
      /\ index.limit \in Limits
      /\ Effects(index.items, index.limit, {})
      /\ \A id \in Ids(index.items) : index.items[id] = OldEntry
  BY LoadNewEffects
<1>2. /\ ~up /\ up' = TRUE
      /\ index.form # "split"
      /\ revision' \in LastRevision(index.items)
      /\ UNCHANGED <<failed, session, clock, used, torn, gone, cut, poll>>
  BY DEF LoadNew
<1>3. \A id \in Ids(index.items) : index.items[id].revision = 1
  BY <1>1 DEF OldEntry
<1>4. /\ revision' \in {0, 1}
      /\ revision' = 0 => Ids(index.items) = {}
  BY <1>2, <1>3 DEF LastRevision
<1>5. revision' \in Nat /\ revision' <= clock
  BY <1>4 DEF Base, Bounded, TypeOK
<1>6. ~torn /\ poll.etag = revision' => poll.list = details'
  <2>1. ASSUME ~torn, poll.etag = revision'
        PROVE  poll.list = details'
    <3>1. poll = [etag |-> 0, list |-> Empty]
      BY <1>2, <2>1 DEF Base, OnDisk
    <3>2. Ids(index.items) = {}
      BY <1>4, <2>1, <3>1
    <3>3. details' \in Table /\ \A id \in EntryIds : details'[id] \in {index.items[id], NoEntry}
      BY <1>1 DEF Effects
    <3>4. \A id \in EntryIds : details'[id] = NoEntry
      BY <3>2, <3>3 DEF Ids
    <3>5. details' = Empty
      BY <3>3, <3>4 DEF Empty, Table
    <3> QED
      BY <3>1, <3>5
  <2> QED
    BY <2>1
<1> QED
  BY <1>1, <1>2, <1>5, <1>6, LoadBase

LEMMA LoadSplitEffects ==
  ASSUME Base, LoadSplit
  PROVE  /\ Only(files, Ids(index.items)) \in Table
         /\ Ids(Only(files, Ids(index.items))) = Ids(index.items)
         /\ \A id \in Ids(index.items) : Only(files, Ids(index.items))[id] = files[id]
         /\ Effects(Only(files, Ids(index.items)), index.limit, {})
<1> DEFINE table == Only(files, Ids(index.items))
<1>1. index.items \in Table /\ index.limit \in Limits /\ files \in Table
  BY DEF Base, TypeOK, Index
<1>2. Ids(index.items) \in SUBSET Ids(files)
  BY DEF LoadSplit, Ids
<1>3. /\ table \in Table
      /\ Ids(table) = Ids(index.items)
      /\ \A id \in EntryIds : table[id] = IF id \in Ids(index.items) THEN files[id] ELSE NoEntry
  BY <1>1, <1>2, OnlyTable
<1>4. \A id \in Ids(index.items) : table[id] = files[id]
  BY <1>3 DEF Ids
<1>5. Commit(table, index.limit, {}, {})
  BY DEF LoadSplit
<1>6. {} \in SUBSET Ids(table) /\ {} \in SUBSET (EntryIds \ Ids(table))
  OBVIOUS
<1>7. \A id \in Ids(table) \ {} : files[id] = table[id]
  BY <1>3, <1>4
<1> HIDE DEF table
<1>8. Effects(table, index.limit, {})
  BY <1>1, <1>3, <1>5, <1>6, <1>7, CommitEffects
<1> QED
  BY <1>3, <1>4, <1>8 DEF table

LEMMA LoadSplitBase ==
  ASSUME Base, LoadSplit
  PROVE  Base'
<1> DEFINE table == Only(files, Ids(index.items))
<1>1. /\ table \in Table
      /\ Ids(table) = Ids(index.items)
      /\ \A id \in Ids(index.items) : table[id] = files[id]
      /\ Effects(table, index.limit, {})
  BY LoadSplitEffects
<1> HIDE DEF table
<1>2. /\ ~up /\ up' = TRUE
      /\ index.form = "split"
      /\ revision' = index.revision
      /\ UNCHANGED <<failed, session, clock, used, torn, gone, cut, poll>>
  BY DEF LoadSplit
<1>3. index.limit \in Limits /\ index.items \in Table /\ index.revision \in Nat
  BY DEF Base, TypeOK, Index
<1>4. revision' \in Nat /\ revision' <= clock
  BY <1>2, <1>3 DEF Base, Bounded
<1>5. ~torn /\ poll.etag = revision' => poll.list = details'
  <2>1. ASSUME ~torn, poll.etag = revision'
        PROVE  poll.list = details'
    <3>1. /\ poll.list = index.items
          /\ \A id \in Ids(index.items) : files[id] = index.items[id]
          /\ index.limit > 0 => Cardinality(Ids(index.items)) <= index.limit
      BY <1>2, <2>1 DEF Base, OnDisk
    <3>2. \A id \in EntryIds : table[id] = index.items[id]
      <4>1. ASSUME NEW id \in EntryIds
            PROVE  table[id] = index.items[id]
        <5>1. CASE id \in Ids(index.items)
          BY <1>1, <3>1, <5>1
        <5>2. CASE id \notin Ids(index.items)
          <6>1. id \notin Ids(table)
            BY <1>1, <5>2
          <6> QED
            BY <5>2, <6>1 DEF Ids
        <5> QED
          BY <5>1, <5>2
      <4> QED
        BY <4>1
    <3>3. table = index.items
      BY <1>1, <1>3, <3>2 DEF Table
    <3>4. details' = table
      <4>1. index.limit \in Nat
        BY <1>3, ChatHistoryAssumption
      <4>2. index.limit = 0 \/ Cardinality(Ids(table)) <= index.limit
        BY <3>1, <3>3, <4>1
      <4>3. index.limit = 0 \/ Cardinality(Ids(table)) <= index.limit => details' = table
        BY <1>1 DEF Effects
      <4> QED
        BY <4>2, <4>3
    <3> QED
      BY <3>1, <3>3, <3>4
  <2> QED
    BY <2>1
<1>6. Ids(table) \subseteq Ids(index.items)
  BY <1>1
<1> QED
  BY <1>1, <1>2, <1>3, <1>4, <1>5, <1>6, LoadBase

LEMMA LoadFailsBase ==
  ASSUME Base, LoadFails
  PROVE  Base'
<1>1. /\ ~up /\ up' = TRUE
      /\ index.form = "split"
      /\ failed' = TRUE
      /\ limit' = index.limit
      /\ revision' = index.revision
      /\ UNCHANGED <<details, dirty, deleted, diskVars, session, clock, used, saved,
                     torn, gone, cut, poll>>
      /\ \E id \in Ids(index.items) : files[id] = NoEntry
  BY DEF LoadFails
<1> USE DEF diskVars
<1>2. index.limit \in Limits /\ index.revision \in Nat
  BY DEF Base, TypeOK, Index
<1>3. TypeOK'
  BY <1>1, <1>2 DEF Base, TypeOK
<1>4. Fresh' /\ Bounded' /\ DeletedStaysDeleted'
  BY <1>1, <1>2 DEF Base, Fresh, Bounded, DeletedStaysDeleted
<1>5. torn
  BY <1>1 DEF Base, OnDisk, Ids
<1>6. details = Empty
  BY <1>1 DEF Base, Restart
<1>7. Restart'
  BY <1>1, <1>5, <1>6 DEF Base, Restart
<1>8. RetentionLimit'
  <2>1. Cardinality(Ids(details')) = 0 /\ limit' \in Nat
    BY <1>1, <1>2, <1>6, EmptyFacts, ChatHistoryAssumption
  <2> QED
    BY <2>1 DEF RetentionLimit
<1>9. PendingCoversDisk' /\ NotModifiedIsTrue' /\ OnDisk'
  BY <1>1 DEF PendingCoversDisk, NotModifiedIsTrue, OnDisk
<1> QED
  BY <1>3, <1>4, <1>7, <1>8, <1>9 DEF Base

LEMMA CrashBase ==
  ASSUME Base, Crash
  PROVE  Base'
<1>1. /\ up /\ up' = FALSE /\ failed' = FALSE
      /\ limit' = DefaultLimit /\ revision' = 0
      /\ details' = Empty /\ dirty' = {} /\ deleted' = {}
      /\ torn' = (torn \/ ~saved)
      /\ UNCHANGED <<index, files, clock, used, saved, gone, poll>>
  BY DEF Crash, diskVars
<1>2. /\ session' \in [Requests -> Session]
      /\ \A r \in Requests : /\ session'[r].id = session[r].id
                             /\ session'[r].stage \in {"new", "over"}
  <2>1. session \in [Requests -> Session]
    BY DEF Base, TypeOK
  <2>2. session' = [r \in Requests |->
                      [session[r] EXCEPT !.stage = IF @ = "new" THEN @ ELSE "over"]]
    BY DEF Crash
  <2> QED
    BY <2>1, <2>2 DEF Session
<1>3. cut' \subseteq used
  <2>1. cut \subseteq used /\ Ids(details) \subseteq used /\ Ids(files) \subseteq used
    BY DEF Base, TypeOK, Fresh
  <2> QED
    BY <2>1 DEF Crash, Ids
<1>4. TypeOK'
  <2>1. details' \in Table /\ limit' \in Limits /\ deleted' \subseteq EntryIds \ Ids(details')
        /\ dirty' \subseteq Ids(details')
    BY <1>1, EmptyFacts, ChatHistoryAssumption
  <2>2. torn' \in BOOLEAN
    BY <1>1
  <2> QED
    BY <1>1, <1>2, <1>3, <2>1, <2>2 DEF Base, TypeOK
<1>5. Fresh'
  BY <1>1, <1>2, EmptyFacts DEF Base, Fresh
<1>6. Bounded' /\ DeletedStaysDeleted'
  BY <1>1, EmptyFacts DEF Base, Bounded, DeletedStaysDeleted, TypeOK
<1>7. Restart'
  BY <1>1, <1>2 DEF Base, Restart, Live
<1>8. RetentionLimit'
  BY <1>1, EmptyFacts, ChatHistoryAssumption DEF RetentionLimit
<1>9. PendingCoversDisk' /\ NotModifiedIsTrue'
  BY <1>1 DEF PendingCoversDisk, NotModifiedIsTrue
<1>10. OnDisk'
  <2>1. ASSUME ~torn'
        PROVE  OnDisk'
    <3>1. ~torn /\ saved
      BY <1>1, <2>1
    <3>2. ~failed
      BY <3>1 DEF Base, Restart
    <3>3. /\ dirty = {}
          /\ \A id \in Ids(details) \ dirty : files[id] = details[id]
          /\ index = [form |-> "split", limit |-> limit, revision |-> revision,
                      items |-> details]
      BY <1>1, <3>1, <3>2 DEF Base, PendingCoversDisk
    <3>4. /\ index.form = "split" /\ index.limit = limit
          /\ index.revision = revision /\ index.items = details
      BY <3>3
    <3>5. poll.etag = index.revision => poll.list = index.items
      BY <1>1, <3>1, <3>2, <3>4 DEF Base, NotModifiedIsTrue
    <3>6. index.limit > 0 => Cardinality(Ids(index.items)) <= index.limit
      BY <3>4 DEF Base, RetentionLimit
    <3> QED
      BY <1>1, <3>3, <3>4, <3>5, <3>6 DEF OnDisk
  <2> QED
    BY <2>1 DEF OnDisk
<1> QED
  BY <1>4, <1>5, <1>6, <1>7, <1>8, <1>9, <1>10 DEF Base

LEMMA InitBase == Init => Base
<1> SUFFICES ASSUME Init PROVE Base
  OBVIOUS
<1>1. OldEntry \in Entry
  BY DEF OldEntry, Entry
<1>2. index \in Index /\ index.revision = 0 /\ index.form # "split"
      /\ Ids(index.items) \subseteq used
      /\ \A id \in EntryIds : index.items[id] \in {NoEntry, OldEntry}
  <2>1. Empty \in Table /\ DefaultLimit \in Limits
    BY EmptyFacts, ChatHistoryAssumption
  <2>2. CASE used = {}
    BY <2>1, <2>2 DEF Init, NoIndex, Index, Ids, Empty
  <2>3. CASE used # {}
    <3>1. PICK items : items = [id \in EntryIds |-> IF id \in used THEN OldEntry ELSE NoEntry]
      OBVIOUS
    <3>2. items \in Table /\ Ids(items) \subseteq used
          /\ \A id \in EntryIds : items[id] \in {NoEntry, OldEntry}
      BY <1>1, <3>1 DEF Table, Ids
    <3>3. index = [form |-> "legacy", limit |-> DefaultLimit, revision |-> 0, items |-> items]
      BY <2>3, <3>1 DEF Init, NoIndex
    <3> QED
      BY <2>1, <3>2, <3>3 DEF Index
  <2> QED
    BY <2>2, <2>3
<1>3. TypeOK
  BY <1>2, EmptyFacts, ChatHistoryAssumption DEF Init, TypeOK, Session
<1>4. Fresh
  BY <1>2, EmptyFacts DEF Init, Fresh
<1>5. Bounded /\ DeletedStaysDeleted
  BY <1>2 DEF Init, Bounded, DeletedStaysDeleted
<1>6. Restart
  BY <1>2 DEF Init, Restart, Live
<1>7. RetentionLimit
  BY EmptyFacts, ChatHistoryAssumption DEF Init, RetentionLimit
<1>8. PendingCoversDisk /\ NotModifiedIsTrue /\ OnDisk
  BY <1>2 DEF Init, PendingCoversDisk, NotModifiedIsTrue, OnDisk
<1> QED
  BY <1>3, <1>4, <1>5, <1>6, <1>7, <1>8 DEF Base

LEMMA PollBase ==
  ASSUME Base, Poll
  PROVE  Base'
<1>1. /\ up /\ ~failed
      /\ poll' = [etag |-> revision, list |-> details]
      /\ UNCHANGED <<up, memVars, diskVars, session, clock, used, saved, torn, gone, cut>>
  BY DEF Poll
<1> USE DEF memVars, diskVars
<1>2. TypeOK'
  BY <1>1 DEF Base, TypeOK
<1>3. Fresh' /\ Bounded' /\ Restart' /\ PendingCoversDisk' /\ DeletedStaysDeleted'
      /\ RetentionLimit'
  BY <1>1 DEF Base, Fresh, Bounded, Restart, PendingCoversDisk, DeletedStaysDeleted,
              RetentionLimit
<1>4. NotModifiedIsTrue' /\ OnDisk'
  BY <1>1 DEF NotModifiedIsTrue, OnDisk
<1> QED
  BY <1>2, <1>3, <1>4 DEF Base

LEMMA StutterBase ==
  ASSUME Base, UNCHANGED vars
  PROVE  Base'
<1> USE DEF vars, memVars, diskVars
<1>1. TypeOK' /\ Fresh' /\ Bounded' /\ Restart'
  BY DEF Base, TypeOK, Fresh, Bounded, Restart
<1>2. PendingCoversDisk' /\ DeletedStaysDeleted' /\ RetentionLimit' /\ NotModifiedIsTrue'
      /\ OnDisk'
  BY DEF Base, PendingCoversDisk, DeletedStaysDeleted, RetentionLimit, NotModifiedIsTrue,
         OnDisk
<1> QED
  BY <1>1, <1>2 DEF Base

-----------------------------------------------------------------------------
(***************************************************************************)
(* Whose entries a table holds: what the owners' part of IInv says of the  *)
(* memory after a step, stated of the table before anything is evicted.    *)
(***************************************************************************)

Owners(table) ==
  /\ OnePerOwner(table)
  /\ SameOwner(table, files)
  /\ SameOwner(table, index.items)
  /\ \A r \in Requests : RecordedAs(r, session'[r], table)
  /\ \A id \in Ids(table) \ cut' :
       table[id].running =>
         \E r \in Requests : session'[r].id = id /\ session'[r].stage \in {"open", "recreated"}

LEMMA OwnersKept ==
  ASSUME NEW table \in Table, NEW l, NEW R, Effects(table, l, R), Owned, Owners(table)
  PROVE  Owned' /\ Recorded' /\ RunningEntriesAreLive'
<1>1. \A id \in Ids(details') : id \in Ids(table) /\ details'[id] = table[id]
  BY DEF Effects, Ids
<1>2. \A id \in Ids(files') :
        \/ id \in Ids(files) /\ files'[id] = files[id]
        \/ id \in Ids(details') /\ files'[id] = details'[id]
  BY DEF Effects, Ids
<1>3. \/ index'.items = index.items
      \/ index'.items = details'
  BY DEF Effects
<1>4. Owned'
  <2>1. SameOwner(table, files) /\ SameOwner(table, index.items) /\ SameOwner(files, index.items)
    BY DEF Owned, Owners
  <2>2. SameOwner(details', files')
    BY <1>1, <1>2, <2>1 DEF SameOwner
  <2>3. SameOwner(details', index.items) /\ SameOwner(files', index.items)
    BY <1>1, <1>2, <2>1 DEF SameOwner
  <2>4. SameOwner(details', details') /\ SameOwner(files', details')
    BY <2>2 DEF SameOwner
  <2>5. OnePerOwner(details') /\ OnePerOwner(index.items)
    BY <1>1 DEF OnePerOwner, Owners, Owned
  <2> QED
    BY <1>3, <2>2, <2>3, <2>4, <2>5 DEF Owned
<1>5. Recorded'
  <2>1. ASSUME NEW r \in Requests
        PROVE  /\ session'[r].stage \in Live =>
                    \A id \in Ids(details') : details'[id].owner = r => session'[r].id = id
               /\ session'[r].stage = "missing" => session'[r].id \notin Ids(details')
    BY <1>1 DEF Owners, RecordedAs
  <2>2. ASSUME NEW r \in Requests, session'[r].stage = "new", NEW id \in EntryIds
        PROVE  /\ id \in Ids(details') => details'[id].owner # r
               /\ id \in Ids(files') => files'[id].owner # r
               /\ id \in Ids(index'.items) => index'.items[id].owner # r
    <3>1. /\ id \in Ids(table) => table[id].owner # r
          /\ id \in Ids(files) => files[id].owner # r
          /\ id \in Ids(index.items) => index.items[id].owner # r
      BY <2>2 DEF Owners, RecordedAs
    <3> QED
      BY <1>1, <1>2, <1>3, <3>1
  <2> QED
    BY <2>1, <2>2 DEF Recorded, RecordedAs
<1>6. RunningEntriesAreLive'
  BY <1>1 DEF RunningEntriesAreLive, Owners
<1> QED
  BY <1>4, <1>5, <1>6

\* The table of an operation that adds no entry and changes no owner.
LEMMA SameOwners ==
  ASSUME Owned, NEW table,
         \A id \in Ids(table) : id \in Ids(details) /\ table[id].owner = details[id].owner
  PROVE  /\ OnePerOwner(table)
         /\ SameOwner(table, files)
         /\ SameOwner(table, index.items)
  BY DEF Owned, OnePerOwner, SameOwner

\* An operation that moves no session.
LEMMA QuietOwners ==
  ASSUME IInv, session' = session, cut' = cut, NEW table,
         \A id \in Ids(table) : id \in Ids(details) /\ table[id] = details[id]
  PROVE  Owners(table)
<1>1. /\ OnePerOwner(table)
      /\ SameOwner(table, files)
      /\ SameOwner(table, index.items)
  BY SameOwners DEF IInv
<1>2. \A id \in Ids(table) \ cut' :
        table[id].running =>
          \E r \in Requests : session'[r].id = id /\ session'[r].stage \in {"open", "recreated"}
  BY DEF IInv, RunningEntriesAreLive
<1>3. ASSUME NEW r \in Requests
      PROVE  RecordedAs(r, session'[r], table)
  BY DEF IInv, Recorded, RecordedAs
<1> QED
  BY <1>1, <1>2, <1>3 DEF Owners

LEMMA OperationOwners ==
  ASSUME IInv, NEW table, NEW l, NEW W, NEW R, Operation(table, l, W, R),
         SessionsFit, Owners(table)
  PROVE  IInv'
<1>1. /\ table \in Table /\ l \in Limits
      /\ W \in SUBSET Ids(table) /\ R \in SUBSET (EntryIds \ Ids(table))
      /\ \A id \in Ids(table) \ W : files[id] = table[id]
      /\ Commit(table, l, W, R)
      /\ up /\ up' = up
  BY DEF Operation
<1>2. files \in Table
  BY DEF IInv, Base, TypeOK
<1>3. Effects(table, l, R)
  BY <1>1, <1>2, CommitEffects
<1>4. Owned' /\ Recorded' /\ RunningEntriesAreLive'
  BY <1>1, <1>3, OwnersKept DEF IInv
<1>5. CutShort'
  BY <1>1 DEF CutShort
<1>6. Base'
  BY OperationBase DEF IInv
<1> QED
  BY <1>4, <1>5, <1>6 DEF IInv

LEMMA AdminStepIInv ==
  ASSUME IInv, AdminStep
  PROVE  IInv'
<1>1. ASSUME UNCHANGED session, used' = used
      PROVE  SessionsFit
  BY <1>1 DEF SessionsFit, IInv, Base, TypeOK, Fresh, Restart
<1>2. ASSUME NEW id \in EntryIds, Delete(id)
      PROVE  IInv'
  <2>1. PICK table \in Table :
          /\ Operation(table, limit, dirty \ {id}, deleted \union {id})
          /\ \A i \in EntryIds : table[i] \in {details[i], NoEntry}
    BY <1>2, DeleteOperation DEF IInv
  <2>2. SessionsFit /\ session' = session /\ cut' = cut
    BY <1>1, <1>2 DEF Delete
  <2>3. \A i \in Ids(table) : i \in Ids(details) /\ table[i] = details[i]
    BY <2>1 DEF Ids
  <2>4. Owners(table)
    BY <2>2, <2>3, QuietOwners
  <2> QED
    BY <2>1, <2>2, <2>4, OperationOwners
<1>3. CASE Clear
  <2>1. SessionsFit /\ session' = session /\ cut' = cut
    BY <1>1, <1>3 DEF Clear
  <2>2. Ids(Empty) = {} /\ Operation(Empty, limit, {}, deleted \union Ids(details))
    BY <1>3, ClearOperation DEF IInv
  <2>3. Owners(Empty)
    BY <2>1, <2>2, QuietOwners
  <2> QED
    BY <2>1, <2>2, <2>3, OperationOwners
<1>4. ASSUME NEW l \in Limits, SetLimit(l)
      PROVE  IInv'
  <2>1. SessionsFit /\ session' = session /\ cut' = cut
    BY <1>1, <1>4 DEF SetLimit
  <2>2. Operation(details, l, dirty, deleted)
    BY <1>4, SetLimitOperation DEF IInv
  <2>3. Owners(details)
    BY <2>1, QuietOwners
  <2> QED
    BY <2>1, <2>2, <2>3, OperationOwners
<1>5. CASE Poll
  <2>1. UNCHANGED <<up, memVars, diskVars, session, clock, used, saved, torn, gone, cut>>
    BY <1>5 DEF Poll
  <2>2. Owned' /\ Recorded' /\ CutShort' /\ RunningEntriesAreLive'
    BY <2>1 DEF IInv, Owned, Recorded, RecordedAs, CutShort, RunningEntriesAreLive, memVars, diskVars
  <2> QED
    BY <1>5, <2>2, PollBase DEF IInv
<1> QED
  BY <1>2, <1>3, <1>4, <1>5 DEF AdminStep

\* A request that has no entry starts one, in a step of its session.
LEMMA StartOwners ==
  ASSUME IInv, NEW r \in Requests, session[r].stage \in {"new", "missing"},
         NEW id \in EntryIds \ used, NEW table,
         \A i \in EntryIds \ {id} : table[i] = details[i],
         table[id] # NoEntry, table[id].owner = r, cut' = cut,
         session'[r].id = id, session'[r].stage \in {"open", "recreated"},
         \A q \in Requests \ {r} : session'[q] = session[q]
  PROVE  Owners(table)
<1>1. /\ id \notin Ids(details) /\ id \notin Ids(files) /\ id \notin Ids(index.items)
      /\ id # NoEntry
      /\ \A q \in Requests : session[q].id # id
  BY ChatHistoryAssumption DEF IInv, Base, Fresh
<1>2. Ids(table) = Ids(details) \union {id}
  BY DEF Ids
<1>3. \A i \in Ids(details) : i \in EntryIds \ {id} /\ table[i] = details[i]
  BY <1>1 DEF Ids
<1>4. \A i \in Ids(details) : details[i].owner # r
  <2>1. CASE session[r].stage = "new"
    BY <2>1 DEF IInv, Recorded, RecordedAs, Ids
  <2>2. CASE session[r].stage = "missing"
    BY <2>2 DEF IInv, Recorded, RecordedAs, Live
  <2> QED
    BY <2>1, <2>2
<1>5. OnePerOwner(table)
  <2>1. OnePerOwner(details)
    BY DEF IInv, Owned
  <2> QED
    BY <1>2, <1>3, <1>4, <2>1 DEF OnePerOwner
<1>6. SameOwner(table, files) /\ SameOwner(table, index.items)
  <2>1. SameOwner(details, files) /\ SameOwner(details, index.items)
    BY DEF IInv, Owned
  <2> QED
    BY <1>1, <1>2, <1>3, <2>1 DEF SameOwner
<1>7. ASSUME NEW q \in Requests
      PROVE  RecordedAs(q, session'[q], table)
  <2>1. CASE q = r
    BY <1>2, <1>3, <1>4, <2>1 DEF RecordedAs, Live
  <2>2. CASE q # r
    <3>1. session'[q] = session[q]
      BY <2>2
    <3>2. RecordedAs(q, session[q], details)
      BY DEF IInv, Recorded
    <3> QED
      BY <1>1, <1>2, <1>3, <2>2, <3>1, <3>2 DEF RecordedAs
  <2> QED
    BY <2>1, <2>2
<1>8. ASSUME NEW i \in Ids(table) \ cut', table[i].running
      PROVE  \E q \in Requests : session'[q].id = i
                                 /\ session'[q].stage \in {"open", "recreated"}
  <2>1. CASE i = id
    BY <2>1
  <2>2. CASE i # id
    <3>1. i \in Ids(details) \ cut /\ details[i].running
      BY <1>2, <1>3, <1>8, <2>2
    <3>2. PICK q \in Requests : session[q].id = i /\ session[q].stage \in {"open", "recreated"}
      BY <3>1 DEF IInv, RunningEntriesAreLive
    <3>3. q # r
      BY <3>2
    <3> QED
      BY <3>2, <3>3
  <2> QED
    BY <2>1, <2>2
<1> QED
  BY <1>5, <1>6, <1>7, <1>8 DEF Owners

\* A request updates its entry.
LEMMA UpdateOwners ==
  ASSUME IInv, NEW r \in Requests, session[r].stage \in {"open", "recreated"},
         NEW id, id = session[r].id, id \in EntryIds, details[id] # NoEntry,
         NEW last \in BOOLEAN, NEW table,
         \A i \in EntryIds \ {id} : table[i] = details[i],
         table[id] # NoEntry, table[id].owner = details[id].owner,
         table[id].running = (~last /\ details[id].running), cut' = cut,
         session'[r].id = id, session'[r].stage = AfterUpdate(last),
         \A q \in Requests \ {r} : session'[q] = session[q]
  PROVE  Owners(table)
<1>1. Ids(table) = Ids(details) /\ id \in Ids(details)
  BY DEF Ids
<1>2. \A i \in Ids(details) : i # id => table[i] = details[i]
  BY DEF Ids
<1>3. \A i \in Ids(table) : i \in Ids(details) /\ table[i].owner = details[i].owner
  BY <1>1, <1>2
<1>4. /\ OnePerOwner(table)
      /\ SameOwner(table, files)
      /\ SameOwner(table, index.items)
  BY <1>3, SameOwners DEF IInv
<1>5. session'[r].stage = IF last THEN "over" ELSE "open"
  BY DEF AfterUpdate
<1>6. ASSUME NEW q \in Requests
      PROVE  RecordedAs(q, session'[q], table)
  <2>1. RecordedAs(q, session[q], details)
    BY DEF IInv, Recorded
  <2>2. CASE q = r
    <3>1. session[q].stage \in Live /\ session'[q].id = session[q].id
      BY <2>2 DEF Live
    <3>2. session'[q].stage \in {"open", "over"}
      BY <1>5, <2>2
    <3> QED
      BY <1>3, <2>1, <3>1, <3>2 DEF RecordedAs
  <2>3. CASE q # r
    <3>1. session'[q] = session[q]
      BY <2>3
    <3> QED
      BY <1>1, <1>3, <2>1, <3>1 DEF RecordedAs
  <2> QED
    BY <2>2, <2>3
<1>7. ASSUME NEW i \in Ids(table) \ cut', table[i].running
      PROVE  \E q \in Requests : session'[q].id = i
                                 /\ session'[q].stage \in {"open", "recreated"}
  <2>1. CASE i = id
    <3>1. ~last
      BY <1>7, <2>1
    <3> QED
      BY <1>5, <2>1, <3>1
  <2>2. CASE i # id
    <3>1. i \in Ids(details) \ cut /\ details[i].running
      BY <1>1, <1>2, <1>7, <2>2
    <3>2. PICK q \in Requests : session[q].id = i /\ session[q].stage \in {"open", "recreated"}
      BY <3>1 DEF IInv, RunningEntriesAreLive
    <3>3. q # r
      BY <2>2, <3>2
    <3> QED
      BY <3>2, <3>3
  <2> QED
    BY <2>1, <2>2
<1> QED
  BY <1>4, <1>6, <1>7 DEF Owners

\* A session whose entry is not there moves, and nothing else does.
LEMMA SessionOnlyIInv ==
  ASSUME IInv, NEW r \in Requests, SessionsFit,
         UNCHANGED <<up, memVars, diskVars, clock, used, saved, torn, gone, cut, poll>>,
         \A q \in Requests \ {r} : session'[q] = session[q],
         session'[r].stage = "over"
           \/ /\ session'[r].stage = "missing" /\ session'[r].id = session[r].id
              /\ session[r].stage \in Live,
         session[r].stage \in {"open", "recreated"} => session[r].id \notin Ids(details)
  PROVE  IInv'
<1> USE DEF memVars, diskVars
<1>0. Base'
  <2>1. \A q \in Requests : session'[q].stage \in Live => session[q].stage \in Live
    BY DEF Live
  <2> QED
    BY <2>1, QuietBase DEF IInv
<1>1. Owned' /\ CutShort'
  BY DEF IInv, Owned, CutShort
<1>2. RunningEntriesAreLive'
  <2>1. ASSUME NEW i \in Ids(details) \ cut, details[i].running
        PROVE  \E q \in Requests : session'[q].id = i
                                   /\ session'[q].stage \in {"open", "recreated"}
    <3>1. PICK q \in Requests : session[q].id = i /\ session[q].stage \in {"open", "recreated"}
      BY <2>1 DEF IInv, RunningEntriesAreLive
    <3>2. q # r
      BY <2>1, <3>1
    <3> QED
      BY <3>1, <3>2
  <2> QED
    BY <2>1 DEF RunningEntriesAreLive
<1>3. Recorded'
  <2>1. ASSUME NEW q \in Requests
        PROVE  RecordedAs(q, session'[q], details)
    <3>1. RecordedAs(q, session[q], details)
      BY DEF IInv, Recorded
    <3>2. CASE q # r
      BY <3>1, <3>2
    <3>3. CASE q = r /\ session'[r].stage = "over"
      BY <3>3 DEF RecordedAs, Live
    <3>4. CASE q = r /\ session'[r].stage = "missing"
      BY <3>1, <3>4 DEF RecordedAs, Live
    <3> QED
      BY <3>2, <3>3, <3>4
  <2> QED
    BY <2>1 DEF Recorded, RecordedAs
<1> QED
  BY <1>0, <1>1, <1>2, <1>3 DEF IInv

LEMMA SessionStepIInv ==
  ASSUME IInv, NEW r \in Requests, SessionStep(r)
  PROVE  IInv'
<1>0. Base
  BY DEF IInv
<1>1. CASE Begin(r)
  <2>1. PICK id \in EntryIds : Start(r, id) /\ SetSession(r, "open", id, FALSE)
    BY <1>1 DEF Begin
  <2>2. /\ up /\ ~failed /\ torn' = FALSE
        /\ session[r].stage = "new"
        /\ UNCHANGED <<up, failed, gone, cut, poll>>
    BY <1>1 DEF Begin
  <2>3. id \in EntryIds \ used /\ used' = used \union {id}
    BY <1>0, <2>1, <2>2, StartOperation
  <2>4. PICK table \in Table :
          /\ Operation(table, limit, dirty \union {id}, deleted \ {id})
          /\ \A i \in EntryIds \ {id} : table[i] = details[i]
          /\ table[id] # NoEntry
          /\ table[id].owner = r
    BY <1>0, <2>1, <2>2, StartOperation
  <2>5. /\ SessionsFit
        /\ session'[r] = [stage |-> "open", id |-> id, last |-> FALSE]
        /\ \A q \in Requests \ {r} : session'[q] = session[q]
    BY <1>0, <2>1, <2>3, SessionFacts, ChatHistoryAssumption DEF Stages, Live
  <2>6. session'[r].id = id /\ session'[r].stage \in {"open", "recreated"}
    BY <2>5
  <2>7. Owners(table)
    BY <2>2, <2>3, <2>4, <2>5, <2>6, StartOwners
  <2> QED
    BY <2>4, <2>5, <2>7, OperationOwners
<1>2. CASE BeginUnrecorded(r)
  <2>1. /\ SetSession(r, "over", NoEntry, FALSE)
        /\ used' = used
        /\ session[r].stage = "new"
        /\ UNCHANGED <<up, memVars, diskVars, clock, used, saved, torn, gone, cut, poll>>
    BY <1>2 DEF BeginUnrecorded
  <2>2. /\ SessionsFit
        /\ session'[r] = [stage |-> "over", id |-> NoEntry, last |-> FALSE]
        /\ \A q \in Requests \ {r} : session'[q] = session[q]
    BY <1>0, <2>1, SessionFacts DEF Stages, Live
  <2>3. session'[r].stage = "over"
    BY <2>2
  <2> QED
    BY <1>0, <2>1, <2>2, <2>3, SessionOnlyIInv
<1>3. ASSUME NEW last \in BOOLEAN, NEW id, id = session[r].id,
             session[r].stage \in {"open", "recreated"}, details[id] # NoEntry,
             Update(id, last), SetSession(r, AfterUpdate(last), id, FALSE), torn' = FALSE,
             UNCHANGED <<up, failed, gone, cut, poll, used>>
      PROVE  IInv'
  <2>1. up /\ ~failed /\ id \in EntryIds \intersect used
    BY <1>0, <1>3, LiveSession DEF Live
  <2>2. PICK table \in Table :
          /\ Operation(table, limit, dirty \union {id}, deleted \ {id})
          /\ \A i \in EntryIds \ {id} : table[i] = details[i]
          /\ table[id] # NoEntry
          /\ table[id].owner = details[id].owner
          /\ table[id].running = (~last /\ details[id].running)
    BY <1>0, <1>3, <2>1, UpdateOperation
  <2>3. /\ AfterUpdate(last) \in Stages
        /\ FALSE \in BOOLEAN
        /\ id \in EntryIds \union {NoEntry} /\ id \in used' \union {NoEntry} /\ id # NoEntry
        /\ used \subseteq used'
        /\ SetSession(r, AfterUpdate(last), id, FALSE)
    BY <1>3, <2>1, ChatHistoryAssumption DEF AfterUpdate, Stages
  <2>4. /\ SessionsFit
        /\ session'[r] = [stage |-> AfterUpdate(last), id |-> id, last |-> FALSE]
        /\ \A q \in Requests \ {r} : session'[q] = session[q]
    BY <1>0, <2>3, SessionFacts
  <2>5. session'[r].id = id /\ session'[r].stage = AfterUpdate(last)
    BY <2>4
  <2>6. cut' = cut
    BY <1>3
  <2>7. Owners(table)
    BY <1>3, <2>1, <2>2, <2>4, <2>5, <2>6, UpdateOwners
  <2> QED
    BY <2>2, <2>4, <2>7, OperationOwners
<1>4. ASSUME NEW last \in BOOLEAN, Persist(r, last)
      PROVE  IInv'
  <2>1. CASE details[session[r].id] # NoEntry
    BY <1>3, <1>4, <2>1 DEF Persist
  <2>2. CASE details[session[r].id] = NoEntry
    <3>1. /\ SetSession(r, "missing", session[r].id, last)
          /\ session[r].stage = "open"
          /\ used' = used
          /\ UNCHANGED <<up, memVars, diskVars, clock, used, saved, torn, gone, cut, poll>>
      BY <1>4, <2>2 DEF Persist, memVars
    <3>2. session[r].id \in EntryIds \intersect used
      BY <1>0, <3>1, LiveSession DEF Live
    <3>3. /\ SessionsFit
          /\ session'[r] = [stage |-> "missing", id |-> session[r].id, last |-> last]
          /\ \A q \in Requests \ {r} : session'[q] = session[q]
      BY <1>0, <3>1, <3>2, SessionFacts, ChatHistoryAssumption DEF Stages, Live
    <3>4. session'[r].stage = "missing" /\ session'[r].id = session[r].id
      BY <3>3
    <3>5. session[r].id \notin Ids(details)
      BY <2>2 DEF Ids
    <3> QED
      BY <1>0, <3>1, <3>3, <3>4, <3>5, SessionOnlyIInv DEF Live
  <2> QED
    BY <2>1, <2>2
<1>5. CASE Recreate(r)
  <2>0. /\ up /\ ~failed
        /\ session[r].id \in EntryIds \intersect used
        /\ session[r].last \in BOOLEAN
        /\ session[r].stage = "missing"
    BY <1>0, <1>5, LiveSession DEF Recreate, Live
  <2>1. CASE limit = 0
    <3>1. /\ SetSession(r, "over", session[r].id, FALSE)
          /\ used' = used
          /\ UNCHANGED <<up, memVars, diskVars, clock, used, saved, torn, gone, cut, poll>>
      BY <1>5, <2>1 DEF Recreate, memVars
    <3>2. /\ SessionsFit
          /\ session'[r] = [stage |-> "over", id |-> session[r].id, last |-> FALSE]
          /\ \A q \in Requests \ {r} : session'[q] = session[q]
      BY <1>0, <2>0, <3>1, SessionFacts, ChatHistoryAssumption DEF Stages, Live
    <3>3. session'[r].stage = "over"
      BY <3>2
    <3> QED
      BY <1>0, <2>0, <3>1, <3>2, <3>3, SessionOnlyIInv
  <2>2. CASE limit # 0
    <3>1. PICK id \in EntryIds :
            Start(r, id) /\ SetSession(r, "recreated", id, session[r].last)
      BY <1>5, <2>2 DEF Recreate
    <3>2. torn' = FALSE /\ UNCHANGED <<up, failed, gone, cut, poll>>
      BY <1>5, <2>2 DEF Recreate
    <3>3. id \in EntryIds \ used /\ used' = used \union {id}
      BY <1>0, <2>0, <3>1, <3>2, StartOperation
    <3>4. PICK table \in Table :
            /\ Operation(table, limit, dirty \union {id}, deleted \ {id})
            /\ \A i \in EntryIds \ {id} : table[i] = details[i]
            /\ table[id] # NoEntry
            /\ table[id].owner = r
      BY <1>0, <2>0, <3>1, <3>2, StartOperation
    <3>5. /\ SessionsFit
          /\ session'[r] = [stage |-> "recreated", id |-> id, last |-> session[r].last]
          /\ \A q \in Requests \ {r} : session'[q] = session[q]
      BY <1>0, <2>0, <3>1, <3>3, SessionFacts, ChatHistoryAssumption DEF Stages, Live
    <3>6. session'[r].id = id /\ session'[r].stage \in {"open", "recreated"}
      BY <3>5
    <3>7. Owners(table)
      BY <2>0, <3>2, <3>3, <3>4, <3>5, <3>6, StartOwners
    <3> QED
      BY <3>4, <3>5, <3>7, OperationOwners
  <2> QED
    BY <2>1, <2>2
<1>6. CASE PersistAgain(r)
  <2>0. /\ session[r].id \in EntryIds \intersect used
        /\ session[r].last \in BOOLEAN
        /\ session[r].stage = "recreated"
    BY <1>0, <1>6, LiveSession DEF PersistAgain, Live
  <2>1. CASE details[session[r].id] # NoEntry
    <3>1. /\ Update(session[r].id, session[r].last)
          /\ SetSession(r, AfterUpdate(session[r].last), session[r].id, FALSE)
          /\ torn' = FALSE
          /\ UNCHANGED <<up, failed, gone, cut, poll, used>>
      BY <1>6, <2>1 DEF PersistAgain
    <3> QED
      BY <1>3, <2>0, <2>1, <3>1
  <2>2. CASE details[session[r].id] = NoEntry
    <3>1. /\ SetSession(r, "over", session[r].id, FALSE)
          /\ used' = used
          /\ UNCHANGED <<up, memVars, diskVars, clock, used, saved, torn, gone, cut, poll>>
      BY <1>6, <2>2 DEF PersistAgain, memVars
    <3>2. /\ SessionsFit
          /\ session'[r] = [stage |-> "over", id |-> session[r].id, last |-> FALSE]
          /\ \A q \in Requests \ {r} : session'[q] = session[q]
      BY <1>0, <2>0, <3>1, SessionFacts, ChatHistoryAssumption DEF Stages, Live
    <3>3. session'[r].stage = "over"
      BY <3>2
    <3>4. session[r].id \notin Ids(details)
      BY <2>2 DEF Ids
    <3> QED
      BY <1>0, <3>1, <3>2, <3>3, <3>4, SessionOnlyIInv
  <2> QED
    BY <2>1, <2>2
<1> QED
  BY <1>1, <1>2, <1>4, <1>5, <1>6 DEF SessionStep

LEMMA LoadIInv ==
  ASSUME IInv, ~up, up' = TRUE, Base',
         NEW table \in Table, NEW l, Effects(table, l, {}),
         Ids(table) \subseteq Ids(index.items),
         \A id \in Ids(table) : table[id].owner = index.items[id].owner,
         \A id \in Ids(table) \ cut : ~table[id].running,
         UNCHANGED <<session, cut>>
  PROVE  IInv'
<1>1. OnePerOwner(table) /\ SameOwner(table, files) /\ SameOwner(table, index.items)
  <2>1. OnePerOwner(index.items) /\ SameOwner(files, index.items)
    BY DEF IInv, Owned
  <2> QED
    BY <2>1 DEF OnePerOwner, SameOwner
<1>2. \A r \in Requests : session[r].stage \notin Live
  BY DEF IInv, Base, Restart
<1>3. ASSUME NEW r \in Requests, session[r].stage = "new", NEW id \in EntryIds
      PROVE  /\ id \in Ids(table) => table[id].owner # r
             /\ id \in Ids(files) => files[id].owner # r
             /\ id \in Ids(index.items) => index.items[id].owner # r
  <2>1. /\ id \in Ids(files) => files[id].owner # r
        /\ id \in Ids(index.items) => index.items[id].owner # r
    BY <1>3 DEF IInv, Recorded, RecordedAs
  <2> QED
    BY <2>1
<1>4. Owners(table)
  BY <1>1, <1>2, <1>3 DEF Owners, RecordedAs, Live
<1>5. Owned' /\ Recorded' /\ RunningEntriesAreLive'
  BY <1>4, OwnersKept DEF IInv
<1>6. CutShort'
  BY DEF CutShort
<1> QED
  BY <1>5, <1>6 DEF IInv

LEMMA ProgramStepIInv ==
  ASSUME IInv, ProgramStep
  PROVE  IInv'
<1>0. Base
  BY DEF IInv
<1>1. CASE Crash
  <2>1. /\ details' = Empty /\ UNCHANGED <<index, files>>
        /\ cut' = cut \union {id \in EntryIds : details[id] # NoEntry /\ details[id].running}
                      \union {id \in EntryIds : files[id] # NoEntry /\ files[id].running}
    BY <1>1 DEF Crash, diskVars
  <2>2. session \in [Requests -> Session]
    BY <1>0 DEF Base, TypeOK
  <2>3. \A r \in Requests : /\ session'[r].stage \in {"new", "over"}
                            /\ session'[r].stage = "new" => session[r].stage = "new"
    BY <1>1, <2>2 DEF Crash, Session
  <2>4. Owned' /\ RunningEntriesAreLive'
    BY <2>1, EmptyFacts DEF IInv, Owned, SameOwner, OnePerOwner, RunningEntriesAreLive
  <2>5. Recorded'
    BY <2>1, <2>3, EmptyFacts DEF IInv, Recorded, RecordedAs, Live
  <2>6. CutShort'
    BY <2>1 DEF CutShort, Ids
  <2> QED
    BY <1>0, <1>1, <2>4, <2>5, <2>6, CrashBase DEF IInv
<1>2. CASE LoadNew
  <2>1. /\ index.items \in Table
        /\ Effects(index.items, index.limit, {})
        /\ \A id \in Ids(index.items) : index.items[id] = OldEntry
    BY <1>0, <1>2, LoadNewEffects
  <2>2. \A id \in Ids(index.items) : ~index.items[id].running
    BY <2>1 DEF OldEntry
  <2>3. ~up /\ up' = TRUE /\ UNCHANGED <<session, cut>>
    BY <1>2 DEF LoadNew
  <2>4. Base'
    BY <1>0, <1>2, LoadNewBase
  <2> QED
    BY <2>1, <2>2, <2>3, <2>4, LoadIInv
<1>3. CASE LoadSplit
  <2> DEFINE table == Only(files, Ids(index.items))
  <2>1. /\ table \in Table
        /\ Ids(table) = Ids(index.items)
        /\ \A id \in Ids(index.items) : table[id] = files[id]
        /\ Effects(table, index.limit, {})
    BY <1>0, <1>3, LoadSplitEffects
  <2> HIDE DEF table
  <2>2. ~up /\ up' = TRUE /\ UNCHANGED <<session, cut>>
        /\ \A id \in Ids(index.items) : id \in Ids(files)
    BY <1>3 DEF LoadSplit, Ids
  <2>3. \A id \in Ids(table) : table[id].owner = index.items[id].owner
    BY <2>1, <2>2 DEF IInv, Owned, SameOwner
  <2>4. \A id \in Ids(table) \ cut : ~table[id].running
    BY <2>1, <2>2 DEF IInv, CutShort
  <2>5. Base'
    BY <1>0, <1>3, LoadSplitBase
  <2>6. Ids(table) \subseteq Ids(index.items)
    BY <2>1
  <2> QED
    BY <2>1, <2>2, <2>3, <2>4, <2>5, <2>6, LoadIInv
<1>4. CASE LoadFails
  <2>1. /\ ~up /\ up' = TRUE
        /\ UNCHANGED <<details, index, files, session, cut>>
    BY <1>4 DEF LoadFails, diskVars
  <2>2. Owned' /\ Recorded' /\ CutShort' /\ RunningEntriesAreLive'
    BY <2>1 DEF IInv, Owned, Recorded, RecordedAs, CutShort, RunningEntriesAreLive
  <2> QED
    BY <1>0, <1>4, <2>2, LoadFailsBase DEF IInv
<1> QED
  BY <1>1, <1>2, <1>3, <1>4 DEF ProgramStep

LEMMA InitIInv == Init => IInv
<1> SUFFICES ASSUME Init PROVE IInv
  OBVIOUS
<1>1. /\ details = Empty /\ files = Empty
      /\ \A r \in Requests : session[r].stage = "new"
  BY DEF Init
<1>2. ASSUME NEW id \in Ids(index.items)
      PROVE  index.items[id].owner = NoEntry
  <2>1. Base
    BY InitBase
  <2>2. index.form # "split"
    BY DEF Init, NoIndex
  <2>3. index.items[id] = OldEntry
    BY <2>1, <2>2 DEF Base, Restart, Ids
  <2> QED
    BY <2>3 DEF OldEntry
<1>3. Owned
  BY <1>1, <1>2, EmptyFacts DEF Owned, SameOwner, OnePerOwner
<1>4. Recorded
  BY <1>1, <1>2, EmptyFacts, ChatHistoryAssumption DEF Recorded, RecordedAs, Live
<1>5. CutShort /\ RunningEntriesAreLive
  BY <1>1, EmptyFacts DEF CutShort, RunningEntriesAreLive
<1> QED
  BY <1>3, <1>4, <1>5, InitBase DEF IInv

LEMMA NextIInv == IInv /\ [Next]_vars => IInv'
<1> SUFFICES ASSUME IInv, [Next]_vars PROVE IInv'
  OBVIOUS
<1>1. CASE UNCHANGED vars
  <2>1. Owned' /\ Recorded' /\ CutShort' /\ RunningEntriesAreLive'
    BY <1>1 DEF IInv, Owned, Recorded, RecordedAs, CutShort, RunningEntriesAreLive, vars, memVars, diskVars
  <2> QED
    BY <1>1, <2>1, StutterBase DEF IInv
<1>2. CASE Next
  BY <1>2, SessionStepIInv, AdminStepIInv, ProgramStepIInv DEF Next
<1> QED
  BY <1>1, <1>2

-----------------------------------------------------------------------------
(***************************************************************************)
(* Every variable keeps its type; pending writes are of entries that are   *)
(* there and pending removals of entries that are not.                     *)
(***************************************************************************)
THEOREM TypeCorrect == Spec => []TypeOK
<1>1. IInv => TypeOK
  BY DEF IInv, Base
<1> QED
  BY <1>1, InitIInv, NextIInv, PTL DEF Spec

(***************************************************************************)
(* No failed save is forgotten: what memory and disk differ in is pending  *)
(* (saveLocked keeps dirty and deleted until its last write).              *)
(***************************************************************************)
THEOREM PendingCorrect == Spec => []PendingCoversDisk
<1>1. IInv => PendingCoversDisk
  BY DEF IInv, Base
<1> QED
  BY <1>1, InitIInv, NextIInv, PTL DEF Spec

(***************************************************************************)
(* A deletion that was reported as done (Delete, Clear) is final, whatever *)
(* saves fail and whenever the program stops.                              *)
(***************************************************************************)
THEOREM DeletionIsFinal == Spec => []DeletedStaysDeleted
<1>1. IInv => DeletedStaysDeleted
  BY DEF IInv, Base
<1> QED
  BY <1>1, InitIInv, NextIInv, PTL DEF Spec

(***************************************************************************)
(* The retention limit holds after every operation and every restart       *)
(* (rebuildIndexLocked).                                                   *)
(***************************************************************************)
THEOREM RetentionCorrect == Spec => []RetentionLimit
<1>1. IInv => RetentionLimit
  BY DEF IInv, Base
<1> QED
  BY <1>1, InitIInv, NextIInv, PTL DEF Spec

(***************************************************************************)
(* A 304 of getChatHistory is true, also after a restart, unless a save    *)
(* was interrupted.                                                        *)
(***************************************************************************)
THEOREM NotModifiedCorrect == Spec => []NotModifiedIsTrue
<1>1. IInv => NotModifiedIsTrue
  BY DEF IInv, Base
<1> QED
  BY <1>1, InitIInv, NextIInv, PTL DEF Spec

(***************************************************************************)
(* However often the entry of a running request is deleted or evicted and  *)
(* created again (retryMissingEntry), the request is listed once at most.  *)
(***************************************************************************)
THEOREM ListedOnce == Spec => []OneEntryPerRequest
<1>1. IInv => OneEntryPerRequest
  BY DEF IInv, Owned, OnePerOwner, OneEntryPerRequest
<1> QED
  BY <1>1, InitIInv, NextIInv, PTL DEF Spec

(***************************************************************************)
(* Only a crash leaves an entry that says its request runs after the       *)
(* request has ended.                                                      *)
(***************************************************************************)
THEOREM RunningCorrect == Spec => []RunningEntriesAreLive
<1>1. IInv => RunningEntriesAreLive
  BY DEF IInv
<1> QED
  BY <1>1, InitIInv, NextIInv, PTL DEF Spec

-----------------------------------------------------------------------------
(***************************************************************************)
(* The history is a durable table.  The mapping reads the table that is    *)
(* kept through the index; for a start to find it, what a complete save    *)
(* left must be there and must fit the limit that was saved with it.       *)
(***************************************************************************)

Readable ==
  /\ index.form = "split" /\ index.limit > 0 =>
       Cardinality(Ids(index.items)) <= index.limit
  /\ failed => ~saved
  /\ ~up /\ saved /\ index.form = "split" =>
       \A id \in Ids(index.items) : files[id] # NoEntry

\* The table that a start finds, for an index of either form.
LEMMA StoredFacts ==
  ASSUME TypeOK
  PROVE  /\ Stored = [id \in EntryIds |-> Stored[id]]
         /\ index.form # "split" => Stored = index.items
         /\ index.form = "split" =>
              \A id \in EntryIds :
                Stored[id] = IF id \in Ids(index.items) THEN files[id] ELSE NoEntry
  BY DEF TypeOK, Index, Table, Stored, Only

\* A save that completes keeps the new table; one that stops keeps of each
\* entry the old one or the new.
LEMMA SaveIsDurable ==
  ASSUME TypeOK, TypeOK', NEW table, NEW l \in Limits, NEW R, Effects(table, l, R)
  PROVE  Durable!Save
<1>1. /\ Stored' = [id \in EntryIds |-> Stored'[id]]
      /\ index'.form # "split" => Stored' = index'.items
      /\ index'.form = "split" =>
           \A id \in EntryIds :
             Stored'[id] = IF id \in Ids(index'.items) THEN files'[id] ELSE NoEntry
  BY StoredFacts, TypeOK' DEF TypeOK, Index, Table, Stored, Only
<1>2. /\ details' \in Table
      /\ \A id \in EntryIds : files'[id] \in {files[id], details'[id]}
  BY DEF Effects
<1>3. CASE saved'
  <2>1. index'.form = "split" /\ index'.items = details'
    BY <1>3 DEF Effects
  <2>2. \A id \in Ids(details') : files'[id] = details'[id]
    BY <1>3 DEF Effects
  <2>3. \A id \in EntryIds : Stored'[id] = details'[id]
    BY <1>1, <2>1, <2>2 DEF Ids
  <2>4. Stored' = details'
    BY <1>1, <1>2, <2>3 DEF Table
  <2> QED
    BY <1>1, <1>2, <1>3, <2>1, <2>4 DEF Durable!Save, Table
<1>4. CASE ~saved'
  <2>1. index' = index /\ saved' = FALSE
    BY <1>4 DEF Effects
  <2>2. \A id \in EntryIds : Stored'[id] \in {Stored[id], details'[id]}
    <3>1. CASE index.form = "split"
      BY <1>1, <1>2, <2>1, <3>1, StoredFacts
    <3>2. CASE index.form # "split"
      BY <1>1, <2>1, <3>2, StoredFacts
    <3> QED
      BY <3>1, <3>2
  <2> QED
    BY <1>1, <2>1, <2>2 DEF Durable!Save
<1> QED
  BY <1>3, <1>4

\* A running store is readable after any save.
LEMMA SaveReadable ==
  ASSUME Readable, NEW table, NEW l \in Limits, NEW R, Effects(table, l, R),
         up', ~failed'
  PROVE  Readable'
<1>1. l \in Nat
  BY ChatHistoryAssumption
<1>2. CASE index' = index
  BY <1>2 DEF Readable
<1>3. CASE index' = [form |-> "split", limit |-> l, revision |-> revision', items |-> details']
  <2>1. index'.limit = l /\ index'.items = details'
    BY <1>3
  <2> QED
    BY <2>1 DEF Readable, Effects
<1> QED
  BY <1>2, <1>3 DEF Effects

\* An operation of a running store, which changes the table to table and saves.
LEMMA OperationSaves ==
  ASSUME IInv, IInv', Readable,
         NEW table, NEW l, NEW W, NEW R, Operation(table, l, W, R)
  PROVE  /\ Readable'
         /\ up /\ up' /\ ~failed /\ ~failed'
         /\ details' = [id \in EntryIds |-> details'[id]]
         /\ \A id \in EntryIds : details'[id] \in {table[id], NoEntry}
         /\ Durable!Save
<1>1. /\ table \in Table /\ l \in Limits
      /\ W \in SUBSET Ids(table) /\ R \in SUBSET (EntryIds \ Ids(table))
      /\ \A id \in Ids(table) \ W : files[id] = table[id]
      /\ Commit(table, l, W, R)
      /\ up /\ ~failed /\ up' = up /\ failed' = failed
  BY DEF Operation
<1>2. TypeOK /\ TypeOK'
  BY DEF IInv, Base
<1>3. files \in Table
  BY <1>2 DEF TypeOK
<1>4. Effects(table, l, R)
  BY <1>1, <1>3, CommitEffects
<1>5. details' = [id \in EntryIds |-> details'[id]]
  BY <1>2 DEF TypeOK, Table
<1>6. Durable!Save
  BY <1>1, <1>2, <1>4, SaveIsDurable
<1>7. Readable'
  BY <1>1, <1>4, SaveReadable
<1>8. \A id \in EntryIds : details'[id] \in {table[id], NoEntry}
  BY <1>4 DEF Effects
<1> QED
  BY <1>1, <1>5, <1>6, <1>7, <1>8

\* An operation that puts one entry in is a Put.
LEMMA PutsDurably ==
  ASSUME IInv, IInv', Readable,
         NEW table, NEW l, NEW W, NEW R, Operation(table, l, W, R),
         NEW id \in EntryIds,
         \A i \in EntryIds \ {id} : table[i] = details[i],
         details[id] = NoEntry => id \notin used,
         used' = used \union {id}
  PROVE  Durable!Put(id) /\ Readable'
<1>1. /\ Readable'
      /\ up /\ up' /\ ~failed /\ ~failed'
      /\ details' = [i \in EntryIds |-> details'[i]]
      /\ \A i \in EntryIds : details'[i] \in {table[i], NoEntry}
      /\ Durable!Save
  BY OperationSaves
<1>2. \A i \in EntryIds \ {id} : details'[i] \in {details[i], NoEntry}
  BY <1>1
<1>3. Durable!Operate(EntryIds \ {id})
  BY <1>1, <1>2 DEF Durable!Operate
<1> QED
  BY <1>1, <1>3 DEF Durable!Put

\* One that only leaves entries out is a Drop.
LEMMA DropsDurably ==
  ASSUME IInv, IInv', Readable,
         NEW table, NEW l, NEW W, NEW R, Operation(table, l, W, R),
         \A id \in EntryIds : table[id] \in {details[id], NoEntry},
         used' = used
  PROVE  Durable!Drop /\ Readable'
<1>1. /\ Readable'
      /\ up /\ up' /\ ~failed /\ ~failed'
      /\ details' = [id \in EntryIds |-> details'[id]]
      /\ \A id \in EntryIds : details'[id] \in {table[id], NoEntry}
      /\ Durable!Save
  BY OperationSaves
<1>2. \A id \in EntryIds : details'[id] \in {details[id], NoEntry}
  BY <1>1
<1>3. Durable!Operate(EntryIds)
  BY <1>1, <1>2 DEF Durable!Operate
<1> QED
  BY <1>1, <1>3 DEF Durable!Drop

\* What the steps of the table are about is left as it is.
Unseen == UNCHANGED <<up, failed, details, index, files, saved, used>>

\* Such a step is a stutter of the table.
LEMMA UnseenStutters ==
  ASSUME Readable, Unseen
  PROVE  Readable' /\ UNCHANGED Durable!tableVars
<1>1. Readable'
  BY DEF Readable, Unseen
<1>2. UNCHANGED Durable!tableVars
  BY DEF Unseen, Durable!tableVars, Stored
<1> QED
  BY <1>1, <1>2

\* A session puts an entry in, replaces its own, or only moves on.
LEMMA SessionIsDurable ==
  ASSUME IInv, IInv', Readable, NEW r \in Requests, SessionStep(r)
  PROVE  Readable' /\ ((\E id \in EntryIds : Durable!Put(id)) \/ UNCHANGED Durable!tableVars)
<1>0. Base
  BY DEF IInv
<1>1. ASSUME up, ~failed, NEW id \in EntryIds, Start(r, id),
             torn' = FALSE, UNCHANGED <<up, failed, gone, cut, poll>>
      PROVE  Durable!Put(id) /\ Readable'
  <2>1. id \in EntryIds \ used /\ used' = used \union {id}
    BY <1>1 DEF Start
  <2>2. PICK table \in Table :
          /\ Operation(table, limit, dirty \union {id}, deleted \ {id})
          /\ \A i \in EntryIds \ {id} : table[i] = details[i]
          /\ table[id] # NoEntry
          /\ table[id].owner = r
    BY <1>0, <1>1, StartOperation
  <2> QED
    BY <2>1, <2>2, PutsDurably
<1>2. ASSUME NEW id \in EntryIds \intersect used, details[id] # NoEntry,
             up, ~failed, NEW last \in BOOLEAN, Update(id, last),
             torn' = FALSE, UNCHANGED <<up, failed, gone, cut, poll, used>>
      PROVE  Durable!Put(id) /\ Readable'
  <2>1. PICK table \in Table :
          /\ Operation(table, limit, dirty \union {id}, deleted \ {id})
          /\ \A i \in EntryIds \ {id} : table[i] = details[i]
    BY <1>0, <1>2, UpdateOperation
  <2>2. used' = used \union {id}
    BY <1>2
  <2> QED
    BY <1>2, <2>1, <2>2, PutsDurably
<1>3. ASSUME Unseen
      PROVE  Readable' /\ UNCHANGED Durable!tableVars
  BY <1>3, UnseenStutters
<1>4. CASE Begin(r)
  <2>1. PICK id \in EntryIds : Start(r, id)
    BY <1>4 DEF Begin
  <2>2. up /\ ~failed /\ torn' = FALSE /\ UNCHANGED <<up, failed, gone, cut, poll>>
    BY <1>4 DEF Begin
  <2> QED
    BY <1>1, <2>1, <2>2
<1>5. CASE BeginUnrecorded(r)
  <2>1. Unseen
    BY <1>5 DEF BeginUnrecorded, Unseen, memVars, diskVars
  <2> QED
    BY <1>3, <2>1
<1>6. ASSUME NEW last \in BOOLEAN, Persist(r, last)
      PROVE  Readable' /\ ((\E id \in EntryIds : Durable!Put(id)) \/ UNCHANGED Durable!tableVars)
  <2>1. up /\ ~failed /\ session[r].id \in EntryIds \intersect used
    BY <1>0, <1>6, LiveSession DEF Persist, Live
  <2>2. CASE details[session[r].id] # NoEntry
    <3>1. /\ Update(session[r].id, last) /\ torn' = FALSE
          /\ UNCHANGED <<up, failed, gone, cut, poll, used>>
      BY <1>6, <2>2 DEF Persist
    <3> QED
      BY <1>2, <2>1, <2>2, <3>1
  <2>3. CASE details[session[r].id] = NoEntry
    <3>1. Unseen
      BY <1>6, <2>3 DEF Persist, Unseen, memVars, diskVars
    <3> QED
      BY <1>3, <3>1
  <2> QED
    BY <2>2, <2>3
<1>7. CASE Recreate(r)
  <2>1. up /\ ~failed
    BY <1>0, <1>7, LiveSession DEF Recreate, Live
  <2>2. CASE limit = 0
    <3>1. Unseen
      BY <1>7, <2>2 DEF Recreate, Unseen, memVars, diskVars
    <3> QED
      BY <1>3, <3>1
  <2>3. CASE limit # 0
    <3>1. PICK id \in EntryIds : Start(r, id)
      BY <1>7, <2>3 DEF Recreate
    <3>2. torn' = FALSE /\ UNCHANGED <<up, failed, gone, cut, poll>>
      BY <1>7, <2>3 DEF Recreate
    <3> QED
      BY <1>1, <2>1, <3>1, <3>2
  <2> QED
    BY <2>2, <2>3
<1>8. CASE PersistAgain(r)
  <2>1. /\ up /\ ~failed /\ session[r].id \in EntryIds \intersect used
        /\ session[r].last \in BOOLEAN
    BY <1>0, <1>8, LiveSession DEF PersistAgain, Live
  <2>2. CASE details[session[r].id] # NoEntry
    <3>1. /\ Update(session[r].id, session[r].last) /\ torn' = FALSE
          /\ UNCHANGED <<up, failed, gone, cut, poll, used>>
      BY <1>8, <2>2 DEF PersistAgain
    <3> QED
      BY <1>2, <2>1, <2>2, <3>1
  <2>3. CASE details[session[r].id] = NoEntry
    <3>1. Unseen
      BY <1>8, <2>3 DEF PersistAgain, Unseen, memVars, diskVars
    <3> QED
      BY <1>3, <3>1
  <2> QED
    BY <2>2, <2>3
<1> QED
  BY <1>4, <1>5, <1>6, <1>7, <1>8 DEF SessionStep

\* The administrator's steps drop entries or do not show.
LEMMA AdminIsDurable ==
  ASSUME IInv, IInv', Readable, AdminStep
  PROVE  Readable' /\ (Durable!Drop \/ UNCHANGED Durable!tableVars)
<1>0. Base
  BY DEF IInv
<1>1. ASSUME NEW id \in EntryIds, Delete(id)
      PROVE  Durable!Drop /\ Readable'
  <2>1. PICK table \in Table :
          /\ Operation(table, limit, dirty \ {id}, deleted \union {id})
          /\ \A i \in EntryIds : table[i] \in {details[i], NoEntry}
    BY <1>0, <1>1, DeleteOperation
  <2>2. used' = used
    BY <1>1 DEF Delete
  <2> QED
    BY <2>1, <2>2, DropsDurably
<1>2. CASE Clear
  <2>1. Operation(Empty, limit, {}, deleted \union Ids(details))
    BY <1>0, <1>2, ClearOperation
  <2>2. used' = used /\ \A id \in EntryIds : Empty[id] \in {details[id], NoEntry}
    BY <1>2 DEF Clear, Empty
  <2> QED
    BY <2>1, <2>2, DropsDurably
<1>3. ASSUME NEW l \in Limits, SetLimit(l)
      PROVE  Durable!Drop /\ Readable'
  <2>1. Operation(details, l, dirty, deleted)
    BY <1>0, <1>3, SetLimitOperation
  <2>2. used' = used /\ \A id \in EntryIds : details[id] \in {details[id], NoEntry}
    BY <1>3 DEF SetLimit
  <2> QED
    BY <2>1, <2>2, DropsDurably
<1>4. CASE Poll
  <2>1. Unseen
    BY <1>4 DEF Poll, Unseen, memVars, diskVars
  <2> QED
    BY <2>1, UnseenStutters
<1> QED
  BY <1>1, <1>2, <1>3, <1>4 DEF AdminStep

\* The program's are a crash, a start, or a start that is refused.
LEMMA ProgramIsDurable ==
  ASSUME IInv, IInv', Readable, ProgramStep
  PROVE  Readable' /\ (Durable!Crash \/ Durable!Start \/ Durable!Refuse)
<1>0. Base /\ TypeOK /\ TypeOK'
  BY DEF IInv, Base
<1>1. index.limit \in Limits /\ index.limit \in Nat
  BY <1>0, ChatHistoryAssumption DEF TypeOK, Index
<1>2. CASE Crash
  <2>1. /\ up /\ up' = FALSE /\ failed' = FALSE /\ details' = Empty
        /\ UNCHANGED <<index, files, saved, used>>
    BY <1>2 DEF Crash, diskVars
  <2>2. Stored' = Stored
    BY <2>1 DEF Stored
  <2>3. Durable!Crash
    BY <2>1, <2>2 DEF Durable!Crash, Durable!Nothing, Empty
  <2>4. ASSUME saved, index.form = "split", NEW id \in Ids(index.items)
        PROVE  files[id] # NoEntry
    <3>1. ~failed
      BY <2>4 DEF Readable
    <3>2. /\ dirty = {} /\ index.items = details
          /\ \A i \in Ids(details) \ dirty : files[i] = details[i]
      BY <1>0, <2>1, <2>4, <3>1 DEF Base, PendingCoversDisk
    <3> QED
      BY <2>4, <3>2 DEF Ids
  <2>5. Readable'
    BY <2>1, <2>4 DEF Readable
  <2> QED
    BY <2>3, <2>5
<1>3. CASE LoadNew
  <2>1. Effects(index.items, index.limit, {})
    BY <1>0, <1>3, LoadNewEffects
  <2>2. ~up /\ up' = TRUE /\ index.form # "split" /\ UNCHANGED <<failed, used>>
    BY <1>3 DEF LoadNew
  <2>3. ~failed /\ ~failed'
    BY <1>0, <2>2 DEF Base, Restart
  <2>4. Durable!Save
    BY <1>0, <1>1, <2>1, SaveIsDurable
  <2>5. Stored = index.items
    BY <1>0, <2>2, StoredFacts
  <2>6. /\ details' = [id \in EntryIds |-> details'[id]]
        /\ \A id \in EntryIds : details'[id] \in {Stored[id], NoEntry}
    BY <1>0, <2>1, <2>5 DEF Effects, TypeOK, Table
  <2>7. Durable!Start
    BY <2>2, <2>3, <2>4, <2>6 DEF Durable!Start
  <2>8. Readable'
    BY <1>1, <2>1, <2>2, <2>3, SaveReadable
  <2> QED
    BY <2>7, <2>8
<1>4. CASE LoadSplit
  <2>1. PICK table : table = Only(files, Ids(index.items))
    OBVIOUS
  <2>2. Ids(table) = Ids(index.items) /\ Effects(table, index.limit, {})
    BY <1>0, <1>4, <2>1, LoadSplitEffects
  <2>3. ~up /\ up' = TRUE /\ index.form = "split" /\ UNCHANGED <<failed, used>>
    BY <1>4 DEF LoadSplit
  <2>4. ~failed /\ ~failed'
    BY <1>0, <2>3 DEF Base, Restart
  <2>5. Durable!Save
    BY <1>0, <1>1, <2>2, SaveIsDurable
  <2>6. index.limit = 0 \/ Cardinality(Ids(table)) <= index.limit
    BY <1>1, <2>2, <2>3 DEF Readable
  <2>7. details' = table
    BY <2>2, <2>6 DEF Effects
  <2>8. details' = Stored
    BY <2>1, <2>3, <2>7 DEF Stored
  <2>9. Durable!Start
    BY <2>3, <2>4, <2>5, <2>8 DEF Durable!Start
  <2>10. Readable'
    BY <1>1, <2>2, <2>3, <2>4, SaveReadable
  <2> QED
    BY <2>9, <2>10
<1>5. CASE LoadFails
  <2>1. /\ ~up /\ up' = TRUE /\ failed' = TRUE
        /\ UNCHANGED <<details, index, files, saved, used>>
        /\ index.form = "split"
        /\ \E id \in Ids(index.items) : files[id] = NoEntry
    BY <1>5 DEF LoadFails, diskVars
  <2>2. ~saved
    BY <2>1 DEF Readable
  <2>3. Stored' = Stored
    BY <2>1 DEF Stored
  <2>4. Durable!Refuse
    BY <2>1, <2>2, <2>3 DEF Durable!Refuse
  <2>5. Readable'
    BY <2>1, <2>2 DEF Readable
  <2> QED
    BY <2>4, <2>5
<1> QED
  BY <1>2, <1>3, <1>4, <1>5 DEF ProgramStep

LEMMA InitReadable == Init => Readable
<1> SUFFICES ASSUME Init PROVE Readable
  OBVIOUS
<1>1. index.form # "split"
  BY DEF Init, NoIndex
<1>2. ~failed
  BY DEF Init
<1> QED
  BY <1>1, <1>2 DEF Readable

LEMMA InitIsDurable == Init => Durable!Init
<1> SUFFICES ASSUME Init PROVE Durable!Init
  OBVIOUS
<1>1. TypeOK
  BY InitIInv DEF IInv, Base
<1>2. index.form # "split" /\ Stored = index.items /\ Stored = [id \in EntryIds |-> Stored[id]]
  BY <1>1, StoredFacts DEF Init, NoIndex
<1>3. used = Ids(index.items)
  <2>1. used \subseteq EntryIds /\ OldEntry # NoEntry
    <3>1. OldEntry \in Entry
      BY DEF OldEntry, Entry
    <3> QED
      BY <3>1, NoEntryAssumption DEF Init
  <2>2. CASE used = {}
    BY <2>2 DEF Init, NoIndex, Ids, Empty
  <2>3. CASE used # {}
    BY <2>1, <2>3 DEF Init, NoIndex, Ids
  <2> QED
    BY <2>2, <2>3
<1>4. used = Durable!Used(Stored)
  BY <1>2, <1>3 DEF Durable!Used, Ids
<1>5. ~up /\ details = Durable!Nothing /\ saved = TRUE
  BY DEF Init, Durable!Nothing, Empty
<1> QED
  BY <1>2, <1>4, <1>5 DEF Durable!Init

(***************************************************************************)
(* The detailed store keeps the promise of the abstract one, for any       *)
(* entries, requests and limits: every step of the program is a step of a  *)
(* durable table or leaves it alone (saveLocked, loadLocked and every      *)
(* operation of Store).                                                    *)
(***************************************************************************)
THEOREM DurableCorrect == Spec => IsDurable
<1>1. Init => IInv /\ Readable /\ Durable!Init
  BY InitIInv, InitReadable, InitIsDurable
<1>2. IInv /\ Readable /\ [Next]_vars =>
        IInv' /\ Readable' /\ [Durable!Next]_(Durable!tableVars)
  <2> SUFFICES ASSUME IInv, Readable, [Next]_vars
               PROVE  IInv' /\ Readable' /\ (Durable!Next \/ UNCHANGED Durable!tableVars)
    OBVIOUS
  <2>1. IInv'
    BY NextIInv
  <2>2. CASE UNCHANGED vars
    <3>1. Unseen
      BY <2>2 DEF vars, memVars, diskVars, Unseen
    <3> QED
      BY <2>1, <3>1, UnseenStutters
  <2>3. CASE \E r \in Requests : SessionStep(r)
    BY <2>1, <2>3, SessionIsDurable DEF Durable!Next
  <2>4. CASE AdminStep
    BY <2>1, <2>4, AdminIsDurable DEF Durable!Next
  <2>5. CASE ProgramStep
    BY <2>1, <2>5, ProgramIsDurable DEF Durable!Next
  <2> QED
    BY <2>2, <2>3, <2>4, <2>5 DEF Next
<1> QED
  BY <1>1, <1>2, PTL DEF Spec, IsDurable, Durable!Spec
=============================================================================
