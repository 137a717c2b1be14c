---------------------------- MODULE ChatHistory ----------------------------
(***************************************************************************)
(* The chat history store of internal/chathistory, on disk and in memory,  *)
(* with the sessions through which chat requests record themselves         *)
(* (internal/httpapi/openai/chat/chat_history.go) and the administration   *)
(* requests that list, delete, clear and limit it.                         *)
(*                                                                         *)
(* Every operation holds Store.mu from its first statement to the end of   *)
(* its save, so it is one action.  A save that fails at any of its file    *)
(* operations leaves the ones before it done; a crash in the middle of a   *)
(* save is such a failure followed by Crash.  The index and each detail    *)
(* file are replaced by a rename, never written in place.                  *)
(*                                                                         *)
(* An entry is reduced to its revision, its times, whether its request is  *)
(* still recorded as running, and the request it belongs to.  A clock that *)
(* never goes back gives the revisions (nanoseconds) and the times         *)
(* (milliseconds, so that entries may tie).                                *)
(***************************************************************************)
EXTENDS Naturals, FiniteSets

CONSTANTS
  EntryIds,     \* entry identifiers; a new entry takes one never used before
  NoEntry,      \* no such entry, no such file
  Requests,     \* chat requests
  Limits,       \* the limits an administrator may set; 0 disables recording
  DefaultLimit, \* the limit of a new store
  TicksPerMilli,
  MaxClock      \* bound: clock readings in a behaviour

ASSUME ChatHistoryAssumption ==
  /\ IsFiniteSet(EntryIds)
  /\ IsFiniteSet(Requests)
  /\ NoEntry \notin EntryIds \union Requests
  /\ Limits \subseteq Nat
  /\ DefaultLimit \in Limits \ {0}
  /\ TicksPerMilli \in Nat \ {0}
  /\ MaxClock \in Nat

Entry == [revision: Nat, created: Nat, updated: Nat, running: BOOLEAN,
          owner: Requests \union {NoEntry}]
Table == [EntryIds -> Entry \union {NoEntry}]

ASSUME NoEntryAssumption == NoEntry \notin Entry

Empty == [id \in EntryIds |-> NoEntry]

\* The identifiers that a table has an entry for.
Ids(table) == {id \in EntryIds : table[id] # NoEntry}

\* The part of a table that concerns the identifiers in S.
Only(table, S) == [id \in EntryIds |-> IF id \in S THEN table[id] ELSE NoEntry]

VARIABLES
  up,       \* the program runs
  failed,   \* Store.err is set
  limit,    \* Store.state.Limit
  revision, \* Store.state.Revision
  details,  \* Store.details, which Store.state.Items always summarises
  dirty,    \* details to be written
  deleted,  \* details to be removed
  index,    \* the index file: its form and what it says
  files,    \* the detail files
  session,  \* the chatHistorySession of each request
  clock,
  used,     \* history: identifiers ever created
  saved,    \* history: the last save was complete
  torn,     \* history: the store was loaded after an incomplete save
  gone,     \* history: entries whose deletion was reported as done
  cut,      \* history: entries whose request a crash interrupted
  poll      \* the list an administrator's page shows, with its ETag

memVars  == <<failed, limit, revision, details, dirty, deleted>>
diskVars == <<index, files>>
vars == <<up, memVars, diskVars, session, clock, used, saved, torn, gone, cut, poll>>

Session == [stage: {"new", "open", "missing", "recreated", "over"},
            id: EntryIds \union {NoEntry}, last: BOOLEAN]
Index   == [form: {"absent", "legacy", "split"}, limit: Limits, revision: Nat,
            items: Table]

TypeOK ==
  /\ up \in BOOLEAN
  /\ failed \in BOOLEAN
  /\ limit \in Limits
  /\ revision \in Nat
  /\ details \in Table
  /\ dirty \subseteq Ids(details)
  /\ deleted \subseteq EntryIds \ Ids(details)
  /\ index \in Index
  /\ files \in Table
  /\ session \in [Requests -> Session]
  /\ clock \in Nat
  /\ used \subseteq EntryIds
  /\ saved \in BOOLEAN
  /\ torn \in BOOLEAN
  /\ gone \subseteq used
  /\ cut \subseteq used
  /\ poll \in [etag: Nat, list: Table]

NoIndex == [form |-> "absent", limit |-> DefaultLimit, revision |-> 0, items |-> Empty]

OldEntry == [revision |-> 1, created |-> 0, updated |-> 0, running |-> FALSE,
             owner |-> NoEntry]

\* The program is about to start, with no history or with that of an older
\* version, which kept whole entries in the index.
Init ==
  /\ up = FALSE
  /\ failed = FALSE
  /\ limit = DefaultLimit
  /\ revision = 0
  /\ details = Empty
  /\ dirty = {}
  /\ deleted = {}
  /\ files = Empty
  /\ used \in SUBSET EntryIds
  /\ index = IF used = {} THEN NoIndex
             ELSE [NoIndex EXCEPT !.form = "legacy",
                     !.items = [id \in EntryIds |->
                       IF id \in used THEN OldEntry ELSE NoEntry]]
  /\ session = [r \in Requests |-> [stage |-> "new", id |-> NoEntry, last |-> FALSE]]
  /\ clock = 1
  /\ saved = TRUE
  /\ torn = FALSE
  /\ gone = {}
  /\ cut = {}
  /\ poll = [etag |-> 0, list |-> Empty]

-----------------------------------------------------------------------------
(***************************************************************************)
(* The helpers that run under the lock.                                    *)
(***************************************************************************)

\* rebuildIndexLocked sorts by updated, then created, both descending; what
\* ties in both is in any order.
Newer(a, b) ==
  \/ a.updated > b.updated
  \/ a.updated = b.updated /\ a.created > b.created

\* The sets of entries that it may keep of a table under limit l.
Kept(table, l) ==
  IF l = 0 \/ Cardinality(Ids(table)) <= l
  THEN {Ids(table)}
  ELSE {K \in SUBSET Ids(table) :
          /\ Cardinality(K) = l
          /\ \A id \in K, other \in Ids(table) \ K : ~Newer(table[other], table[id])}

\* The detail files once some were removed and some written.
FilesAfter(removed, written) ==
  [id \in EntryIds |-> IF id \in removed THEN NoEntry
                       ELSE IF id \in written THEN details'[id] ELSE files[id]]

\* saveLocked removes the deleted details, writes the dirty ones, then writes
\* the index; only then is nothing pending any more.
SaveCompletes(toRemove, toWrite) ==
  /\ files' = FilesAfter(toRemove, toWrite)
  /\ index' = [form |-> "split", limit |-> limit', revision |-> revision',
               items |-> details']
  /\ dirty' = {}
  /\ deleted' = {}
  /\ saved' = TRUE

\* Mutant: what was pending is forgotten.
SaveStops_Forgets(toRemove, toWrite) ==
  /\ \E removed \in SUBSET toRemove, written \in SUBSET toWrite :
       /\ written # {} => removed = toRemove
       /\ files' = FilesAfter(removed, written)
  /\ dirty' = {}
  /\ deleted' = {}
  /\ UNCHANGED index
  /\ saved' = FALSE

\* One of its file operations fails: those before it are done.
SaveStops(toRemove, toWrite) ==
  /\ \E removed \in SUBSET toRemove, written \in SUBSET toWrite :
       /\ written # {} => removed = toRemove
       /\ files' = FilesAfter(removed, written)
  /\ dirty' = toWrite
  /\ deleted' = toRemove
  /\ UNCHANGED index
  /\ saved' = FALSE

\* Memory becomes this table, trimmed to limit l, with changes pending, and is
\* saved; the operation returns an error iff not saved'.
Commit(table, l, toWrite, toRemove) ==
  \E K \in Kept(table, l) :
    LET evicted == Ids(table) \ K
    IN  /\ details' = Only(table, K)
        /\ limit' = l
        /\ \/ SaveCompletes(toRemove \union evicted, toWrite \ evicted)
           \/ SaveStops(toRemove \union evicted, toWrite \ evicted)

\* nextRevisionLocked, and the time of the operation.
Tick ==
  /\ clock < MaxClock
  /\ clock' = clock + 1
  /\ revision' = clock'

Millis == clock' \div TicksPerMilli

-----------------------------------------------------------------------------
(***************************************************************************)
(* Start, Update and the chatHistorySession that calls them.               *)
(***************************************************************************)

\* Store.Start for request r; the entry may be evicted at once.
Start(r, id) ==
  /\ id \in EntryIds \ used
  /\ used' = used \union {id}
  /\ Tick
  /\ Commit([details EXCEPT ![id] =
               [revision |-> clock', created |-> Millis, updated |-> Millis,
                running |-> TRUE, owner |-> r]],
            limit, dirty \union {id}, deleted \ {id})

\* An entry after an update; last is UpdateParams.Completed.
Updated(entry, last) ==
  [entry EXCEPT !.revision = clock', !.updated = Millis, !.running = ~last /\ @]

\* Store.Update of an entry that is there.
Update(id, last) ==
  /\ Tick
  /\ Commit([details EXCEPT ![id] = Updated(@, last)],
            limit, dirty \union {id}, deleted \ {id})

SetSession(r, stage, id, last) ==
  session' = [session EXCEPT ![r] = [stage |-> stage, id |-> id, last |-> last]]

\* startChatHistory: the session goes on although the save failed.
Begin(r) ==
  /\ up /\ ~failed /\ limit # 0
  /\ session[r].stage = "new"
  /\ \E id \in EntryIds :
       /\ Start(r, id)
       /\ SetSession(r, "open", id, FALSE)
  /\ torn' = FALSE
  /\ UNCHANGED <<up, failed, gone, cut, poll>>

\* The store is disabled or failed: the request is not recorded.
BeginUnrecorded(r) ==
  /\ up /\ (failed \/ limit = 0)
  /\ session[r].stage = "new"
  /\ SetSession(r, "over", NoEntry, FALSE)
  /\ UNCHANGED <<up, memVars, diskVars, clock, used, saved, torn, gone, cut, poll>>

AfterUpdate(last) == IF last THEN "over" ELSE "open"

\* Mutant: a failed save is taken for a missing entry.
Persist_AnyError(r, last) ==
  /\ up
  /\ session[r].stage = "open"
  /\ LET id == session[r].id
     IN  IF details[id] # NoEntry
         THEN /\ Update(id, last)
              /\ SetSession(r, IF saved' THEN AfterUpdate(last) ELSE "missing", id, last)
              /\ torn' = FALSE
              /\ UNCHANGED used
         ELSE /\ SetSession(r, "missing", id, last)
              /\ UNCHANGED <<memVars, diskVars, clock, used, saved, torn>>
  /\ UNCHANGED <<up, failed, gone, cut, poll>>

\* persistUpdate: progress while the request runs, then success, error or
\* stopped.  A failed save is only logged.
Persist(r, last) ==
  /\ up
  /\ session[r].stage = "open"
  /\ LET id == session[r].id
     IN  IF details[id] # NoEntry
         THEN /\ Update(id, last)
              /\ SetSession(r, AfterUpdate(last), id, FALSE)
              /\ torn' = FALSE
              /\ UNCHANGED used
         ELSE /\ SetSession(r, "missing", id, last)
              /\ UNCHANGED <<memVars, diskVars, clock, used, saved, torn>>
  /\ UNCHANGED <<up, failed, gone, cut, poll>>

\* retryMissingEntry: the entry was deleted or evicted, so it starts another.
Recreate(r) ==
  /\ up
  /\ session[r].stage = "missing"
  /\ IF limit = 0
     THEN /\ SetSession(r, "over", session[r].id, FALSE)
          /\ UNCHANGED <<memVars, diskVars, clock, used, saved, torn>>
     ELSE /\ \E id \in EntryIds :
               /\ Start(r, id)
               /\ SetSession(r, "recreated", id, session[r].last)
          /\ torn' = FALSE
  /\ UNCHANGED <<up, failed, gone, cut, poll>>

\* Mutant: the second update has lost its parameters.
PersistAgain_Progress(r) ==
  /\ up
  /\ session[r].stage = "recreated"
  /\ LET id == session[r].id
     IN  IF details[id] # NoEntry
         THEN /\ Update(id, FALSE)
              /\ SetSession(r, AfterUpdate(session[r].last), id, FALSE)
              /\ torn' = FALSE
         ELSE /\ SetSession(r, "over", id, FALSE)
              /\ UNCHANGED <<memVars, diskVars, clock, saved, torn>>
  /\ UNCHANGED <<up, failed, used, gone, cut, poll>>

\* The update again; an entry that is gone once more ends the recording.
PersistAgain(r) ==
  /\ up
  /\ session[r].stage = "recreated"
  /\ LET id == session[r].id
     IN  IF details[id] # NoEntry
         THEN /\ Update(id, session[r].last)
              /\ SetSession(r, AfterUpdate(session[r].last), id, FALSE)
              /\ torn' = FALSE
         ELSE /\ SetSession(r, "over", id, FALSE)
              /\ UNCHANGED <<memVars, diskVars, clock, saved, torn>>
  /\ UNCHANGED <<up, failed, used, gone, cut, poll>>

-----------------------------------------------------------------------------
(***************************************************************************)
(* The administrator.                                                      *)
(***************************************************************************)

\* Mutant: the list keeps its revision.
Delete_SameRevision(id) ==
  /\ up /\ ~failed
  /\ details[id] # NoEntry
  /\ clock < MaxClock
  /\ clock' = clock + 1
  /\ UNCHANGED revision
  /\ Commit([details EXCEPT ![id] = NoEntry], limit, dirty \ {id}, deleted \union {id})
  /\ gone' = IF saved' THEN gone \union {id} ELSE gone
  /\ torn' = FALSE
  /\ UNCHANGED <<up, failed, session, used, cut, poll>>

Delete(id) ==
  /\ up /\ ~failed
  /\ details[id] # NoEntry
  /\ Tick
  /\ Commit([details EXCEPT ![id] = NoEntry], limit, dirty \ {id}, deleted \union {id})
  /\ gone' = IF saved' THEN gone \union {id} ELSE gone
  /\ torn' = FALSE
  /\ UNCHANGED <<up, failed, session, used, cut, poll>>

\* Mutant: the detail files are left.
Clear_Unmarked ==
  /\ up /\ ~failed
  /\ Tick
  /\ Commit(Empty, limit, {}, deleted)
  /\ gone' = IF saved' THEN gone \union Ids(details) ELSE gone
  /\ torn' = FALSE
  /\ UNCHANGED <<up, failed, session, used, cut, poll>>

Clear ==
  /\ up /\ ~failed
  /\ Tick
  /\ Commit(Empty, limit, {}, deleted \union Ids(details))
  /\ gone' = IF saved' THEN gone \union Ids(details) ELSE gone
  /\ torn' = FALSE
  /\ UNCHANGED <<up, failed, session, used, cut, poll>>

SetLimit(l) ==
  /\ up /\ ~failed
  /\ Tick
  /\ Commit(details, l, dirty, deleted)
  /\ torn' = FALSE
  /\ UNCHANGED <<up, failed, session, used, gone, cut, poll>>

\* getChatHistory: the list again unless the page's ETag names the revision.
Poll ==
  /\ up /\ ~failed
  /\ poll.etag # revision
  /\ poll' = [etag |-> revision, list |-> details]
  /\ UNCHANGED <<up, memVars, diskVars, session, clock, used, saved, torn, gone, cut>>

-----------------------------------------------------------------------------
(***************************************************************************)
(* The program stops at any time and starts again.                         *)
(***************************************************************************)

Crash ==
  /\ up
  /\ up' = FALSE
  /\ failed' = FALSE
  /\ limit' = DefaultLimit
  /\ revision' = 0
  /\ details' = Empty
  /\ dirty' = {}
  /\ deleted' = {}
  /\ session' = [r \in Requests |->
       [session[r] EXCEPT !.stage = IF @ = "new" THEN @ ELSE "over"]]
  /\ cut' = cut \union {id \in EntryIds : details[id] # NoEntry /\ details[id].running}
                \union {id \in EntryIds : files[id] # NoEntry /\ files[id].running}
  /\ torn' = (torn \/ ~saved)
  /\ UNCHANGED <<diskVars, clock, used, saved, gone, poll>>

\* The highest revision of a table, as a set with one member.
LastRevision(table) ==
  {n \in {0} \union {table[id].revision : id \in Ids(table)} :
     \A id \in Ids(table) : table[id].revision <= n}

\* loadLocked without an index, or with one of the older version.
LoadNew ==
  /\ ~up
  /\ index.form \in {"absent", "legacy"}
  /\ up' = TRUE
  /\ revision' \in LastRevision(index.items)
  /\ Commit(index.items, index.limit, Ids(index.items), {})
  /\ UNCHANGED <<failed, session, clock, used, torn, gone, cut, poll>>

\* loadLocked of a split store.
LoadSplit ==
  /\ ~up
  /\ index.form = "split"
  /\ \A id \in Ids(index.items) : files[id] # NoEntry
  /\ up' = TRUE
  /\ revision' = index.revision
  /\ Commit(Only(files, Ids(index.items)), index.limit, {}, {})
  /\ UNCHANGED <<failed, session, clock, used, torn, gone, cut, poll>>

\* A detail file is missing: the store refuses every call from now on.
LoadFails ==
  /\ ~up
  /\ index.form = "split"
  /\ \E id \in Ids(index.items) : files[id] = NoEntry
  /\ up' = TRUE
  /\ failed' = TRUE
  /\ limit' = index.limit
  /\ revision' = index.revision
  /\ UNCHANGED <<details, dirty, deleted, diskVars, session, clock, used, saved,
                 torn, gone, cut, poll>>

-----------------------------------------------------------------------------
SessionStep(r) ==
  \/ Begin(r)
  \/ BeginUnrecorded(r)
  \/ \E last \in BOOLEAN : Persist(r, last)
  \/ Recreate(r)
  \/ PersistAgain(r)

AdminStep ==
  \/ \E id \in EntryIds : Delete(id)
  \/ Clear
  \/ \E l \in Limits : SetLimit(l)
  \/ Poll

ProgramStep == Crash \/ LoadNew \/ LoadSplit \/ LoadFails

Next == (\E r \in Requests : SessionStep(r)) \/ AdminStep \/ ProgramStep

Spec == Init /\ [][Next]_vars

-----------------------------------------------------------------------------
(***************************************************************************)
(* Properties.                                                             *)
(***************************************************************************)

(***************************************************************************)
(* Whatever saves failed, every difference between memory and disk is      *)
(* still pending, so that the next save that completes repairs it: an      *)
(* entry that is not dirty is on disk as it is in memory, and after a      *)
(* complete save so are the index, its limit and its revision.             *)
(***************************************************************************)
PendingCoversDisk ==
  up /\ ~failed =>
    /\ \A id \in Ids(details) \ dirty : files[id] = details[id]
    /\ saved => /\ dirty = {} /\ deleted = {}
                /\ index = [form |-> "split", limit |-> limit,
                            revision |-> revision, items |-> details]

(***************************************************************************)
(* Once a deletion was reported as done, no failed save, crash or restart  *)
(* brings the entry back, and nothing of it is left on disk.               *)
(***************************************************************************)
DeletedStaysDeleted ==
  gone \intersect (Ids(details) \union Ids(files) \union Ids(index.items)) = {}

(***************************************************************************)
(* A request is listed at most once, though its entry may be deleted or    *)
(* evicted while it runs and be created again.                             *)
(***************************************************************************)
OneEntryPerRequest ==
  \A id1, id2 \in Ids(details) :
    details[id1].owner = details[id2].owner /\ details[id1].owner # NoEntry => id1 = id2

(***************************************************************************)
(* An entry says that its request runs only while it does: the request     *)
(* will complete it, unless a crash interrupted it.                        *)
(***************************************************************************)
RunningEntriesAreLive ==
  \A id \in Ids(details) \ cut :
    details[id].running =>
      \E r \in Requests : session[r].id = id /\ session[r].stage \in {"open", "recreated"}

(***************************************************************************)
(* The administrator's page is told that its list is current (304) only if *)
(* it is: revisions come from the index and entries from their own files,  *)
(* which agree unless the program stopped in the middle of a save.         *)
(***************************************************************************)
NotModifiedIsTrue ==
  up /\ ~failed /\ ~torn /\ poll.etag = revision => poll.list = details

(***************************************************************************)
(* The retention limit that the administrator set holds after every        *)
(* operation, a change of the limit and a restart included.                *)
(***************************************************************************)
RetentionLimit == limit > 0 => Cardinality(Ids(details)) <= limit

(***************************************************************************)
(* What the disk keeps of each entry: the store is read back through its   *)
(* index, each entry from its own file.  An index of the older version     *)
(* holds the entries themselves.                                           *)
(***************************************************************************)
Stored == IF index.form = "split" THEN Only(files, Ids(index.items)) ELSE index.items

Durable == INSTANCE DurableTable WITH
  Keys  <- EntryIds,
  None  <- NoEntry,
  state <- IF ~up THEN "down" ELSE IF failed THEN "refusing" ELSE "up",
  table <- details,
  kept  <- Stored,
  whole <- saved,
  old   <- index.form # "split",
  taken <- used

(***************************************************************************)
(* Whatever saves fail and whenever the program stops, the history keeps   *)
(* the promise of a durable table: what an operation reported as done is   *)
(* what the next start finds, and after a failed save it finds, entry by   *)
(* entry, what was there before or what is there now.                      *)
(***************************************************************************)
IsDurable == Durable!Spec

(***************************************************************************)
(* What the tests say of failed saves: they do not make the store refuse   *)
(* its calls.                                                              *)
(***************************************************************************)
StoreStaysUsable == ~failed
=============================================================================
