---------------------------- MODULE DurableTable ----------------------------
(***************************************************************************)
(* What a table that survives crashes promises.  The program changes one   *)
(* entry at a time, and may drop others; every change is saved, and a save *)
(* that fails half-way leaves each entry as it was saved before or as it   *)
(* is now, never anything else.  A change that is reported as done has     *)
(* been saved in full.  A start finds what was saved and nothing else, and *)
(* it is refused only after a save that failed.  A key is used once: what  *)
(* was dropped, and saved so, never comes back.                            *)
(***************************************************************************)
CONSTANTS
  Keys,
  None    \* no entry

VARIABLES
  state,  \* "down", "up", or "refusing" every operation
  table,  \* the entries in force
  kept,   \* the entries that a start finds
  whole,  \* the last save was complete
  old,    \* what a start finds was saved by an older version
  taken   \* keys ever used

tableVars == <<state, table, kept, whole, old, taken>>

Nothing == [k \in Keys |-> None]

Used(t) == {k \in Keys : t[k] # None}

Init ==
  /\ state = "down"
  /\ table = Nothing
  /\ kept = [k \in Keys |-> kept[k]]
  /\ whole = TRUE
  /\ old \in BOOLEAN
  /\ taken = Used(kept)

\* The new table is saved, as a whole or in part.
Save ==
  /\ kept' = [k \in Keys |-> kept'[k]]
  /\ \A k \in Keys : kept'[k] \in {kept[k], table'[k]}
  /\ whole' \in BOOLEAN
  /\ whole' => kept' = table' /\ ~old'
  /\ old' \in {old, FALSE}

\* An operation on the entries, those of S at most dropped.
Operate(S) ==
  /\ state = "up"
  /\ table' = [k \in Keys |-> table'[k]]
  /\ \A k \in S : table'[k] \in {table[k], None}
  /\ Save
  /\ UNCHANGED state

\* An entry is replaced, or put in under a key of its own; others may go, and
\* so may a new one at once.
Put(k) ==
  /\ table[k] = None => k \notin taken
  /\ taken' = taken \union {k}
  /\ Operate(Keys \ {k})

Drop == Operate(Keys) /\ UNCHANGED taken

Crash ==
  /\ state # "down"
  /\ state' = "down"
  /\ table' = Nothing
  /\ UNCHANGED <<kept, whole, old, taken>>

\* Only what an older version saved may be too much to be taken over.
Start ==
  /\ state = "down"
  /\ state' = "up"
  /\ IF old
     THEN /\ table' = [k \in Keys |-> table'[k]]
          /\ \A k \in Keys : table'[k] \in {kept[k], None}
     ELSE table' = kept
  /\ Save
  /\ UNCHANGED taken

Refuse ==
  /\ state = "down"
  /\ ~whole
  /\ state' = "refusing"
  /\ UNCHANGED <<table, kept, whole, old, taken>>

Next == (\E k \in Keys : Put(k)) \/ Drop \/ Crash \/ Start \/ Refuse

Spec == Init /\ [][Next]_tableVars
=============================================================================
