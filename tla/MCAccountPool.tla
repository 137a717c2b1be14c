--------------------------- MODULE MCAccountPool ---------------------------
(***************************************************************************)
(* Instances of AccountPool for TLC.                                       *)
(***************************************************************************)
EXTENDS AccountPool

CONSTANTS a1, a2, a3, r1, r2, r3, r4

TwoAccounts == <<a1, a2>>

\* More requests than slots: one, two or three slots, and two may wait.
Scarce == {[perAccount |-> 1, queue |-> 2, global |-> 1],
           [perAccount |-> 1, queue |-> 2, global |-> 0],
           [perAccount |-> 2, queue |-> 2, global |-> 3]}
\* A queue of one; a global limit below the sum of the account limits.
Tight == {[perAccount |-> 1, queue |-> 1, global |-> 0],
          [perAccount |-> 2, queue |-> 2, global |-> 3]}

Symmetry == Permutations(Requests)
=============================================================================
