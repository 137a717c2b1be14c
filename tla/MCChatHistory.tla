--------------------------- MODULE MCChatHistory ---------------------------
(***************************************************************************)
(* Instances of ChatHistory for TLC.                                       *)
(***************************************************************************)
EXTENDS ChatHistory, TLC

CONSTANTS e1, e2, e3, r1, r2

Symmetry == Permutations(EntryIds) \union Permutations(Requests)
=============================================================================
