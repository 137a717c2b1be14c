--------------------------- MODULE MCChatRequest ---------------------------
(***************************************************************************)
(* Instances of ChatRequest for TLC.                                       *)
(***************************************************************************)
EXTENDS ChatRequest

CONSTANTS a1, a2, a3, r1, r2

OneAccount    == {<<a1>>}
OneOrThree    == {<<a1>>, <<a1, a2, a3>>}

\* With three accounts only one request comes.
OneOfThree == Len(accounts) = 3 => pc'[r2] = "idle"

\* One slot per account, one request may wait.
Single == {[perAccount |-> 1, queue |-> 1, global |-> 0]}
=============================================================================
