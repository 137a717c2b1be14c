--------------------------- MODULE MCStreamLeases ---------------------------
(***************************************************************************)
(* An instance of StreamLeases for TLC.                                    *)
(***************************************************************************)
EXTENDS StreamLeases, TLC

CONSTANTS i1, i2, r1, r2, f1, f2

MCAccounts == <<i1, i2>>
MCSettings == {[perAccount |-> 1, queue |-> 0, global |-> 0]}
MCMaxAttempts == [k \in Roles |-> IF k \in {"lease", "direct"} THEN 2 ELSE 1]

MCKind == {(r1 :> "files" @@ r2 :> "absent"), (r1 :> "lease" @@ r2 :> "direct"),
           (r1 :> "upload" @@ r2 :> "upload")}
=============================================================================
