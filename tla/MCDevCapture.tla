---------------------------- MODULE MCDevCapture ----------------------------
(***************************************************************************)
(* Instances of DevCapture for TLC.                                        *)
(***************************************************************************)
EXTENDS DevCapture, TLC

CONSTANTS r1, a1, a2

\* A file is uploaded, and a capture's request is answered, continued and retried.
UploadAndRetry == r1 :> 0 @@ a1 :> 2
=============================================================================
