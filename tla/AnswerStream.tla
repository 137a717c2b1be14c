---------------------------- MODULE AnswerStream ----------------------------
(***************************************************************************)
(* What a client is promised about the text of one answer: it receives, in *)
(* order and without gaps or repetitions, what the upstream model          *)
(* produced, and an answer that ends as complete has been delivered whole. *)
(* The promise is off once the upstream repeats itself in a way that no    *)
(* text comparison can tell from new text ("garbled").                     *)
(***************************************************************************)
EXTENDS Sequences, SequencesExt

CONSTANT Letters  \* the pieces of text

VARIABLES
  produced,   \* the text the model has written
  delivered,  \* the text the client has received
  phase       \* "open", "complete", "cut" or "garbled"

answerVars == <<produced, delivered, phase>>

TypeOK ==
  /\ produced \in Seq(Letters)
  /\ delivered \in Seq(Letters)
  /\ phase \in {"open", "complete", "cut", "garbled"}

Init ==
  /\ produced = <<>>
  /\ delivered = <<>>
  /\ phase = "open"

\* The model writes on; nobody may be listening any more.
Produce ==
  /\ phase \in {"open", "cut"}
  /\ IsPrefix(produced, produced')
  /\ UNCHANGED <<delivered, phase>>

\* The client receives the next piece of what was produced.
Deliver ==
  /\ phase = "open"
  /\ IsPrefix(delivered, delivered')
  /\ IsPrefix(delivered', produced)
  /\ UNCHANGED <<produced, phase>>

Complete ==
  /\ phase = "open"
  /\ delivered = produced
  /\ phase' = "complete"
  /\ UNCHANGED <<produced, delivered>>

\* A timeout, a refusal, a failure or a disconnected client.
Cut ==
  /\ phase = "open"
  /\ phase' = "cut"
  /\ UNCHANGED <<produced, delivered>>

Garble ==
  /\ phase # "complete"
  /\ phase' = "garbled"

Next == Produce \/ Deliver \/ Complete \/ Cut \/ Garble

Spec == Init /\ [][Next]_answerVars
=============================================================================
