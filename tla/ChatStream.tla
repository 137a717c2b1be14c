----------------------------- MODULE ChatStream -----------------------------
(***************************************************************************)
(* One answer on its way from the upstream model to the client.  Three     *)
(* goroutines and a clock share it:                                        *)
(*                                                                         *)
(*   - the continuation pump reads the upstream body line by line, writes  *)
(*     the lines into an io.Pipe, and at the end of a body that is not     *)
(*     finished asks the upstream for a continuation and splices it on;    *)
(*   - the line pump scans the pipe and puts parsed lines into a channel;  *)
(*   - the engine selects among that channel, a ticker and the request's   *)
(*     context, and appends new text to the answer of the client.          *)
(*                                                                         *)
(* A request that does not stream has no line pump: it collects the lines  *)
(* from the pipe itself, without a ticker.  Afterwards the handler closes  *)
(* the pipe and returns, which ends the request's context.                 *)
(***************************************************************************)
EXTENDS Naturals, Sequences, SequencesExt

CONSTANTS
  Modes,        \* "stream", "collect": how the client asked for the answer
  MaxRounds,    \* defaultAutoContinueLimit
  Buffer,       \* parsedLineBufferSize
  SnapshotLen,  \* minContinuationSnapshotLen
  MaxKeepAlive, \* MaxKeepaliveCount
  IdleTicks,    \* StreamIdleTimeout in keep-alive intervals
  MaxAnswer     \* bound: length of an answer

ASSUME ChatStreamAssumption ==
  /\ Modes \subseteq {"stream", "collect"}
  /\ MaxRounds \in Nat
  /\ Buffer \in Nat \ {0}
  /\ SnapshotLen \in Nat \ {0}
  /\ MaxKeepAlive \in Nat \ {0}
  /\ IdleTicks \in Nat
  /\ MaxAnswer \in Nat

VARIABLES
  answer, said,         \* the upstream: its text, what it said of this round
  garbled,              \* history: it repeated text that looks like new text
  cpc, cline, cerr,     \* the continuation pump, its line, how it closed the pipe
  state, rounds, hadDone, \* what it has observed
  ppc, pline, buffer,   \* the line pump, its line, the channel
  mode, reason,         \* the consumer, and why it ended ("none": it has not)
  text, stopped,        \* the text delivered, and the line that stopped it
  scanErr,              \* the error that ended the lines
  hasContent, keepalives, age, tickDue, \* the engine's timers
  closed, ctxDone       \* the body was closed; the request's context is done

upstreamVars == <<answer, said, garbled>>
continueVars == <<cpc, cline, cerr, state, rounds, hadDone>>
pumpVars     == <<ppc, pline, buffer>>
timerVars    == <<hasContent, keepalives, age, tickDue>>
engineVars   == <<mode, reason, text, stopped, scanErr, timerVars>>
handlerVars  == <<closed, ctxDone>>
vars == <<upstreamVars, continueVars, pumpVars, engineVars, handlerVars>>

Piece  == 1..MaxAnswer  \* the pieces of text, told apart by their places
Status == {"none", "unfinished", "finished"}
Stop   == {"no", "done", "filtered", "failed"}
Line   == [text: Seq(Piece), id: BOOLEAN, status: Status, stop: Stop]
State  == [id: BOOLEAN, last: Status, finished: BOOLEAN]
Reason == {"none", "context_cancelled", "no_content_timeout", "idle_timeout",
           "upstream_completed", "handler_requested", "content_filter"}

Other      == [text |-> <<>>, id |-> FALSE, status |-> "none", stop |-> "no"]
DoneLine   == [Other EXCEPT !.stop = "done"]
Running    == reason = "none"

TypeOK ==
  /\ answer \in Seq(Piece) /\ Len(answer) <= MaxAnswer
  /\ said \in Status \union {"nothing", "refused"}
  /\ garbled \in BOOLEAN
  /\ cpc \in {"reading", "writing", "opening", "finishing", "closed"}
  /\ cline \in Line /\ cerr \in BOOLEAN
  /\ state \in State /\ hadDone \in BOOLEAN
  /\ rounds \in 0..MaxRounds
  /\ ppc \in {"scanning", "sending", "ended"} /\ pline \in Line
  /\ buffer \in Seq(Line) /\ Len(buffer) <= Buffer
  /\ mode \in Modes /\ reason \in Reason
  /\ text \in Seq(Piece) /\ stopped \in Stop /\ scanErr \in BOOLEAN
  /\ hasContent \in BOOLEAN /\ tickDue \in BOOLEAN
  /\ keepalives \in 0..(MaxKeepAlive - 1) /\ age \in 0..(IdleTicks + 1)
  /\ closed \in BOOLEAN /\ ctxDone \in BOOLEAN

Init ==
  /\ answer = <<>> /\ said = "nothing" /\ garbled = FALSE
  /\ cpc = "reading" /\ cline = Other /\ cerr = FALSE
  /\ state = [id |-> FALSE, last |-> "none", finished |-> FALSE]
  /\ rounds = 0 /\ hadDone = FALSE
  /\ mode \in Modes
  /\ ppc = IF mode = "stream" THEN "scanning" ELSE "ended"
  /\ pline = Other /\ buffer = <<>>
  /\ reason = "none" /\ text = <<>> /\ stopped = "no" /\ scanErr = FALSE
  /\ hasContent = FALSE /\ keepalives = 0 /\ age = 0 /\ tickDue = FALSE
  /\ closed = FALSE /\ ctxDone = FALSE

-----------------------------------------------------------------------------
(***************************************************************************)
(* The continuation pump.                                                  *)
(***************************************************************************)

observe(s, line) ==
  [id       |-> s.id \/ line.id,
   last     |-> IF line.status = "none" THEN s.last ELSE line.status,
   finished |-> s.finished \/ line.status = "finished"]

shouldContinue(s) == s.id /\ ~s.finished /\ s.last = "unfinished"

prepareForNextRound(s) == [s EXCEPT !.last = "none", !.finished = FALSE]

Reading == cpc = "reading" /\ ~ctxDone

\* A line of the body is observed and written to the pipe.
Forward(line) ==
  /\ cline' = line
  /\ state' = observe(state, line)
  /\ cpc' = "writing"
  /\ UNCHANGED <<cerr, rounds, hadDone, pumpVars, engineVars, handlerVars>>

\* New text the model may write.
Fresh == {[i \in 1..n |-> Len(answer) + i] : n \in 1..(MaxAnswer - Len(answer))}

\* A repetition too short to be told from new text.
Misleading(replay, fresh) == replay # <<>> /\ Len(replay \o fresh) < SnapshotLen

\* The model writes fresh text, with a repetition of what it wrote before.
Write(replay, fresh) ==
  /\ answer' = answer \o fresh
  /\ garbled' = (garbled \/ Misleading(replay, fresh))

\* A frame that opens a round: the message as it is, or its first part.
ReadEnvelope ==
  /\ Reading /\ said = "nothing"
  /\ \E replay \in Prefixes(answer), fresh \in Fresh \union {<<>>},
        id \in BOOLEAN, status \in Status :
       /\ fresh # <<>> => replay \in {<<>>, answer}
       /\ Write(replay, fresh)
       /\ said' = status
       /\ Forward([text |-> replay \o fresh, id |-> id, status |-> status,
                   stop |-> "no"])

ReadText ==
  /\ Reading /\ said \in {"nothing", "none", "unfinished"}
  /\ \E fresh \in Fresh :
       /\ Write(<<>>, fresh)
       /\ Forward([Other EXCEPT !.text = fresh])
  /\ said' = IF said = "nothing" THEN "none" ELSE said

ReadStatus ==
  /\ Reading /\ said \in {"nothing", "none", "unfinished"}
  /\ \E status \in {"unfinished", "finished"} :
       /\ said' = status
       /\ Forward([Other EXCEPT !.status = status,
                                !.stop = IF status = "finished" THEN "done" ELSE "no"])
  /\ UNCHANGED <<answer, garbled>>

\* A content filter in a batch, or an error object.  Neither is a status the
\* pump observes.
ReadRefusal ==
  /\ Reading /\ said \in {"nothing", "none", "unfinished"}
  /\ \E stop \in {"filtered", "failed"} :
       Forward([Other EXCEPT !.stop = stop])
  /\ said' = "refused"
  /\ UNCHANGED <<answer, garbled>>

\* Events, comments, search results, counters.
ReadOther ==
  /\ Reading
  /\ Forward(Other)
  /\ UNCHANGED upstreamVars

\* Mutant: every [DONE] goes to the client.
ReadDone_Forwards ==
  /\ Reading
  /\ Forward(DoneLine)
  /\ UNCHANGED upstreamVars

\* [DONE] is swallowed.
ReadDone ==
  /\ Reading
  /\ hadDone' = TRUE
  /\ UNCHANGED <<upstreamVars, cpc, cline, cerr, state, rounds, pumpVars,
                 engineVars, handlerVars>>

\* The body ends: ask for a continuation, or close the pipe, with the [DONE]
\* that was held back.
ReadEnd ==
  /\ Reading
  /\ IF shouldContinue(state) /\ rounds < MaxRounds
     THEN /\ rounds' = rounds + 1
          /\ cpc' = "opening"
          /\ UNCHANGED cline
     ELSE IF hadDone
     THEN cpc' = "finishing" /\ cline' = DoneLine /\ UNCHANGED rounds
     ELSE cpc' = "closed" /\ UNCHANGED <<cline, rounds>>
  /\ UNCHANGED <<upstreamVars, cerr, state, hadDone, pumpVars, engineVars,
                 handlerVars>>

\* callContinue returns a new body.
OpenRound ==
  /\ cpc = "opening" /\ ~ctxDone
  /\ cpc' = "reading"
  /\ state' = prepareForNextRound(state)
  /\ hadDone' = FALSE
  /\ said' = "nothing"
  /\ UNCHANGED <<answer, garbled, cline, cerr, rounds, pumpVars, engineVars,
                 handlerVars>>

ClosePipe(err) ==
  /\ cpc' = "closed"
  /\ cerr' = err
  /\ cline' = Other
  /\ UNCHANGED <<upstreamVars, state, rounds, hadDone, pumpVars, engineVars,
                 handlerVars>>

\* The connection breaks, or the continuation is refused.
UpstreamFails == cpc \in {"reading", "opening"} /\ ~ctxDone /\ ClosePipe(TRUE)

\* The upstream call ends with the request's context.
CallCancelled == cpc \in {"reading", "opening"} /\ ctxDone /\ ClosePipe(TRUE)

\* The pipe's reader has gone.
WriteFails == cpc \in {"writing", "finishing"} /\ closed /\ ClosePipe(TRUE)

\* The reader of the pipe takes the line.
LineTaken ==
  /\ cpc \in {"writing", "finishing"} /\ ~closed
  /\ cpc' = IF cpc = "writing" THEN "reading" ELSE "closed"
  /\ cline' = Other
  /\ UNCHANGED <<cerr, state, rounds, hadDone>>

-----------------------------------------------------------------------------
(***************************************************************************)
(* The line pump.                                                          *)
(***************************************************************************)

PumpScan ==
  /\ ppc = "scanning"
  /\ LineTaken
  /\ pline' = cline
  /\ ppc' = "sending"
  /\ UNCHANGED <<upstreamVars, buffer, engineVars, handlerVars>>

PumpSend ==
  /\ ppc = "sending"
  /\ Len(buffer) < Buffer
  /\ buffer' = Append(buffer, pline)
  /\ pline' = Other
  /\ ppc' = "scanning"
  /\ UNCHANGED <<upstreamVars, continueVars, engineVars, handlerVars>>

PumpEnds(err) ==
  /\ ppc' = "ended"
  /\ scanErr' = err
  /\ pline' = Other
  /\ UNCHANGED <<upstreamVars, continueVars, buffer, mode, reason, text,
                 stopped, timerVars, handlerVars>>

\* Mutant: tries to send again when the context is done.
PumpAbandons_Retries == ppc = "sending" /\ ctxDone /\ UNCHANGED vars

PumpAbandons == ppc = "sending" /\ ctxDone /\ PumpEnds(TRUE)

PumpEof ==
  /\ ppc = "scanning"
  /\ closed \/ cpc = "closed"
  /\ PumpEnds(closed \/ cerr)

-----------------------------------------------------------------------------
(***************************************************************************)
(* The engine, with the chat handler's hooks.                              *)
(***************************************************************************)

\* Mutant: a snapshot that goes beyond the text is taken for new text.
TrimContinuationOverlap_StaleOnly(existing, incoming) ==
  IF Len(incoming) >= SnapshotLen /\ IsPrefix(incoming, existing)
  THEN <<>>
  ELSE incoming

TrimContinuationOverlap(existing, incoming) ==
  IF Len(incoming) >= SnapshotLen /\ IsPrefix(existing, incoming)
  THEN SubSeq(incoming, Len(existing) + 1, Len(incoming))
  ELSE IF Len(incoming) >= SnapshotLen /\ IsPrefix(incoming, existing)
  THEN <<>>
  ELSE incoming

\* The consumer returns; its timers are gone.
Ends(why) ==
  /\ reason' = why
  /\ hasContent' = FALSE /\ keepalives' = 0 /\ age' = 0 /\ tickDue' = FALSE

Selecting == mode = "stream" /\ Running /\ ~ctxDone

EngineCancelled ==
  /\ mode = "stream" /\ Running /\ ctxDone
  /\ Ends("context_cancelled")
  /\ UNCHANGED <<upstreamVars, continueVars, pumpVars, mode, text, stopped,
                 scanErr, handlerVars>>

\* Mutant: no idle timeout.
TickExpires == \/ ~hasContent /\ keepalives + 1 >= MaxKeepAlive
               \/ hasContent /\ age > IdleTicks

EngineTick ==
  /\ Selecting /\ tickDue
  /\ IF TickExpires
     THEN Ends(IF hasContent THEN "idle_timeout" ELSE "no_content_timeout")
     ELSE /\ tickDue' = FALSE
          /\ keepalives' = IF hasContent THEN keepalives ELSE keepalives + 1
          /\ UNCHANGED <<reason, hasContent, age>>
  /\ UNCHANGED <<upstreamVars, continueVars, pumpVars, mode, text, stopped,
                 scanErr, handlerVars>>

TakeLine ==
  /\ Selecting /\ buffer # <<>>
  /\ buffer' = Tail(buffer)
  /\ UNCHANGED <<upstreamVars, continueVars, ppc, pline, mode, scanErr, handlerVars>>

EngineText ==
  /\ TakeLine
  /\ LET line == Head(buffer) IN
       /\ line.stop = "no"
       /\ text' = text \o TrimContinuationOverlap(text, line.text)
       /\ IF line.text # <<>>
          THEN hasContent' = TRUE /\ age' = 0 /\ keepalives' = 0
          ELSE UNCHANGED <<hasContent, age, keepalives>>
  /\ UNCHANGED <<reason, stopped, tickDue>>

EngineStop ==
  /\ TakeLine
  /\ LET stop == Head(buffer).stop IN
       /\ stop # "no"
       /\ stopped' = stop
       /\ Ends(IF stop = "failed" \/ (stop = "filtered" /\ text = <<>>)
               THEN "content_filter" ELSE "handler_requested")
  /\ UNCHANGED text

EngineEof ==
  /\ Selecting /\ buffer = <<>> /\ ppc = "ended"
  /\ Ends("upstream_completed")
  /\ UNCHANGED <<upstreamVars, continueVars, pumpVars, mode, text, stopped,
                 scanErr, handlerVars>>

\* The ticker's channel holds one tick.
Tick ==
  /\ mode = "stream" /\ Running
  /\ tickDue' = TRUE
  /\ age' = IF hasContent /\ age <= IdleTicks THEN age + 1 ELSE age
  /\ tickDue' # tickDue \/ age' # age
  /\ UNCHANGED <<upstreamVars, continueVars, pumpVars, mode, reason, text,
                 stopped, scanErr, hasContent, keepalives, handlerVars>>

-----------------------------------------------------------------------------
(***************************************************************************)
(* CollectStream: reads on after a line that stops the answer, until       *)
(* [DONE] or the end of the pipe.                                          *)
(***************************************************************************)

CollectLine ==
  /\ mode = "collect" /\ Running
  /\ LineTaken
  /\ text' = IF stopped = "no" /\ cline.stop = "no"
             THEN text \o TrimContinuationOverlap(text, cline.text)
             ELSE text
  /\ stopped' = IF stopped = "no" THEN cline.stop ELSE stopped
  /\ reason' = IF cline = DoneLine THEN "upstream_completed" ELSE "none"
  /\ UNCHANGED <<upstreamVars, pumpVars, mode, scanErr, timerVars, handlerVars>>

CollectEof ==
  /\ mode = "collect" /\ Running
  /\ cpc = "closed"
  /\ reason' = "upstream_completed"
  /\ scanErr' = cerr
  /\ UNCHANGED <<upstreamVars, continueVars, pumpVars, mode, text, stopped,
                 timerVars, handlerVars>>

-----------------------------------------------------------------------------
(***************************************************************************)
(* The handler and its client.                                             *)
(***************************************************************************)

CloseBody ==
  /\ ~Running /\ ~closed
  /\ closed' = TRUE
  /\ UNCHANGED <<upstreamVars, continueVars, pumpVars, engineVars, ctxDone>>

\* net/http cancels the request's context when its handler has returned.
HandlerReturns ==
  /\ closed /\ ~ctxDone
  /\ ctxDone' = TRUE
  /\ UNCHANGED <<upstreamVars, continueVars, pumpVars, engineVars, closed>>

Disconnect ==
  /\ Running /\ ~ctxDone
  /\ ctxDone' = TRUE
  /\ UNCHANGED <<upstreamVars, continueVars, pumpVars, engineVars, closed>>

Ended == cpc = "closed" /\ ppc = "ended"

\* Everything has ended.
Finished == Ended /\ ctxDone /\ closed /\ UNCHANGED vars

Upstream == ReadEnvelope \/ ReadText \/ ReadStatus \/ ReadRefusal \/ ReadOther
              \/ ReadDone \/ ReadEnd \/ OpenRound \/ UpstreamFails
Pump == PumpScan \/ PumpSend \/ PumpAbandons \/ PumpEof
Lines == EngineText \/ EngineStop \/ EngineEof \/ EngineCancelled
Collect == CollectLine \/ CollectEof
Handler == CloseBody \/ HandlerReturns

Next ==
  \/ Upstream \/ CallCancelled \/ WriteFails
  \/ Pump
  \/ Lines \/ EngineTick \/ Tick
  \/ Collect
  \/ Handler \/ Disconnect
  \/ Finished

Spec == Init /\ [][Next]_vars

(***************************************************************************)
(* Goroutines that can run do; time passes; a select that finds a tick     *)
(* ready takes it after finitely many other choices, for it chooses at     *)
(* random.  Nothing makes the upstream answer or the client disconnect.    *)
(***************************************************************************)
Fairness ==
  /\ WF_vars(CallCancelled) /\ WF_vars(WriteFails)
  /\ WF_vars(Pump)
  /\ WF_vars(Lines) /\ WF_vars(EngineTick) /\ WF_vars(Tick)
  /\ WF_vars(Collect)
  /\ WF_vars(Handler)

FairSpec == Spec /\ Fairness

-----------------------------------------------------------------------------
(***************************************************************************)
(* Properties.                                                             *)
(***************************************************************************)

\* The consumer reports an answer that came to its end: no timeout, refusal,
\* read error or disconnect cut it, and the model was not asked to go on.
Clean ==
  /\ reason = "handler_requested" \/ (reason = "upstream_completed" /\ ~scanErr)
  /\ stopped \in {"no", "done"}
Whole == Clean /\ said # "unfinished"

Answer == INSTANCE AnswerStream WITH
  Letters   <- Piece,
  produced  <- answer,
  delivered <- text,
  phase     <- IF garbled THEN "garbled"
               ELSE IF Running THEN "open"
               ELSE IF Whole THEN "complete"
               ELSE "cut"

\* Through the pipe, the channel, the splicing of rounds and the trimming of
\* replayed snapshots, the client receives what the model wrote, in order,
\* each piece once, and an answer that ends whole has been delivered whole.
DeliversAnswer == Answer!Spec

\* An answer the model left unfinished is not reported as come to its end,
\* unless the continuations are used up or the message to continue is unknown,
\* and a continuation is asked for only when the round that ended had said that
\* the answer is unfinished.  A refused answer is one too: the pump does not
\* observe refusals, and asks for a continuation of an answer that was
\* filtered in the middle of a message with status WIP.
ContinuedWhileUnfinished ==
  /\ [](Clean /\ said = "unfinished" => rounds = MaxRounds \/ ~state.id)
  /\ [][rounds' # rounds => said \in {"unfinished", "refused"}]_vars

\* Whatever the upstream does, and if it falls silent for ever, the client of
\* a stream gets an end of the answer: the last text, a refusal or a timeout.
\* And once a consumer is done, both pumps end: nobody stays blocked on the
\* pipe, on the full channel or on the body of the upstream.
StreamsAndPumpsEnd ==
  /\ mode = "stream" ~> ~Running
  /\ ~Running ~> Ended
=============================================================================
