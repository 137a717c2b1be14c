--------------------------- MODULE AnswerSurface ----------------------------
(***************************************************************************)
(* How a streamed answer reaches the client of the chat completions API    *)
(* ("chat") or of the responses API ("responses").  The text comes in      *)
(* chunks; when the client declared tools, each chunk goes through the     *)
(* sieve and the runtime turns what the sieve emits into events of the     *)
(* API.  At the end the runtime parses the whole text again, empties the   *)
(* sieve and finishes the response, fails it, or defers an answer without  *)
(* text so that the handler can try another account.                       *)
(*                                                                         *)
(* "sent" lists what the client received.  Chat: "content" and "call".     *)
(* Responses: the life of its output items ("item", "part", "content",     *)
(* "endText", "endPart", "call", "endItem"), each with an output index.    *)
(* Both: one of "completed" and "failed".  A piece of text or a call is    *)
(* named by its place in the answer.                                       *)
(***************************************************************************)
EXTENDS ToolSieve

CONSTANTS
  Surfaces,   \* which APIs: a subset of {"chat", "responses"}
  Answers,    \* the answers the model may give: sequences of kinds
  Thoughts,   \* what it may think before, likewise
  MaxSwitches \* bound: accounts tried after the first one

ASSUME AnswerSurfaceAssumption ==
  /\ Surfaces \subseteq {"chat", "responses"}
  /\ \A a \in Answers \union Thoughts : \A i \in DOMAIN a : a[i] \in Kinds
  /\ MaxSwitches \in Nat

VARIABLES
  surface, buffered, required, \* the API, tools declared, a call demanded
  answer, thinking,            \* what the model writes
  rest,                        \* the part of the answer still to come
  run,                         \* the runtime of the API
  phase,                       \* "streaming", "deferred" or "ended"
  switches                     \* accounts tried after the first one

requestVars == <<surface, buffered, required, answer, thinking>>
vars == <<requestVars, rest, run, phase, switches>>

\* A text of the given kinds whose first piece has the place base + 1.
Placed(kinds, base) == [i \in DOMAIN kinds |-> [kind |-> kinds[i], at |-> base + i]]

ThinkingBase == 100  \* thinking and answer have different places

Init ==
  /\ surface \in Surfaces
  /\ buffered \in BOOLEAN
  /\ required \in (IF surface = "responses" /\ buffered THEN BOOLEAN ELSE {FALSE})
  /\ \E a \in Answers : answer = Placed(a, 0)
  /\ \E t \in Thoughts : thinking = Placed(t, ThinkingBase)
  /\ rest = answer
  /\ run = [text |-> <<>>, sieve |-> InitialSieve, sent |-> <<>>,
            toolCallsEmitted |-> FALSE, toolCallsDoneEmitted |-> FALSE,
            messageAdded |-> FALSE, messagePartAdded |-> FALSE,
            messageOutputID |-> -1, nextOutputID |-> 0,
            functionOutputIDs |-> <<>>, output |-> <<>>]
  /\ phase = "streaming"
  /\ switches = 0

Event(event, index, at) == [event |-> event, index |-> index, at |-> at]
Send(r, events) == [r EXCEPT !.sent = @ \o events]
SendText(r, index, text) ==
  Send(r, [i \in DOMAIN text |-> Event("content", index, text[i].at)])
End(r, event) == Send(r, <<Event(event, 0, 0)>>)

-----------------------------------------------------------------------------
(***************************************************************************)
(* The chat runtime: the calls of one event are numbered from 0.           *)
(***************************************************************************)

ChatCalls(r, calls) ==
  Send([r EXCEPT !.toolCallsEmitted = TRUE, !.toolCallsDoneEmitted = TRUE],
       [i \in DOMAIN calls |-> Event("call", i - 1, calls[i])])

ChatEvent(r, evt) ==
  IF evt.calls # <<>> THEN ChatCalls(r, evt.calls) ELSE SendText(r, 0, evt.text)

-----------------------------------------------------------------------------
(***************************************************************************)
(* The responses runtime: output items, numbered as they are opened.       *)
(***************************************************************************)

ensureMessageOutputIndex(r) ==
  IF r.messageOutputID >= 0 THEN r
  ELSE [r EXCEPT !.messageOutputID = r.nextOutputID, !.nextOutputID = @ + 1]

\* Mutant: it is not noted that the item was opened.
ensureMessageItemAdded_Forgets(r) ==
  IF r.messageAdded THEN r
  ELSE Send([ensureMessageOutputIndex(r) EXCEPT !.messageAdded = r.messagePartAdded],
            <<Event("item", ensureMessageOutputIndex(r).messageOutputID, 0)>>)

ensureMessageItemAdded(r) ==
  LET m == ensureMessageOutputIndex(r) IN
  IF r.messageAdded THEN r
  ELSE Send([m EXCEPT !.messageAdded = TRUE],
            <<Event("item", m.messageOutputID, 0)>>)

ensureMessageContentPartAdded(r) ==
  LET m == ensureMessageItemAdded(r) IN
  IF r.messagePartAdded THEN r
  ELSE Send([m EXCEPT !.messagePartAdded = TRUE],
            <<Event("part", m.messageOutputID, 0)>>)

emitTextDelta(r, text) ==
  LET m == ensureMessageContentPartAdded(r) IN
  IF text = <<>> THEN r ELSE SendText(m, m.messageOutputID, text)

closeMessageItem(r) ==
  LET index == r.messageOutputID
      part  == IF r.messagePartAdded
               THEN <<Event("endText", index, 0), Event("endPart", index, 0)>>
               ELSE <<>>
  IN  IF ~r.messageAdded THEN r
      ELSE Send([r EXCEPT !.messagePartAdded = FALSE],
                part \o <<Event("endItem", index, 0)>>)

\* The output index of the n-th call of an event.
ensureFunctionOutputIndex(r, n) ==
  IF n \in DOMAIN r.functionOutputIDs THEN r
  ELSE [r EXCEPT !.functionOutputIDs = Append(@, r.nextOutputID),
                 !.nextOutputID = @ + 1]

emitFunctionCallDoneEvents(r, calls) ==
  LET Emit(q, n) ==
        LET m == ensureFunctionOutputIndex(q, n)
            index == m.functionOutputIDs[n]
        IN  Send([m EXCEPT !.toolCallsEmitted = TRUE, !.toolCallsDoneEmitted = TRUE],
                 <<Event("item", index, 0), Event("call", index, calls[n]),
                   Event("endItem", index, 0)>>)
  IN  FoldLeft(Emit, r, [n \in DOMAIN calls |-> n])

resetStreamToolCallState(r) == [r EXCEPT !.functionOutputIDs = <<>>]

ResponsesEvent(r, evt) ==
  IF evt.calls # <<>>
  THEN resetStreamToolCallState(emitFunctionCallDoneEvents(r, evt.calls))
  ELSE emitTextDelta(r, evt.text)

\* The output of the finished response: its items with their indexes.
buildCompletedResponseObject(r, calls) ==
  LET unsent == ~r.messageAdded /\ calls = <<>> /\ (thinking # <<>> \/ r.text # <<>>)
      m == IF unsent THEN ensureMessageOutputIndex(r) ELSE r
      f == FoldLeft(ensureFunctionOutputIndex, m, [n \in DOMAIN calls |-> n])
      message == IF r.messageAdded \/ unsent
                 THEN <<Event("message", f.messageOutputID, 0)>> ELSE <<>>
  IN  [f EXCEPT !.output = message \o
         [n \in DOMAIN calls |-> Event("call", f.functionOutputIDs[n], calls[n])]]

-----------------------------------------------------------------------------
(***************************************************************************)
(* Receiving and finishing, for both.                                      *)
(***************************************************************************)

Process(r, sieved) ==
  LET Each(q, evt) == IF surface = "chat" THEN ChatEvent(q, evt)
                      ELSE ResponsesEvent(q, evt)
  IN  FoldLeft(Each, [r EXCEPT !.sieve = sieved.st], sieved.events)

Received(r, chunk) ==
  LET t == [r EXCEPT !.text = @ \o chunk] IN
  IF buffered THEN Process(t, ProcessChunk(t.sieve, chunk))
  ELSE IF surface = "chat" THEN SendText(t, 0, chunk)
  ELSE emitTextDelta(t, chunk)

Detected(r) == DetectAssistantToolCalls(r.text, thinking)
Flushed(r) == IF buffered THEN Process(r, Flush(r.sieve)) ELSE r

\* Mutant: the calls of the whole text are sent even if some were sent before.
ChatRest_Again(r, detected) ==
  IF detected # <<>> THEN ChatCalls(r, detected) ELSE Flushed(r)

\* Mutant: only the sieve finds calls.
ResponsesRest_SieveOnly(r, detected) == closeMessageItem(Flushed(r))

\* The calls found in the whole text and the rest of the sieve.  The chat
\* runtime does not empty the sieve when it sends the calls itself.
ChatRest(r, detected) ==
  IF detected # <<>> /\ ~r.toolCallsDoneEmitted THEN ChatCalls(r, detected)
  ELSE Flushed(r)

EmitDetected(r, detected) ==
  IF detected = <<>> \/ r.toolCallsDoneEmitted THEN r
  ELSE emitFunctionCallDoneEvents(r, detected)

ResponsesRest(r, detected) == closeMessageItem(EmitDetected(Flushed(r), detected))

Complete(r, detected) ==
  End(IF surface = "chat" THEN r ELSE buildCompletedResponseObject(r, detected),
      "completed")

\* The end of finalize: r is the runtime that has sent the rest.
Conclude(r, detected, deferEmptyOutput) ==
  LET refused == required /\ detected = <<>>
      empty   == /\ detected = <<>> /\ Blank(r.text)
                 /\ surface = "chat" => ~r.toolCallsEmitted
  IN  \/ /\ ~refused /\ empty /\ deferEmptyOutput
         /\ run' = r /\ phase' = "deferred"
      \/ /\ refused \/ (empty /\ ~deferEmptyOutput)
         /\ run' = End(r, "failed") /\ phase' = "ended"
      \/ /\ ~refused /\ ~empty
         /\ run' = Complete(r, detected) /\ phase' = "ended"

\* finalize: what it sends and whether the answer is deferred.
Finalize(deferEmptyOutput) ==
  \E detected \in {Detected(run)} :
    \E r \in {IF surface = "chat" THEN ChatRest(run, detected)
              ELSE ResponsesRest(run, detected)} :
      Conclude(r, detected, deferEmptyOutput)

-----------------------------------------------------------------------------
Streaming == phase = "streaming"

\* The next n pieces of the answer arrive.
Chunk(n) ==
  /\ Streaming /\ n <= Len(rest)
  /\ run' = Received(run, SubSeq(rest, 1, n))
  /\ rest' = SubSeq(rest, n + 1, Len(rest))
  /\ UNCHANGED <<requestVars, phase, switches>>

\* The stream ends: complete, or cut by an error or a timeout.
StreamEnds ==
  /\ Streaming
  /\ Finalize(TRUE)
  /\ rest' = <<>>
  /\ UNCHANGED <<requestVars, switches>>

\* The upstream's filter stops the answer.
ContentFilter ==
  /\ Streaming /\ switches = 0
  /\ Finalize(surface = "chat" /\ ~Blank(run.text))
  /\ rest' = <<>>
  /\ UNCHANGED <<requestVars, switches>>

\* The client goes away.
ContextDone ==
  /\ Streaming
  /\ run' = End(run, "failed") /\ phase' = "ended"
  /\ UNCHANGED <<requestVars, rest, switches>>

\* Another account is asked and the text starts over; what is read next is
\* the body of the first answer, which is closed.
SwitchAccount ==
  /\ phase = "deferred" /\ switches < MaxSwitches
  /\ switches' = switches + 1
  /\ run' = [run EXCEPT !.text = <<>>]
  /\ rest' = <<>>
  /\ phase' = "streaming"
  /\ UNCHANGED requestVars

GiveUp ==
  /\ phase = "deferred"
  /\ Finalize(FALSE)
  /\ UNCHANGED <<requestVars, rest, switches>>

Ended == phase = "ended" /\ UNCHANGED vars

Next ==
  \/ \E n \in 1..Len(rest) : Chunk(n)
  \/ StreamEnds \/ ContentFilter \/ ContextDone
  \/ SwitchAccount \/ GiveUp
  \/ Ended

Spec == Init /\ [][Next]_vars

-----------------------------------------------------------------------------
\* What the client received, and what it is made of.
Sent(event)  == SelectSeq(run.sent, LAMBDA e : e.event = event)
Places(sent) == {sent[i].at : i \in DOMAIN sent}
Texts == Sent("content")
Called == Sent("call")
Completed == Sent("completed") # <<>>

\* Text is never sent twice or out of order: not when a part of it is held
\* back, captured and given up, put back after a call, or flushed at the end.
TextInOrder ==
  \A i, j \in DOMAIN Texts : i < j => Texts[i].at < Texts[j].at

\* No call reaches the client twice, although the sieve finds it while the
\* answer is streamed and the runtime again in the whole text.
CallsOnce ==
  \A i, j \in DOMAIN Called : i # j => Called[i].at # Called[j].at

InToolBlock(i) ==
  \E a, b \in DOMAIN run.text :
    /\ a <= i /\ i <= b
    /\ run.text[a].kind \in {"open1", "invoke"} /\ run.text[b].kind = "close2"

Held == {run.sieve.pending[i].at : i \in DOMAIN run.sieve.pending}
        \union {run.sieve.capture[i].at : i \in DOMAIN run.sieve.capture}

\* No text of a finished answer is lost.  What the client did not get belongs
\* to the block of a call; or it is what the sieve of the chat runtime still
\* held when the runtime sent the calls of the whole text.
NothingLost ==
  Completed => \A i \in DOMAIN run.text :
    \/ run.text[i].at \in Places(Texts)
    \/ Called # <<>> /\ InToolBlock(i)
    \/ Called # <<>> /\ surface = "chat" /\ run.text[i].at \in Held

\* In an answer with at most one tool block, the calls a client that does not
\* stream would get are the ones delivered: while streaming, when the sieve
\* is emptied, or from the whole text or the thinking.  (Two blocks in one
\* chunk lose the calls of the first: ProcessChunk overwrites them.)
CallsAreDelivered ==
  Completed /\ Cardinality({i \in DOMAIN run.text : run.text[i].kind = "close2"}) <= 1
    => {Detected(run)[i] : i \in DOMAIN Detected(run)} \subseteq Places(Called)

\* The event of an item comes once, and its place in what was sent.
Once(event, index) ==
  Cardinality({i \in DOMAIN run.sent :
                 run.sent[i].event = event /\ run.sent[i].index = index}) = 1
At(event, index) ==
  CHOOSE i \in DOMAIN run.sent :
    run.sent[i].event = event /\ run.sent[i].index = index

\* Every output item of a finished response was opened once and closed once,
\* under an index of its own, and what it contains came in between.
ItemsClosedOnce ==
  surface = "responses" /\ Completed =>
    \A i \in DOMAIN run.sent :
      LET index == run.sent[i].index IN
      run.sent[i].event # "completed" =>
        /\ Once("item", index) /\ At("item", index) <= i
        /\ Once("endItem", index) /\ i <= At("endItem", index)
        /\ run.sent[i].event = "content" =>
             /\ Once("part", index) /\ At("part", index) < i
             /\ Once("endPart", index) /\ i < At("endPart", index)

\* The place i is inside a fenced code block: between the first backticks of
\* the text, a fence on a line of its own, and another such fence.
FencedAt(i) ==
  LET text == run.text
      Fence(j) == /\ RunAt(text, j) >= 3 /\ LineStartsAt(text, j)
                  /\ Is(text, j + RunAt(text, j), "nl")
      first == Min(RunStarts(text))
  IN  /\ RunStarts(text) # {} /\ Fence(first) /\ first < i
      /\ \E j \in RunStarts(text) :
           i < j /\ Fence(j) /\ RunAt(text, j) = RunAt(text, first)

\* What the documentation promises of an example of a call in a fenced code
\* block: it is text, and never sent as a call.  It fails when the line break
\* after the opening fence is a chunk of its own, which noteText ignores.
ExamplesStayText ==
  \A i \in DOMAIN run.text :
    FencedAt(i) => run.text[i].at \notin Places(Called)
=============================================================================
