----------------------------- MODULE ToolSieve ------------------------------
(***************************************************************************)
(* The sieve that splits the text of an answer, chunk by chunk, into what  *)
(* the client may see at once, what must be held back because it may turn  *)
(* into a tool call, and the calls.  ProcessChunk and Flush take a state   *)
(* of the sieve and return the next one with the events they emit.         *)
(***************************************************************************)
EXTENDS ToolMarkup

InitialSieve ==
  [pending |-> <<>>,   \* text not yet looked at, or held back
   capture |-> <<>>,   \* text from a tag on; the sieve is capturing when
                       \* there is some
   stack   |-> <<>>,   \* codeFenceStack
   ticks   |-> 0,      \* codeFencePendingTicks
   atStart |-> TRUE,   \* at the start of a line
   span    |-> 0,      \* markdownCodeSpanTicks
   calls   |-> <<>>]   \* pendingToolCalls

Content(text) == [text |-> text, calls |-> <<>>]
Calls(calls)  == [text |-> <<>>, calls |-> calls]
Say(text)     == IF text = <<>> THEN <<>> ELSE <<Content(text)>>

-----------------------------------------------------------------------------
(***************************************************************************)
(* What the text already sent says about code fences and code spans.       *)
(***************************************************************************)

applyFenceMarker(stack, marker) ==
  IF stack = <<>> \/ marker < stack[Len(stack)]
  THEN Append(stack, marker)
  ELSE SubSeq(stack, 1, Len(stack) - 1)

flushPending(f) ==
  IF f.ticks = 0 THEN f
  ELSE [stack   |-> IF f.atStart /\ f.ticks >= 3
                    THEN applyFenceMarker(f.stack, f.ticks) ELSE f.stack,
        ticks   |-> 0,
        atStart |-> FALSE]

simulateCodeFenceState(st, text) ==
  LET Read(f, piece) ==
        IF piece.kind = "tick" THEN [f EXCEPT !.ticks = @ + 1]
        ELSE [flushPending(f) EXCEPT !.atStart = (piece.kind = "nl")]
  IN  FoldLeft(Read,
               [stack |-> st.stack, ticks |-> st.ticks, atStart |-> st.atStart],
               text)

insideCodeFence(st, text) == simulateCodeFenceState(st, text).stack # <<>>

\* atMarkdownFenceLineStart: a text counts as the start of a line.
LineStartsAt(text, i) == i = 1 \/ text[i - 1].kind = "nl"

\* The code span that is open after text: its backticks, and whether it was
\* open before.
Prior(st) == [ticks |-> st.span, fromPrior |-> st.span > 0]
ReadRun(st, text, m, i) ==
  IF m.ticks # 0 THEN (IF RunAt(text, i) = m.ticks
                       THEN [ticks |-> 0, fromPrior |-> FALSE] ELSE m)
  ELSE IF \/ RunAt(text, i) >= 3 /\ LineStartsAt(text, i)
          \/ insideCodeFence(st, SubSeq(text, 1, i - 1))
    THEN m
  ELSE [ticks |-> RunAt(text, i), fromPrior |-> FALSE]
markdownCodeSpanStateAt(st, text) ==
  FoldLeft(LAMBDA m, i : IF Is(text, i, "tick") /\ ~Is(text, i - 1, "tick")
                         THEN ReadRun(st, text, m, i) ELSE m,
           Prior(st), Order(text))

markdownCodeSpanCloses(text, ticks) ==
  \E i \in RunStarts(text) : RunAt(text, i) = ticks

\* Text that was sent; blank text is not looked at.
Noted(st, fence, span) ==
  [st EXCEPT !.span = span.ticks,
             !.stack = fence.stack, !.ticks = fence.ticks, !.atStart = fence.atStart]
noteText(st, text) ==
  IF Blank(text) THEN st
  ELSE Noted(st, simulateCodeFenceState(st, text), markdownCodeSpanStateAt(st, text))

-----------------------------------------------------------------------------
(***************************************************************************)
(* Where a tool call may begin in the pending text.                        *)
(***************************************************************************)

NoSegment == 0
HoldSegment == -1

\* Whether the tag at start is text, is held back, or begins a call.
Segment(st, s, start, span) ==
  IF \/ insideCodeFence(st, SubSeq(s, 1, start - 1))
     \/ span.ticks > 0 /\ markdownCodeSpanCloses(SubSeq(s, start, Len(s)), span.ticks)
  THEN NoSegment
  ELSE IF span.ticks > 0 /\ span.fromPrior THEN HoldSegment
  ELSE start

\* The first tag that is not text decides.
FirstSegment(st, s, tags) ==
  FoldLeft(LAMBDA found, i :
             IF found # NoSegment \/ i \notin tags THEN found
             ELSE Segment(st, s, i, markdownCodeSpanStateAt(st, SubSeq(s, 1, i - 1))),
           NoSegment, Order(s))

findToolSegmentStart(st, s) == FirstSegment(st, s, TagsFrom(s, 1))

\* A half tag at the end: where it starts, or 0.
findPartialXMLToolTagStart(s) ==
  IF Is(s, Len(s), "open1") \/ Is(s, Len(s), "close1") THEN Len(s) ELSE 0

\* How much of the pending text can be sent although its end may be the
\* beginning of a tag.
Safe(st, s, at, span) ==
  IF at = 0 \/ insideCodeFence(st, SubSeq(s, 1, at - 1)) THEN Len(s)
  ELSE IF span.ticks > 0 /\ span.fromPrior THEN 0
  ELSE at - 1
SafeBefore(st, s, at) ==
  Safe(st, s, at, markdownCodeSpanStateAt(st, SubSeq(s, 1, at - 1)))
splitSafeContentForToolDetection(st, s) ==
  SafeBefore(st, s, findPartialXMLToolTagStart(s))

\* The backticks before a call that nothing closes are text.
Unclosed(span, suffix) ==
  span.ticks > 0 /\ ~span.fromPrior /\ ~markdownCodeSpanCloses(suffix, span.ticks)
shouldResetUnclosedMarkdownPrefix(st, prefix, suffix) ==
  Unclosed(markdownCodeSpanStateAt(st, prefix), suffix)

-----------------------------------------------------------------------------
(***************************************************************************)
(* What the captured text turns into.                                      *)
(***************************************************************************)

\* A fence that wraps nothing but the calls goes with them.
FenceMarks(text) ==
  FoldSet(LAMBDA i, n : n + RunAt(text, i) \div 3, 0, RunStarts(text))
Wrapped(head, tail) ==
  /\ Len(head) >= 3 /\ RunAt(head, Len(head) - 2) = 3
  /\ FenceMarks(head) % 2 = 1
  /\ RunAt(tail, 1) >= 3
Unwrapped(head, tail) ==
  <<SubSeq(head, 1, Len(head) - 3), SubSeq(tail, 4, Len(tail))>>
trimWrappingJSONFence(prefix, suffix) ==
  IF Wrapped(TrimRight(prefix), TrimLeft(suffix))
  THEN Unwrapped(TrimRight(prefix), TrimLeft(suffix))
  ELSE <<prefix, suffix>>

NotReady == [ready |-> FALSE, prefix |-> <<>>, calls |-> <<>>, suffix |-> <<>>]

\* The block between prefix and suffix has these calls.
Ready(calls, parts) ==
  [ready |-> TRUE, prefix |-> parts[1], calls |-> calls, suffix |-> parts[2]]
Parsed(prefix, block, suffix, calls) ==
  IF calls = <<>> THEN Ready(calls, <<prefix \o block, suffix>>)
  ELSE Ready(calls, trimWrappingJSONFence(prefix, suffix))

\* The block from first to last, with a wrapper put before it if it has none.
Block(s, first, last, wrapper) ==
  Parsed(SubSeq(s, 1, first - 1), SubSeq(s, first, last),
         SubSeq(s, last + 1, Len(s)), ParseCalls(wrapper \o SubSeq(s, first, last)))

Wrapper == <<[kind |-> "open1", at |-> 0], [kind |-> "open2", at |-> 0]>>

\* The first block that has calls; nothing while a block is open; the first
\* block, as text; a block that lacks its opening tag.
Capture(s, opens, closes, matched, accepted, invokes) ==
  IF accepted # {}
    THEN Block(s, Min(accepted), CloseOf(opens, closes, Min(accepted)) + 1, <<>>)
  ELSE IF opens # matched THEN NotReady
  ELSE IF matched # {}
    THEN Block(s, Min(matched), CloseOf(opens, closes, Min(matched)) + 1, <<>>)
  ELSE IF invokes # {} /\ \E i \in closes : i > Min(invokes)
    THEN Block(s, Min(invokes),
               Min({i \in closes : i > Min(invokes)}) + 1, Wrapper)
  ELSE NotReady
HasCalls(s, opens, closes, i) ==
  ParseCalls(SubSeq(s, i, CloseOf(opens, closes, i) + 1)) # <<>>
Candidates(s, opens, closes, matched, invokes) ==
  Capture(s, opens, closes, matched,
          {i \in matched : HasCalls(s, opens, closes, i)}, invokes)
Matched(opens, closes) == {i \in opens : Ends(opens, closes, i) # {}}
consumeXMLToolCapture(s) ==
  Candidates(s, Tags(s, "open1"), Tags(s, "close1"),
             Matched(Tags(s, "open1"), Tags(s, "close1")), Tags(s, "invoke"))

hasOpenXMLToolTag(s) ==
  Matched(Tags(s, "open1"), Tags(s, "close1")) # Tags(s, "open1")

\* A call without a wrapper is kept while the closing tag may still come.
KeepFrom(s, first, ends) ==
  /\ ~\E i \in Tags(s, "open1") : i <= first
  /\ \/ \E i \in Tags(s, "close1") : i > first
     \/ Blank(SubSeq(s, first + 1, Len(s)))
     \/ ends # {} /\ Blank(SubSeq(s, Min(ends) + 1, Len(s)))
shouldKeepBareInvokeCapture(s) ==
  /\ Tags(s, "invoke") # {}
  /\ KeepFrom(s, Min(Tags(s, "invoke")),
              {i \in Tags(s, "endInvoke") : i > Min(Tags(s, "invoke"))})

AsText(s) == [NotReady EXCEPT !.ready = TRUE, !.prefix = s]
Captured(s, xml) ==
  IF xml.ready THEN xml
  ELSE IF hasOpenXMLToolTag(s) \/ shouldKeepBareInvokeCapture(s) THEN NotReady
  ELSE AsText(s)
consumeToolCapture(s) == Captured(s, consumeXMLToolCapture(s))

-----------------------------------------------------------------------------
(***************************************************************************)
(* The loop of ProcessChunk, and Flush.                                    *)
(***************************************************************************)

\* Mutant: what follows the block of a call is dropped.
Decide_DropsSuffix(st, part) ==
  [noteText(st, part.prefix) EXCEPT
     !.capture = <<>>, !.calls = IF part.calls = <<>> THEN @ ELSE part.calls,
     !.pending = IF part.calls = <<>> THEN part.suffix ELSE <<>>]

\* The captured text is decided: its prefix is sent, its suffix looked at
\* again.
NoteIfAny(st, text) == IF text = <<>> THEN st ELSE noteText(st, text)
Decide(st, part) ==
  [NoteIfAny(st, part.prefix) EXCEPT
     !.capture = <<>>, !.pending = part.suffix,
     !.calls = IF part.calls = <<>> THEN @ ELSE part.calls]

\* Mutant: the text before the tag is captured with it.
BeginCapture_All(st, start) ==
  [noteText(st, SubSeq(st.pending, 1, start - 1)) EXCEPT
     !.pending = <<>>, !.capture = st.pending]

\* A capture begins at start, after the text before it is sent.
SpanAfter(st, prefix, suffix) ==
  IF prefix # <<>> /\ shouldResetUnclosedMarkdownPrefix(st, prefix, suffix)
  THEN 0 ELSE NoteIfAny(st, prefix).span
SplitAt(st, prefix, suffix) ==
  [NoteIfAny(st, prefix) EXCEPT
     !.pending = <<>>, !.capture = suffix, !.span = SpanAfter(st, prefix, suffix)]
BeginCapture(st, start) ==
  SplitAt(st, SubSeq(st.pending, 1, start - 1),
          SubSeq(st.pending, start, Len(st.pending)))

\* One round of the loop: the state, the events so far, whether it goes on.
Round(st, events, more) == [st |-> st, events |-> events, more |-> more]

Release(x, part) ==
  IF part.ready
  THEN Round(Decide(x.st, part), x.events \o Say(part.prefix), TRUE)
  ELSE Round(x.st, x.events, FALSE)

SendSafe(x, sent) ==
  IF sent = <<>> THEN Round(x.st, x.events, FALSE)
  ELSE Round([noteText(x.st, sent) EXCEPT
                !.pending = SubSeq(@, Len(sent) + 1, Len(@))],
             x.events \o Say(sent), TRUE)

Scan(x, start) ==
  IF start = HoldSegment THEN Round(x.st, x.events, FALSE)
  ELSE IF start # NoSegment
    THEN Round(BeginCapture(x.st, start),
               x.events \o Say(SubSeq(x.st.pending, 1, start - 1)), TRUE)
  ELSE SendSafe(x, SubSeq(x.st.pending, 1,
                          splitSafeContentForToolDetection(x.st, x.st.pending)))

Collect(x) ==
  [x EXCEPT !.st.capture = @ \o x.st.pending, !.st.pending = <<>>]

Turn(x) ==
  IF x.st.capture # <<>>
    THEN Release(Collect(x), consumeToolCapture(x.st.capture \o x.st.pending))
  ELSE IF x.st.pending = <<>> THEN Round(x.st, x.events, FALSE)
  ELSE Scan(x, findToolSegmentStart(x.st, x.st.pending))

RECURSIVE Loop(_)
Loop(x) == IF x.more THEN Loop(Turn(x)) ELSE x

EmitCalls(st) == IF st.calls = <<>> THEN <<>> ELSE <<Calls(st.calls)>>

ProcessChunk(st, chunk) ==
  Loop(Round([st EXCEPT !.pending = @ \o chunk, !.calls = <<>>], EmitCalls(st), TRUE))

\* Backticks that nothing closed are text: what they held back is looked at
\* again.
Again(x) ==
  IF x.st.pending = <<>> \/ x.st.span = 0 THEN x
  ELSE Loop(Round([x.st EXCEPT !.span = 0, !.calls = <<>>],
                  x.events \o EmitCalls(x.st), TRUE))

\* What is left is sent.
Leave(x, part) ==
  Round([NoteIfAny(NoteIfAny(NoteIfAny(x.st, part.prefix), part.suffix), x.st.pending)
           EXCEPT !.pending = <<>>, !.capture = <<>>, !.calls = <<>>],
        x.events \o EmitCalls(x.st) \o Say(part.prefix)
          \o (IF part.calls = <<>> THEN <<>> ELSE <<Calls(part.calls)>>)
          \o Say(part.suffix) \o Say(x.st.pending),
        FALSE)
AtEnd(s, part) == IF part.ready THEN part ELSE AsText(s)
Finish(x) ==
  Leave(x, IF x.st.capture = <<>> THEN NotReady
           ELSE AtEnd(x.st.capture, consumeToolCapture(x.st.capture)))

Flush(st) == Finish(Again(ProcessChunk(st, <<>>)))
=============================================================================
