----------------------------- MODULE ToolMarkup -----------------------------
(***************************************************************************)
(* Finding and parsing tool calls in the text of an answer.                *)
(*                                                                         *)
(* A text is a sequence of pieces.  A piece has a kind, which is all the   *)
(* scanners look at, and its place in the answer, by which it is told from *)
(* the others: "word", "nl" (a line break), "tick" (one backtick), the     *)
(* halves of a wrapper tag ("open1", "open2" for <tool_calls>, "close1",   *)
(* "close2" for </tool_calls>), since a chunk may end inside a tag, and    *)
(* "invoke" and "endInvoke", the tags of one call.  Left out are the       *)
(* spellings of a tag, CDATA and comments, tildes, and the arguments of a  *)
(* call.                                                                   *)
(***************************************************************************)
EXTENDS Naturals, Sequences, SequencesExt, FiniteSetsExt

Kinds == {"word", "nl", "tick", "open1", "open2", "close1", "close2",
          "invoke", "endInvoke"}

Is(s, i, kind) == i \in DOMAIN s /\ s[i].kind = kind

Blank(s) == \A i \in DOMAIN s : s[i].kind = "nl"

TrimLeft(s) ==
  LET solid == {i \in DOMAIN s : s[i].kind # "nl"} IN
  IF solid = {} THEN <<>> ELSE SubSeq(s, Min(solid), Len(s))

TrimRight(s) ==
  LET solid == {i \in DOMAIN s : s[i].kind # "nl"} IN
  IF solid = {} THEN <<>> ELSE SubSeq(s, 1, Max(solid))

TrimSpace(s) == TrimLeft(TrimRight(s))

\* The places of s, and F of those in S, in order.
Order(s) == [i \in DOMAIN s |-> i]
InOrder(s, S, F(_)) ==
  FoldLeft(LAMBDA seq, i : IF i \in S THEN Append(seq, F(i)) ELSE seq, <<>>, Order(s))

-----------------------------------------------------------------------------
(***************************************************************************)
(* Backticks.                                                              *)
(***************************************************************************)

\* The backticks from i on.
RunAt(s, i) ==
  Cardinality({j \in i..Len(s) : \A k \in i..j : s[k].kind = "tick"})

\* The places where a run of backticks begins.
RunStarts(s) == {i \in DOMAIN s : Is(s, i, "tick") /\ ~Is(s, i - 1, "tick")}

\* Where the code span that the backticks at i open ends; 0 when nothing
\* closes it.
Closings(s, i) == {j \in RunStarts(s) : j > i /\ RunAt(s, j) = RunAt(s, i)}
SpanEnd(s, i) ==
  IF Is(s, i, "tick") /\ Closings(s, i) # {}
  THEN Min(Closings(s, i)) + RunAt(s, i) ELSE 0

RECURSIVE StripFrom(_, _, _)
StripFrom(s, i, fence) ==
  IF i > Len(s) THEN <<>>
  ELSE LET breaks == {j \in i..Len(s) : s[j].kind = "nl"}
           last == IF breaks = {} THEN Len(s) ELSE Min(breaks)
           n == RunAt(s, i)
           closes == n >= fence /\ Blank(SubSeq(s, i + n, last))
       IN  IF fence # 0
             THEN StripFrom(s, last + 1, IF closes THEN 0 ELSE fence)
           ELSE IF n >= 3 THEN StripFrom(s, last + 1, n)
           ELSE SubSeq(s, i, last) \o StripFrom(s, last + 1, 0)

\* The lines outside fenced code blocks; a block that is not closed takes the
\* rest of the text with it.
stripFencedCodeBlocks(s) == StripFrom(s, 1, 0)

-----------------------------------------------------------------------------
(***************************************************************************)
(* Tags.                                                                   *)
(***************************************************************************)

TagAt(s, i) ==
  \/ Is(s, i, "invoke") \/ Is(s, i, "endInvoke")
  \/ Is(s, i, "open1") /\ Is(s, i + 1, "open2")
  \/ Is(s, i, "close1") /\ Is(s, i + 1, "close2")

TagEnd(s, i) == IF s[i].kind \in {"open1", "close1"} THEN i + 1 ELSE i

\* The tags from i on that are not inside a code span.
RECURSIVE TagsFrom(_, _)
TagsFrom(s, i) ==
  IF i > Len(s) THEN {}
  ELSE IF SpanEnd(s, i) # 0 THEN TagsFrom(s, SpanEnd(s, i))
  ELSE IF TagAt(s, i) THEN {i} \union TagsFrom(s, TagEnd(s, i) + 1)
  ELSE TagsFrom(s, i + 1)

Tags(s, kind) == {i \in TagsFrom(s, 1) : s[i].kind = kind}

\* The tag of places that closes the one at i, by depth; 0 when none does.
Ends(opens, closes, i) ==
  {j \in closes :
     /\ i < j
     /\ Cardinality({k \in opens : i <= k /\ k <= j})
        = Cardinality({k \in closes : i < k /\ k <= j})}
CloseOf(opens, closes, i) ==
  IF Ends(opens, closes, i) = {} THEN 0 ELSE Min(Ends(opens, closes, i))

\* The elements that are closed and not inside another one.
Outside(element, closed, opens, closes) ==
  \A j \in closed : ~(j < element /\ element < CloseOf(opens, closes, j))
Outermost(closed, opens, closes) ==
  {i \in closed : Outside(i, closed, opens, closes)}
Elements(opens, closes) ==
  Outermost({i \in opens : Ends(opens, closes, i) # {}}, opens, closes)

-----------------------------------------------------------------------------
(***************************************************************************)
(* Parsing.  A call is named by the place of its invoke tag.               *)
(***************************************************************************)

\* The calls of the body of a wrapper.  The arguments are left out, so an
\* invoke with anything else in it is not a call.
Kind(s, kind) == {i \in DOMAIN s : s[i].kind = kind}
IsCall(body, i) ==
  Blank(SubSeq(body, i + 1,
               CloseOf(Kind(body, "invoke"), Kind(body, "endInvoke"), i) - 1))
InvokeCalls(body) ==
  InOrder(body, {i \in Elements(Kind(body, "invoke"), Kind(body, "endInvoke")) :
                   IsCall(body, i)},
          LAMBDA i : body[i].at)

\* The body of a text that lacks the opening tag: from its first invoke, as if
\* the tag stood before it, to the next closing tag.
RepairedBody(s, first, closes) ==
  IF \E i \in closes : i > first
  THEN <<SubSeq(s, first, Min({i \in closes : i > first}) - 1)>>
  ELSE <<>>

\* The bodies of the wrappers.
BodiesOf(s, opens, closes, invokes) ==
  IF opens = {}
  THEN IF invokes = {} THEN <<>> ELSE RepairedBody(s, Min(invokes), closes)
  ELSE InOrder(s, Elements(opens, closes),
               LAMBDA i : SubSeq(s, i + 2, CloseOf(opens, closes, i) - 1))
WrapperBodies(s) ==
  BodiesOf(s, Tags(s, "open1"), Tags(s, "close1"), Tags(s, "invoke"))

\* parseToolCallsDetailedXMLOnly: the calls of a text.
ParseCalls(text) ==
  FoldLeft(LAMBDA calls, body : calls \o InvokeCalls(body), <<>>,
           WrapperBodies(TrimSpace(stripFencedCodeBlocks(TrimSpace(text)))))

\* The calls of an answer: those of the text, or those of the thinking when
\* there is no text.
DetectAssistantToolCalls(text, thinking) ==
  ParseCalls(IF Blank(text) THEN thinking ELSE text)
=============================================================================
