---------------------------- MODULE AnswerContent ----------------------------
(***************************************************************************)
(* From the lines of the upstream to the thinking and the answer that a    *)
(* client gets, streaming (the line pump and the hook onParsed) or not     *)
(* (CollectStream).                                                        *)
(*                                                                         *)
(* The upstream builds a document of fragments and sends its changes; what *)
(* it may send is taken from the streams recorded in                       *)
(* tests/raw_stream_samples and their description in docs.  It leaves out  *)
(* the path and the operation of a change where they are those of the line *)
(* before.  The parser knows no document: it tells thinking from answer by *)
(* the last fragment it saw begin.  Continuations, and what is cut from    *)
(* replays, are those of ChatStream.                                       *)
(***************************************************************************)
EXTENDS ContentLines, CitationLinks, FiniteSets

CONSTANTS Texts,        \* a number of words to the texts with these words
          MaxLines,     \* the lines with text in an answer
          Results,      \* the pages that the search finds, in order
          UnaskedThinking \* the upstream thinks although it was not asked to

VARIABLES mode,       \* the request: stream, thinking, search, strip; and the first index
          doc,        \* the document: the type and the text of each fragment
          up,         \* the upstream: last path and operation, words, pages sent, stage
          kind,       \* the kind of text that the parser expects
          shown,      \* the thinking and the answer so far
          detection,  \* the thinking in which calls are looked for
          links,      \* the collector
          stopped     \* the parser has seen the end

vars == <<mode, doc, up, kind, shown, detection, links, stopped>>

ContentPath == "response/fragments/-1/content"

Open == up.stage = "open"

Init ==
  /\ mode \in [stream : BOOLEAN, thinking : BOOLEAN, search : BOOLEAN, strip : BOOLEAN,
               base : {0, 1, NoIndex}]
  /\ mode.stream \/ ~mode.search \/ ~mode.strip => mode.base = NoIndex
  /\ doc = <<>>
  /\ up = [path |-> "", op |-> "", words |-> 0, lines |-> 0, found |-> {}, repeated |-> FALSE,
           stage |-> "begin"]
  /\ kind = IF mode.thinking THEN "thinking" ELSE "text"
  /\ shown = [thinking |-> <<>>, text |-> <<>>]
  /\ detection = <<>> /\ links = NoLinks /\ stopped = FALSE

-----------------------------------------------------------------------------
(***************************************************************************)
(* The consumers.                                                          *)
(***************************************************************************)
TrimLeft(t) ==
  LET i == SelectInSeq(t, LAMBDA m : m.is \notin {"blank", "newline"})
  IN  IF i = 0 THEN <<>> ELSE SubSeq(t, i, Len(t))
IsCitation(t) == TrimLeft(t) # <<>> /\ TrimLeft(t)[1].is = "citation"

cleanVisibleOutput(t) ==
  IF mode.strip THEN SelectSeq(t, LAMBDA m : m.is # "reference") ELSE t

\* A stream cleans part by part, and drops the citations of a search.
Streamed(part) ==
  IF mode.search /\ IsCitation(cleanVisibleOutput(part.text)) THEN <<>>
  ELSE cleanVisibleOutput(part.text)
Delivered(part) == IF mode.stream THEN Streamed(part) ELSE part.text

Texted(parts, k) ==
  FoldLeft(LAMBDA t, part : t \o Delivered(part), <<>>, OfKind(parts, {k}))

\* One line.  CollectStream goes on for the sake of the pages after the end, a
\* stream does not.
Consume(line, results) ==
  LET r == ParseContentLine(line, mode.thinking, kind)
  IN  /\ links' = ingest(links, results)
      /\ IF stopped
         THEN UNCHANGED <<kind, shown, detection, stopped>>
         ELSE /\ kind' = r.kind
              /\ stopped' = r.stop
              /\ shown' = [thinking |-> shown.thinking \o Texted(r.parts, "thinking"),
                           text |-> shown.text \o Texted(r.parts, "text")]
              /\ detection' = FoldLeft(LAMBDA t, part : t \o part.text, detection, r.detection)

\* The answer of a client that does not stream.
Answer ==
  IF mode.search THEN ReplaceCitationMarkersWithLinks(cleanVisibleOutput(shown.text), build(links))
  ELSE cleanVisibleOutput(shown.text)

-----------------------------------------------------------------------------
(***************************************************************************)
(* The upstream.                                                           *)
(***************************************************************************)
Sends(path, op, value, results) ==
  /\ Consume(Line(IF path = up.path THEN "" ELSE path,
                  IF path = up.path \/ op = up.op THEN "" ELSE op, value), results)
  /\ UNCHANGED mode

\* The upstream after a change; w more words, l more lines.
Sent(path, op, w, l) ==
  [up EXCEPT !.path = path, !.op = op, !.words = @ + w, !.lines = @ + l]

LastType == IF doc = <<>> THEN "none" ELSE Last(doc).type

Words(t) == Cardinality({i \in DOMAIN t : t[i].is = "word"})

\* The texts of a fragment that the upstream may send next.
Fragment(type, text) == [type |-> type, content |-> text]
MayThink(type) == type = "THINK" => mode.thinking \/ UnaskedThinking
TextsOf(type) ==
  {t \in Texts[up.words] : \A i \in DOMAIN t :
     /\ t[i].is \in {"open", "close"} => type = "THINK"
     /\ t[i].is \in {"citation", "reference"} => type = "RESPONSE" /\ mode.search}

Grow(text) == [doc EXCEPT ![Len(doc)].text = Append(@, text)]
NewFragment(type, text) == Append(doc, [type |-> type, text |-> <<text>>])

More == Open /\ up.lines < MaxLines

\* The response as it is at the beginning.
Begin ==
  /\ up.stage = "begin"
  /\ \E type \in {"THINK", "RESPONSE"} : \E t \in TextsOf(type) :
       /\ MayThink(type)
       /\ doc' = NewFragment(type, t)
       /\ Consume(Line("", "", ResponseOf(<<Fragment(type, t)>>)), <<>>)
       /\ up' = [Sent("", "", Words(t), 1) EXCEPT !.stage = "open"]
  /\ UNCHANGED mode

MoreText ==
  /\ More /\ LastType \in {"THINK", "RESPONSE"} /\ up.path # "elapsed"
  /\ \E t \in TextsOf(LastType) :
       /\ doc' = Grow(t)
       /\ Sends(ContentPath, "APPEND", TextOf(t), <<>>)
       /\ up' = Sent(ContentPath, "APPEND", Words(t), 1)

\* A marker comes with what it refers to.
Refer ==
  /\ More /\ LastType = "RESPONSE"
  /\ \E t \in TextsOf("RESPONSE") :
       /\ \E i \in DOMAIN t : t[i].is = "reference"
       /\ doc' = Grow(t)
       /\ Sends("response/fragments/-1", "BATCH",
                PatchesOf(<<Line("content", "APPEND", TextOf(t)),
                            Line("references", "SET", OtherValue)>>), <<>>)
       /\ up' = Sent("response/fragments/-1", "BATCH", Words(t), 1)

\* Thinking ends with the time that it took.
Elapsed ==
  /\ Open /\ LastType = "THINK" /\ up.path # "elapsed"
  /\ Consume(Line("response/fragments/-1/elapsed_secs", "SET", OtherValue), <<>>)
  /\ up' = [up EXCEPT !.path = "elapsed", !.op = "SET"]
  /\ UNCHANGED <<mode, doc>>

MayFollow(type) ==
  /\ LastType \in {"THINK", "TOOL_SEARCH"} /\ (LastType = "THINK" => up.path = "elapsed")
  /\ MayThink(type)

NextFragment ==
  /\ More
  /\ \E type \in {"THINK", "RESPONSE"} : \E t \in TextsOf(type) :
       /\ MayFollow(type)
       /\ doc' = NewFragment(type, t)
       /\ \/ /\ type = "RESPONSE"
             /\ Sends("response/fragments", "APPEND", FragmentsOf(<<Fragment(type, t)>>), <<>>)
             /\ up' = Sent("response/fragments", "APPEND", Words(t), 1)
          \/ /\ Sends("response", "BATCH",
                      PatchesOf(<<Line("fragments", "APPEND", FragmentsOf(<<Fragment(type, t)>>)),
                                  Line("has_pending_fragment", "SET", OtherValue)>>), <<>>)
             /\ up' = Sent("response", "BATCH", Words(t), 1)

\* A search, and the line, which says nothing, that ends it.
Search ==
  /\ Open /\ mode.search /\ LastType = "THINK" /\ up.path = "elapsed"
  /\ \A i \in DOMAIN doc : doc[i].type # "TOOL_SEARCH"
  /\ doc' = NewFragment("TOOL_SEARCH", <<>>)
  /\ Sends("response", "BATCH",
           PatchesOf(<<Line("fragments", "APPEND", FragmentsOf(<<Fragment("TOOL_SEARCH", <<>>)>>)),
                       Line("has_pending_fragment", "SET", OtherValue)>>), <<>>)
  /\ up' = Sent("response/has_pending_fragment", "SET", 0, 0)

IndexOf(i) == IF mode.base = NoIndex THEN NoIndex ELSE i - 1 + mode.base

\* The pages that a search found.
Pages ==
  /\ mode.search
  /\ \/ Open /\ LastType = "TOOL_SEARCH"
     \/ up.stage = "finished" /\ ~mode.stream /\ up.found = {}
  /\ \E i \in DOMAIN Results :
       /\ i \in up.found => ~up.repeated
       /\ Consume(Line("response/fragments/-1/results", "SET", OtherValue),
                  <<Result(Results[i], IndexOf(i))>>)
       /\ up' = [Sent("response/fragments/-1/results", "SET", 0, 0) EXCEPT
                   !.found = @ \union {i}, !.repeated = @ \/ i \in up.found]
  /\ UNCHANGED <<mode, doc>>

\* A note that the answer was written by a machine.
Tip ==
  /\ Open /\ LastType = "RESPONSE"
  /\ doc' = NewFragment("TIP", <<Mark("tip")>>)
  /\ Sends("response/fragments", "APPEND", FragmentsOf(<<Fragment("TIP", <<Mark("tip")>>)>>), <<>>)
  /\ up' = Sent("response/fragments", "APPEND", 0, 0)

\* The end: the usage, and the status.  (An answer with the status INCOMPLETE is
\* continued by another request.)
Status ==
  /\ up.stage = "closing"
  /\ Consume(Line("response/status", "SET", StatusOf("FINISHED")), <<>>)
  /\ up' = [up EXCEPT !.path = "response/status", !.op = "SET",
                      !.stage = "finished"]
  /\ UNCHANGED <<mode, doc>>

Usage ==
  /\ Open /\ LastType # "TOOL_SEARCH" /\ up.path # "response"
  /\ Sends("response", "BATCH", PatchesOf(<<Line("accumulated_token_usage", "", OtherValue),
                                            Line("quasi_status", "", StatusOf("FINISHED"))>>), <<>>)
  /\ up' = [Sent("response", "BATCH", 0, 0) EXCEPT !.stage = "closing"]
  /\ UNCHANGED doc

\* A refusal replaces the answer by a template.
Refuse ==
  /\ up.stage = "closing"
  /\ Sends("response", "BATCH",
           PatchesOf(<<Line("ban_regenerate", "", OtherValue),
                       Line("status", "", StatusOf("CONTENT_FILTER")),
                       Line("fragments", "", FragmentsOf(<<Fragment("TEMPLATE_RESPONSE", <<Mark("tip")>>)>>)),
                       Line("quasi_status", "", StatusOf("CONTENT_FILTER"))>>), <<>>)
  /\ up' = [Sent("response", "BATCH", 0, 0) EXCEPT !.stage = "finished"]
  /\ UNCHANGED doc

Next ==
  \/ Begin \/ MoreText \/ Refer \/ Elapsed \/ NextFragment
  \/ Search \/ Pages \/ Tip \/ Usage \/ Status \/ Refuse

Spec == Init /\ [][Next]_vars

-----------------------------------------------------------------------------
(***************************************************************************)
(* Properties.                                                             *)
(***************************************************************************)

\* What a piece of a fragment says: without the leaked word and the blanks before it.
Said(pieces) == FoldLeft(LAMBDA t, p : t \o stripLeakedContentFilterSuffix(p), <<>>, pieces)

ThoughtOf(f) ==
  IF f.type # "THINK" THEN <<>>
  ELSE IF FirstOf(Said(f.text), "close") = 0 THEN Said(f.text)
  ELSE Before(Said(f.text), FirstOf(Said(f.text), "close"))

AnswerOf(f) ==
  CASE f.type = "RESPONSE" -> Said(f.text)
    [] f.type = "THINK" /\ FirstOf(Said(f.text), "close") # 0 ->
         stripThinkTags(After(Said(f.text), FirstOf(Said(f.text), "close")))
    [] OTHER -> <<>>

InDocument(Of(_)) == FoldLeft(LAMBDA t, f : t \o Of(f), <<>>, doc)

Thought == InDocument(ThoughtOf)
Only(t, kinds) == SelectSeq(t, LAMBDA m : m.is \in kinds)

Hidden(t) == Only(t, {"word", "blank", "newline"})

\* The answer is delivered whole and in order, with its blanks and line breaks, and
\* so is the thinking that the client asked for, which is also what calls are looked
\* for in: parser.go and onParsed, though the parser sees no document and the kind
\* of a text changes with a batch, a fragment or a closing tag.  A note at its end
\* may be delivered or not; markers that are dropped from a stream are.
ContentIsKept ==
  IF mode.thinking
  THEN /\ shown.thinking = Thought /\ detection = Thought
       /\ Hidden(shown.text) = Hidden(InDocument(AnswerOf))
  ELSE /\ shown.thinking = <<>>
       /\ LET thoughts == {Thought[i] : i \in DOMAIN Thought}
          IN  SelectSeq(Only(shown.text, {"word"}), LAMBDA m : m \notin thoughts)
              = Only(InDocument(AnswerOf), {"word"})

\* Every citation of an answer that does not stream is a link to the result it
\* counts, where the results have no index or count from 1, and where they count
\* from 0 in the order in which they come, each once (citation_links.go:58).
InOrderOnce == ~up.repeated /\ links.ordered = SubSeq(Results, 1, Len(links.ordered))
Cited(n) ==
  IF mode.base = NoIndex THEN links.ordered[n] ELSE Results[n]
Known(n) ==
  IF mode.base = NoIndex THEN n \in DOMAIN links.ordered ELSE n \in up.found
CitationsLeadToTheirResult ==
  (mode.search /\ ~mode.stream /\ (mode.base = 0 => InOrderOnce)) =>
    \A i \in DOMAIN Answer :
      /\ Answer[i].is = "citation" => ~Known(Answer[i].n)
      /\ (Answer[i].is = "link" /\ Known(Answer[i].n)) => Answer[i].url = Cited(Answer[i].n)

\* A client that did not ask for thinking does not get it as its answer
\* (docs/prompt-compatibility.md:109).
HiddenThinkingStaysHidden ==
  ~mode.thinking =>
    \A i \in DOMAIN shown.text : shown.text[i].is = "word" =>
      \A j \in DOMAIN Thought : Thought[j] # shown.text[i]
=============================================================================
