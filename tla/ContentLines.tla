---------------------------- MODULE ContentLines -----------------------------
(***************************************************************************)
(* What one line of DeepSeek's answer says: the parts of text in it,       *)
(* whether each is thinking or answer, and whether the answer stops        *)
(* (package sse, parser.go, line.go and content_filter_leak.go).           *)
(*                                                                         *)
(* A line is a patch [path, op, value] of the document that the upstream   *)
(* builds; path is "" where the upstream leaves it out.  A value is a      *)
(* text, a status, a list of fragments, a list of patches, the response    *)
(* itself (with the fragments it has so far), or something else.  A text   *)
(* is a sequence of marks [is, n]: a word, a blank, a line break, a think  *)
(* tag ("open", "close"), the leaked word CONTENT_FILTER ("leak"), a       *)
(* citation or a reference.  JSON, letter case, and the format without     *)
(* fragments that the upstream no longer uses are left out, except where   *)
(* resolvePartType names that format.                                      *)
(***************************************************************************)
EXTENDS Naturals, Sequences, SequencesExt

TextOf(t)       == [is |-> "text", text |-> t]
StatusOf(w)     == [is |-> "status", word |-> w]
FragmentsOf(fs) == [is |-> "fragments", list |-> fs]
PatchesOf(ps)   == [is |-> "patches", list |-> ps]
ResponseOf(fs)  == [is |-> "response", list |-> fs]
OtherValue      == [is |-> "other"]

Mark(is) == [is |-> is, n |-> 0]

Line(path, op, value) == [path |-> path, op |-> op, value |-> value]

SkippedPaths ==
  {"quasi_status", "has_pending_fragment",
   "response/fragments/-1/elapsed_secs", "response/fragments/-1/status"}
StatusPaths == {"response/status", "status"}

Part(text, kind) == [text |-> text, kind |-> kind]

\* The parts of a list of fragments, and the kind of text that follows them.
KindOf(type, default) ==
  CASE type = "THINK" -> "thinking" [] type = "RESPONSE" -> "text" [] OTHER -> default
FragmentParts(fs, default) ==
  FoldLeft(LAMBDA parts, f : IF f.content = <<>> THEN parts
                             ELSE Append(parts, Part(f.content, KindOf(f.type, default))),
           <<>>, fs)
KindAfter(fs, kind) == FoldLeft(LAMBDA k, f : KindOf(f.type, k), kind, fs)

Appends(patch, path) ==
  patch.path = path /\ patch.op = "APPEND" /\ patch.value.is = "fragments"

\* New fragments, appended directly.
collectDirectFragments(line) ==
  IF Appends(line, "response/fragments") THEN FragmentParts(line.value.list, "text") ELSE <<>>

\* The kind after the new fragments of a line, appended directly or in a batch.
NewKind(line, kind) ==
  CASE Appends(line, "response/fragments") -> KindAfter(line.value.list, kind)
    [] line.path = "response" /\ line.value.is = "patches" ->
         FoldLeft(LAMBDA k, p : IF Appends(p, "fragments") THEN KindAfter(p.value.list, k) ELSE k,
                  kind, line.value.list)
    [] OTHER -> kind

\* The kind of a text that does not say it.
resolvePartType(path, thinkingEnabled, kind) ==
  CASE path = "response/thinking_content" ->
         IF thinkingEnabled /\ kind = "text" THEN "text" ELSE "thinking"
    [] path = "response/fragments/-1/content" -> kind
    [] path = "" /\ thinkingEnabled -> kind
    [] OTHER -> "text"

Finishes(patch) ==
  patch.path \in StatusPaths /\ patch.value.is = "status" /\ patch.value.word = "FINISHED"

\* The parts of one patch of a batch.
PatchParts(patch, default) ==
  LET kind == IF patch.path \in {"content", "fragments", "response"} THEN "text" ELSE default
  IN  CASE patch.path \in StatusPaths \union SkippedPaths -> <<>>
        [] patch.value.is = "text" -> <<Part(patch.value.text, kind)>>
        [] patch.value.is = "fragments" -> FragmentParts(patch.value.list, kind)
        [] OTHER -> <<>>

\* The parts of a value, those of default kind included.
ValueParts(value, default) ==
  CASE value.is = "text"     -> IF value.text = <<>> THEN <<>> ELSE <<Part(value.text, default)>>
    [] value.is = "patches"  ->
         FoldLeft(LAMBDA parts, p : parts \o PatchParts(p, default), <<>>, value.list)
    [] value.is = "response" -> FragmentParts(value.list, default)
    [] OTHER -> <<>>

-----------------------------------------------------------------------------
(***************************************************************************)
(* Think tags and leaks.                                                   *)
(***************************************************************************)
stripThinkTags(t) == SelectSeq(t, LAMBDA m : m.is \notin {"open", "close"})

NonEmpty(text, kind) == IF text = <<>> THEN <<>> ELSE <<Part(text, kind)>>

FirstOf(t, kind) == SelectInSeq(t, LAMBDA m : m.is = kind)
Before(t, i) == SubSeq(t, 1, i - 1)
After(t, i)  == SubSeq(t, i + 1, Len(t))

Closes(part) == part.kind = "thinking" /\ FirstOf(part.text, "close") # 0

\* Thinking ends with a closing tag, whatever the upstream says of the rest.
SplitPart(part, done) ==
  IF part.kind # "thinking" \/ done
    THEN NonEmpty(stripThinkTags(part.text), IF done THEN "text" ELSE part.kind)
  ELSE IF ~Closes(part) THEN <<part>>
  ELSE NonEmpty(Before(part.text, FirstOf(part.text, "close")), "thinking")
       \o NonEmpty(stripThinkTags(After(part.text, FirstOf(part.text, "close"))), "text")

splitThinkingParts(parts) ==
  FoldLeft(LAMBDA s, part : [parts |-> s.parts \o SplitPart(part, s.closed),
                             closed |-> s.closed \/ Closes(part)],
           [parts |-> <<>>, closed |-> FALSE], parts)

\* A text up to the word CONTENT_FILTER that leaked into it.
RECURSIVE TrimBlanks(_)
TrimBlanks(t) ==
  IF t # <<>> /\ Last(t).is = "blank" THEN TrimBlanks(Front(t)) ELSE t
stripLeakedContentFilterSuffix(t) ==
  IF FirstOf(t, "leak") = 0 THEN t ELSE TrimBlanks(Before(t, FirstOf(t, "leak")))

filterLeakedContentFilterParts(parts) ==
  FoldLeft(LAMBDA out, part : out \o NonEmpty(stripLeakedContentFilterSuffix(part.text), part.kind),
           <<>>, parts)

-----------------------------------------------------------------------------
(***************************************************************************)
(* Lines.                                                                  *)
(***************************************************************************)
OfKind(parts, kinds) == SelectSeq(parts, LAMBDA part : part.kind \in kinds)

\* Mutant: the text after a closing tag is again of the old kind.
NextKind_Forgets(thinkingEnabled, split, kind) ==
  IF ~thinkingEnabled THEN "text" ELSE kind

\* The kind of the lines that follow.
NextKind(thinkingEnabled, split, kind) ==
  IF split.closed \/ ~thinkingEnabled THEN "text" ELSE kind

Nothing(kind) ==
  [stop |-> FALSE, filtered |-> FALSE, parts |-> <<>>, detection |-> <<>>, kind |-> kind]

\* ParseSSEChunkForContentDetailed: a finish mark hides whatever else a line has.
ParseChunk(line, thinkingEnabled, kind) ==
  LET now     == IF line.value.is = "response" THEN KindAfter(line.value.list, kind)
                 ELSE NewKind(line, kind)
      default == resolvePartType(line.path, thinkingEnabled, NewKind(line, kind))
      split   == splitThinkingParts(collectDirectFragments(line) \o ValueParts(line.value, default))
  IN  IF line.path \in SkippedPaths THEN Nothing(kind)
      ELSE IF line.value.is = "status" THEN [Nothing(kind) EXCEPT !.stop = Finishes(line)]
      ELSE IF line.value.is = "patches" /\ \E i \in DOMAIN line.value.list : Finishes(line.value.list[i])
      THEN [Nothing(now) EXCEPT !.stop = TRUE]
      ELSE [Nothing(NextKind(thinkingEnabled, split, now)) EXCEPT
              !.parts = OfKind(split.parts, IF thinkingEnabled THEN {"thinking", "text"} ELSE {"text"}),
              !.detection = OfKind(split.parts, {"thinking"})]

\* A status of the line or of a patch in it says that the answer was refused.
Refuses(patch) ==
  /\ patch.path \in StatusPaths \union {"quasi_status"}
  /\ patch.value.is = "status" /\ patch.value.word = "CONTENT_FILTER"
hasContentFilterStatus(line) ==
  \/ Refuses(line)
  \/ line.value.is = "patches" /\ \E i \in DOMAIN line.value.list : Refuses(line.value.list[i])

\* ParseDeepSeekContentLine.
ParseContentLine(line, thinkingEnabled, kind) ==
  IF line.value.is = "error" THEN [Nothing(kind) EXCEPT !.stop = TRUE]
  ELSE IF hasContentFilterStatus(line)
  THEN [Nothing(kind) EXCEPT !.stop = TRUE, !.filtered = TRUE]
  ELSE LET chunk == ParseChunk(line, thinkingEnabled, kind)
       IN  [chunk EXCEPT !.parts = filterLeakedContentFilterParts(@),
                         !.detection = filterLeakedContentFilterParts(@)]
=============================================================================
