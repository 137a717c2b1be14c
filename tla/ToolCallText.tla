---------------------------- MODULE ToolCallText ----------------------------
(***************************************************************************)
(* A call on its way round: a client sends the calls of earlier turns, the *)
(* prompt shows them, the model writes such a call, in a spelling of its   *)
(* own, the tag arrives piece by piece, the call is read and its arguments *)
(* become what the tool declares before the client gets them.              *)
(***************************************************************************)
EXTENDS ToolTags, ToolArguments

CONSTANTS
  Calls,     \* the calls of the client: their arguments, and what is declared of each
  Sample,    \* the one whose tag comes in every spelling
  Spellings, \* of a tag
  Usual      \* the spelling of the prompt

ASSUME ToolCallTextAssumption == Sample \in Calls /\ Usual \in Spellings

VARIABLES
  call,     \* the call that the client sent
  args,     \* its arguments as they are read
  shown,    \* how the prompt or the model writes them
  spelling, \* of the tag that the model writes
  got,      \* how many marks of it have arrived
  tag,      \* that is recognised in them
  leaked,   \* a part of it was sent as text
  stage

vars == <<call, args, shown, spelling, got, tag, leaked, stage>>

\* The tag, and the first mark of what follows it.
Text == spelling.open \o spelling.slash \o spelling.prefix \o spelling.name
        \o spelling.separator \o spelling.tail \o <<"v">>

TypeOK ==
  /\ call \in Calls /\ spelling \in Spellings
  /\ got \in 0..Len(Text) /\ leaked \in BOOLEAN
  /\ stage \in {"client", "prompt", "arriving", "read", "parsed", "delivered"}

Init ==
  /\ call \in Calls /\ args = call.args /\ shown = <<>>
  /\ spelling = Usual /\ got = 0 /\ tag = NoTag /\ leaked = FALSE
  /\ stage = "client"

-----------------------------------------------------------------------------
FormatToolCallsForPrompt ==
  /\ stage = "client" /\ stage' = "prompt"
  /\ shown' = formatToolCallParametersForPrompt(args)
  /\ UNCHANGED <<call, args, spelling, got, tag, leaked>>

\* The model writes what the prompt shows, or drops the CDATA sections of whole
\* parameters; those in elements stay.  To keep the instance small only the sample
\* has other tags than the prompt, and tags that come in parts.
Write ==
  /\ stage = "prompt" /\ stage' = "arriving"
  /\ \/ shown' = shown
     \/ shown' = [name \in DOMAIN shown |->
                    IF shown[name].is = "cdata" THEN Bare(shown[name].text) ELSE shown[name]]
  /\ IF call = Sample THEN spelling' \in Spellings /\ got' = 0 /\ tag' = NoTag
     ELSE spelling' = spelling /\ got' = Len(Text) /\ tag' = scanToolMarkupTag(Text)
  /\ UNCHANGED <<call, args, leaked>>

\* What is neither a tag nor the beginning of one is sent as text.
Arrive ==
  /\ stage = "arriving" /\ got < Len(Text)
  /\ got' = got + 1
  /\ tag' = scanToolMarkupTag(Upto(Text, got + 1))
  /\ leaked' = (leaked \/ (tag' = NoTag /\ ~IsPartialToolMarkupTagPrefix(Upto(Text, got + 1))))
  /\ UNCHANGED <<call, args, shown, spelling, stage>>

Whole == stage = "arriving" /\ got = Len(Text)

Recognise ==
  /\ Whole /\ tag.name = "invoke" /\ ~tag.closing
  /\ stage' = "read"
  /\ UNCHANGED <<call, args, shown, spelling, got, tag, leaked>>

ParseToolCalls ==
  /\ stage = "read" /\ stage' = "parsed"
  /\ args' = parseSingleXMLToolCall(shown)
  /\ UNCHANGED <<call, shown, spelling, got, tag, leaked>>

NormalizeParsedToolCallsForSchemas ==
  /\ stage = "parsed" /\ stage' = "delivered"
  /\ args' = normalizeToolValueWithSchema(Object(args), call.declared).fields
  /\ UNCHANGED <<call, shown, spelling, got, tag, leaked>>

Next ==
  \/ FormatToolCallsForPrompt \/ Write \/ Arrive \/ Recognise
  \/ ParseToolCalls \/ NormalizeParsedToolCallsForSchemas

Spec == Init /\ [][Next]_vars

-----------------------------------------------------------------------------
(***************************************************************************)
(* Properties.                                                             *)
(***************************************************************************)
Meant   == IF Has(spelling.name, {"calls"}) THEN "tool_calls" ELSE "invoke"
Closing == spelling.slash # <<>>

\* A tag that is recognised is the tag that was meant, and the parser gets it in one
\* form, whatever stands before and behind its name and whichever attributes it has.
TagsAreRead ==
  (Whole /\ tag # NoTag) =>
    /\ tag.name = Meant /\ tag.closing = Closing
    /\ normalizeDSMLToolCallMarkup(Text, tag) =
         <<"<">> \o (IF Closing THEN <<"/">> ELSE <<>>) \o RawOf(Meant)
         \o (IF Has(spelling.tail, {"name"})
             THEN <<" ", "name", "=", "q">> \o spelling.value \o <<"q">> ELSE <<>>)
         \o (IF IsSuffix(<<"/", ">">>, spelling.tail) THEN <<"/">> ELSE <<>>) \o <<">">>

\* A tag that is written as the documents say (toolcall-semantics.md, sections 2 and
\* 3) is recognised, and no part of it is sent as text however it arrives.
Documented ==
  /\ spelling.open[1] = "<" /\ ~Has(spelling.prefix \o spelling.name, {"zw", "cyr", "v"})
  /\ ~Has(spelling.value, TagEnds)
  /\ spelling.prefix = <<>> => \E n \in Names : n.raw = spelling.name /\ ~n.dsmlOnly
TagsAreHeldBack == (Whole /\ Documented) => tag # NoTag /\ ~leaked

\* A value whose markup can only be read as what it is, in the place where it is
\* shown: the section of a whole parameter, a parameter without one, or an element.
\* In an element a list has two items; no list is in a list, an object is not an
\* item, and its fields have no colon; a text that looks like JSON is declared to be
\* a text and is an object, a number or a list of its own; only a parameter's own
\* section keeps entities, and every section keeps blanks.
RECURSIVE Unmistakable(_, _, _)
Unmistakable(v, declared, place) ==
  CASE v.is = "string" ->
         \/ v.text.as = "words"
         \/ v.text.as = "padded" /\ place # "bare"
         \/ v.text.as = "entity" /\ (v.text.depth = 0 \/ place = "section")
         \/ /\ v.text.as = "json" /\ v.text.compact /\ v.text.value.is \notin {"null", "string"}
            /\ declared.is = "string"
    [] v.is = "list" ->
         /\ declared.is # "string" /\ Len(v.items) > (IF place = "element" THEN 1 ELSE 0)
         /\ \A i \in DOMAIN v.items :
              /\ Unmistakable(v.items[i], OfItem(declared), "element")
              /\ ~Array(v.items[i])
              /\ v.items[i].is = "string" => ~Array(Literal(v.items[i].text))
    [] v.is = "object" ->
         /\ declared.is # "string" /\ DOMAIN v.fields \notin {{}, {"item"}}
         /\ \A k \in DOMAIN v.fields :
              /\ isValidPromptXMLName(k) /\ LocalName(k) = k
              /\ Unmistakable(v.fields[k], OfField(declared, k), "element")
    [] OTHER -> v.is # "null" /\ declared.is # "string"

Place(k) == IF k \in DOMAIN shown /\ shown[k].is = "cdata" THEN "section" ELSE "bare"

\* What the model repeats is what the client sent: an argument that is unmistakable
\* where it is shown comes back as it was, its strings as strings and its lists as
\* lists, also if the model drops the sections of whole parameters.
ArgumentsComeBack ==
  /\ stage = "delivered"
  /\ call.args # <<>>
  /\ \A k \in DOMAIN call.args :
       /\ Unmistakable(call.args[k], OfField(call.declared, k), Place(k))
       /\ coerceArrayValue(call.args[k], k) = call.args[k]
  => args = call.args
=============================================================================
