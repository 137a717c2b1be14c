--------------------------- MODULE ToolArguments ---------------------------
(***************************************************************************)
(* The arguments of a tool call: how the prompt shows those of an earlier  *)
(* call (prompt/tool_calls.go), and what is read from the markup that the  *)
(* model writes (toolcall/toolcalls_parse_markup.go and its helpers).      *)
(*                                                                         *)
(* A value is what JSON has.  A string is what its text can be taken for:  *)
(* words, words between blanks, an "&" written as an entity so and so deep *)
(* ("&amp;" is one deep), JSON, values with commas between them, markup,   *)
(* as it is or escaped so and so deep, or a text that holds the end of a   *)
(* CDATA section, as it is or taken apart so and so many times.  The body  *)
(* of an element is a CDATA section, a text or elements.                   *)
(*                                                                         *)
(* Left out: repairs of broken JSON, control characters, entities in the   *)
(* text of JSON or of markup, and names with two colons.                   *)
(***************************************************************************)
EXTENDS Integers, Sequences, SequencesExt, FiniteSetsExt, TLC

Null      == [is |-> "null"]
Number(n) == [is |-> "number", number |-> n]
Str(t)    == [is |-> "string", text |-> t]
List(s)   == [is |-> "list", items |-> s]
Object(f) == [is |-> "object", fields |-> f]
Array(v)  == v.is = "list"

Words(w)  == [as |-> "words", words |-> w]
Padded(w) == [as |-> "padded", words |-> w]
Entity(n) == [as |-> "entity", depth |-> n]
Json(v)   == [as |-> "json", value |-> v, compact |-> TRUE]
Spaced(v) == [as |-> "json", value |-> v, compact |-> FALSE]
Commas(s) == [as |-> "commas", items |-> s]
Escaped(nodes, n) == [as |-> "markup", nodes |-> nodes, depth |-> n]
Markup(nodes) == Escaped(nodes, 0)
CloseMark(n)  == [as |-> "mark", apart |-> n]
Empty == Words("")

Node(name, body) == [name |-> name, body |-> body]
Bare(t)  == [is |-> "text", text |-> t]
Nodes(s) == IF s = <<>> THEN Bare(Empty) ELSE [is |-> "nodes", nodes |-> s]

\* The names that count as text whatever they hold, short of JSON.
preservesCDATAStringParameter == {"content", "command"}
isValidPromptXMLName(name) == name # "two words"

\* The names of fields, in the order in which they are shown, and what the decoder
\* takes them for: one with a colon loses what stands before it.
FieldNames == <<"a", "content", "item", "p", "two words", "x:a">>
LocalName(name) == IF name = "x:a" THEN "a" ELSE name

-----------------------------------------------------------------------------
(***************************************************************************)
(* How a call is shown.                                                    *)
(***************************************************************************)
renderPromptXMLText(t) == IF t = Empty THEN Bare(Empty) ELSE [is |-> "cdata", text |-> t]

\* An object cannot be shown that has a name which is none of XML.
RECURSIVE Showable(_)
Showable(v) ==
  CASE v.is = "list"   -> \A i \in DOMAIN v.items : Showable(v.items[i])
    [] v.is = "object" -> \A k \in DOMAIN v.fields : isValidPromptXMLName(k) /\ Showable(v.fields[k])
    [] OTHER -> TRUE

\* A list is one element of that name for each of its items.
RECURSIVE renderPromptToolXMLNode(_, _)
renderPromptToolXMLNode(name, v) ==
  CASE v.is = "object" ->
         LET keys == SelectSeq(FieldNames, LAMBDA k : k \in DOMAIN v.fields)
         IN  <<Node(name, Nodes(FlattenSeq([i \in DOMAIN keys |->
                 renderPromptToolXMLNode(keys[i], v.fields[keys[i]])])))>>
    [] v.is = "list" /\ v.items # <<>> ->
         FlattenSeq([i \in DOMAIN v.items |-> renderPromptToolXMLNode(name, v.items[i])])
    [] v.is = "string" -> <<Node(name, renderPromptXMLText(v.text))>>
    [] v.is \in {"number", "bool"} -> <<Node(name, Bare(Json(v)))>>
    [] OTHER -> <<Node(name, Bare(Empty))>>

renderPromptParameterNode(v) ==
  CASE v.is = "object" -> renderPromptToolXMLNode("", v)[1].body
    [] v.is = "list"   -> IF v.items = <<>> THEN Bare(Empty)
                          ELSE Nodes(renderPromptToolXMLNode("item", v))
    [] v.is = "string" -> renderPromptXMLText(v.text)
    [] v.is \in {"number", "bool"} -> renderPromptXMLText(Json(v))
    [] OTHER -> Bare(Empty)

\* The parameters of a call, by name.  Arguments that cannot be shown, or that
\* are none, are shown as JSON in a parameter "content".
formatToolCallParametersForPrompt(args) ==
  IF DOMAIN args # {} /\ \A k \in DOMAIN args : Showable(args[k])
  THEN [k \in DOMAIN args |-> renderPromptParameterNode(args[k])]
  ELSE "content" :> renderPromptXMLText(Json(Object(args)))

-----------------------------------------------------------------------------
(***************************************************************************)
(* How a call is read.                                                     *)
(***************************************************************************)
\* Mutant: the last element of a name counts.
appendXMLChildValue_Last(children, name, v) == (name :> v) @@ children

\* Elements of one name become a list; a list becomes longer.
appendXMLChildValue(children, name, v) ==
  IF name \notin DOMAIN children THEN children @@ (name :> v)
  ELSE [children EXCEPT ![name] = IF Array(@) THEN List(Append(@.items, v)) ELSE List(<<@, v>>)]

UnescapeString(t) ==
  IF t.as \in {"entity", "markup"} THEN [t EXCEPT !.depth = Max({0, @ - 1})] ELSE t
IsMarkup(t)  == t.as = "markup" /\ t.depth = 0
TrimSpace(t) == IF t.as = "padded" THEN Words(t.words) ELSE t

\* Nothing is spared in a body that is more than one section: the sections in its
\* elements are unescaped as well.
RECURSIVE UnescapeBody(_)
UnescapeBody(body) ==
  IF body.is # "nodes" THEN [body EXCEPT !.text = UnescapeString(@)]
  ELSE Nodes([i \in DOMAIN body.nodes |->
                Node(body.nodes[i].name, UnescapeBody(body.nodes[i].body))])

Literal(t) == IF t.as = "json" THEN t.value ELSE Str(t)

RECURSIVE parseXMLNodeValue(_)
parseXMLNodeValue(body) ==
  IF body.is # "nodes" THEN Literal(body.text)
  ELSE LET children == FoldLeft(LAMBDA c, n :
                         appendXMLChildValue(c, LocalName(n.name), parseXMLNodeValue(n.body)),
                         <<>>, body.nodes)
       IN  IF DOMAIN children # {"item"} THEN Object(children)
           ELSE IF Array(children["item"]) THEN children["item"]
           ELSE List(<<children["item"]>>)

\* An object that only wraps a list.
RECURSIVE coerceArrayValue(_, _)
coerceArrayValue(v, name) ==
  IF v.is = "object" /\ DOMAIN v.fields = {"item"}
    THEN IF Array(coerceArrayValue(v.fields["item"], "")) THEN coerceArrayValue(v.fields["item"], "")
         ELSE List(<<v.fields["item"]>>)
  ELSE IF v.is = "object" /\ DOMAIN v.fields = {name} /\ name # ""
          /\ Array(coerceArrayValue(v.fields[name], ""))
    THEN coerceArrayValue(v.fields[name], "")
  ELSE v

\* Several elements, elements in an element, or items.
cdataFragmentLooksExplicitlyStructured(nodes) ==
  Len(nodes) > 1 \/ LocalName(nodes[1].name) = "item" \/ nodes[1].body.is = "nodes"

\* Two passes unescape the text to look for a list; another value is not unescaped.
parseLooseJSONArrayValue(t, name) ==
  IF name \in preservesCDATAStringParameter THEN Str(t)
  ELSE IF t.as = "commas" THEN List(t.items)
  ELSE IF /\ IsMarkup(UnescapeString(UnescapeString(t)))
          /\ Array(coerceArrayValue(parseXMLNodeValue(Nodes(t.nodes)), name))
    THEN coerceArrayValue(parseXMLNodeValue(Nodes(t.nodes)), name)
  ELSE Str(t)

\* What is between the first mark of a section and the last.
extractStandaloneCDATA(t) == IF t.as = "mark" THEN CloseMark(t.apart + 1) ELSE t

parseCDATAValue(name, t) ==
  IF t.as = "json" THEN coerceArrayValue(t.value, name)
  ELSE IF /\ IsMarkup(UnescapeString(t)) /\ name \notin preservesCDATAStringParameter
          /\ cdataFragmentLooksExplicitlyStructured(t.nodes)
    THEN parseXMLNodeValue(Nodes(t.nodes))
  ELSE parseLooseJSONArrayValue(t, name)

\* A body that is not one section is unescaped by extractRawTagValue and once more.
parseInvokeParameterValue(name, body) ==
  CASE body.is = "cdata" -> parseCDATAValue(name, extractStandaloneCDATA(body.text))
    [] body.is = "nodes" ->
         coerceArrayValue(parseXMLNodeValue(UnescapeBody(UnescapeBody(body))), name)
    [] OTHER ->
         LET decoded == UnescapeString(UnescapeString(TrimSpace(body.text)))
         IN  CASE decoded.as = "json" -> coerceArrayValue(decoded.value, name)
               [] IsMarkup(decoded)   -> coerceArrayValue(parseXMLNodeValue(Nodes(decoded.nodes)), name)
               [] OTHER -> parseLooseJSONArrayValue(decoded, name)

parseSingleXMLToolCall(parameters) ==
  [name \in DOMAIN parameters |-> parseInvokeParameterValue(name, parameters[name])]

-----------------------------------------------------------------------------
(***************************************************************************)
(* What the tool declares: nothing, a string, items or fields.             *)
(***************************************************************************)
Undeclared == [is |-> "any"]
OfItem(schema) == IF schema.is = "list" THEN schema.items ELSE Undeclared
OfField(schema, k) ==
  IF schema.is = "object" /\ k \in DOMAIN schema.fields THEN schema.fields[k] ELSE Undeclared

stringifySchemaValue(v) == IF v.is \in {"null", "string"} THEN v ELSE Str(Json(v))

RECURSIVE normalizeToolValueWithSchema(_, _)
normalizeToolValueWithSchema(v, schema) ==
  CASE schema.is = "string" -> stringifySchemaValue(v)
    [] schema.is = "object" /\ v.is = "object" ->
         Object([k \in DOMAIN v.fields |-> normalizeToolValueWithSchema(v.fields[k], OfField(schema, k))])
    [] schema.is = "list" /\ Array(v) ->
         List([i \in DOMAIN v.items |-> normalizeToolValueWithSchema(v.items[i], OfItem(schema))])
    [] OTHER -> v
=============================================================================
