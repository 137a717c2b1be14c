--------------------------- MODULE MCToolCallText ---------------------------
(***************************************************************************)
(* An instance of ToolCallText for TLC.                                    *)
(***************************************************************************)
EXTENDS ToolCallText

-----------------------------------------------------------------------------
(***************************************************************************)
(* Spellings of a tag.                                                     *)
(***************************************************************************)
BeforeTheName ==
  {<<>>, <<"|">>, <<"|", "|">>, <<"|", "ds", "ml", "|">>, <<"ds", "ml">>, <<"ds", "ml", "-">>,
   <<"ds", "ml", "|">>, <<"|", "ds", "ml", " ">>, <<"|", "zw", "ds", "zw", "ml", "|">>,
   <<"v", "_">>, <<"v", "|">>, <<"|", "v", "|">>}
Written ==
  {<<"tool", "_", "calls">>, <<"tool", "-", "calls">>, <<"Tool", "calls">>,
   <<"in", "o", "ke">>, <<"In", "o", "ke">>, <<"in", "cyr", "ke">>}

\* The rest of a tag, and the name that it gives.
Tails ==
  {[marks |-> <<">">>, value |-> <<>>],
   [marks |-> <<" ", "name", "=", "q", "v", "q", ">">>, value |-> <<"v">>],
   [marks |-> <<" ", "name", " ", "=", "q", "v", ">", "|", "q", "/", ">">>, value |-> <<"v", ">", "|">>],
   [marks |-> <<" ", "v", "=", "q", "v", "q", " ", "name", "=", "v", "|", ">">>, value |-> <<"v">>]}

Spelled(open, slash, prefix, name, separator, tail) ==
  [open |-> open, slash |-> slash, prefix |-> prefix, name |-> name, separator |-> separator,
   tail |-> tail.marks, value |-> tail.value]

MCSpellings ==
  {Spelled(o, s, p, n, e, t) :
     o \in {<<"<">>, <<"<", "<">>, <<"w<">>}, s \in {<<>>, <<"/">>}, p \in BeforeTheName,
     n \in Written, e \in {<<>>, <<"|">>}, t \in Tails}
MCUsual ==
  Spelled(<<"<">>, <<>>, <<"|", "ds", "ml", "|">>, <<"in", "o", "ke">>, <<>>,
          [marks |-> <<" ", "name", "=", "q", "v", "q", ">">>, value |-> <<"v">>])

-----------------------------------------------------------------------------
(***************************************************************************)
(* Calls.                                                                  *)
(***************************************************************************)
Five  == Number(5)
Word  == Words("w")
A(t)  == Node("a", Bare(t))
Texts ==
  {Word, Empty, Padded("w"), Entity(0), Entity(1), Entity(3), Json(Five), Json(List(<<Five>>)), Spaced(List(<<Five>>)), Json(Object("a" :> Five)),
   Json(Str(Word)), Json(Null), Commas(<<Five, Five>>), CloseMark(0), Markup(<<A(Word)>>),
   Escaped(<<A(Word), Node("b", Bare(Word))>>, 1), Escaped(<<A(Word)>>, 2), Markup(<<Node("item", Bare(Word))>>),
   Markup(<<Node("p", Bare(Json(List(<<Five>>))))>>)}

Leaves == {Null, Five} \union {Str(t) : t \in Texts}
Few    == {Five} \union {Str(t) : t \in {Word, Json(Five), Json(List(<<Five>>))}}

Wrapped(S) == {List(<<v>>) : v \in S} \union {Object(k :> v) : k \in {"a", "item", "p", "x:a"}, v \in S}
Paired(S)  == {List(<<v, w>>) : v, w \in S} \union {Object("a" :> v @@ k :> w) : k \in {"item", "x:a"}, v, w \in S}
Nested     == Few \union Wrapped(Few) \union Paired(Few) \union {List(<<>>), Object("two words" :> Five)}
Values     == Leaves \union Nested \union Wrapped(Leaves \union Nested) \union Paired(Wrapped(Few))

String == [is |-> "string"]
Declared ==
  {Undeclared, String, [is |-> "list", items |-> String], [is |-> "object", fields |-> "a" :> String],
   [is |-> "list", items |-> [is |-> "object", fields |-> "a" :> String]]}

MCSample == [args |-> "p" :> Five, declared |-> Undeclared]
MCCalls ==
  {[args |-> k :> v, declared |-> [is |-> "object", fields |-> k :> d]] :
     k \in {"p", "content"}, v \in Values, d \in Declared}
  \union {[args |-> "x:a" :> v, declared |-> Undeclared] : v \in Leaves}
  \union {[args |-> "p" :> v @@ "content" :> w, declared |-> Undeclared] : v, w \in Few}
  \union {MCSample, [args |-> <<>>, declared |-> Undeclared]}
=============================================================================
