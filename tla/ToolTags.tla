------------------------------ MODULE ToolTags ------------------------------
(***************************************************************************)
(* The spellings of a tool tag: which of them are recognised, as they      *)
(* arrive piece by piece and when they are whole, and what is made of them *)
(* before a call is parsed (toolcalls_scan.go, toolcalls_candidates.go).   *)
(*                                                                         *)
(* A text is a sequence of marks.  A mark is a character, or a part of a   *)
(* word that is never told apart: "tool" and "calls", "in", "o" and "ke",  *)
(* "ds" and "ml" make the names; "Tool" and "In" begin with a capital,     *)
(* "cyr" is an o of another script, "v" and "name" are other words.  "w<", *)
(* "w>" and "w/" are wide characters, "zw" one that is not seen, "q" a     *)
(* quotation mark.  The tags of parameters are spelled like those of       *)
(* invoke, and are left out.                                               *)
(***************************************************************************)
EXTENDS Naturals, Sequences, SequencesExt, FiniteSetsExt

Canonicals == {"tool_calls", "invoke"}

\* toolMarkupNames; some count only in the tags of DSML.
Names ==
  {[raw |-> <<"tool", "_", "calls">>, canonical |-> "tool_calls", dsmlOnly |-> FALSE],
   [raw |-> <<"tool", "-", "calls">>, canonical |-> "tool_calls", dsmlOnly |-> TRUE],
   [raw |-> <<"tool", "calls">>,      canonical |-> "tool_calls", dsmlOnly |-> TRUE],
   [raw |-> <<"in", "o", "ke">>,      canonical |-> "invoke",     dsmlOnly |-> FALSE]}
RawOf(name) ==
  CASE name = "tool_calls" -> <<"tool", "_", "calls">> [] name = "invoke" -> <<"in", "o", "ke">>
DSML == <<"ds", "ml">>

Capitals   == {"Tool", "In"}
Alnum      == Capitals \union {"tool", "calls", "in", "o", "ke", "ds", "ml", "v", "name"}
Separators == {"|", "_", "-", "cyr", "w/"}
TagStarts  == {"<", "w<"}
TagEnds    == {">", "w>"}

Lower(m) == CASE m = "Tool" -> "tool" [] m = "In" -> "in" [] OTHER -> m
foldToolKeywordRune(m) == IF m = "cyr" THEN "o" ELSE Lower(m)

At(t, i)   == IF i \in DOMAIN t THEN t[i] ELSE "end"
Upto(t, n) == SubSeq(t, 1, n)
Rest(t, i) == SubSeq(t, i, Len(t))

\* Where what is not seen ends.
Skip(t, i) == Min({j \in i..(Len(t) + 1) : At(t, j) # "zw"})
Past(t, i, marks) == IF At(t, Skip(t, i)) \in marks THEN Skip(t, i) + 1 ELSE 0

consumeToolMarkupSeparator(t, i) == Past(t, i, Separators)
consumeToolMarkupClosingSlash(t, i) == Past(t, i, {"/", "w/"})
Whitespace(t, i) == Past(t, i, {" "})

\* A word whose marks may have others between them that are not seen: where it
\* ends, or 0.
consumeToolKeyword(t, i, word) ==
  LET seen == SelectSeq([k \in 1..(Len(t) - i + 1) |-> i + k - 1], LAMBDA j : t[j] # "zw") IN
  IF Len(seen) >= Len(word) /\ \A k \in DOMAIN word : foldToolKeywordRune(t[seen[k]]) = word[k]
  THEN seen[Len(word)] + 1 ELSE 0

hasASCIIPrefixFoldAt(t, i, word) ==
  i + Len(word) - 1 <= Len(t) /\ \A k \in DOMAIN word : Lower(t[i + k - 1]) = word[k]

\* The text ends within the word.
PartialAt(t, i, word) ==
  /\ i <= Len(t) /\ Len(t) - i + 1 < Len(word)
  /\ \A j \in i..Len(t) : Lower(t[j]) = word[j - i + 1]

\* Mutant: a name that has only begun is no name.
hasToolMarkupNamePrefix_Whole(t, i) == \E name \in Names : hasASCIIPrefixFoldAt(t, i, name.raw)

hasToolMarkupNamePrefix(t, i) ==
  \E name \in Names : hasASCIIPrefixFoldAt(t, i, name.raw) \/ PartialAt(t, i, name.raw)

hasDSMLNamePrefixOrPartial(t, i) == hasASCIIPrefixFoldAt(t, i, DSML) \/ PartialAt(t, i, DSML)

-----------------------------------------------------------------------------
(***************************************************************************)
(* What may come before the name.                                          *)
(***************************************************************************)
Has(t, marks) == \E i \in DOMAIN t : t[i] \in marks
ContainsDSML(prefix) ==
  LET ascii == SelectSeq(prefix, LAMBDA m : m \notin {"zw", "cyr", "w/"}) IN
  \E i \in DOMAIN ascii : hasASCIIPrefixFoldAt(ascii, i, DSML)

toolMarkupPrefixAllowsLocalName(prefix) ==
  /\ prefix # <<>>
  /\ ContainsDSML(prefix) \/ (~Has(prefix, {"=", "q"}) /\ Last(prefix) \notin Alnum)

\* A name may also begin with a capital in the middle of a word.
AllowsLocalNameAt(t, start, i) ==
  LET prefix == SubSeq(t, start, i - 1) IN
  /\ start < i
  /\ \/ toolMarkupPrefixAllowsLocalName(prefix)
     \/ ~Has(prefix, {"=", "q"}) /\ Last(prefix) \in Alnum /\ At(t, i) \in Capitals

\* Words, a separator and the beginning of a name.
consumeArbitraryToolMarkupNamePrefix(t, i) ==
  LET word == Min({j \in i..(Len(t) + 1) : At(t, j) \notin Alnum})
      Blanks(j) == Min({k \in j..(Len(t) + 1) : At(t, k) # " "})
      separator == consumeToolMarkupSeparator(t, Blanks(word))
  IN  IF word > i /\ separator # 0 /\ hasToolMarkupNamePrefix(t, Blanks(separator))
      THEN Blanks(separator) ELSE 0

\* One separator, blank, "dsml" or namespace: where it ends, or 0.
PastDash(t, i) == IF Past(t, i, {"-", "_"}) # 0 THEN i + 1 ELSE i
FirstPast(ends) == IF ends = <<>> THEN 0 ELSE ends[1]
consumeToolMarkupNamePrefixOnce(t, i) ==
  FirstPast(SelectSeq(<<consumeToolMarkupSeparator(t, i), Whitespace(t, i)>>, LAMBDA e : e # 0)
            \o (IF consumeToolKeyword(t, Skip(t, i), DSML) = 0 THEN <<>>
                ELSE <<PastDash(t, consumeToolKeyword(t, Skip(t, i), DSML))>>)
            \o <<consumeArbitraryToolMarkupNamePrefix(t, Skip(t, i))>>)

\* The places that the prefix at i comes to; the last is where the name is looked for.
RECURSIVE NamePlaces(_, _)
NamePlaces(t, i) ==
  LET next == consumeToolMarkupNamePrefixOnce(t, i) IN
  {i} \union (IF next = 0 THEN {} ELSE NamePlaces(t, next))

-----------------------------------------------------------------------------
(***************************************************************************)
(* A whole tag.                                                            *)
(***************************************************************************)
NoName == [canonical |-> "", at |-> 0, end |-> 0]

Matches(t, i, names) ==
  {[canonical |-> n.canonical, at |-> i, end |-> consumeToolKeyword(t, i, n.raw)] :
     n \in {m \in names : consumeToolKeyword(t, i, m.raw) # 0}}
One(matches) == IF matches = {} THEN NoName ELSE CHOOSE m \in matches : TRUE

matchToolMarkupName(t, i, dsml) == One(Matches(t, i, {n \in Names : ~n.dsmlOnly \/ dsml}))

\* The first name before the end of the tag that something else comes before.
matchToolMarkupNameAfterArbitraryPrefix(t, start) ==
  LET before == {i \in start..Len(t) : ~Has(SubSeq(t, start, i), TagEnds)}
      found  == {i \in before : Matches(t, i, Names) # {} /\ AllowsLocalNameAt(t, start, i)}
  IN  IF found = {} THEN NoName ELSE One(Matches(t, Min(found), Names))

\* The first ">" that is not quoted; 0 when there is none.
findXMLTagEnd(t, from) ==
  LET Quotes(i) == Cardinality({j \in from..i : t[j] = "q"})
      ends == {i \in from..Len(t) : t[i] \in TagEnds /\ Quotes(i) % 2 = 0}
  IN  IF ends = {} THEN 0 ELSE Min(ends)

RECURSIVE PastAll(_, _, _)
PastAll(t, i, marks) == IF Past(t, i, marks) = 0 THEN i ELSE PastAll(t, Past(t, i, marks), marks)

hasToolMarkupBoundary(t, i) ==
  Skip(t, i) > Len(t) \/ At(t, Skip(t, i)) \in {" ", "/", "w/"} \union TagEnds

NoTag == [end |-> 0, name |-> "", closing |-> FALSE, selfClosing |-> FALSE, dsml |-> FALSE,
          nameAt |-> 0, nameEnd |-> 0]

\* The name that is found from start on when the prefix ends at place.
NameIn(t, start, place) ==
  LET direct == matchToolMarkupName(t, place, place > start) IN
  IF direct = NoName THEN [name |-> matchToolMarkupNameAfterArbitraryPrefix(t, start), far |-> TRUE]
  ELSE [name |-> direct, far |-> FALSE]

\* A tag with a separator behind its name may end there.
LastMark(t, name, nameEnd, end) ==
  IF nameEnd > name.end /\ (end = 0 \/ Has(SubSeq(t, nameEnd, end), {"<"})) THEN nameEnd - 1 ELSE end

TagOf(t, slash, start, far, name, nameEnd, last) ==
  IF ~hasToolMarkupBoundary(t, nameEnd) \/ last = 0 THEN NoTag
  ELSE [end |-> last, name |-> name.canonical,
        closing |-> slash \/ (far /\ Has(SubSeq(t, start, name.at - 1), {"/"})),
        selfClosing |-> IsSuffix(<<"/", ">">>, Upto(t, last)),
        dsml |-> far \/ name.at > start,
        nameAt |-> name.at, nameEnd |-> nameEnd]

TagNamed(t, slash, start, found, nameEnd) ==
  IF found.name = NoName THEN NoTag
  ELSE TagOf(t, slash, start, found.far, found.name, nameEnd,
             LastMark(t, found.name, nameEnd, findXMLTagEnd(t, nameEnd)))

TagFrom(t, slash, start, found) ==
  TagNamed(t, slash, start, found, PastAll(t, found.name.end, Separators))

TagAt(t, slash, start) == TagFrom(t, slash, start, NameIn(t, start, Max(NamePlaces(t, start))))

scanToolMarkupTag(t) ==
  LET open  == PastAll(t, 1, TagStarts)
      slash == consumeToolMarkupClosingSlash(t, open)
  IN  IF Past(t, 1, TagStarts) = 0 THEN NoTag
      ELSE TagAt(t, slash # 0, IF slash # 0 THEN slash ELSE open)

-----------------------------------------------------------------------------
(***************************************************************************)
(* A part of a tag.                                                        *)
(***************************************************************************)
hasPartialToolMarkupNameAfterArbitraryPrefix(t, start) ==
  /\ start <= Len(t) /\ ~Has(Rest(t, start), TagEnds)
  /\ \/ \E i \in start..Len(t) :
          /\ AllowsLocalNameAt(t, start, i)
          /\ hasToolMarkupNamePrefix(t, i) \/ hasDSMLNamePrefixOrPartial(t, i)
     \/ toolMarkupPrefixAllowsLocalName(Rest(t, start))

IsPartialToolMarkupTagPrefix(t) ==
  LET open  == Min({i \in 1..(Len(t) + 1) : At(t, i) # "<"})
      start == IF At(t, open) = "/" THEN open + 1 ELSE open
  IN  /\ At(t, 1) = "<" /\ ~Has(t, TagEnds)
      /\ \E i \in NamePlaces(t, start) :
           \/ i = Len(t) + 1
           \/ hasToolMarkupNamePrefix(t, i) \/ PartialAt(t, i, DSML)
           \/ hasPartialToolMarkupNameAfterArbitraryPrefix(t, i)

-----------------------------------------------------------------------------
(***************************************************************************)
(* A tag in one spelling.                                                  *)
(***************************************************************************)
KeyEnds == {" ", "=", "|", "/", "w/"} \union TagEnds

\* The first of marks from i on; the end of the text when there is none.
Find(t, i, marks) == Min({j \in i..(Len(t) + 1) : At(t, j) \in marks \union {"end"}})

\* An attribute other than the name is left out, but what is in its quotation
\* marks is read on as if it were not quoted.
RECURSIVE NameValues(_, _)
NameValues(t, i) ==
  LET at    == Skip(t, i)
      end   == Find(t, at, KeyEnds)
      key   == SelectSeq(SubSeq(t, at, end - 1), LAMBDA m : m # "zw")
      Blanks(j) == Min({k \in j..(Len(t) + 1) : At(t, k) \notin {" ", "zw"}})
      value == Blanks(Blanks(end) + 1)
      close == Find(t, value + 1, {"q"})
      bare  == Find(t, value, KeyEnds)
  IN  IF at > Len(t) \/ t[at] \in TagEnds THEN <<>>
      ELSE IF t[at] \in {" ", "|", "/", "w/"} THEN NameValues(t, at + 1)
      ELSE IF At(t, Blanks(end)) # "=" THEN NameValues(t, Blanks(end))
      ELSE IF key # <<"name">> THEN NameValues(t, value + 1)
      ELSE IF At(t, value) = "q"
        THEN <<SubSeq(t, value + 1, close - 1)>> \o NameValues(t, close + 1)
      ELSE <<SubSeq(t, value, bare - 1)>> \o NameValues(t, bare)

\* Where the attributes begin: behind the name, if it is the usual one.
PastName(t, i, name) ==
  LET end == consumeToolKeyword(t, i, RawOf(name)) IN IF end # 0 THEN end ELSE i

AfterName(t, tag) ==
  LET open  == PastAll(t, 1, TagStarts)
      slash == consumeToolMarkupClosingSlash(t, open)
  IN  PastName(t, Max(NamePlaces(t, IF tag.closing /\ slash # 0 THEN slash ELSE open)), tag.name)

NameAttributes(values) ==
  FlattenSeq([i \in DOMAIN values |-> <<" ", "name", "=", "q">> \o values[i] \o <<"q">>])

\* Mutant: every tag is closed like one with a body.
canonicalizeRecognizedToolMarkupTag_Open(t, tag) ==
  <<"<">> \o (IF tag.closing THEN <<"/">> ELSE <<>>)
  \o (IF tag.dsml THEN <<"|", "ds", "ml", "|">> ELSE <<>>)
  \o RawOf(tag.name) \o NameAttributes(NameValues(t, AfterName(t, tag))) \o <<">">>

canonicalizeRecognizedToolMarkupTag(t, tag) ==
  <<"<">> \o (IF tag.closing THEN <<"/">> ELSE <<>>)
  \o (IF tag.dsml THEN <<"|", "ds", "ml", "|">> ELSE <<>>)
  \o RawOf(tag.name) \o NameAttributes(NameValues(t, AfterName(t, tag)))
  \o (IF tag.selfClosing THEN <<"/", ">">> ELSE <<">">>)

\* The tag as the parser reads it, without DSML.
rewriteDSMLToolMarkup(t, tag) ==
  <<"<">> \o (IF tag.closing THEN <<"/">> ELSE <<>>) \o RawOf(tag.name)
  \o SubSeq(t, tag.nameEnd, IF t[tag.end] \in TagEnds THEN tag.end - 1 ELSE tag.end) \o <<">">>

Rewritten(t) == rewriteDSMLToolMarkup(t, scanToolMarkupTag(t))

normalizeDSMLToolCallMarkup(t, tag) ==
  Rewritten(canonicalizeRecognizedToolMarkupTag(Upto(t, tag.end), tag))
=============================================================================
