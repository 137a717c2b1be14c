--------------------------- MODULE MCAnswerContent ---------------------------
(***************************************************************************)
(* Instances of AnswerContent for TLC.                                     *)
(***************************************************************************)
EXTENDS AnswerContent

Word(n) == [is |-> "word", n |-> n]
Citation(n) == [is |-> "citation", n |-> n]
Reference(n) == [is |-> "reference", n |-> n]

\* The texts after n words: words, alone and with tags, leaks and blanks, and markers.
MCTexts ==
  [n \in 0..12 |->
    {<<Word(n)>>, <<Word(n), Mark("close"), Word(n + 1)>>,
     <<Word(n), Mark("newline"), Mark("blank"), Mark("leak")>>,
     <<Citation(1)>>, <<Reference(0)>>}]

MCResults == <<"p", "q">>
=============================================================================
