---------------------------- MODULE CitationLinks ----------------------------
(***************************************************************************)
(* The pages that an answer cites: the collector that sees every line      *)
(* (sse/citation_links.go), and the links that replace the markers of the  *)
(* answer (openai/shared/citation_links.go).                               *)
(*                                                                         *)
(* A result is a page with an index, or with none.  An upstream counts its *)
(* indices from 0 or from 1; which, the collector has to guess.  The keys  *)
(* of a JSON object have no order: results stand in one list of a line, as *)
(* in the recorded streams.                                                *)
(***************************************************************************)
EXTENDS Naturals, Sequences, SequencesExt, TLC

NoIndex == 999

Result(url, index) == [url |-> url, index |-> index]

NoLinks == [ordered |-> <<>>, explicit |-> <<>>]

\* The first page with an index keeps it.
captureURLAndIndex(c, result) ==
  [ordered  |-> Append(c.ordered, result.url),
   explicit |-> IF result.index = NoIndex THEN c.explicit
                ELSE c.explicit @@ (result.index :> result.url)]

ingest(c, results) == FoldLeft(captureURLAndIndex, c, results)

\* Of two pages for a link, the one that was the idx-th to appear.
preferURLForIndex(c, idx, current, candidate) ==
  IF idx \in DOMAIN c.ordered /\ c.ordered[idx] = candidate THEN candidate ELSE current

\* Mutant: indices that count from 0 are taken as they are.
Normalized_AsGiven(c) ==
  [i \in DOMAIN c.explicit \ {0} |-> c.explicit[i]]

\* An index 0 is a sign, but no proof, that indices count from 0.
Normalized(c) ==
  LET given   == DOMAIN c.explicit \ {0}
      shifted == IF 0 \in DOMAIN c.explicit THEN {i + 1 : i \in DOMAIN c.explicit} ELSE {}
  IN  [i \in given \union shifted |->
         IF i \notin shifted THEN c.explicit[i]
         ELSE IF i \notin given THEN c.explicit[i - 1]
         ELSE preferURLForIndex(c, i, c.explicit[i], c.explicit[i - 1])]

\* The page of each number; pages without an index count by appearance.
build(c) == Normalized(c) @@ c.ordered

\* References count from 0 in a text that has a reference 0.
ZeroBased(text) == \E i \in DOMAIN text : text[i].is = "reference" /\ text[i].n = 0

Number(text, mark) ==
  IF mark.is = "reference" /\ ZeroBased(text) THEN mark.n + 1 ELSE mark.n

ReplaceCitationMarkersWithLinks(text, links) ==
  [i \in DOMAIN text |->
     IF text[i].is \in {"citation", "reference"} /\ Number(text, text[i]) \in DOMAIN links
     THEN [is |-> "link", n |-> text[i].n, url |-> links[Number(text, text[i])]]
     ELSE text[i]]
=============================================================================
