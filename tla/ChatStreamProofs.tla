-------------------------- MODULE ChatStreamProofs --------------------------
(***************************************************************************)
(* What every answer keeps, whatever the numbers of rounds, lines and      *)
(* pieces of text, and that ChatStream implements AnswerStream.            *)
(*                                                                         *)
(* The pieces are told apart by their places, so every text is a run of    *)
(* numbers.  The argument follows the lines that are under way, in the     *)
(* pipe, with the line pump and in the channel: each takes a text up to a  *)
(* mark to the next mark, the first mark is the end of the text delivered  *)
(* and the last one that of the answer.  A line that ends the answer is    *)
(* the last to change it.                                                  *)
(***************************************************************************)
EXTENDS ChatStream, SequenceTheorems, TLAPS

-----------------------------------------------------------------------------
(***************************************************************************)
(* The invariant.                                                          *)
(***************************************************************************)

\* The pieces from the one after m up to n.
Run(m, n) == [i \in 1..(n - m) |-> m + i]

\* Where the goroutines are, and what they hold there.
Control ==
  /\ ppc # "sending" => pline = Other
  /\ cpc \notin {"writing", "finishing"} => cline = Other
  /\ cpc = "finishing" => cline = DoneLine
  /\ cline = DoneLine => cpc = "finishing"
  /\ mode = "collect" => ppc = "ended" /\ buffer = <<>>
  /\ closed => ~Running
  /\ reason = "handler_requested" => stopped # "no"
  /\ Running /\ mode = "stream" => stopped = "no"
  /\ mode = "stream" /\ reason = "upstream_completed" => ppc = "ended"
  /\ mode = "stream" /\ ppc = "ended" /\ ~scanErr => cpc = "closed" /\ ~cerr

\* What the pump has observed of the round.
Observed ==
  /\ said \in {"nothing", "none"} => state.last = "none"
  /\ said \in {"nothing", "none", "unfinished"} => ~state.finished
  /\ said = "finished" => state.finished
  /\ said = "unfinished" => state.last = "unfinished"

\* The upstream adds nothing more, and if the answer is unfinished it cannot be
\* continued.
Over ==
  \/ /\ cpc \in {"finishing", "closed"}
     /\ said = "unfinished" => rounds = MaxRounds \/ ~state.id
  \/ cpc \in {"reading", "writing"} /\ said = "finished"

\* Nothing follows what ends an answer.
LastWord ==
  /\ cpc \in {"finishing", "closed"} /\ ~cerr => Over
  /\ cline.stop = "done" \/ pline.stop = "done" \/ stopped = "done" => Over
  /\ \A j \in 1..Len(buffer) : buffer[j].stop = "done" => Over
  /\ reason = "upstream_completed" /\ ~scanErr /\ stopped = "no" => Over

\* The line takes a text of m pieces to one of n.
Carries(line, m, n) ==
  /\ line.stop # "no" => line.text = <<>>
  /\ \/ line.text = <<>> /\ n = m
     \/ line.text = Run(m, n) /\ n > m
     \/ \E k \in 1..n : k >= SnapshotLen /\ line.text = Run(0, k) /\ (n = k \/ n = m) /\ n >= m

\* The consumer still takes every line.
Following == ~garbled /\ Running /\ stopped = "no" /\ (mode = "stream" => ~ctxDone)

\* The marks of the lines in the channel, and of the line pump.
Marks(h, p) ==
  /\ h[0] = Len(text)
  /\ \A j \in 1..Len(buffer) :
       /\ Carries(buffer[j], h[j - 1], h[j])
       /\ buffer[j].stop = "done" => h[j] = Len(answer)
  /\ Carries(pline, h[Len(buffer)], p)
  /\ pline.stop = "done" => p = Len(answer)
  /\ Carries(cline, p, Len(answer))

Flow ==
  Following => \E h \in [0..Len(buffer) -> 0..Len(answer)], p \in 0..Len(answer) : Marks(h, p)

Texts ==
  /\ answer = Run(0, Len(answer))
  /\ ~garbled => /\ Len(text) <= Len(answer) /\ text = Run(0, Len(text))
                 /\ stopped = "done" \/ (reason = "upstream_completed" /\ ~scanErr /\ stopped = "no")
                    => text = answer

IInv == TypeOK /\ Control /\ Observed /\ LastWord /\ Texts /\ Flow

-----------------------------------------------------------------------------
(***************************************************************************)
(* Texts.                                                                  *)
(***************************************************************************)

\* A run, as a sequence.
LEMMA RunSeq ==
  \A m, n \in Nat : m <= n =>
    /\ Run(m, n) \in Seq(Nat)
    /\ Len(Run(m, n)) = n - m
    /\ \A i \in 1..(n - m) : Run(m, n)[i] = m + i
    /\ n <= MaxAnswer => Run(m, n) \in Seq(Piece)
<1> SUFFICES ASSUME NEW m \in Nat, NEW n \in Nat, m <= n
             PROVE  /\ Run(m, n) \in Seq(Nat)
                    /\ Len(Run(m, n)) = n - m
                    /\ \A i \in 1..(n - m) : Run(m, n)[i] = m + i
                    /\ n <= MaxAnswer => Run(m, n) \in Seq(Piece)
  OBVIOUS
<1>1. n - m \in Nat
  OBVIOUS
<1>2. n <= MaxAnswer => \A i \in 1..(n - m) : m + i \in 1..MaxAnswer
  BY ChatStreamAssumption
<1> QED
  BY <1>1, <1>2 DEF Run, Piece

\* A text.
LEMMA TextSeq ==
  \A n \in Nat :
    /\ Run(0, n) \in Seq(Nat)
    /\ Len(Run(0, n)) = n
    /\ \A i \in 1..n : Run(0, n)[i] = i
    /\ Run(0, n) \o <<>> = Run(0, n)
<1> SUFFICES ASSUME NEW n \in Nat
             PROVE  /\ Run(0, n) \in Seq(Nat)
                    /\ Len(Run(0, n)) = n
                    /\ \A i \in 1..n : Run(0, n)[i] = i
                    /\ Run(0, n) \o <<>> = Run(0, n)
  OBVIOUS
<1>1. 0 \in Nat /\ 0 <= n /\ n - 0 = n /\ \A i \in 1..n : 0 + i = i
  OBVIOUS
<1>2. /\ Run(0, n) \in Seq(Nat)
      /\ Len(Run(0, n)) = n
      /\ \A i \in 1..n : Run(0, n)[i] = i
  BY <1>1, RunSeq
<1> QED
  BY <1>2, ConcatEmptySeq

\* A run is determined by its elements.
LEMMA RunEqual ==
  ASSUME NEW s \in Seq(Nat), NEW m \in Nat, NEW n \in Nat, m <= n,
         Len(s) = n - m, \A i \in 1..(n - m) : s[i] = m + i
  PROVE  s = Run(m, n)
<1> DEFINE t == Run(m, n)
<1>1. t \in Seq(Nat) /\ Len(t) = n - m /\ \A i \in 1..(n - m) : t[i] = m + i
  BY RunSeq
<1> HIDE DEF t
<1>2. s = t
  BY <1>1, SeqEqual
<1> QED
  BY <1>2 DEF t

\* Two runs, the second from where the first one ends, are one.
LEMMA RunConcat ==
  ASSUME NEW m \in Nat, NEW n \in Nat, NEW k \in Nat, m <= n, n <= k
  PROVE  Run(m, n) \o Run(n, k) = Run(m, k)
<1> DEFINE s == Run(m, n) \o Run(n, k)
<1>1. /\ Run(m, n) \in Seq(Nat) /\ Run(n, k) \in Seq(Nat)
      /\ Len(Run(m, n)) = n - m /\ Len(Run(n, k)) = k - n
      /\ \A i \in 1..(n - m) : Run(m, n)[i] = m + i
      /\ \A i \in 1..(k - n) : Run(n, k)[i] = n + i
  BY RunSeq
<1> HIDE DEF Run
<1>2. s \in Seq(Nat) /\ Len(s) = k - m
  <2>1. s \in Seq(Nat) /\ Len(s) = Len(Run(m, n)) + Len(Run(n, k))
    BY <1>1, ConcatProperties
  <2>2. (n - m) + (k - n) = k - m
    OBVIOUS
  <2> QED
    BY <1>1, <2>1, <2>2
<1>3. \A i \in 1..(k - m) : s[i] = m + i
  <2> SUFFICES ASSUME NEW i \in 1..(k - m) PROVE s[i] = m + i
    OBVIOUS
  <2>1. s[i] = IF i <= n - m THEN Run(m, n)[i] ELSE Run(n, k)[i - (n - m)]
    BY <1>1, ConcatProperties
  <2>2. i <= n - m => i \in 1..(n - m)
    OBVIOUS
  <2>3. ~(i <= n - m) => i - (n - m) \in 1..(k - n) /\ n + (i - (n - m)) = m + i
    OBVIOUS
  <2> QED
    BY <1>1, <2>1, <2>2, <2>3
<1> HIDE DEF s
<1>4. s = Run(m, k)
  BY <1>2, <1>3, RunEqual
<1> QED
  BY <1>4 DEF s

\* A text goes on with a run.
LEMMA TextConcat ==
  \A m, n \in Nat : m <= n => Run(0, m) \o Run(m, n) = Run(0, n)
<1> SUFFICES ASSUME NEW m \in Nat, NEW n \in Nat, m <= n
             PROVE  Run(0, m) \o Run(m, n) = Run(0, n)
  OBVIOUS
<1>1. 0 \in Nat /\ 0 <= m
  OBVIOUS
<1> QED
  BY <1>1, RunConcat

\* A part of a text is a run.
LEMMA RunPart ==
  ASSUME NEW m \in Nat, NEW n \in Nat, m <= n
  PROVE  /\ SubSeq(Run(0, n), m + 1, n) = Run(m, n)
         /\ SubSeq(Run(0, n), 1, m) = Run(0, m)
<1>1. /\ Run(0, n) \in Seq(Nat) /\ Len(Run(0, n)) = n
      /\ \A i \in 1..n : Run(0, n)[i] = i
  BY TextSeq
<1> HIDE DEF Run
<1>2. \A i \in 1..n : Run(0, n)[i] \in Nat
  BY <1>1
<1>3. SubSeq(Run(0, n), m + 1, n) = Run(m, n)
  <2> DEFINE s == SubSeq(Run(0, n), m + 1, n)
  <2>1. /\ s \in Seq(Nat) /\ Len(s) = n - m
        /\ \A i \in 1..(n - m) : s[i] = Run(0, n)[m + i]
    BY <1>2, SubSeqProperties
  <2>2. \A i \in 1..(n - m) : s[i] = m + i
    BY <1>1, <2>1
  <2> HIDE DEF s
  <2>3. s = Run(m, n)
    BY <2>1, <2>2, RunEqual
  <2> QED
    BY <2>3 DEF s
<1>4. SubSeq(Run(0, n), 1, m) = Run(0, m)
  <2> DEFINE s == SubSeq(Run(0, n), 1, m)
  <2>1. /\ s \in Seq(Nat) /\ Len(s) = m
        /\ \A i \in 1..m : s[i] = Run(0, n)[i]
    BY <1>2, SubSeqProperties
  <2>2. \A i \in 1..m : s[i] = 0 + i
    BY <1>1, <2>1
  <2> HIDE DEF s
  <2>3. s = Run(0, m)
    BY <2>1, <2>2, RunEqual
  <2> QED
    BY <2>3 DEF s
<1> QED
  BY <1>3, <1>4

\* Of the runs from the start, the shorter one is a prefix of the longer one.
LEMMA RunPrefix ==
  ASSUME NEW m \in Nat, NEW n \in Nat
  PROVE  IsPrefix(Run(0, m), Run(0, n)) <=> m <= n
<1>1. Len(Run(0, m)) = m /\ Len(Run(0, n)) = n
  BY TextSeq
<1>2. m <= n => SubSeq(Run(0, n), 1, m) = Run(0, m) /\ SubSeq(Run(0, m), 1, m) = Run(0, m)
  BY RunPart
<1> QED
  BY <1>1, <1>2 DEF IsPrefix

\* A run that does not begin at the start is no prefix and has none.
LEMMA RunApart ==
  ASSUME NEW m \in Nat \ {0}, NEW n \in Nat, m < n
  PROVE  ~IsPrefix(Run(0, m), Run(m, n)) /\ ~IsPrefix(Run(m, n), Run(0, m))
<1>1. /\ Run(0, m) \in Seq(Nat) /\ Len(Run(0, m)) = m /\ Run(0, m)[1] = 1
      /\ Run(m, n) \in Seq(Nat) /\ Len(Run(m, n)) = n - m /\ Run(m, n)[1] = m + 1
  BY RunSeq, TextSeq
<1> HIDE DEF Run
<1>2. ASSUME NEW s \in Seq(Nat), NEW t \in Seq(Nat), Len(s) > 0, IsPrefix(s, t)
      PROVE  s[1] = t[1]
  <2>1. Len(s) \in Nat /\ Len(t) \in Nat /\ Len(s) <= Len(t)
    BY <1>2 DEF IsPrefix
  <2>2. SubSeq(s, 1, Len(s))[1] = s[1] /\ SubSeq(t, 1, Len(s))[1] = t[1]
    <3>1. 1 \in 1..Len(s) /\ \A i \in 1..Len(s) : s[i] \in Nat /\ t[i] \in Nat
      BY <1>2, <2>1
    <3> QED
      BY <2>1, <3>1, SubSeqProperties
  <2> QED
    BY <1>2, <2>2 DEF IsPrefix
<1>3. 1 # m + 1 /\ m > 0 /\ n - m > 0
  OBVIOUS
<1> QED
  BY <1>1, <1>2, <1>3

\* What TrimContinuationOverlap leaves of a line takes the text to its next mark.
LEMMA Trimmed ==
  ASSUME NEW m \in Nat, NEW n \in Nat, NEW line, Carries(line, m, n)
  PROVE  /\ m <= n
         /\ Run(0, m) \o TrimContinuationOverlap(Run(0, m), line.text) = Run(0, n)
<1>1. SnapshotLen \in Nat /\ SnapshotLen > 0
  BY ChatStreamAssumption
<1>2. Run(0, m) \in Seq(Nat) /\ Len(Run(0, m)) = m /\ Run(0, m) \o <<>> = Run(0, m)
  BY TextSeq
<1> HIDE DEF Run
<1> SUFFICES Run(0, m) \o TrimContinuationOverlap(Run(0, m), line.text) = Run(0, n)
  BY DEF Carries
<1>3. CASE line.text = <<>> /\ n = m
  <2>1. ~(Len(line.text) >= SnapshotLen)
    BY <1>1, <1>3
  <2>2. TrimContinuationOverlap(Run(0, m), line.text) = line.text
    BY <2>1 DEF TrimContinuationOverlap
  <2> QED
    BY <1>2, <1>3, <2>2, Zenon
<1>4. CASE line.text = Run(m, n) /\ n > m
  <2>1. Run(0, m) \o Run(m, n) = Run(0, n)
    <3>1. m <= n
      BY <1>4
    <3> QED
      BY <3>1, TextConcat, Zenon
  <2>2. CASE m = 0
    <3>1. Run(0, n) \in Seq(Nat) /\ Len(Run(0, n)) = n /\ Len(Run(0, 0)) = 0
      BY TextSeq
    <3>2. SubSeq(Run(0, n), 1, n) = Run(0, n)
      BY RunPart
    <3>3. ~IsPrefix(Run(0, n), Run(0, 0))
      BY <1>4, <2>2, RunPrefix
    <3> QED
      BY <1>4, <2>1, <2>2, <3>1, <3>2, <3>3 DEF TrimContinuationOverlap
  <2>3. CASE m # 0
    <3>1. ~IsPrefix(Run(0, m), Run(m, n)) /\ ~IsPrefix(Run(m, n), Run(0, m))
      BY <1>4, <2>3, RunApart
    <3> QED
      BY <1>4, <2>1, <3>1 DEF TrimContinuationOverlap
  <2> QED
    BY <2>2, <2>3
<1>5. ASSUME NEW k \in 1..n, k >= SnapshotLen, line.text = Run(0, k), n = k \/ n = m, n >= m
      PROVE  Run(0, m) \o TrimContinuationOverlap(Run(0, m), line.text) = Run(0, n)
  <2>1. k \in Nat /\ Len(Run(0, k)) = k /\ (IsPrefix(Run(0, m), Run(0, k)) <=> m <= k)
        /\ (IsPrefix(Run(0, k), Run(0, m)) <=> k <= m)
    BY TextSeq, RunPrefix
  <2>2. CASE m <= k
    <3>1. n = k
      BY <1>5, <2>2
    <3>2. SubSeq(Run(0, k), m + 1, k) = Run(m, k)
      BY <2>1, <2>2, RunPart
    <3>3. Run(0, m) \o Run(m, n) = Run(0, n)
      BY <1>5, TextConcat
    <3> QED
      BY <1>2, <1>5, <2>1, <2>2, <3>1, <3>2, <3>3 DEF TrimContinuationOverlap
  <2>3. CASE ~(m <= k)
    <3>1. n = m /\ k <= m
      BY <1>5, <2>1, <2>3
    <3> QED
      BY <1>2, <1>5, <2>1, <2>3, <3>1 DEF TrimContinuationOverlap
  <2> QED
    BY <2>2, <2>3
<1> QED
  BY <1>3, <1>4, <1>5 DEF Carries

-----------------------------------------------------------------------------
(***************************************************************************)
(* What the upstream writes.                                               *)
(***************************************************************************)

\* What a line that says nothing is.
LEMMA OtherLine ==
  /\ Other \in Line /\ DoneLine \in Line
  /\ Other.text = <<>> /\ Other.status = "none" /\ Other.stop = "no" /\ ~Other.id
  /\ DoneLine.text = <<>> /\ DoneLine.status = "none" /\ DoneLine.stop = "done"
  /\ Other # DoneLine
<1>1. <<>> \in Seq(Piece)
  OBVIOUS
<1> QED
  BY <1>1 DEF Other, DoneLine, Line, Status, Stop

\* A line with nothing in it takes no text any further.
LEMMA CarriesNothing ==
  ASSUME NEW line, line.text = <<>>, NEW m \in Nat, NEW n \in Nat
  PROVE  Carries(line, m, n) <=> n = m
<1>1. Len(line.text) = 0
  OBVIOUS
<1>2. m < n => line.text # Run(m, n)
  BY <1>1, RunSeq
<1>3. \A k \in 1..n : line.text # Run(0, k)
  BY <1>1, TextSeq
<1> QED
  BY <1>2, <1>3 DEF Carries

\* New text is a run.
LEMMA FreshRuns ==
  ASSUME NEW fresh \in Fresh, Len(answer) \in Nat, Len(answer) <= MaxAnswer
  PROVE  \E n \in (Len(answer) + 1)..MaxAnswer : fresh = Run(Len(answer), n)
<1>1. PICK k \in 1..(MaxAnswer - Len(answer)) : fresh = [i \in 1..k |-> Len(answer) + i]
  BY DEF Fresh
<1> DEFINE n == Len(answer) + k
<1>2. n \in (Len(answer) + 1)..MaxAnswer /\ n - Len(answer) = k
  BY ChatStreamAssumption
<1>3. fresh = Run(Len(answer), n)
  BY <1>1, <1>2 DEF Run
<1> QED
  BY <1>2, <1>3

\* How what the upstream said goes with the line it says it in.
Says(line) ==
  \/ said' = said /\ line.status = "none"
  \/ said = "nothing" /\ said' = "none" /\ line.status = "none"
  \/ /\ said \in {"nothing", "none", "unfinished"}
     /\ said' \in {"unfinished", "finished"} /\ line.status = said'
  \/ /\ said \in {"nothing", "none", "unfinished"}
     /\ said' = "refused" /\ line.status = "none"

\* A line of the body, after which the answer has n pieces.
Reads(line, n) ==
  /\ Reading /\ Forward(line) /\ line # DoneLine
  /\ answer' = Run(0, n) /\ garbled' \in BOOLEAN /\ (garbled => garbled')
  /\ ~garbled' => Carries(line, Len(answer), n)
  /\ Says(line)
  /\ said = "finished" => n = Len(answer) /\ garbled' = garbled
  /\ line.stop = "done" => said' = "finished" /\ n = Len(answer)

\* Whatever the upstream answers, text it repeats included.
LEMMA UpstreamReads ==
  ASSUME TypeOK, Texts, ReadEnvelope \/ ReadText \/ ReadStatus \/ ReadRefusal \/ ReadOther
  PROVE  \E line \in Line, n \in Len(answer)..MaxAnswer : Reads(line, n)
<1> DEFINE m == Len(answer)
<1>1. /\ m \in Nat /\ m <= MaxAnswer /\ m \in m..MaxAnswer
      /\ answer = Run(0, m) /\ garbled \in BOOLEAN /\ answer \in Seq(Piece)
  BY ChatStreamAssumption DEF TypeOK, Texts
<1>2. ASSUME NEW fresh \in Fresh
      PROVE  \E n \in (m + 1)..MaxAnswer :
               /\ fresh = Run(m, n) /\ answer \o fresh = Run(0, n)
               /\ fresh \in Seq(Piece) /\ Len(answer \o fresh) = n /\ fresh # <<>>
  <2>1. PICK n \in (m + 1)..MaxAnswer : fresh = Run(m, n)
    BY <1>1, FreshRuns
  <2>2. n \in Nat /\ m <= n /\ n <= MaxAnswer
    BY <1>1, <2>1
  <2>3. fresh \in Seq(Piece) /\ Len(fresh) = n - m /\ fresh # <<>>
    <3>1. Run(m, n) \in Seq(Piece) /\ Len(Run(m, n)) = n - m
      BY <1>1, <2>2, RunSeq
    <3>2. n - m # 0 /\ Len(<<>>) = 0
      BY <1>1, <2>1
    <3> QED
      BY <2>1, <3>1, <3>2
  <2>4. answer \o fresh = Run(0, n)
    BY <1>1, <2>1, <2>2, TextConcat, Zenon
  <2>5. Len(Run(0, n)) = n
    BY <2>2, TextSeq
  <2> QED
    BY <2>1, <2>3, <2>4, <2>5
<1>3. answer \o <<>> = answer
  BY <1>1, ConcatEmptySeq
<1> HIDE DEF m
<1>4. CASE ReadEnvelope
  <2>1. PICK replay \in Prefixes(answer), fresh \in Fresh \union {<<>>}, id \in BOOLEAN, status \in Status :
          /\ Reading /\ said = "nothing"
          /\ fresh # <<>> => replay \in {<<>>, answer}
          /\ Write(replay, fresh) /\ said' = status
          /\ Forward([text |-> replay \o fresh, id |-> id, status |-> status, stop |-> "no"])
    BY <1>4 DEF ReadEnvelope
  <2>2. PICK k \in 0..m : replay = Run(0, k)
    <3>1. PICK k \in 0..m : replay = SubSeq(answer, 1, k)
      BY <2>1 DEF Prefixes, m
    <3>2. k \in Nat /\ k <= m
      BY <1>1, <3>1
    <3> QED
      BY <1>1, <3>1, <3>2, RunPart
  <2>3. /\ k \in Nat /\ k <= m /\ Len(replay) = k /\ replay \in Seq(Piece)
        /\ (replay = <<>> <=> k = 0) /\ replay \o <<>> = replay
    <3>1. k \in Nat /\ k <= m /\ k <= MaxAnswer /\ 0 <= k
      BY <1>1, <2>2, ChatStreamAssumption
    <3>2. Len(replay) = k /\ replay \in Seq(Piece)
      BY <2>2, <3>1, TextSeq, RunSeq
    <3> QED
      BY <3>1, <3>2, ConcatEmptySeq
  <2> DEFINE t == replay \o fresh
  <2>4. fresh = <<>> => t = replay /\ answer \o fresh = Run(0, m)
    BY <1>1, <1>3, <2>3, Zenon
  <2>5. ASSUME fresh # <<>>
        PROVE  \E n \in m..MaxAnswer :
                 /\ n > m /\ answer \o fresh = Run(0, n) /\ t \in Seq(Piece)
                 /\ replay = <<>> => t = Run(m, n)
                 /\ replay # <<>> => t = Run(0, n) /\ Len(t) = n
    <3>1. PICK n \in (m + 1)..MaxAnswer :
             /\ fresh = Run(m, n) /\ answer \o fresh = Run(0, n)
             /\ fresh \in Seq(Piece) /\ Len(answer \o fresh) = n
      BY <1>2, <2>1, <2>5
    <3>2. n \in m..MaxAnswer /\ n > m
      BY <1>1, <3>1
    <3>3. t \in Seq(Piece)
      BY <2>3, <3>1, ConcatProperties
    <3>4. replay = <<>> => t = Run(m, n)
      <4>1. <<>> \o fresh = fresh
        BY <3>1, ConcatEmptySeq
      <4> QED
        BY <3>1, <4>1, Zenon
    <3>5. replay # <<>> => t = Run(0, n) /\ Len(t) = n
      BY <2>1, <2>5, <3>1, Zenon
    <3> HIDE DEF t
    <3> QED
      BY <3>1, <3>2, <3>3, <3>4, <3>5
  <2>6. garbled' = (garbled \/ (replay # <<>> /\ Len(t) < SnapshotLen)) /\ answer' = answer \o fresh
    BY <2>1 DEF Write, Misleading
  <2> HIDE DEF t
  <2>7. ~garbled' => replay = <<>> \/ ~(Len(t) < SnapshotLen)
    BY <2>6, Zenon
  <2> USE DEF t
  <2>8. Forward([text |-> t, id |-> id, status |-> status, stop |-> "no"])
    BY <2>1
  <2> HIDE DEF t
  <2>9. PICK n \in m..MaxAnswer :
          /\ answer \o fresh = Run(0, n) /\ t \in Seq(Piece)
          /\ ~garbled' => \/ t = <<>> /\ n = m
                          \/ t = Run(m, n) /\ n > m
                          \/ \E j \in 1..n : j >= SnapshotLen /\ t = Run(0, j) /\ (n = j \/ n = m)
    <3>1. SnapshotLen \in Nat
      BY ChatStreamAssumption
    <3>2. CASE fresh = <<>>
      <4>1. k # 0 => k \in 1..m
        BY <2>3
      <4>2. ~garbled' => k = 0 \/ k >= SnapshotLen
        BY <2>4, <2>7, <2>3, <3>1, <3>2
      <4>3. answer \o fresh = Run(0, m) /\ t \in Seq(Piece) /\ t = Run(0, k) /\ (k = 0 => t = <<>>)
        BY <2>4, <2>2, <2>3, <3>2
      <4> QED
        BY <1>1, <4>1, <4>2, <4>3
    <3>3. CASE fresh # <<>>
      <4>1. PICK n \in m..MaxAnswer :
              /\ n > m /\ answer \o fresh = Run(0, n) /\ t \in Seq(Piece)
              /\ replay = <<>> => t = Run(m, n)
              /\ replay # <<>> => t = Run(0, n) /\ Len(t) = n
        BY <2>5, <3>3
      <4>2. n \in 1..n
        BY <1>1, <4>1
      <4>3. ~garbled' => replay = <<>> \/ n >= SnapshotLen
        BY <1>1, <2>7, <3>1, <4>1
      <4> QED
        BY <4>1, <4>2, <4>3
    <3> QED
      BY <3>2, <3>3
  <2> DEFINE line == [text |-> t, id |-> id, status |-> status, stop |-> "no"]
  <2>10. line \in Line
    BY <2>1, <2>9 DEF Line, Stop
  <2>11. line.text = t /\ line.stop = "no" /\ line.status = status
    OBVIOUS
  <2> HIDE DEF line
  <2>12. ~garbled' => Carries(line, m, n)
    BY <1>1, <2>9, <2>11 DEF Carries
  <2>13. /\ answer' = Run(0, n) /\ garbled' \in BOOLEAN /\ (garbled => garbled')
    BY <1>1, <2>9, <2>6
  <2>14. line # DoneLine
    BY <2>11, OtherLine
  <2>15. Says(line)
    BY <2>1, <2>11 DEF Says, Status
  <2>16. Reads(line, n)
    <3>1. Forward(line)
      BY <2>8 DEF line
    <3> QED
      BY <2>1, <2>11, <2>12, <2>13, <2>14, <2>15, <3>1 DEF Reads, m
  <2> QED
    BY <2>10, <2>16 DEF m
<1>5. CASE ReadText
  <2>1. PICK fresh \in Fresh :
          /\ Reading /\ said \in {"nothing", "none", "unfinished"}
          /\ Write(<<>>, fresh) /\ Forward([Other EXCEPT !.text = fresh])
          /\ said' = IF said = "nothing" THEN "none" ELSE said
    BY <1>5 DEF ReadText
  <2>2. PICK n \in (m + 1)..MaxAnswer :
           /\ fresh = Run(m, n) /\ answer \o fresh = Run(0, n)
           /\ fresh \in Seq(Piece) /\ Len(answer \o fresh) = n /\ fresh # <<>>
    BY <1>2
  <2> DEFINE line == [Other EXCEPT !.text = fresh]
  <2>3. /\ line \in Line /\ line.text = fresh /\ line.stop = "no" /\ line.status = "none"
        /\ line # DoneLine
    BY <2>2, OtherLine DEF Line
  <2>4. n \in m..MaxAnswer /\ n > m
    BY <1>1, <2>2
  <2>5. Forward(line)
    BY <2>1
  <2> HIDE DEF line
  <2>6. answer' = Run(0, n) /\ garbled' = garbled
    BY <1>1, <2>1, <2>2 DEF Write, Misleading
  <2>7. Carries(line, m, n)
    BY <2>2, <2>3, <2>4 DEF Carries
  <2>8. Says(line)
    BY <2>1, <2>3 DEF Says
  <2>9. Reads(line, n)
    BY <1>1, <2>1, <2>3, <2>5, <2>6, <2>7, <2>8 DEF Reads, m
  <2> QED
    BY <2>3, <2>4, <2>9 DEF m
<1>6. ASSUME NEW line \in Line, Reading, Forward(line), line.text = <<>>, line # DoneLine,
             UNCHANGED <<answer, garbled>>, Says(line), line.stop = "done" => said' = "finished"
      PROVE  Reads(line, m)
  <2>1. Carries(line, m, m)
    BY <1>1, <1>6, CarriesNothing
  <2> QED
    BY <1>1, <1>6, <2>1 DEF Reads, m
<1>7. CASE ReadStatus
  <2>1. PICK status \in {"unfinished", "finished"} :
          /\ Reading /\ said \in {"nothing", "none", "unfinished"} /\ said' = status
          /\ Forward([Other EXCEPT !.status = status,
                                   !.stop = IF status = "finished" THEN "done" ELSE "no"])
          /\ UNCHANGED <<answer, garbled>>
    BY <1>7 DEF ReadStatus
  <2> DEFINE stop == IF status = "finished" THEN "done" ELSE "no"
             line == [Other EXCEPT !.status = status, !.stop = stop]
  <2>2. stop \in Stop /\ (stop = "done" => status = "finished")
    BY DEF Stop
  <2>3. Forward(line)
    BY <2>1
  <2> HIDE DEF stop
  <2>4. line \in Line /\ line.text = <<>> /\ line.stop = stop /\ line.status = status /\ line # DoneLine
    BY <2>2, OtherLine DEF Line, Status
  <2> HIDE DEF line
  <2>5. Says(line)
    BY <2>1, <2>4 DEF Says
  <2>6. Reads(line, m)
    BY <1>6, <2>1, <2>2, <2>3, <2>4, <2>5
  <2> QED
    BY <1>1, <2>4, <2>6 DEF m
<1>8. CASE ReadRefusal
  <2>1. PICK stop \in {"filtered", "failed"} :
          /\ Reading /\ said \in {"nothing", "none", "unfinished"} /\ said' = "refused"
          /\ Forward([Other EXCEPT !.stop = stop]) /\ UNCHANGED <<answer, garbled>>
    BY <1>8 DEF ReadRefusal
  <2> DEFINE line == [Other EXCEPT !.stop = stop]
  <2>2. Forward(line)
    BY <2>1
  <2>3. line \in Line /\ line.text = <<>> /\ line.stop = stop /\ line.status = "none" /\ line # DoneLine
    BY <2>1, OtherLine DEF Line, Stop
  <2> HIDE DEF line
  <2>4. Says(line)
    BY <2>1, <2>3 DEF Says
  <2>5. Reads(line, m)
    BY <1>6, <2>1, <2>2, <2>3, <2>4
  <2> QED
    BY <1>1, <2>3, <2>5 DEF m
<1>9. CASE ReadOther
  <2>1. Reading /\ Forward(Other) /\ UNCHANGED <<answer, said, garbled>>
    BY <1>9 DEF ReadOther, upstreamVars
  <2>2. Says(Other)
    BY <2>1, OtherLine DEF Says
  <2>3. Reads(Other, m)
    BY <1>6, <2>1, <2>2, OtherLine
  <2> QED
    BY <1>1, <2>3, OtherLine DEF m
<1> QED
  BY <1>4, <1>5, <1>7, <1>8, <1>9

-----------------------------------------------------------------------------
(***************************************************************************)
(* Types.                                                                  *)
(***************************************************************************)

\* The types at the start.
LEMMA TypeInit == Init => TypeOK
<1> SUFFICES ASSUME Init PROVE TypeOK
  OBVIOUS
<1>1. <<>> \in Seq(Piece) /\ <<>> \in Seq(Line) /\ Len(<<>>) = 0
  OBVIOUS
<1>2. 0 \in 0..(MaxKeepAlive - 1) /\ 0 \in 0..(IdleTicks + 1) /\ 0 \in 0..MaxRounds
      /\ 0 <= MaxAnswer /\ 0 <= Buffer
  BY ChatStreamAssumption
<1>3. state \in State
  BY DEF Init, State, Status
<1> QED
  BY <1>1, <1>2, <1>3, OtherLine DEF Init, TypeOK, Status, Reason, Stop

\* The pump has read a line.
LEMMA ReadsType ==
  ASSUME TypeOK, NEW line \in Line, NEW n \in Len(answer)..MaxAnswer, Reads(line, n)
  PROVE  TypeOK'
<1>1. n \in Nat /\ n <= MaxAnswer
  <2>1. Len(answer) \in Nat
    BY DEF TypeOK
  <2> QED
    BY <2>1, ChatStreamAssumption
<1>2. answer' \in Seq(Piece) /\ Len(answer') <= MaxAnswer
  <2>1. Run(0, n) \in Seq(Piece) /\ Len(Run(0, n)) = n
    BY <1>1, RunSeq, TextSeq
  <2> QED
    BY <1>1, <2>1 DEF Reads
<1>3. state' \in State
  <2>1. line.id \in BOOLEAN /\ line.status \in Status /\ state' = observe(state, line)
    BY DEF Reads, Forward, Line
  <2> QED
    BY <2>1 DEF TypeOK, State, observe, Status
<1>4. said' \in Status \union {"nothing", "refused"} /\ garbled' \in BOOLEAN
  BY DEF TypeOK, Reads, Says, Status
<1>5. /\ cpc' = "writing" /\ cline' = line
      /\ UNCHANGED <<cerr, rounds, hadDone, pumpVars, engineVars, handlerVars>>
  BY DEF Reads, Forward
<1> QED
  BY <1>2, <1>3, <1>4, <1>5 DEF TypeOK, pumpVars, engineVars, timerVars, handlerVars

\* What TrimContinuationOverlap leaves is a text.
LEMMA TrimType ==
  ASSUME NEW existing \in Seq(Piece), NEW incoming \in Seq(Piece)
  PROVE  existing \o TrimContinuationOverlap(existing, incoming) \in Seq(Piece)
<1>1. SubSeq(incoming, Len(existing) + 1, Len(incoming)) \in Seq(Piece)
  <2>1. /\ Len(existing) + 1 \in Int /\ Len(incoming) \in Int
        /\ \A i \in (Len(existing) + 1)..Len(incoming) : incoming[i] \in Piece
    <3>1. Len(existing) \in Nat /\ Len(incoming) \in Nat
      BY LenProperties
    <3>2. \A i \in 1..Len(incoming) : incoming[i] \in Piece
      BY ElementOfSeq
    <3> QED
      BY <3>1, <3>2
  <2> QED
    BY <2>1, SubSeqProperties
<1>2. TrimContinuationOverlap(existing, incoming) \in Seq(Piece)
  <2>1. <<>> \in Seq(Piece)
    OBVIOUS
  <2> QED
    BY <1>1, <2>1 DEF TrimContinuationOverlap
<1> QED
  BY <1>2, ConcatProperties

\* Steps of the pumps.
LEMMA PumpType ==
  ASSUME TypeOK,
         \/ ReadDone \/ ReadEnd \/ OpenRound \/ (\E err \in BOOLEAN : ClosePipe(err))
         \/ PumpScan \/ PumpSend \/ (\E err \in BOOLEAN : PumpEnds(err))
  PROVE  TypeOK'
<1>1. CASE ReadDone
  BY <1>1 DEF ReadDone, Reading, TypeOK, upstreamVars, pumpVars, engineVars, timerVars, handlerVars
<1>2. CASE ReadEnd
  <2>1. rounds' \in 0..MaxRounds
    <3>1. rounds' = rounds \/ (rounds < MaxRounds /\ rounds' = rounds + 1)
      BY <1>2 DEF ReadEnd
    <3> QED
      BY <3>1, ChatStreamAssumption DEF TypeOK
  <2>2. cpc' \in {"reading", "writing", "opening", "finishing", "closed"} /\ cline' \in Line
    BY <1>2, OtherLine DEF ReadEnd, TypeOK
  <2>3. UNCHANGED <<upstreamVars, cerr, state, hadDone, pumpVars, engineVars, handlerVars>>
    BY <1>2 DEF ReadEnd
  <2> QED
    BY <2>1, <2>2, <2>3 DEF TypeOK, upstreamVars, pumpVars, engineVars, timerVars, handlerVars
<1>3. CASE OpenRound
  <2>1. state' \in State
    BY <1>3 DEF OpenRound, prepareForNextRound, TypeOK, State, Status
  <2> QED
    BY <1>3, <2>1 DEF OpenRound, TypeOK, Status, pumpVars, engineVars, timerVars, handlerVars
<1>4. ASSUME NEW err \in BOOLEAN, ClosePipe(err) PROVE TypeOK'
  BY <1>4, OtherLine DEF ClosePipe, TypeOK, upstreamVars, pumpVars, engineVars, timerVars, handlerVars
<1>5. CASE PumpScan
  BY <1>5, OtherLine DEF PumpScan, LineTaken, TypeOK, upstreamVars, engineVars, timerVars, handlerVars
<1>6. CASE PumpSend
  <2>1. /\ Len(buffer) < Buffer /\ buffer' = Append(buffer, pline) /\ pline' = Other
        /\ ppc' = "scanning"
        /\ UNCHANGED <<upstreamVars, continueVars, engineVars, handlerVars>>
    BY <1>6 DEF PumpSend
  <2>2. buffer' \in Seq(Line) /\ Len(buffer') <= Buffer
    <3>1. buffer \in Seq(Line) /\ pline \in Line
      BY DEF TypeOK
    <3>2. buffer' \in Seq(Line) /\ Len(buffer') = Len(buffer) + 1 /\ Len(buffer) \in Nat
      BY <2>1, <3>1, AppendProperties, LenProperties
    <3> QED
      BY <2>1, <3>2, ChatStreamAssumption
  <2> QED
    BY <2>1, <2>2, OtherLine DEF TypeOK, upstreamVars, continueVars, engineVars, timerVars, handlerVars
<1>7. ASSUME NEW err \in BOOLEAN, PumpEnds(err) PROVE TypeOK'
  BY <1>7, OtherLine DEF PumpEnds, TypeOK, upstreamVars, continueVars, timerVars, handlerVars
<1> QED
  BY <1>1, <1>2, <1>3, <1>4, <1>5, <1>6, <1>7

\* Steps of the consumer.
LEMMA ConsumerType ==
  ASSUME TypeOK, Lines \/ EngineTick \/ Tick \/ Collect
  PROVE  TypeOK'
<1>1. 0 \in 0..(MaxKeepAlive - 1) /\ 0 \in 0..(IdleTicks + 1)
  BY ChatStreamAssumption
<1>2. ASSUME NEW why \in Reason, Ends(why)
      PROVE  /\ reason' \in Reason /\ hasContent' \in BOOLEAN /\ tickDue' \in BOOLEAN
             /\ keepalives' \in 0..(MaxKeepAlive - 1) /\ age' \in 0..(IdleTicks + 1)
  BY <1>2, <1>1 DEF Ends
<1>3. ASSUME TakeLine
      PROVE  /\ buffer' \in Seq(Line) /\ Len(buffer') <= Buffer /\ Head(buffer) \in Line
             /\ UNCHANGED <<upstreamVars, continueVars, ppc, pline, mode, scanErr, handlerVars>>
  <2>1. buffer \in Seq(Line) /\ buffer # <<>> /\ buffer' = Tail(buffer) /\ Len(buffer) <= Buffer
    BY <1>3 DEF TakeLine, TypeOK
  <2>2. Head(buffer) \in Line /\ Tail(buffer) \in Seq(Line) /\ Len(Tail(buffer)) = Len(buffer) - 1
    BY <2>1, HeadTailProperties
  <2>3. Len(buffer) \in Nat
    BY <2>1, LenProperties
  <2>4. Len(buffer') <= Buffer
    BY <2>1, <2>2, <2>3, ChatStreamAssumption
  <2> QED
    BY <1>3, <2>1, <2>2, <2>4 DEF TakeLine
<1>4. {"context_cancelled", "no_content_timeout", "idle_timeout", "upstream_completed",
       "handler_requested", "content_filter", "none"} \subseteq Reason
  BY DEF Reason
<1>5. CASE EngineText
  <2>1. /\ TakeLine /\ text' = text \o TrimContinuationOverlap(text, Head(buffer).text)
        /\ \/ hasContent' = TRUE /\ age' = 0 /\ keepalives' = 0
           \/ UNCHANGED <<hasContent, age, keepalives>>
        /\ UNCHANGED <<reason, stopped, tickDue>>
    BY <1>5 DEF EngineText
  <2>2. text' \in Seq(Piece)
    <3>1. Head(buffer).text \in Seq(Piece) /\ text \in Seq(Piece)
      BY <1>3, <2>1 DEF TypeOK, Line
    <3> QED
      BY <2>1, <3>1, TrimType
  <2>3. /\ hasContent' \in BOOLEAN /\ keepalives' \in 0..(MaxKeepAlive - 1)
        /\ age' \in 0..(IdleTicks + 1)
    BY <1>1, <2>1, Zenon DEF TypeOK
  <2> QED
    BY <1>3, <2>1, <2>2, <2>3 DEF TypeOK, upstreamVars, continueVars, handlerVars
<1>6. CASE EngineStop
  <2>1. /\ TakeLine /\ stopped' = Head(buffer).stop /\ UNCHANGED text
        /\ \E why \in {"content_filter", "handler_requested"} : Ends(why)
    BY <1>6 DEF EngineStop
  <2>2. stopped' \in Stop
    BY <1>3, <2>1 DEF Line
  <2> QED
    BY <1>2, <1>3, <1>4, <2>1, <2>2 DEF TypeOK, upstreamVars, continueVars, handlerVars
<1>7. ASSUME \E why \in Reason : Ends(why),
             UNCHANGED <<upstreamVars, continueVars, pumpVars, mode, text, stopped, scanErr, handlerVars>>
      PROVE  TypeOK'
  BY <1>7, <1>2 DEF TypeOK, upstreamVars, continueVars, pumpVars, handlerVars
<1>8. CASE EngineEof \/ EngineCancelled
  BY <1>7, <1>8, <1>4 DEF EngineEof, EngineCancelled
<1>9. CASE EngineTick
  <2>1. /\ UNCHANGED <<upstreamVars, continueVars, pumpVars, mode, text, stopped, scanErr, handlerVars>>
        /\ \/ \E why \in {"idle_timeout", "no_content_timeout"} : Ends(why)
           \/ /\ ~TickExpires /\ tickDue' = FALSE
              /\ keepalives' = IF hasContent THEN keepalives ELSE keepalives + 1
              /\ UNCHANGED <<reason, hasContent, age>>
    BY <1>9 DEF EngineTick
  <2>2. CASE \E why \in {"idle_timeout", "no_content_timeout"} : Ends(why)
    BY <1>7, <1>4, <2>1, <2>2
  <2>3. CASE /\ ~TickExpires /\ tickDue' = FALSE
             /\ keepalives' = IF hasContent THEN keepalives ELSE keepalives + 1
             /\ UNCHANGED <<reason, hasContent, age>>
    <3>1. keepalives' \in 0..(MaxKeepAlive - 1)
      <4>1. CASE hasContent
        BY <2>3, <4>1 DEF TypeOK
      <4>2. CASE ~hasContent
        BY <2>3, <4>2, ChatStreamAssumption DEF TypeOK, TickExpires
      <4> QED
        BY <4>1, <4>2
    <3>2. tickDue' \in BOOLEAN /\ UNCHANGED <<reason, hasContent, age>>
      BY <2>3
    <3>3. UNCHANGED <<upstreamVars, continueVars, pumpVars, mode, text, stopped, scanErr, handlerVars>>
      BY <2>1
    <3> QED
      BY <3>1, <3>2, <3>3 DEF TypeOK, upstreamVars, continueVars, pumpVars, handlerVars
  <2> QED
    BY <2>1, <2>2, <2>3
<1>10. CASE Tick
  <2>1. age' \in 0..(IdleTicks + 1)
    BY <1>10, ChatStreamAssumption DEF Tick, TypeOK
  <2> QED
    BY <1>10, <2>1 DEF Tick, TypeOK, upstreamVars, continueVars, pumpVars, handlerVars
<1>11. CASE CollectLine
  <2>1. text' \in Seq(Piece)
    <3>1. cline.text \in Seq(Piece) /\ text \in Seq(Piece)
      BY DEF TypeOK, Line
    <3>2. text \o TrimContinuationOverlap(text, cline.text) \in Seq(Piece)
      BY <3>1, TrimType
    <3> QED
      BY <1>11, <3>1, <3>2, Zenon DEF CollectLine
  <2>2. stopped' \in Stop /\ reason' \in Reason
    BY <1>11 DEF CollectLine, TypeOK, Line, Reason
  <2>3. /\ LineTaken /\ UNCHANGED <<upstreamVars, pumpVars, mode, scanErr, timerVars, handlerVars>>
    BY <1>11 DEF CollectLine
  <2> QED
    BY <2>1, <2>2, <2>3, OtherLine DEF LineTaken, TypeOK, upstreamVars, pumpVars, timerVars, handlerVars
<1>12. CASE CollectEof
  BY <1>12 DEF CollectEof, TypeOK, Reason, upstreamVars, continueVars, pumpVars, timerVars, handlerVars
<1> QED
  BY <1>5, <1>6, <1>8, <1>9, <1>10, <1>11, <1>12 DEF Lines, Collect

\* The parts of a step.
LEMMA Steps ==
  ASSUME TypeOK, Texts, [Next]_vars
  PROVE  \/ \E line \in Line, n \in Len(answer)..MaxAnswer : Reads(line, n)
         \/ ReadDone \/ ReadEnd \/ OpenRound
         \/ UpstreamFails \/ CallCancelled \/ WriteFails
         \/ PumpScan \/ PumpSend \/ PumpAbandons \/ PumpEof
         \/ EngineText \/ EngineStop \/ EngineEof \/ EngineCancelled \/ EngineTick \/ Tick
         \/ CollectLine \/ CollectEof \/ CloseBody \/ HandlerReturns \/ Disconnect
         \/ UNCHANGED vars
<1>1. Upstream => \/ ReadEnvelope \/ ReadText \/ ReadStatus \/ ReadRefusal \/ ReadOther
                  \/ ReadDone \/ ReadEnd \/ OpenRound \/ UpstreamFails
  BY DEF Upstream
<1> QED
  BY <1>1, UpstreamReads DEF Next, Pump, Lines, Collect, Handler, Finished

\* Every step keeps the types.
LEMMA TypeNext == TypeOK /\ Texts /\ [Next]_vars => TypeOK'
<1> SUFFICES ASSUME TypeOK, Texts, [Next]_vars PROVE TypeOK'
  OBVIOUS
<1>1. CASE \E line \in Line, n \in Len(answer)..MaxAnswer : Reads(line, n)
  BY <1>1, ReadsType
<1>2. CASE ReadDone \/ ReadEnd \/ OpenRound \/ PumpScan \/ PumpSend
  BY <1>2, PumpType
<1>3. CASE UpstreamFails \/ CallCancelled \/ WriteFails
  <2>1. ClosePipe(TRUE)
    BY <1>3 DEF UpstreamFails, CallCancelled, WriteFails
  <2> QED
    BY <2>1, PumpType
<1>4. CASE PumpAbandons \/ PumpEof
  <2>1. \E err \in BOOLEAN : PumpEnds(err)
    <3>1. (closed \/ cerr) \in BOOLEAN
      BY DEF TypeOK
    <3> QED
      BY <1>4, <3>1 DEF PumpAbandons, PumpEof
  <2> QED
    BY <2>1, PumpType
<1>5. CASE Lines \/ EngineTick \/ Tick \/ Collect
  BY <1>5, ConsumerType
<1>6. CASE CloseBody \/ HandlerReturns \/ Disconnect
  <2>1. /\ closed' \in BOOLEAN /\ ctxDone' \in BOOLEAN
        /\ UNCHANGED <<upstreamVars, continueVars, pumpVars, engineVars>>
    BY <1>6 DEF CloseBody, HandlerReturns, Disconnect, TypeOK
  <2> QED
    BY <2>1 DEF TypeOK, upstreamVars, continueVars, pumpVars, engineVars, timerVars
<1>7. CASE UNCHANGED vars
  BY <1>7 DEF vars, TypeOK, upstreamVars, continueVars, pumpVars, engineVars, timerVars, handlerVars
<1> QED
  BY <1>1, <1>2, <1>3, <1>4, <1>5, <1>6, <1>7, Steps DEF Lines, Collect

-----------------------------------------------------------------------------
(***************************************************************************)
(* Where the goroutines are, and the end of the answer.                    *)
(***************************************************************************)

\* The other parts of the invariant at the start.
LEMMA ControlInit == Init => Control /\ Observed /\ LastWord
BY OtherLine DEF Init, Control, Observed, LastWord, Running

\* Every step keeps the goroutines where their lines say.
LEMMA ControlNext ==
  ASSUME TypeOK, Texts, Control, [Next]_vars
  PROVE  Control'
<1> USE DEF Control, Running
<1>1. ASSUME NEW line, NEW n, Reads(line, n) PROVE Control'
  BY <1>1 DEF Reads, Reading, Forward, pumpVars, engineVars, handlerVars
<1>2. CASE ReadDone
  BY <1>2 DEF ReadDone, pumpVars, engineVars, handlerVars
<1>3. CASE ReadEnd
  BY <1>3, OtherLine DEF ReadEnd, Reading, pumpVars, engineVars, handlerVars
<1>4. CASE OpenRound
  BY <1>4 DEF OpenRound, pumpVars, engineVars, handlerVars
<1>5. ASSUME NEW err \in BOOLEAN, ClosePipe(err), cpc # "closed" PROVE Control'
  BY <1>5, OtherLine DEF ClosePipe, pumpVars, engineVars, handlerVars
<1>6. CASE UpstreamFails \/ CallCancelled \/ WriteFails
  BY <1>5, <1>6 DEF UpstreamFails, CallCancelled, WriteFails
<1>7. CASE PumpScan
  BY <1>7, OtherLine DEF PumpScan, LineTaken, engineVars, handlerVars
<1>8. CASE PumpSend
  BY <1>8, OtherLine DEF PumpSend, continueVars, engineVars, handlerVars
<1>9. CASE PumpAbandons \/ PumpEof
  <2>1. /\ mode = "stream"
        /\ \E err \in BOOLEAN : PumpEnds(err) /\ (~err => ~closed /\ cpc = "closed" /\ ~cerr)
    <3>1. mode = "stream"
      BY <1>9, ChatStreamAssumption DEF PumpAbandons, PumpEof, TypeOK
    <3>2. CASE PumpAbandons
      BY <3>1, <3>2 DEF PumpAbandons
    <3>3. CASE PumpEof
      <4>1. (closed \/ cerr) \in BOOLEAN /\ PumpEnds(closed \/ cerr) /\ (closed \/ cpc = "closed")
        BY <3>3 DEF PumpEof, TypeOK
      <4> QED
        BY <3>1, <4>1, Zenon
    <3> QED
      BY <1>9, <3>2, <3>3
  <2> QED
    BY <2>1 DEF PumpEnds, continueVars, handlerVars
<1>10. CASE EngineText
  BY <1>10 DEF EngineText, TakeLine, Selecting, continueVars, handlerVars
<1>11. CASE EngineStop
  BY <1>11 DEF EngineStop, TakeLine, Selecting, Ends, continueVars, handlerVars
<1>12. CASE EngineEof \/ EngineCancelled \/ EngineTick
  BY <1>12 DEF EngineEof, EngineCancelled, EngineTick, Selecting, Ends, continueVars, pumpVars, handlerVars
<1>13. CASE Tick
  BY <1>13 DEF Tick, continueVars, pumpVars, handlerVars
<1>14. CASE CollectLine
  BY <1>14, OtherLine DEF CollectLine, LineTaken, pumpVars, handlerVars
<1>15. CASE CollectEof
  BY <1>15 DEF CollectEof, continueVars, pumpVars, handlerVars
<1>16. CASE CloseBody \/ HandlerReturns \/ Disconnect
  BY <1>16 DEF CloseBody, HandlerReturns, Disconnect, continueVars, pumpVars, engineVars
<1>17. CASE UNCHANGED vars
  BY <1>17 DEF vars, continueVars, pumpVars, engineVars, handlerVars
<1> QED
  BY <1>1, <1>2, <1>3, <1>4, <1>6, <1>7, <1>8, <1>9, <1>10, <1>11, <1>12, <1>13, <1>14, <1>15,
     <1>16, <1>17, Steps

\* The pump has observed what the upstream said of the round.
LEMMA ObservedNext ==
  ASSUME TypeOK, Texts, Control, Observed, [Next]_vars
  PROVE  Observed'
<1>1. ASSUME NEW line \in Line, NEW n, Reads(line, n) PROVE Observed'
  <2>1. state' = observe(state, line) /\ Says(line)
    BY <1>1 DEF Reads, Forward
  <2>2. /\ state'.last = IF line.status = "none" THEN state.last ELSE line.status
        /\ state'.finished <=> state.finished \/ line.status = "finished"
    BY <2>1 DEF observe
  <2> QED
    BY <2>1, <2>2 DEF Observed, Says
<1>2. CASE OpenRound
  BY <1>2 DEF OpenRound, prepareForNextRound, Observed, TypeOK, State
<1>3. ASSUME UNCHANGED <<said, state>> PROVE Observed'
  BY <1>3 DEF Observed
<1> QED
  BY <1>1, <1>2, <1>3, Steps DEF ReadDone, ReadEnd, UpstreamFails, CallCancelled, WriteFails, ClosePipe,
     PumpScan, LineTaken, PumpSend, PumpAbandons, PumpEof, PumpEnds, EngineText, EngineStop, TakeLine,
     EngineEof, EngineCancelled, EngineTick, Tick, CollectLine, CollectEof, CloseBody, HandlerReturns,
     Disconnect, vars, upstreamVars, continueVars

\* What is over stays over, and adds nothing.
LEMMA OverStays ==
  ASSUME TypeOK, Texts, Control, Observed, Over, [Next]_vars
  PROVE  Over' /\ said' = said /\ answer' = answer /\ garbled' = garbled
<1>1. ASSUME NEW line \in Line, NEW n, Reads(line, n)
      PROVE  Over' /\ said' = said /\ answer' = answer /\ garbled' = garbled
  <2>1. cpc = "reading" /\ cpc' = "writing" /\ said = "finished"
    BY <1>1 DEF Reads, Reading, Forward, Over
  <2> QED
    BY <1>1, <2>1 DEF Reads, Says, Over, Texts
<1>2. CASE ReadEnd
  <2>1. cpc = "reading" /\ said = "finished" /\ state.finished
    BY <1>2 DEF ReadEnd, Reading, Over, Observed
  <2>2. cpc' \in {"finishing", "closed"} /\ UNCHANGED upstreamVars
    BY <1>2, <2>1 DEF ReadEnd, shouldContinue
  <2> QED
    BY <2>1, <2>2 DEF Over, upstreamVars
<1>3. ~OpenRound
  BY DEF OpenRound, Over
<1>4. CASE UpstreamFails \/ CallCancelled \/ WriteFails
  BY <1>4 DEF UpstreamFails, CallCancelled, WriteFails, ClosePipe, Over, upstreamVars
<1>5. CASE PumpScan \/ CollectLine
  BY <1>5 DEF PumpScan, CollectLine, LineTaken, Over, upstreamVars
<1>6. ASSUME UNCHANGED <<upstreamVars, cpc, state, rounds>>
      PROVE  Over' /\ said' = said /\ answer' = answer /\ garbled' = garbled
  BY <1>6 DEF Over, upstreamVars
<1>7. CASE ReadDone
  BY <1>6, <1>7 DEF ReadDone
<1> QED
  BY <1>1, <1>2, <1>3, <1>4, <1>5, <1>6, <1>7, Steps DEF
     PumpSend, PumpAbandons, PumpEof, PumpEnds, EngineText, EngineStop, TakeLine,
     EngineEof, EngineCancelled, EngineTick, Tick, CollectEof, CloseBody, HandlerReturns,
     Disconnect, vars, continueVars

\* What ends an answer stays the last word.
LEMMA LastWordNext ==
  ASSUME TypeOK, Texts, Control, Observed, LastWord, [Next]_vars
  PROVE  LastWord'
<1>1. Over => Over'
  BY OverStays
\* It is over, or no line ends an answer.
<1>2. ASSUME Over' PROVE LastWord'
  BY <1>2 DEF LastWord
<1>3. ASSUME ~Over
      PROVE  /\ cpc \notin {"finishing", "closed"} \/ cerr
             /\ cline.stop # "done" /\ pline.stop # "done" /\ stopped # "done"
             /\ \A j \in 1..Len(buffer) : buffer[j].stop # "done"
             /\ ~(reason = "upstream_completed" /\ ~scanErr /\ stopped = "no")
  BY <1>3 DEF LastWord
<1> SUFFICES ASSUME ~Over, ~Over' PROVE LastWord'
  BY <1>1, <1>2
<1>4. \A j \in 1..Len(buffer) : buffer[j].stop # "done"
  BY <1>3
<1>5. ASSUME NEW line \in Line, NEW n, Reads(line, n) PROVE LastWord'
  <2>1. line.stop # "done"
    BY <1>5 DEF Reads, Forward, Over
  <2> QED
    BY <1>5, <1>3, <2>1 DEF Reads, Reading, Forward, LastWord, pumpVars, engineVars, handlerVars
<1>6. CASE ReadDone
  BY <1>6, <1>3 DEF ReadDone, LastWord, Reading, pumpVars, engineVars
<1>7. CASE ReadEnd
  <2>1. cpc' = "opening" /\ UNCHANGED cline
    <3>1. CASE shouldContinue(state) /\ rounds < MaxRounds
      BY <1>7, <3>1 DEF ReadEnd
    <3>2. CASE ~(shouldContinue(state) /\ rounds < MaxRounds)
      <4>1. cpc' \in {"finishing", "closed"} /\ UNCHANGED <<said, rounds, state>>
        BY <1>7, <3>2 DEF ReadEnd, upstreamVars
      <4>2. said = "unfinished" => rounds = MaxRounds \/ ~state.id
        <5>1. rounds < MaxRounds \/ rounds = MaxRounds
          BY ChatStreamAssumption DEF TypeOK
        <5> QED
          BY <3>2, <5>1 DEF shouldContinue, Observed
      <4> QED
        BY <4>1, <4>2 DEF Over
    <3> QED
      BY <3>1, <3>2
  <2> QED
    BY <1>7, <1>3, <2>1 DEF ReadEnd, LastWord, pumpVars, engineVars
<1>8. CASE OpenRound
  BY <1>8, <1>3 DEF OpenRound, LastWord, pumpVars, engineVars
<1>9. CASE UpstreamFails \/ CallCancelled \/ WriteFails
  BY <1>9, <1>3, OtherLine DEF UpstreamFails, CallCancelled, WriteFails, ClosePipe, LastWord, pumpVars, engineVars
<1>10. CASE PumpScan
  <2>1. cpc = "writing" /\ cpc' = "reading"
    BY <1>10, <1>3, OtherLine DEF PumpScan, LineTaken, Control
  <2> QED
    BY <1>10, <1>3, <2>1, OtherLine DEF PumpScan, LineTaken, LastWord, engineVars
<1>11. CASE PumpSend
  <2>1. buffer' = Append(buffer, pline) /\ buffer \in Seq(Line) /\ pline \in Line
    BY <1>11 DEF PumpSend, TypeOK
  <2>2. \A j \in 1..Len(buffer') : (j \in 1..Len(buffer) /\ buffer'[j] = buffer[j]) \/ buffer'[j] = pline
    BY <2>1, AppendProperties
  <2> QED
    BY <1>11, <1>3, <2>2, OtherLine DEF PumpSend, LastWord, continueVars, engineVars
<1>12. CASE PumpAbandons \/ PumpEof
  BY <1>12, <1>3, OtherLine DEF PumpAbandons, PumpEof, PumpEnds, LastWord, continueVars, Control
<1>13. ASSUME TakeLine
      PROVE  /\ Head(buffer).stop # "done"
             /\ \A j \in 1..Len(buffer') : buffer'[j].stop # "done"
  <2>1. buffer \in Seq(Line) /\ buffer # <<>> /\ buffer' = Tail(buffer)
    BY <1>13 DEF TakeLine, TypeOK
  <2>2. Len(buffer') = Len(buffer) - 1 /\ \A j \in 1..Len(buffer') : buffer'[j] = buffer[j + 1]
    BY <2>1, HeadTailProperties
  <2>3. Len(buffer) \in Nat /\ Len(buffer) >= 1
    BY <2>1, EmptySeq
  <2>4. \A j \in 1..Len(buffer') : j + 1 \in 1..Len(buffer)
    BY <2>2, <2>3
  <2>5. 1 \in 1..Len(buffer) /\ Head(buffer) = buffer[1]
    BY <2>1, <2>3
  <2> QED
    BY <1>3, <2>2, <2>4, <2>5
<1>14. CASE EngineText
  BY <1>14, <1>3, <1>13 DEF EngineText, TakeLine, LastWord, continueVars
<1>15. CASE EngineStop
  BY <1>15, <1>3, <1>13 DEF EngineStop, TakeLine, Ends, LastWord, continueVars
<1>16. CASE EngineEof
  <2>1. scanErr
    BY <1>16, <1>3 DEF EngineEof, Selecting, Control
  <2> QED
    BY <1>16, <1>3, <2>1 DEF EngineEof, Ends, LastWord, continueVars, pumpVars
<1>17. CASE EngineCancelled \/ EngineTick
  <2>1. reason' # "upstream_completed" \/ reason' = reason
    BY <1>17 DEF EngineCancelled, EngineTick, Ends
  <2> QED
    BY <1>17, <1>3, <2>1 DEF EngineCancelled, EngineTick, LastWord, continueVars, pumpVars
<1>18. CASE Tick
  BY <1>18, <1>3 DEF Tick, LastWord, continueVars, pumpVars
<1>19. CASE CollectLine
  <2>1. cpc = "writing" /\ cpc' = "reading" /\ cline # DoneLine /\ reason' = "none"
    BY <1>19, <1>3, OtherLine DEF CollectLine, LineTaken, Control
  <2> QED
    BY <1>19, <1>3, <2>1, OtherLine DEF CollectLine, LineTaken, LastWord, pumpVars
<1>20. CASE CollectEof
  <2>1. cerr /\ cpc = "closed"
    BY <1>20, <1>3 DEF CollectEof
  <2> QED
    BY <1>20, <1>3, <2>1 DEF CollectEof, LastWord, continueVars, pumpVars
<1>21. CASE CloseBody \/ HandlerReturns \/ Disconnect \/ UNCHANGED vars
  <2>1. UNCHANGED <<continueVars, pumpVars, engineVars>>
    BY <1>21 DEF CloseBody, HandlerReturns, Disconnect, vars
  <2> QED
    BY <1>3, <2>1 DEF LastWord, continueVars, pumpVars, engineVars
<1> QED
  BY <1>5, <1>6, <1>7, <1>8, <1>9, <1>10, <1>11, <1>12, <1>14, <1>15, <1>16, <1>17, <1>18, <1>19, <1>20,
     <1>21, Steps

-----------------------------------------------------------------------------
(***************************************************************************)
(* The texts, and the lines under way.                                     *)
(***************************************************************************)

\* At the start nothing is under way.
LEMMA FlowInit == Init => Texts /\ Flow
<1> SUFFICES ASSUME Init PROVE Texts /\ Flow
  OBVIOUS
<1>1. answer = <<>> /\ text = <<>> /\ buffer = <<>> /\ pline = Other /\ cline = Other
      /\ Len(answer) = 0 /\ Len(text) = 0 /\ Len(buffer) = 0
  BY DEF Init
<1>2. Run(0, 0) = <<>>
  BY TextSeq, EmptySeq
<1>3. Texts
  BY <1>1, <1>2 DEF Texts, Init
<1>4. Flow
  <2> DEFINE h == [j \in 0..0 |-> 0]
  <2>1. h \in [0..Len(buffer) -> 0..Len(answer)] /\ h[0] = 0 /\ 0 \in 0..Len(answer)
    BY <1>1
  <2> HIDE DEF h
  <2>2. Carries(Other, 0, 0)
    BY OtherLine, CarriesNothing
  <2>3. Marks(h, 0)
    BY <1>1, <2>1, <2>2, OtherLine DEF Marks
  <2> QED
    BY <2>1, <2>3 DEF Flow
<1> QED
  BY <1>3, <1>4

\* A consumer that takes the lines after a step took them before.
LEMMA FollowingBack ==
  ASSUME TypeOK, Texts, Control, [Next]_vars, Following'
  PROVE  Following
<1>1. ASSUME NEW line, NEW n, Reads(line, n) PROVE Following
  BY <1>1 DEF Reads, Forward, Following, Running, engineVars, handlerVars, TypeOK
<1>2. CASE CollectLine
  BY <1>2, OtherLine DEF CollectLine, LineTaken, Following, Running, upstreamVars, handlerVars
<1>3. CASE Disconnect
  BY <1>3 DEF Disconnect, Following, Running, upstreamVars, engineVars
<1>4. CASE EngineStop
  BY <1>4 DEF EngineStop, Following, TakeLine
<1>5. CASE EngineEof \/ EngineCancelled \/ EngineTick
  BY <1>5 DEF EngineEof, EngineCancelled, EngineTick, Ends, Selecting, Following, Running, upstreamVars, handlerVars
<1>6. CASE CollectEof \/ CloseBody \/ HandlerReturns
  BY <1>6 DEF CollectEof, CloseBody, HandlerReturns, Following, Running, engineVars, upstreamVars, handlerVars, Control
<1>7. ASSUME UNCHANGED <<garbled, mode, reason, stopped, ctxDone>> PROVE Following
  BY <1>7 DEF Following, Running
<1> QED
  BY <1>1, <1>2, <1>3, <1>4, <1>5, <1>6, <1>7, Steps DEF ReadDone, ReadEnd, OpenRound, UpstreamFails,
     CallCancelled, WriteFails, ClosePipe, PumpScan, PumpSend, PumpAbandons, PumpEof, PumpEnds,
     EngineText, TakeLine, Tick, vars, upstreamVars, engineVars, handlerVars

\* The mark at the text that was delivered, and what the next line does with it.
LEMMA FirstMark ==
  ASSUME TypeOK, Texts, Following,
         NEW h \in [0..Len(buffer) -> 0..Len(answer)], NEW p \in 0..Len(answer), Marks(h, p)
  PROVE  /\ Len(buffer) \in Nat /\ Len(answer) \in Nat
         /\ h[0] = Len(text) /\ text = Run(0, h[0])
         /\ \A j \in 0..Len(buffer) : h[j] \in Nat /\ h[j] <= Len(answer)
         /\ p \in Nat /\ p <= Len(answer)
         /\ buffer # <<>> => /\ 1 \in 1..Len(buffer) /\ Head(buffer) = buffer[1]
                             /\ Carries(Head(buffer), h[0], h[1])
                             /\ h[1] \in Nat /\ h[1] <= Len(answer)
<1>1. Len(buffer) \in Nat /\ Len(answer) \in Nat /\ (buffer # <<>> => Len(buffer) >= 1)
  BY EmptySeq DEF TypeOK
<1>2. \A j \in 0..Len(buffer) : h[j] \in Nat /\ h[j] <= Len(answer)
  BY <1>1
<1>3. h[0] = Len(text) /\ text = Run(0, h[0])
  BY DEF Marks, Texts, Following
<1>4. buffer # <<>> => 1 \in 1..Len(buffer) /\ Head(buffer) = buffer[1]
  BY <1>1
<1>5. buffer # <<>> => Carries(Head(buffer), h[0], h[1])
  <2>1. 1 - 1 = 0
    OBVIOUS
  <2> QED
    BY <1>4, <2>1 DEF Marks
<1> QED
  BY <1>1, <1>2, <1>3, <1>4, <1>5

\* All lines were taken: the text is the answer.
LEMMA AllTaken ==
  ASSUME TypeOK, Texts, Flow, Following, buffer = <<>>, pline = Other
  PROVE  /\ Carries(cline, Len(text), Len(answer))
         /\ cline.text = <<>> => text = answer
<1>1. PICK h \in [0..Len(buffer) -> 0..Len(answer)], p \in 0..Len(answer) : Marks(h, p)
  BY DEF Flow
<1>2. Len(buffer) = 0
  OBVIOUS
<1>3. h[0] = Len(text) /\ text = Run(0, h[0]) /\ h[0] \in Nat /\ p \in Nat /\ Len(answer) \in Nat
  BY <1>1, <1>2, FirstMark
<1>4. p = h[0]
  BY <1>1, <1>2, <1>3, OtherLine, CarriesNothing DEF Marks
<1>5. Carries(cline, Len(text), Len(answer))
  BY <1>1, <1>3, <1>4 DEF Marks
<1>6. cline.text = <<>> => Len(answer) = Len(text)
  BY <1>3, <1>5, CarriesNothing
<1> QED
  BY <1>3, <1>5, <1>6 DEF Texts

\* The text delivered is a run from the start, and the whole answer when it ends clean.
LEMMA TextsNext ==
  ASSUME TypeOK, Texts, Control, Observed, LastWord, Flow, [Next]_vars
  PROVE  Texts'
<1> DEFINE Told == stopped = "done" \/ (reason = "upstream_completed" /\ ~scanErr /\ stopped = "no")
<1>1. Told => Over
  BY DEF LastWord
<1>2. Len(answer) \in Nat /\ Len(text) \in Nat
  BY DEF TypeOK
<1>3. mode = "stream" \/ mode = "collect"
  BY ChatStreamAssumption DEF TypeOK
<1>4. ASSUME garbled, UNCHANGED <<answer, garbled>> PROVE Texts'
  BY <1>4 DEF Texts
<1>5. ASSUME UNCHANGED <<answer, garbled, text>>, Told' => Told \/ text = answer PROVE Texts'
  BY <1>5 DEF Texts
<1>6. ASSUME UNCHANGED <<answer, garbled>>, text' = answer PROVE Texts'
  BY <1>2, <1>6 DEF Texts
<1>7. ASSUME NEW line \in Line, NEW n \in Len(answer)..MaxAnswer, Reads(line, n) PROVE Texts'
  <2>1. n \in Nat /\ Len(answer) <= n /\ answer' = Run(0, n) /\ Len(answer') = n
    BY <1>7, <1>2, TextSeq DEF Reads
  <2>2. UNCHANGED <<text, stopped, reason, scanErr>> /\ (~garbled' => ~garbled)
    BY <1>7 DEF Reads, Forward, engineVars, TypeOK
  <2>3. Told => answer' = answer
    BY <1>1, OverStays
  <2> QED
    BY <1>2, <2>1, <2>2, <2>3 DEF Texts
<1>8. CASE EngineText
  <2>1. /\ Selecting /\ buffer # <<>> /\ Head(buffer).stop = "no"
        /\ text' = text \o TrimContinuationOverlap(text, Head(buffer).text)
        /\ UNCHANGED <<answer, garbled, reason, stopped, scanErr>>
    BY <1>8 DEF EngineText, TakeLine, upstreamVars
  <2>2. CASE garbled
    <3>1. UNCHANGED <<answer, garbled>>
      BY <2>1
    <3> QED
      BY <1>4, <2>2, <3>1
  <2> SUFFICES ASSUME ~garbled PROVE Texts'
    BY <2>2
  <2>3. Following /\ ~Told
    BY <2>1 DEF Selecting, Following, Control, Running
  <2>4. PICK h \in [0..Len(buffer) -> 0..Len(answer)], p \in 0..Len(answer) : Marks(h, p)
    BY <2>3 DEF Flow
  <2>5. /\ text = Run(0, h[0]) /\ h[0] \in Nat /\ h[1] \in Nat /\ h[1] <= Len(answer)
        /\ Carries(Head(buffer), h[0], h[1])
    BY <2>1, <2>3, <2>4, FirstMark
  <2>6. text' = Run(0, h[1])
    BY <2>1, <2>5, Trimmed, Zenon
  <2>7. Len(text') = h[1]
    BY <2>5, <2>6, TextSeq
  <2> QED
    BY <2>1, <2>3, <2>5, <2>6, <2>7 DEF Texts
<1>9. CASE EngineStop
  <2>1. /\ Selecting /\ buffer # <<>> /\ Head(buffer).stop # "no" /\ stopped' = Head(buffer).stop
        /\ UNCHANGED <<answer, garbled, text>>
    BY <1>9 DEF EngineStop, TakeLine, upstreamVars
  <2>2. CASE garbled
    BY <1>4, <2>1, <2>2
  <2>3. CASE stopped' # "done"
    BY <1>5, <2>1, <2>3
  <2> SUFFICES ASSUME ~garbled, stopped' = "done" PROVE Texts'
    BY <2>2, <2>3
  <2>4. Following
    BY <2>1 DEF Selecting, Following, Control
  <2>5. PICK h \in [0..Len(buffer) -> 0..Len(answer)], p \in 0..Len(answer) : Marks(h, p)
    BY <2>4 DEF Flow
  <2>6. /\ h[0] = Len(text) /\ h[0] \in Nat /\ h[1] \in Nat
        /\ Head(buffer) = buffer[1] /\ 1 \in 1..Len(buffer)
        /\ Carries(Head(buffer), h[0], h[1])
    BY <2>1, <2>4, <2>5, FirstMark
  <2>7. h[1] = h[0]
    <3>1. Head(buffer).text = <<>>
      BY <2>1, <2>6 DEF Carries
    <3> QED
      BY <2>6, <3>1, CarriesNothing
  <2>8. h[1] = Len(answer)
    BY <2>1, <2>5, <2>6 DEF Marks
  <2>9. text = answer
    BY <2>6, <2>7, <2>8 DEF Texts
  <2> QED
    BY <1>5, <2>1, <2>9
<1>10. CASE EngineEof
  <2>1. /\ Selecting /\ buffer = <<>> /\ ppc = "ended"
        /\ UNCHANGED <<answer, garbled, text, stopped, scanErr>>
    BY <1>10 DEF EngineEof, upstreamVars
  <2> SUFFICES ASSUME ~garbled, ~scanErr PROVE Texts'
    <3>1. CASE garbled
      BY <1>4, <2>1, <3>1
    <3>2. CASE scanErr
      BY <1>5, <2>1, <3>2
    <3> QED
      BY <3>1, <3>2
  <2>2. Following /\ pline = Other /\ cline = Other
    BY <2>1 DEF Selecting, Following, Control
  <2>3. text = answer
    BY <2>1, <2>2, AllTaken, OtherLine
  <2> QED
    BY <1>5, <2>1, <2>3
<1>11. CASE EngineCancelled \/ EngineTick
  <2>1. /\ UNCHANGED <<answer, garbled, text, stopped, scanErr>>
        /\ reason' # "upstream_completed" \/ reason' = reason
    BY <1>11 DEF EngineCancelled, EngineTick, Ends, upstreamVars
  <2> QED
    BY <1>5, <2>1
<1>12. CASE CollectLine
  <2>1. /\ mode = "collect" /\ Running
        /\ text' = IF stopped = "no" /\ cline.stop = "no"
                   THEN text \o TrimContinuationOverlap(text, cline.text)
                   ELSE text
        /\ stopped' = IF stopped = "no" THEN cline.stop ELSE stopped
        /\ reason' = IF cline = DoneLine THEN "upstream_completed" ELSE "none"
        /\ UNCHANGED <<answer, garbled, scanErr>>
    BY <1>12 DEF CollectLine, upstreamVars
  <2>2. CASE garbled
    <3>1. UNCHANGED <<answer, garbled>>
      BY <2>1
    <3> QED
      BY <1>4, <2>2, <3>1
  <2> SUFFICES ASSUME ~garbled PROVE Texts'
    BY <2>2
  <2>3. CASE stopped # "no"
    BY <1>5, <2>1, <2>3
  <2>4. CASE stopped = "no"
    <3>1. Following /\ buffer = <<>> /\ pline = Other
      BY <2>1, <2>4 DEF Following, Control
    <3>2. /\ Carries(cline, Len(text), Len(answer))
          /\ cline.text = <<>> => text = answer
      BY <3>1, AllTaken
    <3>3. CASE cline.stop # "no"
      BY <1>5, <2>1, <3>2, <3>3 DEF Carries
    <3>4. CASE cline.stop = "no"
      <4>1. text' = text \o TrimContinuationOverlap(text, cline.text) /\ text = Run(0, Len(text))
            /\ answer = Run(0, Len(answer))
        BY <2>1, <2>4, <3>4 DEF Texts
      <4>2. text' = answer
        BY <1>2, <3>2, <4>1, Trimmed, Zenon
      <4>3. UNCHANGED <<answer, garbled>>
        BY <2>1
      <4> QED
        BY <1>6, <4>2, <4>3
    <3> QED
      BY <3>3, <3>4
  <2> QED
    BY <2>3, <2>4
<1>13. CASE CollectEof
  <2>1. /\ mode = "collect" /\ Running /\ cpc = "closed"
        /\ UNCHANGED <<answer, garbled, text, stopped>>
    BY <1>13 DEF CollectEof, upstreamVars, engineVars
  <2>2. CASE garbled
    <3>1. UNCHANGED <<answer, garbled>>
      BY <2>1
    <3> QED
      BY <1>4, <2>2, <3>1
  <2> SUFFICES ASSUME ~garbled PROVE Texts'
    BY <2>2
  <2>3. CASE stopped # "no"
    BY <1>5, <2>1, <2>3
  <2>4. CASE stopped = "no"
    <3>1. Following /\ buffer = <<>> /\ pline = Other /\ cline = Other
      BY <2>1, <2>4 DEF Following, Control
    <3>2. text = answer
      BY <3>1, AllTaken, OtherLine
    <3> QED
      BY <1>5, <2>1, <3>2
  <2> QED
    BY <2>3, <2>4
<1>14. CASE PumpAbandons \/ PumpEof
  <2>1. /\ UNCHANGED <<answer, garbled, text, stopped, reason>>
        /\ ppc # "ended" /\ mode # "collect"
    BY <1>14 DEF PumpAbandons, PumpEof, PumpEnds, upstreamVars, Control
  <2>2. reason # "upstream_completed"
    BY <1>3, <2>1 DEF Control
  <2> QED
    BY <1>5, <2>1, <2>2
<1>15. ASSUME UNCHANGED <<answer, garbled, text, stopped, reason, scanErr>> PROVE Texts'
  BY <1>5, <1>15
<1> HIDE DEF Told
<1> QED
  BY <1>7, <1>8, <1>9, <1>10, <1>11, <1>12, <1>13, <1>14, <1>15, Steps DEF ReadDone, ReadEnd, OpenRound,
     UpstreamFails, CallCancelled, WriteFails, ClosePipe, PumpScan, PumpSend, Tick, CloseBody,
     HandlerReturns, Disconnect, vars, upstreamVars, engineVars

\* Every step moves the marks along with the lines.
LEMMA FlowNext ==
  ASSUME TypeOK, Texts, Control, Observed, LastWord, Flow, [Next]_vars
  PROVE  Flow'
<1> SUFFICES ASSUME Following'
             PROVE  \E h \in [0..Len(buffer') -> 0..Len(answer')], p \in 0..Len(answer') : Marks(h, p)'
  BY DEF Flow
<1>1. Following
  BY FollowingBack
<1>2. PICK h \in [0..Len(buffer) -> 0..Len(answer)], p \in 0..Len(answer) : Marks(h, p)
  BY <1>1 DEF Flow
<1>3. /\ Len(buffer) \in Nat /\ Len(answer) \in Nat
      /\ h[0] = Len(text) /\ text = Run(0, h[0])
      /\ \A j \in 0..Len(buffer) : h[j] \in Nat /\ h[j] <= Len(answer)
      /\ p \in Nat /\ p <= Len(answer)
      /\ buffer # <<>> => /\ 1 \in 1..Len(buffer) /\ Head(buffer) = buffer[1]
                          /\ Carries(Head(buffer), h[0], h[1])
                          /\ h[1] \in Nat /\ h[1] <= Len(answer)
  BY <1>1, <1>2, FirstMark
<1>4. /\ \A j \in 1..Len(buffer) : /\ Carries(buffer[j], h[j - 1], h[j])
                                   /\ buffer[j].stop = "done" => h[j] = Len(answer)
      /\ Carries(pline, h[Len(buffer)], p)
      /\ pline.stop = "done" => p = Len(answer)
      /\ Carries(cline, p, Len(answer))
  BY <1>2 DEF Marks
<1>5. ASSUME NEW m \in Nat PROVE Carries(Other, m, m)
  BY OtherLine, CarriesNothing
<1>6. ASSUME NEW m \in Nat, NEW n \in Nat, Carries(Other, m, n) PROVE n = m
  BY <1>6, OtherLine, CarriesNothing
<1>7. ASSUME NEW line \in Line, NEW n \in Len(answer)..MaxAnswer, Reads(line, n)
      PROVE  \E g \in [0..Len(buffer') -> 0..Len(answer')], q \in 0..Len(answer') : Marks(g, q)'
  <2>1. /\ n \in Nat /\ Len(answer) <= n /\ Len(answer') = n /\ ~garbled'
        /\ cpc = "reading" /\ cline' = line
        /\ UNCHANGED <<text, buffer, pline>>
    BY <1>7, <1>3, TextSeq DEF Reads, Reading, Forward, Following, pumpVars, engineVars
  <2>2. p = Len(answer)
    BY <1>4, <1>3, <1>6, <2>1 DEF Control
  <2>3. Carries(cline', p, Len(answer'))
    BY <1>7, <2>1, <2>2 DEF Reads
  <2>4. h \in [0..Len(buffer') -> 0..Len(answer')] /\ p \in 0..Len(answer')
    BY <1>3, <1>2, <2>1
  <2>5. Over => Len(answer') = Len(answer)
    BY OverStays
  <2>6. /\ \A j \in 1..Len(buffer) : buffer[j].stop = "done" => h[j] = Len(answer')
        /\ pline.stop = "done" => p = Len(answer')
    BY <1>4, <2>5 DEF LastWord
  <2>7. Marks(h, p)'
    BY <1>4, <1>3, <2>1, <2>3, <2>6 DEF Marks
  <2> QED
    BY <2>4, <2>7
<1>8. CASE PumpScan
  <2>1. /\ ppc = "scanning" /\ pline' = cline /\ cline' = Other
        /\ UNCHANGED <<answer, text, buffer>>
    BY <1>8 DEF PumpScan, LineTaken, upstreamVars, engineVars
  <2>2. p = h[Len(buffer)]
    BY <1>4, <1>3, <1>6, <2>1 DEF Control
  <2>3. /\ Carries(pline', h[Len(buffer)], Len(answer)) /\ Carries(cline', Len(answer), Len(answer))
    BY <1>5, <1>4, <1>3, <2>1, <2>2
  <2>4. Marks(h, Len(answer))'
    BY <1>4, <1>3, <2>1, <2>3 DEF Marks
  <2>5. Len(answer) \in 0..Len(answer') /\ h \in [0..Len(buffer') -> 0..Len(answer')]
    BY <1>3, <1>2, <2>1
  <2> QED
    BY <2>4, <2>5
<1>9. CASE PumpSend
  <2>1. PICK L \in Nat : L = Len(buffer)
    BY <1>3
  <2>2. /\ buffer' = Append(buffer, pline) /\ pline' = Other
        /\ UNCHANGED <<answer, text, cline>>
    BY <1>9 DEF PumpSend, upstreamVars, continueVars, engineVars
  <2>3. /\ Len(buffer') = L + 1 /\ buffer'[L + 1] = pline
        /\ \A j \in 1..L : buffer'[j] = buffer[j]
    BY <2>1, <2>2, AppendProperties DEF TypeOK
  <2>4. PICK g \in [0..(L + 1) -> 0..Len(answer)] : g[L + 1] = p /\ \A j \in 0..L : g[j] = h[j]
    <3> DEFINE f == [j \in 0..(L + 1) |-> IF j <= L THEN h[j] ELSE p]
    <3>1. f \in [0..(L + 1) -> 0..Len(answer)]
      BY <1>3, <1>2, <2>1
    <3>2. f[L + 1] = p /\ \A j \in 0..L : f[j] = h[j]
      BY <2>1
    <3> HIDE DEF f
    <3> QED
      BY <3>1, <3>2
  <2>5. g[L + 1] = p /\ \A j \in 0..L : g[j] = h[j]
    BY <2>4
  <2>6. ASSUME NEW j \in 1..(L + 1)
        PROVE  /\ Carries(buffer'[j], g[j - 1], g[j])
               /\ buffer'[j].stop = "done" => g[j] = Len(answer)
    <3>1. CASE j \in 1..L
      <4>1. g[j] = h[j] /\ g[j - 1] = h[j - 1]
        BY <1>3, <2>1, <2>5, <3>1
      <4> QED
        BY <1>4, <2>1, <2>3, <3>1, <4>1
    <3>2. CASE j = L + 1
      <4>1. g[j] = p /\ g[j - 1] = h[L]
        BY <1>3, <2>1, <2>5, <3>2
      <4> QED
        BY <1>4, <2>1, <2>3, <3>2, <4>1
    <3> QED
      BY <1>3, <3>1, <3>2
  <2>7. g[0] = Len(text)
    BY <1>3, <2>1, <2>5
  <2>8. Carries(pline', g[L + 1], p)
    BY <1>5, <1>3, <2>2, <2>5
  <2>9. Marks(g, p)'
    BY <1>4, <2>2, <2>3, <2>6, <2>7, <2>8, OtherLine DEF Marks
  <2>10. g \in [0..Len(buffer') -> 0..Len(answer')] /\ p \in 0..Len(answer')
    BY <1>2, <2>2, <2>3, <2>4
  <2> QED
    BY <2>9, <2>10
<1>10. CASE EngineText
  <2>1. PICK L \in Nat : L = Len(buffer)
    BY <1>3
  <2>2. /\ buffer # <<>> /\ buffer' = Tail(buffer)
        /\ text' = text \o TrimContinuationOverlap(text, Head(buffer).text)
        /\ UNCHANGED <<answer, pline, cline>>
    BY <1>10 DEF EngineText, TakeLine, upstreamVars, continueVars
  <2>3. Len(buffer') = L - 1 /\ \A j \in 1..(L - 1) : buffer'[j] = buffer[j + 1]
    BY <2>1, <2>2, HeadTailProperties DEF TypeOK
  <2>4. L >= 1
    BY <1>3, <2>1, <2>2
  <2>5. PICK g \in [0..(L - 1) -> 0..Len(answer)] : \A j \in 0..(L - 1) : g[j] = h[j + 1]
    <3> DEFINE f == [j \in 0..(L - 1) |-> h[j + 1]]
    <3>1. \A j \in 0..(L - 1) : j + 1 \in 0..L
      BY <2>1
    <3>2. f \in [0..(L - 1) -> 0..Len(answer)]
      BY <1>2, <2>1, <3>1
    <3>3. \A j \in 0..(L - 1) : f[j] = h[j + 1]
      OBVIOUS
    <3> HIDE DEF f
    <3> QED
      BY <3>2, <3>3
  <2>6. \A j \in 0..(L - 1) : g[j] = h[j + 1]
    BY <2>5
  <2>7. text' = Run(0, h[1])
    <3>1. h[0] \in Nat
      BY <1>3
    <3> QED
      BY <1>3, <2>2, <3>1, Trimmed, Zenon
  <2>8. g[0] = Len(text')
    <3>1. Len(Run(0, h[1])) = h[1]
      BY <1>3, <2>2, TextSeq
    <3>2. g[0] = h[1]
      BY <1>3, <2>1, <2>4, <2>6
    <3> QED
      BY <2>7, <3>1, <3>2
  <2>9. ASSUME NEW j \in 1..(L - 1)
        PROVE  /\ Carries(buffer'[j], g[j - 1], g[j])
               /\ buffer'[j].stop = "done" => g[j] = Len(answer)
    <3>1. /\ g[j] = h[j + 1] /\ g[j - 1] = h[j] /\ j + 1 \in 1..L /\ (j + 1) - 1 = j
          /\ buffer'[j] = buffer[j + 1]
      BY <1>3, <2>1, <2>3, <2>6
    <3> QED
      BY <1>4, <2>1, <3>1
  <2>10. g[L - 1] = h[L]
    BY <1>3, <2>1, <2>4, <2>6
  <2>11. Marks(g, p)'
    BY <1>4, <2>1, <2>2, <2>3, <2>8, <2>9, <2>10 DEF Marks
  <2>12. g \in [0..Len(buffer') -> 0..Len(answer')] /\ p \in 0..Len(answer')
    BY <1>2, <2>2, <2>3, <2>5
  <2> QED
    BY <2>11, <2>12
<1>11. CASE CollectLine
  <2>1. /\ mode = "collect" /\ cline.stop = "no"
        /\ text' = text \o TrimContinuationOverlap(text, cline.text)
        /\ cline' = Other /\ UNCHANGED <<answer, buffer, pline>>
    BY <1>11, <1>1 DEF CollectLine, LineTaken, Following, upstreamVars, pumpVars
  <2>2. buffer = <<>> /\ pline = Other /\ Len(buffer) = 0
    BY <2>1 DEF Control
  <2>3. Carries(cline, Len(text), Len(answer))
    BY <1>1, <2>2, AllTaken
  <2>4. text' = Run(0, Len(answer))
    <3>1. text = Run(0, Len(text))
      BY <1>1 DEF Following, Texts
    <3>2. Len(text) \in Nat
      BY DEF TypeOK
    <3>3. Len(answer) \in Nat
      BY DEF TypeOK
    <3> QED
      BY <2>1, <2>3, <3>1, <3>2, <3>3, Trimmed, Zenon
  <2>5. Len(text') = Len(answer)
    BY <1>3, <2>4, TextSeq
  <2>6. PICK n \in Nat : n = Len(answer)
    BY <1>3
  <2>7. PICK g \in [0..Len(buffer') -> 0..Len(answer')] : g[0] = n
    <3> DEFINE f == [j \in 0..0 |-> n]
    <3>1. f \in [0..Len(buffer') -> 0..Len(answer')] /\ f[0] = n
      BY <2>1, <2>2, <2>6
    <3> HIDE DEF f
    <3> QED
      BY <3>1
  <2>8. Carries(Other, n, n)
    BY <1>5, <1>3
  <2>9. Marks(g, n)'
    BY <2>1, <2>2, <2>5, <2>7, <2>8, <2>6, OtherLine DEF Marks
  <2>10. n \in 0..Len(answer')
    BY <2>1, <2>6
  <2> QED
    BY <2>7, <2>9, <2>10
<1>12. ASSUME UNCHANGED <<answer, text, buffer, pline, cline>>
      PROVE  \E g \in [0..Len(buffer') -> 0..Len(answer')], q \in 0..Len(answer') : Marks(g, q)'
  <2>1. Marks(h, p)'
    BY <1>2, <1>12 DEF Marks
  <2> QED
    BY <1>2, <1>12, <2>1
\* The line that ends the answer is the last one.
<1>13. CASE ReadEnd
  <2>1. /\ cline = Other /\ cline' \in {Other, DoneLine}
        /\ UNCHANGED <<answer, text, buffer, pline>>
    BY <1>13 DEF ReadEnd, Reading, Control, upstreamVars, pumpVars, engineVars
  <2>2. p = Len(answer)
    BY <1>4, <1>3, <1>6, <2>1
  <2>3. Carries(cline', p, Len(answer))
    BY <1>3, <2>1, <2>2, OtherLine, CarriesNothing
  <2>4. Marks(h, p)'
    BY <1>4, <1>3, <2>1, <2>3 DEF Marks
  <2> QED
    BY <1>2, <2>1, <2>4
<1>14. CASE UpstreamFails \/ CallCancelled \/ WriteFails
  <2>1. cline = Other
    BY <1>14, <1>1 DEF UpstreamFails, CallCancelled, WriteFails, Control, Following, Running
  <2> QED
    BY <1>12, <1>14, <2>1 DEF UpstreamFails, CallCancelled, WriteFails, ClosePipe, upstreamVars, pumpVars, engineVars
<1>15. CASE PumpAbandons \/ PumpEof
  <2>1. ~PumpAbandons
    <3>1. mode = "stream" \/ ppc # "sending"
      BY ChatStreamAssumption DEF Control, TypeOK
    <3> QED
      BY <1>1, <3>1 DEF PumpAbandons, Following
  <2>2. pline = Other
    BY <1>15, <2>1 DEF PumpEof, Control
  <2> QED
    BY <1>12, <1>15, <2>1, <2>2 DEF PumpEof, PumpEnds, upstreamVars, continueVars
<1>16. ~EngineStop /\ ~EngineEof /\ ~EngineCancelled
  <2>1. reason' = "none" /\ stopped' = "no"
    BY DEF Following, Running
  <2> QED
    BY <2>1 DEF EngineStop, EngineEof, EngineCancelled, Ends
<1>17. CASE ReadDone \/ OpenRound \/ EngineTick \/ Tick \/ CollectEof
  BY <1>12, <1>17 DEF ReadDone, OpenRound, EngineTick, Tick, CollectEof, upstreamVars, continueVars,
     pumpVars, engineVars
<1>18. CASE CloseBody \/ HandlerReturns \/ Disconnect \/ UNCHANGED vars
  BY <1>12, <1>18 DEF CloseBody, HandlerReturns, Disconnect, vars, upstreamVars, continueVars,
     pumpVars, engineVars
<1> QED
  BY <1>7, <1>8, <1>9, <1>10, <1>11, <1>13, <1>14, <1>15, <1>16, <1>17, <1>18, Steps

-----------------------------------------------------------------------------
(***************************************************************************)
(* The theorems.                                                           *)
(***************************************************************************)

\* The invariant holds in every state.
LEMMA AlwaysIInv == Spec => []IInv
<1>1. Init => IInv
  BY TypeInit, ControlInit, FlowInit DEF IInv
<1>2. IInv /\ [Next]_vars => IInv'
  BY TypeNext, ControlNext, ObservedNext, LastWordNext, TextsNext, FlowNext DEF IInv
<1> QED
  BY <1>1, <1>2, PTL DEF Spec

\* An answer that is reported as come to its end is over.
LEMMA CleanIsOver ==
  ASSUME IInv, Clean
  PROVE  /\ Over
         /\ stopped = "done" \/ (reason = "upstream_completed" /\ ~scanErr /\ stopped = "no")
  BY DEF IInv, Clean, Control, LastWord

(***************************************************************************)
(* For any number of rounds: an answer that the model left unfinished is   *)
(* not reported as come to its end while it could be continued, and is     *)
(* continued only when the round said that it is unfinished, or refused.   *)
(***************************************************************************)
THEOREM ContinuedCorrect == Spec => ContinuedWhileUnfinished
<1>1. IInv => (Clean /\ said = "unfinished" => rounds = MaxRounds \/ ~state.id)
  BY CleanIsOver DEF Over
<1>2. IInv /\ [Next]_vars => [rounds' # rounds => said \in {"unfinished", "refused"}]_vars
  <2> SUFFICES ASSUME IInv, [Next]_vars, rounds' # rounds
               PROVE  said \in {"unfinished", "refused"}
    OBVIOUS
  <2>1. TypeOK /\ Texts /\ Observed
    BY DEF IInv
  <2>2. ReadEnd
    <3>1. rounds' # rounds
      OBVIOUS
    <3> QED
      BY <2>1, <3>1, Steps DEF Reads, Forward, ReadDone, OpenRound,
         UpstreamFails, CallCancelled, WriteFails, ClosePipe, PumpScan, PumpSend, PumpAbandons,
         PumpEof, PumpEnds, EngineText, EngineStop, TakeLine, LineTaken, EngineEof,
         EngineCancelled, EngineTick, Tick, CollectLine, CollectEof, CloseBody, HandlerReturns,
         Disconnect, vars, continueVars
  <2>3. shouldContinue(state)
    BY <2>2 DEF ReadEnd
  <2> QED
    BY <2>1, <2>3 DEF Observed, TypeOK, shouldContinue, Status
<1> QED
  BY <1>1, <1>2, AlwaysIInv, PTL DEF Spec, ContinuedWhileUnfinished

\* What a step does to the text and to the consumer.
LEMMA Advances ==
  ASSUME TypeOK, TypeOK', Texts, Texts', Control, [Next]_vars
  PROVE  /\ garbled => garbled'
         /\ answer' = answer \/ (text' = text /\ reason' = reason)
         /\ Len(text) <= Len(text') /\ Len(answer) <= Len(answer')
         /\ reason' # reason => text' = text
         /\ ~Running => /\ UNCHANGED <<reason, stopped, text>>
                        /\ reason = "upstream_completed" => scanErr' = scanErr
<1>1. Len(answer) \in Nat /\ Len(text) \in Nat
  BY DEF TypeOK
<1>2. mode = "stream" \/ mode = "collect"
  BY ChatStreamAssumption DEF TypeOK
<1> DEFINE Still == UNCHANGED <<answer, garbled>>
<1>3. ASSUME Still, UNCHANGED <<text, scanErr>>, Running \/ UNCHANGED <<reason, stopped>>
      PROVE  /\ garbled => garbled'
             /\ answer' = answer \/ (text' = text /\ reason' = reason)
             /\ Len(text) <= Len(text') /\ Len(answer) <= Len(answer')
             /\ reason' # reason => text' = text
             /\ ~Running => /\ UNCHANGED <<reason, stopped, text>>
                            /\ reason = "upstream_completed" => scanErr' = scanErr
  BY <1>1, <1>3
<1>4. ASSUME NEW line \in Line, NEW n \in Len(answer)..MaxAnswer, Reads(line, n)
      PROVE  /\ garbled => garbled'
             /\ UNCHANGED <<text, reason, stopped, scanErr>>
             /\ Len(text) <= Len(text') /\ Len(answer) <= Len(answer')
  BY <1>4, <1>1, TextSeq DEF Reads, Forward, engineVars
<1>5. CASE EngineText \/ CollectLine
  <2>1. /\ Running /\ Still
        /\ \E line \in Line : text' = text \o TrimContinuationOverlap(text, line.text) \/ text' = text
    <3>1. CASE EngineText
      <4>1. Head(buffer) \in Line
        BY <3>1, HeadTailProperties DEF EngineText, TakeLine, TypeOK
      <4> QED
        BY <3>1, <4>1 DEF EngineText, TakeLine, Selecting, upstreamVars
    <3>2. CASE CollectLine
      <4>1. cline \in Line
        BY DEF TypeOK
      <4> QED
        BY <3>2, <4>1 DEF CollectLine, upstreamVars
    <3> QED
      BY <1>5, <3>1, <3>2
  <2>2. PICK line \in Line : text' = text \o TrimContinuationOverlap(text, line.text) \/ text' = text
    BY <2>1
  <2>3. Len(text) <= Len(text')
    <3>1. TrimContinuationOverlap(text, line.text) \in Seq(Piece) /\ text \in Seq(Piece)
      BY TrimType DEF TypeOK, Line
    <3> QED
      BY <1>1, <2>2, <3>1
  <2>4. reason' # reason => text' = text
    <3>1. CASE EngineText
      BY <3>1 DEF EngineText
    <3>2. CASE CollectLine
      BY <3>2 DEF CollectLine, Running, DoneLine, Other
    <3> QED
      BY <1>5, <3>1, <3>2
  <2> QED
    BY <1>1, <2>1, <2>3, <2>4
<1>6. CASE PumpAbandons \/ PumpEof
  <2>1. /\ Still /\ UNCHANGED <<text, reason, stopped>>
        /\ ppc # "ended" /\ mode # "collect"
    BY <1>6 DEF PumpAbandons, PumpEof, PumpEnds, upstreamVars, Control
  <2>2. reason # "upstream_completed"
    BY <1>2, <2>1 DEF Control
  <2> QED
    BY <1>1, <2>1, <2>2
<1>7. CASE CollectEof
  <2>1. Running /\ Still /\ UNCHANGED <<text>>
    BY <1>7 DEF CollectEof, upstreamVars
  <2> QED
    BY <1>1, <2>1
<1>8. CASE EngineStop \/ EngineEof \/ EngineCancelled \/ EngineTick \/ Tick
  <2>1. Running /\ Still /\ UNCHANGED <<text, scanErr>>
    BY <1>8 DEF EngineStop, EngineEof, EngineCancelled, EngineTick, Tick, TakeLine, Selecting,
       upstreamVars
  <2> QED
    BY <1>3, <2>1
<1>9. CASE ReadDone \/ ReadEnd \/ OpenRound \/ UpstreamFails \/ CallCancelled \/ WriteFails
             \/ PumpScan \/ PumpSend \/ CloseBody \/ HandlerReturns \/ Disconnect \/ UNCHANGED vars
  <2>1. Still /\ UNCHANGED <<text, scanErr, reason, stopped>>
    BY <1>9 DEF ReadDone, ReadEnd, OpenRound, UpstreamFails, CallCancelled, WriteFails, ClosePipe,
       PumpScan, PumpSend, CloseBody, HandlerReturns, Disconnect, vars, upstreamVars, engineVars
  <2> QED
    BY <1>3, <2>1
<1> HIDE DEF Still
<1> QED
  BY <1>4, <1>5, <1>6, <1>7, <1>8, <1>9, Steps

(***************************************************************************)
(* For any number of lines, rounds and pieces: ChatStream implements       *)
(* AnswerStream.  What the model wrote reaches the client in order and     *)
(* once, and an answer that ends whole was delivered whole.                *)
(***************************************************************************)
THEOREM DeliversCorrect == Spec => DeliversAnswer
<1> DEFINE Phase == IF garbled THEN "garbled"
                    ELSE IF Running THEN "open"
                    ELSE IF Whole THEN "complete"
                    ELSE "cut"
<1>1. Init => Answer!Init
  BY DEF Init, Answer!Init, Running
<1>2. IInv /\ IInv' /\ [Next]_vars => [Answer!Next]_(Answer!answerVars)
  <2> SUFFICES ASSUME IInv, IInv', [Next]_vars
               PROVE  Answer!Next \/ UNCHANGED <<answer, text, Phase>>
    BY DEF Answer!answerVars
  <2>1. TypeOK /\ Texts /\ Control /\ Observed
    BY DEF IInv
  <2>2. TypeOK' /\ Texts' /\ Control'
    BY DEF IInv
  <2>3. garbled \in BOOLEAN /\ garbled' \in BOOLEAN
    BY <2>1, <2>2 DEF TypeOK
  <2>4. /\ garbled => garbled'
        /\ answer' = answer \/ (text' = text /\ reason' = reason)
        /\ Len(text) <= Len(text') /\ Len(answer) <= Len(answer')
        /\ reason' # reason => text' = text
        /\ ~Running => /\ UNCHANGED <<reason, stopped, text>>
                       /\ reason = "upstream_completed" => scanErr' = scanErr
    BY <2>1, <2>2, Advances
  <2>5. ~garbled' => IsPrefix(text, text') /\ IsPrefix(text', answer') /\ IsPrefix(answer, answer')
    <3> SUFFICES ASSUME ~garbled'
                 PROVE  IsPrefix(text, text') /\ IsPrefix(text', answer') /\ IsPrefix(answer, answer')
      OBVIOUS
    <3>1. /\ text = Run(0, Len(text)) /\ text' = Run(0, Len(text'))
          /\ answer = Run(0, Len(answer)) /\ answer' = Run(0, Len(answer'))
          /\ Len(text') <= Len(answer')
      BY <2>4, <2>1, <2>2 DEF Texts
    <3>2. /\ Len(text) \in Nat /\ Len(text') \in Nat
          /\ Len(answer) \in Nat /\ Len(answer') \in Nat
      BY <2>1, <2>2 DEF TypeOK
    <3> HIDE DEF Run
    <3> QED
      BY <2>4, <3>1, <3>2, RunPrefix
  <2>6. ~garbled' => /\ Answer!IsPrefix(text, text') /\ Answer!IsPrefix(text', answer')
                     /\ Answer!IsPrefix(answer, answer')
    BY <2>5 DEF IsPrefix, Answer!IsPrefix
  <2>7. Clean => said' = said /\ answer' = answer /\ garbled' = garbled
    BY <2>1, CleanIsOver, OverStays
  <2>8. ~Running => Whole' = Whole
    <3> SUFFICES ASSUME ~Running PROVE Whole' = Whole
      OBVIOUS
    <3>1. Clean' = Clean
      BY <2>4 DEF Clean
    <3> QED
      BY <2>7, <3>1 DEF Whole
  <2>9. CASE garbled'
    <3>1. Phase' = "garbled" /\ Phase # "complete"
      BY <2>9, <2>7 DEF Whole
    <3> QED
      BY <3>1 DEF Answer!Next, Answer!Garble
  <2>10. CASE ~garbled' /\ ~Running
    <3>1. ~garbled /\ Running' = Running /\ text' = text /\ Whole' = Whole
      BY <2>10, <2>4, <2>8 DEF Running
    <3>2. Phase' = Phase /\ Phase = IF Whole THEN "complete" ELSE "cut"
      BY <2>10, <3>1
    <3>3. CASE Whole
      BY <2>7, <3>1, <3>2, <3>3 DEF Whole
    <3>4. CASE ~Whole
      BY <2>10, <2>6, <3>1, <3>2, <3>4 DEF Answer!Next, Answer!Produce
    <3> QED
      BY <3>3, <3>4
  <2>11. CASE ~garbled' /\ Running /\ Running'
    <3>1. Phase = "open" /\ Phase' = "open"
      BY <2>11, <2>4
    <3>2. CASE answer' = answer
      BY <2>11, <2>6, <3>1, <3>2 DEF Answer!Next, Answer!Deliver
    <3>3. CASE text' = text
      BY <2>11, <2>6, <3>1, <3>3 DEF Answer!Next, Answer!Produce
    <3> QED
      BY <2>4, <3>2, <3>3
  <2>12. CASE ~garbled' /\ Running /\ ~Running'
    <3>1. Phase = "open" /\ text' = text /\ answer' = answer
      BY <2>12, <2>4 DEF Running
    <3>2. CASE Whole'
      <4>1. (stopped = "done" \/ (reason = "upstream_completed" /\ ~scanErr /\ stopped = "no"))'
        BY <2>2, <3>2 DEF Whole, Clean, Control
      <4>2. text' = answer'
        BY <2>12, <2>2, <4>1 DEF Texts
      <4>3. Phase' = "complete"
        BY <2>12, <3>2
      <4> QED
        BY <3>1, <4>2, <4>3 DEF Answer!Next, Answer!Complete
    <3>3. CASE ~Whole'
      <4>1. Phase' = "cut"
        BY <2>12, <3>3
      <4> QED
        BY <3>1, <4>1 DEF Answer!Next, Answer!Cut
    <3> QED
      BY <3>2, <3>3
  <2> QED
    BY <2>9, <2>10, <2>11, <2>12
<1> QED
  BY <1>1, <1>2, AlwaysIInv, PTL DEF Spec, DeliversAnswer, Answer!Spec
=============================================================================
