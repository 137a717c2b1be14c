-------------------------- MODULE MCAnswerSurface ---------------------------
(***************************************************************************)
(* Instances of AnswerSurface for TLC.  Every answer is cut into chunks in *)
(* every way, and may end anywhere.                                        *)
(***************************************************************************)
EXTENDS AnswerSurface

Open   == <<"open1", "open2">>
Close  == <<"close1", "close2">>
Invoke == <<"invoke", "endInvoke">>
Call   == Open \o Invoke \o Close
Fence  == <<"tick", "tick", "tick">>

Tokens == {<<"word">>, <<"nl">>, <<"tick">>, Fence, Call, Open, Close, Invoke}

\* What may stand between two tokens.
Gaps == {<<>>, <<"word">>, <<"nl">>, <<"tick">>}

\* Every answer of up to two tokens; a call between any two tokens; two calls;
\* a block, fences and code spans with gaps in every place.
MCAnswers ==
  {<<>>} \union Tokens \union {a \o b : a, b \in Tokens}
  \union {a \o Call \o b : a, b \in Tokens}
  \union {Call \o a \o Call : a \in Gaps}
  \union UNION {{Fence \o a \o Call \o b \o Fence \o c,
                 Open \o a \o Invoke \o b \o Close \o c,
                 <<"tick">> \o a \o Call \o b \o <<"tick">> \o c} : a, b, c \in Gaps}

MCThoughts == {<<>>, Call}
=============================================================================
