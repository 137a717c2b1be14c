---------------------------- MODULE ChatRequest ----------------------------
(***************************************************************************)
(* A chat completion with a managed account, from Determine to the         *)
(* deferred Release: the client calls CreateSession, GetPow and            *)
(* CallCompletion with their attempts, token refreshes and changes of      *)
(* account (internal/deepseek/client), and what                            *)
(* handleNonStreamWithRetry and handleStreamWithRetry do with an empty     *)
(* answer (internal/httpapi/openai/chat).  The upstream service, its       *)
(* answers and its failures are nondeterministic.  A chat session is named *)
(* by the account whose token created it.                                  *)
(***************************************************************************)
EXTENDS RequestAuth

CONSTANTS
  MaxAttempts, \* the maxAttempts of every call (3 in the code)
  MaxRetries,  \* EmptyOutputRetryMaxAttempts (1 in the code)
  Streaming,   \* requests with stream = true
  Silent       \* accounts that may answer with nothing

ASSUME ChatRequestAssumption ==
  /\ MaxAttempts \in Nat \ {0}
  /\ MaxRetries \in Nat \ {0}
  /\ Streaming \subseteq Requests
  /\ Silent \subseteq Ids

VARIABLES
  chat \* the handler's and the client call's local variables

vars == <<poolVars, authVars, chat>>

ChatStage == {"call", "failed", "answer"}

\* phase is why the handler makes the calls: the first completion, the synthetic
\* retry after an empty answer, or the restart with another account.
\* session is the one in the payload; stale says that the response about to be
\* read was read before.
Chat == [op: {"createSession", "getPow", "callCompletion", "none"},
         phase: {"first", "retry", "restart"},
         attempts: Nat, refreshed: BOOLEAN, retries: Nat,
         session: Ids \union {NoAccount}, stale: BOOLEAN]

NoChat == [op |-> "none", phase |-> "first", attempts |-> 0, refreshed |-> FALSE,
           retries |-> 0, session |-> NoAccount, stale |-> FALSE]

TypeOK ==
  /\ AuthTypeOK
  /\ pc \in [Requests -> ResolverStage \union ChatStage]
  /\ chat \in [Requests -> Chat]

Init ==
  /\ AuthInit
  /\ chat = [r \in Requests |-> NoChat]

-----------------------------------------------------------------------------
(***************************************************************************)
(* The loop that CreateSession and GetPow share; CallCompletion has the    *)
(* attempts only.                                                          *)
(***************************************************************************)

Calling(r, op) ==
  [chat[r] EXCEPT !.op = op, !.attempts = 0, !.refreshed = FALSE]

StartCall(r, c) ==
  /\ chat' = [chat EXCEPT ![r] = c]
  /\ Goto(r, "call")

\* The call returns an error.  A retry goes on with the PoW it has; a restart
\* that failed is for RestartFailed; otherwise the request ends.
CallFails(r, c) ==
  IF c.phase = "retry" /\ c.op = "getPow"
  THEN StartCall(r, [c EXCEPT !.op = "callCompletion", !.attempts = 0, !.refreshed = FALSE])
  ELSE /\ Goto(r, IF c.phase = "restart" THEN "failed" ELSE "release")
       /\ UNCHANGED chat

\* attempts++, and the head of the loop.
NextAttempt(r, c) ==
  IF c.attempts + 1 < MaxAttempts
  THEN StartCall(r, [c EXCEPT !.attempts = @ + 1])
  ELSE CallFails(r, c)

SessionCreated(r) ==
  /\ At(r, "call")
  /\ chat[r].op = "createSession"
  /\ StartCall(r, [Calling(r, "getPow") EXCEPT !.session = auth[r].token])
  /\ UNCHANGED <<poolVars, authVarsButPc>>

PowComputed(r) ==
  /\ At(r, "call")
  /\ chat[r].op = "getPow"
  /\ StartCall(r, Calling(r, "callCompletion"))
  /\ UNCHANGED <<poolVars, authVarsButPc>>

\* The stream handler restarts into a variable that its outer loop overwrites
\* with the first response, which it has read and closed.
CompletionStarts(r) ==
  /\ At(r, "call")
  /\ chat[r].op = "callCompletion"
  /\ chat' = [chat EXCEPT ![r].op = "none",
       ![r].retries = IF chat[r].phase = "restart" THEN 0 ELSE @,
       ![r].stale = r \in Streaming /\ chat[r].phase = "restart"]
  /\ Goto(r, "answer")
  /\ UNCHANGED <<poolVars, authVarsButPc>>

\* No response, a puzzle that cannot be solved, or for a completion any status
\* but 200.
CallErrs(r) ==
  /\ At(r, "call")
  /\ NextAttempt(r, chat[r])
  /\ UNCHANGED <<poolVars, authVarsButPc>>

\* The solution does not make a header: GetPow returns at once.
PowUnusable(r) ==
  /\ At(r, "call")
  /\ chat[r].op = "getPow"
  /\ CallFails(r, chat[r])
  /\ UNCHANGED <<poolVars, authVarsButPc>>

\* The answer says the token is bad: refresh it, once per account.
TokenRejected(r) ==
  /\ At(r, "call")
  /\ chat[r].op \in {"createSession", "getPow"}
  /\ ~chat[r].refreshed
  /\ Goto(r, "refresh")
  /\ UNCHANGED <<poolVars, authVarsButPc, chat>>

\* Any other failure, or a refreshed token that is rejected too: change account.
AccountRejected(r) ==
  /\ At(r, "call")
  /\ chat[r].op \in {"createSession", "getPow"}
  /\ Goto(r, "switch")
  /\ UNCHANGED <<poolVars, authVarsButPc, chat>>

\* Mutant: the loop does not remember that it refreshed.
TokenRefreshed_Forgets(r) ==
  /\ At(r, "refreshed")
  /\ Goto(r, "call")
  /\ UNCHANGED <<poolVars, authVarsButPc, chat>>

TokenRefreshed(r) ==
  /\ At(r, "refreshed")
  /\ chat' = [chat EXCEPT ![r].refreshed = TRUE]
  /\ Goto(r, "call")
  /\ UNCHANGED <<poolVars, authVarsButPc>>

RefreshFailed(r) ==
  /\ At(r, "unrefreshed")
  /\ Goto(r, "switch")
  /\ UNCHANGED <<poolVars, authVarsButPc, chat>>

CallSwitched(r) ==
  /\ At(r, "switched")
  /\ chat[r].op # "none"
  /\ NextAttempt(r, [chat[r] EXCEPT !.refreshed = FALSE])
  /\ UNCHANGED <<poolVars, authVarsButPc>>

\* Mutant: an attempt that got no other account does not count.
CallNotSwitched_Uncounted(r) ==
  /\ At(r, "unswitched")
  /\ chat[r].op # "none"
  /\ StartCall(r, chat[r])
  /\ UNCHANGED <<poolVars, authVarsButPc>>

CallNotSwitched(r) ==
  /\ At(r, "unswitched")
  /\ chat[r].op # "none"
  /\ NextAttempt(r, chat[r])
  /\ UNCHANGED <<poolVars, authVarsButPc>>

-----------------------------------------------------------------------------
(***************************************************************************)
(* The handler.                                                            *)
(***************************************************************************)

\* The body is decoded and normalised, or refused.
Begin(r) ==
  /\ At(r, "ready")
  /\ \/ StartCall(r, Calling(r, "createSession"))
     \/ Goto(r, "release") /\ UNCHANGED chat
  /\ UNCHANGED <<poolVars, authVarsButPc>>

\* Visible text, a tool call, filtered content, or a client that went away.
Answered(r) ==
  /\ At(r, "answer")
  /\ Goto(r, "release")
  /\ UNCHANGED <<poolVars, authVarsButPc, chat>>

\* No visible text and no tool call; a response that was read before has none.
EmptyAnswer(r) == At(r, "answer") /\ (chat[r].stale \/ auth[r].token \in Silent)

\* The stream handler counts the retry that is about to start as well.
MayRetry(r) ==
  IF r \in Streaming THEN chat[r].retries + 1 < MaxRetries
                     ELSE chat[r].retries < MaxRetries

RetryEmpty(r) ==
  /\ EmptyAnswer(r)
  /\ MayRetry(r)
  /\ StartCall(r, [Calling(r, "getPow") EXCEPT !.phase = "retry", !.retries = @ + 1])
  /\ UNCHANGED <<poolVars, authVarsButPc>>

\* The account is taken for rate limited: ban it and change to another.
BanAndSwitch(r) ==
  /\ EmptyAnswer(r)
  /\ ~MayRetry(r)
  /\ banAccount(auth[r].account)
  /\ Goto(r, "switch")
  /\ UNCHANGED <<authVarsButPc, chat>>

RestartWithAccount(r) ==
  /\ At(r, "switched")
  /\ chat[r].op = "none"
  /\ StartCall(r, [Calling(r, "createSession") EXCEPT !.phase = "restart"])
  /\ UNCHANGED <<poolVars, authVarsButPc>>

\* finishChatNonStreamResult bans whatever account the request has by then.
EndEmpty(r) ==
  /\ IF r \in Streaming THEN UNCHANGED poolVars ELSE banAccount(auth[r].account)
  /\ Goto(r, "release")
  /\ UNCHANGED <<authVarsButPc>>

NoOtherAccount(r) ==
  /\ At(r, "unswitched")
  /\ chat[r].op = "none"
  /\ EndEmpty(r)
  /\ UNCHANGED chat

RestartFailed(r) ==
  /\ At(r, "failed")
  /\ EndEmpty(r)
  /\ UNCHANGED chat

\* The deferred cleanup: autoDeleteRemoteSession, which is best effort and
\* upstream only, then Release.
End(r) ==
  /\ Release(r)
  /\ chat' = [chat EXCEPT ![r] = NoChat]

ChatStep(r) ==
  \/ SessionCreated(r)
  \/ PowComputed(r)
  \/ CompletionStarts(r)
  \/ CallErrs(r)
  \/ PowUnusable(r)
  \/ TokenRejected(r)
  \/ AccountRejected(r)
  \/ TokenRefreshed(r)
  \/ RefreshFailed(r)
  \/ CallSwitched(r)
  \/ CallNotSwitched(r)
  \/ Begin(r)
  \/ Answered(r)
  \/ RetryEmpty(r)
  \/ BanAndSwitch(r)
  \/ RestartWithAccount(r)
  \/ NoOtherAccount(r)
  \/ RestartFailed(r)
  \/ End(r)

RequestStep(r) == (ResolverStep(r) /\ UNCHANGED chat) \/ ChatStep(r)

Next ==
  \/ \E r \in Requests : (Determine(r) /\ UNCHANGED chat) \/ RequestStep(r)
  \/ \E id \in Ids : BanExpires(id) /\ UNCHANGED <<authVars, chat>>

Spec == Init /\ [][Next]_vars

(***************************************************************************)
(* The upstream is assumed to answer or to end every call, so that a       *)
(* handler goes on: sessions and proofs of work time out after a minute,   *)
(* completions never do.  Bans end.                                        *)
(***************************************************************************)
Fairness ==
  /\ \A r \in Requests : WF_vars(RequestStep(r))
  /\ \A id \in Ids : WF_vars(BanExpires(id) /\ UNCHANGED <<authVars, chat>>)

FairSpec == Spec /\ Fairness

-----------------------------------------------------------------------------
(***************************************************************************)
(* Properties.                                                             *)
(***************************************************************************)

Holders(id) == {r \in Requests : holds[r] = id}

(***************************************************************************)
(* No path through logins, refreshes, changes of account and retries       *)
(* leaks a slot: the pool never counts more slots than requests have.      *)
(***************************************************************************)
NoSlotLeak ==
  /\ \A id \in Ids : inUse[id] <= Cardinality(Holders(id))
  /\ totalInUse <= Cardinality({r \in Requests : holds[r] # NoAccount})

(***************************************************************************)
(* An account that a request has left, because it failed or was taken for  *)
(* rate limited, is not given to that request again.                       *)
(***************************************************************************)
AccountsAreTriedOnce == \A r \in Requests : holds[r] \notin given[r]

(***************************************************************************)
(* Until a change of account has found none, an upstream call is made with *)
(* the token of the account whose slot the request has.                    *)
(***************************************************************************)
CallsUseHeldAccount ==
  \A r \in Requests :
    pc[r] \in {"call", "answer"} /\ r \notin stray =>
      /\ auth[r].account \in Ids
      /\ holds[r] = auth[r].account
      /\ auth[r].token = auth[r].account

(***************************************************************************)
(* Every admitted request ends: refreshes, changes of account, retries and *)
(* restarts cannot go round for ever.                                      *)
(***************************************************************************)
AdmittedRequestsEnd == \A r \in Requests : pc[r] = "ready" ~> pc[r] = "idle"

(***************************************************************************)
(* What a request that is served has still before it, the weightiest       *)
(* first: the accounts it has not had; what it may do about empty answers, *)
(* which another account renews; the calls to make; the attempts and the   *)
(* refresh that the call has left; and its way through an attempt.         *)
(***************************************************************************)
Restarting(c, stage) ==
  c.op = "none" /\ stage \in {"ensure", "login", "giveback", "switched"}

Retries(c, stage) ==
  IF Restarting(c, stage) THEN MaxRetries + 2
  ELSE IF c.phase = "restart" THEN MaxRetries + 1
  ELSE MaxRetries - c.retries

CallRank(c, stage) ==
  CASE stage = "ready"                           -> 4
    [] stage # "ready" /\ c.op = "createSession"  -> 3
    [] stage # "ready" /\ c.op = "getPow"         -> 2
    [] stage # "ready" /\ c.op = "callCompletion" -> 1
    [] OTHER                                     -> 0

StageRank(stage) ==
  CASE stage \in {"ready", "call", "answer"}                          -> 8
    [] stage \in {"refresh", "ensure"}                                -> 7
    [] stage = "login"                                                -> 6
    [] stage \in {"refreshed", "unrefreshed", "switched", "giveback"} -> 5
    [] stage = "switch"                                               -> 4
    [] stage = "reacquire"                                            -> 3
    [] stage = "unswitched"                                           -> 2
    [] stage = "failed"                                               -> 1
    [] OTHER                                                          -> 0

Untried(a) == Cardinality(Ids \ (a.tried \union {a.account}))

Ahead(r) ==
  LET c == chat[r]
  IN  <<Untried(auth[r]), Retries(c, pc[r]), CallRank(c, pc[r]), MaxAttempts - c.attempts,
        IF c.refreshed THEN 0 ELSE 1, StageRank(pc[r])>>

Less(m, n) ==
  \E i \in DOMAIN m : m[i] < n[i] /\ \A j \in 1 .. i - 1 : m[j] = n[j]

(***************************************************************************)
(* Nothing that a served request does brings it back to where it was:      *)
(* every attempt, refresh, change of account, retry and restart leaves     *)
(* less before it, so that there is an end to them whatever the upstream   *)
(* answers.                                                                *)
(***************************************************************************)
EveryStepCounts ==
  [][\A r \in Requests :
       /\ {pc[r], pc'[r]} \intersect {"idle", "blocked"} = {}
       /\ pc'[r] # pc[r] \/ chat'[r] # chat[r]
       => Ahead(r)' \in [1 .. 6 -> Nat] /\ Less(Ahead(r)', Ahead(r))]_vars

(***************************************************************************)
(* The limit as documented: an account never serves more requests than its *)
(* in-flight limit, a request being served while it calls upstream.        *)
(***************************************************************************)
HoldersWithinLimit ==
  \A id \in Ids : Cardinality(Holders(id)) <= maxInflightPerAccount

(***************************************************************************)
(* What the documentation says of the retry after an empty answer: it uses *)
(* the same session and the same account.                                  *)
(***************************************************************************)
RetryKeepsAccount ==
  \A r \in Requests :
    pc[r] = "call" /\ chat[r].op = "callCompletion" /\ chat[r].phase = "retry"
      => chat[r].session = auth[r].token

(***************************************************************************)
(* After a change of account the handler goes on with the response of the  *)
(* new account.                                                            *)
(***************************************************************************)
AnswersAreNew == \A r \in Requests : pc[r] = "answer" => ~chat[r].stale

=============================================================================
