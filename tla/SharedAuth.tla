----------------------------- MODULE SharedAuth -----------------------------
(***************************************************************************)
(* internal/auth and internal/deepseek/client when several goroutines call *)
(* with one RequestAuth, which no lock guards: the uploads of one request  *)
(* run in parallel, and the proofs of work of a stream lease run beside    *)
(* each other and beside its release.                                      *)
(*                                                                         *)
(* A thread <<r, k>> calls with the RequestAuth r.  It is one of the loops *)
(* CreateSession, GetPow or UploadFile, which runs a GetPow of its own; an *)
(* action is what a thread does up to its next access to r, the pool or    *)
(* the stored tokens.  Fields that are written one after the other are     *)
(* written in one step.  A token is named by the account it belongs to;    *)
(* one whose refresh is due counts as one that is not stored.              *)
(***************************************************************************)
EXTENDS Pool

CONSTANTS
  InitAccounts, \* the accounts configured
  Files,        \* inline files, by their cache key
  MaxPolls      \* of an uploaded file (60)

ASSUME SharedAuthAssumption ==
  /\ InitAccounts \in Seq(Ids)
  /\ MaxPolls \in Nat \ {0}
  \* a cache key is a digest
  /\ {"main", "pow"} \intersect Files = {}

VARIABLES
  stored,   \* whose token is stored with an account
  auth,     \* the RequestAuths
  run,      \* the call of each thread
  slots,    \* history: how often r took an account less how often it gave it back
  released, \* history: how often Resolver.Release was called with r
  stray,    \* history: SwitchAccount found no account, AccountID is one given back
  shaken    \* history: r was changed while another thread was changing it

sharedVarsButRun == <<stored, auth, slots, released, stray, shaken>>
sharedVars == <<stored, auth, run, slots, released, stray, shaken>>

Kinds   == {"main", "pow"} \union Files
Threads == Requests \X Kinds

Owner == Ids \union {NoAccount}

\* managed: UseConfigToken, the caller has no DeepSeek token of its own; copy: the
\* copy of the account has a token.
Auth == [managed: BOOLEAN, account: Owner, token: Owner, copy: BOOLEAN, tried: SUBSET Ids]

\* max: maxAttempts; n and again: attempts and "refreshed" of the loop, outer those
\* of an upload around its GetPow; who: the account that logs in; why: what for.
Call ==
  [at: {"off", "ask", "determine", "refresh", "login", "leave", "reacquire", "ensure",
        "giveback", "wait", "done", "failed"},
   op: {"session", "pow", "powfor", "upload", "poll"},
   max: Nat, n: Nat, again: BOOLEAN, outer: [n: Nat, again: BOOLEAN],
   who: Owner, why: {"determine", "switch", "refresh"}]

Off == [at |-> "off", op |-> "session", max |-> 0, n |-> 0, again |-> FALSE,
        outer |-> [n |-> 0, again |-> FALSE], who |-> NoAccount, why |-> "determine"]

Ended(how) == [Off EXCEPT !.at = how]

\* A call of CreateSession, GetPow or UploadFile begins.
Begin(op, max) ==
  [Off EXCEPT !.at = "ask", !.max = max, !.op = IF op = "upload" THEN "powfor" ELSE op]

SharedTypeOK ==
  /\ PoolTypeOK
  /\ stored \in [Ids -> Owner]
  /\ auth \in [Requests -> Auth]
  /\ run \in [Threads -> Call]
  /\ slots \in [Requests -> [Ids -> Nat]]
  /\ released \in [Requests -> Nat]
  /\ stray \subseteq Requests /\ shaken \subseteq Requests

SharedInit(own) ==
  /\ PoolInit(InitAccounts)
  /\ \E S \in SUBSET Range(InitAccounts) :
       stored = [id \in Ids |-> IF id \in S THEN id ELSE NoAccount]
  /\ auth = [r \in Requests |->
       [managed |-> r \notin own, account |-> NoAccount, token |-> NoAccount, copy |-> FALSE, tried |-> {}]]
  /\ run = [t \in Threads |-> Off]
  /\ slots = [r \in Requests |-> [id \in Ids |-> 0]]
  /\ released = [r \in Requests |-> 0]
  /\ stray = {} /\ shaken = {}

-----------------------------------------------------------------------------
At(t, stage) == run[t].at = stage

Goto(t, f) == run' = [run EXCEPT ![t] = f]

Others(t) == {u \in Threads \ {t} : u[1] = t[1]}

\* In the middle of a change of account or token.
Changing(t) == run[t].at \in {"login", "reacquire", "ensure", "giveback"}

\* t starts to change r.
Touch(t) ==
  shaken' = IF released[t[1]] > 0 \/ \E u \in Others(t) : Changing(u)
            THEN shaken \union {t[1]} ELSE shaken

\* Pool.Release(a.AccountID) for r.
GiveSlot(r) ==
  /\ releaseSlot(auth[r].account)
  /\ slots' = [slots EXCEPT ![r] =
       [id \in Ids |-> IF id = auth[r].account /\ @[id] > 0 THEN @[id] - 1 ELSE @[id]]]

\* The pool gives id to r, with a copy of the account as it is stored.
Got(t, id) ==
  LET r == t[1]
  IN  /\ auth' = [auth EXCEPT ![r].account = id, ![r].copy = stored[id] # NoAccount]
      /\ slots' = [slots EXCEPT ![r][id] = @ + 1]
      /\ stray' = stray \ {r}
      /\ UNCHANGED <<storeVars, waiters, limitVars, banned, stored, released, shaken>>

\* The loop goes on with its next attempt, or ends.  The next attempt of an
\* upload needs a new proof of work.
NextAttempt(f) ==
  IF f.op = "upload"
  THEN IF f.outer.n + 1 < f.max
       THEN [f EXCEPT !.op = "powfor", !.at = "ask", !.n = 0, !.again = FALSE,
                      !.outer.n = @ + 1]
       ELSE Ended("failed")
  ELSE IF f.n + 1 < f.max
       THEN [f EXCEPT !.at = "ask", !.n = @ + 1]
       ELSE Ended("failed")

\* Mutant: a refresh does not count, and may be repeated.
Refreshed_Forgotten(f) ==
  IF f.op = "upload" THEN NextAttempt(f) ELSE [f EXCEPT !.at = "ask"]

\* A refreshed token is tried at once; an attempt is counted for an upload only.
Refreshed(f) ==
  IF f.op = "upload" THEN NextAttempt([f EXCEPT !.outer.again = TRUE])
  ELSE [f EXCEPT !.again = TRUE, !.at = "ask"]

Switched(f) ==
  IF f.op = "upload" THEN NextAttempt([f EXCEPT !.outer.again = FALSE])
  ELSE NextAttempt([f EXCEPT !.again = FALSE])

MayRefresh(f) == IF f.op = "upload" THEN ~f.outer.again ELSE ~f.again

\* A refusal costs an account of the pool a refresh or its place, and a caller's
\* own token an attempt.
Refused(r, f) ==
  IF ~auth[r].managed THEN {NextAttempt(f)}
  ELSE {[f EXCEPT !.at = "leave"]} \union
       (IF MayRefresh(f) THEN {[f EXCEPT !.at = "refresh"]} ELSE {})

\* The account has a token: the call goes on, or Determine is done.
Ensured(f) ==
  CASE f.why = "determine" -> Ended("done")
    [] f.why = "switch"    -> Switched([f EXCEPT !.why = "determine"])
    [] f.why = "refresh"   -> Refreshed([f EXCEPT !.why = "determine"])

-----------------------------------------------------------------------------
(***************************************************************************)
(* The calls.                                                              *)
(***************************************************************************)

\* One exchange of CreateSession or GetPow: it succeeds, or the connection or the
\* challenge fails, or DeepSeek refuses the token or something else.
LoopAnswers(r, f) == {Ended("done"), NextAttempt(f)} \union Refused(r, f)

\* The GetPow of an upload, whose failure is that of the upload.
PowAnswers(r, f) ==
  {[f EXCEPT !.op = "upload"], Ended("failed"), NextAttempt(f)} \union Refused(r, f)

\* The upload: the file is ready or is not yet, or has no id.
UploadAnswers(r, f) ==
  {Ended("done"), [f EXCEPT !.op = "poll", !.n = 0], Ended("failed"), NextAttempt(f)}
  \union Refused(r, f)

\* waitForUploadedFile asks until the file is ready, so often and so long.
PollAnswers(f) ==
  {Ended("done"), Ended("failed"),
   IF f.n + 1 < MaxPolls THEN [f EXCEPT !.n = @ + 1] ELSE Ended("failed")}

\* An HTTP exchange with the token that r has now.
Answers(r, f) ==
  CASE f.op = "powfor" -> PowAnswers(r, f)
    [] f.op = "upload" -> UploadAnswers(r, f)
    [] f.op = "poll"   -> PollAnswers(f)
    [] OTHER           -> LoopAnswers(r, f)

Ask(t) ==
  /\ At(t, "ask")
  /\ \E f \in Answers(t[1], run[t]) : Goto(t, f)
  /\ UNCHANGED <<poolVars, sharedVarsButRun>>

(***************************************************************************)
(* The resolver.                                                           *)
(***************************************************************************)

\* A caller's own token.
DetermineDirect(t) ==
  /\ At(t, "determine") /\ ~auth[t[1]].managed
  /\ Goto(t, Ended("done"))
  /\ UNCHANGED <<poolVars, sharedVarsButRun>>

\* AcquireWait of AccountPool, which waits until an account is free.
DetermineAcquire(t) ==
  /\ At(t, "determine") /\ auth[t[1]].managed
  /\ \E id \in Ids :
       /\ acquire(NoAccount, auth[t[1]].tried, id)
       /\ Got(t, id)
  /\ Goto(t, [run[t] EXCEPT !.at = "ensure", !.why = "determine"])

\* All accounts were tried, or the wait ended.
DetermineFails(t) ==
  /\ At(t, "determine") /\ auth[t[1]].managed
  /\ Goto(t, Ended("failed"))
  /\ UNCHANGED <<poolVars, sharedVarsButRun>>

\* Mutant: the token of the account that was left stays in use.
Ensure_Keeps(t) ==
  LET a == auth[t[1]]
  IN  /\ At(t, "ensure")
      /\ IF a.copy
         THEN /\ auth' = [auth EXCEPT ![t[1]].token = IF @ = NoAccount THEN a.account ELSE @]
              /\ Goto(t, Ensured(run[t]))
         ELSE /\ Goto(t, [run[t] EXCEPT !.at = "login", !.who = a.account])
              /\ UNCHANGED auth
      /\ UNCHANGED <<poolVars, stored, slots, released, stray, shaken>>

\* ensureManagedToken: the account that r has by now logs in if its copy has no
\* token.
Ensure(t) ==
  LET a == auth[t[1]]
  IN  /\ At(t, "ensure")
      /\ IF a.copy
         THEN /\ auth' = [auth EXCEPT ![t[1]].token = a.account]
              /\ Goto(t, Ensured(run[t]))
         ELSE /\ Goto(t, [run[t] EXCEPT !.at = "login", !.who = a.account])
              /\ UNCHANGED auth
      /\ UNCHANGED <<poolVars, stored, slots, released, stray, shaken>>

\* loginAndPersist: the token of the account that logged in goes to r, and is
\* stored with the account that r has by now.
Login(t) ==
  LET r == t[1]
      f == run[t]
      failed == [f EXCEPT !.who = NoAccount,
                   !.at = IF f.why = "refresh" THEN "leave" ELSE "giveback"]
  IN  /\ At(t, "login")
      /\ \/ /\ auth' = [auth EXCEPT ![r].token = f.who, ![r].copy = TRUE]
            /\ stored' = [stored EXCEPT ![auth[r].account] = f.who]
            /\ Goto(t, Ensured([f EXCEPT !.who = NoAccount])) \/ Goto(t, failed)
         \/ UNCHANGED <<auth, stored>> /\ Goto(t, failed)
      /\ UNCHANGED <<poolVars, slots, released, stray, shaken>>

RefreshToken(t) ==
  LET r == t[1]
  IN  /\ At(t, "refresh")
      /\ stored' = [stored EXCEPT ![auth[r].account] = NoAccount]
      /\ auth' = [auth EXCEPT ![r].copy = FALSE]
      /\ Goto(t, [run[t] EXCEPT !.at = "login", !.who = auth[r].account, !.why = "refresh"])
      /\ Touch(t)
      /\ UNCHANGED <<poolVars, slots, released, stray>>

\* Mutant: the account that is left is not given back.
LeaveAccount_Keeps(t) ==
  /\ At(t, "leave")
  /\ auth' = [auth EXCEPT ![t[1]].tried = @ \union {auth[t[1]].account}]
  /\ Goto(t, [run[t] EXCEPT !.at = "reacquire", !.why = "switch"])
  /\ Touch(t)
  /\ UNCHANGED <<poolVars, slots, stored, released, stray>>

\* SwitchAccount gives back the account of r, and takes another.
LeaveAccount(t) ==
  /\ At(t, "leave")
  /\ auth' = [auth EXCEPT ![t[1]].tried = @ \union {auth[t[1]].account}]
  /\ GiveSlot(t[1])
  /\ Goto(t, [run[t] EXCEPT !.at = "reacquire", !.why = "switch"])
  /\ Touch(t)
  /\ UNCHANGED <<stored, released, stray>>

Reacquire(t) ==
  /\ At(t, "reacquire")
  /\ \E id \in Ids :
       /\ acquire(NoAccount, auth[t[1]].tried, id)
       /\ Got(t, id)
  /\ Goto(t, [run[t] EXCEPT !.at = "ensure"])

NoneFree(t) ==
  /\ At(t, "reacquire")
  /\ Eligible(NoAccount, auth[t[1]].tried) = {}
  /\ Goto(t, NextAttempt([run[t] EXCEPT !.why = "determine"]))
  /\ stray' = stray \union {t[1]}
  /\ UNCHANGED <<poolVars, stored, auth, slots, released, shaken>>

\* An account that cannot log in goes back, and the next is tried.
GiveBack(t) ==
  /\ At(t, "giveback")
  /\ auth' = [auth EXCEPT ![t[1]].tried = @ \union {auth[t[1]].account}]
  /\ GiveSlot(t[1])
  /\ Goto(t, [run[t] EXCEPT !.at = IF run[t].why = "determine" THEN "determine"
                                   ELSE "reacquire"])
  /\ UNCHANGED <<stored, released, stray, shaken>>

\* Resolver.Release, with the account that r has by now.
Release(r) ==
  /\ GiveSlot(r)
  /\ released' = [released EXCEPT ![r] = @ + 1]
  /\ shaken' = IF \E k \in Kinds : Changing(<<r, k>>) THEN shaken \union {r} ELSE shaken
  /\ UNCHANGED <<stored, auth, stray>>

ThreadStep(t) ==
  \/ Ask(t)
  \/ DetermineDirect(t)
  \/ DetermineAcquire(t)
  \/ DetermineFails(t)
  \/ Ensure(t)
  \/ Login(t)
  \/ RefreshToken(t)
  \/ LeaveAccount(t)
  \/ Reacquire(t)
  \/ NoneFree(t)
  \/ GiveBack(t)
=============================================================================
