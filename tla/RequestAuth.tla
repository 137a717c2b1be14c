---------------------------- MODULE RequestAuth ----------------------------
(***************************************************************************)
(* internal/auth: how a request that uses a managed account gets one, logs *)
(* it in, refreshes its token, changes to another account and gives the    *)
(* slot back.  A resolver call runs until it touches shared state (the     *)
(* pool, the stored tokens, the upstream login), and each such point is a  *)
(* step.  The module that extends this one supplies the caller: it sets pc *)
(* to the entry of a call and goes on from the stage where the call ends.  *)
(*                                                                         *)
(* A token is named by the account it belongs to.  A request with its own  *)
(* DeepSeek token never meets the pool and is left out.                    *)
(***************************************************************************)
EXTENDS Pool

CONSTANTS
  Configured,   \* the lists of accounts that may be configured
  InitMarked,   \* those used since the start of the program
  Targets,      \* X-Ds2-Target-Account values; NoAccount is "no header"
  Cancellable   \* requests whose client may disconnect while they wait

ASSUME RequestAuthAssumption ==
  /\ Configured \subseteq Seq(Ids)
  /\ InitMarked \subseteq Ids
  /\ Targets \subseteq Ids \union {NoAccount}
  /\ Cancellable \subseteq Requests

VARIABLES
  tokens, \* accounts with a token in the store
  marked, \* accounts with an entry in tokenRefreshedAt
  pc,     \* where each request is
  caller, \* the resolver method that a login in progress returns to
  auth,   \* its RequestAuth
  holds,  \* history: the slot the request really has
  given,  \* history: the accounts it has given back
  stray   \* history: SwitchAccount found no other account

authVars      == <<tokens, marked, pc, caller, auth, holds, given, stray>>
authVarsButPc == <<tokens, marked, caller, auth, holds, given, stray>>

ResolverStage ==
  {"idle", "determine", "blocked", "ensure", "login", "giveback", "ready",
   "switch", "reacquire", "switched", "unswitched",
   "refresh", "refreshed", "unrefreshed", "release"}

Auth == [target: Ids \union {NoAccount}, account: Ids \union {NoAccount},
         token: Ids \union {NoAccount}, tried: SUBSET Ids]

NoAuth == [target |-> NoAccount, account |-> NoAccount, token |-> NoAccount,
           tried |-> {}]

AuthTypeOK ==
  /\ PoolTypeOK
  /\ tokens \subseteq Ids
  /\ marked \subseteq Ids
  /\ caller \in [Requests -> {"determine", "switch", "refresh"}]
  /\ auth \in [Requests -> Auth]
  /\ holds \in [Requests -> Ids \union {NoAccount}]
  /\ given \in [Requests -> SUBSET Ids]
  /\ stray \subseteq Requests

AuthInit ==
  /\ \E list \in Configured : PoolInit(list) /\ tokens \in SUBSET Range(list)
  /\ marked = InitMarked
  /\ pc = [r \in Requests |-> "idle"]
  /\ caller = [r \in Requests |-> "determine"]
  /\ auth = [r \in Requests |-> NoAuth]
  /\ holds = [r \in Requests |-> NoAccount]
  /\ given = [r \in Requests |-> {}]
  /\ stray = {}

-----------------------------------------------------------------------------
At(r, stage)   == pc[r] = stage
Goto(r, stage) == pc' = [pc EXCEPT ![r] = stage]

\* The pool gives id to r, with a copy of the account as it is stored now:
\* ensureManagedToken logs in at once if that copy has no token.
Got(r, id) ==
  /\ auth' = [auth EXCEPT ![r].account = id]
  /\ holds' = [holds EXCEPT ![r] = id]
  /\ Goto(r, IF id \in tokens THEN "ensure" ELSE "login")
  /\ UNCHANGED <<storeVars, waiters, limitVars, banned, tokens, marked, given, stray>>

\* Pool.Release(a.AccountID): whether or not r still has that slot.
GiveSlot(r) ==
  LET id == auth[r].account
  IN  /\ releaseSlot(id)
      /\ holds' = [holds EXCEPT ![r] = IF @ = id THEN NoAccount ELSE @]
      /\ given' = [given EXCEPT ![r] = (@ \union {id}) \ {NoAccount}]

Forget(r) ==
  /\ auth' = [auth EXCEPT ![r] = NoAuth]
  /\ stray' = stray \ {r}

(***************************************************************************)
(* Determine.                                                              *)
(***************************************************************************)

Determine(r) ==
  /\ At(r, "idle")
  /\ \E t \in Targets : auth' = [auth EXCEPT ![r].target = t]
  /\ Goto(r, "determine")
  /\ UNCHANGED <<poolVars, tokens, marked, caller, holds, given, stray>>

AllTried(r) ==
  auth[r].target = NoAccount /\ Cardinality(auth[r].tried) >= Len(accounts)

DetermineAcquire(r) ==
  /\ At(r, "determine")
  /\ ~AllTried(r)
  /\ \E id \in Ids :
       /\ acquire(auth[r].target, auth[r].tried, id)
       /\ Got(r, id)
  /\ caller' = [caller EXCEPT ![r] = "determine"]

\* AcquireWait, whose loop AccountPool models in full.
DetermineWait(r) ==
  /\ At(r, "determine")
  /\ ~AllTried(r)
  /\ Eligible(auth[r].target, auth[r].tried) = {}
  /\ canQueue(auth[r].target, auth[r].tried)
  /\ waiters' = Append(waiters, r)
  /\ Goto(r, "blocked")
  /\ UNCHANGED <<storeVars, slotVars, limitVars, banned, tokens, marked, caller,
                 auth, holds, given, stray>>

DetermineWake(r) ==
  /\ At(r, "blocked")
  /\ r \notin Range(waiters)
  /\ Goto(r, "determine")
  /\ UNCHANGED <<poolVars, tokens, marked, caller, auth, holds, given, stray>>

\* No account: all were tried, the queue is full, the target is unknown or was
\* tried, or the client went away.
DetermineFails(r) ==
  /\ \/ /\ At(r, "determine")
        /\ \/ AllTried(r)
           \/ /\ Eligible(auth[r].target, auth[r].tried) = {}
              /\ ~canQueue(auth[r].target, auth[r].tried)
           \/ r \in Cancellable
     \/ At(r, "blocked") /\ r \in Cancellable
  /\ waiters' = Without(waiters, r)
  /\ Goto(r, "idle")
  /\ Forget(r)
  /\ given' = [given EXCEPT ![r] = {}]
  /\ UNCHANGED <<storeVars, slotVars, limitVars, banned, tokens, marked, caller, holds>>

-----------------------------------------------------------------------------
(***************************************************************************)
(* ensureManagedToken, loginAndPersist and RefreshToken.                   *)
(***************************************************************************)

Succeed(r) ==
  /\ Goto(r, CASE caller[r] = "determine" -> "ready"
               [] caller[r] = "switch"    -> "switched"
               [] caller[r] = "refresh"   -> "refreshed")
  /\ caller' = [caller EXCEPT ![r] = "determine"]

Fail(r) ==
  IF caller[r] = "refresh"
  THEN Goto(r, "unrefreshed") /\ caller' = [caller EXCEPT ![r] = "determine"]
  ELSE Goto(r, "giveback") /\ UNCHANGED caller

\* Mutant: the token of the previous account stays in use.
UseStoredToken_Keeps(r) ==
  /\ At(r, "ensure")
  /\ marked' = marked \union {auth[r].account}
  /\ auth' = [auth EXCEPT ![r].token = IF @ = NoAccount THEN auth[r].account ELSE @]
  /\ Succeed(r)
  /\ UNCHANGED <<poolVars, tokens, holds, given, stray>>

\* The stored token is used; the first time, the interval starts now.
UseStoredToken(r) ==
  /\ At(r, "ensure")
  /\ marked' = marked \union {auth[r].account}
  /\ auth' = [auth EXCEPT ![r].token = auth[r].account]
  /\ Succeed(r)
  /\ UNCHANGED <<poolVars, tokens, holds, given, stray>>

\* Its refresh is due, which only an account with a mark can be.
RefreshDue(r) ==
  /\ At(r, "ensure")
  /\ auth[r].account \in marked
  /\ Goto(r, "login")
  /\ UNCHANGED <<poolVars, tokens, marked, caller, auth, holds, given, stray>>

LoginFails(r) ==
  /\ At(r, "login")
  /\ Fail(r)
  /\ UNCHANGED <<poolVars, tokens, marked, auth, holds, given, stray>>

\* The login answers a token; saving it may still fail, after memory changed.
LoginSucceeds(r) ==
  LET id == auth[r].account
  IN  /\ At(r, "login")
      /\ tokens' = tokens \union {id}
      /\ marked' = marked \union {id}
      /\ auth' = [auth EXCEPT ![r].token = id]
      /\ Succeed(r) \/ Fail(r)
      /\ UNCHANGED <<poolVars, holds, given, stray>>

\* RefreshToken clears the stored token, then logs in again.
RefreshToken(r) ==
  /\ At(r, "refresh")
  /\ tokens' = tokens \ {auth[r].account}
  /\ Goto(r, "login")
  /\ caller' = [caller EXCEPT ![r] = "refresh"]
  /\ UNCHANGED <<poolVars, marked, auth, holds, given, stray>>

\* Mutant: the slot of the account that could not log in is kept.
DetermineGivesBack_Keeps(r) ==
  /\ At(r, "giveback")
  /\ caller[r] = "determine"
  /\ IF auth[r].target # NoAccount
     THEN Goto(r, "idle") /\ Forget(r)
     ELSE /\ Goto(r, "determine")
          /\ auth' = [auth EXCEPT ![r] =
               [NoAuth EXCEPT !.tried = auth[r].tried \union {auth[r].account}]]
          /\ UNCHANGED stray
  /\ holds' = [holds EXCEPT ![r] = NoAccount]
  /\ given' = [given EXCEPT ![r] = {}]
  /\ UNCHANGED <<poolVars, tokens, marked, caller>>

\* Determine gives back an account that could not log in and tries the next with
\* a new RequestAuth; a request with a target ends.
DetermineGivesBack(r) ==
  /\ At(r, "giveback")
  /\ caller[r] = "determine"
  /\ releaseSlot(auth[r].account)
  /\ holds' = [holds EXCEPT ![r] = NoAccount]
  /\ IF auth[r].target # NoAccount
     THEN /\ Goto(r, "idle")
          /\ Forget(r)
          /\ given' = [given EXCEPT ![r] = {}]
     ELSE /\ Goto(r, "determine")
          /\ auth' = [auth EXCEPT ![r] =
               [NoAuth EXCEPT !.tried = auth[r].tried \union {auth[r].account}]]
          /\ given' = [given EXCEPT ![r] = @ \union {auth[r].account}]
          /\ UNCHANGED stray
  /\ UNCHANGED <<tokens, marked, caller>>

\* SwitchAccount does so with the RequestAuth that its caller goes on using.
SwitchGivesBack(r) ==
  /\ At(r, "giveback")
  /\ caller[r] = "switch"
  /\ auth' = [auth EXCEPT ![r].tried = @ \union {auth[r].account}]
  /\ GiveSlot(r)
  /\ Goto(r, "reacquire")
  /\ caller' = [caller EXCEPT ![r] = "determine"]
  /\ UNCHANGED <<tokens, marked, stray>>

-----------------------------------------------------------------------------
(***************************************************************************)
(* SwitchAccount.                                                          *)
(***************************************************************************)

\* Mutant: the account that is left is not recorded as tried.
LeaveAccount_Untried(r) ==
  /\ At(r, "switch")
  /\ GiveSlot(r)
  /\ Goto(r, "reacquire")
  /\ UNCHANGED <<auth, tokens, marked, caller, stray>>

LeaveAccount(r) ==
  /\ At(r, "switch")
  /\ auth' = [auth EXCEPT ![r].tried = @ \union {auth[r].account}]
  /\ GiveSlot(r)
  /\ Goto(r, "reacquire")
  /\ UNCHANGED <<tokens, marked, caller, stray>>

Reacquire(r) ==
  /\ At(r, "reacquire")
  /\ \E id \in Ids :
       /\ acquire(NoAccount, auth[r].tried, id)
       /\ Got(r, id)
  /\ caller' = [caller EXCEPT ![r] = "switch"]

\* No account is free: AccountID and the token stay those of accounts that the
\* request has given back.
NoneFree(r) ==
  /\ At(r, "reacquire")
  /\ Eligible(NoAccount, auth[r].tried) = {}
  /\ Goto(r, "unswitched")
  /\ stray' = stray \union {r}
  /\ UNCHANGED <<poolVars, tokens, marked, caller, auth, holds, given>>

(***************************************************************************)
(* The deferred Release, which ends the request.                           *)
(***************************************************************************)

Release(r) ==
  /\ At(r, "release")
  /\ releaseSlot(auth[r].account)
  /\ holds' = [holds EXCEPT ![r] = IF @ = auth[r].account THEN NoAccount ELSE @]
  /\ given' = [given EXCEPT ![r] = {}]
  /\ Forget(r)
  /\ Goto(r, "idle")
  /\ UNCHANGED <<tokens, marked, caller>>

ResolverStep(r) ==
  \/ DetermineAcquire(r)
  \/ DetermineWait(r)
  \/ DetermineWake(r)
  \/ DetermineFails(r)
  \/ UseStoredToken(r)
  \/ RefreshDue(r)
  \/ LoginFails(r)
  \/ LoginSucceeds(r)
  \/ RefreshToken(r)
  \/ DetermineGivesBack(r)
  \/ SwitchGivesBack(r)
  \/ LeaveAccount(r)
  \/ Reacquire(r)
  \/ NoneFree(r)
=============================================================================
