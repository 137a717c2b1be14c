---------------------------- MODULE AccountPool ----------------------------
(***************************************************************************)
(* The account pool with the goroutines that share it: requests that call  *)
(* Acquire or AcquireWait, hold the account and Release it, request        *)
(* contexts that end at any time, bans, and administrators whose handlers  *)
(* change the stored configuration and then call Reset or                  *)
(* ApplyRuntimeLimits.  Every step that takes Pool.mu is one action; what  *)
(* a goroutine reads before it takes the lock is a step of its own.        *)
(***************************************************************************)
EXTENDS Pool

CONSTANTS
  Admins,       \* concurrent administration requests
  InitAccounts, \* the accounts configured at start
  Targets,      \* X-Ds2-Target-Account values; NoAccount is "no header"
  Exclusions,   \* sets of accounts a request may have tried already
  Cancellable,  \* requests whose client may disconnect
  Bannable,     \* accounts that a request may ban
  MaxAdminOps   \* bound: administration requests in a behaviour

ASSUME AccountPoolAssumption ==
  /\ InitAccounts \in Seq(Ids)
  \* no account is configured twice: the code does not rule it out (it drops only
  \* accounts without identifier), and the schedule would have the account twice
  /\ \A i, j \in DOMAIN InitAccounts : InitAccounts[i] = InitAccounts[j] => i = j
  /\ Targets \subseteq Ids \union {NoAccount}
  /\ Exclusions \subseteq SUBSET Ids
  /\ Cancellable \subseteq Requests
  /\ Bannable \subseteq Ids
  /\ MaxAdminOps \in Nat

VARIABLES
  pc,        \* where each request is in AcquireWait
  call,      \* its arguments
  held,      \* the account it acquired and has not released
  cancelled, \* requests whose context is done
  admin,     \* what each administration request does next
  adminOps,  \* administration requests started, for the bound
  exact      \* history: no Reset has discarded a slot in use

clientVars == <<pc, call, held, cancelled>>
adminVars  == <<admin, adminOps>>
vars       == <<poolVars, clientVars, adminVars, exact>>

Stage  == {"idle", "trying", "checked", "blocked", "holding"}
Call   == [target: Ids \union {NoAccount}, exclude: SUBSET Ids]
NoCall == [target |-> NoAccount, exclude |-> {}]

\* An administration request between two of its critical sections, with what
\* it has read so far.
NoJob    == [op |-> "none"]
ResetJob == [op |-> "reset"]
ApplyJob == [op |-> "apply"]
Job ==
  {NoJob, ResetJob, ApplyJob}
    \union [op: {"listed", "limited"}, ids: Seq(Ids)]
    \union [op: {"install"}, ids: Seq(Ids), queueSize: Nat, global: Nat]
    \union [op: {"counted"}, count: Nat]
    \union [op: {"limit"}, perAccount: Nat \ {0}, queueSize: Nat, global: Nat]

ClientTypeOK ==
  /\ pc \in [Requests -> Stage]
  /\ call \in [Requests -> Call]
  /\ held \in [Requests -> Ids \union {NoAccount}]
  /\ \A r \in Requests : pc[r] = "holding" <=> held[r] # NoAccount
  /\ cancelled \subseteq Requests

AdminTypeOK ==
  /\ admin \in [Admins -> Job]
  /\ adminOps \in Nat

TypeOK ==
  /\ PoolTypeOK
  /\ ClientTypeOK
  /\ AdminTypeOK
  /\ exact \in BOOLEAN

Init ==
  /\ PoolInit(InitAccounts)
  /\ pc = [r \in Requests |-> "idle"]
  /\ call = [r \in Requests |-> NoCall]
  /\ held = [r \in Requests |-> NoAccount]
  /\ cancelled = {}
  /\ admin = [m \in Admins |-> NoJob]
  /\ adminOps = 0
  /\ exact = TRUE

-----------------------------------------------------------------------------
(***************************************************************************)
(* Requests.                                                               *)
(***************************************************************************)

\* AcquireWait or Acquire returns: with the account, or without one (NoAccount).
Return(r, id) ==
  /\ pc' = [pc EXCEPT ![r] = IF id = NoAccount THEN "idle" ELSE "holding"]
  /\ held' = [held EXCEPT ![r] = id]
  /\ call' = [call EXCEPT ![r] = NoCall]
  /\ cancelled' = cancelled \ {r}

StartWait(r) ==
  /\ pc[r] = "idle"
  /\ \E t \in Targets, e \in Exclusions :
       call' = [call EXCEPT ![r] = [target |-> t, exclude |-> e]]
  /\ pc' = [pc EXCEPT ![r] = "trying"]
  /\ UNCHANGED <<poolVars, held, cancelled, adminVars, exact>>

\* The test of ctx.Err() at the head of the loop, before the lock is taken.
CheckContext(r) ==
  /\ pc[r] = "trying"
  /\ IF r \in cancelled
     THEN Return(r, NoAccount)
     ELSE /\ pc' = [pc EXCEPT ![r] = "checked"]
          /\ UNCHANGED <<call, held, cancelled>>
  /\ UNCHANGED <<poolVars, adminVars, exact>>

Grant(r) ==
  /\ pc[r] = "checked"
  /\ \E id \in Ids :
       /\ acquire(call[r].target, call[r].exclude, id)
       /\ Return(r, id)
  /\ UNCHANGED <<storeVars, waiters, limitVars, banned, adminVars, exact>>

Enqueue(r) ==
  /\ pc[r] = "checked"
  /\ Eligible(call[r].target, call[r].exclude) = {}
  /\ canQueue(call[r].target, call[r].exclude)
  /\ waiters' = Append(waiters, r)
  /\ pc' = [pc EXCEPT ![r] = "blocked"]
  /\ UNCHANGED <<storeVars, slotVars, limitVars, banned, call, held, cancelled,
                 adminVars, exact>>

Reject(r) ==
  /\ pc[r] = "checked"
  /\ Eligible(call[r].target, call[r].exclude) = {}
  /\ ~canQueue(call[r].target, call[r].exclude)
  /\ Return(r, NoAccount)
  /\ UNCHANGED <<poolVars, adminVars, exact>>

\* The waiter channel was closed: back to the head of the loop.
Wake(r) ==
  /\ pc[r] = "blocked"
  /\ r \notin Range(waiters)
  /\ pc' = [pc EXCEPT ![r] = "trying"]
  /\ UNCHANGED <<poolVars, call, held, cancelled, adminVars, exact>>

\* The select took ctx.Done(), whether or not the channel is closed as well.
GiveUp(r) ==
  /\ pc[r] = "blocked"
  /\ r \in cancelled
  /\ waiters' = Without(waiters, r)
  /\ Return(r, NoAccount)
  /\ UNCHANGED <<storeVars, slotVars, limitVars, banned, adminVars, exact>>

\* Acquire, which never waits.
AcquireNow(r) ==
  /\ pc[r] = "idle"
  /\ \E e \in Exclusions, id \in Ids :
       /\ acquire(NoAccount, e, id)
       /\ Return(r, id)
  /\ UNCHANGED <<storeVars, waiters, limitVars, banned, adminVars, exact>>

Release(r) ==
  /\ pc[r] = "holding"
  /\ releaseSlot(held[r])
  /\ Return(r, NoAccount)
  /\ UNCHANGED <<adminVars, exact>>

Ban(r) ==
  /\ pc[r] = "holding"
  /\ held[r] \in Bannable
  /\ banAccount(held[r])
  /\ UNCHANGED <<clientVars, adminVars, exact>>

\* The client disconnects or times out.  It matters inside AcquireWait only.
CtxDone(r) ==
  /\ r \in Cancellable
  /\ pc[r] \in {"trying", "checked", "blocked"}
  /\ cancelled' = cancelled \union {r}
  /\ UNCHANGED <<poolVars, pc, call, held, adminVars, exact>>

-----------------------------------------------------------------------------
(***************************************************************************)
(* Administration.  Each handler updates the store, then calls the pool.   *)
(***************************************************************************)

StartJob(m, job) ==
  /\ admin[m] = NoJob
  /\ adminOps < MaxAdminOps
  /\ adminOps' = adminOps + 1
  /\ admin' = [admin EXCEPT ![m] = job]

\* addAccount, deleteAccount, and the handlers that reset without either.
UpdateAccounts(m) ==
  /\ StartJob(m, ResetJob)
  /\ \/ \E id \in Ids \ Range(accounts) : accounts' = Append(accounts, id)
     \/ \E id \in Range(accounts) : accounts' = Without(accounts, id)
     \/ UNCHANGED accounts
  /\ UNCHANGED <<settings, lastPolled, slotVars, waiters, limitVars, banned,
                 clientVars, exact>>

\* Reset before the lock: it copies the accounts, with their tokens as they are
\* now; it assigns maxInflightPerAccount, without the lock; and it reads that
\* field again for the default of the other two limits.
ResetAccounts(m) ==
  /\ admin[m] = ResetJob
  /\ \E holders \in SUBSET Ids : \E ids \in tokenHoldersFirst(accounts, holders) :
       admin' = [admin EXCEPT ![m] = [op |-> "listed", ids |-> ids]]
  /\ UNCHANGED <<poolVars, adminOps, clientVars, exact>>

ResetPerAccount(m) ==
  /\ admin[m].op = "listed"
  /\ maxInflightPerAccount' = settings.perAccount
  /\ admin' = [admin EXCEPT ![m].op = "limited"]
  /\ UNCHANGED <<storeVars, slotVars, waiters, maxQueueSize, globalMaxInflight,
                 banned, adminOps, clientVars, exact>>

ResetLimits(m) ==
  /\ admin[m].op = "limited"
  /\ LET recommended == recommendedConcurrency(Len(admin[m].ids), maxInflightPerAccount)
     IN  admin' = [admin EXCEPT ![m] =
           [op |-> "install", ids |-> admin[m].ids,
            queueSize |-> orDefault(settings.queue, recommended),
            global |-> orDefault(settings.global, recommended)]]
  /\ UNCHANGED <<poolVars, adminOps, clientVars, exact>>

ResetInstall(m) ==
  /\ admin[m].op = "install"
  /\ reset(admin[m].ids, admin[m].queueSize, admin[m].global)
  /\ admin' = [admin EXCEPT ![m] = NoJob]
  /\ exact' = (exact /\ totalInUse = 0)
  /\ UNCHANGED <<adminOps, clientVars>>

UpdateSettings(m) ==
  /\ StartJob(m, ApplyJob)
  /\ settings' \in Settings
  /\ UNCHANGED <<accounts, lastPolled, slotVars, waiters, limitVars, banned,
                 clientVars, exact>>

\* applyRuntimeSettings reads the number of accounts (none counts as one), then
\* the settings, then calls ApplyRuntimeLimits.
ApplyCount(m) ==
  /\ admin[m] = ApplyJob
  /\ admin' = [admin EXCEPT ![m] =
       [op |-> "counted", count |-> IF accounts = <<>> THEN 1 ELSE Len(accounts)]]
  /\ UNCHANGED <<poolVars, adminOps, clientVars, exact>>

ApplySettings(m) ==
  /\ admin[m].op = "counted"
  /\ LET recommended == recommendedConcurrency(admin[m].count, settings.perAccount)
     IN  admin' = [admin EXCEPT ![m] =
           [op |-> "limit", perAccount |-> settings.perAccount,
            queueSize |-> orDefault(settings.queue, recommended),
            global |-> orDefault(settings.global, recommended)]]
  /\ UNCHANGED <<poolVars, adminOps, clientVars, exact>>

ApplyInstall(m) ==
  /\ admin[m].op = "limit"
  /\ applyRuntimeLimits(admin[m].perAccount, admin[m].queueSize, admin[m].global)
  /\ admin' = [admin EXCEPT ![m] = NoJob]
  /\ UNCHANGED <<adminOps, clientVars, exact>>

-----------------------------------------------------------------------------
RequestStep(r) ==
  \/ CheckContext(r)
  \/ Grant(r)
  \/ Enqueue(r)
  \/ Reject(r)
  \/ Wake(r)
  \/ GiveUp(r)
  \/ Release(r)

AdminStep(m) ==
  \/ ResetAccounts(m)
  \/ ResetPerAccount(m)
  \/ ResetLimits(m)
  \/ ResetInstall(m)
  \/ ApplyCount(m)
  \/ ApplySettings(m)
  \/ ApplyInstall(m)

Next ==
  \/ \E r \in Requests :
       StartWait(r) \/ AcquireNow(r) \/ RequestStep(r) \/ Ban(r) \/ CtxDone(r)
  \/ \E m \in Admins : UpdateAccounts(m) \/ UpdateSettings(m) \/ AdminStep(m)
  \/ \E id \in Ids : BanExpires(id) /\ UNCHANGED <<clientVars, adminVars, exact>>

Spec == Init /\ [][Next]_vars

(***************************************************************************)
(* A runnable goroutine runs; a handler that holds an account returns and  *)
(* its deferred Release runs, for the upstream is assumed to end its calls *)
(* (the client has no timeout for a completion); a ban ends.               *)
(* Nothing obliges a client to call, to disconnect, or anybody to ban.     *)
(***************************************************************************)
Fairness ==
  /\ \A r \in Requests : WF_vars(RequestStep(r))
  /\ \A m \in Admins : WF_vars(AdminStep(m))
  /\ \A id \in Ids :
       WF_vars(BanExpires(id) /\ UNCHANGED <<clientVars, adminVars, exact>>)

FairSpec == Spec /\ Fairness

-----------------------------------------------------------------------------
(***************************************************************************)
(* Properties.                                                             *)
(***************************************************************************)

Holders(id) == {r \in Requests : held[r] = id}
AllHolders  == {r \in Requests : held[r] # NoAccount}

(***************************************************************************)
(* Until a Reset discards slots that are in use, the pool's counters are   *)
(* the number of requests that really hold each account, through every     *)
(* interleaving of grants, wake-ups, releases, bans and limit changes.     *)
(***************************************************************************)
CountersAreExact ==
  exact => /\ \A id \in Ids : inUse[id] = Cardinality(Holders(id))
           /\ totalInUse = Cardinality(AllHolders)

(***************************************************************************)
(* A slot is never leaked: even across Resets that forget holders, the     *)
(* pool never counts more slots than requests hold, so once all requests   *)
(* have returned every account is free again.                              *)
(***************************************************************************)
NoSlotLeak ==
  /\ \A id \in Ids : inUse[id] <= Cardinality(Holders(id))
  /\ totalInUse <= Cardinality(AllHolders)

(***************************************************************************)
(* The waiter list holds requests that are blocked, each once: an entry    *)
(* left behind by a request that gave up would swallow a wake-up.          *)
(***************************************************************************)
WaitersAreBlocked ==
  /\ \A i \in DOMAIN waiters : pc[waiters[i]] = "blocked"
  /\ \A i, j \in DOMAIN waiters : waiters[i] = waiters[j] => i = j

(***************************************************************************)
(* A request is granted an account only while fewer requests than the      *)
(* limits allow really hold one, as long as the counters are exact.        *)
(***************************************************************************)
GrantsRespectLimits ==
  [][\A id \in Ids :
       exact /\ Cardinality(Holders(id)') > Cardinality(Holders(id))
         => /\ Cardinality(Holders(id)') <= maxInflightPerAccount
            /\ globalMaxInflight > 0 => Cardinality(AllHolders') <= globalMaxInflight]_vars

(***************************************************************************)
(* With one administration request at a time, the queue holds exactly the  *)
(* configured accounts, each once, whenever no such request is under way:  *)
(* bumping and rotating lose no account, and none that was deleted stays.  *)
(***************************************************************************)
QueueFollowsStore ==
  (\A m \in Admins : admin[m] = NoJob) =>
    /\ Range(queue) = Range(accounts)
    /\ Len(queue) = Len(accounts)

(***************************************************************************)
(* No wake-up is lost: if requests wait while slots are free, at least as  *)
(* many requests as there are free slots (or as wait) are on their way.    *)
(***************************************************************************)
FreeSlots ==
  LET perAccount == Cardinality({slot \in Ids \X (1..maxInflightPerAccount) :
                      slot[1] \in Range(queue) \ banned /\ slot[2] > inUse[slot[1]]})
      global == IF globalMaxInflight > totalInUse
                THEN globalMaxInflight - totalInUse ELSE 0
  IN  IF perAccount < global THEN perAccount ELSE global

OnTheirWay ==
  {r \in Requests : \/ pc[r] \in {"trying", "checked"}
                    \/ pc[r] = "blocked" /\ r \notin Range(waiters)}

NoLostWakeup == waiters # <<>> => FreeSlots <= Cardinality(OnTheirWay)

(***************************************************************************)
(* A request that waits is served or rejected once other clients stop      *)
(* arriving.                                                               *)
(***************************************************************************)
Arrival == \E r \in Requests : pc[r] = "idle" /\ pc'[r] # "idle"

WaitersAreServed ==
  <>[][~Arrival]_vars => \A r \in Requests : pc[r] = "blocked" ~> pc[r] \in {"idle", "holding"}

(***************************************************************************)
(* What the documentation says of the limit: no account ever serves more   *)
(* requests at once than its in-flight limit.                              *)
(***************************************************************************)
HoldersWithinLimit ==
  \A id \in Ids : Cardinality(Holders(id)) <= maxInflightPerAccount
=============================================================================
