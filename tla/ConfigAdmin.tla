---------------------------- MODULE ConfigAdmin ----------------------------
(***************************************************************************)
(* internal/httpapi/admin: the requests of administrators that read and    *)
(* change the configuration.  A request whose decision rests on something  *)
(* it read before it takes the lock of the store has a step for each.  An  *)
(* input that a handler refuses changes nothing and has no step.           *)
(*                                                                         *)
(* The Pool.Reset and ApplyRuntimeLimits that follow a change are part of  *)
(* AccountPool.                                                            *)
(***************************************************************************)
EXTENDS ConfigStore, SequencesExt

CONSTANTS
  Admins,
  AccountInputs, \* accounts that requests submit
  MaxSubmitted   \* accounts in one submitted list

\* toAccount makes an account without a token.
ASSUME ConfigAdminAssumption ==
  MaxSubmitted \in Nat /\ AccountInputs \subseteq NewAccount

VARIABLES
  desk,      \* what each administrator's request has read so far
  remote,    \* << >> or the configuration of the Vercel project
  uploaded,  \* history: the configurations the project has held
  latest,    \* history: the request whose upload the project holds, until it
             \* records it
  astray,    \* history: since the last record of the upload the project held,
             \* an overtaken upload was recorded, or an upload or a record
             \* was lost
  unchecked, \* history: a request put in what nobody validated
  given      \* history: the passwords submitted for the accounts

syncVars  == <<remote, uploaded, latest, astray>>
auditVars == <<unchecked, given>>
adminVars == <<desk, syncVars, auditVars>>

Idle   == [at |-> "idle", old |-> << >>]
Lists  == UNION {[1..n -> AccountInputs] : n \in 0..MaxSubmitted}
\* The passwords in a list, each with the account it is for.
Given(accs) ==
  {<<accountDedupeKey(accs[i]), accs[i].password>> :
     i \in {j \in DOMAIN accs : accs[j].password # Empty}}

KeySets == UNION {[K -> Text(Names)] : K \in SUBSET KeyIds}

AdminInit ==
  /\ desk = [a \in Admins |-> Idle]
  /\ remote = << >> /\ uploaded = {} /\ latest = {} /\ astray = FALSE
  /\ unchecked = FALSE
  /\ given = Given(env.accounts)

Asks(a) == up /\ desk[a].at = "idle" /\ changes < MaxChanges

\* The lists, the settings, the export and the status read one snapshot.
readConfig(a) == up /\ desk[a].at = "idle" /\ UNCHANGED <<storeVars, adminVars>>

Read(a, stage, what) ==
  /\ Asks(a)
  /\ desk' = [desk EXCEPT ![a] = [at |-> stage, old |-> what]]
  /\ UNCHANGED <<storeVars, syncVars, auditVars>>

Done(a) == desk' = [desk EXCEPT ![a] = Idle]

Change(c) == Update(c, TRUE) /\ UNCHANGED adminVars

Submitted(list) == given' = given \union Given(list)

\* A list whose accounts may name proxies that are not there.
Unvalidated(list) ==
  unchecked' = (unchecked \/ \E i \in DOMAIN list : list[i].proxy \notin Text(cfg.proxies))

-----------------------------------------------------------------------------
(***************************************************************************)
(* Keys.                                                                   *)
(***************************************************************************)

addKey(a) ==
  /\ Asks(a)
  /\ \E k \in KeyIds \ DOMAIN cfg.api, n \in Text(Names) :
       Change([cfg EXCEPT !.api = [x \in DOMAIN @ \union {k} |-> IF x = k THEN n ELSE @[x]]])

updateKey(a) ==
  /\ Asks(a)
  /\ \E k \in DOMAIN cfg.api, n \in Text(Names) : Change([cfg EXCEPT !.api[k] = n])

deleteKey(a) ==
  /\ Asks(a)
  /\ \E k \in DOMAIN cfg.api :
       Change([cfg EXCEPT !.api = [x \in DOMAIN @ \ {k} |-> @[x]]])

\* The keys part of updateConfig: a structured list, or a legacy one.
replaceKeys(a) ==
  /\ Asks(a)
  /\ \/ \E api \in KeySets : Change([cfg EXCEPT !.api = api])
     \/ \E keys \in SUBSET KeyIds : Change([cfg EXCEPT !.keys = keys])

importKeys(a) ==
  /\ Asks(a)
  /\ \E api \in KeySets : Change([cfg EXCEPT !.api = mergeAPIKeysPreferStructured(@, api)])

-----------------------------------------------------------------------------
(***************************************************************************)
(* Accounts and proxies.                                                   *)
(***************************************************************************)

addAccount(a) ==
  /\ Asks(a)
  /\ \E acc \in AccountInputs :
       /\ Identifier(acc) # Empty
       /\ acc.proxy \in Text(cfg.proxies)
       /\ \A i \in DOMAIN cfg.accounts :
            /\ acc.email # Empty => cfg.accounts[i].email # acc.email
            /\ acc.mobile # Empty => cfg.accounts[i].mobile # acc.mobile
       /\ Update([cfg EXCEPT !.accounts = Append(@, acc)], TRUE)
       /\ Submitted(<<acc>>)
  /\ UNCHANGED <<desk, syncVars, unchecked>>

\* Its name, remark and device are not modelled, the save is.
updateAccount(a) ==
  /\ Asks(a)
  /\ \E id \in Emails \union Mobiles : Matching(cfg.accounts, id) # {}
  /\ Change(cfg)

deleteAccount(a) ==
  /\ Asks(a)
  /\ \E id \in Emails \union Mobiles :
       /\ Matching(cfg.accounts, id) # {}
       /\ Change([cfg EXCEPT !.accounts = RemoveAt(@, First(Matching(@, id)))])

\* The accounts part of batchImport, which does not validate the result.
importAccounts(a) ==
  /\ Asks(a)
  /\ \E list \in Lists :
       /\ Update([cfg EXCEPT !.accounts = AppendNew(@, list)], TRUE)
       /\ Unvalidated(list)
       /\ Submitted(list)
  /\ UNCHANGED <<desk, syncVars>>

\* The accounts part of updateConfig: the passwords are looked up in a snapshot
\* that is taken before the lock.
snapshotAccounts(a) == Read(a, "config", cfg.accounts)

replaceAccounts(a) ==
  /\ up /\ desk[a].at = "config"
  /\ \E list \in Lists :
       /\ Update([cfg EXCEPT !.accounts =
            KeepPasswords(normalizeAndDedupeAccounts(list), desk[a].old)], TRUE)
       /\ Unvalidated(list)
       /\ Submitted(list)
  /\ Done(a)
  /\ UNCHANGED syncVars

addProxy(a) ==
  /\ Asks(a)
  /\ \E p \in ProxyIds \ cfg.proxies :
       LET new == [cfg EXCEPT !.proxies = @ \union {p}]
       IN  ValidateAccountProxyReferences(new) /\ Change(new)

\* The identifier of a proxy is the one of the address, whatever is submitted.
updateProxy(a) ==
  /\ Asks(a)
  /\ cfg.proxies # {}
  /\ ValidateAccountProxyReferences(cfg)
  /\ Change(cfg)

\* Mutant: the accounts keep the proxy that is deleted, and are not checked.
deleteProxy_Dangling(a) ==
  /\ Asks(a)
  /\ \E p \in cfg.proxies : Change([cfg EXCEPT !.proxies = @ \ {p}])

deleteProxy(a) ==
  /\ Asks(a)
  /\ \E p \in cfg.proxies :
       LET new == [cfg EXCEPT !.proxies = @ \ {p},
                     !.accounts = [i \in DOMAIN @ |->
                        IF @[i].proxy = p THEN [@[i] EXCEPT !.proxy = Empty] ELSE @[i]]]
       IN  ValidateAccountProxyReferences(new) /\ Change(new)

updateAccountProxy(a) ==
  /\ Asks(a)
  /\ \E id \in Emails \union Mobiles, p \in Text(cfg.proxies) :
       /\ Matching(cfg.accounts, id) # {}
       /\ LET new == [cfg EXCEPT !.accounts[First(Matching(cfg.accounts, id))].proxy = p]
          IN  ValidateAccountProxyReferences(new) /\ Change(new)

\* testAccount, deleteAllSessions and the validation before a synchronisation
\* log in with a copy of the account and store the token under its identifier,
\* once or, after a failure, twice.
readAccount(a) ==
  \E i \in DOMAIN cfg.accounts : Read(a, "test", Identifier(cfg.accounts[i]))

storeToken(a) ==
  /\ up /\ desk[a].at = "test"
  /\ \/ UpdateAccountToken(desk[a].old, desk[a].old)
     \/ Find(desk[a].old) = 0 /\ UNCHANGED storeVars
  /\ Done(a)
  /\ UNCHANGED <<syncVars, auditVars>>

-----------------------------------------------------------------------------
(***************************************************************************)
(* Settings and imports.                                                   *)
(***************************************************************************)

\* updateSettings checks the limits merged with a snapshot, then merges them
\* again with what the store holds by then.
checkSettings(a) ==
  \E i, g \in 0..MaxLimit :
    /\ ValidateRuntimeConfig(i, g)
    /\ ValidateRuntimeConfig(Positive(i, cfg.inflight), Positive(g, cfg.global))
    /\ Read(a, "settings", <<i, g, cfg.inflight, cfg.global>>)

applySettings(a) ==
  /\ up /\ desk[a].at = "settings"
  /\ Update([cfg EXCEPT !.inflight = Positive(desk[a].old[1], @),
                        !.global = Positive(desk[a].old[2], @)], TRUE)
  /\ unchecked' = (unchecked \/ SubSeq(desk[a].old, 3, 4) # <<cfg.inflight, cfg.global>>)
  /\ Done(a)
  /\ UNCHANGED <<syncVars, given>>

configImport(a, incoming) ==
  /\ Asks(a)
  /\ \E m \in {"merge", "replace"} :
       LET new == Imported(cfg, incoming, m)
       IN  ValidateConfig(new) /\ Update(new, TRUE)
  /\ Submitted(incoming.accounts)
  /\ UNCHANGED <<desk, syncVars, unchecked>>

\* The pool notes the account of each request it serves.
poll(id) == changes < MaxChanges /\ SetLastPolled(id) /\ UNCHANGED adminVars

-----------------------------------------------------------------------------
(***************************************************************************)
(* Synchronisation with a Vercel project.                                  *)
(***************************************************************************)

\* exportSyncConfig; a draft in the request stands in for the configuration.
exportConfig(a) == \E c \in {cfg, env} : Read(a, "export", SyncHash(c))

Uploads(c) == remote' = c /\ uploaded' = uploaded \union {c}

\* upsertVercelEnv, which may fail, before or after the project took the upload.
upsertEnv(a) ==
  /\ up /\ desk[a].at = "export"
  /\ \/ /\ Uploads(desk[a].old)
        /\ latest' = {a}
        /\ desk' = [desk EXCEPT ![a].at = "uploaded"]
        /\ UNCHANGED <<storeVars, astray>>
     \/ Done(a) /\ UNCHANGED <<storeVars, syncVars>>
     \/ /\ Uploads(desk[a].old)
        /\ latest' = {} /\ astray' = TRUE
        /\ Done(a)
        /\ UNCHANGED storeVars
  /\ UNCHANGED auditVars

\* What a record tells of the history.
Records(a) ==
  /\ latest' = latest \ {a}
  /\ astray' = (a \notin latest)
  /\ UNCHANGED <<remote, uploaded>>

\* Mutant: the hash of what is in force by now is recorded.
SetVercelSync_Current(a) ==
  /\ up /\ desk[a].at = "uploaded"
  /\ Update([cfg EXCEPT !.sync = SyncHash(cfg)], FALSE)
  /\ Records(a)
  /\ Done(a)
  /\ UNCHANGED auditVars

\* Its error is dropped: the answer says that the project is synchronised.
SetVercelSync(a) ==
  /\ up /\ desk[a].at = "uploaded"
  /\ Update([cfg EXCEPT !.sync = desk[a].old], FALSE)
  /\ Records(a)
  /\ Done(a)
  /\ UNCHANGED auditVars

\* vercelStatus.
Synced(c) == c.sync # << >> /\ c.sync = SyncHash(c)

\* The requests of a program that crashed are gone.
Forget ==
  /\ desk' = [a \in Admins |-> Idle]
  /\ latest' = {} /\ astray' = TRUE
  /\ UNCHANGED <<remote, uploaded, auditVars>>
=============================================================================
