---------------------------- MODULE ConfigStore ----------------------------
(***************************************************************************)
(* internal/config Store: the configuration in force, its file, and the    *)
(* configuration of the environment that may stand in for it.  Every       *)
(* method holds the lock from its first read to the end of the write, so   *)
(* that a call is one step; only a crash can fall into the write, which    *)
(* truncates the file before it fills it.                                  *)
(*                                                                         *)
(* mode: "file" (no DS2API_CONFIG_JSON), "env" (with it, and no write-back *)
(* or on Vercel), "writeback" (with it and DS2API_ENV_WRITEBACK).          *)
(***************************************************************************)
EXTENDS Config

CONSTANTS
  MaxFailures, \* writes that fail or are cut by a crash, and other crashes
  MaxChanges   \* changes after which no request is begun

VARIABLES
  mode,    \* where the configuration comes from, fixed for a deployment
  env,     \* the configuration of the environment
  disk,    \* the file: "absent", "torn" or "whole"
  file,    \* the configuration a whole file holds
  up,      \* the program runs
  cfg,     \* Store.cfg
  fromEnv, \* Store.fromEnv
  keyMap,  \* Store.keyMap
  accMap,  \* Store.accMap: identifier to place
  failures,
  changes,
  told,    \* history: since the last write that succeeded, one failed and its
           \* caller answered an error
  dropped  \* history: likewise, and its caller dropped the error

storeVars == <<mode, env, disk, file, up, cfg, fromEnv, keyMap, accMap, failures, changes, told,
               dropped>>

StoreTypeOK ==
  /\ mode \in {"file", "env", "writeback"}
  /\ disk \in {"absent", "torn", "whole"}
  /\ up \in BOOLEAN /\ fromEnv \in BOOLEAN /\ told \in BOOLEAN /\ dropped \in BOOLEAN
  /\ cfg.keys \subseteq KeyIds
  /\ DOMAIN cfg.api \subseteq KeyIds
  /\ \A i \in DOMAIN cfg.accounts : cfg.accounts[i] \in Account
  /\ cfg.proxies \subseteq ProxyIds
  /\ \A id \in DOMAIN accMap : accMap[id] \in DOMAIN cfg.accounts
  /\ failures \in 0..MaxFailures
  /\ changes \in Nat

Indexes(c) ==
  LET ids == {Identifier(c.accounts[i]) : i \in DOMAIN c.accounts} \ {Empty}
  IN  [id \in ids |-> CHOOSE i \in DOMAIN c.accounts :
         /\ Identifier(c.accounts[i]) = id
         /\ \A j \in DOMAIN c.accounts : Identifier(c.accounts[j]) = id => j <= i]

rebuildIndexes(c) == keyMap' = c.keys /\ accMap' = Indexes(c)

\* findAccountIndexLocked; 0 if there is none.
Find(id) ==
  LET fallback == {i \in DOMAIN cfg.accounts : Identifier(cfg.accounts[i]) = id}
  IN  IF id \in DOMAIN accMap /\ accMap[id] \in DOMAIN cfg.accounts THEN accMap[id]
      ELSE IF fallback = {} THEN 0 ELSE First(fallback)

HasAPIKey(k) == k \in keyMap

-----------------------------------------------------------------------------
(***************************************************************************)
(* Saving.                                                                 *)
(***************************************************************************)

SkipsSave == fromEnv /\ mode = "env"

Write(c) == disk' = "whole" /\ file' = Persisted(c)

Tear == disk' = "torn" /\ file' = EmptyConfig

KeepFile == UNCHANGED <<disk, file>>

\* Mutant: the error of the write is dropped.
saveLocked_Silent(c, ok) ==
  /\ ok
  /\ \/ SkipsSave /\ KeepFile /\ UNCHANGED <<fromEnv, failures>>
     \/ ~SkipsSave /\ Write(c) /\ fromEnv' = FALSE /\ UNCHANGED failures
     \/ /\ ~SkipsSave
        /\ failures < MaxFailures
        /\ failures' = failures + 1
        /\ KeepFile \/ Tear
        /\ UNCHANGED fromEnv

\* saveLocked with configuration c, whose result is ok: skipped, written, or
\* failed before or after the file was truncated.
saveLocked(c, ok) ==
  \/ /\ SkipsSave
     /\ ok
     /\ KeepFile
     /\ UNCHANGED <<fromEnv, failures>>
  \/ /\ ~SkipsSave
     /\ ok
     /\ Write(c)
     /\ fromEnv' = FALSE
     /\ UNCHANGED failures
  \/ /\ ~SkipsSave
     /\ ~ok
     /\ failures < MaxFailures
     /\ failures' = failures + 1
     /\ KeepFile \/ Tear
     /\ UNCHANGED fromEnv

Install(c) == cfg' = c /\ rebuildIndexes(c)

\* saveLocked, whose error the caller answers or drops.
Save(c, answers) ==
  \E ok \in BOOLEAN :
    /\ saveLocked(c, ok)
    /\ told'    = ((~ok /\ answers)  \/ (told    /\ (~ok \/ SkipsSave)))
    /\ dropped' = ((~ok /\ ~answers) \/ (dropped /\ (~ok \/ SkipsSave)))

\* Update, once the mutation has accepted its input and made c of cfg: the
\* change is in force even if it cannot be saved.
Update(c, answers) ==
  LET new == NormalizeCredentials(ReconcileCredentials(c, cfg))
  IN  /\ up
      /\ changes' = changes + 1
      /\ Install(new)
      /\ Save(new, answers)
      /\ UNCHANGED <<mode, env, up>>

\* UpdateAccountToken: the token goes to the account the index names.  Its
\* callers drop the error, or answer it as a warning about the token only.
UpdateAccountToken(id, token) ==
  /\ up
  /\ Find(id) # 0
  /\ LET i   == Find(id)
         new == [cfg EXCEPT !.accounts[i].token = token]
         ids == {id, Identifier(cfg.accounts[i])} \ {Empty}
     IN  /\ cfg' = new
         /\ accMap' = [a \in DOMAIN accMap \union ids |-> IF a \in ids THEN i ELSE accMap[a]]
         /\ Save(new, FALSE)
  /\ UNCHANGED <<mode, env, up, keyMap, changes>>

\* SetLastPolledAccountID, whose error the pool drops.
SetLastPolled(id) == cfg.polled # id /\ Update([cfg EXCEPT !.polled = id], FALSE)

-----------------------------------------------------------------------------
(***************************************************************************)
(* Starting and crashing.                                                  *)
(***************************************************************************)

\* The program ends: between two calls, or inside a write.
Crash ==
  /\ up
  /\ failures < MaxFailures
  /\ failures' = failures + 1
  /\ up' = FALSE
  /\ KeepFile \/ (~SkipsSave /\ Tear)
  /\ told' = FALSE /\ dropped' = FALSE
  /\ UNCHANGED <<mode, env, cfg, fromEnv, keyMap, accMap, changes>>

\* The configuration a start finds, whether it is the environment's, and
\* whether it is written to the file.
loadConfig(c, env_, written) ==
  CASE mode = "file"      -> disk = "whole" /\ c = file /\ ~env_ /\ ~written
    [] mode = "env"       -> c = env /\ env_ /\ ~written
    [] mode = "writeback" ->
         \/ disk = "whole" /\ c = file /\ ~env_ /\ ~written
         \/ disk = "torn" /\ c = env /\ env_ /\ ~written
         \/ /\ disk = "absent"
            /\ ValidateConfig(env)
            /\ c = env
            /\ env_ # written

Start ==
  /\ ~up
  /\ \E c \in {file, env}, env_ \in BOOLEAN, written \in BOOLEAN :
       /\ loadConfig(c, env_, written)
       /\ ValidateConfig(c)
       /\ Install(NormalizeCredentials(c))
       /\ fromEnv' = env_
       /\ IF written THEN Write(c) ELSE KeepFile
  /\ up' = TRUE
  /\ UNCHANGED <<mode, env, failures, changes, told, dropped>>

\* NewApp answers an error and the program exits, to be started again.
StartFails ==
  /\ ~up
  /\ \/ mode = "file" /\ disk # "whole"
     \/ \E c \in {file, env}, env_ \in BOOLEAN, written \in BOOLEAN :
          loadConfig(c, env_, written) /\ ~ValidateConfig(c)
  /\ UNCHANGED storeVars

StoreInit(c, m) ==
  /\ mode = m
  /\ env = NormalizeCredentials(c)
  /\ disk = IF m = "file" THEN "whole" ELSE "absent"
  /\ file = IF m = "file" THEN Persisted(c) ELSE EmptyConfig
  /\ up = FALSE
  /\ cfg = EmptyConfig
  /\ fromEnv = FALSE
  /\ keyMap = {}
  /\ accMap = << >>
  /\ failures = 0
  /\ changes = 0
  /\ told = FALSE /\ dropped = FALSE
=============================================================================
