--------------------------- MODULE Administration ---------------------------
(***************************************************************************)
(* The administration as a whole: administrators whose requests interleave *)
(* over one store, the pool that notes the account it served, saves that   *)
(* fail, crashes and restarts.                                             *)
(*                                                                         *)
(* The requests fall into areas that touch different sections of the       *)
(* configuration; a behaviour stays in one area, so that an instance can   *)
(* be explored to the end.  An import and the store itself are in each.    *)
(***************************************************************************)
EXTENDS AdminSessions

CONSTANTS
  Areas,            \* of {"keys", "accounts", "settings", "sync", "sessions"}
  Modes(_),         \* the modes of the store it is explored in
  Initial(_),       \* the configuration an area starts from
  Imports(_)        \* what is imported in an area

\* A deployment begins with a configuration that can be started from, in which no
\* account occurs twice; loading it, and reading an import, clears the tokens.  An
\* import of a password is importPassword.
ASSUME AdministrationAssumption ==
  /\ \A s \in Areas :
       /\ Modes(s) \subseteq {"file", "env", "writeback"}
       /\ Initial(s) \in Config /\ ValidateConfig(Initial(s)) /\ Initial(s).after <= 1
       /\ Initial(s).accounts \in Seq(NewAccount) /\ DistinctAccounts(Initial(s).accounts)
       /\ \A i \in DOMAIN Initial(s).accounts : Identifier(Initial(s).accounts[i]) # Empty
       /\ \A c \in Imports(s) : c \in Config /\ c.accounts \in Seq(NewAccount)
  /\ Imports("sessions") = {}

VARIABLE area

vars == <<storeVars, adminVars, sessionVars, area>>

Init ==
  /\ area \in Areas
  /\ \E m \in Modes(area) : StoreInit(Initial(area), m)
  /\ AdminInit
  /\ SessionsInit
  /\ (area # "sessions" => envSecret)

KeyRequest(a) ==
  \/ addKey(a)
  \/ updateKey(a)
  \/ deleteKey(a)
  \/ replaceKeys(a)
  \/ importKeys(a)

AccountRequest(a) ==
  \/ addAccount(a)
  \/ updateAccount(a)
  \/ deleteAccount(a)
  \/ importAccounts(a)
  \/ snapshotAccounts(a)
  \/ replaceAccounts(a)
  \/ addProxy(a)
  \/ updateProxy(a)
  \/ deleteProxy(a)
  \/ updateAccountProxy(a)
  \/ readAccount(a)
  \/ storeToken(a)

SettingsRequest(a) ==
  \/ checkSettings(a)
  \/ applySettings(a)
  \/ \E i \in DOMAIN cfg.accounts : poll(Identifier(cfg.accounts[i]))

SyncRequest(a) ==
  \/ exportConfig(a)
  \/ upsertEnv(a)
  \/ SetVercelSync(a)
  \/ checkSettings(a)
  \/ applySettings(a)

SessionRequest(a) ==
  \/ login(a)
  \/ CreateJWT(a)
  \/ signHS256(a)
  \/ askPassword(a)
  \/ updateSettingsPassword(a)
  \/ importPassword(a)

Request(a) ==
  \/ area = "keys"     /\ KeyRequest(a)      /\ UNCHANGED sessionVars
  \/ area = "accounts" /\ AccountRequest(a)  /\ UNCHANGED sessionVars
  \/ area = "settings" /\ SettingsRequest(a) /\ UNCHANGED sessionVars
  \/ area = "sync"     /\ SyncRequest(a)     /\ UNCHANGED sessionVars
  \/ area = "sessions" /\ SessionRequest(a)
  \/ \E c \in Imports(area) : configImport(a, c) /\ UNCHANGED sessionVars
  \/ readConfig(a) /\ UNCHANGED sessionVars

Next ==
  /\ \/ \E a \in Admins : Request(a)
     \/ area = "sessions" /\ Tick
     \/ Crash /\ Forget /\ UNCHANGED sessionVars
     \/ Restart
     \/ StartFails /\ UNCHANGED <<adminVars, sessionVars>>
  /\ UNCHANGED area

Spec == Init /\ [][Next]_vars

-----------------------------------------------------------------------------
(***************************************************************************)
(* Properties.                                                             *)
(***************************************************************************)

\* The variables hold values of their types.
TypeOK ==
  /\ StoreTypeOK
  /\ SessionsTypeOK
  /\ \A a \in Admins : desk[a].at \in
       {"idle", "config", "test", "settings", "export", "uploaded", "login", "sign", "password"}
  /\ latest \subseteq Admins /\ astray \in BOOLEAN
  /\ unchecked \in BOOLEAN

\* What was answered as done is in the file: if memory and file differ, then the
\* last failure was answered, or was dropped by a caller whose change is not
\* among what administrators ask for (a token, the account polled last, the
\* record of a synchronisation); a dropped failure may have torn the file.
DoneIsSaved ==
  LET Asked(c) == [Persisted(c) EXCEPT !.polled = Empty, !.sync = << >>]
  IN  up /\ ~fromEnv /\ ~told =>
        IF dropped THEN disk = "whole" => Asked(file) = Asked(cfg)
        ELSE disk = "whole" /\ file = Persisted(cfg)

\* The program can start from what it saved: the only requests that can leave a
\* configuration it refuses are the lists of accounts that nobody validates and
\* settings that were checked against limits that changed since.
StartsAgain == disk = "whole" /\ ~unchecked => ValidateConfig(file)

\* A token is stored with the account that logged in, whatever was deleted,
\* reordered or imported while the login was under way.
TokenOfItsAccount ==
  \A i \in DOMAIN cfg.accounts : cfg.accounts[i].token \in Text({Identifier(cfg.accounts[i])})

\* A password stays with the account it was submitted for, whatever lists were
\* put in with blank passwords and merged with accounts of an earlier moment.
PasswordOfItsAccount == Given(cfg.accounts) \subseteq given

\* What still names one account when lists and imports add accounts that a request
\* for one of them would refuse: no two accounts have one email, or have one
\* mobile and no email; the index leads from the identifier of each account to that
\* account, so that the token of a login is stored with the account that logged in;
\* an email leads handlers, which take the first account it matches, to its
\* account; and each account has its own token, and a password that was meant for
\* it.  A mobile may lead handlers to another account (see below).
AccountsAddressable ==
  /\ up => /\ DistinctAccounts(cfg.accounts)
           /\ \A i \in DOMAIN cfg.accounts :
                /\ Find(Identifier(cfg.accounts[i])) = i
                /\ cfg.accounts[i].email # Empty =>
                     Matching(cfg.accounts, cfg.accounts[i].email) = {i}
  /\ TokenOfItsAccount
  /\ PasswordOfItsAccount

\* What the documentation of the administration says: the account a request
\* changes or deletes is the one its path specifies by the identifier under which
\* the account is listed.  It does not hold: an account with an email and a mobile
\* is found first by the mobile that identifies another one, which a list or an
\* import keeps beside it.
IdentifiersReachTheirAccount ==
  up => \A i \in DOMAIN cfg.accounts :
          First(Matching(cfg.accounts, Identifier(cfg.accounts[i]))) = i

\* "synced" is true.  It only ever speaks of a configuration that the project has
\* held, whatever changes between an upload and its record, and whatever fails;
\* and the project holds that configuration now, unless an upload is not recorded
\* yet, or an upload or record was lost, or an overtaken upload recorded last.
SyncedIsTrue ==
  up /\ Synced(cfg) =>
    /\ cfg.sync \in uploaded
    /\ ~astray /\ (\A a \in Admins : desk[a].at # "uploaded") => remote = cfg.sync

\* The same without those exceptions.  It does not hold even if nothing fails: of
\* two synchronisations at a time, the one that uploads first may record last.
SyncedIsTheProject ==
  up /\ Synced(cfg) /\ (\A a \in Admins : desk[a].at # "uploaded") => remote = cfg.sync

\* Sessions and password.  A session just opened is good: as long as nobody
\* changes the secret or the cutoff it is accepted to its end, also in the
\* second of a password change.  And a password change ends the sessions before
\* it.  With a secret of the environment two exceptions are left: a session
\* opened after the second of the cutoff (an import or a restart changes the
\* password without one), and a session opened in the second of an earlier change,
\* which survives a change in that second.
SessionsFollowPassword ==
  \A t \in sessions : up =>
    /\ t.secret = jwtSecret /\ t.cutoff = cfg.after /\ clock <= t.asked + Lifetime
       => VerifyJWT(t)
    /\ VerifyJWT(t) /\ t.hash # cfg.hash =>
         /\ envSecret
         /\ \/ t.asked > cfg.after
            \/ t.asked = cfg.after /\ t.iat = t.asked + 1
=============================================================================
