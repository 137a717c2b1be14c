--------------------------- MODULE AdminSessions ---------------------------
(***************************************************************************)
(* internal/auth/admin.go: the JSON web tokens of administrators, which    *)
(* the configuration decides about: its password hash may sign them, and   *)
(* its JWTValidAfterUnix ends those dated at or before it.  A login and a  *)
(* password change read the clock and the store at several moments.        *)
(*                                                                         *)
(* A password stands for its hash; Empty is the key of the environment     *)
(* (DS2API_ADMIN_KEY), which counts until a password is set.               *)
(***************************************************************************)
EXTENDS ConfigAdmin

CONSTANTS
  MaxClock,  \* seconds
  Lifetime,  \* of a session, in seconds
  MaxTokens  \* sessions after which no login is begun

ASSUME SessionsAssumption == MaxClock \in Nat /\ Lifetime \in Nat /\ MaxTokens \in Nat

VARIABLES
  clock,     \* time.Now().Unix()
  envSecret, \* DS2API_JWT_SECRET is set
  sessions   \* the tokens issued

sessionVars == <<clock, envSecret, sessions>>

\* asked, hash and cutoff are history: when the token was issued, and under
\* which password and cutoff.
Token == [iat : Nat, secret : Text(Passwords \union {"env"}),
          asked : Nat, hash : Text(Passwords), cutoff : Nat]

SessionsTypeOK ==
  /\ clock \in 1..MaxClock
  /\ envSecret \in BOOLEAN
  /\ sessions \subseteq Token

SessionsInit ==
  /\ clock = 1
  /\ envSecret \in BOOLEAN
  /\ sessions = {}

jwtSecret == IF envSecret THEN "env" ELSE cfg.hash

\* Mutant: a token of the second of the cutoff is still accepted.
VerifyJWT_SameSecond(t) ==
  /\ t.secret = jwtSecret
  /\ clock <= t.iat + Lifetime
  /\ cfg.after > 0 => t.iat >= cfg.after

VerifyJWT(t) ==
  /\ t.secret = jwtSecret
  /\ clock <= t.iat + Lifetime
  /\ cfg.after > 0 => t.iat > cfg.after

\* VerifyAdminCredential, the first step of a login, with the right password.
login(a) ==
  /\ Cardinality(sessions) < MaxTokens
  /\ Read(a, "login", cfg.hash)
  /\ UNCHANGED sessionVars

\* A token issued in the second of a cutoff is dated one second later.
CreateJWT(a) ==
  /\ up /\ desk[a].at = "login"
  /\ desk' = [desk EXCEPT ![a] =
       [at |-> "sign",
        old |-> [iat |-> IF cfg.after >= clock THEN cfg.after + 1 ELSE clock,
                 asked |-> clock, cutoff |-> cfg.after]]]
  /\ UNCHANGED <<storeVars, syncVars, auditVars, sessionVars>>

signHS256(a) ==
  /\ up /\ desk[a].at = "sign"
  /\ sessions' = sessions \union
       {[iat |-> desk[a].old.iat, asked |-> desk[a].old.asked,
         cutoff |-> desk[a].old.cutoff, secret |-> jwtSecret, hash |-> cfg.hash]}
  /\ Done(a)
  /\ UNCHANGED <<storeVars, syncVars, auditVars, clock, envSecret>>

\* updateSettingsPassword reads the clock before it takes the lock.
askPassword(a) == Read(a, "password", clock) /\ UNCHANGED sessionVars

updateSettingsPassword(a) ==
  /\ up /\ desk[a].at = "password"
  /\ \E p \in Passwords : Update([cfg EXCEPT !.hash = p, !.after = desk[a].old], TRUE)
  /\ Done(a)
  /\ UNCHANGED <<syncVars, auditVars, sessionVars>>

\* An import brings a password, without a cutoff of its own.
importPassword(a) ==
  /\ \E p \in Passwords \ {cfg.hash} : configImport(a, [EmptyConfig EXCEPT !.hash = p])
  /\ UNCHANGED sessionVars

Tick ==
  /\ clock < MaxClock
  /\ clock' = clock + 1
  /\ UNCHANGED <<storeVars, adminVars, envSecret, sessions>>

Restart ==
  /\ Start
  /\ UNCHANGED <<adminVars, sessionVars>>
=============================================================================
