------------------------------- MODULE Config -------------------------------
(***************************************************************************)
(* internal/config: what a configuration holds, how it is normalised,      *)
(* validated and written out, and how the administration merges another    *)
(* one into it.  Lists of keys and proxies are sets (their order is not    *)
(* used), the list of accounts is a sequence.  Texts are model values; an  *)
(* empty one is Empty.  Sections whose only rule is a range or a trimmed   *)
(* text are left out.                                                      *)
(***************************************************************************)
EXTENDS Integers, Sequences, FiniteSets

CONSTANTS Empty, KeyIds, Names, Emails, Mobiles, Passwords, ProxyIds, MaxLimit

ASSUME ConfigAssumption ==
  /\ MaxLimit \in Nat
  /\ \A S \in {KeyIds, Names, Emails, Mobiles, Passwords, ProxyIds} : Empty \notin S
  /\ Emails \intersect Mobiles = {}

Text(S) == S \union {Empty}

Account == [email : Text(Emails), mobile : Text(Mobiles), password : Text(Passwords),
            token : Text(Emails \union Mobiles), proxy : Text(ProxyIds)]

NewAccount == {acc \in Account : acc.token = Empty}

\* api maps the structured keys to their names; keys is the legacy list.
\* inflight and global are AccountMaxInflight and GlobalMaxInflight, 0 if unset;
\* after is JWTValidAfterUnix; sync is VercelSyncHash, << >> or the one
\* configuration it was computed of.
Config ==
  [keys : SUBSET KeyIds, api : UNION {[K -> Text(Names)] : K \in SUBSET KeyIds},
   accounts : Seq(Account), proxies : SUBSET ProxyIds,
   inflight : 0..MaxLimit, global : 0..MaxLimit,
   polled : Text(Emails \union Mobiles), hash : Text(Passwords), after : Nat, sync : {<< >>}]

EmptyConfig ==
  [keys |-> {}, api |-> << >>, accounts |-> << >>, proxies |-> {}, inflight |-> 0,
   global |-> 0, polled |-> Empty, hash |-> Empty, after |-> 0, sync |-> << >>]

-----------------------------------------------------------------------------
Identifier(acc) == IF acc.email # Empty THEN acc.email ELSE acc.mobile

\* The elements of s at the given places, in their order.
Kept(s, places) ==
  [n \in 1..Cardinality(places) |->
     s[CHOOSE i \in places : Cardinality({j \in places : j <= i}) = n]]

DropInvalidAccounts(accs) == Kept(accs, {i \in DOMAIN accs : Identifier(accs[i]) # Empty})

ClearAccountTokens(accs) == [i \in DOMAIN accs |-> [accs[i] EXCEPT !.token = Empty]]

apiKeysFromStrings(keys, meta) ==
  [k \in keys |-> IF k \in DOMAIN meta THEN meta[k] ELSE Empty]

\* A mutation of one of the two lists is carried over to the other.
ReconcileCredentials(c, base) ==
  LET api == IF c.keys # base.keys /\ c.api = base.api
             THEN apiKeysFromStrings(c.keys, base.api) ELSE c.api
  IN  [c EXCEPT !.api = api, !.keys = DOMAIN api]

NormalizeCredentials(c) ==
  IF DOMAIN c.api # {} THEN [c EXCEPT !.keys = DOMAIN c.api]
  ELSE [c EXCEPT !.api = apiKeysFromStrings(c.keys, << >>)]

ValidateAccountProxyReferences(c) ==
  \A i \in DOMAIN c.accounts : c.accounts[i].proxy \in Text(c.proxies)

ValidateRuntimeConfig(inflight, global) ==
  inflight > 0 /\ global > 0 => inflight <= global

ValidateConfig(c) ==
  ValidateAccountProxyReferences(c) /\ ValidateRuntimeConfig(c.inflight, c.global)

\* What reading back a saved configuration gives: no tokens, and the runtime
\* section only if it holds a limit.
Persisted(c) ==
  NormalizeCredentials(
    [c EXCEPT !.accounts = DropInvalidAccounts(ClearAccountTokens(@)),
              !.polled = IF c.inflight > 0 \/ c.global > 0 THEN @ ELSE Empty])

\* computeSyncHash and syncHashForJSON: of the configuration without tokens and
\* synchronisation.
SyncHash(c) == <<[Persisted(c) EXCEPT !.sync = << >>]>>

-----------------------------------------------------------------------------
(***************************************************************************)
(* Merging lists.                                                          *)
(***************************************************************************)

\* The two kinds of key cannot be mistaken for one another.
accountDedupeKey(acc) ==
  IF acc.email # Empty THEN <<"email", acc.email>> ELSE <<"mobile", acc.mobile>>

DedupeKeys(accs) == {accountDedupeKey(accs[i]) : i \in DOMAIN accs}

DistinctAccounts(accs) ==
  \A i, j \in DOMAIN accs : i # j => accountDedupeKey(accs[i]) # accountDedupeKey(accs[j])

\* The places of the accounts that accs does not have.
NewPlaces(accs, incoming) ==
  {i \in DOMAIN incoming : /\ Identifier(incoming[i]) # Empty
                          /\ accountDedupeKey(incoming[i]) \notin DedupeKeys(accs)}

\* The incoming accounts that accs does not have, in order, each of them once.
AppendNew(accs, incoming) ==
  accs \o Kept(incoming,
    {i \in NewPlaces(accs, incoming) :
       \A j \in 1..(i - 1) : accountDedupeKey(incoming[j]) # accountDedupeKey(incoming[i])})

normalizeAndDedupeAccounts(accs) == AppendNew(<< >>, accs)

\* A key that has a name keeps it.
mergeAPIKeysPreferStructured(existing, incoming) ==
  [k \in DOMAIN existing \union DOMAIN incoming |->
     IF k \notin DOMAIN incoming THEN existing[k]
     ELSE IF k \notin DOMAIN existing \/ existing[k] = Empty THEN incoming[k]
     ELSE existing[k]]

accountMatchesIdentifier(acc, id) ==
  id # Empty /\ (acc.email = id \/ acc.mobile = id)

\* The places where an identifier is found; handlers use the first.
Matching(accs, id) == {i \in DOMAIN accs : accountMatchesIdentifier(accs[i], id)}

First(S) == CHOOSE i \in S : \A j \in S : i <= j

\* Mutant: a blank password is taken from the account at the same place before.
KeepPasswords_ByPlace(accs, old) ==
  [i \in DOMAIN accs |->
     IF accs[i].password = Empty /\ i \in DOMAIN old
     THEN [accs[i] EXCEPT !.password = old[i].password]
     ELSE accs[i]]

\* Blank passwords of a submitted list are taken from the accounts before.
KeepPasswords(accs, old) ==
  LET From(acc) == {i \in DOMAIN old : accountDedupeKey(old[i]) = accountDedupeKey(acc)}
  IN  [i \in DOMAIN accs |->
         IF accs[i].password = Empty /\ From(accs[i]) # {}
         THEN [accs[i] EXCEPT !.password = old[CHOOSE j \in From(accs[i]) :
                 \A k \in From(accs[i]) : k <= j].password]
         ELSE accs[i]]

Positive(n, old) == IF n > 0 THEN n ELSE old

\* configImport: merge adds, and overrides what the import sets; replace takes
\* everything from the import.
Imported(c, incoming, mode) ==
  IF mode = "replace"
  THEN [incoming EXCEPT !.accounts = normalizeAndDedupeAccounts(@), !.sync = c.sync]
  ELSE [c EXCEPT !.api = mergeAPIKeysPreferStructured(@, incoming.api),
                 !.accounts = AppendNew(@, incoming.accounts),
                 !.inflight = Positive(incoming.inflight, @),
                 !.global = Positive(incoming.global, @),
                 !.hash = IF incoming.hash # Empty THEN incoming.hash ELSE @,
                 !.after = Positive(incoming.after, @)]
=============================================================================
