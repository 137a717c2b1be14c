-------------------------- MODULE MCAdministration --------------------------
(***************************************************************************)
(* An instance of Administration for TLC.                                  *)
(***************************************************************************)
EXTENDS Administration, TLC

CONSTANTS k1, k2, n1, e1, m1, w1, w2, p1, a1, a2

MCAccount(email, mobile, password, proxy) ==
  [email |-> email, mobile |-> mobile, password |-> password, token |-> Empty,
   proxy |-> proxy]

MCAccountInputs ==
  {MCAccount(e1, m1, Empty, p1), MCAccount(Empty, m1, w2, Empty)}

MCModes(s) ==
  IF s \in {"keys", "accounts", "settings"} THEN {"file", "env", "writeback"}
  ELSE {"file", "env"}

MCInitial(s) ==
  CASE s = "keys"     -> [EmptyConfig EXCEPT !.keys = {k1}]
    [] s = "accounts" -> [EmptyConfig EXCEPT !.proxies = {p1},
                               !.accounts = <<MCAccount(e1, Empty, w1, p1)>>]
    [] s = "settings" -> [EmptyConfig EXCEPT
                               !.accounts = <<MCAccount(e1, Empty, w1, Empty)>>]
    [] s = "sync"     -> [EmptyConfig EXCEPT !.inflight = 1]
    [] s = "sessions" -> EmptyConfig

MCImports(s) ==
  CASE s = "keys"     -> {[EmptyConfig EXCEPT !.api = (k1 :> n1), !.keys = {k1}]}
    [] s = "accounts" -> {[EmptyConfig EXCEPT !.accounts =
                                <<MCAccount(Empty, m1, w2, p1), MCAccount(e1, Empty, w1, Empty),
                                  MCAccount(Empty, m1, w2, Empty)>>]}
    [] s = "settings" -> {[EmptyConfig EXCEPT !.inflight = 2]}
    [] s = "sync"     -> {[EmptyConfig EXCEPT !.global = 2]}
    [] s = "sessions" -> {}

Symmetry == Permutations(Admins)
=============================================================================
