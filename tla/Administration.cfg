SPECIFICATION Spec

CONSTANTS
  Empty = Empty
  k1 = k1
  k2 = k2
  n1 = n1
  e1 = e1
  m1 = m1
  w1 = w1
  w2 = w2
  p1 = p1
  a1 = a1
  a2 = a2
  KeyIds = {k1, k2}
  Names = {n1}
  Emails = {e1}
  Mobiles = {m1}
  Passwords = {w1, w2}
  ProxyIds = {p1}
  MaxLimit = 2
  MaxFailures = 1
  MaxChanges = 3
  Admins = {a1, a2}
  AccountInputs <- MCAccountInputs
  MaxSubmitted = 2
  MaxClock = 3
  Lifetime = 2
  MaxTokens = 1
  Areas = {"keys", "accounts", "settings", "sync", "sessions"}
  Modes <- MCModes
  Initial <- MCInitial
  Imports <- MCImports

SYMMETRY Symmetry

INVARIANTS
  DoneIsSaved
  StartsAgain
  
  SyncedIsTrue
  SessionsFollowPassword
