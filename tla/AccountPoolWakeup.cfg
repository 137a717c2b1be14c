SPECIFICATION FairSpec

CONSTANTS
  a1 = a1
  a2 = a2
  a3 = a3
  r1 = r1
  r2 = r2
  r3 = r3
  r4 = r4
  NoAccount = NoAccount
  Ids = {a1, a2}
  Requests = {r1, r2, r3, r4}
  Settings <- Scarce
  Admins = {m1}
  InitAccounts <- TwoAccounts
  Targets = {NoAccount}
  Exclusions = {{}}
  Cancellable = {}
  Bannable = {}
  MaxAdminOps = 0

INVARIANTS
  NoLostWakeup

PROPERTIES
  WaitersAreServed
