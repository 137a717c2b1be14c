SPECIFICATION Spec

CONSTANTS
  a1 = a1
  a2 = a2
  a3 = a3
  r1 = r1
  r2 = r2
  r3 = r3
  r4 = r4
  NoAccount = NoAccount
  Ids = {a1, a2, a3}
  Requests = {r1, r2, r3}
  Settings <- Tight
  Admins = {m1}
  InitAccounts <- TwoAccounts
  Targets = {NoAccount, a2}
  Exclusions = {{}}
  Cancellable = {r1, r2, r3}
  Bannable = {a1}
  MaxAdminOps = 1

SYMMETRY Symmetry

INVARIANTS
  NoSlotLeak
  QueueFollowsStore

CHECK_DEADLOCK FALSE
