SPECIFICATION Spec

CONSTANTS
  NoAccount = NoAccount
  i1 = i1
  i2 = i2
  r1 = r1
  r2 = r2
  f1 = f1
  f2 = f2
  Ids = {i1, i2}
  Requests = {r1, r2}
  Settings <- MCSettings
  InitAccounts <- MCAccounts
  Files = {f1, f2}
  MaxAttempts <- MCMaxAttempts
  MaxPolls = 1
  Kind <- MCKind
  MaxInlineFiles = 2
  InlineConcurrency = 2

INVARIANTS
  ReleasedOnce
  UploadsEndFirst
  NoSlotLeak
  CallsUseHeldAccount

PROPERTIES
  PreparesEnd

CHECK_DEADLOCK FALSE
