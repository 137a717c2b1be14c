SPECIFICATION FairSpec

CONSTANTS
  a1 = a1
  a2 = a2
  a3 = a3
  r1 = r1
  r2 = r2
  NoAccount = NoAccount
  Ids = {a1, a2, a3}
  Requests = {r1, r2}
  Settings <- Single
  Configured <- OneOrThree
  InitMarked = {}
  Targets = {NoAccount, a2}
  Cancellable = {r2}
  MaxAttempts = 2
  MaxRetries = 1
  Streaming = {r2}
  Silent = {a1, a2}

INVARIANTS
  NoSlotLeak
  CallsUseHeldAccount
  AccountsAreTriedOnce

PROPERTIES
  AdmittedRequestsEnd
  EveryStepCounts

ACTION_CONSTRAINT OneOfThree

CHECK_DEADLOCK FALSE
