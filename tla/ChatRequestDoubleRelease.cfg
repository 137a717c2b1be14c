SPECIFICATION Spec

CONSTANTS
  a1 = a1
  a2 = a2
  a3 = a3
  r1 = r1
  r2 = r2
  NoAccount = NoAccount
  Ids = {a1}
  Requests = {r1, r2}
  Settings <- Single
  Configured <- OneAccount
  InitMarked = {}
  Targets = {NoAccount}
  Cancellable = {}
  MaxAttempts = 1
  MaxRetries = 1
  Streaming = {}
  Silent = {}

INVARIANTS
  HoldersWithinLimit
