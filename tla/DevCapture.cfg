SPECIFICATION Spec

CONSTANTS
  r1 = r1
  a1 = a1
  a2 = a2
  Clients = {r1}
  Capturers = {a1}
  Savers = {a2}
  Uploaders = {r1}
  Limit = 2
  MaxCalls <- UploadAndRetry
  MaxAttempts = 1
  Continued = {a1}
  MaxRounds = 1
  MaxTime = 1
  MaxClears = 1

INVARIANTS
  RoundsInOrder
  SavedIsThere

PROPERTIES
  CapturedIsWhole

CHECK_DEADLOCK FALSE
