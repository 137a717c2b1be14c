SPECIFICATION Spec

CONSTANTS
  e1 = e1
  e2 = e2
  e3 = e3
  r1 = r1
  r2 = r2
  NoEntry = NoEntry
  EntryIds = {e1, e2, e3}
  Requests = {r1, r2}
  Limits = {0, 1, 2}
  DefaultLimit = 2
  TicksPerMilli = 2
  MaxClock = 5

SYMMETRY Symmetry

PROPERTIES
  IsDurable

INVARIANTS
  DeletedStaysDeleted
  OneEntryPerRequest
  RunningEntriesAreLive
  NotModifiedIsTrue

