CONSTANTS
  Sessions = {s1}
  Requests = {r1, r2}
  SessionOf <- MCSessionOf
  NoKey = NoKey
  MaxHistory = 2
  MaxAge = 2
  Silence = 1
  MaxTokens = 1
  MaxClock = 2
SPECIFICATION FairSpec
INVARIANTS
  OneWriter
  HistoryIsCommitted
  AbandonedNeverSaved
  HeldByTheLiving
PROPERTIES
  SessionFreed
CHECK_DEADLOCK FALSE
