\* Two questions and a redo on one session that keeps two exchanges.
CONSTANTS
  Sessions = {s1}
  Requests = {r1, r2, redo}
  SessionOf <- MCSessionOf
  Redo = {redo}
  NoKey = NoKey
  MaxHistory = 4
  MaxAge = 1
  MaxClock = 1
SPECIFICATION FairSpec
INVARIANTS
  HistoryPaired
  HistoryIsCommitted
PROPERTIES
  SessionFreed
CHECK_DEADLOCK FALSE
