\* Two requests on one session; the clock stands still, so no lease expires.
CONSTANTS
  Sessions = {s1}
  Requests = {r1, r2}
  SessionOf <- MCSessionOf
  Redo = {}
  NoKey = NoKey
  MaxHistory = 4
  MaxAge = 1
  MaxClock = 0
SPECIFICATION Spec
INVARIANTS
  NoLostTurn
CHECK_DEADLOCK FALSE
