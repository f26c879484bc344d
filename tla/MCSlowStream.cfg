\* Time for a stream to outlive MaxAge while no wait of it reaches Silence.
CONSTANTS
  Sessions = {s1}
  Requests = {r1, r2}
  SessionOf <- MCSessionOf
  NoKey = NoKey
  MaxHistory = 2
  MaxAge = 3
  Silence = 2
  MaxTokens = 2
  MaxClock = 3
SPECIFICATION Spec
INVARIANTS
  StreamKeepsSession
CHECK_DEADLOCK FALSE
