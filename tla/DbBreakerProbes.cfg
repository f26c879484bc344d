\* Nobody is interrupted: a late failure alone, with a connection for everyone, admits the second probe.
CONSTANTS
  Callers = {c1, c2, c3}
  Interruptible = {}
  Cooldown = 1
  PoolSize = 3
SPECIFICATION Spec
INVARIANTS
  SingleProbe
