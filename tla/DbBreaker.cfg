\* Three callers: a probe, a call from before the outage, and one more. One of
\* them can be interrupted, and the third to come finds no connection free.
CONSTANTS
  Callers = {c1, c2, c3}
  Interruptible = {c1}
  Cooldown = 2
  PoolSize = 2
SPECIFICATION FairSpec
INVARIANTS
  ProbingIsJustified
PROPERTIES
  Recovers
