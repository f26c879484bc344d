\* Leases: two sessions, three requests, an age limit below the clock's bound.
\* Admission: one client, a limit of two turns, so that the next one is refused.
CONSTANTS
  Keys = {k1, k2}
  Leases = {l1, l2, l3}
  NoKey = NoKey
  MaxAge = 2
  MaxClock = 4
  MaxGen = 4
  Clients = {c1}
  TurnLimit = 2
  RateLimit <- MCRates
  Window = 2
  Day = 3
  SessionLen = 3
  SweepEvery = 3
  Settings <- MCSettings
  Horizon = 4
  MaxRestarts = 1
  Deployments <- MCDeployments
SPECIFICATION MCSpec
INVARIANTS
  HoldersMatchShares
  WindowsHold
  RetryHonest
  ModelGuard
PROPERTIES
  OnlyExpiryTakesAway
  ImplementsMutex
