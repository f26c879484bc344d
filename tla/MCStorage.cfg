\* PDF texts: an upload, its replacement, one that cannot be read, a delete, a
\* reader and an asker: every pair of operations can overlap. Guests: one more
\* session than fits, one more turn than is kept. Formulas: two images and a
\* directory of one. Backups: a file kept of each kind, one that is damaged.
CONSTANTS
  Uploads = {v1, v2, bad}
  Corrupt = {bad}
  Deletes = {d1}
  Readers = {q1}
  Askers = {a1, a2}
  None = None
  Guests = {g1, g2, g3}
  Ttl = 2
  MaxSessions = 2
  MaxTurns = 2
  GuestHorizon = 3
  Readings = {u1, u2, u3}
  KeepImages = 1
  MaxImages = 2
  Workers = {w1, w2}
  Pipeline = pipeline
  MaxPools = 3
  NoPool = none
  Operators = {o1, o2}
  Keep = 1
  Broken = broken
  MaxVersion = 1
  MaxStamp = 2
SPECIFICATION MCSpec
INVARIANTS
  FreshUnlessExposed
  OneOnGpu
  NewestImagesStay
  NoPoolLost
  GoodBackups
PROPERTIES
  AnswersAreCurrent
  GuestMemory
CHECK_DEADLOCK FALSE
