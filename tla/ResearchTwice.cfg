\* The setting the repository ships: one extra round.
CONSTANTS
  Sources = {s1, s2, s3}
  TopK = 2
  Searches = 2
  MaxRounds = 1
SPECIFICATION ResearchSpec
INVARIANTS
  StoredOnce
CHECK_DEADLOCK FALSE
