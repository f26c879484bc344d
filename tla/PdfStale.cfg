\* Two uploads and one asker, no delete.
CONSTANTS
  Uploads = {v1, bad}
  Corrupt = {bad}
  Deletes = {}
  Readers = {}
  Askers = {a1}
  None = None
SPECIFICATION Spec
INVARIANTS
  DerivedIsCurrent
CHECK_DEADLOCK FALSE
