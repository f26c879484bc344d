\* One debug round; a container may be left behind while its successor runs.
\* Five versions: both files, the first load and an orphan's write can all
\* differ and a fresh one is still left.
CONSTANTS
  Versions = {v1, v2, v3, v4, v5}
  Nothing = Nothing
  Unread = Unread
  Containers = {k1, k2}
  None = None
  MaxDebug = 1
  Settings <- MCSettings
SPECIFICATION FairSpec
INVARIANTS
  ManifestDescribesState
  OneMoreAfterCancel
PROPERTIES
  DebugStartsAlike
  RunsAreBounded
  RequestEnds
