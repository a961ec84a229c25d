SPECIFICATION LibrarySpec
CONSTANTS
  NULL = NULL
  \* async
  Timers = {t1, t2}
  Delays = {1, 2}
  MaxTime = 4
  MaxRuns = 2
  \* queue
  Items = {i1, i2, i3}
  MaxPushes = 4
  \* map
  k1 = k1
  k2 = k2
  k3 = k3
  k4 = k4
  Keys = {k1, k2, k3, k4}
  Data = {d1, d2}
  HASHMAP_SIZE_MIN = 4
  Hashes <- MCHashes
  Initial = 1
  \* conf
  Object = Object
  Leaves = {1, 2}
  Type <- MCType
  Fields = {"a", "b", "x"}
  Names = {"a"}
  Paths <- MCPaths
  Sets <- MCSets
  Parts <- MCParts
  Refused = {}
  FactoryTree <- MCFactory
  FlushFails = FALSE
  MaxOps = 1
  \* monitor
  Files = {p1, p2}
  MaxFiles = 3
  MaxAdded = 4
  \* buffer
  Bytes = {1, 2, 3, 4}
  Chunks <- MCChunks
  MinSize = 2
  MaxLens = {0, 3}
  Room = 4
  MaxBuffers = 3
INVARIANTS
  CopiesWhatIsDue
  ListIsDeque
  ChangesAreTold
  WatcherIsAtPath
PROPERTIES
  OwnTimeoutOnly
  ImplementsDictionary
  WalkSeesAll
  RestartRestores
  AllIsTaken
CHECK_DEADLOCK FALSE
