SPECIFICATION Spec
CONSTANTS
  NULL = NULL
  HASHMAP_SIZE_MIN = 8
  Devices = {5, 200}
  ClassesOf <- MCClassesOf
  v1 = v1
  v2 = v2
  Values = {v1, v2}
  Uninit = Uninit
  DevHash <- MCDevHash
  AttrHash <- MCAttrHash
  DevSlots = 4
  AttrSlots = 2
  Files <- MCFiles
  Unknown = {5}
  SignedChar = TRUE
  Changing <- MCChanging
  MaxChanges = 1
  Requests <- MCRequests
  Lines <- MCLines
  Ids <- MCIds
  MaxTyped = 1
INVARIANTS
  StoreIsLastReport
  SettledStoreAgrees
  OneResultEach
PROPERTIES
  NothingUnwrittenIsListed
  MessagesGoOut
CHECK_DEADLOCK FALSE
