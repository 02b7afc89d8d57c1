SPECIFICATION AllSpec
CONSTANTS
  PageLength = 2
  MaxRecords = 3
  MaxChanges = 1
  MaxDepth = 2
  Filters = {{}, {2}}
  Goals = {3}
  Shared = TRUE
  MaxItems = 4
  MaxLevel = 3
  Ids = {1, 2, 3}
  MaxNested = 2
  Controls = {c1, c2}
  MaxPages = 3
  MaxBlocks = 2
  Windows = {1, 2}
  Keys = {1}
  IdSet = {1, 2}
  Intervals = {10, 20}
  MaxControls = 2
  MaxQueue = 2
  Parts = {"browse", "tree", "tab", "registry"}
INVARIANTS
  TypesOK RowsMapped PageInOrder PointerKept EditWritesItsRecord EditLocked
  MapFollowsTree SubtreesTogether EntriesBelong
  OnlyThePage PageComplete
  MessageFindsControl EnabledTicks KeysOfFocus KeysReachable
PROPERTIES DeletesSelected MovesAsCursor HiddenStays
CHECK_DEADLOCK FALSE
