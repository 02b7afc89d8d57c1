SPECIFICATION BrowseSpec
CONSTANTS
  PageLength = 2
  MaxRecords = 3
  MaxChanges = 1
  MaxDepth = 2
  Filters = {{}, {2}}
  Goals = {3}
  Shared = FALSE
INVARIANT ValueIsSelected
CHECK_DEADLOCK FALSE
