SPECIFICATION TreeSpec
CONSTANTS
  MaxItems = 3
  MaxLevel = 1
  Ids = {1, 2, 3}
  MaxNested = 2
CONSTRAINT ItemToSelect
INVARIANT EveryItemNamed
CHECK_DEADLOCK FALSE
