SPECIFICATION TreeSpec
CONSTANTS
  MaxItems = 5
  MaxLevel = 4
  Ids = {1}
  MaxNested = 1
INVARIANT SubtreesTogether
CHECK_DEADLOCK FALSE
