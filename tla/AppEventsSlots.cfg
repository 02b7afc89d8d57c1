SPECIFICATION Spec
CONSTANTS
  Windows = {w1}
  Blocks = {b1}
  NoBlock = NoBlock
  MinMsg = 1
  MaxMsg = 3
  MaxEvents = 2
  MaxDepth = 1
INVARIANTS
  TypeOK
  UsedCountsSlots
  OneSlotPerMessage
CHECK_DEADLOCK FALSE
