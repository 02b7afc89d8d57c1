SPECIFICATION Spec
CONSTANTS
  Windows = {w1}
  Blocks = {b1}
  NoBlock = NoBlock
  MinMsg = 1
  MaxMsg = 1
  MaxEvents = 1
  MaxDepth = 2
INVARIANT OnceRunsOnce
CHECK_DEADLOCK FALSE
