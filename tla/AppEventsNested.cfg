SPECIFICATION Spec
CONSTANTS
  Windows = {w1}
  Blocks = {b1, b2}
  NoBlock = NoBlock
  MinMsg = 1
  MaxMsg = 2
  MaxEvents = 1
  MaxDepth = 2
SYMMETRY BlockSymmetry
INVARIANT DestroyedHoldNothing
PROPERTY ImplementsEventMap
CHECK_DEADLOCK FALSE
