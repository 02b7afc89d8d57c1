SPECIFICATION Spec
CONSTANTS
  b = b
  c = c
  d = d
  Names = {"a", "A", b, c, d}
  Blank = ""
  Fold <- Upper
  MaxItems = 3
  Added = {"a", "A", b, c, d}
  Unchecked = {"", "A"}
  MaxClears = 1
SYMMETRY Others
INVARIANTS
  TypeOK NoTwins MenuShowsList UniqueIds
PROPERTIES
  SaveComplete
  ImplementsRecentFiles
