SPECIFICATION AnySpec
CHECK_DEADLOCK FALSE
CONSTANTS
  PageUnits = 10
  MaxPages = 1
  Sizes = {8, 100}
  Resizes = {}
  Aligns = {}
  Writes = FALSE
  Quota = 0
INVARIANTS LiveApart
