SPECIFICATION Spec
CONSTANTS
  PageUnits = 8
  MaxPages = 3
  Sizes = {186, 248, 450}
  Resizes = {}
  Aligns = {}
  Writes = TRUE
  Quota = 20
INVARIANTS TypeOK LiveApart HeapTiles ListsSound FreeSound NeverFails
