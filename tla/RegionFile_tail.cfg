SPECIFICATION Spec
CONSTANTS
  Blocks = {a, b}
  SectorSize = 3
  HeaderTail = 1
  Sizes = {2, 3, 4}
  MaxSectorCount = 2
  MaxSaves = 4
  MaxCrashes = 0
INVARIANTS SavedBlocksReadBack
CHECK_DEADLOCK FALSE
