SPECIFICATION Spec
CONSTANTS
  RegionSize = 4
  SlotsPerAxis = 2
  RegionDepths <- DefaultRegionDepths
  BlockDepths <- TerrainDepths
  StreamBlocks <- MCStreamBlocks
  StreamLods = {0, 1}
  MaxStreamSaves = 3
INVARIANTS SavesAreAccepted
CHECK_DEADLOCK FALSE
