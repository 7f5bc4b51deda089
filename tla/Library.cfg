INIT LibraryInit
NEXT LibraryNext
CONSTANTS
  b1 = b1  b2 = b2  b3 = b3
  t1 = t1  t2 = t2  t3 = t3
  Blocks = {b1, b2, b3}
  SectorSize = 3
  HeaderTail = 1
  Sizes = {2, 4, 7}
  MaxSectorCount = 2
  MaxSaves = 4
  MaxCrashes = 1
  LockThreads = {t1, t2, t3}
  Paths = {b1}
  MaxDepth = 2
  Savers = {t1, t2}
  Loads = {t3}
  NextTasks = {b1}
  Places = {0, 1}
  Origin = 0
  Generations = 2
  MaxSlots = 2
  MaxAdds = 5
  Editors = {t1}
  Gatherers = {t2}
  Main = t3
  Lods = {0, 1}
  Positions = {0, 1}
  BlockSize = 2
  MaxOps = 3
  PoolThreads = {t1, t2}
  MaxExponent = 1
  AllocSizes = {1, 2, 3}
  CounterLimit = 16
  MaxAllocs = 3
  BlockSide = 2
  DataLods = {0, 1, 2}
  DataExtent = 8
  EditPoints = {0, 3, 7}
  Values = {2}
  Generated = 1
  DefaultVoxel = 0
  MaxDataOps = 4
  Dims = 2
  Buffers = {1, 2}
  Depths = {2, 4}
  BufferSizes <- MCBufferSizes
  AreaCorners <- MCCorners
  MaxWrites = 3
INVARIANTS FileReadsBack SharedVoxelsExact BatchSettles HandlesNameTheirEntry OctreeExact BlockingLocksExact PoolExact VolumeExact BuffersReadAsWritten CopiesAreExact GeometryExact SurfacesAreClosed GraphsAreExact FormatsReadBack ModelsAreMeshed
PROPERTIES LodsFollow
CHECK_DEADLOCK FALSE
