SPECIFICATION TwoSpec
CONSTANTS
  p1 = p1  p2 = p2  v1 = v1  v2 = v2
  Blocks = {p1, p2}
  Viewers = {v1, v2}
  Ranges <- Overlapping
  HasGenerator = TRUE
  StreamingEnabled = TRUE
  RetryWeight = 100
  RetryCap = 1000
  MaxEdits = 0
  MaxLoadTasks = 2
  MaxLoadErrors = 0
  MaxLoadPanics = 1
  MaxGeneration = 0
  MaxErrors = 0
INVARIANTS ViewersExact EditsAreKept LoadUnderWay
PROPERTIES ViewedStays ViewedGetsResident UnviewedIsUnloaded
