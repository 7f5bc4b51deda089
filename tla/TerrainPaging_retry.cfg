SPECIFICATION FairSpec
CONSTANTS
  Blocks = {p1}
  Viewers = {v1}
  Ranges = {{}, {p1}}
  HasGenerator = TRUE
  StreamingEnabled = TRUE
  RetryWeight = 100
  RetryCap = 1000
  MaxEdits = 0
  MaxLoadTasks = 2
  MaxLoadErrors = 1
  MaxLoadPanics = 0
  MaxGeneration = 0
  MaxErrors = 0
PROPERTIES OutOfRangeIsUnloaded
