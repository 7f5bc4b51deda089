SPECIFICATION Spec
CONSTANTS
  Blocks = {p1}
  Viewers = {v1}
  Ranges = {{}, {p1}}
  HasGenerator = TRUE
  StreamingEnabled = TRUE
  RetryWeight = 100
  RetryCap = 1000
  MaxEdits = 2
  MaxLoadTasks = 1
  MaxLoadErrors = 0
  MaxLoadPanics = 0
  MaxGeneration = 2
  MaxErrors = 0
INVARIANTS NoEditIsLost
