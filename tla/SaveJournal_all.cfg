SPECIFICATION FairSpec
CONSTANTS
  Keys = {k1, k2}
  MaxShutdownSaveAttempts = 2
  MaxGeneration = 3
  MaxErrors = 2
  MaxPanics = 1
  ErrorsMayStore = TRUE
INVARIANTS OneSavePerBlock NothingIsStranded NewestIsHeld
PROPERTIES ImplementsWriteBack EveryUnloadIsSaved ShutdownReturns
CHECK_DEADLOCK FALSE
