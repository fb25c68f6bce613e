SPECIFICATION Spec
CONSTANTS
  FifoEntries = 12
  UserEntries <- DrawEntries
  MaxCalls = 6
  NumBufs = 3
  MaxStarts = 3
  Restart = FALSE
  SMP = FALSE
  CallsWhileBusy = FALSE
CHECK_DEADLOCK FALSE
INVARIANTS TransfersAsStarted
PROPERTIES CommandQueueSpec FlushDrains EveryStartTransferred CallsReturn
