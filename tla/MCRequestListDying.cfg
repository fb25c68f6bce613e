SPECIFICATION FairSpec
CONSTANTS
  t1 = t1
  t2 = t2
  t3 = t3
  Tasks = {t1, t2, t3}
  TaskDir <- AllSync
  Sizes = {1, 2}
  NrBatching = 1
  ElvPriv = {TRUE}
  MaxResize = 0
INVARIANTS CountsExact
PROPERTIES DyingFreesSleepers
CHECK_DEADLOCK FALSE
