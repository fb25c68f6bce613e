SPECIFICATION Spec
CONSTANTS
  t1 = t1
  t2 = t2
  t3 = t3
  Tasks = {t1, t2, t3}
  TaskDir <- TwoSync
  Sizes = {2, 3}
  NrBatching = 1
  ElvPriv = {FALSE}
  MaxResize = 1
SYMMETRY SameDir
INVARIANTS FullExact NoLostWakeup CongestionHysteresis
CHECK_DEADLOCK FALSE
