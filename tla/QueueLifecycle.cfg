SPECIFICATION Spec
CONSTANTS
  Requests = {r1}
  Types = {noop, greedy}
  Builtin = noop
  MaxInstances = 2
  MaxSubmits = 2
  MaxRefs = 1
CHECK_DEADLOCK FALSE
INVARIANTS RequestsHaveScheduler BypassExact QuietAfterCleanup SchedulerInUse
PROPERTIES CleanupEnds
