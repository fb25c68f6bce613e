SPECIFICATION Spec
CONSTANTS
  Callers = {c1, c2, c3}
  KillCallers = {c1, c2}
  NoOne = NoOne
CHECK_DEADLOCK FALSE
INVARIANTS ReleasedOnce NoUseAfterFree NoStrayStore LeaderKept
PROPERTIES ReleasedIsFreed
