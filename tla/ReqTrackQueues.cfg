SPECIFICATION TrackSpec
CONSTANTS
  Queues = {q1, q2}
  Recorded = 4
  WarmUp = 1
  HighWords = {"zero"}
INVARIANTS
  InBounds
CHECK_DEADLOCK FALSE
