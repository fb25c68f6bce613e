SPECIFICATION TrackFairSpec
CONSTANTS
  Queues = {q1}
  Recorded = 4
  WarmUp = 1
  HighWords = {"zero", "positive", "negative"}
INVARIANTS
  InBounds
  NoHoles
PROPERTIES
  TesterEnds
CHECK_DEADLOCK FALSE
