SPECIFICATION Spec
CONSTANTS
  b1 = b1
  b2 = b2
  b3 = b3
  b4 = b4
  Requests = {r1, r2}
  Bios = {b1, b2, b3, b4}
  PlugBios = {b2, b4}
  BypassBios = {b4}
  BioPos <- Positions
  BioLen <- Lengths
  MaxNr = 4
  MaxPlug = 2
  Depth = 1
  MaxPC = 1
  IntHalf = 2
  NULL = NULL
SYMMETRY RequestSymmetry
INVARIANTS
  OneHome
  SortedCount
  HashExact
  CachedPointersLive
  InFlightExact
  BiosTile
PROPERTIES
  StartedNotPassed
CHECK_DEADLOCK FALSE
