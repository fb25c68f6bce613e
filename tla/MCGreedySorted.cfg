SPECIFICATION Spec
CONSTANTS
  Requests = {r1, r2, r3}
  MaxSector = 4
  MaxNr = 2
  IntHalf = 8
  NULL = NULL
INVARIANT ListsSorted
