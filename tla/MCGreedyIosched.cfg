SPECIFICATION Spec
CONSTANTS
  Requests = {r1, r2, r3}
  MaxSector = 4
  MaxNr = 2
  IntHalf = 2
  NULL = NULL
SYMMETRY RequestSymmetry
INVARIANTS
  TypeOK
  LinkedOnce
  NoBugOn
PROPERTIES
  PoolSpec
