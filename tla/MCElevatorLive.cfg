SPECIFICATION FairSpec
CONSTANTS
  b1 = b1
  b2 = b2
  b3 = b3
  b4 = b4
  Requests = {r1, r2}
  Bios = {b2, b3, b4}
  PlugBios = {b3, b4}
  BypassBios = {b4}
  BioPos <- Positions3
  BioLen <- Lengths3
  MaxNr = 4
  MaxPlug = 1
  Depth = 1
  MaxPC = 0
  IntHalf = 2
  NULL = NULL
PROPERTY EveryBioEnds
CHECK_DEADLOCK FALSE
