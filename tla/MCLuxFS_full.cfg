SPECIFICATION Spec
CONSTANTS
  MaxInodes = 4
  InodesPerBlock = 2
  DataBlocks = 2
  DirectBlocks = 1
  SectorSize = 3
  MaxPathDepth = 2
  Names = {na, nb}
  Values = {v, w}
  Offsets = {0, 1, 2}
  Lengths = {0, 1, 3, 4}
  MaxFaults = 0
  MaxCrashes = 1
  na = na
  nb = nb
  v = v
  w = w
  Paths <- MCDotPaths
SYMMETRY MCSymmetry
CONSTRAINT NotTorn
INVARIANTS
  NoOrphans
PROPERTIES
  ImplementsVolume
