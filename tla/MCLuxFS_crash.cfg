SPECIFICATION Spec
CONSTANTS
  MaxInodes = 3
  InodesPerBlock = 2
  DataBlocks = 8
  DirectBlocks = 2
  SectorSize = 3
  MaxPathDepth = 2
  Names = {na, nb}
  Values = {v, w}
  Offsets = {0, 2}
  Lengths = {4}
  MaxFaults = 0
  MaxCrashes = 1
  na = na
  nb = nb
  v = v
  w = w
  Paths <- MCPaths
SYMMETRY MCSymmetry
CONSTRAINT NotTorn
INVARIANTS
  TreeShaped
  NamesUnique
  Synced
  ListStatAgree
PROPERTIES
  ImplementsVolume
