SPECIFICATION FairSpec
CONSTANTS
  MaxInodes = 3
  InodesPerBlock = 2
  DataBlocks = 5
  DirectBlocks = 2
  SectorSize = 3
  MaxPathDepth = 2
  Names = {na, nb}
  Values = {v}
  Offsets = {0}
  Lengths = {4}
  MaxFaults = 1
  MaxCrashes = 1
  na = na
  nb = nb
  v = v
  Paths <- MCFlatPaths
CONSTRAINT NotTorn
INVARIANTS
  TypeOK
  CrossLinkFree
  StatReadAgree
PROPERTIES
  EntriesDurable
  CallsReturn
