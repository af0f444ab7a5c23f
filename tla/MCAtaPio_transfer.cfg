SPECIFICATION FairSpec
CONSTANTS
  Sectors = 3
  Values = {v, w}
  v = v
  w = w
  ATA_TRANSFER_MAX = 2
  ATA_TIMEOUT = 2
  Counts = {0, 1, 3}
  Presence = {"device", "zero"}
  MaxErrors = 1
INVARIANTS ReadExact WriteExact DeviceFree
PROPERTY TransfersEnd
