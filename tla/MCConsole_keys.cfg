SPECIFICATION FairSpec
CONSTANTS
  Capacity = 2
  PendingSize = 1
  MaxEvents = 4
  MaxSegments = 2
  Keys <- MCKeys
INVARIANTS
  KeysInOrder
  QueueOverrun
PROPERTIES
  CtrlCStops
