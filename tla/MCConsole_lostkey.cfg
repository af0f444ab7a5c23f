SPECIFICATION Spec
CONSTANTS
  Capacity = 2
  PendingSize = 2
  MaxEvents = 3
  MaxSegments = 2
  Keys <- MCTypingKeys
INVARIANTS
  KeysAllRead
