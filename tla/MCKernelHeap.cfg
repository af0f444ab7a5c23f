SPECIFICATION SwapSpec
CONSTANTS
  HeapSize = 28
  HeaderSize = 4
  Align = 2
  WordSize = 64
  Requests = {0, 5, 8, 63}
  Counts = {0, 1, 9}
  FirstCapacity = 2
  Texts <- MCTexts
  Starts = {1, 32}
  Reserves = {0, 20, 33}
  MaxSwap = 3
INVARIANTS
  HeapTiled
  NoFreeNeighbours
  HeldBacked
  StatsAccount
  SwapKeepsText
  BufferOwned
