SPECIFICATION PagerFairSpec
CONSTANTS
  TTY_ROWS = 3
  TTY_COLS = 2
  DefaultColor = 7
  Documents <- MCDocuments
  LESS_READ_CHUNK = 2
  StatusLens = {1, 3}
  Keys <- MCKeys
INVARIANTS
  BlocksBalanced
  LinesExact
  PageConsecutive
PROPERTIES
  CtrlCEndsPager
