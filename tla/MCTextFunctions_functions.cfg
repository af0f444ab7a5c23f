SPECIFICATION Spec
CONSTANTS
  MAX_PIPE_SEGMENTS = 2
  MAX_ARGS = 3
  SHELL_PATH_MAX = 6
  WordBits = 6
  HEXDUMP_BYTES_PER_LINE = 3
  HEXDUMP_MAX_BYTES = 8
  Lines <- MCLines
  Texts <- MCTexts
  Values <- MCValues
  Directives <- MCDirectives
  Arguments <- MCArguments
  Cwds <- MCCwds
  PathTexts <- MCPathTexts
  Dirs <- MCDirs
  TTY_ROWS = 2
  TTY_COLS = 3
  DefaultColor = 7
  Sizes <- MCSizes
  Spans = {0, 1, 2, 3, 4}
  WideSpans = {0, 1, 2, 4, 63}
INVARIANTS
  ParserExact
  NumbersExact
  OutputExact
  PathsResolve
  SurfaceExact
