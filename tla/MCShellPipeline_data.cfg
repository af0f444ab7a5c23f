SPECIFICATION FairSpec
CONSTANTS
  MAX_PIPE_SEGMENTS = 2
  MAX_ARGS = 3
  PIPE_BUFFER_CAPACITY = 4
  CAT_BUFFER_SIZE = 2
  SHELL_PATH_MAX = 4
  MaxWrites = 2
  MaxFile = 3
  MaxFaults = 1
  Lines <- MCDataLines
  Chunks <- MCChunks
  Faulty = {"touch", "read", "write"}
INVARIANTS PipeFaithful FilesExact
PROPERTY LinesEnd
