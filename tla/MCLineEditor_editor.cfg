SPECIFICATION Spec
CONSTANTS
  TTY_ROWS = 2
  TTY_COLS = 5
  DefaultColor = 7
  NoiseColor = 10
  Letters = {"a", "b", " "}
  Prompt <- MCPrompt
  CAPACITY = 5
  HISTORY_SIZE = 2
  Commands <- MCCommands
  Outputs <- MCOutputs
  MaxKeys = 6
CHECK_DEADLOCK FALSE
INVARIANTS
  ScreenFaithful
  LineShown
PROPERTIES
  ImplementsEditedLine
