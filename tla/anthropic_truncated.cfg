SPECIFICATION StreamSpec
CONSTANTS
  ToolIndexes = {0, 1}
  Chunks <- MCChunks
  TextLimit = 1
  MaxLines = 3
INVARIANT
  AnswersComplete
CHECK_DEADLOCK FALSE
