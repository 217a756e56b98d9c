CONSTANTS
  Chars <- MCChars
  MaxLen = 4
  NUM_ARGS = 3
  ExitCodes = {0, 1}
  Signals = {9, 15}
SPECIFICATION Spec
INVARIANTS
  TypeOK
  RunMemorySafeUnquoted
  RunSplitsFields
  RunZeroMeansSuccess
