CONSTANTS
  Chars <- MCQuoteChars
  MaxLen = 3
  NUM_ARGS = 3
  ExitCodes = {0, 1}
  Signals = {9, 15}
SPECIFICATION Spec
INVARIANTS
  RunMemorySafe
