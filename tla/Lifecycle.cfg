SPECIFICATION ScriptSpec
CONSTANTS
  MaxSends = 9
  MaxPending = 2
  MaxDepth = 2
  MaxDisturbances = 1
  GiftsFrom = "revoke"
INVARIANTS
  FileIsTrue
  CompleteIsFinal
CHECK_DEADLOCK FALSE
