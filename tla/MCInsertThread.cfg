SPECIFICATION LiveSpec
CONSTANTS
  Key = {k1}
  Host = {h1}
  MAX_ALLOC_QUEUE = 1
  MAX_MESSAGE_QUEUE = 1
  MaxOns = 2
  MaxScore = 1
  MaxMerges = 1
  MaxLogs = 1
INVARIANTS DrainedAtExit NoUseAfterFree NoStuckNote
PROPERTIES ShutdownCompletes
CHECK_DEADLOCK FALSE
