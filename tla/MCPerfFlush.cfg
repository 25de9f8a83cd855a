SPECIFICATION Spec
CONSTANTS
  Host = {h1, h2}
  Calls = {"Play", "FlushMessageQueue"}
  MaxCalls = 2
  MaxOwn = 0
  BufferBlocks = 1
PROPERTIES FlushComplete
CHECK_DEADLOCK FALSE
