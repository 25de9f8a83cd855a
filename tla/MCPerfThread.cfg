SPECIFICATION LiveSpec
CONSTANTS
  Host = {h1}
  Calls = {"Play", "Pause", "Stop", "Record", "StopRecord", "ScoreEvent", "RequestCallback", "FlushMessageQueue", "Join", "TogglePause"}
  MaxCalls = 3
  MaxOwn = 1
  BufferBlocks = 2
PROPERTIES FlushComplete AudioGoesOn RecordingsApart JoinReturns
CHECK_DEADLOCK FALSE
