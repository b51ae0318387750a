SPECIFICATION Spec
CONSTANTS
  MaxUtterances = 2
  MaxText = 2
  MaxPlayed = 8
  MaxSystem = 1
  MaxInterrupts = 1
  MaxClears = 0
  ChunkBytes <- MCChunkBytes
  SampleRate = 30
  CharsPerSecond = 15
  MaxSize = 3
  MaxContext = 2
INVARIANT
  RepliesEnterHistoryOnce
CHECK_DEADLOCK FALSE
