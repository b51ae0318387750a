SPECIFICATION Spec
CONSTANTS
  MaxUtterances = 2
  MaxText = 2
  MaxPlayed = 8
  MaxSystem = 1
  MaxInterrupts = 1
  MaxClears = 1
  ChunkBytes <- MCChunkBytes
  SampleRate = 30
  CharsPerSecond = 15
  MaxSize = 2
  MaxContext = 2
INVARIANTS
  SpokenOnly
  HistoryIsTrimmedLog
PROPERTIES
  PromptShowsNewest
  CommitKeepsWhatWasPlayed
  ImplementsTranscript
CHECK_DEADLOCK FALSE
