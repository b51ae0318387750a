SPECIFICATION Spec
CONSTANTS
  MaxUtterances = 1
  MaxTokens = 2
  MaxInterrupts = 0
  MaxStops = 0
  TokenCap = 1
  TTSTokenCap = 1
  AudioCap = 1
INVARIANTS
  HeardRepliesAreCommitted
CHECK_DEADLOCK FALSE
