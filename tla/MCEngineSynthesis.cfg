SPECIFICATION Spec
CONSTANTS
  MaxUtterances = 1
  MaxTokens = 2
  MaxInterrupts = 1
  MaxStops = 0
  TokenCap = 1
  TTSTokenCap = 1
  AudioCap = 1
PROPERTIES
  InterruptionCancelsSynthesis
CHECK_DEADLOCK FALSE
