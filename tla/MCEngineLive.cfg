SPECIFICATION FairSpec
CONSTANTS
  MaxUtterances = 1
  MaxTokens = 2
  MaxInterrupts = 1
  MaxStops = 1
  TokenCap = 1
  TTSTokenCap = 1
  AudioCap = 1
INVARIANTS
  SomebodyGoesOn
PROPERTIES
  StopTerminates
  UninterruptedUtteranceEnds
CHECK_DEADLOCK FALSE
