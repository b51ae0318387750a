SPECIFICATION Spec
CONSTANTS
  MaxUtterances = 2
  MaxTokens = 2
  MaxInterrupts = 2
  MaxStops = 0
  TokenCap = 1
  TTSTokenCap = 1
  AudioCap = 1
INVARIANTS
  StateHasItsCause
  TurnIsOfCurrentUtterance
  CancelFunctionsAreOfRunning
  SynthesisEntryIsLive
CHECK_DEADLOCK FALSE
