SPECIFICATION MCSpec
CONSTANTS
  AudioCap = 2
  UtteranceCap = 1
  EventCap = 1
  InterruptCap = 1
  NoticeCap = 1
  MaxFrames = 3
  MaxSignals = 2
  MaxSize = 2
  MaxHeard = 3
  b0 = b0
  b1 = b1
  Byte = {b0, b1}
  Size = 3
  LastSeq = 5
  MaxBufferSize = 2
  FrameSize = 3
  MaxBytes = 7
  Sample <- MCSample
  Code = {0, 127, 128, 213}
  Rate = {160, 320, 441, 960}
  MaxSamples = 4
  MinSpeech = {1, 4}
  MinSilence = {1, 3}
  Hangover = {1, 3}
  Horizon = 5
  StreamCap = 1
  ResultCap = 1
  MaxAudio = 2
  MaxResults = 2
  OutCap = 1
  Sender = {s1, s2}
  QueueCap = 2
  MaxAccepted = 3
  Bridges = {"channel", "lenient"}
  WriteCap = 1
  MaxFaults = 1
  asrKind = asrKind
  vadKind = vadKind
  p1 = p1
  p2 = p2
  Kind = {asrKind, vadKind}
  Unchecked = {vadKind}
  Name = {p1, p2}
  NoName = noName
  Choice <- MCChoice
  MaxConfigs = 1
  Client = {c1, c2}
  HotKey = {turn}
  Turn = {t1}
  Stream = {st1, st2, st3}
  CallSession = {s1, s2}
  ProviderName = {p1, p2}
  MaxVersions = 2
INVARIANTS
  TypesOK
  NoLostWakeup
  PositionWithinOneFrame
  FramesAreTheStream
  ReassembledInOrder
  NormalizedKeepsSound
  SpeechIsBoundedBySilence
  StateIsExplained
  SentAsAccepted
  InterruptNotLost
  CleanupLeavesNothing
  ResolutionIsOfItsTime
  NoResurrection
  CancelFindsStream
PROPERTIES
  AudioDropsOldest
  KeepsNewestBytes
  SendAudioReturns
  CancelEndsStage
  StopEndsGoroutines
CHECK_DEADLOCK FALSE
