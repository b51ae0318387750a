---------------------------- MODULE ServicesProofs ----------------------------
(***************************************************************************)
(* The invariants of the media edge and of the services around the engine, *)
(* for any capacities and any number of senders, messages, frames,         *)
(* clients, calls and providers: the channel bridge, whose audio channel   *)
(* is a queue that drops its oldest, the session handler, the connection,  *)
(* the transport, the session's record, the provider registry, the         *)
(* provider gateway and the recognition stage.  Each invariant holds with  *)
(* the types of its component, without which it is not inductive.          *)
(***************************************************************************)
EXTENDS ChannelBridge, SessionHandler, ASRStage, Transport, Connection, SessionStore,
        ProviderRegistry, ProviderGateway, SequenceTheorems, TLAPS

--------------------------------------------------------------------------------
(* The channel bridge.  An accepted interrupt waits in the channel because *)
(* there is room for one; a frame that is being sent has a number, and an  *)
(* interrupt being sent is within the bound.                               *)

CallsCounted == /\ call["conn"].op = "audio" => frames >= 1
                /\ call["conn"].op = "interrupt" => signals < MaxSignals
BridgeInv == BridgeTypeOK /\ CallsCounted /\ InterruptNotLost

\* What a caller may go on to do.
CallType == [op : Ops \cup {"none"}, at : {"idle", "check", "send", "drop", "resend", "close"}]

LEMMA BridgeInitInv == BridgeInit => BridgeInv
<1> SUFFICES ASSUME BridgeInit
             PROVE  BridgeInv
  OBVIOUS
<1>1. BridgeTypeOK
  <2>1. <<>> \in Seq(1..MaxFrames) /\ Len(<<>>) = 0
    OBVIOUS
  <2>2. /\ 0 \in 0..NoticeCap /\ 0 \in 0..UtteranceCap /\ 0 \in 0..EventCap
        /\ 0 \in 0..InterruptCap /\ 0 \in 0..MaxFrames /\ 0 \in 0..MaxSignals
        /\ 0 <= AudioCap
    BY BridgeAssumption
  <2>3. call \in [Callers -> CallType]
    BY DEF BridgeInit, CallType, Idle
  <2> QED
    BY <2>1, <2>2, <2>3 DEF BridgeInit, BridgeTypeOK, CallType
<1>2. CallsCounted
  BY DEF BridgeInit, CallsCounted, Idle, Callers
<1> QED
  BY <1>1, <1>2 DEF BridgeInit, BridgeInv, InterruptNotLost

LEMMA CallSteps ==
  ASSUME BridgeTypeOK, NEW c \in Callers
  PROVE  /\ Return(c) => /\ call' \in [Callers -> CallType] /\ call'[c] = Idle
                         /\ \A d \in Callers \ {c} : call'[d] = call[d]
         /\ \A at \in {"idle", "check", "send", "drop", "resend", "close"} :
              GoTo(c, at) => /\ call' \in [Callers -> CallType]
                             /\ call'[c] = [op |-> call[c].op, at |-> at]
                             /\ \A d \in Callers \ {c} : call'[d] = call[d]
<1>1. call \in [Callers -> CallType] /\ Idle \in CallType
  BY DEF BridgeTypeOK, CallType, Idle
<1>2. \A d \in Callers : call[d] = [op |-> call[d].op, at |-> call[d].at]
  BY <1>1 DEF CallType
<1>3. Return(c) => /\ call' \in [Callers -> CallType] /\ call'[c] = Idle
                   /\ \A d \in Callers \ {c} : call'[d] = call[d]
  BY <1>1 DEF Return
<1>4. ASSUME NEW at \in {"idle", "check", "send", "drop", "resend", "close"}, GoTo(c, at)
      PROVE  /\ call' \in [Callers -> CallType]
             /\ call'[c] = [op |-> call[c].op, at |-> at]
             /\ \A d \in Callers \ {c} : call'[d] = call[d]
  BY <1>1, <1>4 DEF GoTo, CallType
<1> QED
  BY <1>3, <1>4

LEMMA PutFrameStep ==
  ASSUME BridgeInv, PutFrame, call["conn"].op = "audio"
  PROVE  BridgeInv' /\ AudioQueue!PutMany
<1>1. frames \in 1..MaxFrames
  BY BridgeAssumption DEF BridgeInv, BridgeTypeOK, CallsCounted
<1>2. /\ audio' = Append(audio, frames) /\ audio \in Seq(1..MaxFrames)
      /\ Len(audio) < AudioCap
  BY DEF PutFrame, BridgeInv, BridgeTypeOK
<1>3. audio' \in Seq(1..MaxFrames) /\ Len(audio') = Len(audio) + 1 /\ Len(audio') <= AudioCap
  BY <1>1, <1>2, BridgeAssumption, LenProperties
<1>4. call' \in [Callers -> CallType] /\ call'["conn"] = Idle
  BY CallSteps DEF BridgeInv, PutFrame, Callers
<1>5. BridgeInv'
  BY <1>3, <1>4
  DEF BridgeInv, BridgeTypeOK, CallsCounted, InterruptNotLost, PutFrame, CallType, Idle,
      life, ghosts
<1>6. AudioQueue!PutMany
  <2> DEFINE items == <<frames>>
  <2>1. 1 \in 1..AudioCap + 1 /\ items \in [1..1 -> 1..MaxFrames]
    BY <1>1, BridgeAssumption
  <2>2. audio' = audio \o items
    BY <1>1, <1>2, AppendIsConcat
  <2>3. audio' = AudioQueue!Newest(audio \o items)
    BY <2>2, <1>3 DEF AudioQueue!Newest
  <2>4. (call["conn"].at = "drop")' = FALSE
    BY <1>4 DEF Idle
  <2> QED
    BY <2>1, <2>3, <2>4 DEF AudioQueue!PutMany
<1> QED
  BY <1>5, <1>6

\* A step of the channel's users that is not a PutFrame: what it must not
\* disturb, and why it is one of the queue's steps or leaves the queue alone.
QueueStep == AudioQueue!DropOldestNext \/ UNCHANGED <<audio, call["conn"].at = "drop">>

LEMMA GiveUpStep ==
  ASSUME UNCHANGED audio, call'["conn"].at # "drop"
  PROVE  QueueStep
BY DEF QueueStep, AudioQueue!DropOldestNext, AudioQueue!GiveUp

LEMMA SendersStep ==
  ASSUME BridgeInv,
         \/ \E c \in Callers : LookUp(c) \/ Check(c) \/ GiveUpOnCancel(c)
         \/ SendUtterance \/ Interrupt \/ SendEventToSession \/ StopSession \/ CloseChannels
  PROVE  BridgeInv' /\ QueueStep
<1>0. call \in [Callers -> CallType] /\ Idle \in CallType
  BY DEF BridgeInv, BridgeTypeOK, CallType, Idle
<1>1. ASSUME NEW c \in Callers, LookUp(c)
      PROVE  BridgeInv' /\ QueueStep
  <2>1. PICK op \in OpOf[c] :
          /\ op = "audio" => frames < MaxFrames
          /\ op = "interrupt" => signals < MaxSignals
          /\ call' = [call EXCEPT ![c] = [op |-> op, at |-> "check"]]
          /\ frames' = IF op = "audio" THEN frames + 1 ELSE frames
    BY <1>1 DEF LookUp
  <2>2. op \in Ops
    BY DEF OpOf, Ops, Callers
  <2>3. call' \in [Callers -> CallType] /\ call'[c] = [op |-> op, at |-> "check"]
    BY <2>1, <2>2, <1>0 DEF CallType
  <2>4. /\ frames' \in 0..MaxFrames /\ frames <= frames'
        /\ op = "audio" => frames' >= 1
    BY <2>1, BridgeAssumption DEF BridgeInv, BridgeTypeOK
  <2>5. UNCHANGED <<life, channels, cancelled, panicked, signals, unheard>>
    BY <1>1 DEF LookUp
  <2>6. BridgeTypeOK' /\ InterruptNotLost'
    BY <2>3, <2>4, <2>5 DEF BridgeInv, BridgeTypeOK, InterruptNotLost, CallType, life, channels
  <2>7. CallsCounted' /\ QueueStep
    <3>1. CASE c = "conn"
      <4>1. call'["conn"].op = op /\ call'["conn"].at = "check"
        BY <2>3, <3>1
      <4> QED
        BY <4>1, <2>1, <2>4, <2>5, GiveUpStep DEF CallsCounted, channels
    <3>2. CASE c # "conn"
      <4>1. call'["conn"] = call["conn"]
        BY <2>1, <3>2, <1>0 DEF Callers
      <4>2. CallsCounted'
        BY <4>1, <2>4, <2>5, BridgeAssumption DEF BridgeInv, BridgeTypeOK, CallsCounted
      <4> QED
        BY <4>1, <4>2, <2>5 DEF QueueStep, channels
    <3> QED
      BY <3>1, <3>2
  <2> QED
    BY <2>6, <2>7 DEF BridgeInv
<1>2. ASSUME NEW c \in Callers, Check(c) \/ GiveUpOnCancel(c)
      PROVE  BridgeInv' /\ QueueStep
  <2>1. UNCHANGED <<life, channels, cancelled, panicked, ghosts>>
    BY <1>2 DEF Check, GiveUpOnCancel
  <2>2. Return(c) \/ GoTo(c, "send")
    BY <1>2 DEF Check, GiveUpOnCancel
  <2>3. /\ call' \in [Callers -> CallType] /\ call'[c].at \in {"idle", "send"}
        /\ call'[c].op \in {"none", call[c].op}
        /\ \A d \in Callers \ {c} : call'[d] = call[d]
    <3>1. CASE Return(c)
      <4>1. /\ call' \in [Callers -> CallType] /\ call'[c] = Idle
            /\ \A d \in Callers \ {c} : call'[d] = call[d]
        BY <3>1, CallSteps DEF BridgeInv
      <4> QED
        BY <4>1 DEF Idle
    <3>2. CASE GoTo(c, "send")
      <4>1. /\ call' \in [Callers -> CallType] /\ call'[c] = [op |-> call[c].op, at |-> "send"]
            /\ \A d \in Callers \ {c} : call'[d] = call[d]
        BY <3>2, CallSteps DEF BridgeInv
      <4> QED
        BY <4>1
    <3> QED
      BY <2>2, <3>1, <3>2
  <2>4. BridgeInv'
    BY <2>1, <2>3
    DEF BridgeInv, BridgeTypeOK, CallsCounted, InterruptNotLost, CallType, Callers, life,
        channels, ghosts
  <2>5. QueueStep
    BY <2>1, <2>3, GiveUpStep DEF QueueStep, channels, Callers
  <2> QED
    BY <2>4, <2>5
<1>3. CASE Panic
  BY <1>3
  DEF BridgeInv, BridgeTypeOK, CallsCounted, InterruptNotLost, Panic, life, channels, ghosts,
      QueueStep
<1>4. ASSUME SendUtterance \/ SendEventToSession, ~Panic
      PROVE  BridgeInv' /\ QueueStep
  <2>1. PICK c \in {"proc", "orch"} : Return(c)
    BY <1>4 DEF SendUtterance, SendEventToSession
  <2>2. call' \in [Callers -> CallType] /\ call'["conn"] = call["conn"]
    BY <2>1, CallSteps DEF BridgeInv, Callers
  <2>3. UNCHANGED <<life, audio, interrupts, cancelled, panicked, ghosts>>
    BY <1>4 DEF SendUtterance, SendEventToSession
  <2>4. utterances' \in 0..UtteranceCap /\ sessionEvents' \in 0..EventCap
    BY <1>4, BridgeAssumption
    DEF SendUtterance, SendEventToSession, BridgeInv, BridgeTypeOK
  <2>5. BridgeInv'
    BY <2>2, <2>3, <2>4
    DEF BridgeInv, BridgeTypeOK, CallsCounted, InterruptNotLost, CallType, life, ghosts
  <2> QED
    BY <2>2, <2>3, <2>5 DEF QueueStep
<1>5. ASSUME Interrupt, ~Panic
      PROVE  BridgeInv' /\ QueueStep
  <2>1. call' \in [Callers -> CallType] /\ call'["conn"] = Idle
    BY <1>5, CallSteps DEF Interrupt, BridgeInv, Callers
  <2>2. interrupts' \in 0..InterruptCap /\ interrupts' > 0
    BY <1>5, BridgeAssumption DEF Interrupt, BridgeInv, BridgeTypeOK
  <2>3. UNCHANGED <<life, audio, utterances, sessionEvents, cancelled, panicked, frames>>
    BY <1>5 DEF Interrupt
  <2>4. unheard' = TRUE /\ signals' \in 0..MaxSignals
    BY <1>5, BridgeAssumption DEF Interrupt, At, BridgeInv, BridgeTypeOK, CallsCounted
  <2>5. BridgeInv'
    BY <2>1, <2>2, <2>3, <2>4
    DEF BridgeInv, BridgeTypeOK, CallsCounted, InterruptNotLost, CallType, Idle, life
  <2> QED
    BY <2>1, <2>3, <2>5, GiveUpStep DEF Idle
<1>6. ASSUME StopSession \/ CloseChannels
      PROVE  BridgeInv' /\ QueueStep
  <2>1. /\ call' \in [Callers -> CallType] /\ call'["conn"].op \in {"stop", "none"}
        /\ call'["conn"].at \in {"close", "idle"}
    <3>1. CASE StopSession
      <4>1. [op |-> "stop", at |-> "close"] \in CallType
        BY DEF CallType, Ops
      <4> QED
        BY <3>1, <4>1, <1>0 DEF StopSession, Callers
    <3>2. CASE CloseChannels
      BY <3>2, CallSteps DEF CloseChannels, BridgeInv, Callers, Idle
    <3> QED
      BY <3>1, <3>2, <1>6
  <2>2. /\ UNCHANGED <<started, starting, notices, bridgeClosed, channels, cancelled, panicked,
                       ghosts>>
        /\ registered' \in BOOLEAN /\ chClosed' \in BOOLEAN
    BY <1>6 DEF StopSession, CloseChannels, BridgeInv, BridgeTypeOK
  <2>3. BridgeInv'
    BY <2>1, <2>2
    DEF BridgeInv, BridgeTypeOK, CallsCounted, InterruptNotLost, CallType, channels, ghosts
  <2> QED
    BY <2>1, <2>2, <2>3, GiveUpStep DEF channels
<1> QED
  BY <1>1, <1>2, <1>3, <1>4, <1>5, <1>6

LEMMA AudioStep ==
  ASSUME BridgeInv, SendAudio \/ DropFrame \/ ResendAudio \/ TakeFrame
  PROVE  BridgeInv' /\ QueueStep
<1>1. CASE Panic
  BY <1>1
  DEF BridgeInv, BridgeTypeOK, CallsCounted, InterruptNotLost, Panic, life, channels, ghosts,
      QueueStep
<1>2. ASSUME SendAudio \/ ResendAudio, PutFrame
      PROVE  BridgeInv' /\ QueueStep
  BY <1>2, PutFrameStep DEF SendAudio, ResendAudio, At, QueueStep, AudioQueue!DropOldestNext
<1>3. ASSUME SendAudio, Len(audio) = AudioCap, GoTo("conn", "drop"),
             UNCHANGED <<life, channels, cancelled, panicked, ghosts>>
      PROVE  BridgeInv' /\ QueueStep
  <2>1. /\ call' \in [Callers -> CallType]
        /\ call'["conn"] = [op |-> call["conn"].op, at |-> "drop"]
    BY <1>3, CallSteps DEF BridgeInv, Callers
  <2>2. BridgeInv'
    BY <1>3, <2>1
    DEF BridgeInv, BridgeTypeOK, CallsCounted, InterruptNotLost, CallType, life, channels, ghosts
  <2> QED
    BY <1>3, <2>1, <2>2 DEF QueueStep, AudioQueue!DropOldestNext, AudioQueue!FindFull, channels
<1>4. CASE DropFrame
  <2>1. /\ call' \in [Callers -> CallType]
        /\ call'["conn"] = [op |-> call["conn"].op, at |-> "resend"]
    BY <1>4, CallSteps DEF DropFrame, BridgeInv, Callers
  <2>2. /\ audio' = IF audio = <<>> THEN <<>> ELSE Tail(audio)
        /\ UNCHANGED <<life, utterances, sessionEvents, interrupts, cancelled, panicked, ghosts>>
        /\ call["conn"].at = "drop"
    BY <1>4 DEF DropFrame, At
  <2>3. audio \in Seq(1..MaxFrames) /\ Len(audio) <= AudioCap
    BY DEF BridgeInv, BridgeTypeOK
  <2>4. audio' \in Seq(1..MaxFrames) /\ Len(audio') <= AudioCap
    <3>1. CASE audio = <<>>
      BY <2>2, <3>1, BridgeAssumption
    <3>2. CASE audio # <<>>
      BY <2>2, <2>3, <3>2, BridgeAssumption, HeadTailProperties
    <3> QED
      BY <3>1, <3>2
  <2>5. BridgeInv'
    BY <2>1, <2>2, <2>4
    DEF BridgeInv, BridgeTypeOK, CallsCounted, InterruptNotLost, CallType, life, ghosts
  <2>6. QueueStep
    BY <2>1, <2>2 DEF QueueStep, AudioQueue!DropOldestNext, AudioQueue!DropOldest, AudioQueue!GiveUp
  <2> QED
    BY <2>5, <2>6
<1>5. CASE TakeFrame
  <2>1. /\ audio # <<>> /\ audio' = Tail(audio)
        /\ UNCHANGED <<life, utterances, sessionEvents, interrupts, call, cancelled, panicked,
                       ghosts>>
    BY <1>5 DEF TakeFrame
  <2>2. audio \in Seq(1..MaxFrames) /\ Len(audio) <= AudioCap
    BY DEF BridgeInv, BridgeTypeOK
  <2>3. /\ audio' \in Seq(1..MaxFrames) /\ Len(audio') <= AudioCap
        /\ Len(audio) \in Nat /\ Len(audio) >= 1
    BY <2>1, <2>2, BridgeAssumption
  <2>4. BridgeInv'
    BY <2>1, <2>3 DEF BridgeInv, BridgeTypeOK, CallsCounted, InterruptNotLost, life, ghosts
  <2>5. 1 \in 1..Len(audio) /\ audio' = SubSeq(audio, 1 + 1, Len(audio))
    BY <2>1, <2>2, <2>3, TailIsSubSeq
  <2> QED
    BY <2>1, <2>4, <2>5 DEF QueueStep, AudioQueue!DropOldestNext, AudioQueue!Get
<1> QED
  BY <1>1, <1>2, <1>3, <1>4, <1>5 DEF SendAudio, ResendAudio

LEMMA OtherBridgeStep ==
  ASSUME BridgeInv,
         \/ StartSession \/ Announced \/ CloseBridge \/ CancelCallers \/ OtherSessionStarts
         \/ TakeNotice \/ TakeUtterance \/ TakeEvent \/ TakeInterrupt \/ UNCHANGED bridgeVars
  PROVE  BridgeInv' /\ QueueStep
<1>1. /\ UNCHANGED <<audio, call, frames, signals>>
      /\ \/ UNCHANGED <<interrupts, unheard>>
         \/ interrupts > 0 /\ interrupts' = interrupts - 1 /\ unheard' = FALSE
  BY DEF StartSession, Announced, CloseBridge, CancelCallers, OtherSessionStarts, TakeNotice,
         TakeUtterance, TakeEvent, TakeInterrupt, bridgeVars, life, channels, ghosts
<1>2. {registered, started, starting, bridgeClosed, chClosed, cancelled, panicked, unheard}'
        \subseteq BOOLEAN
  BY <1>1
  DEF StartSession, Announced, CloseBridge, CancelCallers, OtherSessionStarts, TakeNotice,
      TakeUtterance, TakeEvent, TakeInterrupt, bridgeVars, life, channels, ghosts,
      BridgeInv, BridgeTypeOK
<1>3. notices' \in 0..NoticeCap /\ utterances' \in 0..UtteranceCap /\ sessionEvents' \in 0..EventCap
  BY BridgeAssumption, SMTT(30)
  DEF StartSession, Announced, CloseBridge, CancelCallers, OtherSessionStarts, TakeNotice,
      TakeUtterance, TakeEvent, TakeInterrupt, bridgeVars, life, channels, ghosts,
      BridgeInv, BridgeTypeOK
<1>4. interrupts' \in 0..InterruptCap
  BY <1>1, BridgeAssumption DEF BridgeInv, BridgeTypeOK
<1>5. BridgeTypeOK'
  BY <1>1, <1>2, <1>3, <1>4 DEF BridgeInv, BridgeTypeOK
<1>6. CallsCounted' /\ InterruptNotLost'
  BY <1>1 DEF BridgeInv, CallsCounted, InterruptNotLost
<1> QED
  BY <1>1, <1>5, <1>6 DEF BridgeInv, QueueStep

LEMMA BridgeStep == BridgeInv /\ [BridgeNext]_bridgeVars => BridgeInv' /\ QueueStep
BY SendersStep, AudioStep, OtherBridgeStep DEF BridgeNext

\* An interrupt that was accepted, a coalesced one too, waits in the channel
\* until the orchestrator takes a signal after it, whatever StopSession and
\* Close do in between (orchestrator_bridge.go:231-239).
THEOREM InterruptsKept == BridgeSpec => [](InterruptNotLost /\ BridgeTypeOK)
<1>1. BridgeInv => InterruptNotLost /\ BridgeTypeOK
  BY DEF BridgeInv
<1> QED
  BY <1>1, BridgeInitInv, BridgeStep, PTL DEF BridgeSpec

\* The audio channel, with its sender and its reader, implements the queue that
\* loses only its oldest items, and only to a writer that found it full
\* (orchestrator_bridge.go:157-174).
THEOREM BridgeImplementsDropOldest == BridgeSpec => AudioDropsOldest
<1>1. BridgeInit => AudioQueue!DropOldestInit
  BY DEF BridgeInit, AudioQueue!DropOldestInit, Idle, Callers
<1>2. BridgeInv /\ [BridgeNext]_bridgeVars
        => [AudioQueue!DropOldestNext]_<<audio, call["conn"].at = "drop">>
  BY BridgeStep DEF QueueStep
<1> QED
  BY <1>1, <1>2, BridgeInitInv, BridgeStep, PTL
  DEF BridgeSpec, AudioDropsOldest, AudioQueue!DropOldestSpec

--------------------------------------------------------------------------------
(* The session handler.  No goroutine owns sh.state, but each assigns      *)
(* together with it, or is known by where it stands to have assigned, what *)
(* explains it; and only the frame between SendFrame and AdvancePosition   *)
(* separates the position from what was sent.                              *)

StateExplained ==
  /\ state = "speaking" => botSpeaking
  /\ state = "interrupted" => conn \in Interrupting
  /\ state = "idle" => proc = "off" \/ shCancelled \/ conn = "cancel"
PositionFollows == /\ proc = "off" => out = "off"
                   /\ ahead \in IF out = "advance" THEN {-1, 0} ELSE {0, 1}
HandlerInv == HandlerTypeOK /\ StateExplained /\ PositionFollows

LEMMA HandlerInitInv == HandlerInit => HandlerInv
<1>1. 0 \in 0..OutCap /\ 0 \in -1..1
  BY HandlerAssumption
<1> QED
  BY <1>1
  DEF HandlerInit, HandlerInv, HandlerTypeOK, StateExplained, PositionFollows, SessionState,
      ConnAt, ProcAt, OutAt

LEMMA SetStateType ==
  ASSUME NEW s \in SessionState, SetState(s), sessionState \in SessionState
  PROVE  sessionState' \in SessionState
BY DEF SetState

\* The connection's goroutine: only Start, Stop and an interruption assign the
\* state, and each moves on with it.
LEMMA ConnStepInv ==
  ASSUME HandlerInv,
         \/ StartHandler \/ ProcessAudioChunk \/ SpeechHeard \/ SpeechEnds \/ SpeechEnded
         \/ AudioSent \/ HandleInterrupt \/ Interrupted \/ NotifyOrchestrator
         \/ ReportInterruption \/ ClearOutput \/ ResetTracker \/ ListenAgain
         \/ StopHandler \/ CancelHandler \/ CloseBuffers \/ StopBridgeSession
  PROVE  HandlerInv'
<1> USE DEF HandlerInv, HandlerTypeOK, StateExplained, PositionFollows, states, buffers,
            ConnAt, ProcAt, OutAt, Interrupting, ConnGoes
<1>1. CASE StartHandler
  <2>1. sessionState' \in SessionState
    BY <1>1, SetStateType DEF StartHandler, SessionState
  <2>2. HandlerTypeOK' /\ StateExplained'
    BY <1>1, <2>1 DEF StartHandler, SessionState
  <2>3. PositionFollows'
    BY <1>1 DEF StartHandler
  <2> QED
    BY <2>2, <2>3
<1>2. CASE ProcessAudioChunk \/ SpeechHeard \/ SpeechEnds \/ AudioSent \/ HandleInterrupt
  BY <1>2, ZenonT(60) DEF ProcessAudioChunk, SpeechHeard, SpeechEnds, AudioSent, HandleInterrupt
<1>3. CASE SpeechEnded
  <2>1. sessionState' \in SessionState
    BY <1>3, SetStateType DEF SpeechEnded, SessionState
  <2> QED
    BY <1>3, <2>1 DEF SpeechEnded, SessionState
<1>4. CASE Interrupted
  BY <1>4, ZenonT(60) DEF Interrupted, SessionState
<1>5. CASE NotifyOrchestrator \/ ReportInterruption
  BY <1>5 DEF NotifyOrchestrator, ReportInterruption
<1>6. CASE ClearOutput \/ ResetTracker
  BY <1>6, HandlerAssumption DEF ClearOutput, ResetTracker
<1>7. CASE ListenAgain
  <2>1. sessionState' \in SessionState
    BY <1>7, SetStateType DEF ListenAgain, SessionState
  <2> QED
    BY <1>7, <2>1 DEF ListenAgain, SessionState
<1>8. CASE StopHandler \/ CancelHandler \/ CloseBuffers \/ StopBridgeSession
  BY <1>8, ZenonT(60) DEF StopHandler, CancelHandler, CloseBuffers, StopBridgeSession, SessionState
<1> QED
  BY <1>1, <1>2, <1>3, <1>4, <1>5, <1>6, <1>7, <1>8

LEMMA OtherHandlerStepInv ==
  ASSUME HandlerInv,
         \/ EventsEnd \/ TakeOrchestratorEvent \/ TTSAudioChunk \/ ASRFinal \/ SendsUtterance
         \/ LLMPartialText \/ TurnCompleted
         \/ OutputEnds \/ TakeOutputFrame \/ SendFrame \/ AdvancePosition
         \/ BridgeClosesEvents \/ UNCHANGED handlerVars
  PROVE  HandlerInv'
<1> USE DEF HandlerInv, HandlerTypeOK, StateExplained, PositionFollows, states, buffers,
            ConnAt, ProcAt, OutAt, ProcGoes, OutGoes
<1>1. CASE EventsEnd \/ TakeOrchestratorEvent \/ SendsUtterance \/ BridgeClosesEvents
  BY <1>1, ZenonT(60) DEF EventsEnd, TakeOrchestratorEvent, SendsUtterance, BridgeClosesEvents
<1>2. CASE TTSAudioChunk
  BY <1>2, HandlerAssumption DEF TTSAudioChunk
<1>3. CASE ASRFinal
  BY <1>3 DEF ASRFinal, SessionState
<1>4. CASE LLMPartialText
  <2>1. sessionState' \in SessionState
    BY <1>4, SetStateType DEF LLMPartialText, SessionState
  <2> QED
    BY <1>4, <2>1 DEF LLMPartialText, SessionState
<1>5. CASE TurnCompleted
  <2>1. sessionState' \in SessionState
    BY <1>5, SetStateType DEF TurnCompleted, SessionState
  <2> QED
    BY <1>5, <2>1 DEF TurnCompleted, SessionState
<1>6. CASE OutputEnds \/ SendFrame \/ AdvancePosition
  BY <1>6 DEF OutputEnds, SendFrame, AdvancePosition
<1>7. CASE TakeOutputFrame
  BY <1>7, HandlerAssumption DEF TakeOutputFrame
<1>8. CASE UNCHANGED handlerVars
  BY <1>8 DEF handlerVars
<1> QED
  BY <1>1, <1>2, <1>3, <1>4, <1>5, <1>6, <1>7, <1>8

LEMMA HandlerNextInv == HandlerInv /\ [HandlerNext]_handlerVars => HandlerInv'
BY ConnStepInv, OtherHandlerStepInv DEF HandlerNext

\* The state of a session handler names what is going on, however its three
\* goroutines interleave; and the playout position never departs by more than
\* the frame on its way from what the client was sent
\* (session_handler.go:149-174, 280-314, 345-390, 415-429).
THEOREM HandlerStateExplained == HandlerSpec => [](StateIsExplained /\ HandlerTypeOK)
<1>1. HandlerInv => StateIsExplained /\ HandlerTypeOK
  BY DEF HandlerInv, StateExplained, StateIsExplained
<1> QED
  BY <1>1, HandlerInitInv, HandlerNextInv, PTL DEF HandlerSpec

--------------------------------------------------------------------------------
(* The life of a connection: what each place of the read loop implies of   *)
(* what the connection holds.  A session in the bridge is the session of a *)
(* running handler, so that stopping the handler removes it.               *)

HeldByLoop ==
  /\ loop \in {"none", "deleteAgain", "gone"} => ~connected
  /\ bridgeHas => handler = "running"
  /\ ~hasSession => handler = "none" /\ ~stored
  /\ loop \in {"save", "handler"} => hasSession /\ handler = "none"
  /\ loop = "start" => hasSession /\ handler = "idle"
  /\ loop \in {"bridge", "announce", "confirm"} => handler = "running"
  /\ loop \in {"unregister", "deleteAgain", "gone"} => handler # "running"
  /\ loop = "gone" => (stored => faults > 0)
ConnectionInv == ConnectionTypeOK /\ HeldByLoop

LEMMA ConnectionInitInv == ConnectionInit => ConnectionInv
<1> SUFFICES ASSUME ConnectionInit
             PROVE  ConnectionInv
  OBVIOUS
<1>1. 0 \in 0..WriteCap /\ 0 \in 0..MaxFaults
  BY ConnectionAssumption
<1>2. ConnectionTypeOK
  BY <1>1 DEF ConnectionInit, ConnectionTypeOK, LoopAt, StartOutcome
<1>3. HeldByLoop
  BY DEF ConnectionInit, HeldByLoop
<1> QED
  BY <1>2, <1>3 DEF ConnectionInv

LEMMA StartStepInv ==
  ASSUME ConnectionInv, StartStep
  PROVE  ConnectionInv'
<1> USE DEF LoopGoes, connections, session, world
<1>1. CASE SessionStart \/ AlreadyStarted
  <2>1. ConnectionTypeOK'
    BY <1>1 DEF ConnectionInv, ConnectionTypeOK, LoopAt, StartOutcome, SessionStart, AlreadyStarted
  <2>2. HeldByLoop'
    BY <1>1 DEF ConnectionInv, ConnectionTypeOK, HeldByLoop, SessionStart, AlreadyStarted
  <2> QED
    BY <2>1, <2>2 DEF ConnectionInv
<1>2. CASE SaveSession
  <2>0. writeCh' \in 0..WriteCap /\ faults' \in 0..MaxFaults
    <3>1. writeCh' = writeCh /\ (faults' = faults \/ (faults < MaxFaults /\ faults' = faults + 1))
      BY <1>2 DEF SaveSession, StoreFails
    <3> QED
      BY <3>1, ConnectionAssumption DEF ConnectionInv, ConnectionTypeOK
  <2>1. ConnectionTypeOK'
    BY <1>2, <2>0 DEF ConnectionInv, ConnectionTypeOK, LoopAt, StartOutcome, SaveSession, StoreFails
  <2>2. HeldByLoop'
    BY <1>2 DEF ConnectionInv, ConnectionTypeOK, HeldByLoop, SaveSession, StoreFails
  <2> QED
    BY <2>1, <2>2 DEF ConnectionInv
<1>3. CASE NewSessionHandler
  <2>1. ConnectionTypeOK'
    BY <1>3 DEF ConnectionInv, ConnectionTypeOK, LoopAt, StartOutcome, NewSessionHandler
  <2>2. HeldByLoop'
    BY <1>3 DEF ConnectionInv, ConnectionTypeOK, HeldByLoop, NewSessionHandler
  <2> QED
    BY <2>1, <2>2 DEF ConnectionInv
<1>4. CASE StartHandlerFails \/ StartsHandler
  <2>1. ConnectionTypeOK'
    BY <1>4 DEF ConnectionInv, ConnectionTypeOK, LoopAt, StartOutcome, StartHandlerFails, StartsHandler
  <2>2. HeldByLoop'
    <3>1. CASE StartHandlerFails
      BY <3>1 DEF ConnectionInv, ConnectionTypeOK, HeldByLoop, StartHandlerFails
    <3>2. CASE StartsHandler
      BY <3>2 DEF ConnectionInv, ConnectionTypeOK, HeldByLoop, StartsHandler
    <3> QED
      BY <1>4, <3>1, <3>2
  <2> QED
    BY <2>1, <2>2 DEF ConnectionInv
<1>5. CASE BridgeStart \/ BridgeIsClosed
  <2>1. ConnectionTypeOK'
    BY <1>5 DEF ConnectionInv, ConnectionTypeOK, LoopAt, StartOutcome, BridgeStart, BridgeIsClosed
  <2>2. HeldByLoop'
    BY <1>5 DEF ConnectionInv, ConnectionTypeOK, HeldByLoop, BridgeStart, BridgeIsClosed
  <2> QED
    BY <2>1, <2>2 DEF ConnectionInv
<1>6. CASE SessionAnnounced \/ NotAnnounced
  <2>1. ConnectionTypeOK'
    BY <1>6 DEF ConnectionInv, ConnectionTypeOK, LoopAt, StartOutcome, SessionAnnounced, NotAnnounced
  <2>2. HeldByLoop'
    BY <1>6 DEF ConnectionInv, ConnectionTypeOK, HeldByLoop, SessionAnnounced, NotAnnounced
  <2> QED
    BY <2>1, <2>2 DEF ConnectionInv
<1>7. CASE ConfirmStarted
  <2>0. writeCh' \in 0..WriteCap /\ faults' \in 0..MaxFaults
    BY <1>7, ConnectionAssumption DEF ConnectionInv, ConnectionTypeOK, ConfirmStarted, SendEvent
  <2>1. ConnectionTypeOK'
    BY <1>7, <2>0 DEF ConnectionInv, ConnectionTypeOK, LoopAt, StartOutcome, ConfirmStarted, SendEvent
  <2>2. HeldByLoop'
    BY <1>7 DEF ConnectionInv, ConnectionTypeOK, HeldByLoop, ConfirmStarted, SendEvent
  <2> QED
    BY <2>1, <2>2 DEF ConnectionInv
<1> QED
  BY <1>1, <1>2, <1>3, <1>4, <1>5, <1>6, <1>7 DEF StartStep

LEMMA StopStepInv ==
  ASSUME ConnectionInv, StopStep
  PROVE  ConnectionInv'
<1> USE DEF LoopGoes, connections, session, world
<1>1. CASE SessionStop
  <2>1. ConnectionTypeOK'
    BY <1>1 DEF ConnectionInv, ConnectionTypeOK, LoopAt, StartOutcome, SessionStop
  <2>2. HeldByLoop'
    BY <1>1 DEF ConnectionInv, ConnectionTypeOK, HeldByLoop, SessionStop
  <2> QED
    BY <2>1, <2>2 DEF ConnectionInv
<1>2. CASE StopOnRequest \/ CleanupHandler
  <2>1. ConnectionTypeOK'
    BY <1>2 DEF ConnectionInv, ConnectionTypeOK, LoopAt, StartOutcome, StopOnRequest, CleanupHandler, HandlerStops
  <2>2. HeldByLoop'
    BY <1>2 DEF ConnectionInv, ConnectionTypeOK, HeldByLoop, StopOnRequest, CleanupHandler, HandlerStops
  <2> QED
    BY <2>1, <2>2 DEF ConnectionInv
<1>3. CASE DeleteOnRequest
  <2>0. writeCh' \in 0..WriteCap /\ faults' \in 0..MaxFaults
    BY <1>3, ConnectionAssumption DEF ConnectionInv, ConnectionTypeOK, DeleteOnRequest, DeleteSession, StoreFails
  <2>1. ConnectionTypeOK'
    BY <1>3, <2>0 DEF ConnectionInv, ConnectionTypeOK, LoopAt, StartOutcome, DeleteOnRequest, DeleteSession, StoreFails
  <2>2. HeldByLoop'
    BY <1>3 DEF ConnectionInv, ConnectionTypeOK, HeldByLoop, DeleteOnRequest, DeleteSession, StoreFails
  <2> QED
    BY <2>1, <2>2 DEF ConnectionInv
<1>4. CASE DeleteLeftover
  <2>0. writeCh' \in 0..WriteCap /\ faults' \in 0..MaxFaults
    BY <1>4, ConnectionAssumption DEF ConnectionInv, ConnectionTypeOK, DeleteLeftover, DeleteSession, StoreFails
  <2>1. ConnectionTypeOK'
    BY <1>4, <2>0 DEF ConnectionInv, ConnectionTypeOK, LoopAt, StartOutcome, DeleteLeftover, DeleteSession, StoreFails
  <2>2. HeldByLoop'
    BY <1>4 DEF ConnectionInv, ConnectionTypeOK, HeldByLoop, DeleteLeftover, DeleteSession, StoreFails
  <2> QED
    BY <2>1, <2>2 DEF ConnectionInv
<1>5. CASE SendEnded
  <2>0. writeCh' \in 0..WriteCap /\ faults' \in 0..MaxFaults
    BY <1>5, ConnectionAssumption DEF ConnectionInv, ConnectionTypeOK, SendEnded, SendEvent
  <2>1. ConnectionTypeOK'
    BY <1>5, <2>0 DEF ConnectionInv, ConnectionTypeOK, LoopAt, StartOutcome, SendEnded, SendEvent
  <2>2. HeldByLoop'
    BY <1>5 DEF ConnectionInv, ConnectionTypeOK, HeldByLoop, SendEnded, SendEvent
  <2> QED
    BY <2>1, <2>2 DEF ConnectionInv
<1>6. CASE CancelOnRequest \/ Cleanup \/ Unregister
  <2>1. ConnectionTypeOK'
    BY <1>6 DEF ConnectionInv, ConnectionTypeOK, LoopAt, StartOutcome, CancelOnRequest, Cleanup, Unregister
  <2>2. HeldByLoop'
    BY <1>6 DEF ConnectionInv, ConnectionTypeOK, HeldByLoop, CancelOnRequest, Cleanup, Unregister
  <2> QED
    BY <2>1, <2>2 DEF ConnectionInv
<1> QED
  BY <1>1, <1>2, <1>3, <1>4, <1>5, <1>6 DEF StopStep

LEMMA OtherLoopStepInv ==
  ASSUME ConnectionInv,
         \/ StartPump \/ SeesCancel \/ PingFails \/ Reads \/ ReadFails \/ BadMessage \/ SendError
         \/ HandlerMessage \/ NoActiveSession
  PROVE  ConnectionInv'
<1> USE DEF LoopGoes, connections, session, world
<1>1. CASE StartPump \/ SeesCancel \/ PingFails \/ Reads \/ ReadFails \/ BadMessage
  <2>1. ConnectionTypeOK'
    BY <1>1 DEF ConnectionInv, ConnectionTypeOK, LoopAt, StartOutcome, StartPump, SeesCancel, PingFails, Reads, ReadFails, BadMessage
  <2>2. HeldByLoop'
    BY <1>1 DEF ConnectionInv, ConnectionTypeOK, HeldByLoop, StartPump, SeesCancel, PingFails, Reads, ReadFails, BadMessage
  <2> QED
    BY <2>1, <2>2 DEF ConnectionInv
<1>2. CASE SendError
  <2>0. writeCh' \in 0..WriteCap /\ faults' \in 0..MaxFaults
    BY <1>2, ConnectionAssumption DEF ConnectionInv, ConnectionTypeOK, SendError, SendEvent
  <2>1. ConnectionTypeOK'
    BY <1>2, <2>0 DEF ConnectionInv, ConnectionTypeOK, LoopAt, StartOutcome, SendError, SendEvent
  <2>2. HeldByLoop'
    BY <1>2 DEF ConnectionInv, ConnectionTypeOK, HeldByLoop, SendError, SendEvent
  <2> QED
    BY <2>1, <2>2 DEF ConnectionInv
<1>3. CASE HandlerMessage \/ NoActiveSession
  <2>1. ConnectionTypeOK'
    BY <1>3 DEF ConnectionInv, ConnectionTypeOK, LoopAt, StartOutcome, HandlerMessage, NoActiveSession
  <2>2. HeldByLoop'
    BY <1>3 DEF ConnectionInv, ConnectionTypeOK, HeldByLoop, HandlerMessage, NoActiveSession
  <2> QED
    BY <2>1, <2>2 DEF ConnectionInv
<1> QED
  BY <1>1, <1>2, <1>3

LEMMA SurroundingsInv ==
  ASSUME ConnectionInv, Surroundings \/ UNCHANGED connectionVars
  PROVE  ConnectionInv'
<1> USE DEF LoopGoes, connections, session, world
<1>1. CASE Serve \/ RequestContextEnds
  <2>1. ConnectionTypeOK'
    BY <1>1 DEF ConnectionInv, ConnectionTypeOK, LoopAt, StartOutcome, Serve, RequestContextEnds
  <2>2. HeldByLoop'
    BY <1>1 DEF ConnectionInv, ConnectionTypeOK, HeldByLoop, Serve, RequestContextEnds
  <2> QED
    BY <2>1, <2>2 DEF ConnectionInv
<1>2. CASE PumpSends \/ PumpFails \/ PumpSeesCancel
  <2>0. writeCh' \in 0..WriteCap /\ faults' \in 0..MaxFaults
    BY <1>2, ConnectionAssumption DEF ConnectionInv, ConnectionTypeOK, PumpSends, PumpFails, PumpSeesCancel
  <2>1. ConnectionTypeOK'
    BY <1>2, <2>0 DEF ConnectionInv, ConnectionTypeOK, LoopAt, StartOutcome, PumpSends, PumpFails, PumpSeesCancel
  <2>2. HeldByLoop'
    BY <1>2 DEF ConnectionInv, ConnectionTypeOK, HeldByLoop, PumpSends, PumpFails, PumpSeesCancel
  <2> QED
    BY <2>1, <2>2 DEF ConnectionInv
<1>3. CASE CloseConnections
  <2>1. ConnectionTypeOK'
    BY <1>3, ZenonT(60) DEF ConnectionInv, ConnectionTypeOK, LoopAt, StartOutcome, CloseConnections, CancelConnections
  <2>2. HeldByLoop'
    BY <1>3 DEF ConnectionInv, ConnectionTypeOK, HeldByLoop, CloseConnections, CancelConnections
  <2> QED
    BY <2>1, <2>2 DEF ConnectionInv
<1>4. CASE MainClosesBridge
  <2>1. ConnectionTypeOK'
    BY <1>4 DEF ConnectionInv, ConnectionTypeOK, LoopAt, StartOutcome, MainClosesBridge
  <2>2. HeldByLoop'
    BY <1>4 DEF ConnectionInv, ConnectionTypeOK, HeldByLoop, MainClosesBridge
  <2> QED
    BY <2>1, <2>2 DEF ConnectionInv
<1>5. CASE UNCHANGED connectionVars
  <2>1. ConnectionTypeOK'
    BY <1>5, ZenonT(60) DEF ConnectionInv, ConnectionTypeOK, LoopAt, StartOutcome, connectionVars
  <2>2. HeldByLoop'
    BY <1>5 DEF ConnectionInv, ConnectionTypeOK, HeldByLoop, connectionVars
  <2> QED
    BY <2>1, <2>2 DEF ConnectionInv
<1> QED
  BY <1>1, <1>2, <1>3, <1>4, <1>5 DEF Surroundings

LEMMA ConnectionNextInv == ConnectionInv /\ [ConnectionNext]_connectionVars => ConnectionInv'
BY StartStepInv, StopStepInv, OtherLoopStepInv, SurroundingsInv DEF ConnectionNext, LoopStep

\* However a connection ends, nothing of it is left in the map of connections,
\* in the bridge, running, or, the store permitting, in the store
\* (websocket.go:500-543).
THEOREM NothingLeftBehind == ConnectionSpec => [](CleanupLeavesNothing /\ ConnectionTypeOK)
<1>1. ConnectionInv => CleanupLeavesNothing /\ ConnectionTypeOK
  BY DEF ConnectionInv, HeldByLoop, CleanupLeavesNothing
<1> QED
  BY <1>1, ConnectionInitInv, ConnectionNextInv, PTL DEF ConnectionSpec

--------------------------------------------------------------------------------
(* The transport.  Counted one after the other, what is on the wire, in    *)
(* the pump's hands and in the channel are the numbers of the accepted     *)
(* messages, until the pump ends.                                          *)

WireInOrder ==
  \A i \in 1..Len(wire) :
    \/ wire[i] = i
    \/ i = Len(wire) /\ wire[i] = CloseMessage /\ pumpAt = "done"
NothingLost ==
  /\ pumpAt # "write" => holding = <<>>
  /\ pumpAt # "done" =>
       /\ Len(wire) + Len(holding) + Len(queued) = accepted
       /\ \A i \in 1..Len(holding) : holding[i] = Len(wire) + i
       /\ \A i \in 1..Len(queued) : queued[i] = Len(wire) + Len(holding) + i
TransportInv == TransportTypeOK /\ WireInOrder /\ NothingLost

\* Two sequences one after the other.
LEMMA ConcatAt ==
  ASSUME NEW S, NEW s \in Seq(S), NEW t \in Seq(S), NEW u, u = s \o t
  PROVE  /\ u \in Seq(S) /\ Len(u) = Len(s) + Len(t) /\ Len(u) \in Nat
         /\ \A i \in 1..Len(s) + Len(t) : u[i] = IF i <= Len(s) THEN s[i] ELSE t[i - Len(s)]
BY ConcatProperties, LenProperties

LEMMA TransportInitInv == TransportInit => TransportInv
<1> SUFFICES ASSUME TransportInit
             PROVE  TransportInv
  OBVIOUS
<1>1. 0 \in 0..MaxAccepted /\ 0 <= QueueCap
  BY TransportAssumption
<1>2. <<>> \in Seq(1..MaxAccepted) /\ <<>> \in Seq(0..MaxAccepted) /\ Len(<<>>) = 0
  BY EmptySeq
<1>3. TransportTypeOK
  <2>1. queued \in Seq(1..MaxAccepted) /\ holding \in Seq(1..MaxAccepted)
    BY <1>2 DEF TransportInit
  <2>2. wire \in Seq(0..MaxAccepted)
    BY <1>2 DEF TransportInit
  <2>3. Len(queued) <= QueueCap /\ Len(holding) <= 1
    <3>1. Len(queued) = 0 /\ Len(holding) = 0
      BY DEF TransportInit
    <3> QED
      BY <1>1, <3>1
  <2>4. accepted \in 0..MaxAccepted /\ sending \subseteq Sender
    BY <1>1 DEF TransportInit
  <2> QED
    BY <2>1, <2>2, <2>3, <2>4 DEF TransportInit, TransportTypeOK
<1>4. WireInOrder /\ NothingLost
  BY <1>2 DEF TransportInit, WireInOrder, NothingLost
<1> QED
  BY <1>3, <1>4 DEF TransportInv

\* A message accepted is the next in number, and the last in the channel.
LEMMA AcceptedInv ==
  ASSUME TransportInv, NEW s \in Sender, Accepted(s)
  PROVE  TransportInv'
<1>1. /\ accepted \in Nat /\ accepted + 1 \in 1..MaxAccepted /\ accepted' = accepted + 1
      /\ queued \in Seq(1..MaxAccepted) /\ queued' = Append(queued, accepted + 1)
      /\ Len(queued) < QueueCap /\ UNCHANGED <<closing, pumpAt, holding, wire, crashed>>
      /\ sending' = sending \ {s}
  BY TransportAssumption DEF TransportInv, TransportTypeOK, Accepted, pumpVars
<1>2. /\ queued' \in Seq(1..MaxAccepted) /\ Len(queued') = Len(queued) + 1
      /\ \A i \in 1..Len(queued) : queued'[i] = queued[i]
      /\ queued'[Len(queued) + 1] = accepted + 1
  BY <1>1, AppendProperties
<1>3. TransportTypeOK'
  BY <1>1, <1>2, TransportAssumption DEF TransportInv, TransportTypeOK
<1>4. WireInOrder'
  BY <1>1 DEF TransportInv, WireInOrder
<1>5. NothingLost'
  <2>1. Len(wire) \in Nat /\ Len(holding) \in Nat /\ Len(queued) \in Nat
    BY LenProperties DEF TransportInv, TransportTypeOK
  <2>2. ASSUME pumpAt # "done", NEW i \in 1..Len(queued')
        PROVE  queued'[i] = Len(wire) + Len(holding) + i
    <3>1. CASE i \in 1..Len(queued)
      BY <1>1, <1>2, <2>2, <3>1 DEF TransportInv, NothingLost
    <3>2. CASE i = Len(queued) + 1
      <4>1. Len(wire) + Len(holding) + Len(queued) = accepted
        BY <2>2 DEF TransportInv, NothingLost
      <4> QED
        BY <1>1, <1>2, <2>1, <3>2, <4>1
    <3> QED
      BY <1>2, <2>1, <3>1, <3>2
  <2> QED
    <3>1. pumpAt # "done" => Len(wire) + Len(holding) + Len(queued') = accepted'
      <4>1. accepted' = accepted + 1 /\ Len(queued') = Len(queued) + 1
        BY <1>1, <1>2
      <4>2. pumpAt # "done" => Len(wire) + Len(holding) + Len(queued) = accepted
        BY DEF TransportInv, NothingLost
      <4> QED
        BY <2>1, <4>1, <4>2
    <3> QED
      BY <1>1, <2>2, <3>1 DEF TransportInv, NothingLost
<1> QED
  BY <1>3, <1>4, <1>5 DEF TransportInv

LEMMA PumpTakesInv ==
  ASSUME TransportInv, PumpTakes
  PROVE  TransportInv'
<1>1. /\ queued \in Seq(1..MaxAccepted) /\ queued # <<>> /\ queued' = Tail(queued)
      /\ holding = <<>> /\ holding' = <<Head(queued)>> /\ wire' = wire
      /\ pumpAt = "select" /\ pumpAt' = "write" /\ UNCHANGED <<closing, sending, accepted, crashed>>
  BY DEF TransportInv, TransportTypeOK, NothingLost, PumpTakes, PumpGoes
<1>2. /\ Len(queued) \in Nat /\ Len(queued) >= 1 /\ Head(queued) = queued[1]
      /\ queued' \in Seq(1..MaxAccepted) /\ Len(queued') = Len(queued) - 1
      /\ \A i \in 1..Len(queued') : queued'[i] = queued[i + 1]
      /\ queued[1] \in 1..MaxAccepted
  <2>1. /\ Head(queued) \in 1..MaxAccepted /\ Tail(queued) \in Seq(1..MaxAccepted)
        /\ Len(Tail(queued)) = Len(queued) - 1
        /\ \A i \in 1..Len(Tail(queued)) : Tail(queued)[i] = queued[i + 1]
    BY <1>1, HeadTailProperties
  <2>2. Len(queued) \in Nat /\ Len(queued) >= 1 /\ Head(queued) = queued[1]
    BY <1>1, EmptySeq
  <2> QED
    BY <1>1, <2>1, <2>2
<1>3. holding' \in Seq(1..MaxAccepted) /\ Len(holding') = 1 /\ holding'[1] = queued[1]
  BY <1>1, <1>2
<1>4. TransportTypeOK'
  BY <1>1, <1>2, <1>3, TransportAssumption DEF TransportInv, TransportTypeOK
<1>5. WireInOrder'
  BY <1>1 DEF TransportInv, WireInOrder
<1>6. NothingLost'
  <2>1. Len(wire) \in Nat /\ Len(holding) = 0 /\ accepted' = accepted
    BY <1>1, LenProperties DEF TransportInv, TransportTypeOK
  <2>2. /\ Len(wire) + Len(queued) = accepted
        /\ \A i \in 1..Len(queued) : queued[i] = Len(wire) + i
    BY <1>1, <1>2, <2>1 DEF TransportInv, NothingLost
  <2>3. holding'[1] = Len(wire) + 1
    BY <1>2, <1>3, <2>2
  <2>4. ASSUME NEW i \in 1..Len(queued')
        PROVE  queued'[i] = Len(wire) + 1 + i
    <3>1. i + 1 \in 1..Len(queued) /\ queued'[i] = queued[i + 1] /\ i \in Nat
      BY <1>2
    <3> QED
      BY <2>1, <2>2, <3>1
  <2>5. Len(wire') + Len(holding') + Len(queued') = accepted'
    BY <1>1, <1>2, <1>3, <2>1, <2>2
  <2> QED
    BY <1>1, <1>3, <2>1, <2>3, <2>4, <2>5 DEF NothingLost
<1> QED
  BY <1>4, <1>5, <1>6 DEF TransportInv

LEMMA PumpWritesInv ==
  ASSUME TransportInv, PumpWrites
  PROVE  TransportInv'
<1>1. /\ pumpAt = "write" /\ pumpAt' = "select"
      /\ UNCHANGED <<queued, accepted, closing, sending, crashed>>
      /\ wire' = wire \o holding /\ holding' = <<>>
      /\ wire \in Seq(0..MaxAccepted) /\ holding \in Seq(0..MaxAccepted)
      /\ Len(wire) \in Nat /\ Len(holding) \in Nat /\ Len(queued) \in Nat
  BY TransportAssumption, LenProperties DEF TransportInv, TransportTypeOK, PumpWrites, PumpGoes
<1>2. /\ wire' \in Seq(0..MaxAccepted) /\ Len(wire') = Len(wire) + Len(holding)
      /\ \A i \in 1..Len(wire) + Len(holding) :
           wire'[i] = IF i <= Len(wire) THEN wire[i] ELSE holding[i - Len(wire)]
  BY <1>1, ConcatProperties
<1>3. \A i \in 1..Len(holding) : holding[i] = Len(wire) + i
  BY <1>1 DEF TransportInv, NothingLost
<1>4. WireInOrder'
  <2> SUFFICES ASSUME NEW i \in 1..Len(wire')
               PROVE  wire'[i] = i
    BY DEF WireInOrder
  <2>1. CASE i <= Len(wire)
    BY <1>1, <1>2, <2>1 DEF TransportInv, WireInOrder
  <2>2. CASE i > Len(wire)
    <3>1. i - Len(wire) \in 1..Len(holding)
      BY <1>1, <1>2, <2>2
    <3> QED
      BY <1>1, <1>2, <1>3, <2>2, <3>1
  <2> QED
    BY <1>1, <1>2, <2>1, <2>2
<1>5. holding' \in Seq(1..MaxAccepted) /\ Len(holding') = 0
  BY <1>1
<1>6. TransportTypeOK'
  BY <1>1, <1>2, <1>5 DEF TransportInv, TransportTypeOK
<1>7. NothingLost'
  BY <1>1, <1>2, <1>5 DEF TransportInv, NothingLost
<1> QED
  BY <1>4, <1>6, <1>7 DEF TransportInv

LEMMA WriteCloseInv ==
  ASSUME TransportInv, WriteClose
  PROVE  TransportInv'
<1>1. /\ pumpAt = "close" /\ pumpAt' = "done" /\ holding = <<>> /\ wire \in Seq(0..MaxAccepted)
      /\ Len(wire) \in Nat /\ \A i \in 1..Len(wire) : wire[i] = i
      /\ UNCHANGED <<queued, holding, closing, sending, accepted, crashed>>
      /\ wire' \in {wire, Append(wire, CloseMessage)}
  BY LenProperties
  DEF TransportInv, TransportTypeOK, NothingLost, WireInOrder, WriteClose, PumpGoes
<1>2. CASE wire' = wire
  BY <1>1, <1>2 DEF TransportInv, TransportTypeOK, WireInOrder, NothingLost
<1>3. CASE wire' = Append(wire, CloseMessage)
  <2>1. /\ wire' \in Seq(0..MaxAccepted) /\ Len(wire') = Len(wire) + 1
        /\ \A i \in 1..Len(wire) : wire'[i] = wire[i]
        /\ wire'[Len(wire) + 1] = CloseMessage
    <3>1. CloseMessage \in 0..MaxAccepted
      BY TransportAssumption DEF CloseMessage
    <3> QED
      BY <1>1, <1>3, <3>1, AppendProperties
  <2>2. WireInOrder'
    BY <1>1, <2>1 DEF WireInOrder
  <2> QED
    BY <1>1, <2>1, <2>2 DEF TransportInv, TransportTypeOK, NothingLost
<1> QED
  BY <1>1, <1>2, <1>3

LEMMA OtherTransportStepInv ==
  ASSUME TransportInv,
         \/ \E s \in Sender : FindsOpen(s) \/ Refused(s) \/ Crashes(s)
         \/ CloseTransport \/ SignalClose \/ CloseWriteCh
         \/ StartWritePump \/ WriteFails \/ PumpSeesClose \/ UNCHANGED transportVars
  PROVE  TransportInv'
<1>1. CASE \/ \E s \in Sender : FindsOpen(s) \/ Refused(s) \/ Crashes(s)
           \/ CloseTransport \/ SignalClose \/ CloseWriteCh \/ UNCHANGED transportVars
  <2>1. UNCHANGED <<queued, pumpAt, holding, wire, accepted>>
    BY <1>1
    DEF FindsOpen, Refused, Crashes, CloseTransport, SignalClose, CloseWriteCh, Close,
        transportVars, pumpVars
  <2>2. /\ closing' \in {"open", "flagged", "signalled", "closed"} /\ sending' \subseteq Sender
        /\ crashed' \in BOOLEAN
    BY <1>1
    DEF FindsOpen, Refused, Crashes, CloseTransport, SignalClose, CloseWriteCh, Close,
        transportVars, TransportInv, TransportTypeOK
  <2> QED
    BY <2>1, <2>2 DEF TransportInv, TransportTypeOK, WireInOrder, NothingLost
<1>2. CASE StartWritePump \/ PumpSeesClose
  <2>1. /\ UNCHANGED <<queued, holding, wire, accepted, closing, sending, crashed>>
        /\ pumpAt \in {"off", "select"} /\ pumpAt' \in {"select", "close"}
    BY <1>2 DEF StartWritePump, PumpSeesClose, PumpGoes
  <2> QED
    BY <2>1 DEF TransportInv, TransportTypeOK, WireInOrder, NothingLost
<1>3. CASE WriteFails
  <2>1. /\ UNCHANGED <<queued, wire, accepted, closing, sending, crashed>>
        /\ holding' = <<>> /\ pumpAt # "done" /\ pumpAt' = "done"
    BY <1>3 DEF WriteFails, PumpGoes
  <2>2. holding' \in Seq(1..MaxAccepted) /\ Len(holding') = 0
    BY <2>1
  <2> QED
    BY <2>1, <2>2 DEF TransportInv, TransportTypeOK, WireInOrder, NothingLost
<1> QED
  BY <1>1, <1>2, <1>3

LEMMA TransportNextInv == TransportInv /\ [TransportNext]_transportVars => TransportInv'
BY AcceptedInv, PumpTakesInv, PumpWritesInv, WriteCloseInv, OtherTransportStepInv
DEF TransportNext

\* What is on the wire but for a close message at its end.
LEMMA MessagesNumbered ==
  ASSUME TransportInv
  PROVE  /\ Messages \in Seq(0..MaxAccepted) /\ Len(Messages) \in Nat
         /\ Len(Messages) <= Len(wire) /\ \A i \in 1..Len(Messages) : Messages[i] = i
         /\ pumpAt # "done" => Messages = wire
<1>1. wire \in Seq(0..MaxAccepted) /\ Len(wire) \in Nat
  BY LenProperties DEF TransportInv, TransportTypeOK
<1>2. CASE wire # <<>> /\ wire[Len(wire)] = CloseMessage
  <2>1. Len(wire) >= 1
    BY <1>1, <1>2
  <2>2. /\ Messages \in Seq(0..MaxAccepted) /\ Len(Messages) = Len(wire) - 1
        /\ \A i \in 1..Len(Messages) : Messages[i] = wire[i]
    <3>1. Messages = SubSeq(wire, 1, Len(wire) - 1)
      BY <1>2 DEF Messages
    <3>2. Len(wire) - 1 \in Int /\ \A i \in 1..Len(wire) - 1 : wire[i] \in 0..MaxAccepted
      <4>1. \A i \in 1..Len(wire) - 1 : i \in 1..Len(wire)
        BY <1>1
      <4>2. \A i \in 1..Len(wire) : wire[i] \in 0..MaxAccepted
        BY <1>1, ElementOfSeq
      <4> QED
        BY <1>1, <4>1, <4>2
    <3>3. /\ Messages \in Seq(0..MaxAccepted)
          /\ Len(Messages) = IF 1 <= Len(wire) - 1 THEN Len(wire) - 1 - 1 + 1 ELSE 0
          /\ \A i \in 1..Len(wire) - 1 - 1 + 1 : Messages[i] = wire[1 + i - 1]
      BY <3>1, <3>2, SubSeqProperties
    <3>4. Len(Messages) = Len(wire) - 1
      <4>1. Len(Messages) = IF 1 <= Len(wire) - 1 THEN Len(wire) - 1 - 1 + 1 ELSE 0
        BY <3>3
      <4>2. Len(wire) \in Nat
        BY <1>1
      <4>3. \A n \in Nat : n >= 1 => (IF 1 <= n - 1 THEN n - 1 - 1 + 1 ELSE 0) = n - 1
        OBVIOUS
      <4> QED
        BY <2>1, <4>1, <4>2, <4>3
    <3>5. ASSUME NEW i \in 1..Len(wire) - 1
          PROVE  Messages[i] = wire[i]
      BY <1>1, <3>3
    <3> QED
      BY <3>3, <3>4, <3>5
  <2>3. pumpAt = "done"
    BY <1>1, <1>2, <2>1 DEF TransportInv, WireInOrder, CloseMessage
  <2> QED
    BY <1>1, <2>1, <2>2, <2>3 DEF TransportInv, WireInOrder
<1>3. CASE wire = <<>> \/ wire[Len(wire)] # CloseMessage
  <2>1. Messages = wire
    BY <1>3 DEF Messages
  <2> QED
    BY <1>1, <1>3, <2>1 DEF TransportInv, WireInOrder
<1> QED
  BY <1>2, <1>3

LEMMA TransportInvSent == TransportInv => SentAsAccepted
<1> SUFFICES ASSUME TransportInv
             PROVE  SentAsAccepted
  OBVIOUS
<1>1. /\ wire \in Seq(0..MaxAccepted) /\ Len(wire) \in Nat
      /\ holding \in Seq(0..MaxAccepted) /\ Len(holding) \in Nat
      /\ queued \in Seq(0..MaxAccepted) /\ Len(queued) \in Nat
  BY TransportAssumption, LenProperties DEF TransportInv, TransportTypeOK
<1>2. pumpAt # "done" => Messages \o holding \o queued = [i \in 1..accepted |-> i]
  <2> SUFFICES ASSUME pumpAt # "done"
               PROVE  wire \o holding \o queued = [i \in 1..accepted |-> i]
    BY MessagesNumbered
  <2> DEFINE sent == wire \o holding
             all  == sent \o queued
  <2>1. /\ sent \in Seq(0..MaxAccepted) /\ Len(sent) = Len(wire) + Len(holding)
        /\ \A i \in 1..Len(sent) :
             sent[i] = IF i <= Len(wire) THEN wire[i] ELSE holding[i - Len(wire)]
        /\ Len(sent) \in Nat
    BY <1>1, ConcatProperties
  <2> HIDE DEF sent
  <2>2. /\ all \in Seq(0..MaxAccepted) /\ Len(all) = Len(sent) + Len(queued)
        /\ \A i \in 1..Len(sent) + Len(queued) :
             all[i] = IF i <= Len(sent) THEN sent[i] ELSE queued[i - Len(sent)]
    <3>1. sent \in Seq(0..MaxAccepted) /\ queued \in Seq(0..MaxAccepted) /\ all = sent \o queued
      BY <1>1, <2>1
    <3> HIDE DEF all
    <3> QED
      BY <3>1, ConcatAt
  <2> HIDE DEF all
  <2>3. Len(all) = accepted
    BY <2>1, <2>2 DEF TransportInv, NothingLost
  <2>4. ASSUME NEW i \in 1..accepted
        PROVE  all[i] = i
    <3>1. CASE i <= Len(wire)
      BY <1>1, <2>1, <2>2, <2>3, <3>1 DEF TransportInv, WireInOrder
    <3>2. CASE i > Len(wire) /\ i <= Len(sent)
      <4>1. i - Len(wire) \in 1..Len(holding) /\ all[i] = holding[i - Len(wire)]
        BY <1>1, <2>1, <2>2, <2>3, <3>2
      <4> QED
        BY <1>1, <4>1 DEF TransportInv, NothingLost
    <3>3. CASE i > Len(sent)
      <4>1. i - Len(sent) \in 1..Len(queued) /\ all[i] = queued[i - Len(sent)]
        BY <1>1, <2>1, <2>2, <2>3, <3>3
      <4> QED
        BY <1>1, <2>1, <4>1 DEF TransportInv, NothingLost
    <3> QED
      BY <1>1, <2>1, <3>1, <3>2, <3>3
  <2>5. all = [i \in 1..Len(all) |-> all[i]]
    BY <2>2
  <2>6. all = [i \in 1..accepted |-> i]
    BY <2>3, <2>4, <2>5
  <2> QED
    BY <2>6 DEF all, sent
<1>3. Messages = [i \in 1..Len(Messages) |-> i]
  <2>1. Messages = [i \in 1..Len(Messages) |-> Messages[i]]
    BY MessagesNumbered
  <2> QED
    BY <2>1, MessagesNumbered
<1>4. \A i \in 1..Len(wire) - 1 : wire[i] # CloseMessage
  BY <1>1 DEF TransportInv, WireInOrder, CloseMessage
<1> QED
  BY <1>2, <1>3, <1>4 DEF SentAsAccepted

\* The client is sent what the transport accepted, in that order and without
\* gaps, nothing accepted is lost while the pump lives, and the close message is
\* the last, for any number of senders and whatever Close does meanwhile
\* (transport.go:97-171).
THEOREM WireIsWhatWasAccepted == TransportSpec => [](SentAsAccepted /\ TransportTypeOK)
<1>1. TransportInv => TransportTypeOK
  BY DEF TransportInv
<1> QED
  BY <1>1, TransportInitInv, TransportNextInv, TransportInvSent, PTL DEF TransportSpec

--------------------------------------------------------------------------------
(* The session's record: only an update that was under way when the record *)
(* went can find no record when it writes back.                            *)

NoUpdateUnseen == record = NoRecord /\ Updating # {} => inFlight
StoreInv == StoreTypeOK /\ NoUpdateUnseen /\ NoResurrection

LEMMA StoreInitInv == StoreInit => StoreInv
BY StoreAssumption
DEF StoreInit, StoreInv, StoreTypeOK, NoUpdateUnseen, NoResurrection, Updating

\* A step that neither removes the record nor begins or ends an update.
LEMMA StoreKeepsInv ==
  ASSUME StoreInv, StoreTypeOK',
         UNCHANGED <<origin, inFlight>>, Updating' \subseteq Updating,
         record' = record
  PROVE  StoreInv'
BY DEF StoreInv, NoUpdateUnseen, NoResurrection

LEMMA RecordGoneInv ==
  ASSUME StoreInv, RecordGone
  PROVE  StoreInv'
<1>1. StoreTypeOK'
  BY DEF StoreInv, StoreTypeOK, RecordGone, HotKeys
<1>2. Updating' = Updating /\ inFlight' = (Updating # {})
  BY DEF RecordGone, Updating
<1> QED
  BY <1>1, <1>2 DEF StoreInv, NoUpdateUnseen, NoResurrection, RecordGone

LEMMA BeginUpdateInv ==
  ASSUME StoreInv, NEW c \in Client, UpdateTurn(c)
  PROVE  StoreInv'
<1>1. StoreTypeOK'
  BY DEF StoreInv, StoreTypeOK, UpdateTurn, Does, HotKeys
<1>2. record' = record /\ record # NoRecord
  BY DEF UpdateTurn, Found
<1> QED
  BY <1>1, <1>2 DEF StoreInv, NoUpdateUnseen, NoResurrection, UpdateTurn

LEMMA WriteBackInv ==
  ASSUME StoreInv, NEW c \in Client, WriteBack(c)
  PROVE  StoreInv'
<1>1. c \in Updating
  BY DEF WriteBack, Does, Updating
<1>2. record = NoRecord => inFlight
  BY <1>1 DEF StoreInv, NoUpdateUnseen
<1>3. StoreTypeOK'
  BY DEF StoreInv, StoreTypeOK, WriteBack, Does, HotKeys
<1>4. NoUpdateUnseen'
  <2>1. record' # NoRecord
    BY StoreAssumption DEF WriteBack, StoreInv, StoreTypeOK
  <2> QED
    BY <2>1 DEF NoUpdateUnseen
<1>5. NoResurrection'
  BY <1>2, <1>3 DEF StoreInv, NoResurrection, WriteBack
<1> QED
  BY <1>3, <1>4, <1>5 DEF StoreInv

LEMMA SaveInv ==
  ASSUME StoreInv, NEW c \in Client, Save(c)
  PROVE  StoreInv'
<1>1. StoreTypeOK'
  BY DEF StoreInv, StoreTypeOK, Save, HotKeys
<1>2. record' # NoRecord
  BY StoreAssumption DEF Save
<1> QED
  BY <1>1, <1>2 DEF StoreInv, NoUpdateUnseen, NoResurrection, Save

\* The steps that leave the record alone: what they do to the hot keys, to the
\* age of the record and to the other calls of a client is a matter of types.
LEMMA OtherStoreStepInv ==
  ASSUME StoreInv,
         \/ ExtendRecord \/ RecordAges \/ StoreHot \/ StoreGeneration \/ ExpireGeneration
         \/ ClearGenerationID \/ HotExpires \/ GenerationExpires \/ DeleteHotState
         \/ \E c \in Client : WriteBackFails(c)
  PROVE  StoreInv'
<1> USE DEF StoreInv, StoreTypeOK, HotKeys, Updating
<1>1. CASE ExtendRecord
  <2>1. PICK c \in Client : ExtendTTL(c)
    BY <1>1 DEF ExtendRecord
  <2>2. StoreTypeOK' /\ Updating' = Updating
    BY <2>1 DEF ExtendTTL
  <2> QED
    BY <2>1, <2>2, StoreKeepsInv DEF ExtendTTL
<1>2. CASE RecordAges
  BY <1>2, StoreKeepsInv DEF RecordAges
<1>3. CASE StoreHot
  BY <1>3, StoreKeepsInv DEF StoreHot
<1>4. CASE StoreGeneration
  <2>1. PICK c \in Client : StoreGenerationID(c)
    BY <1>4 DEF StoreGeneration
  <2>2. StoreTypeOK' /\ Updating' \subseteq Updating
    BY <2>1 DEF StoreGenerationID, Does
  <2> QED
    BY <2>1, <2>2, StoreKeepsInv DEF StoreGenerationID
<1>5. CASE ExpireGeneration
  <2>1. PICK c \in Client : SetGenerationExpiry(c) \/ SetExpiryFails(c)
    BY <1>5 DEF ExpireGeneration
  <2>2. StoreTypeOK' /\ Updating' \subseteq Updating
    BY <2>1 DEF SetGenerationExpiry, SetExpiryFails, Does
  <2> QED
    BY <2>1, <2>2, StoreKeepsInv DEF SetGenerationExpiry, SetExpiryFails
<1>6. CASE ClearGenerationID
  BY <1>6, StoreKeepsInv DEF ClearGenerationID
<1>7. CASE HotExpires
  BY <1>7, StoreKeepsInv DEF HotExpires
<1>8. CASE GenerationExpires
  BY <1>8, StoreKeepsInv DEF GenerationExpires
<1>9. CASE DeleteHotState
  BY <1>9, StoreKeepsInv DEF DeleteHotState
<1>10. CASE \E c \in Client : WriteBackFails(c)
  <2>1. PICK c \in Client : WriteBackFails(c)
    BY <1>10
  <2>2. StoreTypeOK' /\ Updating' \subseteq Updating
    BY <2>1 DEF WriteBackFails, Does
  <2> QED
    BY <2>1, <2>2, StoreKeepsInv DEF WriteBackFails
<1> QED
  BY <1>1, <1>2, <1>3, <1>4, <1>5, <1>6, <1>7, <1>8, <1>9, <1>10

LEMMA StoreNextInv == StoreInv /\ [StoreNext]_storeVars => StoreInv'
<1> SUFFICES ASSUME StoreInv, [StoreNext]_storeVars
             PROVE  StoreInv'
  OBVIOUS
<1>1. CASE SaveRecord
  BY <1>1, SaveInv DEF SaveRecord
<1>2. CASE DeleteRecord \/ RecordExpires
  BY <1>2, RecordGoneInv DEF DeleteRecord, Delete, RecordExpires
<1>3. CASE BeginUpdate
  BY <1>3, BeginUpdateInv DEF BeginUpdate
<1>4. CASE EndUpdate
  BY <1>4, WriteBackInv, OtherStoreStepInv DEF EndUpdate
<1>5. CASE \/ ExtendRecord \/ RecordAges \/ StoreHot \/ StoreGeneration \/ ExpireGeneration
           \/ ClearGenerationID \/ HotExpires \/ GenerationExpires \/ DeleteHotState
  BY <1>5, OtherStoreStepInv
<1>6. CASE UNCHANGED storeVars
  BY <1>6 DEF StoreInv, StoreTypeOK, NoUpdateUnseen, NoResurrection, Updating, storeVars
<1> QED
  BY <1>1, <1>2, <1>3, <1>4, <1>5, <1>6 DEF StoreNext

\* A session's record that was deleted or has expired is brought back only by a
\* Save, or by an UpdateTurn that had read it before it went, however many
\* clients save, update and delete (redis_store.go:105-123).
THEOREM RecordStaysGone == StoreSpec => [](NoResurrection /\ StoreTypeOK)
<1>1. StoreInv => NoResurrection /\ StoreTypeOK
  BY DEF StoreInv
<1> QED
  BY <1>1, StoreInitInv, StoreNextInv, PTL DEF StoreSpec

--------------------------------------------------------------------------------
(* The provider registry: while ResolveForSession is under way, what it    *)
(* has resolved is the result of settings it has seen in force.            *)

Resolution(c, d) == Over(Over(Over(c.global, d.tenant), asked.session), asked.request)
LookedUp == \A k \in Kind \ Unchecked : resolved[k] = NoName \/ resolved[k] \in providers[k]

FromSettingsInForce ==
  /\ resolving = "tenant" => settings \in during /\ \E c \in during : resolved = c.global
  /\ resolving \in {"validate", "resolved"} => \E c, d \in during : resolved = Resolution(c, d)
  /\ resolving = "resolved" => LookedUp
RegistryInv == RegistryTypeOK /\ FromSettingsInForce

\* One level over another chooses a name of a provider, or none.
LEMMA OverType ==
  ASSUME NEW f \in [Kind -> Name \cup {NoName}], NEW g \in [Kind -> Name \cup {NoName}]
  PROVE  Over(f, g) \in [Kind -> Name \cup {NoName}]
BY DEF Over

\* The lowest of the numbers of a non-empty subset of 1..4.
LEMMA FirstOfFour ==
  ASSUME NEW S, S \subseteq 1..4, S # {}
  PROVE  \E i \in S : \A j \in S : i <= j
<1>1. CASE 1 \in S
  BY <1>1
<1>2. CASE 1 \notin S /\ 2 \in S
  <2>1. \A j \in S : 2 <= j
    BY <1>2
  <2> QED
    BY <1>2, <2>1
<1>3. CASE 1 \notin S /\ 2 \notin S /\ 3 \in S
  <2>1. \A j \in S : 3 <= j
    BY <1>3
  <2> QED
    BY <1>3, <2>1
<1>4. CASE 1 \notin S /\ 2 \notin S /\ 3 \notin S
  <2>1. PICK i \in S : TRUE
    OBVIOUS
  <2>2. \A j \in S : j = 4
    BY <1>4
  <2> QED
    BY <2>1, <2>2
<1> QED
  BY <1>1, <1>2, <1>3, <1>4

\* Overriding level by level, from the lowest to the highest, is choosing the
\* highest level that names a provider.
LEMMA OverridesAreFirstChoice ==
  ASSUME NEW l1, NEW l2, NEW l3, NEW l4, NEW k \in Kind
  PROVE  Over(Over(Over(l4, l3), l2), l1)[k] = FirstChoice(k, <<l1, l2, l3, l4>>)
<1> DEFINE levels == <<l1, l2, l3, l4>>
           named  == {i \in 1..4 : levels[i][k] # NoName}
           first  == CHOOSE i \in named : \A j \in named : i <= j
<1>1. /\ levels[1] = l1 /\ levels[2] = l2 /\ levels[3] = l3 /\ levels[4] = l4
  OBVIOUS
<1>2. Over(Over(Over(l4, l3), l2), l1)[k]
        = IF l1[k] # NoName THEN l1[k] ELSE IF l2[k] # NoName THEN l2[k]
          ELSE IF l3[k] # NoName THEN l3[k] ELSE l4[k]
  BY DEF Over
<1>3. CASE named = {}
  <2>1. \A i \in 1..4 : levels[i][k] = NoName
    BY <1>3
  <2>2. l1[k] = NoName /\ l2[k] = NoName /\ l3[k] = NoName /\ l4[k] = NoName
    <3>1. 1 \in 1..4 /\ 2 \in 1..4 /\ 3 \in 1..4 /\ 4 \in 1..4
      OBVIOUS
    <3> QED
      BY <2>1, <3>1, <1>1
  <2> QED
    BY <1>2, <1>3, <2>2 DEF FirstChoice
<1>4. CASE named # {}
  <2> HIDE DEF levels
  <2>1. first \in named /\ \A j \in named : first <= j
    <3> HIDE DEF named
    <3>1. named \subseteq 1..4
      BY DEF named
    <3>2. \E i \in named : \A j \in named : i <= j
      BY <3>1, <1>4, FirstOfFour
    <3> QED
      BY <3>2
  <2>2. FirstChoice(k, levels) = levels[first][k]
    BY <1>4 DEF FirstChoice
  <2>3. first \in 1..4 /\ levels[first][k] # NoName
    BY <2>1
  <2>4. \A j \in 1..4 : j < first => levels[j][k] = NoName
    BY <2>1
  <2> HIDE DEF first, named
  <2>5. first \in {1, 2, 3, 4}
    BY <2>3
  <2>6. \A j \in {1, 2, 3, 4} : j < first => levels[j][k] = NoName
    BY <2>4
  <2> QED
    BY <1>1, <1>2, <2>2, <2>3, <2>5, <2>6 DEF levels
<1> QED
  BY <1>3, <1>4

LEMMA RegistryInitInv == RegistryInit => RegistryInv
<1>1. 0 \in 0..MaxConfigs
  BY RegistryAssumption
<1> QED
  BY <1>1, RegistryAssumption
  DEF RegistryInit, RegistryInv, RegistryTypeOK, FromSettingsInForce, NoChoice, Settings, Asked

LEMMA SetConfigInv ==
  ASSUME RegistryInv, SetConfig
  PROVE  RegistryInv'
<1>1. RegistryTypeOK'
  BY RegistryAssumption DEF RegistryInv, RegistryTypeOK, SetConfig
<1>2. during \subseteq during'
  BY DEF SetConfig
<1>3. resolving' = "tenant" => settings' \in during'
  BY DEF SetConfig
<1>4. FromSettingsInForce'
  BY <1>2, <1>3 DEF RegistryInv, FromSettingsInForce, Resolution, LookedUp, SetConfig
<1> QED
  BY <1>1, <1>4 DEF RegistryInv

LEMMA ResolveGlobalInv ==
  ASSUME RegistryInv, ResolveGlobal
  PROVE  RegistryInv'
<1>1. settings \in Settings /\ settings.global \in [Kind -> Name \cup {NoName}]
  BY RegistryAssumption DEF RegistryInv, RegistryTypeOK, Settings
<1>2. RegistryTypeOK'
  BY <1>1 DEF RegistryInv, RegistryTypeOK, ResolveGlobal
<1>3. FromSettingsInForce'
  BY DEF FromSettingsInForce, ResolveGlobal
<1> QED
  BY <1>2, <1>3 DEF RegistryInv

LEMMA ResolveOverridesInv ==
  ASSUME RegistryInv, ResolveOverrides
  PROVE  RegistryInv'
<1>1. resolved' = Over(Over(Over(resolved, settings.tenant), asked.session), asked.request)
  BY DEF ResolveOverrides
<1>2. RegistryTypeOK'
  <2>1. /\ settings.tenant \in [Kind -> Name \cup {NoName}]
        /\ asked.session \in [Kind -> Name \cup {NoName}]
        /\ asked.request \in [Kind -> Name \cup {NoName}]
    BY RegistryAssumption DEF RegistryInv, RegistryTypeOK, Settings, Asked
  <2>2. resolved' \in [Kind -> Name \cup {NoName}]
    BY <1>1, <2>1, OverType DEF RegistryInv, RegistryTypeOK
  <2> QED
    BY <2>2 DEF RegistryInv, RegistryTypeOK, ResolveOverrides
<1>3. FromSettingsInForce'
  <2>1. PICK c \in during : resolved = c.global
    BY DEF RegistryInv, FromSettingsInForce, ResolveOverrides
  <2>2. settings \in during
    BY DEF RegistryInv, FromSettingsInForce, ResolveOverrides
  <2>3. UNCHANGED <<settings, asked, during>>
    BY DEF ResolveOverrides
  <2> QED
    BY <1>1, <2>1, <2>2, <2>3 DEF FromSettingsInForce, Resolution, ResolveOverrides
<1> QED
  BY <1>2, <1>3 DEF RegistryInv

\* Registrations are never withdrawn, so a name that was found stays found.
LEMMA OtherRegistryStepInv ==
  ASSUME RegistryInv,
         RegisterProvider \/ ValidateNames \/ NextResolution \/ UNCHANGED registryVars
  PROVE  RegistryInv'
<1>1. CASE RegisterProvider
  <2>1. RegistryTypeOK'
    BY <1>1 DEF RegistryInv, RegistryTypeOK, RegisterProvider
  <2>2. \A k \in Kind : providers[k] \subseteq providers'[k]
    BY <1>1 DEF RegistryInv, RegistryTypeOK, RegisterProvider
  <2>3. LookedUp => LookedUp'
    BY <1>1, <2>2 DEF LookedUp, RegisterProvider
  <2> QED
    BY <1>1, <2>1, <2>3 DEF RegistryInv, FromSettingsInForce, Resolution, RegisterProvider
<1>2. CASE ValidateNames
  BY <1>2
  DEF RegistryInv, RegistryTypeOK, FromSettingsInForce, Resolution, LookedUp, ValidateNames, Get
<1>3. CASE NextResolution
  BY <1>3, RegistryAssumption
  DEF RegistryInv, RegistryTypeOK, FromSettingsInForce, NextResolution, NoChoice, Asked, Settings
<1>4. CASE UNCHANGED registryVars
  BY <1>4
  DEF RegistryInv, RegistryTypeOK, FromSettingsInForce, Resolution, LookedUp, registryVars
<1> QED
  BY <1>1, <1>2, <1>3, <1>4

LEMMA InForceImpliesOfItsTime == RegistryInv => ResolutionIsOfItsTime
<1> SUFFICES ASSUME RegistryInv, resolving = "resolved"
             PROVE  ResolutionIsOfItsTime
  BY DEF ResolutionIsOfItsTime
<1>1. PICK c \in during, d \in during : resolved = Resolution(c, d)
  BY DEF RegistryInv, FromSettingsInForce
<1> DEFINE levels == <<asked.request, asked.session, d.tenant, c.global>>
<1>2. ASSUME NEW k \in Kind
      PROVE  resolved[k] = FirstChoice(k, levels)
  BY <1>1, OverridesAreFirstChoice DEF Resolution
<1>3. ASSUME NEW k \in Kind, k \notin Unchecked
      PROVE  resolved[k] \in providers[k] \cup {NoName}
  BY <1>3 DEF RegistryInv, FromSettingsInForce, LookedUp
<1> QED
  BY <1>2, <1>3 DEF ResolutionIsOfItsTime

\* A resolution is the one of the four levels' first choices, the global one and
\* the tenant's each in force at some time of the call, and every name it looks
\* up exists, whatever number of SetConfig calls it meets (registry.go:172-246).
THEOREM ResolvedFromItsTime == RegistrySpec => [](ResolutionIsOfItsTime /\ RegistryTypeOK)
<1>1. RegistryInv /\ [RegistryNext]_registryVars => RegistryInv'
  BY SetConfigInv, ResolveGlobalInv, ResolveOverridesInv, OtherRegistryStepInv DEF RegistryNext
<1>2. RegistryInv => RegistryTypeOK
  BY DEF RegistryInv
<1> QED
  BY <1>1, <1>2, RegistryInitInv, InForceImpliesOfItsTime, PTL DEF RegistrySpec

--------------------------------------------------------------------------------
(* The provider gateway: a stream's provider is the cached one of its      *)
(* name, which no registration replaces, and a session's record is that of *)
(* a stream of the session.                                                *)

StreamsShareInstances ==
  \A st \in Stream : streams[st].at = "streaming" =>
    streams[st].provider.version = instances[streams[st].provider.name]
RecordIsOfLiveStream ==
  \A s \in CallSession :
    /\ active[s] # NoProvider => \E st \in Live(s) : streams[st].provider = active[s]
    /\ Live(s) \ robbed # {} => active[s] # NoProvider
GatewayInv == GatewayTypeOK /\ StreamsShareInstances /\ RecordIsOfLiveStream

LEMMA GatewayInitInv == GatewayInit => GatewayInv
<1>1. 0 \in 0..MaxVersions
  BY GatewayAssumption
<1> QED
  BY <1>1
  DEF GatewayInit, GatewayInv, GatewayTypeOK, StreamsShareInstances, RecordIsOfLiveStream,
      NoStream, Live

\* What a stream is doing has the type of an idle or of a running stream.
LEMMA StreamType ==
  ASSUME GatewayTypeOK, NEW st \in Stream
  PROVE  \/ streams[st] = NoStream
         \/ /\ streams[st].at = "streaming"
            /\ streams[st].session \in CallSession
            /\ streams[st].provider \in Provider
            /\ streams[st] = Streaming(streams[st].session, streams[st].provider)
BY DEF GatewayTypeOK, Streaming

LEMMA OpenStreamInv ==
  ASSUME GatewayInv, OpenStream
  PROVE  GatewayInv'
<1>1. PICK st \in Stream, s \in CallSession, n \in ProviderName, v \in 1..MaxVersions :
        /\ streams[st] = NoStream /\ Obtained(n, v)
        /\ streams' = [streams EXCEPT ![st] = Streaming(s, [name |-> n, version |-> v])]
        /\ active' = [active EXCEPT ![s] = [name |-> n, version |-> v]]
        /\ UNCHANGED <<factories, robbed>>
  BY DEF OpenStream
<1> DEFINE p == [name |-> n, version |-> v]
<1>2. p \in Provider /\ p.name = n /\ p.version = v /\ p # NoProvider
  BY GatewayAssumption DEF Provider, NoProvider
<1>3. /\ v \in 0..MaxVersions /\ instances' = [instances EXCEPT ![n] = v]
      /\ instances[n] # 0 => instances[n] = v
  BY <1>1, GatewayAssumption DEF Obtained
<1>4. GatewayTypeOK'
  BY <1>1, <1>2, <1>3 DEF GatewayInv, GatewayTypeOK
<1>5. streams'[st] = Streaming(s, p) /\ \A t \in Stream : t # st => streams'[t] = streams[t]
  BY <1>1 DEF GatewayInv, GatewayTypeOK
<1> HIDE DEF p
<1>6. streams'[st].at = "streaming" /\ streams'[st].session = s /\ streams'[st].provider = p
  BY <1>5 DEF Streaming
<1>7. StreamsShareInstances'
  <2> SUFFICES ASSUME NEW t \in Stream, streams'[t].at = "streaming"
               PROVE  streams'[t].provider.version = instances'[streams'[t].provider.name]
    BY DEF StreamsShareInstances
  <2>1. CASE t = st
    BY <2>1, <1>2, <1>3, <1>6 DEF GatewayInv, GatewayTypeOK
  <2>2. CASE t # st
    <3>1. /\ streams[t].at = "streaming" /\ streams[t].provider \in Provider
          /\ streams[t].provider.version = instances[streams[t].provider.name]
      BY <2>2, <1>5, StreamType DEF GatewayInv, StreamsShareInstances, NoStream
    <3>2. streams[t].provider.version \in Nat \ {0} /\ streams[t].provider.name \in ProviderName
      BY <3>1, GatewayAssumption DEF Provider
    <3>3. instances'[streams[t].provider.name] = instances[streams[t].provider.name]
      BY <3>1, <3>2, <1>3 DEF GatewayInv, GatewayTypeOK
    <3> QED
      BY <2>2, <1>5, <3>1, <3>3
  <2> QED
    BY <2>1, <2>2
<1>8. RecordIsOfLiveStream'
  <2>1. active'[s] = p /\ \A t \in CallSession : t # s => active'[t] = active[t]
    BY <1>1 DEF GatewayInv, GatewayTypeOK, p
  <2>2. st \in Live(s)' /\ \A t \in CallSession : t # s => Live(t)' = Live(t)
    BY <1>1, <1>5, <1>6 DEF Live, NoStream
  <2> SUFFICES ASSUME NEW t \in CallSession
               PROVE  /\ active'[t] # NoProvider =>
                           \E u \in Live(t)' : streams'[u].provider = active'[t]
                      /\ Live(t)' \ robbed' # {} => active'[t] # NoProvider
    BY DEF RecordIsOfLiveStream
  <2>3. CASE t = s
    BY <2>1, <2>2, <2>3, <1>2, <1>6
  <2>4. CASE t # s
    <3>1. \A u \in Live(t) : u # st
      BY <1>1 DEF Live, NoStream
    <3>2. \A u \in Live(t) : streams'[u] = streams[u]
      BY <1>5, <3>1 DEF Live
    <3> QED
      BY <2>1, <2>2, <2>4, <3>2, <1>1 DEF GatewayInv, RecordIsOfLiveStream
  <2> QED
    BY <2>3, <2>4
<1> QED
  BY <1>4, <1>7, <1>8 DEF GatewayInv

LEMMA RefuseStreamInv ==
  ASSUME GatewayInv, RefuseStream
  PROVE  GatewayInv'
<1>1. PICK s \in CallSession :
        /\ active' = [active EXCEPT ![s] = NoProvider] /\ robbed' = robbed \cup Live(s)
        /\ UNCHANGED <<factories, instances, streams>>
  BY DEF RefuseStream, Forgets
<1>2. GatewayTypeOK'
  BY <1>1 DEF GatewayInv, GatewayTypeOK, Live
<1>3. StreamsShareInstances'
  BY <1>1 DEF GatewayInv, StreamsShareInstances
<1>4. RecordIsOfLiveStream'
  BY <1>1 DEF GatewayInv, GatewayTypeOK, RecordIsOfLiveStream, Live
<1> QED
  BY <1>2, <1>3, <1>4 DEF GatewayInv

LEMMA EndStreamInv ==
  ASSUME GatewayInv, EndStream
  PROVE  GatewayInv'
<1>1. PICK st \in Stream, s \in CallSession :
        /\ st \in Live(s)
        /\ streams' = [streams EXCEPT ![st] = NoStream]
        /\ active' = [active EXCEPT ![s] = NoProvider]
        /\ robbed' = (robbed \cup Live(s)) \ {st}
        /\ UNCHANGED <<factories, instances>>
  BY DEF EndStream, Forgets
<1>2. GatewayTypeOK'
  BY <1>1 DEF GatewayInv, GatewayTypeOK, Live
<1>3. streams'[st] = NoStream /\ \A t \in Stream : t # st => streams'[t] = streams[t]
  BY <1>1 DEF GatewayInv, GatewayTypeOK
<1>4. StreamsShareInstances'
  BY <1>1, <1>3 DEF GatewayInv, StreamsShareInstances, NoStream
<1>5. Live(s)' = Live(s) \ {st} /\ \A t \in CallSession : t # s => Live(t)' = Live(t)
  BY <1>1, <1>3 DEF Live, NoStream
<1>6. RecordIsOfLiveStream'
  <2> SUFFICES ASSUME NEW t \in CallSession
               PROVE  /\ active'[t] # NoProvider =>
                           \E u \in Live(t)' : streams'[u].provider = active'[t]
                      /\ Live(t)' \ robbed' # {} => active'[t] # NoProvider
    BY DEF RecordIsOfLiveStream
  <2>1. CASE t = s
    BY <2>1, <1>1, <1>5 DEF GatewayInv, GatewayTypeOK
  <2>2. CASE t # s
    <3>1. active'[t] = active[t] /\ Live(t)' = Live(t)
      BY <1>1, <1>5, <2>2 DEF GatewayInv, GatewayTypeOK
    <3>2. \A u \in Live(t) : u # st /\ streams'[u] = streams[u]
      BY <1>1, <1>3, <2>2 DEF Live
    <3>3. Live(t) \ robbed' \subseteq Live(t) \ robbed
      BY <1>1, <3>2
    <3> QED
      BY <3>1, <3>2, <3>3 DEF GatewayInv, RecordIsOfLiveStream
  <2> QED
    BY <2>1, <2>2
<1> QED
  BY <1>2, <1>4, <1>6 DEF GatewayInv

LEMMA GatewayNextInv == GatewayInv /\ [GatewayNext]_gatewayVars => GatewayInv'
<1> SUFFICES ASSUME GatewayInv, RegisterFactory \/ UNCHANGED gatewayVars
             PROVE  GatewayInv'
  BY OpenStreamInv, RefuseStreamInv, EndStreamInv DEF GatewayNext
<1>1. GatewayTypeOK'
  BY GatewayAssumption DEF GatewayInv, GatewayTypeOK, RegisterFactory, gatewayVars
<1>2. UNCHANGED <<instances, streams, active, robbed>>
  BY DEF RegisterFactory, gatewayVars
<1> QED
  BY <1>1, <1>2 DEF GatewayInv, StreamsShareInstances, RecordIsOfLiveStream, Live

LEMMA GatewayInvCancels == GatewayInv => CancelFindsStream
<1> SUFFICES ASSUME GatewayInv
             PROVE  CancelFindsStream
  OBVIOUS
<1>1. ASSUME NEW s \in CallSession
      PROVE  /\ CancelAsks(s) \subseteq {streams[st].provider : st \in Live(s)}
             /\ Live(s) \ robbed # {} => CancelAsks(s) # {}
  BY DEF GatewayInv, RecordIsOfLiveStream, CancelAsks
<1>2. ASSUME NEW s \in CallSession, NEW t \in CallSession,
             NEW a \in Live(s), NEW b \in Live(t),
             streams[a].provider.name = streams[b].provider.name
      PROVE  streams[a].provider = streams[b].provider
  <2>1. /\ a \in Stream /\ streams[a].at = "streaming"
        /\ b \in Stream /\ streams[b].at = "streaming"
    BY DEF Live
  <2>2. streams[a].provider \in Provider /\ streams[b].provider \in Provider
    BY <2>1, StreamType DEF GatewayInv, NoStream
  <2>3. streams[a].provider.version = streams[b].provider.version
    BY <2>1, <1>2 DEF GatewayInv, StreamsShareInstances
  <2> QED
    BY <2>2, <2>3, <1>2 DEF Provider
<1> QED
  BY <1>1, <1>2 DEF CancelFindsStream

\* A cancel reaches a provider that is generating for its session, never a stale
\* one; it finds the session's only stream; and streams of one provider name
\* share an instance, with any number of overlapping calls and registrations
\* (llm_servicer.py:54-104, 170-184, registry.py:114-140).
THEOREM CancelReachesItsStream == GatewaySpec => [](CancelFindsStream /\ GatewayTypeOK)
<1>1. GatewayInv => GatewayTypeOK
  BY DEF GatewayInv
<1> QED
  BY <1>1, GatewayInitInv, GatewayNextInv, GatewayInvCancels, PTL DEF GatewaySpec

--------------------------------------------------------------------------------
(* The recognition stage: each channel is closed by the one goroutine that *)
(* sends on it, when that goroutine ends.                                  *)

ClosedBySender ==
  /\ streamClosed <=> sender = "done"
  /\ resultClosed <=> receiver = "done"
  /\ receiver = "wait" => mode = "stream"
  /\ mode = "stream" /\ resultClosed => sender = "done"
ASRInv == ASRTypeOK /\ ClosedBySender

LEMMA ASRInitInv == ASRInit => ASRInv
<1> SUFFICES ASSUME ASRInit
             PROVE  ASRInv
  OBVIOUS
<1>1. << >> \in Seq(Result) /\ Len(<< >>) = 0 /\ 0 <= ResultCap
  BY ASRAssumption, EmptySeq
<1>2. ASRTypeOK
  <2>1. /\ mode \in {"once", "stream"} /\ sender \in {"take", "put", "done"}
        /\ toCome \in 0..MaxAudio /\ stream \in 0..StreamCap /\ results \in 0..MaxResults
    BY ASRAssumption DEF ASRInit
  <2>2. /\ offer \in Result \cup {"none"} /\ provider \in {"running", "closed"}
        /\ receiver \in {"take", "wait", "done"} \cup Result
    BY DEF ASRInit
  <2>3. resultCh \in Seq(Result) /\ Len(resultCh) <= ResultCap
    BY <1>1 DEF ASRInit
  <2>4. {inputClosed, streamClosed, resultClosed, asrCancelled} \subseteq BOOLEAN
    BY DEF ASRInit
  <2> QED
    BY <2>1, <2>2, <2>3, <2>4 DEF ASRTypeOK
<1>3. ClosedBySender
  BY DEF ASRInit, ClosedBySender
<1> QED
  BY <1>2, <1>3 DEF ASRInv

LEMMA SenderStepInv ==
  ASSUME ASRInv, SenderStep
  PROVE  ASRInv'
<1> USE DEF ASRInv, SenderEnds, providerVars, receiverVars
<1>1. /\ UNCHANGED <<mode, provider, results, offer, receiver, resultCh, resultClosed, asrCancelled>>
      /\ sender \in {"take", "put"}
  BY DEF SenderStep, SenderTakes, SenderPuts
<1>2. \/ sender' = "done" /\ streamClosed' = TRUE
      \/ sender' \in {"take", "put"} /\ streamClosed' = streamClosed
  BY DEF SenderStep, SenderTakes, SenderPuts
<1>3. toCome' \in 0..MaxAudio /\ inputClosed' = inputClosed
  BY ASRAssumption DEF SenderStep, SenderTakes, SenderPuts, ASRTypeOK
<1>4. stream' \in 0..StreamCap
  BY ASRAssumption DEF SenderStep, SenderTakes, SenderPuts, ASRTypeOK
<1>5. ASRTypeOK'
  BY <1>1, <1>2, <1>3, <1>4 DEF ASRTypeOK
<1>6. ClosedBySender'
  BY <1>1, <1>2 DEF ClosedBySender
<1> QED
  BY <1>5, <1>6

LEMMA ReceiverStepInv ==
  ASSUME ASRInv, ReceiverStep
  PROVE  ASRInv'
<1> USE DEF ASRInv, ReceiverLeaves, Result, senderVars, providerVars
<1>1. /\ UNCHANGED <<mode, sender, toCome, inputClosed, stream, streamClosed, provider, results,
                     asrCancelled>>
      /\ mode \in {"once", "stream"} /\ receiver # "done"
  BY DEF ReceiverStep, ReceiverTakes, ReceiverPuts, ReceiverCloses, ASRTypeOK
<1>2. \/ receiver' = "done" /\ resultClosed' = TRUE /\ (mode = "stream" => sender = "done")
      \/ receiver' = "wait" /\ resultClosed' = FALSE /\ mode = "stream"
      \/ receiver' \in {"take"} \cup Result /\ resultClosed' = resultClosed
  BY <1>1 DEF ReceiverStep, ReceiverTakes, ReceiverPuts, ReceiverCloses, ASRTypeOK
<1>3. offer' \in Result \cup {"none"}
  BY DEF ReceiverStep, ReceiverTakes, ReceiverPuts, ReceiverCloses, ASRTypeOK
<1>4. resultCh' \in Seq(Result) /\ Len(resultCh') <= ResultCap
  <2>1. CASE resultCh' = resultCh
    BY <2>1 DEF ASRTypeOK
  <2>2. CASE resultCh' # resultCh
    <3>1. receiver \in Result /\ Len(resultCh) < ResultCap /\ resultCh' = Append(resultCh, receiver)
      BY <2>2 DEF ReceiverStep, ReceiverTakes, ReceiverPuts, ReceiverCloses
    <3>2. resultCh \in Seq(Result)
      BY DEF ASRTypeOK
    <3>3. /\ resultCh' \in Seq(Result) /\ Len(resultCh') = Len(resultCh) + 1
          /\ Len(resultCh) \in Nat /\ ResultCap \in Nat
      <4> HIDE DEF Result
      <4> QED
        BY <3>1, <3>2, ASRAssumption, AppendProperties, LenProperties
    <3> QED
      BY <3>1, <3>3
  <2> QED
    BY <2>1, <2>2
<1>5. ASRTypeOK'
  BY <1>1, <1>2, <1>3, <1>4 DEF ASRTypeOK
<1>6. ClosedBySender'
  BY <1>1, <1>2 DEF ClosedBySender
<1> QED
  BY <1>5, <1>6

LEMMA ASRSurroundingsInv ==
  ASSUME ASRInv,
         CallerClosesInput \/ CallerReads \/ CancelASR \/ ProviderReads \/ ProviderOffers
           \/ ProviderEnds \/ UNCHANGED asrVars
  PROVE  ASRInv'
<1> USE ASRAssumption
    DEF ASRInv, ASRTypeOK, ClosedBySender, Result, senderVars, providerVars, receiverVars
<1>1. CASE CallerReads
  <2>1. Tail(resultCh) \in Seq(Result) /\ Len(Tail(resultCh)) = Len(resultCh) - 1
        /\ Len(resultCh) \in Nat
    BY <1>1, HeadTailProperties, LenProperties DEF CallerReads
  <2> QED
    BY <1>1, <2>1 DEF CallerReads
<1>2. CASE CallerClosesInput
  BY <1>2 DEF CallerClosesInput
<1>3. CASE CancelASR
  BY <1>3 DEF CancelASR
<1>4. CASE ProviderReads
  BY <1>4 DEF ProviderReads
<1>5. CASE ProviderOffers
  BY <1>5 DEF ProviderOffers
<1>6. CASE ProviderEnds
  BY <1>6 DEF ProviderEnds
<1>7. CASE UNCHANGED asrVars
  BY <1>7 DEF asrVars
<1> QED
  BY <1>1, <1>2, <1>3, <1>4, <1>5, <1>6, <1>7

\* Neither goroutine of the stage sends on a channel that has been closed, nor closes one
\* twice, and a streaming call's results are closed only after its sender has ended
\* (asr_stage.go:94-127, 214-287), whatever the provider and the caller do.
THEOREM ChannelsClosedOnce == ASRSpec => [](ASRTypeOK /\ ClosedBySender)
<1>1. ASRInv /\ [ASRNext]_asrVars => ASRInv'
  BY SenderStepInv, ReceiverStepInv, ASRSurroundingsInv DEF ASRNext, SenderStep, ReceiverStep
<1>2. ASRInv => ASRTypeOK /\ ClosedBySender
  BY DEF ASRInv
<1> QED
  BY <1>1, <1>2, ASRInitInv, PTL DEF ASRSpec
================================================================================
