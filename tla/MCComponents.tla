----------------------------- MODULE MCComponents ------------------------------
(***************************************************************************)
(* The components around the engine, checked in one run.  They are         *)
(* specified apart and share no variable: a behaviour chooses one of them  *)
(* at the start and is a behaviour of that one, the others standing still  *)
(* in their initial state.  The state space is thus the sum of theirs, not *)
(* the product, and every property is about one component.                 *)
(***************************************************************************)
EXTENDS ChannelBridge, Playout, CircularBuffer, Reassembler, Chunker, AudioFormat,
        VoiceActivity, ASRStage, SessionHandler, Transport, Connection, ProviderRegistry,
        SessionStore, ProviderGateway

CONSTANTS b0, b1, asrKind, vadKind, p1, p2

\* Choices for the registry: none, a recogniser only, another one and a detector.
MCChoice == {[k \in Kind |-> NoName],
             [k \in Kind |-> IF k = asrKind THEN p1 ELSE NoName],
             [k \in Kind |-> IF k = asrKind THEN p2 ELSE p1]}

\* The extremes of 16 bits, silence, and a small negative sample.
MCSample == {-32768, -3, 0, 32767}

VARIABLE which \* the component this behaviour is about

allVars == <<which, bridgeVars, playoutVars, circularVars, reassemblerVars, chunkerVars,
                    audioVars, vadVars, asrVars, handlerVars, transportVars, connectionVars,
                    registryVars, storeVars, gatewayVars>>

\* The chosen component steps, the others do not.
OnChannelBridge ==
  /\ which = "bridge"
  /\ UNCHANGED <<which, playoutVars, circularVars, reassemblerVars, chunkerVars, audioVars,
                        vadVars, asrVars, handlerVars, transportVars, connectionVars,
                        registryVars, storeVars, gatewayVars>>
OnPlayout ==
  /\ which = "playout"
  /\ UNCHANGED <<which, bridgeVars, circularVars, reassemblerVars, chunkerVars, audioVars,
                        vadVars, asrVars, handlerVars, transportVars, connectionVars,
                        registryVars, storeVars, gatewayVars>>
OnCircularBuffer ==
  /\ which = "samples"
  /\ UNCHANGED <<which, bridgeVars, playoutVars, reassemblerVars, chunkerVars, audioVars,
                        vadVars, asrVars, handlerVars, transportVars, connectionVars,
                        registryVars, storeVars, gatewayVars>>
OnReassembler ==
  /\ which = "reassembler"
  /\ UNCHANGED <<which, bridgeVars, playoutVars, circularVars, chunkerVars, audioVars,
                        vadVars, asrVars, handlerVars, transportVars, connectionVars,
                        registryVars, storeVars, gatewayVars>>
OnChunker ==
  /\ which = "chunker"
  /\ UNCHANGED <<which, bridgeVars, playoutVars, circularVars, reassemblerVars, audioVars,
                        vadVars, asrVars, handlerVars, transportVars, connectionVars,
                        registryVars, storeVars, gatewayVars>>
OnAudioFormat ==
  /\ which = "format"
  /\ UNCHANGED <<which, bridgeVars, playoutVars, circularVars, reassemblerVars, chunkerVars,
                        vadVars, asrVars, handlerVars, transportVars, connectionVars,
                        registryVars, storeVars, gatewayVars>>
OnVoiceActivity ==
  /\ which = "vad"
  /\ UNCHANGED <<which, bridgeVars, playoutVars, circularVars, reassemblerVars, chunkerVars,
                        audioVars, asrVars, handlerVars, transportVars, connectionVars,
                        registryVars, storeVars, gatewayVars>>
OnASRStage ==
  /\ which = "asr"
  /\ UNCHANGED <<which, bridgeVars, playoutVars, circularVars, reassemblerVars, chunkerVars,
                        audioVars, vadVars, handlerVars, transportVars, connectionVars,
                        registryVars, storeVars, gatewayVars>>
OnSessionHandler ==
  /\ which = "handler"
  /\ UNCHANGED <<which, bridgeVars, playoutVars, circularVars, reassemblerVars, chunkerVars,
                        audioVars, vadVars, asrVars, transportVars, connectionVars,
                        registryVars, storeVars, gatewayVars>>
OnTransport ==
  /\ which = "transport"
  /\ UNCHANGED <<which, bridgeVars, playoutVars, circularVars, reassemblerVars, chunkerVars,
                        audioVars, vadVars, asrVars, handlerVars, connectionVars,
                        registryVars, storeVars, gatewayVars>>
OnConnection ==
  /\ which = "connection"
  /\ UNCHANGED <<which, bridgeVars, playoutVars, circularVars, reassemblerVars, chunkerVars,
                        audioVars, vadVars, asrVars, handlerVars, transportVars,
                        registryVars, storeVars, gatewayVars>>
OnProviderRegistry ==
  /\ which = "registry"
  /\ UNCHANGED <<which, bridgeVars, playoutVars, circularVars, reassemblerVars, chunkerVars,
                        audioVars, vadVars, asrVars, handlerVars, transportVars,
                        connectionVars, storeVars, gatewayVars>>
OnSessionStore ==
  /\ which = "store"
  /\ UNCHANGED <<which, bridgeVars, playoutVars, circularVars, reassemblerVars, chunkerVars,
                        audioVars, vadVars, asrVars, handlerVars, transportVars,
                        connectionVars, registryVars, gatewayVars>>
OnProviderGateway ==
  /\ which = "gateway"
  /\ UNCHANGED <<which, bridgeVars, playoutVars, circularVars, reassemblerVars, chunkerVars,
                        audioVars, vadVars, asrVars, handlerVars, transportVars,
                        connectionVars, registryVars, storeVars>>

\* What a component may start with is chosen for the one that steps.
MCInit ==
  /\ which \in {"bridge", "playout", "samples", "reassembler", "chunker", "format", "vad",
               "asr", "handler", "transport", "connection", "registry", "store",
               "gateway"}
  /\ BridgeInit
  /\ PlayoutInit
  /\ CircularInit
  /\ ReassemblerInit
  /\ ChunkerInit
  /\ AudioInit
  /\ VadInit
  /\ ASRInit
  /\ HandlerInit
  /\ TransportInit
  /\ ConnectionInit
  /\ RegistryInit
  /\ StoreInit
  /\ GatewayInit
  /\ which # "vad" => config = CHOOSE c \in VadConfig : TRUE
  /\ which # "asr" => mode = "once"
  /\ which # "handler" => hasTurn
  /\ which # "connection" => bridge = "channel" /\ noticeRoom

MCNext ==
  \/ OnChannelBridge /\ StartSession
  \/ OnChannelBridge /\ Announced
  \/ \E c \in Callers : OnChannelBridge /\ LookUp(c)
  \/ \E c \in Callers : OnChannelBridge /\ Check(c)
  \/ \E c \in Callers : OnChannelBridge /\ GiveUpOnCancel(c)
  \/ OnChannelBridge /\ SendAudio
  \/ OnChannelBridge /\ DropFrame
  \/ OnChannelBridge /\ ResendAudio
  \/ OnChannelBridge /\ SendUtterance
  \/ OnChannelBridge /\ Interrupt
  \/ OnChannelBridge /\ SendEventToSession
  \/ OnChannelBridge /\ StopSession
  \/ OnChannelBridge /\ CloseChannels
  \/ OnChannelBridge /\ CloseBridge
  \/ OnChannelBridge /\ CancelCallers
  \/ OnChannelBridge /\ OtherSessionStarts
  \/ OnChannelBridge /\ TakeNotice
  \/ OnChannelBridge /\ TakeFrame
  \/ OnChannelBridge /\ TakeUtterance
  \/ OnChannelBridge /\ TakeEvent
  \/ OnChannelBridge /\ TakeInterrupt
  \/ OnPlayout /\ BufferStep
  \/ OnPlayout /\ TakeFrameToPlay
  \/ OnPlayout /\ Advance
  \/ OnPlayout /\ Reset
  \/ OnPlayout /\ ClearBuffer
  \/ OnPlayout /\ Pause
  \/ OnPlayout /\ Resume
  \/ OnPlayout /\ SetTotalBytes
  \/ OnCircularBuffer /\ WriteSome
  \/ OnCircularBuffer /\ ReadSome
  \/ OnCircularBuffer /\ ResetCircular
  \/ \E s \in Seqs : OnReassembler /\ AddExpected(s)
  \/ \E s \in Seqs : OnReassembler /\ AddOld(s)
  \/ \E s \in Seqs : OnReassembler /\ AddEarly(s)
  \/ \E s \in Seqs : OnReassembler /\ AddWhenFull(s)
  \/ OnReassembler /\ ResetReassembler
  \/ OnChunker /\ WriteChunk
  \/ OnChunker /\ FlushChunker
  \/ OnChunker /\ ResetChunker
  \/ OnAudioFormat /\ NormalizeChunk
  \/ OnAudioFormat /\ NextChunk
  \/ \E b \in BOOLEAN : OnVoiceActivity /\ SilenceFrame(b)
  \/ \E b \in BOOLEAN : OnVoiceActivity /\ StartFrame(b)
  \/ \E b \in BOOLEAN : OnVoiceActivity /\ SpeechFrame(b)
  \/ \E b \in BOOLEAN : OnVoiceActivity /\ EndFrame(b)
  \/ OnVoiceActivity /\ Deliver
  \/ OnVoiceActivity /\ ResetVad
  \/ OnVoiceActivity /\ UpdateVadConfig
  \/ OnASRStage /\ SenderTakes
  \/ OnASRStage /\ SenderPuts
  \/ OnASRStage /\ ReceiverTakes
  \/ OnASRStage /\ ReceiverPuts
  \/ OnASRStage /\ ReceiverCloses
  \/ OnASRStage /\ CallerClosesInput
  \/ OnASRStage /\ CallerReads
  \/ OnASRStage /\ CancelASR
  \/ OnASRStage /\ ProviderReads
  \/ OnASRStage /\ ProviderOffers
  \/ OnASRStage /\ ProviderEnds
  \/ OnSessionHandler /\ StartHandler
  \/ OnSessionHandler /\ ProcessAudioChunk
  \/ OnSessionHandler /\ SpeechHeard
  \/ OnSessionHandler /\ SpeechEnds
  \/ OnSessionHandler /\ SpeechEnded
  \/ OnSessionHandler /\ AudioSent
  \/ OnSessionHandler /\ HandleInterrupt
  \/ OnSessionHandler /\ Interrupted
  \/ OnSessionHandler /\ NotifyOrchestrator
  \/ OnSessionHandler /\ ReportInterruption
  \/ OnSessionHandler /\ ClearOutput
  \/ OnSessionHandler /\ ResetTracker
  \/ OnSessionHandler /\ ListenAgain
  \/ OnSessionHandler /\ StopHandler
  \/ OnSessionHandler /\ CancelHandler
  \/ OnSessionHandler /\ CloseBuffers
  \/ OnSessionHandler /\ StopBridgeSession
  \/ OnSessionHandler /\ EventsEnd
  \/ OnSessionHandler /\ TakeOrchestratorEvent
  \/ OnSessionHandler /\ TTSAudioChunk
  \/ OnSessionHandler /\ ASRFinal
  \/ OnSessionHandler /\ SendsUtterance
  \/ OnSessionHandler /\ LLMPartialText
  \/ OnSessionHandler /\ TurnCompleted
  \/ OnSessionHandler /\ OutputEnds
  \/ OnSessionHandler /\ TakeOutputFrame
  \/ OnSessionHandler /\ SendFrame
  \/ OnSessionHandler /\ AdvancePosition
  \/ OnSessionHandler /\ BridgeClosesEvents
  \/ \E s \in Sender : OnTransport /\ FindsOpen(s)
  \/ \E s \in Sender : OnTransport /\ Accepted(s)
  \/ \E s \in Sender : OnTransport /\ Refused(s)
  \/ \E s \in Sender : OnTransport /\ Crashes(s)
  \/ OnTransport /\ CloseTransport
  \/ OnTransport /\ SignalClose
  \/ OnTransport /\ CloseWriteCh
  \/ OnTransport /\ StartWritePump
  \/ OnTransport /\ PumpTakes
  \/ OnTransport /\ PumpWrites
  \/ OnTransport /\ WriteFails
  \/ OnTransport /\ PumpSeesClose
  \/ OnTransport /\ WriteClose
  \/ OnConnection /\ Serve
  \/ OnConnection /\ RequestContextEnds
  \/ OnConnection /\ StartPump
  \/ OnConnection /\ SeesCancel
  \/ OnConnection /\ PingFails
  \/ OnConnection /\ Reads
  \/ OnConnection /\ ReadFails
  \/ OnConnection /\ BadMessage
  \/ OnConnection /\ SendError
  \/ OnConnection /\ HandlerMessage
  \/ OnConnection /\ NoActiveSession
  \/ OnConnection /\ SessionStart
  \/ OnConnection /\ AlreadyStarted
  \/ OnConnection /\ SaveSession
  \/ OnConnection /\ NewSessionHandler
  \/ OnConnection /\ StartHandlerFails
  \/ OnConnection /\ StartsHandler
  \/ OnConnection /\ BridgeStart
  \/ OnConnection /\ BridgeIsClosed
  \/ OnConnection /\ SessionAnnounced
  \/ OnConnection /\ NotAnnounced
  \/ OnConnection /\ ConfirmStarted
  \/ OnConnection /\ SessionStop
  \/ OnConnection /\ StopOnRequest
  \/ OnConnection /\ DeleteOnRequest
  \/ OnConnection /\ SendEnded
  \/ OnConnection /\ CancelOnRequest
  \/ OnConnection /\ Cleanup
  \/ OnConnection /\ CleanupHandler
  \/ OnConnection /\ Unregister
  \/ OnConnection /\ DeleteLeftover
  \/ OnConnection /\ PumpSends
  \/ OnConnection /\ PumpFails
  \/ OnConnection /\ PumpSeesCancel
  \/ OnConnection /\ CloseConnections
  \/ OnConnection /\ MainClosesBridge
  \/ OnProviderRegistry /\ RegisterProvider
  \/ OnProviderRegistry /\ SetConfig
  \/ OnProviderRegistry /\ ResolveGlobal
  \/ OnProviderRegistry /\ ResolveOverrides
  \/ OnProviderRegistry /\ ValidateNames
  \/ OnProviderRegistry /\ NextResolution
  \/ OnSessionStore /\ SaveRecord
  \/ OnSessionStore /\ DeleteRecord
  \/ OnSessionStore /\ ExtendRecord
  \/ OnSessionStore /\ BeginUpdate
  \/ OnSessionStore /\ EndUpdate
  \/ OnSessionStore /\ RecordAges
  \/ OnSessionStore /\ RecordExpires
  \/ OnSessionStore /\ StoreHot
  \/ OnSessionStore /\ StoreGeneration
  \/ OnSessionStore /\ ExpireGeneration
  \/ OnSessionStore /\ ClearGenerationID
  \/ OnSessionStore /\ HotExpires
  \/ OnSessionStore /\ GenerationExpires
  \/ OnSessionStore /\ DeleteHotState
  \/ OnProviderGateway /\ RegisterFactory
  \/ OnProviderGateway /\ OpenStream
  \/ OnProviderGateway /\ RefuseStream
  \/ OnProviderGateway /\ EndStream

\* Each component's own fairness.
MCFairness ==
  /\ WF_bridgeVars(which = "bridge" /\ SendAudioStep)
  /\ WF_asrVars(which = "asr" /\ SenderStep)
  /\ WF_asrVars(which = "asr" /\ ReceiverStep)
  /\ WF_handlerVars(which = "handler" /\ ProcWork)
  /\ WF_handlerVars(which = "handler" /\ OutWork)
  /\ WF_handlerVars(which = "handler" /\ shCancelled /\ SendsUtterance)
  /\ SF_handlerVars(which = "handler" /\ EventsEnd)
  /\ SF_handlerVars(which = "handler" /\ OutputEnds)

MCSpec == MCInit /\ [][MCNext]_allVars /\ MCFairness

\* Every component's state has its type.
TypesOK ==
  /\ BridgeTypeOK
  /\ PlayoutTypeOK
  /\ CircularTypeOK
  /\ ReassemblerTypeOK
  /\ ChunkerTypeOK
  /\ AudioTypeOK
  /\ VadTypeOK
  /\ ASRTypeOK
  /\ HandlerTypeOK
  /\ TransportTypeOK
  /\ ConnectionTypeOK
  /\ RegistryTypeOK
  /\ StoreTypeOK
  /\ GatewayTypeOK
================================================================================
