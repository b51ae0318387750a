---------------------------- MODULE SessionHandler -----------------------------
(***************************************************************************)
(* One session of the media edge (handler/session_handler.go).  Three      *)
(* goroutines share it: the connection's ("conn": Start, Stop, audio       *)
(* chunks, interrupt requests), processEvents ("proc", the orchestrator's  *)
(* events) and processAudioOutput ("out", one frame to the client every    *)
(* 10 ms).  sh.mu protects single assignments only, so a handler is cut    *)
(* at every lock and at every call that another goroutine can observe.     *)
(*                                                                         *)
(* The bridge and the transport are interfaces here: any event may come,   *)
(* its channel may be closed, any send may fail.  The results of the voice *)
(* activity detector are free (VoiceActivity says which can follow which). *)
(***************************************************************************)
EXTENDS Naturals, Integers, SessionStates

CONSTANT OutCap \* frames in outputBuffer (100)

ASSUME HandlerAssumption == OutCap \in Nat \ {0}

VARIABLES state,        \* sh.state
          sessionState, \* sh.session.CurrentState
          botSpeaking,  \* sh.botSpeaking
          speechActive, \* sh.isSpeechActive, the connection's own
          hasTurn,      \* sh.session has an active turn
          conn, proc, out, \* how far each goroutine is
          output,       \* frames in outputBuffer
          outClosed,    \* outputBuffer is closed
          shCancelled,  \* sh.ctx is done
          orchClosed,   \* orchestratorCh is closed
          ahead,        \* playout position less the frames sent since it was reset
          dead          \* a nil turn has been dereferenced: the process dies

states      == <<state, sessionState, botSpeaking>>
buffers     == <<output, outClosed, ahead>>
handlerVars == <<states, speechActive, hasTurn, conn, proc, out, buffers, shCancelled,
                 orchClosed, dead>>

ConnAt == {"idle", "frames", "ended", "interrupt", "notify", "report", "clear", "reset", "listen",
           "cancel", "closeBuffers", "stopBridge"}
ProcAt == {"off", "select", "asrFinal", "utterance", "llmPartial", "turnCompleted", "done"}
OutAt  == {"off", "tick", "send", "advance", "done"}
Interrupting == {"notify", "report", "clear", "reset", "listen"}

\* The bounds of ahead say that the position follows the client: it counts what
\* was sent since it was reset, give or take the frame on its way (lines 304-305,
\* 415-429).
HandlerTypeOK ==
  /\ state \in SessionState /\ sessionState \in SessionState
  /\ conn \in ConnAt /\ proc \in ProcAt /\ out \in OutAt
  /\ output \in 0 .. OutCap /\ ahead \in -1 .. 1
  /\ {botSpeaking, speechActive, hasTurn} \subseteq BOOLEAN
  /\ {outClosed, shCancelled, orchClosed, dead} \subseteq BOOLEAN

\* The caller supplies the session, with or without an active turn.
HandlerInit ==
  /\ state = "idle" /\ sessionState = "idle" /\ botSpeaking = FALSE /\ speechActive = FALSE
  /\ hasTurn \in BOOLEAN
  /\ conn = "idle" /\ proc = "off" /\ out = "off"
  /\ output = 0 /\ outClosed = FALSE /\ ahead = 0
  /\ shCancelled = FALSE /\ orchClosed = FALSE /\ dead = FALSE

\* session.SetState refuses what the table does not allow; the error is ignored.
SetState(s) == sessionState' = IF IsValidTransition(sessionState, s) THEN s ELSE sessionState

ConnGoes(from, to) == ~dead /\ conn = from /\ conn' = to
ProcGoes(from, to) == ~dead /\ proc = from /\ proc' = to
OutGoes(from, to)  == ~dead /\ out = from /\ out' = to

--------------------------------------------------------------------------------
\* The connection's goroutine.
StartHandler ==
  /\ ~dead /\ conn = "idle" /\ state = "idle" /\ proc = "off"
  /\ state' = "listening" /\ SetState("listening")
  /\ proc' = "select" /\ out' = "tick"
  /\ UNCHANGED <<botSpeaking, speechActive, hasTurn, conn, buffers, shCancelled, orchClosed, dead>>

ProcessAudioChunk ==
  /\ state # "idle" /\ ConnGoes("idle", "frames")
  /\ UNCHANGED <<states, speechActive, hasTurn, proc, out, buffers, shCancelled, orchClosed, dead>>

\* A speech frame.  Whether the bot is speaking is read without the lock, so
\* the answer may be an old one; handleInterruption asks again.
SpeechHeard ==
  /\ ~dead /\ conn = "frames" /\ conn' \in {"frames", "interrupt"}
  /\ speechActive' = TRUE
  /\ UNCHANGED <<states, hasTurn, proc, out, buffers, shCancelled, orchClosed, dead>>

SpeechEnds ==
  /\ speechActive /\ speechActive' = FALSE
  /\ ConnGoes("frames", "ended")
  /\ UNCHANGED <<states, hasTurn, proc, out, buffers, shCancelled, orchClosed, dead>>

SpeechEnded ==
  /\ ConnGoes("ended", "frames")
  /\ IF state = "listening" THEN state' = "processing" /\ SetState("processing")
                            ELSE UNCHANGED <<state, sessionState>>
  /\ UNCHANGED <<botSpeaking, speechActive, hasTurn, proc, out, buffers, shCancelled, orchClosed,
                 dead>>

\* bridge.SendAudio: its error is logged.
AudioSent ==
  /\ ConnGoes("frames", "idle")
  /\ UNCHANGED <<states, speechActive, hasTurn, proc, out, buffers, shCancelled, orchClosed, dead>>

HandleInterrupt ==
  /\ botSpeaking /\ ConnGoes("idle", "interrupt")
  /\ UNCHANGED <<states, speechActive, hasTurn, proc, out, buffers, shCancelled, orchClosed, dead>>

\* handleInterruption.  Back from it, the rest of the audio chunk is a chunk of
\* its own here: the state is not idle then, nor can it become so meanwhile.
Interrupted ==
  /\ ~dead /\ conn = "interrupt"
  /\ IF botSpeaking
       THEN state' = "interrupted" /\ botSpeaking' = FALSE /\ conn' = "notify"
       ELSE conn' = "idle" /\ UNCHANGED <<state, botSpeaking>>
  /\ UNCHANGED <<sessionState, speechActive, hasTurn, proc, out, buffers, shCancelled, orchClosed,
                 dead>>

NotifyOrchestrator ==
  /\ ConnGoes("notify", "report")
  /\ UNCHANGED <<states, speechActive, hasTurn, proc, out, buffers, shCancelled, orchClosed, dead>>

\* The event to the client quotes the active turn, which may be nil.
ReportInterruption ==
  /\ ConnGoes("report", "clear")
  /\ dead' = ~hasTurn
  /\ UNCHANGED <<states, speechActive, hasTurn, proc, out, buffers, shCancelled, orchClosed>>

ClearOutput ==
  /\ ConnGoes("clear", "reset")
  /\ output' = 0
  /\ UNCHANGED <<states, speechActive, hasTurn, proc, out, outClosed, ahead, shCancelled,
                 orchClosed, dead>>

ResetTracker ==
  /\ ConnGoes("reset", "listen")
  /\ ahead' = 0
  /\ UNCHANGED <<states, speechActive, hasTurn, proc, out, output, outClosed, shCancelled,
                 orchClosed, dead>>

\* Mutation: the handler does not go back to listening.
StayInterrupted ==
  /\ ConnGoes("listen", "idle")
  /\ UNCHANGED <<states, speechActive, hasTurn, proc, out, buffers, shCancelled, orchClosed, dead>>

ListenAgain ==
  /\ ConnGoes("listen", "idle")
  /\ state' = "listening" /\ SetState("listening")
  /\ UNCHANGED <<botSpeaking, speechActive, hasTurn, proc, out, buffers, shCancelled, orchClosed,
                 dead>>

\* Stop: idle first, then the context, the buffers and the bridge's session.
StopHandler ==
  /\ state # "idle" /\ ConnGoes("idle", "cancel")
  /\ state' = "idle"
  /\ UNCHANGED <<sessionState, botSpeaking, speechActive, hasTurn, proc, out, buffers, shCancelled,
                 orchClosed, dead>>

CancelHandler ==
  /\ ConnGoes("cancel", "closeBuffers")
  /\ shCancelled' = TRUE
  /\ UNCHANGED <<states, speechActive, hasTurn, proc, out, buffers, orchClosed, dead>>

CloseBuffers ==
  /\ ConnGoes("closeBuffers", "stopBridge")
  /\ outClosed' = TRUE
  /\ UNCHANGED <<states, speechActive, hasTurn, proc, out, output, ahead, shCancelled, orchClosed,
                 dead>>

StopBridgeSession ==
  /\ ConnGoes("stopBridge", "idle")
  /\ orchClosed' = TRUE
  /\ UNCHANGED <<states, speechActive, hasTurn, proc, out, buffers, shCancelled, dead>>

--------------------------------------------------------------------------------
\* processEvents, one event at a time; what it sends to the client may be lost.
EventsEnd ==
  /\ shCancelled \/ orchClosed
  /\ ProcGoes("select", "done")
  /\ UNCHANGED <<states, speechActive, hasTurn, conn, out, buffers, shCancelled, orchClosed, dead>>

\* Partial transcripts, errors, other turn events and unknown ones change nothing.
TakeOrchestratorEvent ==
  /\ ~dead /\ proc = "select" /\ ~orchClosed
  /\ proc' \in {"asrFinal", "llmPartial", "turnCompleted"}
  /\ UNCHANGED <<states, speechActive, hasTurn, conn, out, buffers, shCancelled, orchClosed, dead>>

TTSAudioChunk ==
  /\ ~orchClosed /\ ProcGoes("select", "select")
  /\ output' = IF outClosed \/ output = OutCap THEN output ELSE output + 1
  /\ UNCHANGED <<states, speechActive, hasTurn, conn, out, outClosed, ahead, shCancelled,
                 orchClosed, dead>>

ASRFinal ==
  /\ ProcGoes("asrFinal", "utterance")
  /\ state' = "processing"
  /\ UNCHANGED <<sessionState, botSpeaking, speechActive, hasTurn, conn, out, buffers, shCancelled,
                 orchClosed, dead>>

\* Mutation: the utterance is sent with a context of its own, and nobody makes
\* room in the channel of a stopped session.
UtteranceUncancelled ==
  /\ ~shCancelled /\ ProcGoes("utterance", "select")
  /\ UNCHANGED <<states, speechActive, hasTurn, conn, out, buffers, shCancelled, orchClosed, dead>>

\* bridge.SendUserUtterance returns once there is room, or with the context done.
SendsUtterance ==
  /\ ProcGoes("utterance", "select")
  /\ UNCHANGED <<states, speechActive, hasTurn, conn, out, buffers, shCancelled, orchClosed, dead>>

LLMPartialText ==
  /\ ProcGoes("llmPartial", "select")
  /\ IF state = "processing"
       THEN state' = "speaking" /\ SetState("speaking") /\ botSpeaking' = TRUE
       ELSE UNCHANGED states
  /\ UNCHANGED <<speechActive, hasTurn, conn, out, buffers, shCancelled, orchClosed, dead>>

TurnCompleted ==
  /\ ProcGoes("turnCompleted", "select")
  /\ botSpeaking' = FALSE /\ state' = "listening" /\ SetState("listening")
  /\ UNCHANGED <<speechActive, hasTurn, conn, out, buffers, shCancelled, orchClosed, dead>>

\* processAudioOutput: a frame from the buffer, to the client, into the position.
OutputEnds ==
  /\ shCancelled /\ OutGoes("tick", "done")
  /\ UNCHANGED <<states, speechActive, hasTurn, conn, proc, buffers, shCancelled, orchClosed, dead>>

TakeOutputFrame ==
  /\ output > 0 /\ output' = output - 1
  /\ OutGoes("tick", "send")
  /\ UNCHANGED <<states, speechActive, hasTurn, conn, proc, outClosed, ahead, shCancelled,
                 orchClosed, dead>>

\* Mutation: a frame the transport refused is counted as played.
CountRefusedFrame ==
  /\ ~dead /\ out = "send" /\ out' = "advance"
  /\ ahead' \in {ahead, ahead - 1}
  /\ UNCHANGED <<states, speechActive, hasTurn, conn, proc, output, outClosed, shCancelled,
                 orchClosed, dead>>

SendFrame ==
  /\ ~dead /\ out = "send"
  /\ \/ out' = "advance" /\ ahead' = ahead - 1
     \/ out' = "tick" /\ UNCHANGED ahead \* the transport refused it
  /\ UNCHANGED <<states, speechActive, hasTurn, conn, proc, output, outClosed, shCancelled,
                 orchClosed, dead>>

AdvancePosition ==
  /\ OutGoes("advance", "tick")
  /\ ahead' = ahead + 1
  /\ UNCHANGED <<states, speechActive, hasTurn, conn, proc, output, outClosed, shCancelled,
                 orchClosed, dead>>

\* The bridge may close the session's events by itself, at shutdown.
BridgeClosesEvents ==
  /\ ~dead /\ ~orchClosed /\ proc # "off" /\ orchClosed' = TRUE
  /\ UNCHANGED <<states, speechActive, hasTurn, conn, proc, out, buffers, shCancelled, dead>>

HandlerNext ==
  \/ StartHandler \/ ProcessAudioChunk \/ SpeechHeard \/ SpeechEnds \/ SpeechEnded \/ AudioSent
  \/ HandleInterrupt \/ Interrupted \/ NotifyOrchestrator \/ ReportInterruption \/ ClearOutput
  \/ ResetTracker \/ ListenAgain
  \/ StopHandler \/ CancelHandler \/ CloseBuffers \/ StopBridgeSession
  \/ EventsEnd \/ TakeOrchestratorEvent \/ TTSAudioChunk \/ ASRFinal \/ SendsUtterance
  \/ LLMPartialText \/ TurnCompleted
  \/ OutputEnds \/ TakeOutputFrame \/ SendFrame \/ AdvancePosition
  \/ BridgeClosesEvents

ProcWork == ASRFinal \/ LLMPartialText \/ TurnCompleted
OutWork  == SendFrame \/ AdvancePosition

\* Goroutines are scheduled; a select chooses at random among its ready cases,
\* so that a done context is not passed over for ever; SendUserUtterance
\* returns when its context is done.
HandlerFairness ==
  /\ WF_handlerVars(ProcWork) /\ WF_handlerVars(OutWork)
  /\ WF_handlerVars(shCancelled /\ SendsUtterance)
  /\ SF_handlerVars(EventsEnd) /\ SF_handlerVars(OutputEnds)

HandlerSpec == HandlerInit /\ [][HandlerNext]_handlerVars /\ HandlerFairness

--------------------------------------------------------------------------------
\* The state names what is going on, though three goroutines assign it: the
\* bot is speaking in "speaking", an interruption is being handled in
\* "interrupted", and a started handler is idle only while or after it is
\* stopped (lines 149-174, 280-314, 345-390).
StateIsExplained ==
  ~dead =>
    /\ state = "speaking" => botSpeaking
    /\ state = "interrupted" => conn \in Interrupting
    /\ state = "idle" => proc = "off" \/ shCancelled \/ conn = "cancel"

\* Stop ends both goroutines, whatever they are in the middle of (unless the
\* process dies).
StopEndsGoroutines == shCancelled ~> (dead \/ (proc = "done" /\ out = "done"))
================================================================================
