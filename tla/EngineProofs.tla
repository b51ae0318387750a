---------------------------- MODULE EngineProofs ----------------------------
(* Proofs about the engine's session, for every number of utterances, tokens, *)
(* interruptions and stops and every capacity of the channels.                *)
EXTENDS Engine, TLAPS

(* The goroutines of an utterance only run while its ProcessUserUtterance     *)
(* waits for them, and an utterance in progress is one that was taken.        *)
Phases ==
  /\ loop \in {"generate", "startTurn", "startTTS", "wait"} => utt \in Utterances
  /\ loop # "wait" => proc \in {"off", "done"} /\ audio \in {"off", "done"}

(* An event's outcome is a state: the one it found or the one it targets.     *)
LEMMA AfterEventCases ==
  ASSUME NEW s \in SessionState, NEW event \in EventType
  PROVE  /\ AfterEvent(s, event) \in SessionState
         /\ AfterEvent(s, event) = s \/ AfterEvent(s, event) = Target(event)
<1>1. Target(event) \in SessionState
  BY DEF EventType, Target, SessionState
<1>2. resolveTargetState(s, event) \in {s, Target(event)}
  BY DEF resolveTargetState
<1>3. QED
  BY <1>1, <1>2 DEF AfterEvent

(* The channels' sequences under the two operations the goroutines do.        *)
LEMMA ChannelOps ==
  ASSUME NEW S, NEW q \in Seq(S)
  PROVE  /\ \A x \in S : Append(q, x) \in Seq(S) /\ Len(Append(q, x)) = Len(q) + 1
         /\ q # <<>> => /\ Head(q) \in S /\ Tail(q) \in Seq(S)
                        /\ Len(Tail(q)) = Len(q) - 1 /\ Len(q) > 0
         /\ Len(q) \in Nat
  OBVIOUS

(* The playout cursor stays at zero, so a turn never commits anything.        *)
LEMMA NothingCommittable ==
  ASSUME SessionOK
  PROVE  ~(Committable(turn) > 0)
  BY DEF SessionOK, Committable

-----------------------------------------------------------------------------
(* Types *)

LEMMA InitTypes == Init => TypeOK /\ Phases
<1> SUFFICES ASSUME Init PROVE TypeOK /\ Phases
  OBVIOUS
<1> USE EngineAssumption DEF Init
<1>1. SessionOK
  <2>1. <<>> \in Seq(Messages)
    OBVIOUS
  <2>2. NoTurn \in [utt : 0..MaxUtterances, text : Nat, cursor : {0},
                    interrupted : BOOLEAN]
    BY DEF NoTurn
  <2>3. QED
    BY <2>1, <2>2 DEF SessionOK, SessionState
<1>2. LLMOK
  <2>1. <<>> \in Seq({"mid", "final", "error"}) /\ Len(<<>>) = 0
    OBVIOUS
  <2>2. QED
    BY <2>1 DEF LLMOK
<1>3. LoopOK /\ Phases
  BY DEF LoopOK, Phases
<1>4. ProcOK /\ TTSOK
  <2>1. 0 \in 0..TTSTokenCap /\ 0 \in 0..AudioCap
    OBVIOUS
  <2>2. ProcOK
    BY <2>1 DEF ProcOK
  <2>3. TTSOK
    BY <2>1 DEF TTSOK
  <2>4. QED
    BY <2>2, <2>3
<1>5. AudioOK /\ CallsOK
  BY DEF AudioOK, CallsOK
<1>6. QED
  BY <1>1, <1>2, <1>3, <1>4, <1>5 DEF TypeOK

LEMMA LoopTypes ==
  ASSUME TypeOK, Phases, SeeASRClosed \/ TakeTranscript \/ LoopStep
  PROVE  TypeOK' /\ Phases'
<1> USE EngineAssumption DEF TypeOK, sessionVars, loopVars, llmVars,
        procVars, ttsVars, callVars
<1>1. CASE SeeASRClosed \/ SeeCancelled
  <2>1. loop = "recv" /\ EndSession
    BY <1>1 DEF SeeASRClosed, SeeCancelled
  <2>2. SessionOK' /\ LoopOK' /\ Phases'
    BY <2>1 DEF EndSession, SessionOK, LoopOK, Phases
  <2>3. LLMOK' /\ ProcOK' /\ TTSOK' /\ AudioOK' /\ CallsOK'
    BY <2>1 DEF EndSession, LLMOK, ProcOK, TTSOK, AudioOK, CallsOK
  <2>4. QED
    BY <2>2, <2>3
<1>2. CASE TakeTranscript
  <2>1. AfterEvent(fsm, "asr_final") \in SessionState
    BY AfterEventCases DEF EventType, SessionOK
  <2>2. utt + 1 \in Utterances
    BY <1>2 DEF TakeTranscript, LoopOK, Utterances
  <2>3. Append(history, Message("user", utt + 1)) \in Seq(Messages)
    BY <2>2 DEF Message, Messages, SessionOK
  <2>4. SessionOK'
    BY <1>2, <2>1, <2>3 DEF TakeTranscript, SessionOK
  <2>5. LoopOK' /\ Phases'
    BY <1>2, <2>2 DEF TakeTranscript, LoopOK, Phases, Utterances
  <2>6. LLMOK' /\ ProcOK' /\ TTSOK' /\ AudioOK' /\ CallsOK'
    BY <1>2 DEF TakeTranscript, LLMOK, ProcOK, TTSOK, AudioOK, CallsOK
  <2>7. QED
    BY <2>4, <2>5, <2>6
<1>3. CASE Generate
  <2>1. utt \in Utterances
    BY <1>3 DEF Generate, Phases
  <2>2. LLMOK'
    BY <1>3, <2>1 DEF Generate, LLMOK
  <2>3. QED
    BY <1>3, <2>2 DEF Generate, SessionOK, LoopOK, ProcOK, TTSOK, AudioOK, CallsOK, Phases
<1>4. CASE GenerateFails
  BY <1>4 DEF GenerateFails, SessionOK, LoopOK, LLMOK, ProcOK, TTSOK, AudioOK, CallsOK,
              Phases
<1>5. CASE StartTurn
  <2>1. SessionOK'
    BY <1>5 DEF StartTurn, SessionOK, LoopOK, NoTurn
  <2>2. QED
    BY <1>5, <2>1 DEF StartTurn, LoopOK, LLMOK, ProcOK, TTSOK, AudioOK, CallsOK, Phases
<1>6. CASE StartTTS
  <2>1. LoopOK' /\ Phases'
    BY <1>6 DEF StartTTS, LoopOK, Phases
  <2>2. ProcOK'
    BY <1>6 DEF StartTTS, ProcOK
  <2>3. TTSOK'
    <3>1. 0 \in 0..AudioCap
      OBVIOUS
    <3>2. QED
      BY <1>6, <3>1 DEF StartTTS, TTSOK
  <2>4. QED
    BY <1>6, <2>1, <2>2, <2>3 DEF StartTTS, SessionOK, LLMOK, AudioOK, CallsOK
<1>7. CASE UtteranceDone
  <2>1. AfterEvent(fsm, "bot_finished") \in SessionState
    BY AfterEventCases DEF EventType, SessionOK
  <2>2. QED
    BY <1>7, <2>1 DEF UtteranceDone, SessionOK, LoopOK, LLMOK, ProcOK, TTSOK, AudioOK,
                      CallsOK, Phases
<1>8. QED
  BY <1>1, <1>2, <1>3, <1>4, <1>5, <1>6, <1>7 DEF LoopStep

LEMMA LLMTypes ==
  ASSUME TypeOK, Phases, NEW u \in Utterances, LLMStep(u)
  PROVE  TypeOK' /\ Phases'
<1> USE EngineAssumption DEF TypeOK, sessionVars, loopVars, procVars, ttsVars, callVars,
        notLLM, EndGeneration
<1>1. LLMOK'
  <2>1. CASE LLMReceive(u)
    BY <2>1 DEF LLMReceive, LLMOK
  <2>2. CASE LLMStreamEnds(u)
    BY <2>2 DEF LLMStreamEnds, LLMOK
  <2>3. CASE LLMForward(u)
    <3>1. hold[u] \in {"mid", "final", "error"} /\ tokenCh[u] \in Seq({"mid", "final", "error"})
      BY <2>3 DEF LLMForward, LLMOK
    <3>2. /\ Append(tokenCh[u], hold[u]) \in Seq({"mid", "final", "error"})
          /\ Len(Append(tokenCh[u], hold[u])) <= TokenCap
      BY <2>3, <3>1, ChannelOps DEF LLMForward
    <3>3. QED
      BY <2>3, <3>2 DEF LLMForward, LLMOK
  <2>4. CASE LLMCancelled(u)
    BY <2>4 DEF LLMCancelled, LLMOK
  <2>5. QED
    BY <2>1, <2>2, <2>3, <2>4 DEF LLMStep
<1>2. UNCHANGED notLLM
  BY DEF LLMStep, LLMReceive, LLMStreamEnds, LLMForward, LLMCancelled
<1>3. QED
  BY <1>1, <1>2 DEF SessionOK, LoopOK, ProcOK, TTSOK, AudioOK, CallsOK, Phases

LEMMA ProcTypes ==
  ASSUME TypeOK, Phases, ProcStep
  PROVE  TypeOK' /\ Phases'
<1> USE EngineAssumption DEF TypeOK, sessionVars, loopVars, ttsVars, callVars, notProc
<1>1. UNCHANGED notProc
  BY DEF ProcStep, ProcReceive, ProcClosed, ProcAppend, ProcSend, ProcQuit, ProcCommit
<1>2. LoopOK' /\ TTSOK' /\ AudioOK' /\ CallsOK'
  BY <1>1 DEF LoopOK, TTSOK, AudioOK, CallsOK
<1>3. proc # "off" /\ proc # "done" /\ loop = "wait" /\ utt \in Utterances
  BY DEF ProcStep, ProcReceive, ProcClosed, ProcAppend, ProcSend, ProcQuit, ProcCommit, Phases
<1>4. Phases'
  BY <1>1, <1>3 DEF Phases
<1>5. CASE ProcReceive
  <2>1. AfterEvent(fsm, "first_tts_audio") \in SessionState
    BY AfterEventCases DEF EventType, SessionOK
  <2>2. /\ Head(tokenCh[utt]) \in {"mid", "final", "error"}
        /\ Tail(tokenCh[utt]) \in Seq({"mid", "final", "error"})
        /\ Len(Tail(tokenCh[utt])) <= TokenCap
    BY <1>3, <1>5, ChannelOps DEF ProcReceive, LLMOK
  <2>3. LLMOK'
    BY <1>1, <1>5, <2>2 DEF ProcReceive, LLMOK
  <2>4. SessionOK' /\ ProcOK'
    BY <1>1, <1>5, <2>1, <2>2 DEF ProcReceive, SessionOK, ProcOK
  <2>5. QED
    BY <1>2, <1>4, <2>3, <2>4
<1>6. CASE ProcAppend
  <2>1. SessionOK'
    BY <1>1, <1>6 DEF ProcAppend, SessionOK
  <2>2. QED
    BY <1>1, <1>2, <1>4, <1>6, <2>1 DEF ProcAppend, LLMOK, ProcOK
<1>7. CASE ProcClosed \/ ProcSend \/ ProcQuit
  BY <1>1, <1>2, <1>4, <1>7 DEF ProcClosed, ProcSend, ProcQuit, SessionOK, LLMOK, ProcOK
<1>8. CASE ProcCommit
  <2>1. turn' = NoTurn /\ history' = history
    BY <1>8, NothingCommittable DEF ProcCommit, CommitTurn
  <2>2. SessionOK'
    BY <1>1, <1>8, <2>1 DEF ProcCommit, SessionOK, NoTurn
  <2>3. QED
    BY <1>1, <1>2, <1>4, <1>8, <2>2 DEF ProcCommit, LLMOK, ProcOK
<1>9. QED
  BY <1>5, <1>6, <1>7, <1>8 DEF ProcStep

LEMMA TTSTypes ==
  ASSUME TypeOK, Phases, TTSStep \/ OrphanEnds
  PROVE  TypeOK' /\ Phases'
<1> USE EngineAssumption DEF TypeOK, sessionVars, loopVars, llmVars, callVars,
        notTTS, StartSegment, EndTTS, EndSegment
<1>1. UNCHANGED notTTS
  BY DEF TTSStep, OrphanEnds, TTSReceive, TTSInputEnds, TTSCancelled, SegmentSpoken,
         SegmentCut, SegmentAbandoned
<1>2. SessionOK' /\ LoopOK' /\ LLMOK' /\ AudioOK' /\ CallsOK' /\ Phases'
  BY <1>1 DEF SessionOK, LoopOK, LLMOK, AudioOK, CallsOK, Phases
<1>3. ProcOK'
  BY <1>1 DEF ProcOK, TTSStep, OrphanEnds, TTSReceive, TTSInputEnds, TTSCancelled,
              SegmentSpoken, SegmentCut, SegmentAbandoned
<1>4. TTSOK'
  <2>1. CASE TTSReceive
    BY <2>1 DEF TTSReceive, TTSOK
  <2>2. CASE TTSInputEnds \/ TTSCancelled
    BY <2>2 DEF TTSInputEnds, TTSCancelled, TTSOK
  <2>3. CASE SegmentSpoken
    BY <2>3 DEF SegmentSpoken, TTSOK
  <2>4. CASE SegmentCut \/ SegmentAbandoned \/ OrphanEnds
    BY <2>4 DEF SegmentCut, SegmentAbandoned, OrphanEnds, TTSOK
  <2>5. QED
    BY <2>1, <2>2, <2>3, <2>4 DEF TTSStep
<1>5. QED
  BY <1>2, <1>3, <1>4

LEMMA AudioTypes ==
  ASSUME TypeOK, Phases, AudioStep
  PROVE  TypeOK' /\ Phases'
<1> USE EngineAssumption DEF TypeOK, sessionVars, loopVars, llmVars, procVars, callVars,
        notAudio
<1>1. UNCHANGED notAudio /\ audio = "range" /\ loop = "wait" /\ utt \in Utterances
  BY DEF AudioStep, AudioForward, AudioEnds, Phases
<1>2. SessionOK' /\ LoopOK' /\ LLMOK' /\ ProcOK' /\ CallsOK' /\ Phases'
  BY <1>1 DEF SessionOK, LoopOK, LLMOK, ProcOK, CallsOK, Phases
<1>3. TTSOK' /\ AudioOK'
  BY <1>1 DEF TTSOK, AudioOK, AudioStep, AudioForward, AudioEnds
<1>4. QED
  BY <1>2, <1>3

LEMMA InterruptTypes ==
  ASSUME TypeOK, Phases, InterruptBegin \/ InterruptStep
  PROVE  TypeOK' /\ Phases'
<1> USE EngineAssumption DEF TypeOK, sessionVars, loopVars, llmVars, procVars, ttsVars,
        callVars, notIntr
<1>1. CASE InterruptBegin
  <2>1. AfterEvent(fsm, "interruption") \in SessionState
    BY AfterEventCases DEF EventType, SessionOK
  <2>2. QED
    BY <1>1, <2>1 DEF InterruptBegin, SessionOK, LoopOK, LLMOK, ProcOK, TTSOK, AudioOK,
                      CallsOK, Phases
<1>2. CASE InterruptLLM
  <2>1. LLMOK'
    BY <1>2 DEF InterruptLLM, LLMOK
  <2>2. QED
    BY <1>2, <2>1 DEF InterruptLLM, SessionOK, LoopOK, ProcOK, TTSOK, AudioOK, CallsOK, Phases
<1>3. CASE InterruptTTS
  <2>1. synthCancelled' \in BOOLEAN /\ segmentCancelled' \in BOOLEAN
    BY <1>3 DEF InterruptTTS
  <2>2. TTSOK'
    BY <1>3, <2>1 DEF InterruptTTS, TTSOK
  <2>3. CallsOK'
    BY <1>3 DEF InterruptTTS, CallsOK, LoopOK
  <2>4. QED
    BY <1>3, <2>2, <2>3 DEF InterruptTTS, SessionOK, LoopOK, LLMOK, ProcOK, AudioOK, Phases
<1>4. CASE InterruptTTSDelete
  BY <1>4 DEF InterruptTTSDelete, SessionOK, LoopOK, LLMOK, ProcOK, TTSOK, AudioOK,
              CallsOK, Phases
<1>5. CASE InterruptMark
  <2>1. SessionOK'
    BY <1>5 DEF InterruptMark, SessionOK
  <2>2. QED
    BY <1>5, <2>1 DEF InterruptMark, LoopOK, LLMOK, ProcOK, TTSOK, AudioOK, CallsOK, Phases
<1>6. CASE InterruptCommit
  <2>1. turn' = NoTurn /\ history' = history
    BY <1>6, NothingCommittable DEF InterruptCommit
  <2>2. SessionOK'
    BY <1>6, <2>1 DEF InterruptCommit, SessionOK, NoTurn
  <2>3. QED
    BY <1>6, <2>2 DEF InterruptCommit, LoopOK, LLMOK, ProcOK, TTSOK, AudioOK, CallsOK, Phases
<1>7. CASE InterruptListen
  <2>1. AfterEvent(fsm, "speech_start") \in SessionState
    BY AfterEventCases DEF EventType, SessionOK
  <2>2. QED
    BY <1>7, <2>1 DEF InterruptListen, SessionOK, LoopOK, LLMOK, ProcOK, TTSOK, AudioOK,
                      CallsOK, Phases
<1>8. QED
  BY <1>1, <1>2, <1>3, <1>4, <1>5, <1>6, <1>7 DEF InterruptStep

LEMMA StopTypes ==
  ASSUME TypeOK, Phases, CallerCancels \/ StopBegin \/ StopFSM \/ StopDelete
  PROVE  TypeOK' /\ Phases'
<1> USE EngineAssumption DEF TypeOK, sessionVars, loopVars, llmVars, procVars, ttsVars,
        notStop
<1>1. AfterEvent(fsm, "session_stop") \in SessionState
  BY AfterEventCases DEF EventType, SessionOK
<1>2. UNCHANGED notStop
  BY DEF CallerCancels, StopBegin, StopFSM, StopDelete
<1>3. SessionOK'
  BY <1>1, <1>2 DEF CallerCancels, StopBegin, StopFSM, StopDelete, SessionOK
<1>4. CallsOK'
  BY <1>2 DEF CallerCancels, StopBegin, StopFSM, StopDelete, CallsOK
<1>5. QED
  BY <1>2, <1>3, <1>4 DEF LoopOK, LLMOK, ProcOK, TTSOK, AudioOK, Phases

LEMMA StutterTypes ==
  ASSUME TypeOK, Phases, UNCHANGED vars
  PROVE  TypeOK' /\ Phases'
  BY DEF vars, sessionVars, loopVars, llmVars, procVars, ttsVars, callVars,
         TypeOK, SessionOK, LoopOK, LLMOK, ProcOK, TTSOK, AudioOK, CallsOK, Phases

(* Every variable keeps its type and no channel exceeds its capacity, for     *)
(* every bound: the goroutines send only where they find room.                *)
THEOREM EngineTypeCorrect == Spec => [](TypeOK /\ Phases)
<1>1. TypeOK /\ Phases /\ [Next]_vars => (TypeOK /\ Phases)'
  BY LoopTypes, LLMTypes, ProcTypes, TTSTypes, AudioTypes, InterruptTypes, StopTypes,
     StutterTypes DEF Next
<1>2. QED
  BY <1>1, InitTypes, PTL DEF Spec

-----------------------------------------------------------------------------
(* The state machine *)

(* The two events that must lead away from where the session is.              *)
LEMMA EventsLeave ==
  /\ AfterEvent("speaking", "bot_finished") = "idle"
  /\ AfterEvent("interrupted", "speech_start") = "listening"
  BY DEF AfterEvent, resolveTargetState, Sources, Target, isValidTransition,
         IsValidTransition, validTransitions, SessionState

(* Each step leaves the FSM alone or applies one event to it.                 *)
LEMMA FSMSteps ==
  ASSUME TypeOK, Phases, [Next]_vars
  PROVE  \/ fsm' = fsm /\ ~(loop = "wait" /\ loop' # "wait")
            /\ (intr # "idle" => intr' # "idle")
         \/ fsm' = AfterEvent(fsm, "asr_final") /\ loop = "recv" /\ intr' = intr
         \/ fsm' = AfterEvent(fsm, "bot_finished") /\ intr' = intr
         \/ fsm' = AfterEvent(fsm, "first_tts_audio") /\ loop' = "wait" /\ intr' = intr
         \/ fsm' = AfterEvent(fsm, "interruption") /\ loop' = loop /\ intr' # "idle"
         \/ fsm' = AfterEvent(fsm, "speech_start") /\ loop' = loop
         \/ fsm' = AfterEvent(fsm, "session_stop") /\ loop' = loop /\ intr' = intr
<1> USE DEF sessionVars, loopVars, callVars
<1>1. CASE SeeASRClosed \/ TakeTranscript \/ LoopStep
  BY <1>1 DEF SeeASRClosed, SeeCancelled, EndSession, TakeTranscript, LoopStep, Generate,
              GenerateFails, StartTurn, StartTTS, UtteranceDone
<1>2. CASE \E u \in Utterances : LLMStep(u)
  BY <1>2 DEF LLMStep, LLMReceive, LLMStreamEnds, LLMForward, LLMCancelled, notLLM
<1>3. CASE ProcStep
  BY <1>3 DEF ProcStep, ProcReceive, ProcClosed, ProcAppend, ProcSend, ProcQuit,
              ProcCommit, notProc, Phases
<1>4. CASE TTSStep \/ OrphanEnds
  BY <1>4 DEF TTSStep, OrphanEnds, TTSReceive, TTSInputEnds, TTSCancelled, SegmentSpoken,
              SegmentCut, SegmentAbandoned, notTTS
<1>5. CASE AudioStep
  BY <1>5 DEF AudioStep, AudioForward, AudioEnds, notAudio
<1>6. CASE InterruptBegin \/ InterruptStep
  BY <1>6 DEF InterruptBegin, InterruptStep, InterruptLLM, InterruptTTS,
              InterruptTTSDelete, InterruptMark, InterruptCommit, InterruptListen, notIntr
<1>7. CASE CallerCancels \/ StopBegin \/ StopFSM \/ StopDelete
  BY <1>7 DEF CallerCancels, StopBegin, StopFSM, StopDelete, notStop
<1>8. CASE UNCHANGED vars
  BY <1>8 DEF vars
<1>9. QED
  BY <1>1, <1>2, <1>3, <1>4, <1>5, <1>6, <1>7, <1>8 DEF Next

LEMMA StateMachineStep ==
  ASSUME TypeOK, Phases, StateHasItsCause, [Next]_vars
  PROVE  StateHasItsCause'
<1> USE DEF StateHasItsCause
<1>1. \A e \in EventType : AfterEvent(fsm, e) = fsm \/ AfterEvent(fsm, e) = Target(e)
  BY AfterEventCases DEF TypeOK, SessionOK
<1>2. /\ AfterEvent(fsm, "asr_final") \in {fsm, "processing"}
      /\ AfterEvent(fsm, "bot_finished") \in {fsm, "idle"}
      /\ AfterEvent(fsm, "first_tts_audio") \in {fsm, "speaking"}
      /\ AfterEvent(fsm, "interruption") \in {fsm, "interrupted"}
      /\ AfterEvent(fsm, "speech_start") \in {fsm, "listening"}
      /\ AfterEvent(fsm, "session_stop") \in {fsm, "idle"}
  BY <1>1 DEF EventType, Target
<1>3. fsm' = "speaking" => loop' = "wait"
  BY <1>2, FSMSteps, EventsLeave
<1>4. fsm' = "interrupted" => intr' # "idle"
  BY <1>2, FSMSteps, EventsLeave
<1>5. QED
  BY <1>3, <1>4

(* No interleaving of the utterances, interruptions and stops leaves the      *)
(* session speaking when nobody speaks, nor interrupted with no handler to    *)
(* bring it back.                                                             *)
THEOREM EngineStateHasItsCause == Spec => []StateHasItsCause
<1>1. Init => StateHasItsCause
  BY DEF Init, StateHasItsCause
<1>2. QED
  BY <1>1, EngineTypeCorrect, StateMachineStep, PTL DEF Spec

-----------------------------------------------------------------------------
(* The cancel functions *)

LEMMA CancelFunctionsStep ==
  ASSUME TypeOK, Phases, CancelFunctionsAreOfRunning, [Next]_vars
  PROVE  CancelFunctionsAreOfRunning'
<1> USE DEF CancelFunctionsAreOfRunning
<1>1. \A u, v \in Utterances : StageGen(u) = StageGen(v) => u = v
  BY DEF StageGen
<1>2. \A u, v : StageGen(u) # TurnGen(v)
  BY DEF StageGen, TurnGen
<1>3. CASE Generate
  <2>1. utt \in Utterances /\ llm' = [llm EXCEPT ![utt] = "run"]
    BY <1>3 DEF Generate, Phases
  <2>2. /\ activeGens' = IF cancelled THEN activeGens ELSE activeGens \cup {StageGen(utt)}
        /\ cancelled' = cancelled
    BY <1>3 DEF Generate, sessionVars
  <2>3. llm \in [Utterances -> {"off", "run", "done"}]
    BY DEF TypeOK, LLMOK
  <2>4. QED
    BY <1>1, <2>1, <2>2, <2>3
<1>4. ASSUME NEW u \in Utterances, LLMStep(u) PROVE CancelFunctionsAreOfRunning'
  <2>1. /\ UNCHANGED cancelled
        /\ \/ UNCHANGED <<llm, activeGens>>
           \/ llm' = [llm EXCEPT ![u] = "done"] /\ activeGens' = activeGens \ {StageGen(u)}
    BY <1>4 DEF LLMStep, LLMReceive, LLMStreamEnds, LLMForward, LLMCancelled,
                EndGeneration, notLLM, sessionVars
  <2>2. llm \in [Utterances -> {"off", "run", "done"}]
    BY DEF TypeOK, LLMOK
  <2>3. QED
    BY <1>1, <2>1, <2>2
<1>5. CASE InterruptLLM
  <2>1. /\ UNCHANGED <<llm, cancelled>>
        /\ activeGens' = activeGens \/ \E v : activeGens' = activeGens \ {TurnGen(v)}
    BY <1>5 DEF InterruptLLM, notIntr, sessionVars
  <2>2. QED
    BY <1>2, <2>1
<1>6. CASE /\ UNCHANGED <<llm, activeGens>>
           /\ cancelled => cancelled'
  BY <1>6
<1>7. \/ Generate \/ (\E u \in Utterances : LLMStep(u)) \/ InterruptLLM
      \/ /\ UNCHANGED <<llm, activeGens>>
         /\ cancelled => cancelled'
  <2> USE DEF sessionVars, llmVars
  <2>1. CASE SeeASRClosed \/ TakeTranscript \/ LoopStep
    BY <2>1 DEF SeeASRClosed, SeeCancelled, EndSession, TakeTranscript, LoopStep,
                GenerateFails, StartTurn, StartTTS, UtteranceDone
  <2>2. CASE ProcStep
    BY <2>2 DEF ProcStep, ProcReceive, ProcClosed, ProcAppend, ProcSend, ProcQuit,
                ProcCommit, notProc
  <2>3. CASE TTSStep \/ OrphanEnds \/ AudioStep
    BY <2>3 DEF TTSStep, OrphanEnds, TTSReceive, TTSInputEnds, TTSCancelled,
                SegmentSpoken, SegmentCut, SegmentAbandoned, notTTS,
                AudioStep, AudioForward, AudioEnds, notAudio
  <2>4. CASE InterruptBegin \/ InterruptStep
    BY <2>4 DEF InterruptBegin, InterruptStep, InterruptTTS, InterruptTTSDelete,
                InterruptMark, InterruptCommit, InterruptListen, notIntr
  <2>5. CASE CallerCancels \/ StopBegin \/ StopFSM \/ StopDelete
    BY <2>5 DEF CallerCancels, StopBegin, StopFSM, StopDelete, notStop
  <2>6. CASE UNCHANGED vars
    BY <2>6 DEF vars
  <2>7. QED
    BY <2>1, <2>2, <2>3, <2>4, <2>5, <2>6 DEF Next
<1>8. QED
  BY <1>3, <1>4, <1>5, <1>6, <1>7

(* No generation of a live session runs without a cancel function, and none   *)
(* leaves one behind.                                                         *)
THEOREM EngineCancelFunctions == Spec => []CancelFunctionsAreOfRunning
<1>1. Init => CancelFunctionsAreOfRunning
  BY DEF Init, CancelFunctionsAreOfRunning
<1>2. QED
  BY <1>1, EngineTypeCorrect, CancelFunctionsStep, PTL DEF Spec

LEMMA SynthesisEntryStep ==
  ASSUME TypeOK, SynthesisEntryIsLive, [Next]_vars
  PROVE  SynthesisEntryIsLive'
<1> USE DEF SynthesisEntryIsLive, ttsVars
<1>1. CASE SeeASRClosed \/ TakeTranscript \/ LoopStep
  BY <1>1 DEF SeeASRClosed, SeeCancelled, EndSession, TakeTranscript, LoopStep, Generate,
              GenerateFails, StartTurn, StartTTS, UtteranceDone
<1>2. CASE \E u \in Utterances : LLMStep(u)
  BY <1>2 DEF LLMStep, LLMReceive, LLMStreamEnds, LLMForward, LLMCancelled, notLLM
<1>3. CASE ProcStep \/ AudioStep
  BY <1>3 DEF ProcStep, ProcReceive, ProcClosed, ProcAppend, ProcSend, ProcQuit,
              ProcCommit, notProc, AudioStep, AudioForward, AudioEnds, notAudio
<1>4. CASE TTSReceive \/ TTSInputEnds \/ TTSCancelled
  BY <1>4 DEF TTSReceive, TTSInputEnds, TTSCancelled, StartSegment, EndTTS
<1>5. CASE SegmentSpoken \/ SegmentCut \/ SegmentAbandoned \/ OrphanEnds
  BY <1>5 DEF SegmentSpoken, SegmentCut, SegmentAbandoned, OrphanEnds, EndSegment, EndTTS
<1>6. CASE InterruptBegin \/ InterruptStep
  BY <1>6 DEF InterruptBegin, InterruptStep, InterruptLLM, InterruptTTS,
              InterruptTTSDelete, InterruptMark, InterruptCommit, InterruptListen, notIntr
<1>7. CASE CallerCancels \/ StopBegin \/ StopFSM \/ StopDelete
  BY <1>7 DEF CallerCancels, StopBegin, StopFSM, StopDelete, notStop
<1>8. CASE UNCHANGED vars
  BY <1>8 DEF vars
<1>9. QED
  BY <1>1, <1>2, <1>3, <1>4, <1>5, <1>6, <1>7, <1>8 DEF Next, TTSStep

(* Whatever goroutine deletes or overwrites it last, the session's entry in   *)
(* activeSyntheses never outlives the synthesis it would cancel.              *)
THEOREM EngineSynthesisEntry == Spec => []SynthesisEntryIsLive
<1>1. Init => SynthesisEntryIsLive
  BY DEF Init, SynthesisEntryIsLive
<1>2. QED
  BY <1>1, EngineTypeCorrect, SynthesisEntryStep, PTL DEF Spec

-----------------------------------------------------------------------------
(* The turn's text *)

(* Tokens of a generation that were received and not yet appended.            *)
Holding(u)  == IF hold[u] = "nothing" THEN 0 ELSE 1
Appending   == IF proc = "append" THEN 1 ELSE 0
InFlight(u) == Len(tokenCh[u]) + Holding(u)

(* What makes the bound on the turn's text inductive: every token is counted  *)
(* in "produced" before it can be in hand, in the channel or in the turn.     *)
Accounted ==
  /\ \A u \in Utterances : InFlight(u) <= produced[u]
  /\ turn # NoTurn =>
       /\ turn.utt \in Utterances
       /\ turn.text <= produced[turn.utt]
       /\ loop \in {"startTTS", "wait"} =>
            turn.utt = utt /\ turn.text + InFlight(utt) + Appending <= produced[utt]
  /\ loop = "wait" => InFlight(utt) + Appending <= produced[utt]

LEMMA AccountedImplies == Accounted => TurnIsOfCurrentUtterance
  BY DEF Accounted, TurnIsOfCurrentUtterance

(* A step that only lowers what is in flight, or leaves the turn behind,      *)
(* keeps the account.                                                         *)
LEMMA AccountedFrame ==
  ASSUME TypeOK, Phases, Accounted,
         UNCHANGED <<produced, hold, tokenCh>>,
         turn' \in {turn, NoTurn},
         \/ UNCHANGED <<loop, utt>> /\ Appending' <= Appending
         \/ loop' \notin {"startTTS", "wait"}
         \/ loop = "startTTS" /\ UNCHANGED utt /\ Appending' = 0
  PROVE  Accounted'
<1>1. Appending \in {0, 1} /\ Appending' \in {0, 1}
  BY DEF Appending
<1>2. \A u \in Utterances : Len(tokenCh[u]) \in Nat /\ produced[u] \in Nat
  BY ChannelOps DEF TypeOK, LLMOK
<1>3. /\ \A u \in Utterances : InFlight(u) \in Nat
      /\ \A u : InFlight(u)' = InFlight(u)
  <2>1. \A u : Holding(u) \in {0, 1} /\ Holding(u)' = Holding(u)
    BY DEF Holding
  <2>2. \A u \in Utterances : InFlight(u) \in Nat
    BY <1>2, <2>1 DEF InFlight
  <2>3. \A u : InFlight(u)' = InFlight(u)
    BY <2>1 DEF InFlight
  <2>4. QED
    BY <2>2, <2>3
<1>4. turn.text \in Nat
  BY DEF TypeOK, SessionOK
<1>5. \A u \in Utterances : InFlight(u)' <= produced'[u]
  BY <1>3 DEF Accounted
<1>6. CASE UNCHANGED <<loop, utt>> /\ Appending' <= Appending
  BY <1>1, <1>2, <1>3, <1>4, <1>5, <1>6 DEF Accounted, Phases
<1>7. CASE loop' \notin {"startTTS", "wait"}
  BY <1>5, <1>7 DEF Accounted
<1>8. CASE loop = "startTTS" /\ UNCHANGED utt /\ Appending' = 0
  <2>1. utt \in Utterances /\ Appending = 0
    BY <1>8 DEF Phases, Appending
  <2>2. InFlight(utt)' + Appending' <= produced'[utt']
    BY <1>2, <1>3, <1>5, <1>8, <2>1
  <2>3. QED
    BY <1>2, <1>3, <1>4, <1>5, <1>8, <2>1, <2>2 DEF Accounted
<1>9. QED
  BY <1>6, <1>7, <1>8

LEMMA AccountedLLM ==
  ASSUME TypeOK, Phases, Accounted, NEW u \in Utterances, LLMStep(u)
  PROVE  Accounted'
<1>1. UNCHANGED <<loop, utt, turn, proc>>
  BY DEF LLMStep, LLMReceive, LLMStreamEnds, LLMForward, LLMCancelled, notLLM,
         sessionVars, loopVars, procVars
<1>2. \A v \in Utterances : /\ Len(tokenCh[v]) \in Nat /\ produced[v] \in Nat
                           /\ Holding(v) \in {0, 1} /\ Holding(v)' \in {0, 1}
  BY ChannelOps DEF TypeOK, LLMOK, Holding
<1>3. \A v \in Utterances : v # u =>
         InFlight(v)' = InFlight(v) /\ produced'[v] = produced[v]
  BY DEF LLMStep, LLMReceive, LLMStreamEnds, LLMForward, LLMCancelled, EndGeneration,
         TypeOK, LLMOK, InFlight, Holding
<1>4. /\ InFlight(u)' \in Nat /\ InFlight(u) \in Nat /\ produced'[u] \in Nat
      /\ produced'[u] >= produced[u]
      /\ InFlight(u)' - InFlight(u) <= produced'[u] - produced[u]
  <2> USE DEF InFlight, Holding, TypeOK, LLMOK
  <2>1. CASE LLMReceive(u)
    BY <1>2, <2>1 DEF LLMReceive
  <2>2. CASE LLMStreamEnds(u) \/ LLMCancelled(u)
    <3>1. hold'[u] = "nothing" /\ tokenCh' = tokenCh /\ produced' = produced
      BY <2>2 DEF LLMStreamEnds, LLMCancelled, EndGeneration
    <3>2. QED
      BY <1>2, <3>1
  <2>3. CASE LLMForward(u)
    <3>1. tokenCh[u] \in Seq({"mid", "final", "error"}) /\ hold[u] \in {"mid", "final", "error"}
      BY <2>3 DEF LLMForward
    <3>2. Len(tokenCh'[u]) = Len(tokenCh[u]) + 1 /\ hold'[u] = "nothing" /\ produced' = produced
      BY <2>3, <3>1, ChannelOps DEF LLMForward, EndGeneration
    <3>3. QED
      BY <1>2, <2>3, <3>2 DEF LLMForward
  <2>4. QED
    BY <2>1, <2>2, <2>3 DEF LLMStep
<1>5. Appending' = Appending /\ Appending \in {0, 1} /\ turn.text \in Nat
  BY <1>1 DEF Appending, TypeOK, SessionOK
<1>6. \A v \in Utterances : /\ InFlight(v)' <= produced'[v] /\ InFlight(v) \in Nat
                           /\ produced'[v] \in Nat
                           /\ produced'[v] >= produced[v]
                           /\ InFlight(v)' - InFlight(v) <= produced'[v] - produced[v]
                           /\ InFlight(v)' \in Nat
  <2>1. \A v \in Utterances : InFlight(v) \in Nat
    BY <1>2 DEF InFlight
  <2>2. QED
    BY <1>2, <1>3, <1>4, <2>1 DEF Accounted
<1>7. loop \in {"startTTS", "wait"} => utt \in Utterances
  BY DEF Phases
<1>8. loop' = "wait" => InFlight(utt)' + Appending' <= produced'[utt']
  BY <1>1, <1>2, <1>5, <1>6, <1>7, SMTT(30) DEF Accounted
<1>9. ASSUME turn # NoTurn
      PROVE  /\ turn.utt \in Utterances
             /\ turn.text <= produced'[turn.utt]
             /\ loop \in {"startTTS", "wait"} =>
                  turn.utt = utt /\ turn.text + InFlight(utt)' + Appending <= produced'[utt]
  <2>1. turn.utt \in Utterances /\ turn.text <= produced'[turn.utt]
    BY <1>2, <1>5, <1>6, <1>9 DEF Accounted
  <2>2. ASSUME loop \in {"startTTS", "wait"}
        PROVE  turn.utt = utt /\ turn.text + InFlight(utt)' + Appending <= produced'[utt]
    <3>1. turn.utt = utt /\ turn.text + InFlight(utt) + Appending <= produced[utt]
      BY <1>9, <2>2 DEF Accounted
    <3>2. \A v \in Utterances : turn.text + InFlight(v) + Appending <= produced[v]
             => turn.text + InFlight(v)' + Appending <= produced'[v]
      <4> TAKE v \in Utterances
      <4>1. /\ InFlight(v) \in Nat /\ InFlight(v)' \in Nat /\ produced[v] \in Nat
            /\ produced'[v] \in Nat
            /\ InFlight(v)' - InFlight(v) <= produced'[v] - produced[v]
        BY <1>2, <1>6
      <4> HIDE DEF InFlight
      <4> QED
        BY <1>5, <4>1
    <3>3. QED
      BY <1>1, <1>7, <2>2, <3>1, <3>2
  <2>3. QED
    BY <2>1, <2>2
<1>10. QED
  BY <1>1, <1>5, <1>6, <1>8, <1>9 DEF Accounted

LEMMA AccountedProc ==
  ASSUME TypeOK, Phases, Accounted, ProcReceive \/ ProcAppend
  PROVE  Accounted'
<1>1. /\ UNCHANGED <<loop, utt, produced, hold>>
      /\ loop = "wait" /\ utt \in Utterances
  BY DEF ProcReceive, ProcAppend, notProc, loopVars, Phases
<1>2. \A v \in Utterances : /\ Len(tokenCh[v]) \in Nat /\ produced[v] \in Nat
                           /\ Holding(v) \in {0, 1} /\ Holding(v)' = Holding(v)
  BY <1>1, ChannelOps DEF TypeOK, LLMOK, Holding
<1>3. turn.text \in Nat
  BY DEF TypeOK, SessionOK
<1>4. CASE ProcReceive
  <2>1. /\ Len(tokenCh'[utt]) = Len(tokenCh[utt]) - 1
        /\ \A v \in Utterances : v # utt => tokenCh'[v] = tokenCh[v]
    BY <1>1, <1>4, ChannelOps DEF ProcReceive, TypeOK, LLMOK
  <2>2. turn' = turn /\ Appending' \in {0, 1} /\ Appending = 0
    BY <1>4 DEF ProcReceive, Appending
  <2>3. \A v \in Utterances : v # utt => InFlight(v)' = InFlight(v)
    BY <1>2, <2>1 DEF InFlight
  <2>4. InFlight(utt)' = InFlight(utt) - 1 /\ InFlight(utt) \in Nat
    BY <1>1, <1>2, <2>1 DEF InFlight
  <2>5. \A v \in Utterances : InFlight(v)' <= produced'[v]
    BY <1>1, <1>2, <2>3, <2>4 DEF Accounted
  <2>6. QED
    BY <1>1, <1>2, <1>3, <2>2, <2>4, <2>5 DEF Accounted
<1>5. CASE ProcAppend
  <2>1. Appending = 1 /\ Appending' = 0 /\ tokenCh' = tokenCh
    BY <1>5 DEF ProcAppend, Appending
  <2>2. \A v \in Utterances : InFlight(v)' = InFlight(v) /\ InFlight(v) \in Nat
    BY <1>2, <2>1 DEF InFlight
  <2>3. turn' = NoTurn \/ (turn'.utt = turn.utt /\ turn'.text = turn.text + 1 /\ turn # NoTurn)
    BY <1>5 DEF ProcAppend, TypeOK, SessionOK
  <2>4. QED
    BY <1>1, <1>2, <1>3, <2>1, <2>2, <2>3 DEF Accounted
<1>6. QED
  BY <1>4, <1>5

LEMMA AccountedStep ==
  ASSUME TypeOK, Phases, Accounted, [Next]_vars
  PROVE  Accounted'
<1> USE DEF sessionVars, loopVars, llmVars, procVars
<1>1. CASE SeeASRClosed \/ TakeTranscript \/ Generate \/ GenerateFails \/ SeeCancelled
  <2>1. /\ UNCHANGED <<produced, hold, tokenCh, turn>>
        /\ loop' \notin {"startTTS", "wait"}
    BY <1>1 DEF SeeASRClosed, SeeCancelled, EndSession, TakeTranscript, Generate, GenerateFails
  <2>2. QED
    BY <2>1, AccountedFrame
<1>2. CASE StartTurn
  <2>1. /\ UNCHANGED <<produced, hold, tokenCh, utt, proc>>
        /\ loop = "startTurn" /\ loop' = "startTTS"
        /\ turn'.utt = utt /\ turn'.text = 0
    BY <1>2 DEF StartTurn, NoTurn
  <2>2. utt \in Utterances /\ Appending' = 0
    BY <2>1 DEF Phases, Appending
  <2>3. \A u \in Utterances : /\ InFlight(u)' = InFlight(u) /\ InFlight(u) \in Nat
                             /\ produced[u] \in Nat
    BY <2>1, ChannelOps DEF InFlight, Holding, TypeOK, LLMOK
  <2>4. QED
    BY <2>1, <2>2, <2>3 DEF Accounted
<1>3. CASE StartTTS
  <2>1. /\ UNCHANGED <<produced, hold, tokenCh, turn, utt>>
        /\ loop = "startTTS" /\ Appending' = 0
    BY <1>3 DEF StartTTS, Appending
  <2>2. QED
    BY <2>1, AccountedFrame
<1>4. CASE UtteranceDone
  <2>1. UNCHANGED <<produced, hold, tokenCh, turn>> /\ loop' = "recv"
    BY <1>4 DEF UtteranceDone
  <2>2. QED
    BY <2>1, AccountedFrame
<1>5. CASE \E u \in Utterances : LLMStep(u)
  BY <1>5, AccountedLLM
<1>6. CASE ProcReceive \/ ProcAppend
  BY <1>6, AccountedProc
<1>7. CASE \/ ProcClosed \/ ProcSend \/ ProcQuit \/ ProcCommit
           \/ TTSStep \/ OrphanEnds \/ AudioStep \/ InterruptBegin \/ InterruptStep
           \/ CallerCancels \/ StopBegin \/ StopFSM \/ StopDelete \/ UNCHANGED vars
  <2>1. CASE ProcClosed \/ ProcSend \/ ProcQuit \/ ProcCommit
    <3>1. /\ UNCHANGED <<produced, hold, tokenCh, loop, utt>>
          /\ turn' \in {turn, NoTurn} /\ Appending' = 0
      BY <2>1 DEF ProcClosed, ProcSend, ProcQuit, ProcCommit, CommitTurn, notProc, Appending
    <3>2. QED
      BY <3>1, AccountedFrame DEF Appending
  <2>2. CASE TTSStep \/ OrphanEnds \/ AudioStep
    <3>1. UNCHANGED <<produced, hold, tokenCh, loop, utt, turn, proc>>
      BY <2>2 DEF TTSStep, OrphanEnds, TTSReceive, TTSInputEnds, TTSCancelled,
                  SegmentSpoken, SegmentCut, SegmentAbandoned, notTTS,
                  AudioStep, AudioForward, AudioEnds, notAudio
    <3>2. QED
      BY <3>1, AccountedFrame DEF Appending
  <2>3. CASE InterruptMark
    <3>1. /\ UNCHANGED <<produced, hold, tokenCh, loop, utt, proc>>
          /\ turn' = NoTurn \/ (turn'.utt = turn.utt /\ turn'.text = turn.text /\ turn # NoTurn)
      BY <2>3 DEF InterruptMark, notIntr, TypeOK, SessionOK
    <3>2. InFlight(utt)' = InFlight(utt) /\ Appending' = Appending
      BY <3>1 DEF InFlight, Holding, Appending
    <3>3. \A u : InFlight(u)' = InFlight(u)
      BY <3>1 DEF InFlight, Holding
    <3>4. QED
      BY <3>1, <3>2, <3>3 DEF Accounted
  <2>4. CASE \/ InterruptBegin \/ InterruptLLM \/ InterruptTTS \/ InterruptTTSDelete
             \/ InterruptCommit \/ InterruptListen
    <3>1. /\ UNCHANGED <<produced, hold, tokenCh, loop, utt, proc>>
          /\ turn' \in {turn, NoTurn}
      BY <2>4 DEF InterruptBegin, InterruptLLM, InterruptTTS, InterruptTTSDelete,
                  InterruptCommit, InterruptListen, notIntr
    <3>2. QED
      BY <3>1, AccountedFrame DEF Appending
  <2>5. CASE CallerCancels \/ StopBegin \/ StopFSM \/ StopDelete \/ UNCHANGED vars
    <3>1. UNCHANGED <<produced, hold, tokenCh, loop, utt, turn, proc>>
      BY <2>5 DEF CallerCancels, StopBegin, StopFSM, StopDelete, notStop, vars
    <3>2. QED
      BY <3>1, AccountedFrame DEF Appending
  <2>6. QED
    BY <1>7, <2>1, <2>2, <2>3, <2>4, <2>5 DEF InterruptStep
<1>8. QED
  BY <1>1, <1>2, <1>3, <1>4, <1>5, <1>6, <1>7 DEF Next, LoopStep, ProcStep

(* The text of two replies never mixes, and none grows beyond its generation, *)
(* however many tokens one has and however the channels block.                *)
THEOREM EngineTurnIsOfCurrentUtterance == Spec => []TurnIsOfCurrentUtterance
<1>1. Init => Accounted
  BY DEF Init, Accounted, InFlight, Holding
<1>2. Spec => []Accounted
  BY <1>1, EngineTypeCorrect, AccountedStep, PTL DEF Spec
<1>3. QED
  BY <1>2, AccountedImplies, PTL
-----------------------------------------------------------------------------
(* Waiting *)

(* What the goroutines of an utterance know of each other when one of them    *)
(* waits: there is a generation to receive from, and a synthesis that ended   *)
(* had either read the whole text or been cancelled, by an interruption or    *)
(* with the session.                                                          *)
Waiting ==
  /\ loop \in {"startTurn", "startTTS", "wait"} => llm[utt] # "off"
  /\ loop # "wait" => tts \in {"off", "done"}
  /\ loop = "wait" => proc # "off" /\ tts # "off" /\ audio # "off"
  /\ loop = "wait" /\ audio = "done" => tts = "done"
  /\ tts = "lastSegment" => proc = "done"
  /\ tts = "done" => proc = "done" \/ cancelled \/ synthCancelled
  /\ synthCancelled \/ intr # "idle" => interrupts > 0

LEMMA WaitingStep ==
  ASSUME TypeOK, Phases, Waiting, [Next]_vars
  PROVE  Waiting'
<1> USE DEF Waiting, Phases, sessionVars, loopVars, llmVars, procVars, ttsVars, callVars
<1>1. CASE SeeASRClosed \/ TakeTranscript \/ LoopStep
  <2>1. CASE Generate
    <3>1. llm'[utt'] = "run"
      BY <2>1 DEF Generate, TypeOK, LLMOK
    <3>2. QED
      BY <2>1, <3>1 DEF Generate
  <2>2. CASE StartTurn \/ StartTTS
    BY <2>2 DEF StartTurn, StartTTS
  <2>3. CASE SeeASRClosed \/ SeeCancelled \/ TakeTranscript \/ GenerateFails \/ UtteranceDone
    BY <2>3 DEF SeeASRClosed, SeeCancelled, EndSession, TakeTranscript, GenerateFails,
                UtteranceDone
  <2>4. QED
    BY <1>1, <2>1, <2>2, <2>3 DEF LoopStep
<1>2. ASSUME NEW u \in Utterances, LLMStep(u) PROVE Waiting'
  <2>1. UNCHANGED <<cancelled, loop, utt, proc, tts, synthCancelled, audio, intr, interrupts>>
    BY <1>2 DEF LLMStep, LLMReceive, LLMStreamEnds, LLMForward, LLMCancelled, notLLM
  <2>2. llm' = llm \/ llm' = [llm EXCEPT ![u] = "done"]
    BY <1>2 DEF LLMStep, LLMReceive, LLMStreamEnds, LLMForward, LLMCancelled, EndGeneration
  <2>3. loop \in {"startTurn", "startTTS", "wait"} => llm'[utt] # "off"
    BY <2>2 DEF TypeOK, LLMOK
  <2>4. QED
    BY <2>1, <2>3
<1>3. CASE ProcStep
  <2>1. /\ UNCHANGED <<cancelled, loop, utt, llm, tts, synthCancelled, audio, intr, interrupts>>
        /\ proc \notin {"off", "done"} /\ proc' # "off"
    BY <1>3 DEF ProcStep, ProcReceive, ProcClosed, ProcAppend, ProcSend, ProcQuit,
                ProcCommit, notProc
  <2>2. QED
    BY <2>1
<1>4. CASE TTSStep \/ OrphanEnds
  <2>1. UNCHANGED <<cancelled, loop, utt, llm, proc, synthCancelled, audio, intr, interrupts>>
    BY <1>4 DEF TTSStep, OrphanEnds, TTSReceive, TTSInputEnds, TTSCancelled, SegmentSpoken,
                SegmentCut, SegmentAbandoned, notTTS
  <2>2. \/ tts' = tts
        \/ tts = "run" /\ tts' = "segment"
        \/ tts = "run" /\ tts' \in {"lastSegment", "done"} /\ proc = "done"
        \/ tts = "run" /\ tts' = "done" /\ synthDone
        \/ tts = "segment" /\ tts' = "run"
        \/ tts = "lastSegment" /\ tts' = "done"
    BY <1>4 DEF TTSStep, OrphanEnds, TTSReceive, TTSInputEnds, TTSCancelled, SegmentSpoken,
                SegmentCut, SegmentAbandoned, StartSegment, EndTTS, EndSegment
  <2>3. QED
    BY <2>1, <2>2 DEF synthDone
<1>5. CASE AudioStep
  <2>1. /\ UNCHANGED <<cancelled, loop, utt, llm, proc, tts, synthCancelled, intr, interrupts>>
        /\ audio' = audio \/ (audio' = "done" /\ tts = "done")
    BY <1>5 DEF AudioStep, AudioForward, AudioEnds, notAudio
  <2>2. QED
    BY <2>1
<1>6. CASE InterruptBegin \/ InterruptStep
  <2>1. UNCHANGED <<cancelled, loop, utt, llm, proc, tts, audio>>
    BY <1>6 DEF InterruptBegin, InterruptStep, InterruptLLM, InterruptTTS,
                InterruptTTSDelete, InterruptMark, InterruptCommit, InterruptListen, notIntr
  <2>2. synthCancelled => synthCancelled'
    <3>1. InterruptTTS => (synthCancelled => synthCancelled')
      BY Zenon DEF InterruptTTS
    <3>2. ~InterruptTTS => synthCancelled' = synthCancelled
      BY <1>6 DEF InterruptBegin, InterruptStep, InterruptLLM,
                  InterruptTTSDelete, InterruptMark, InterruptCommit, InterruptListen
    <3>3. QED
      BY <3>1, <3>2
  <2>3. interrupts' > 0
    <3>1. CASE InterruptBegin
      BY <3>1 DEF InterruptBegin, TypeOK, CallsOK
    <3>2. CASE InterruptStep
      BY <3>2 DEF InterruptStep, InterruptLLM, InterruptTTS, InterruptTTSDelete,
                  InterruptMark, InterruptCommit, InterruptListen, notIntr
    <3>3. QED
      BY <1>6, <3>1, <3>2
  <2>4. QED
    BY <2>1, <2>2, <2>3
<1>7. CASE CallerCancels \/ StopBegin \/ StopFSM \/ StopDelete
  <2>1. /\ UNCHANGED <<loop, utt, llm, proc, tts, synthCancelled, audio, intr, interrupts>>
        /\ cancelled => cancelled'
    BY <1>7 DEF CallerCancels, StopBegin, StopFSM, StopDelete, notStop
  <2>2. QED
    BY <2>1
<1>8. CASE UNCHANGED vars
  BY <1>8 DEF vars
<1>9. QED
  BY <1>1, <1>2, <1>3, <1>4, <1>5, <1>6, <1>7, <1>8 DEF Next

(* An utterance in progress: whoever its processor waits for can go on.       *)
LEMMA UtteranceGoesOn ==
  ASSUME TypeOK, Phases, Waiting, loop = "wait"
  PROVE  \/ LoopReady \/ LLMReady(utt) \/ ProcReady \/ TTSReady \/ AudioReady
         \/ SendsToNobody
<1>1. utt \in Utterances /\ llm[utt] \in {"run", "done"}
  BY DEF Phases, Waiting, TypeOK, LLMOK
<1>2. CASE proc = "range"
  <2>1. tokenCh[utt] = <<>> => Len(tokenCh[utt]) < TokenCap
    BY EngineAssumption
  <2>2. QED
    BY <1>1, <1>2, <2>1 DEF ProcReady, LLMReady
<1>3. CASE proc \in {"append", "commit"}
  BY <1>3 DEF ProcReady
<1>4. CASE proc \in {"send", "done"}
  <2>1. CASE tts = "run"
    <3>1. proc = "send" /\ ~ProcReady => ttsTokenCh > 0
      BY EngineAssumption DEF ProcReady, TypeOK, ProcOK
    <3>2. QED
      BY <1>4, <2>1, <3>1 DEF TTSReady
  <2>2. CASE tts \in {"segment", "lastSegment"}
    <3>1. ~TTSReady => audioCh > 0
      BY <2>2, EngineAssumption DEF TTSReady, TypeOK, TTSOK
    <3>2. audio = "range"
      BY <2>2 DEF Waiting, TypeOK, AudioOK
    <3>3. QED
      BY <3>1, <3>2 DEF AudioReady
  <2>3. CASE tts = "done"
    <3>1. audio \in {"range", "done"}
      BY DEF Waiting, TypeOK, AudioOK
    <3>2. CASE proc = "done"
      BY <2>3, <3>1, <3>2 DEF LoopReady, AudioReady
    <3>3. CASE proc = "send" /\ ~ProcReady
      <4>1. ttsTokenCh = TTSTokenCap /\ ~cancelled
        BY <3>3, EngineAssumption DEF ProcReady, TypeOK, ProcOK
      <4>2. synthCancelled /\ interrupts > 0
        BY <2>3, <3>3, <4>1 DEF Waiting
      <4>3. QED
        BY <2>3, <3>3, <4>1, <4>2 DEF SendsToNobody
    <3>4. QED
      BY <1>4, <3>2, <3>3
  <2>4. QED
    BY <2>1, <2>2, <2>3 DEF Waiting, TypeOK, TTSOK
<1>5. QED
  BY <1>2, <1>3, <1>4 DEF Waiting, TypeOK, ProcOK

(* A cancelled session: outside an utterance what is left are generations,    *)
(* which see the cancellation, and abandoned segments.                        *)
LEMMA CancelledGoesOn ==
  ASSUME TypeOK, Phases, Waiting, CancelFunctionsAreOfRunning, SynthesisEntryIsLive,
         cancelled, ~AllEnded
  PROVE  \/ LoopReady \/ ProcReady \/ TTSReady \/ AudioReady \/ orphan
         \/ \E u \in Utterances : LLMReady(u)
<1>1. CASE loop = "wait"
  <2>1. ~SendsToNobody /\ utt \in Utterances
    BY <1>1 DEF SendsToNobody, Phases
  <2>2. QED
    BY <1>1, <2>1, UtteranceGoesOn
<1>2. CASE loop = "done"
  <2>1. /\ proc \in {"off", "done"} /\ audio \in {"off", "done"} /\ tts \in {"off", "done"}
    BY <1>2 DEF Phases, Waiting
  <2>2. ASSUME NEW u \in Utterances, llm[u] = "run" PROVE LLMReady(u)
    BY <2>2 DEF LLMReady, genDone
  <2>3. activeSynth # "none" => orphan
    BY <2>1 DEF SynthesisEntryIsLive, TypeOK, TTSOK
  <2>4. (\A u \in Utterances : llm[u] # "run") => activeGens = {}
    BY DEF CancelFunctionsAreOfRunning, TypeOK, LLMOK
  <2>5. QED
    BY <1>2, <2>1, <2>2, <2>3, <2>4 DEF AllEnded
<1>3. QED
  BY <1>1, <1>2 DEF LoopReady, TypeOK, LoopOK

(* The safety core of the two liveness properties: whatever the capacities    *)
(* and however interruptions, stops, refusals and the ends of streams         *)
(* interleave, an utterance is never stuck in a ring of goroutines that wait  *)
(* for each other, but for the send to an interrupted synthesis; and a        *)
(* cancelled session is never stuck before everything has ended.              *)
THEOREM EngineSomebodyGoesOn == Spec => []SomebodyGoesOn
<1>1. Init => Waiting
  BY DEF Init, Waiting
<1>2. Spec => []Waiting
  BY <1>1, EngineTypeCorrect, WaitingStep, PTL DEF Spec
<1>3. (/\ TypeOK /\ Phases /\ Waiting
       /\ CancelFunctionsAreOfRunning /\ SynthesisEntryIsLive) => SomebodyGoesOn
  <2> SUFFICES ASSUME TypeOK, Phases, Waiting, CancelFunctionsAreOfRunning,
                      SynthesisEntryIsLive
               PROVE  SomebodyGoesOn
    OBVIOUS
  <2>1. loop = "wait" => \/ LoopReady \/ LLMReady(utt) \/ ProcReady \/ TTSReady
                         \/ AudioReady \/ SendsToNobody
    BY UtteranceGoesOn
  <2>2. cancelled /\ ~AllEnded =>
          \/ LoopReady \/ ProcReady \/ TTSReady \/ AudioReady \/ orphan
          \/ \E u \in Utterances : LLMReady(u)
    BY CancelledGoesOn
  <2>3. QED
    BY <2>1, <2>2 DEF SomebodyGoesOn
<1>4. QED
  BY <1>2, <1>3, EngineTypeCorrect, EngineCancelFunctions, EngineSynthesisEntry, PTL
-----------------------------------------------------------------------------
(* What no instance of the engine does: the two findings about interruptions  *)
(* and the history do not depend on the bounds they are shown within.         *)

(* The ID an interruption looks up is never one a generation registered.      *)
NoGenerationCancelled == genCancelled = {}

(* The history has the users' messages, one per utterance, and nothing else.  *)
OnlyUsersRemembered ==
  /\ Len(history) <= utt /\ (registered => Len(history) = utt)
  /\ \A i \in 1..Len(history) : history[i] = Message("user", i)

(* For any capacity and any interleaving of interruptions with the stages'    *)
(* goroutines, LLMStage.Cancel finds nothing: the generation goes on.         *)
THEOREM EngineNeverCancelsGenerations == Spec => []NoGenerationCancelled
<1>1. Init => NoGenerationCancelled
  BY DEF Init, NoGenerationCancelled
<1>2. ASSUME NoGenerationCancelled, [Next]_vars PROVE NoGenerationCancelled'
  <2> USE <1>2 DEF NoGenerationCancelled, sessionVars, loopVars, llmVars
  <2>1. CASE SeeASRClosed \/ TakeTranscript \/ LoopStep
    BY <2>1 DEF SeeASRClosed, SeeCancelled, EndSession, TakeTranscript, LoopStep, Generate,
                GenerateFails, StartTurn, StartTTS, UtteranceDone
  <2>2. CASE \E u \in Utterances : LLMStep(u)
    BY <2>2 DEF LLMStep, LLMReceive, LLMStreamEnds, LLMForward, LLMCancelled, EndGeneration
  <2>3. CASE ProcStep
    BY <2>3 DEF ProcStep, ProcReceive, ProcClosed, ProcAppend, ProcSend, ProcQuit,
                ProcCommit, notProc
  <2>4. CASE TTSStep \/ OrphanEnds \/ AudioStep
    BY <2>4 DEF TTSStep, OrphanEnds, TTSReceive, TTSInputEnds, TTSCancelled, SegmentSpoken,
                SegmentCut, SegmentAbandoned, notTTS, AudioStep, AudioForward, AudioEnds,
                notAudio
  <2>5. CASE InterruptLLM
    <3>1. \A u, v : StageGen(u) # TurnGen(v)
      BY DEF StageGen, TurnGen
    <3>2. {u \in Utterances : StageGen(u) = TurnGen(turn.utt) /\ TurnGen(turn.utt) \in activeGens}
            = {}
      BY <3>1
    <3>3. QED
      BY <2>5, <3>2 DEF InterruptLLM
  <2>6. CASE \/ InterruptBegin \/ InterruptTTS \/ InterruptTTSDelete \/ InterruptMark
             \/ InterruptCommit \/ InterruptListen
    BY <2>6 DEF InterruptBegin, InterruptTTS, InterruptTTSDelete, InterruptMark,
                InterruptCommit, InterruptListen
  <2>7. CASE CallerCancels \/ StopBegin \/ StopFSM \/ StopDelete
    BY <2>7 DEF CallerCancels, StopBegin, StopFSM, StopDelete, notStop
  <2>8. CASE UNCHANGED vars
    BY <2>8 DEF vars
  <2>9. QED
    BY <1>2, <2>1, <2>2, <2>3, <2>4, <2>5, <2>6, <2>7, <2>8 DEF Next, InterruptStep
<1>3. QED
  BY <1>1, <1>2, PTL DEF Spec

(* A step takes up an utterance, with its message if the session is           *)
(* registered, or adds nothing to the history: a session once removed from    *)
(* the registry does not come back, and no commit finds committable text.     *)
LEMMA HistorySteps ==
  ASSUME TypeOK, [Next]_vars
  PROVE  \/ /\ utt' = utt + 1 /\ registered' = registered
            /\ history' = IF registered THEN Append(history, Message("user", utt + 1))
                                        ELSE history
         \/ UNCHANGED <<utt, history>> /\ (registered' => registered)
<1> USE DEF sessionVars, loopVars
<1>1. CASE TakeTranscript
  BY <1>1 DEF TakeTranscript
<1>2. CASE SeeASRClosed \/ LoopStep
  BY <1>2 DEF SeeASRClosed, SeeCancelled, EndSession, LoopStep, Generate, GenerateFails,
              StartTurn, StartTTS, UtteranceDone
<1>3. CASE \E u \in Utterances : LLMStep(u)
  BY <1>3 DEF LLMStep, LLMReceive, LLMStreamEnds, LLMForward, LLMCancelled, notLLM
<1>4. CASE ProcStep
  BY <1>4, NothingCommittable DEF ProcStep, ProcReceive, ProcClosed, ProcAppend, ProcSend,
     ProcQuit, ProcCommit, CommitTurn, notProc, TypeOK
<1>5. CASE TTSStep \/ OrphanEnds \/ AudioStep
  BY <1>5 DEF TTSStep, OrphanEnds, TTSReceive, TTSInputEnds, TTSCancelled, SegmentSpoken,
              SegmentCut, SegmentAbandoned, notTTS, AudioStep, AudioForward, AudioEnds,
              notAudio
<1>6. CASE InterruptBegin \/ InterruptStep
  BY <1>6, NothingCommittable DEF InterruptBegin, InterruptStep, InterruptLLM, InterruptTTS,
     InterruptTTSDelete, InterruptMark, InterruptCommit, InterruptListen, notIntr, TypeOK
<1>7. CASE CallerCancels \/ StopBegin \/ StopFSM \/ StopDelete
  BY <1>7 DEF CallerCancels, StopBegin, StopFSM, StopDelete, notStop
<1>8. CASE UNCHANGED vars
  BY <1>8 DEF vars
<1>9. QED
  BY <1>1, <1>2, <1>3, <1>4, <1>5, <1>6, <1>7, <1>8 DEF Next

(* No reply enters the history, heard or not, whatever is said, interrupted   *)
(* and stopped: the cursor that would make its text committable never moves.  *)
THEOREM EngineRemembersOnlyUsers == Spec => []OnlyUsersRemembered
<1>1. Init => OnlyUsersRemembered
  BY DEF Init, OnlyUsersRemembered
<1>2. ASSUME TypeOK, OnlyUsersRemembered, [Next]_vars PROVE OnlyUsersRemembered'
  <2>1. history \in Seq(Messages) /\ utt \in Nat /\ Len(history) \in Nat
    <3>1. history \in Seq(Messages)
      BY <1>2 DEF TypeOK, SessionOK
    <3>2. utt \in Nat
      BY <1>2, EngineAssumption DEF TypeOK, LoopOK
    <3>3. QED
      BY <3>1, <3>2, ChannelOps
  <2> USE DEF OnlyUsersRemembered
  <2>2. CASE UNCHANGED <<utt, history>> /\ (registered' => registered)
    BY <1>2, <2>2
  <2>3. CASE /\ utt' = utt + 1 /\ registered' = registered
             /\ history' = IF registered THEN Append(history, Message("user", utt + 1))
                                         ELSE history
    <3>1. CASE registered
      <4>1. Len(history) = utt /\ history' = Append(history, Message("user", utt + 1))
        BY <1>2, <2>3, <3>1
      <4>2. /\ Len(history') = Len(history) + 1
            /\ \A i \in 1..Len(history) : history'[i] = history[i]
            /\ history'[Len(history) + 1] = Message("user", utt + 1)
        BY <2>1, <4>1
      <4>3. \A i \in 1..Len(history') : i \in 1..Len(history) \/ i = Len(history) + 1
        BY <2>1, <4>2
      <4>4. QED
        BY <1>2, <2>1, <2>3, <4>1, <4>2, <4>3
    <3>2. CASE ~registered
      BY <1>2, <2>1, <2>3, <3>2
    <3>3. QED
      BY <3>1, <3>2
  <2>4. QED
    BY <1>2, <2>2, <2>3, HistorySteps
<1>3. QED
  BY <1>1, <1>2, EngineTypeCorrect, PTL DEF Spec
=============================================================================
