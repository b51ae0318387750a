------------------------------- MODULE Engine -------------------------------
(***************************************************************************)
(* One session in the orchestrator's engine (pipeline/engine.go) with the  *)
(* LLM and TTS stages it drives (llm_stage.go, tts_stage.go) and its turn  *)
(* manager (statemachine/turn_manager.go).                                 *)
(*                                                                         *)
(* ProcessSession reads final transcripts one at a time and runs           *)
(* ProcessUserUtterance for each in its own goroutine: it starts a         *)
(* generation, a turn and an incremental synthesis, and waits for two      *)
(* goroutines, one moving tokens from the LLM to the TTS and one moving    *)
(* audio to the client.  The stages add a goroutine each.  They share      *)
(* three bounded channels.  HandleInterruption and StopSession are called  *)
(* by other goroutines and interleave with all of them.                    *)
(*                                                                         *)
(* Text is abstracted to numbers of tokens and the synthesizer's buffer to *)
(* whether it holds any; a segment yields one chunk of audio or none.      *)
(* Sends to the event sink never block and are left out; what reaches the  *)
(* client is observed in "heard".                                          *)
(***************************************************************************)
EXTENDS SessionStates, Naturals, Sequences

CONSTANTS
  MaxUtterances,  (* bound on final transcripts                              *)
  MaxTokens,      (* bound on the tokens of one generation                   *)
  MaxInterrupts,  (* bound on calls of HandleInterruption                    *)
  MaxStops,       (* bound on calls of StopSession                           *)
  TokenCap,       (* capacity of the LLM stage's tokenCh (10 in the code)    *)
  TTSTokenCap,    (* capacity of ttsTokenCh (10)                             *)
  AudioCap        (* capacity of the TTS stage's audioCh (10)                *)

ASSUME EngineAssumption ==
  /\ MaxUtterances \in Nat /\ MaxTokens \in Nat \ {0}
  /\ MaxInterrupts \in Nat /\ MaxStops \in Nat
  /\ TokenCap \in Nat \ {0} /\ TTSTokenCap \in Nat \ {0} /\ AudioCap \in Nat \ {0}

VARIABLES
  (* the session's context *)
  cancelled,     (* sessionCtx is done                                       *)
  registered,    (* activeSessions holds the session                         *)
  fsm,           (* the FSM's current state                                  *)
  turn,          (* TurnManager.currentTurn, or NoTurn                       *)
  history,       (* ConversationHistory.messages                             *)
  (* the goroutine of ProcessSession *)
  loop,          (* where it is                                              *)
  utt,           (* number of the last transcript it took                    *)
  (* the LLM stage, one goroutine per generation *)
  llm,           (* generation -> "off", "run" or "done"                     *)
  genCancelled,  (* generations whose own context was cancelled              *)
  activeGens,    (* generation IDs with a registered cancel function         *)
  produced,      (* generation -> tokens received from the provider so far   *)
  hold,          (* generation -> token received and not yet forwarded       *)
  tokenCh,       (* generation -> tokens in its channel                      *)
  (* the LLM token processor of ProcessUserUtterance *)
  proc, tok, firstToken, ttsTokenCh,
  (* the TTS stage: the incremental goroutine and the segment it runs *)
  tts,           (* "off", "run", "segment", "lastSegment", "done"           *)
  buffered,      (* the buffer of tokens to synthesize is not empty          *)
  activeSynth,   (* the cancel function activeSyntheses holds: none, that of
                    the incremental context, or that of the segment's        *)
  synthCancelled,   (* the incremental context was cancelled                 *)
  segmentCancelled, (* the running segment's context was cancelled           *)
  orphan,        (* an abandoned segment's goroutine has yet to end          *)
  audioCh,       (* chunks in the channel to the audio processor             *)
  (* the TTS audio processor *)
  audio,
  (* HandleInterruption and StopSession *)
  intr, interrupts, stop, stops,
  (* observation *)
  heard          (* utterances some of whose audio reached the client        *)

sessionVars == <<cancelled, registered>>
loopVars    == <<loop, utt>>
llmVars     == <<llm, genCancelled, activeGens, produced, hold, tokenCh>>
procVars    == <<proc, tok, firstToken, ttsTokenCh>>
ttsVars     == <<tts, buffered, activeSynth, synthCancelled, segmentCancelled, orphan,
                 audioCh>>
callVars    == <<intr, interrupts, stop, stops>>
vars == <<sessionVars, fsm, turn, history, loopVars, llmVars, procVars, ttsVars,
          audio, callVars, heard>>

Utterances == 1..MaxUtterances

\* generateID is called twice per utterance, by Generate and by StartTurn's caller.
StageGen(u) == <<"stage", u>>
TurnGen(u)  == <<"turn", u>>

NoTurn == [utt |-> 0, text |-> 0, cursor |-> 0, interrupted |-> FALSE]

(* GetCommittableText: the tokens the playout cursor has passed.              *)
Committable(t) == IF t.text > t.cursor THEN t.cursor ELSE t.text

Message(role, u) == [role |-> role, utt |-> u]

(* CommitTurn: append the committable text if there is any, clear the turn.   *)
CommitTurn ==
  /\ turn' = NoTurn
  /\ history' = IF Committable(turn) > 0
                THEN Append(history, Message("assistant", turn.utt)) ELSE history

Init ==
  /\ cancelled = FALSE /\ registered = TRUE
  /\ fsm = "idle" /\ turn = NoTurn /\ history = <<>>
  /\ loop = "recv" /\ utt = 0
  /\ llm = [u \in Utterances |-> "off"]
  /\ genCancelled = {} /\ activeGens = {}
  /\ produced = [u \in Utterances |-> 0]
  /\ hold = [u \in Utterances |-> "nothing"]
  /\ tokenCh = [u \in Utterances |-> <<>>]
  /\ proc = "off" /\ tok = "mid" /\ firstToken = TRUE /\ ttsTokenCh = 0
  /\ tts = "off" /\ buffered = FALSE /\ activeSynth = "none"
  /\ synthCancelled = FALSE /\ segmentCancelled = FALSE /\ orphan = FALSE
  /\ audioCh = 0
  /\ audio = "off"
  /\ intr = "idle" /\ interrupts = 0 /\ stop = "idle" /\ stops = 0
  /\ heard = {}

-----------------------------------------------------------------------------
(* ProcessSession and ProcessUserUtterance *)

\* The deferred Delete and cancel run on both ways out.
EndSession ==
  /\ loop' = "done"
  /\ cancelled' = TRUE
  /\ registered' = FALSE
  /\ UNCHANGED <<utt, fsm, turn, history, llmVars, procVars, ttsVars, audio,
                 callVars, heard>>

SeeCancelled == loop = "recv" /\ cancelled /\ EndSession

SeeASRClosed == loop = "recv" /\ EndSession

\* A final transcript; without a session context it is dropped with an error.
TakeTranscript ==
  /\ loop = "recv"
  /\ utt < MaxUtterances
  /\ utt' = utt + 1
  /\ IF registered
     THEN /\ loop' = "generate"
          /\ fsm' = AfterEvent(fsm, "asr_final")
          /\ history' = Append(history, Message("user", utt + 1))
     ELSE UNCHANGED <<loop, fsm, history>>
  /\ UNCHANGED <<sessionVars, turn, llmVars, procVars, ttsVars, audio,
                 callVars, heard>>

(* LLMStage.Generate.  Its deferred clean-up forgets the cancel function of a *)
(* generation whose context is already done.                                  *)
Generate ==
  /\ loop = "generate"
  /\ loop' = "startTurn"
  /\ llm' = [llm EXCEPT ![utt] = "run"]
  /\ activeGens' = IF cancelled THEN activeGens ELSE activeGens \cup {StageGen(utt)}
  /\ UNCHANGED <<sessionVars, fsm, turn, history, utt, genCancelled, produced,
                 hold, tokenCh, procVars, ttsVars, audio, callVars, heard>>

\* The breaker is open or the provider refuses: the utterance is given up.
GenerateFails ==
  /\ loop = "generate"
  /\ loop' = "recv"
  /\ UNCHANGED <<sessionVars, fsm, turn, history, utt, llmVars, procVars,
                 ttsVars, audio, callVars, heard>>

\* Mutation: the new turn inherits what a turn left over had accumulated.
StartTurnKeepsText ==
  /\ loop = "startTurn"
  /\ loop' = "startTTS"
  /\ turn' = [turn EXCEPT !.utt = utt, !.interrupted = FALSE]
  /\ UNCHANGED <<sessionVars, fsm, history, utt, llmVars, procVars, ttsVars,
                 audio, callVars, heard>>

\* StartTurn replaces whatever turn an earlier utterance left behind.
StartTurn ==
  /\ loop = "startTurn"
  /\ loop' = "startTTS"
  /\ turn' = [NoTurn EXCEPT !.utt = utt]
  /\ UNCHANGED <<sessionVars, fsm, history, utt, llmVars, procVars, ttsVars,
                 audio, callVars, heard>>

\* SynthesizeIncremental, then the two processors.
StartTTS ==
  /\ loop = "startTTS"
  /\ loop' = "wait"
  /\ proc' = "range" /\ firstToken' = TRUE /\ ttsTokenCh' = 0
  /\ tts' = "run" /\ buffered' = FALSE /\ audioCh' = 0
  /\ activeSynth' = "incremental"
  /\ synthCancelled' = FALSE /\ segmentCancelled' = FALSE
  /\ audio' = "range"
  /\ UNCHANGED <<sessionVars, fsm, turn, history, utt, llmVars, tok, orphan,
                 callVars, heard>>

\* Mutation: the end of the utterance is not signalled to the FSM.
UtteranceDoneSilently ==
  /\ loop = "wait"
  /\ proc = "done" /\ audio = "done"
  /\ loop' = "recv"
  /\ UNCHANGED <<sessionVars, fsm, turn, history, utt, llmVars, procVars, ttsVars,
                 audio, callVars, heard>>

UtteranceDone ==
  /\ loop = "wait"
  /\ proc = "done" /\ audio = "done"
  /\ loop' = "recv"
  /\ fsm' = AfterEvent(fsm, "bot_finished")
  /\ UNCHANGED <<sessionVars, turn, history, utt, llmVars, procVars, ttsVars,
                 audio, callVars, heard>>

-----------------------------------------------------------------------------
(* The goroutine of LLMStage.Generate *)

genDone(u) == cancelled \/ u \in genCancelled

notLLM == <<sessionVars, fsm, turn, history, loopVars, procVars, ttsVars, audio,
            callVars, heard>>

\* Mutation: the cancel function of a finished generation stays registered.
EndGenerationKeepsCancel(u) ==
  /\ llm' = [llm EXCEPT ![u] = "done"]
  /\ hold' = [hold EXCEPT ![u] = "nothing"]
  /\ UNCHANGED <<activeGens, genCancelled, produced>>

EndGeneration(u) ==
  /\ llm' = [llm EXCEPT ![u] = "done"]
  /\ hold' = [hold EXCEPT ![u] = "nothing"]
  /\ activeGens' = activeGens \ {StageGen(u)}
  /\ UNCHANGED <<genCancelled, produced>>

LLMReceive(u) ==
  /\ llm[u] = "run" /\ hold[u] = "nothing"
  /\ produced[u] < MaxTokens
  /\ \E kind \in {"mid", "final", "error"} : hold' = [hold EXCEPT ![u] = kind]
  /\ produced' = [produced EXCEPT ![u] = @ + 1]
  /\ UNCHANGED <<llm, genCancelled, activeGens, tokenCh, notLLM>>

\* The provider closes its stream, with or without a final token before.
LLMStreamEnds(u) ==
  /\ llm[u] = "run" /\ hold[u] = "nothing"
  /\ EndGeneration(u)
  /\ UNCHANGED <<tokenCh, notLLM>>

\* Nobody has to be reading: the send blocks while the channel is full.
LLMForward(u) ==
  /\ llm[u] = "run" /\ hold[u] # "nothing"
  /\ Len(tokenCh[u]) < TokenCap
  /\ tokenCh' = [tokenCh EXCEPT ![u] = Append(@, hold[u])]
  /\ IF hold[u] = "final"
     THEN EndGeneration(u)
     ELSE /\ hold' = [hold EXCEPT ![u] = "nothing"]
          /\ UNCHANGED <<llm, genCancelled, activeGens, produced>>
  /\ UNCHANGED notLLM

LLMCancelled(u) ==
  /\ llm[u] = "run" /\ genDone(u)
  /\ EndGeneration(u)
  /\ UNCHANGED <<tokenCh, notLLM>>

LLMStep(u) == LLMReceive(u) \/ LLMStreamEnds(u) \/ LLMForward(u) \/ LLMCancelled(u)

-----------------------------------------------------------------------------
(* The LLM token processor of ProcessUserUtterance; its end closes ttsTokenCh *)

notProc == <<sessionVars, loopVars, llm, genCancelled, activeGens, produced, hold,
             ttsVars, audio, callVars, heard>>

\* The first token moves the FSM; an error token ends the processor.
ProcReceive ==
  /\ proc = "range" /\ tokenCh[utt] # <<>>
  /\ tokenCh' = [tokenCh EXCEPT ![utt] = Tail(@)]
  /\ tok' = Head(tokenCh[utt])
  /\ IF tok' = "error"
     THEN proc' = "done" /\ UNCHANGED <<fsm, firstToken>>
     ELSE /\ proc' = "append"
          /\ firstToken' = FALSE
          /\ fsm' = IF firstToken THEN AfterEvent(fsm, "first_tts_audio") ELSE fsm
  /\ UNCHANGED <<turn, history, ttsTokenCh, notProc>>

ProcClosed ==
  /\ proc = "range" /\ tokenCh[utt] = <<>> /\ llm[utt] = "done"
  /\ proc' = "done"
  /\ UNCHANGED <<fsm, turn, history, tokenCh, tok, firstToken, ttsTokenCh, notProc>>

\* AppendGenerated does nothing once an interruption has cleared the turn.
ProcAppend ==
  /\ proc = "append"
  /\ proc' = "send"
  /\ turn' = IF turn = NoTurn THEN turn ELSE [turn EXCEPT !.text = @ + 1]
  /\ UNCHANGED <<fsm, history, tokenCh, tok, firstToken, ttsTokenCh, notProc>>

ProcSend ==
  /\ proc = "send" /\ ttsTokenCh < TTSTokenCap
  /\ ttsTokenCh' = ttsTokenCh + 1
  /\ proc' = IF tok = "final" THEN "commit" ELSE "range"
  /\ UNCHANGED <<fsm, turn, history, tokenCh, tok, firstToken, notProc>>

\* Mutation: the send to the TTS does not watch the context.
ProcQuitNever == FALSE /\ UNCHANGED vars

\* The select around the send: only the session's context ends the wait.
ProcQuit ==
  /\ proc = "send" /\ cancelled
  /\ proc' = "done"
  /\ UNCHANGED <<fsm, turn, history, tokenCh, tok, firstToken, ttsTokenCh, notProc>>

ProcCommit ==
  /\ proc = "commit"
  /\ proc' = "done"
  /\ CommitTurn
  /\ UNCHANGED <<fsm, tokenCh, tok, firstToken, ttsTokenCh, notProc>>

ProcStep == ProcReceive \/ ProcClosed \/ ProcAppend \/ ProcSend \/ ProcQuit \/ ProcCommit

-----------------------------------------------------------------------------
(* The goroutine of SynthesizeIncremental and the segment it synthesizes *)

synthDone == cancelled \/ synthCancelled
segmentDone == synthDone \/ segmentCancelled

notTTS == <<sessionVars, fsm, turn, history, loopVars, llmVars, proc, tok,
            firstToken, audio, callVars, heard>>

(* Synthesize stores the segment's cancel function over the incremental one,  *)
(* under the same session ID.                                                 *)
StartSegment(kind) ==
  /\ tts' = kind
  /\ activeSynth' = "segment"
  /\ segmentCancelled' = FALSE

\* Both ways Synthesize and the incremental goroutine end delete the entry.
EndTTS ==
  /\ tts' = "done"
  /\ activeSynth' = "none"
  /\ UNCHANGED segmentCancelled

(* A token completes a speakable segment or not.  The segment may be refused, *)
(* which keeps its text, or yield no audio, which leaves what follows it.     *)
TTSReceive ==
  /\ tts = "run" /\ ttsTokenCh > 0
  /\ ttsTokenCh' = ttsTokenCh - 1
  /\ buffered' \in BOOLEAN
  /\ \/ (buffered => buffered') /\ UNCHANGED <<tts, activeSynth, segmentCancelled>>
     \/ buffered' /\ StartSegment("segment")
     \/ activeSynth' = "none" /\ UNCHANGED <<tts, segmentCancelled>>
  /\ UNCHANGED <<synthCancelled, orphan, audioCh, notTTS>>

\* Mutation: the incremental goroutine ignores the end of its input.
TTSInputEndsIgnored == FALSE /\ UNCHANGED vars

\* Mutation: a channel that is empty is taken for one that is closed.
TTSInputEndsEarly ==
  /\ tts = "run" /\ ttsTokenCh = 0
  /\ \/ buffered /\ StartSegment("lastSegment")
     \/ EndTTS
  /\ UNCHANGED <<buffered, ttsTokenCh, synthCancelled, orphan, audioCh, notTTS>>

\* The input is closed: what is buffered is the last segment.
TTSInputEnds ==
  /\ tts = "run" /\ ttsTokenCh = 0 /\ proc = "done"
  /\ \/ buffered /\ StartSegment("lastSegment")
     \/ EndTTS
  /\ UNCHANGED <<buffered, ttsTokenCh, synthCancelled, orphan, audioCh, notTTS>>

TTSCancelled ==
  /\ tts = "run" /\ synthDone
  /\ EndTTS
  /\ UNCHANGED <<buffered, ttsTokenCh, synthCancelled, orphan, audioCh, notTTS>>

\* Mutation: the segment's entry survives it.
EndSegmentKeepsCancel ==
  /\ tts' = IF tts = "lastSegment" THEN "done" ELSE "run"
  /\ UNCHANGED <<activeSynth, segmentCancelled>>

\* The segment's goroutine deletes the session's entry, then closes its channel.
EndSegment ==
  /\ tts' = IF tts = "lastSegment" THEN "done" ELSE "run"
  /\ activeSynth' = "none"
  /\ UNCHANGED segmentCancelled

SegmentSpoken ==
  /\ tts \in {"segment", "lastSegment"} /\ audioCh < AudioCap
  /\ audioCh' = audioCh + 1
  /\ buffered' \in BOOLEAN
  /\ EndSegment
  /\ UNCHANGED <<ttsTokenCh, synthCancelled, orphan, notTTS>>

(* A cancelled segment ends without an error, as if it had been spoken.       *)
SegmentCut ==
  /\ tts \in {"segment", "lastSegment"} /\ segmentDone
  /\ buffered' \in BOOLEAN
  /\ EndSegment
  /\ UNCHANGED <<ttsTokenCh, synthCancelled, orphan, audioCh, notTTS>>

(* The forwarding loop sees the incremental context done before the segment's *)
(* goroutine does: it keeps the text and leaves that goroutine to itself.     *)
SegmentAbandoned ==
  /\ tts \in {"segment", "lastSegment"} /\ synthDone
  /\ IF tts = "lastSegment"
     THEN EndTTS
     ELSE tts' = "run" /\ UNCHANGED <<activeSynth, segmentCancelled>>
  /\ orphan' = TRUE
  /\ UNCHANGED <<buffered, ttsTokenCh, synthCancelled, audioCh, notTTS>>

\* It deletes the session's entry when it ends, whosever that is by then.
OrphanEnds ==
  /\ orphan
  /\ orphan' = FALSE
  /\ activeSynth' = "none"
  /\ UNCHANGED <<tts, buffered, ttsTokenCh, synthCancelled, segmentCancelled,
                 audioCh, notTTS>>

TTSStep ==
  \/ TTSReceive \/ TTSInputEnds \/ TTSCancelled
  \/ SegmentSpoken \/ SegmentCut \/ SegmentAbandoned

-----------------------------------------------------------------------------
(* The TTS audio processor of ProcessUserUtterance *)

notAudio == <<sessionVars, fsm, turn, history, loopVars, llmVars, procVars, tts,
              buffered, activeSynth, synthCancelled, segmentCancelled, orphan,
              callVars>>

AudioForward ==
  /\ audio = "range" /\ audioCh > 0
  /\ audioCh' = audioCh - 1
  /\ heard' = heard \cup {utt}
  /\ UNCHANGED <<audio, notAudio>>

AudioEnds ==
  /\ audio = "range" /\ audioCh = 0 /\ tts = "done"
  /\ audio' = "done"
  /\ UNCHANGED <<audioCh, heard, notAudio>>

AudioStep == AudioForward \/ AudioEnds

-----------------------------------------------------------------------------
(* HandleInterruption: one step for each lock it takes *)

notIntr == <<sessionVars, loopVars, llm, produced, hold, tokenCh, procVars, tts,
             buffered, orphan, audioCh, audio, interrupts, stop, stops, heard>>

InterruptBegin ==
  /\ intr = "idle" /\ registered /\ interrupts < MaxInterrupts
  /\ interrupts' = interrupts + 1
  /\ fsm' = AfterEvent(fsm, "interruption")
  /\ intr' = "llm"
  /\ UNCHANGED <<sessionVars, turn, history, loopVars, llmVars, procVars, ttsVars,
                 audio, stop, stops, heard>>

(* LLMStage.Cancel with the generation ID of the current turn: it cancels the *)
(* context stored under that ID, if one is.                                   *)
InterruptLLM ==
  /\ intr = "llm"
  /\ intr' = "tts"
  /\ IF turn = NoTurn
     THEN UNCHANGED <<genCancelled, activeGens>>
     ELSE LET id == TurnGen(turn.utt)
          IN  /\ genCancelled' = genCancelled \cup
                   {u \in Utterances : StageGen(u) = id /\ id \in activeGens}
              /\ activeGens' = activeGens \ {id}
  /\ UNCHANGED <<fsm, turn, history, activeSynth, synthCancelled,
                 segmentCancelled, notIntr>>

\* TTSStage.Cancel: whichever cancel function the session's entry holds.
InterruptTTS ==
  /\ intr = "tts"
  /\ intr' = "ttsDelete"
  /\ synthCancelled' = (synthCancelled \/ activeSynth = "incremental")
  /\ segmentCancelled' = (segmentCancelled \/ activeSynth = "segment")
  /\ UNCHANGED <<fsm, turn, history, genCancelled, activeGens, activeSynth, notIntr>>

\* Having cancelled it, it deletes the entry, which may be another one by now.
InterruptTTSDelete ==
  /\ intr = "ttsDelete"
  /\ intr' = "mark"
  /\ activeSynth' = "none"
  /\ UNCHANGED <<fsm, turn, history, genCancelled, activeGens, synthCancelled,
                 segmentCancelled, notIntr>>

\* The position handed to the turn manager is the turn's own cursor.
InterruptMark ==
  /\ intr = "mark"
  /\ intr' = "commit"
  /\ turn' = IF turn = NoTurn THEN turn ELSE [turn EXCEPT !.interrupted = TRUE]
  /\ UNCHANGED <<fsm, history, genCancelled, activeGens, activeSynth,
                 synthCancelled, segmentCancelled, notIntr>>

\* CommitTurn appends the committed text to the history, and the engine again.
InterruptCommit ==
  /\ intr = "commit"
  /\ intr' = "listen"
  /\ turn' = NoTurn
  /\ history' = IF Committable(turn) > 0
                THEN Append(Append(history, Message("assistant", turn.utt)),
                            Message("assistant", turn.utt))
                ELSE history
  /\ UNCHANGED <<fsm, genCancelled, activeGens, activeSynth, synthCancelled,
                 segmentCancelled, notIntr>>

InterruptListen ==
  /\ intr = "listen"
  /\ intr' = "idle"
  /\ fsm' = AfterEvent(fsm, "speech_start")
  /\ UNCHANGED <<turn, history, genCancelled, activeGens, activeSynth,
                 synthCancelled, segmentCancelled, notIntr>>

InterruptStep ==
  \/ InterruptLLM \/ InterruptTTS \/ InterruptTTSDelete
  \/ InterruptMark \/ InterruptCommit \/ InterruptListen

-----------------------------------------------------------------------------
(* StopSession; without a registered session it only cleans the maps *)

notStop == <<turn, history, loopVars, llmVars, procVars, ttsVars, audio, intr,
             interrupts, heard>>

StopBegin ==
  /\ stop = "idle" /\ stops < MaxStops
  /\ stops' = stops + 1
  /\ IF registered
     THEN cancelled' = TRUE /\ stop' = "fsm"
     ELSE stop' = "delete" /\ UNCHANGED cancelled
  /\ UNCHANGED <<registered, fsm, notStop>>

\* The context ProcessSession was given is cancelled by whoever made it.
CallerCancels ==
  /\ ~cancelled /\ stops < MaxStops
  /\ stops' = stops + 1
  /\ cancelled' = TRUE
  /\ UNCHANGED <<registered, fsm, stop, notStop>>

StopFSM ==
  /\ stop = "fsm"
  /\ fsm' = AfterEvent(fsm, "session_stop")
  /\ stop' = "delete"
  /\ UNCHANGED <<sessionVars, stops, notStop>>

StopDelete ==
  /\ stop = "delete"
  /\ registered' = FALSE
  /\ stop' = "idle"
  /\ UNCHANGED <<cancelled, fsm, stops, notStop>>

-----------------------------------------------------------------------------

LoopStep == SeeCancelled \/ Generate \/ GenerateFails \/ StartTurn \/ StartTTS
              \/ UtteranceDone

Next ==
  \/ SeeASRClosed \/ TakeTranscript \/ LoopStep
  \/ \E u \in Utterances : LLMStep(u)
  \/ ProcStep \/ TTSStep \/ OrphanEnds \/ AudioStep
  \/ InterruptBegin \/ InterruptStep
  \/ CallerCancels \/ StopBegin \/ StopFSM \/ StopDelete

Spec == Init /\ [][Next]_vars

(* The Go scheduler runs every goroutine that can run; a provider's stream    *)
(* goes on or ends.  Nobody has to speak, to interrupt or to stop.            *)
Fairness ==
  /\ WF_vars(LoopStep)
  /\ \A u \in Utterances : WF_vars(LLMStep(u))
  /\ WF_vars(ProcStep) /\ WF_vars(TTSStep) /\ WF_vars(OrphanEnds)
  /\ WF_vars(AudioStep)
  /\ WF_vars(InterruptStep)
  /\ WF_vars(StopFSM \/ StopDelete)

FairSpec == Spec /\ Fairness

-----------------------------------------------------------------------------
(* Properties *)

Messages == [role : {"user", "assistant"}, utt : Utterances]

SessionOK ==
  /\ cancelled \in BOOLEAN /\ registered \in BOOLEAN
  /\ fsm \in SessionState
  /\ turn \in [utt : 0..MaxUtterances, text : Nat, cursor : {0},
               interrupted : BOOLEAN]
  /\ history \in Seq(Messages)

LoopOK ==
  /\ loop \in {"recv", "generate", "startTurn", "startTTS", "wait", "done"}
  /\ utt \in 0..MaxUtterances

LLMOK ==
  /\ llm \in [Utterances -> {"off", "run", "done"}]
  /\ genCancelled \subseteq Utterances
  /\ activeGens \subseteq {StageGen(u) : u \in Utterances}
  /\ produced \in [Utterances -> 0..MaxTokens]
  /\ hold \in [Utterances -> {"nothing", "mid", "final", "error"}]
  /\ tokenCh \in [Utterances -> Seq({"mid", "final", "error"})]
  /\ \A u \in Utterances : Len(tokenCh[u]) <= TokenCap

ProcOK ==
  /\ proc \in {"off", "range", "append", "send", "commit", "done"}
  /\ tok \in {"mid", "final", "error"} /\ firstToken \in BOOLEAN
  /\ ttsTokenCh \in 0..TTSTokenCap

TTSOK ==
  /\ tts \in {"off", "run", "segment", "lastSegment", "done"}
  /\ activeSynth \in {"none", "incremental", "segment"}
  /\ buffered \in BOOLEAN /\ orphan \in BOOLEAN
  /\ synthCancelled \in BOOLEAN /\ segmentCancelled \in BOOLEAN
  /\ audioCh \in 0..AudioCap

AudioOK == audio \in {"off", "range", "done"} /\ heard \subseteq Utterances

CallsOK ==
  /\ intr \in {"idle", "llm", "tts", "ttsDelete", "mark", "commit", "listen"}
  /\ interrupts \in 0..MaxInterrupts
  /\ stop \in {"idle", "fsm", "delete"} /\ stops \in 0..MaxStops

\* Every variable has its type; no channel holds more than its capacity.
TypeOK ==
  SessionOK /\ LoopOK /\ LLMOK /\ ProcOK /\ TTSOK /\ AudioOK /\ CallsOK

(* The session is shown as speaking only while ProcessUserUtterance waits for *)
(* its goroutines, and as interrupted only until HandleInterruption returns,  *)
(* whatever interrupts or stops it: the first token's transition never comes  *)
(* after the one that ends the utterance, and no handler's is left standing.  *)
StateHasItsCause ==
  /\ fsm = "speaking" => loop = "wait"
  /\ fsm = "interrupted" => intr # "idle"

(* The turn manager's turn holds no more text than its generation produced,   *)
(* and while goroutines append to it, it is the utterance's own: what an      *)
(* interruption clears or an error leaves behind never mixes two replies.     *)
TurnIsOfCurrentUtterance ==
  turn # NoTurn =>
    /\ turn.text <= produced[turn.utt]
    /\ loop \in {"startTTS", "wait"} => turn.utt = utt

(* Until the session is cancelled, activeGens holds the cancel functions of   *)
(* exactly the generations that run: none is out of reach, none leaks.        *)
CancelFunctionsAreOfRunning ==
  \A u \in Utterances :
     /\ StageGen(u) \in activeGens => llm[u] = "run"
     /\ llm[u] = "run" => StageGen(u) \in activeGens \/ cancelled

(* The entry of activeSyntheses is that of a synthesis that has not ended.    *)
SynthesisEntryIsLive ==
  /\ activeSynth = "incremental" => tts = "run"
  /\ activeSynth = "segment" => tts \in {"segment", "lastSegment"} \/ orphan

(* When each goroutine can go on: what the guards of its steps come to.       *)
LoopReady ==
  \/ loop \in {"generate", "startTurn", "startTTS"}
  \/ loop = "recv" /\ cancelled
  \/ loop = "wait" /\ proc = "done" /\ audio = "done"
LLMReady(u) ==
  llm[u] = "run" /\ (hold[u] = "nothing" \/ Len(tokenCh[u]) < TokenCap \/ genDone(u))
ProcReady ==
  \/ proc = "range" /\ (tokenCh[utt] # <<>> \/ llm[utt] = "done")
  \/ proc \in {"append", "commit"}
  \/ proc = "send" /\ (ttsTokenCh < TTSTokenCap \/ cancelled)
TTSReady ==
  \/ tts = "run" /\ (ttsTokenCh > 0 \/ proc = "done" \/ synthDone)
  \/ tts \in {"segment", "lastSegment"} /\ (audioCh < AudioCap \/ segmentDone)
AudioReady == audio = "range" /\ (audioCh > 0 \/ tts = "done")

\* No goroutine of the session runs any more and no cancel function is left.
AllEnded ==
  /\ loop = "done" /\ activeGens = {} /\ activeSynth = "none"
  /\ \A u \in Utterances : llm[u] # "run"
  /\ proc \in {"off", "done"} /\ tts \in {"off", "done"} /\ audio \in {"off", "done"}

(* Cancelling the session's context ends ProcessSession and every goroutine   *)
(* it started, whatever each was blocked on.                                  *)
StopTerminates == cancelled ~> AllEnded

(* A token for a synthesis that an interruption has ended: nobody reads it.   *)
SendsToNobody ==
  /\ proc = "send" /\ ttsTokenCh = TTSTokenCap
  /\ tts = "done" /\ synthCancelled /\ interrupts > 0 /\ ~cancelled

(* While an utterance is in the works one of its own goroutines can go on,    *)
(* but for one case, the send to a synthesis an interruption has ended: full  *)
(* and empty channels, a segment refused or cut, a stream that ends without a *)
(* final token never close a ring of waiting.  And once the session is        *)
(* cancelled, as long as not everything has ended something can go on.        *)
SomebodyGoesOn ==
  /\ loop = "wait" =>
       LoopReady \/ LLMReady(utt) \/ ProcReady \/ TTSReady \/ AudioReady \/ SendsToNobody
  /\ cancelled /\ ~AllEnded =>
       \/ LoopReady \/ ProcReady \/ TTSReady \/ AudioReady \/ orphan
       \/ \E u \in Utterances : LLMReady(u)

(* Every utterance taken up is finished: ProcessUserUtterance returns and     *)
(* ProcessSession reads the next transcript, which is the last step of an     *)
(* interruption: "New user utterance processed"                               *)
(* (docs/session-interruption.md:183).                                        *)
UtteranceEnds == loop = "wait" ~> loop # "wait"

(* An utterance nobody interrupts is finished: the five goroutines and the    *)
(* three bounded channels between them never wait for one another in a ring,  *)
(* wherever the provider's streams fail or end and whichever segments are     *)
(* refused.                                                                   *)
UninterruptedUtteranceEnds ==
  loop = "wait" /\ interrupts = 0 ~> loop # "wait" \/ interrupts > 0

(* "Cancel active LLM generation" (engine.go:400): when HandleInterruption    *)
(* has dealt with the LLM stage, the turn's generation is no longer running   *)
(* with its context alive.                                                    *)
InterruptionCancelsGeneration ==
  [][intr = "llm" /\ intr' = "tts" /\ turn # NoTurn /\ llm[turn.utt] = "run"
       => turn.utt \in genCancelled']_vars

(* "Cancel active TTS synthesis" (engine.go:408): when HandleInterruption has *)
(* dealt with the TTS stage, the utterance's synthesis, between two segments  *)
(* or in one, has its context cancelled and takes up no further segment.      *)
InterruptionCancelsSynthesis ==
  [][intr = "tts" /\ intr' = "ttsDelete" /\ tts \in {"run", "segment", "lastSegment"}
       => synthDone']_vars

(* "Commit turn to history" (engine.go:323): once an utterance is over whose  *)
(* reply came to its final token and was heard, the reply is in the history.  *)
HeardRepliesAreCommitted ==
  loop = "recv" /\ utt \in heard /\ tok = "final" =>
    \E i \in 1..Len(history) : history[i] = Message("assistant", utt)
=============================================================================
