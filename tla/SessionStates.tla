---------------------------- MODULE SessionStates ----------------------------
(***************************************************************************)
(* The states of a voice session and the two tables that govern them: the  *)
(* transitions declared valid (pkg/session/state.go, repeated in           *)
(* statemachine/fsm.go) and the target each event resolves to (fsm.go).    *)
(***************************************************************************)

SessionState == {"idle", "listening", "processing", "speaking", "interrupted"}

EventType == {"speech_start", "speech_end", "asr_final", "first_tts_audio",
              "interruption", "bot_finished", "session_stop"}

\* Mutation: an interrupted session may only go back to listening or stop.
validTransitionsNoResume ==
  [s \in SessionState |->
     CASE s = "idle"        -> {"listening"}
       [] s = "interrupted" -> {"listening", "idle"}
       [] OTHER             -> SessionState \ {s}]

\* validTransitions: no state may move to itself.
validTransitions ==
  [s \in SessionState |->
     CASE s = "idle"        -> {"listening"}
       [] s = "listening"   -> {"processing", "idle", "interrupted"}
       [] s = "processing"  -> {"speaking", "idle", "interrupted"}
       [] s = "speaking"    -> {"listening", "idle", "interrupted"}
       [] s = "interrupted" -> {"listening", "idle", "processing"}]

\* pkg/session IsValidTransition, used by the media edge's StateMachine.
IsValidTransition(from, to) == to \in validTransitions[from]

\* SessionFSM.isValidTransition, which also allows staying where one is.
isValidTransition(from, to) == from = to \/ IsValidTransition(from, to)

\* The states in which an event moves the session, and where to.
Sources(event) ==
  CASE event = "speech_start"               -> {"idle", "speaking", "interrupted"}
    [] event \in {"speech_end", "asr_final"} -> {"listening", "interrupted"}
    [] event = "first_tts_audio"            -> {"processing"}
    [] event = "interruption"               -> {"speaking", "processing", "listening"}
    [] event = "bot_finished"               -> {"speaking"}
    [] event = "session_stop"               -> SessionState

Target(event) ==
  CASE event = "speech_start"               -> "listening"
    [] event \in {"speech_end", "asr_final"} -> "processing"
    [] event = "first_tts_audio"            -> "speaking"
    [] event = "interruption"               -> "interrupted"
    [] event \in {"bot_finished", "session_stop"} -> "idle"

\* resolveTargetState: an event that does not apply leaves the state alone.
resolveTargetState(s, event) == IF s \in Sources(event) THEN Target(event) ELSE s

(* The state after Transition(event) in state s; an invalid move is an error  *)
(* that changes nothing.                                                      *)
AfterEvent(s, event) ==
  IF isValidTransition(s, resolveTargetState(s, event))
  THEN resolveTargetState(s, event) ELSE s
=============================================================================
