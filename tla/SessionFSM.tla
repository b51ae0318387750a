----------------------------- MODULE SessionFSM -----------------------------
(***************************************************************************)
(* The orchestrator's session state machine as its client sees it          *)
(* (statemachine/fsm.go, with the handler the engine installs in           *)
(* setupFSMHandlers).  A transition sends two turn events on the event     *)
(* sink: the handler's, which carries the name of the event, and the       *)
(* machine's own, which carries the state.  The machine's mutex is held    *)
(* until the second is sent, but the sink is bounded and shared with the   *)
(* transcripts, tokens and audio of the session and with its reader, whose *)
(* steps fall between the two; every send gives up when the sink is full.  *)
(***************************************************************************)
EXTENDS SessionStates, Naturals, Sequences

CONSTANT SinkCap          \* capacity of the event sink

ASSUME SinkAssumption == SinkCap \in Nat \ {0}

VARIABLES
  currentState,  (* fsm.currentState                                         *)
  announcing,    (* states entered whose turn event is still to be sent:     *)
                 (* the mutex is held while there is one                     *)
  eventSink,     (* what is to be read, by the event, or "other"             *)
  view,          (* the last state the client has read                       *)
  untold,        (* observation: the last change was not announced           *)
  errors         (* observation: some Transition returned an error           *)

fsmVars == <<currentState, announcing, eventSink, view, untold, errors>>

(* What an element of the sink tells: a turn event's name or state, or        *)
(* something else (transcript, token, audio).                                 *)
SinkEvent == EventType \cup SessionState \cup {"other"}

FSMInit ==
  /\ currentState = "idle"
  /\ announcing = {}
  /\ eventSink = <<>>
  /\ view = "idle"
  /\ untold = FALSE
  /\ errors = FALSE

\* select { case sink <- e: default: }
TrySend(e) ==
  eventSink' = IF Len(eventSink) < SinkCap THEN Append(eventSink, e) ELSE eventSink

\* The engine's handler: NewTurnEvent(.., To), with Event overwritten by the name.
OnTransition(event) == TrySend(event)

Enter(event, target) ==
  /\ currentState' = target
  /\ announcing' = announcing \cup {target}
  /\ OnTransition(event)
  /\ UNCHANGED errors

Reject ==
  /\ errors' = TRUE
  /\ UNCHANGED <<currentState, announcing, eventSink>>

\* Mutation: the mutex is released before the state is sent.
TransitionUnlocked(event) ==
  LET target == resolveTargetState(currentState, event)
  IN  /\ target # currentState
      /\ IF isValidTransition(currentState, target)
         THEN Enter(event, target) ELSE Reject
      /\ UNCHANGED <<view, untold>>

\* Transition, up to the send of its own turn event.
Transition(event) ==
  LET target == resolveTargetState(currentState, event)
  IN  /\ announcing = {}
      /\ target # currentState
      /\ IF isValidTransition(currentState, target)
         THEN Enter(event, target) ELSE Reject
      /\ UNCHANGED <<view, untold>>

\* The rest of Transition: the state's turn event, if it fits; the unlock.
AnnounceState ==
  \E s \in announcing :
    /\ TrySend(s)
    /\ untold' = IF Len(eventSink) < SinkCap THEN FALSE ELSE TRUE
    /\ announcing' = announcing \ {s}
    /\ UNCHANGED <<currentState, view, errors>>

\* Reset calls the handler only, which names the event: no state is sent.
ResetFSM ==
  /\ announcing = {}
  /\ currentState' = "idle"
  /\ OnTransition("session_stop")
  /\ untold' = IF currentState = "idle" THEN untold ELSE TRUE
  /\ UNCHANGED <<announcing, view, errors>>

\* The engine's other non-blocking sends on the same sink.
OtherEvent ==
  /\ TrySend("other")
  /\ UNCHANGED <<currentState, announcing, view, untold, errors>>

ClientReads ==
  /\ eventSink # <<>>
  /\ view' = IF Head(eventSink) \in SessionState THEN Head(eventSink) ELSE view
  /\ eventSink' = Tail(eventSink)
  /\ UNCHANGED <<currentState, announcing, untold, errors>>

FSMNext ==
  \/ \E event \in EventType : Transition(event)
  \/ AnnounceState
  \/ ResetFSM
  \/ OtherEvent
  \/ ClientReads

FSMSpec == FSMInit /\ [][FSMNext]_fsmVars

-----------------------------------------------------------------------------
(* Properties *)

\* Every variable has its type; the sink never holds more than it can.
FSMTypeOK ==
  /\ currentState \in SessionState
  /\ announcing \subseteq SessionState
  /\ eventSink \in Seq(SinkEvent)
  /\ Len(eventSink) <= SinkCap
  /\ view \in SessionState
  /\ untold \in BOOLEAN
  /\ errors \in BOOLEAN

(* No event, in any state, resolves to a target the transition table          *)
(* forbids: the error return of Transition is unreachable, so the engine's    *)
(* "FSM transition failed" warnings can never be what went wrong.             *)
NeverRejects == ~errors

Quiet(q) == \A i \in 1..Len(q) : q[i] \notin SessionState

\* s is the last state in q, or the one known if q has none.
LastState(q, known, s) ==
  \/ Quiet(q) /\ known = s
  \/ \E i \in 1..Len(q) :
       /\ q[i] = s
       /\ \A j \in 1..Len(q) : j > i => q[j] \notin SessionState

(* Unless the very last change was not announced (its event found the sink    *)
(* full, or it was a Reset), a client that reads all that was sent ends up    *)
(* showing the state the session is in, whoever made the transitions and      *)
(* whatever else went through the sink.                                       *)
ClientCatchesUp ==
  announcing = {} /\ ~untold => LastState(eventSink, view, currentState)
=============================================================================
