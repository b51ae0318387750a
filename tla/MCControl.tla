----------------------------- MODULE MCControl ------------------------------
(***************************************************************************)
(* The engine's small shared machines, checked in one run: the breaker its *)
(* stages share, the FSM of a session with its event sink, and the         *)
(* registries over the runs of a session ID.  They are specified apart and *)
(* share no variable: a behaviour chooses one at the start and is a        *)
(* behaviour of that one, the others standing still.                       *)
(*                                                                         *)
(* Breaker: three callers, so that a straggler of the closed period can    *)
(* return while another is a trial of the half-open one.  FSM: a sink of   *)
(* three events, room for one transition (two events) and half of the      *)
(* next, so that events are dropped at every position, the state alone     *)
(* too.  Registries: three runs and two stops, so that a run can outlive   *)
(* the stop that cancelled it while the next starts, ends or is stopped.   *)
(***************************************************************************)
EXTENDS CircuitBreaker, SessionFSM, EngineLifecycle

CONSTANTS c1, c2, c3

MCCallers == {c1, c2, c3}

VARIABLE which \* the machine this behaviour is about

controlVars == <<which, vars, fsmVars, lifecycleVars>>

\* The chosen machine steps, the others do not.
OnBreaker   == which = "breaker" /\ UNCHANGED <<which, fsmVars, lifecycleVars>>
OnFSM       == which = "fsm" /\ UNCHANGED <<which, vars, lifecycleVars>>
OnLifecycle == which = "lifecycle" /\ UNCHANGED <<which, vars, fsmVars>>

ControlInit ==
  /\ which \in {"breaker", "fsm", "lifecycle"}
  /\ Init /\ FSMInit /\ LifecycleInit

ControlNext ==
  \/ \E c \in Callers : OnBreaker /\ BeforeCall(c)
  \/ \E c \in Callers : OnBreaker /\ AfterCall(c)
  \/ OnBreaker /\ Reset
  \/ OnBreaker /\ TimeoutElapses
  \/ \E event \in EventType : OnFSM /\ Transition(event)
  \/ OnFSM /\ AnnounceState
  \/ OnFSM /\ ResetFSM
  \/ OnFSM /\ OtherEvent
  \/ OnFSM /\ ClientReads
  \/ \E r \in Runs : OnLifecycle /\ Start(r)
  \/ \E r \in Runs : OnLifecycle /\ TakeFSM(r)
  \/ \E r \in Runs : OnLifecycle /\ TakeTurnManager(r)
  \/ \E r \in Runs : OnLifecycle /\ StoreContext(r)
  \/ \E r \in Runs : OnLifecycle /\ SeeCancelled(r)
  \/ \E r \in Runs : OnLifecycle /\ ASREnds(r)
  \/ \E r \in Runs : OnLifecycle /\ Return(r)
  \/ OnLifecycle /\ StopBegin
  \/ OnLifecycle /\ StopDelete
  \/ OnLifecycle /\ StopRemoveFSM
  \/ OnLifecycle /\ StopRemoveTurnManager

\* Each machine's own fairness; the FSM needs none.
ControlFairness ==
  /\ WF_vars(which = "breaker" /\ TimeoutElapses)
  /\ \A c \in Callers : /\ WF_vars(which = "breaker" /\ BeforeCall(c))
                        /\ WF_vars(which = "breaker" /\ AfterCall(c))
  /\ WF_lifecycleVars(which = "lifecycle" /\ StopStep)
  /\ \A r \in Runs : WF_lifecycleVars(which = "lifecycle" /\ RunStep(r))

ControlSpec == ControlInit /\ [][ControlNext]_controlVars /\ ControlFairness
=============================================================================
