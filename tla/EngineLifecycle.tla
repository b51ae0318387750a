--------------------------- MODULE EngineLifecycle ---------------------------
(***************************************************************************)
(* The engine's registries over the successive runs of one session ID      *)
(* (pipeline/engine.go with the managers of statemachine/).  Each call of  *)
(* ProcessSession is a run: it takes or creates the session's FSM and turn *)
(* manager, stores its context in activeSessions, loops (Engine.tla), and  *)
(* deletes the entry when it returns.  StopSession cancels the run it      *)
(* finds and empties the three registries, and returns before that run     *)
(* has ended.                                                              *)
(*                                                                         *)
(* The caller is a careful one: it starts a run when IsSessionActive says  *)
(* there is none, and never while it is starting or stopping another.      *)
(***************************************************************************)
EXTENDS Naturals

CONSTANTS MaxRuns, MaxStops     \* bounds on the calls of ProcessSession, StopSession

ASSUME LifecycleAssumption == MaxRuns \in Nat /\ MaxStops \in Nat

VARIABLES
  phase,      (* run -> where its ProcessSession is                          *)
  cancelled,  (* the runs whose context is cancelled                         *)
  active,     (* the run whose context activeSessions holds, 0 for none      *)
  fsms,       (* the run that created the FSM in FSMManager, 0 for none      *)
  managers,   (* the run that created the registered turn manager, and whose
                 history it therefore commits to; 0 for none                 *)
  fsmOf,      (* run -> the run that created the FSM it uses                 *)
  turnsOf,    (* run -> the run that created the turn manager it uses        *)
  stop, stops (* where StopSession is; how often it was called               *)

lifecycleVars == <<phase, cancelled, active, fsms, managers, fsmOf, turnsOf, stop, stops>>

Runs == 1..MaxRuns
Starting == {"fsm", "turns", "store"}

LifecycleInit ==
  /\ phase = [r \in Runs |-> "off"]
  /\ cancelled = {} /\ active = 0
  /\ fsms = 0 /\ managers = 0
  /\ fsmOf = [r \in Runs |-> 0] /\ turnsOf = [r \in Runs |-> 0]
  /\ stop = "idle" /\ stops = 0

\* GetOrCreate: the entry found, or a new one made by run r.
GetOrCreate(entry, r) == IF entry # 0 THEN entry ELSE r

-----------------------------------------------------------------------------
(* ProcessSession *)

IsSessionActive == active # 0

Start(r) ==
  /\ phase[r] = "off" /\ \A q \in 1..(r - 1) : phase[q] # "off"
  /\ ~IsSessionActive /\ stop = "idle"
  /\ \A q \in Runs : phase[q] \notin Starting
  /\ phase' = [phase EXCEPT ![r] = "fsm"]
  /\ UNCHANGED <<cancelled, active, fsms, managers, fsmOf, turnsOf, stop, stops>>

TakeFSM(r) ==
  /\ phase[r] = "fsm"
  /\ phase' = [phase EXCEPT ![r] = "turns"]
  /\ fsms' = GetOrCreate(fsms, r)
  /\ fsmOf' = [fsmOf EXCEPT ![r] = fsms']
  /\ UNCHANGED <<cancelled, active, managers, turnsOf, stop, stops>>

TakeTurnManager(r) ==
  /\ phase[r] = "turns"
  /\ phase' = [phase EXCEPT ![r] = "store"]
  /\ managers' = GetOrCreate(managers, r)
  /\ turnsOf' = [turnsOf EXCEPT ![r] = managers']
  /\ UNCHANGED <<cancelled, active, fsms, fsmOf, stop, stops>>

StoreContext(r) ==
  /\ phase[r] = "store"
  /\ phase' = [phase EXCEPT ![r] = "run"]
  /\ active' = r
  /\ UNCHANGED <<cancelled, fsms, managers, fsmOf, turnsOf, stop, stops>>

\* Mutation: the loop only looks at the recognizer's results.
SeeCancelledNever(r) == FALSE /\ UNCHANGED <<r, lifecycleVars>>

SeeCancelled(r) ==
  /\ phase[r] = "run" /\ r \in cancelled
  /\ phase' = [phase EXCEPT ![r] = "return"]
  /\ UNCHANGED <<cancelled, active, fsms, managers, fsmOf, turnsOf, stop, stops>>

\* The recognizer could not be started, or its results have ended.
ASREnds(r) ==
  /\ phase[r] = "run"
  /\ phase' = [phase EXCEPT ![r] = "return"]
  /\ UNCHANGED <<cancelled, active, fsms, managers, fsmOf, turnsOf, stop, stops>>

\* Mutation: the entry is left for StopSession to delete.
ReturnKeepsEntry(r) ==
  /\ phase[r] = "return"
  /\ phase' = [phase EXCEPT ![r] = "done"]
  /\ cancelled' = cancelled \cup {r}
  /\ UNCHANGED <<active, fsms, managers, fsmOf, turnsOf, stop, stops>>

\* The deferred Delete, of whatever entry the session has by now, and cancel.
Return(r) ==
  /\ phase[r] = "return"
  /\ phase' = [phase EXCEPT ![r] = "done"]
  /\ active' = 0
  /\ cancelled' = cancelled \cup {r}
  /\ UNCHANGED <<fsms, managers, fsmOf, turnsOf, stop, stops>>

-----------------------------------------------------------------------------
(* StopSession *)

StopBegin ==
  /\ stop = "idle" /\ stops < MaxStops
  /\ stop' = "delete" /\ stops' = stops + 1
  /\ cancelled' = IF active # 0 THEN cancelled \cup {active} ELSE cancelled
  /\ UNCHANGED <<phase, active, fsms, managers, fsmOf, turnsOf>>

StopDelete ==
  /\ stop = "delete"
  /\ stop' = "fsm"
  /\ active' = 0
  /\ UNCHANGED <<phase, cancelled, fsms, managers, fsmOf, turnsOf, stops>>

StopRemoveFSM ==
  /\ stop = "fsm"
  /\ stop' = "turns"
  /\ fsms' = 0
  /\ UNCHANGED <<phase, cancelled, active, managers, fsmOf, turnsOf, stops>>

StopRemoveTurnManager ==
  /\ stop = "turns"
  /\ stop' = "idle"
  /\ managers' = 0
  /\ UNCHANGED <<phase, cancelled, active, fsms, fsmOf, turnsOf, stops>>

-----------------------------------------------------------------------------

RunStep(r) ==
  TakeFSM(r) \/ TakeTurnManager(r) \/ StoreContext(r) \/ SeeCancelled(r) \/ Return(r)

StopStep == StopDelete \/ StopRemoveFSM \/ StopRemoveTurnManager

LifecycleNext ==
  \/ \E r \in Runs : Start(r) \/ RunStep(r) \/ ASREnds(r)
  \/ StopBegin \/ StopStep

LifecycleSpec == LifecycleInit /\ [][LifecycleNext]_lifecycleVars

\* What has begun goes on; nobody has to start, to stop or to hang up.
LifecycleFairSpec ==
  /\ LifecycleSpec
  /\ WF_lifecycleVars(StopStep)
  /\ \A r \in Runs : WF_lifecycleVars(RunStep(r))

-----------------------------------------------------------------------------
(* Properties *)

(* Every variable has its type, and a run past a lookup has what it looked    *)
(* up: the loop never meets an FSM or a turn manager that is not there.       *)
LifecycleTypeOK ==
  /\ phase \in [Runs -> Starting \cup {"off", "run", "return", "done"}]
  /\ cancelled \subseteq Runs
  /\ active \in 0..MaxRuns /\ fsms \in 0..MaxRuns /\ managers \in 0..MaxRuns
  /\ fsmOf \in [Runs -> 0..MaxRuns] /\ turnsOf \in [Runs -> 0..MaxRuns]
  /\ stop \in {"idle", "delete", "fsm", "turns"} /\ stops \in 0..MaxStops
  /\ \A r \in Runs : /\ fsmOf[r] = 0 <=> phase[r] \in {"off", "fsm"}
                     /\ turnsOf[r] = 0 <=> phase[r] \in {"off", "fsm", "turns"}

(* The session's entry is never that of a run that has returned, so an        *)
(* interruption is never handled with a context nobody serves, whichever of   *)
(* StopSession and the returning runs deletes last.                           *)
EntryIsOfLiveRun == active # 0 => phase[active] \in {"run", "return"}

(* "IsSessionActive returns true if the session is active" (engine.go:505): a *)
(* run under way is registered, so that it can be interrupted and stopped,    *)
(* unless StopSession has cancelled it or removed it (its FSM too) or is      *)
(* about to.                                                                  *)
RunningSessionIsActive ==
  \A r \in Runs :
    phase[r] = "run" /\ r \notin cancelled /\ fsms = fsmOf[r] /\ stop = "idle"
      => IsSessionActive

(* A run that StopSession cancelled returns, even when the session has been   *)
(* started again before it did.                                               *)
StoppedRunEnds == \A r \in Runs : r \in cancelled ~> phase[r] = "done"
=============================================================================
