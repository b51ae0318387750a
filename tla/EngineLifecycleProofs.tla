------------------------ MODULE EngineLifecycleProofs ------------------------
(***************************************************************************)
(* The invariants of EngineLifecycle for any number of runs and stops.     *)
(* Both are inductive: a run's own phase says whether it may be the entry  *)
(* of activeSessions, and only Start, StoreContext and Return depend on    *)
(* that entry.                                                             *)
(***************************************************************************)
EXTENDS EngineLifecycle, TLAPS

Inv == LifecycleTypeOK /\ EntryIsOfLiveRun

LEMMA GetOrCreateType ==
  ASSUME NEW entry \in 0..MaxRuns, NEW r \in Runs
  PROVE  GetOrCreate(entry, r) \in Runs
BY LifecycleAssumption DEF GetOrCreate, Runs

LEMMA InitInv == LifecycleInit => Inv
<1>1. 0 \in 0..MaxRuns /\ 0 \in 0..MaxStops
  BY LifecycleAssumption
<1> QED
  BY <1>1 DEF LifecycleInit, Inv, LifecycleTypeOK, EntryIsOfLiveRun, Runs, Starting

LEMMA StartInv ==
  ASSUME Inv, NEW r \in Runs, Start(r)
  PROVE  Inv'
BY DEF Inv, LifecycleTypeOK, EntryIsOfLiveRun, Start, IsSessionActive, Starting

LEMMA TakeFSMInv ==
  ASSUME Inv, NEW r \in Runs, TakeFSM(r)
  PROVE  Inv'
<1>1. fsms' \in Runs
  BY GetOrCreateType DEF Inv, LifecycleTypeOK, TakeFSM
<1>2. fsms' \in 0..MaxRuns /\ fsms' # 0
  BY <1>1, LifecycleAssumption DEF Runs
<1> QED
  BY <1>2 DEF Inv, LifecycleTypeOK, EntryIsOfLiveRun, TakeFSM, Starting

LEMMA TakeTurnManagerInv ==
  ASSUME Inv, NEW r \in Runs, TakeTurnManager(r)
  PROVE  Inv'
<1>1. managers' \in Runs
  BY GetOrCreateType DEF Inv, LifecycleTypeOK, TakeTurnManager
<1>2. managers' \in 0..MaxRuns /\ managers' # 0
  BY <1>1, LifecycleAssumption DEF Runs
<1> QED
  BY <1>2 DEF Inv, LifecycleTypeOK, EntryIsOfLiveRun, TakeTurnManager, Starting

LEMMA StoreContextInv ==
  ASSUME Inv, NEW r \in Runs, StoreContext(r)
  PROVE  Inv'
<1>1. r \in 0..MaxRuns
  BY LifecycleAssumption DEF Runs
<1> QED
  BY <1>1 DEF Inv, LifecycleTypeOK, EntryIsOfLiveRun, StoreContext, Starting

LEMMA LoopEndsInv ==
  ASSUME Inv, NEW r \in Runs, SeeCancelled(r) \/ ASREnds(r)
  PROVE  Inv'
<1>1. /\ phase[r] = "run"
      /\ phase' = [phase EXCEPT ![r] = "return"]
      /\ UNCHANGED <<active, fsms, managers, fsmOf, turnsOf, stop, stops, cancelled>>
  BY DEF SeeCancelled, ASREnds
<1>2. LifecycleTypeOK'
  BY <1>1 DEF Inv, LifecycleTypeOK, Starting
<1>3. EntryIsOfLiveRun'
  BY <1>1 DEF Inv, LifecycleTypeOK, EntryIsOfLiveRun, Starting
<1> QED
  BY <1>2, <1>3 DEF Inv

LEMMA ReturnInv ==
  ASSUME Inv, NEW r \in Runs, Return(r)
  PROVE  Inv'
<1>1. 0 \in 0..MaxRuns
  BY LifecycleAssumption
<1> QED
  BY <1>1 DEF Inv, LifecycleTypeOK, EntryIsOfLiveRun, Return, Starting

\* StopSession looks at no phase: it can only take the entry away.
LEMMA StopBeginInv ==
  ASSUME Inv, StopBegin
  PROVE  Inv'
<1>1. stops' \in 0..MaxStops
  BY LifecycleAssumption DEF Inv, LifecycleTypeOK, StopBegin
<1>2. cancelled' \subseteq Runs
  BY DEF Inv, LifecycleTypeOK, StopBegin, Runs
<1> QED
  BY <1>1, <1>2 DEF Inv, LifecycleTypeOK, EntryIsOfLiveRun, StopBegin

LEMMA StopStepInv ==
  ASSUME Inv, StopStep
  PROVE  Inv'
<1>1. 0 \in 0..MaxRuns
  BY LifecycleAssumption
<1> QED
  BY <1>1 DEF Inv, LifecycleTypeOK, EntryIsOfLiveRun, StopStep, StopDelete,
              StopRemoveFSM, StopRemoveTurnManager

LEMMA NextInv == Inv /\ [LifecycleNext]_lifecycleVars => Inv'
<1> SUFFICES ASSUME Inv, [LifecycleNext]_lifecycleVars PROVE Inv'
  OBVIOUS
<1>1. ASSUME NEW r \in Runs, Start(r) PROVE Inv'
  BY <1>1, StartInv
<1>2. ASSUME NEW r \in Runs, RunStep(r) PROVE Inv'
  BY <1>2, TakeFSMInv, TakeTurnManagerInv, StoreContextInv, LoopEndsInv, ReturnInv
     DEF RunStep
<1>3. ASSUME NEW r \in Runs, ASREnds(r) PROVE Inv'
  BY <1>3, LoopEndsInv
<1>4. CASE StopBegin
  BY <1>4, StopBeginInv
<1>5. CASE StopStep
  BY <1>5, StopStepInv
<1>6. CASE UNCHANGED lifecycleVars
  BY <1>6 DEF lifecycleVars, Inv, LifecycleTypeOK, EntryIsOfLiveRun
<1> QED
  BY <1>1, <1>2, <1>3, <1>4, <1>5, <1>6 DEF LifecycleNext

LEMMA SpecInv == LifecycleSpec => []Inv
BY InitInv, NextInv, PTL DEF LifecycleSpec

(* Every variable of the registries has its type, and no run passes a lookup  *)
(* of ProcessSession (engine.go:124-135) without an FSM or a turn manager.    *)
THEOREM LifecycleTypeCorrect == LifecycleSpec => []LifecycleTypeOK
<1>1. Inv => LifecycleTypeOK
  BY DEF Inv
<1> QED
  BY <1>1, SpecInv, PTL

(* The entry of activeSessions is never that of a run that has returned,      *)
(* however the deferred Delete of ProcessSession (engine.go:151) interleaves  *)
(* with StopSession and with later runs of the same session.                  *)
THEOREM LifecycleEntryIsOfLiveRun == LifecycleSpec => []EntryIsOfLiveRun
<1>1. Inv => EntryIsOfLiveRun
  BY DEF Inv
<1> QED
  BY <1>1, SpecInv, PTL
=============================================================================
