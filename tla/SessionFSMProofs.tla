-------------------------- MODULE SessionFSMProofs --------------------------
(* Proofs about the session state machine: the two tables agree for every     *)
(* state and event, and the client's view is right for every sink capacity.   *)
EXTENDS SessionFSM, TLAPS

(* Every event resolves, in every state, to a state the transition table      *)
(* allows: the two tables of the code agree.                                  *)
LEMMA TablesAgree ==
  ASSUME NEW s \in SessionState, NEW event \in EventType
  PROVE  /\ resolveTargetState(s, event) \in SessionState
         /\ isValidTransition(s, resolveTargetState(s, event))
<1> USE DEF SessionState, resolveTargetState, Sources, Target,
            isValidTransition, IsValidTransition, validTransitions
<1>1. CASE event = "speech_start"
  BY <1>1
<1>2. CASE event \in {"speech_end", "asr_final"}
  BY <1>2
<1>3. CASE event = "first_tts_audio"
  BY <1>3
<1>4. CASE event = "interruption"
  BY <1>4
<1>5. CASE event = "bot_finished"
  BY <1>5
<1>6. CASE event = "session_stop"
  BY <1>6
<1>7. QED
  BY <1>1, <1>2, <1>3, <1>4, <1>5, <1>6 DEF EventType

(* What a send does to a well-typed sink: it keeps the type and the bound; it *)
(* changes nothing of a full sink and adds to the end of another.             *)
LEMMA TrySendEffect ==
  ASSUME FSMTypeOK, NEW e \in SinkEvent, TrySend(e)
  PROVE  /\ eventSink' \in Seq(SinkEvent)
         /\ Len(eventSink') <= SinkCap
         /\ \/ eventSink' = eventSink /\ ~(Len(eventSink) < SinkCap)
            \/ eventSink' = Append(eventSink, e) /\ Len(eventSink) < SinkCap
<1>1. CASE Len(eventSink) < SinkCap
  <2>1. /\ eventSink' = Append(eventSink, e)
        /\ Append(eventSink, e) \in Seq(SinkEvent)
        /\ Len(Append(eventSink, e)) = Len(eventSink) + 1
        /\ Len(eventSink) \in Nat
    BY <1>1 DEF TrySend, FSMTypeOK
  <2>2. QED
    BY <1>1, <2>1, SinkAssumption
<1>2. CASE ~(Len(eventSink) < SinkCap)
  BY <1>2 DEF TrySend, FSMTypeOK
<1>3. QED
  BY <1>1, <1>2

(* A state sent last is the last one; anything else changes nothing.          *)
LEMMA LastAfterAppend ==
  ASSUME NEW q \in Seq(SinkEvent), NEW e \in SinkEvent, NEW known, NEW s
  PROVE  /\ e \in SessionState => LastState(Append(q, e), known, e)
         /\ e \notin SessionState /\ LastState(q, known, s)
              => LastState(Append(q, e), known, s)
<1> DEFINE r == Append(q, e)
<1>1. /\ Len(q) \in Nat
      /\ Len(r) = Len(q) + 1
      /\ r[Len(q) + 1] = e
      /\ \A i \in 1..Len(q) : r[i] = q[i]
  OBVIOUS
<1> HIDE DEF r
<1>2. ASSUME e \in SessionState PROVE LastState(r, known, e)
  BY <1>1, <1>2 DEF LastState
<1>3. ASSUME e \notin SessionState, LastState(q, known, s)
      PROVE  LastState(r, known, s)
  <2>1. CASE Quiet(q) /\ known = s
    BY <1>1, <1>3, <2>1 DEF LastState, Quiet
  <2>2. ASSUME NEW i \in 1..Len(q), q[i] = s,
               \A j \in 1..Len(q) : j > i => q[j] \notin SessionState
        PROVE  LastState(r, known, s)
    <3>1. i \in 1..Len(r) /\ r[i] = s
      BY <1>1, <2>2
    <3>2. \A j \in 1..Len(r) : j > i => r[j] \notin SessionState
      BY <1>1, <1>3, <2>2
    <3>3. QED
      BY <3>1, <3>2 DEF LastState
  <2>3. QED
    BY <1>3, <2>1, <2>2 DEF LastState
<1>4. QED
  BY <1>2, <1>3 DEF r

(* Reading the head, and remembering it if it is a state, keeps the last one. *)
LEMMA LastAfterRead ==
  ASSUME NEW q \in Seq(SinkEvent), q # <<>>, NEW known, NEW s \in SessionState,
         LastState(q, known, s)
  PROVE  LastState(Tail(q), IF Head(q) \in SessionState THEN Head(q) ELSE known, s)
<1> DEFINE r == Tail(q)
           next == IF Head(q) \in SessionState THEN Head(q) ELSE known
<1>1. /\ Len(q) \in Nat /\ Len(q) > 0
      /\ Len(r) = Len(q) - 1
      /\ Head(q) = q[1]
      /\ \A i \in 1..Len(r) : r[i] = q[i + 1]
  OBVIOUS
<1> HIDE DEF r
<1>2. ASSUME Quiet(q) /\ known = s PROVE LastState(r, next, s)
  <2>1. q[1] \notin SessionState
    BY <1>1, <1>2 DEF Quiet
  <2>2. Quiet(r)
    BY <1>1, <1>2 DEF Quiet
  <2>3. QED
    BY <1>1, <1>2, <2>1, <2>2 DEF LastState
<1>3. ASSUME NEW i \in 1..Len(q), q[i] = s,
             \A j \in 1..Len(q) : j > i => q[j] \notin SessionState
      PROVE  LastState(r, next, s)
  <2>1. CASE i = 1
    <3>1. next = s
      BY <1>1, <1>3, <2>1
    <3>2. Quiet(r)
      BY <1>1, <1>3, <2>1 DEF Quiet
    <3>3. QED
      BY <3>1, <3>2 DEF LastState
  <2>2. CASE i > 1
    <3>1. i - 1 \in 1..Len(r) /\ r[i - 1] = s
      BY <1>1, <1>3, <2>2
    <3>2. \A j \in 1..Len(r) : j > i - 1 => r[j] \notin SessionState
      BY <1>1, <1>3, <2>2
    <3>3. QED
      BY <3>1, <3>2 DEF LastState
  <2>3. QED
    BY <1>1, <1>3, <2>1, <2>2
<1>4. QED
  BY <1>2, <1>3 DEF LastState, r

-----------------------------------------------------------------------------

(* The mutex: while a state is to be announced, it is the session's state.    *)
HeldByItsState == announcing \subseteq {currentState}

(* The inductive invariant: types, no rejected transition, the mutex, and a   *)
(* last state that is right unless its event was not sent.                    *)
IInv == FSMTypeOK /\ NeverRejects /\ HeldByItsState /\ ClientCatchesUp

LEMMA InitIInv == FSMInit => IInv
<1> SUFFICES ASSUME FSMInit PROVE IInv
  OBVIOUS
<1>1. /\ eventSink = <<>> /\ announcing = {} /\ errors = FALSE /\ untold = FALSE
      /\ currentState = "idle" /\ view = "idle"
  BY DEF FSMInit
<1>2. /\ <<>> \in Seq(SinkEvent)
      /\ Len(<<>>) = 0
      /\ 0 <= SinkCap
  BY SinkAssumption
<1>3. untold \in BOOLEAN /\ errors \in BOOLEAN
  BY <1>1, Zenon
<1>4. FSMTypeOK
  BY <1>1, <1>2, <1>3 DEF FSMTypeOK, SessionState
<1>5. NeverRejects /\ HeldByItsState
  BY <1>1, Zenon DEF NeverRejects, HeldByItsState
<1>6. LastState(eventSink, view, currentState)
  BY <1>1, <1>2 DEF LastState, Quiet
<1>7. QED
  BY <1>4, <1>5, <1>6 DEF IInv, ClientCatchesUp

LEMMA StepIInv == IInv /\ [FSMNext]_fsmVars => IInv'
<1> SUFFICES ASSUME IInv, [FSMNext]_fsmVars PROVE IInv'
  OBVIOUS
<1>t. FSMTypeOK /\ NeverRejects /\ HeldByItsState /\ ClientCatchesUp
  BY DEF IInv
<1>n. /\ EventType \subseteq SinkEvent /\ SessionState \subseteq SinkEvent
      /\ "other" \in SinkEvent /\ "other" \notin SessionState
      /\ "session_stop" \in EventType /\ "session_stop" \notin SessionState
      /\ "idle" \in SessionState
  BY DEF SinkEvent, EventType, SessionState
<1>1. ASSUME NEW event \in EventType, Transition(event) PROVE IInv'
  <2> DEFINE target == resolveTargetState(currentState, event)
  <2>1. target \in SessionState /\ isValidTransition(currentState, target)
    BY <1>t, TablesAgree DEF FSMTypeOK
  <2>2. /\ announcing = {} /\ currentState' = target
        /\ announcing' = announcing \cup {target}
        /\ TrySend(event)
        /\ errors' = errors /\ view' = view /\ untold' = untold
    BY <1>1, <2>1 DEF Transition, Enter, OnTransition
  <2> HIDE DEF target
  <2>3. eventSink' \in Seq(SinkEvent) /\ Len(eventSink') <= SinkCap
    BY <1>t, <1>n, <2>2, TrySendEffect
  <2>4. FSMTypeOK'
    BY <1>t, <2>1, <2>2, <2>3 DEF FSMTypeOK
  <2>5. NeverRejects' /\ HeldByItsState' /\ announcing' # {}
    BY <1>t, <2>2 DEF NeverRejects, HeldByItsState
  <2>6. QED
    BY <2>4, <2>5 DEF IInv, ClientCatchesUp
<1>2. CASE AnnounceState
  <2>1. PICK s \in announcing :
          /\ TrySend(s)
          /\ untold' = IF Len(eventSink) < SinkCap THEN FALSE ELSE TRUE
          /\ announcing' = announcing \ {s}
          /\ UNCHANGED <<currentState, view, errors>>
    BY <1>2 DEF AnnounceState
  <2>2. s = currentState /\ s \in SessionState /\ s \in SinkEvent
    BY <1>t, <1>n, <2>1 DEF HeldByItsState, FSMTypeOK
  <2>3. /\ eventSink' \in Seq(SinkEvent) /\ Len(eventSink') <= SinkCap
        /\ Len(eventSink) < SinkCap => eventSink' = Append(eventSink, s)
    BY <1>t, <2>1, <2>2, TrySendEffect
  <2>4. untold' \in BOOLEAN /\ (~untold' => Len(eventSink) < SinkCap)
    BY <2>1
  <2>5. FSMTypeOK'
    BY <1>t, <2>1, <2>3, <2>4 DEF FSMTypeOK
  <2>6. NeverRejects' /\ HeldByItsState'
    BY <1>t, <2>1 DEF NeverRejects, HeldByItsState
  <2>7. Len(eventSink) < SinkCap => LastState(eventSink', view, s)
    BY <1>t, <2>2, <2>3, LastAfterAppend DEF FSMTypeOK
  <2>8. ClientCatchesUp'
    BY <2>1, <2>2, <2>4, <2>7 DEF ClientCatchesUp
  <2>9. QED
    BY <2>5, <2>6, <2>8 DEF IInv
<1>3. CASE ResetFSM
  <2>1. /\ announcing = {} /\ announcing' = announcing
        /\ currentState' = "idle"
        /\ TrySend("session_stop")
        /\ untold' = IF currentState = "idle" THEN untold ELSE TRUE
        /\ view' = view /\ errors' = errors
    BY <1>3 DEF ResetFSM, OnTransition
  <2>2. /\ eventSink' \in Seq(SinkEvent) /\ Len(eventSink') <= SinkCap
        /\ \/ eventSink' = eventSink
           \/ eventSink' = Append(eventSink, "session_stop")
    BY <1>t, <1>n, <2>1, TrySendEffect
  <2>3. untold' \in BOOLEAN /\ (~untold' => currentState = "idle" /\ ~untold)
    BY <1>t, <2>1 DEF FSMTypeOK
  <2>4. FSMTypeOK'
    BY <1>t, <1>n, <2>1, <2>2, <2>3 DEF FSMTypeOK
  <2>5. NeverRejects' /\ HeldByItsState'
    BY <1>t, <2>1 DEF NeverRejects, HeldByItsState
  <2>6. LastState(eventSink, view, currentState)
          => LastState(eventSink', view, currentState)
    BY <1>t, <1>n, <2>2, LastAfterAppend DEF FSMTypeOK
  <2>7. ClientCatchesUp'
    BY <1>t, <2>1, <2>3, <2>6 DEF ClientCatchesUp
  <2>8. QED
    BY <2>4, <2>5, <2>7 DEF IInv
<1>4. CASE OtherEvent
  <2>1. /\ TrySend("other")
        /\ UNCHANGED <<currentState, announcing, view, untold, errors>>
    BY <1>4 DEF OtherEvent
  <2>2. /\ eventSink' \in Seq(SinkEvent) /\ Len(eventSink') <= SinkCap
        /\ \/ eventSink' = eventSink
           \/ eventSink' = Append(eventSink, "other")
    BY <1>t, <1>n, <2>1, TrySendEffect
  <2>3. FSMTypeOK'
    BY <1>t, <2>1, <2>2 DEF FSMTypeOK
  <2>4. NeverRejects' /\ HeldByItsState'
    BY <1>t, <2>1 DEF NeverRejects, HeldByItsState
  <2>5. LastState(eventSink, view, currentState)
          => LastState(eventSink', view, currentState)
    BY <1>t, <1>n, <2>2, LastAfterAppend DEF FSMTypeOK
  <2>6. ClientCatchesUp'
    BY <1>t, <2>1, <2>5 DEF ClientCatchesUp
  <2>7. QED
    BY <2>3, <2>4, <2>6 DEF IInv
<1>5. CASE ClientReads
  <2>1. /\ eventSink # <<>> /\ eventSink' = Tail(eventSink)
        /\ view' = IF Head(eventSink) \in SessionState THEN Head(eventSink) ELSE view
        /\ UNCHANGED <<currentState, announcing, untold, errors>>
    BY <1>5 DEF ClientReads
  <2>2. /\ Tail(eventSink) \in Seq(SinkEvent)
        /\ Len(Tail(eventSink)) = Len(eventSink) - 1
        /\ Len(eventSink) \in Nat
    BY <1>t, <2>1 DEF FSMTypeOK
  <2>3. FSMTypeOK'
    BY <1>t, <2>1, <2>2, SinkAssumption DEF FSMTypeOK
  <2>4. NeverRejects' /\ HeldByItsState'
    BY <1>t, <2>1 DEF NeverRejects, HeldByItsState
  <2>5. LastState(eventSink, view, currentState)
          => LastState(eventSink', view', currentState)
    BY <1>t, <2>1, LastAfterRead DEF FSMTypeOK
  <2>6. ClientCatchesUp'
    BY <1>t, <2>1, <2>5 DEF ClientCatchesUp
  <2>7. QED
    BY <2>3, <2>4, <2>6 DEF IInv
<1>6. CASE UNCHANGED fsmVars
  BY <1>t, <1>6 DEF fsmVars, IInv, FSMTypeOK, NeverRejects, HeldByItsState, ClientCatchesUp
<1>7. QED
  BY <1>1, <1>2, <1>3, <1>4, <1>5, <1>6 DEF FSMNext

LEMMA IInvInvariant == FSMSpec => []IInv
  BY InitIInv, StepIInv, PTL DEF FSMSpec

(* The type invariant, for every capacity of the event sink.                  *)
THEOREM FSMTypeCorrect == FSMSpec => []FSMTypeOK
  BY IInvInvariant, PTL DEF IInv

(* Transition never returns an error, whatever the order of the events.       *)
THEOREM FSMNeverRejects == FSMSpec => []NeverRejects
  BY IInvInvariant, PTL DEF IInv

(* A client that reads everything shows the session's state, unless the last  *)
(* change was not announced, for every capacity of the event sink, and        *)
(* whatever goes through it between the two sends of a transition.            *)
THEOREM FSMClientCatchesUp == FSMSpec => []ClientCatchesUp
  BY IInvInvariant, PTL DEF IInv
=============================================================================
