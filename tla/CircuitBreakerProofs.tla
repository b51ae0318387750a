------------------------ MODULE CircuitBreakerProofs ------------------------
(* Proofs that the circuit breaker keeps its counters consistent with its     *)
(* state for every set of callers and every threshold and half-open limit.    *)
EXTENDS CircuitBreaker, TLAPS

(* What the increment returns: a counter, never smaller than before, and      *)
(* large enough to trip a limit exactly when the true count would be.         *)
LEMMA IncrementInRange ==
  ASSUME NEW n \in 0..CountCap
  PROVE  /\ Increment(n) \in 0..CountCap
         /\ Increment(n) >= n
         /\ \A k \in 0..CountCap : Increment(n) >= k <=> n + 1 >= k
  BY BreakerAssumption DEF Increment

(* The type invariant of the breaker is an invariant of the specification.    *)
THEOREM TypeCorrect == Spec => []TypeOK
<1>1. Init => TypeOK
  BY BreakerAssumption DEF Init, TypeOK, CircuitState
<1>2. TypeOK /\ [Next]_vars => TypeOK'
  <2> SUFFICES ASSUME TypeOK, [Next]_vars PROVE TypeOK'
    OBVIOUS
  <2>1. 0 \in 0..CountCap /\ 1 \in 0..CountCap
    BY BreakerAssumption
  <2>2. ASSUME NEW c \in Callers, BeforeCall(c) PROVE TypeOK'
    BY <2>1, <2>2, IncrementInRange
    DEF TypeOK, CircuitState, BeforeCall, AdmitClosed, AdmitAfterTimeout,
        AdmitHalfOpen, breakerVars
  <2>3. ASSUME NEW c \in Callers, AfterCall(c) PROVE TypeOK'
    <3>1. CASE recordFailure
      BY <2>1, <2>3, <3>1, IncrementInRange
      DEF TypeOK, CircuitState, AfterCall, recordFailure
    <3>2. CASE recordSuccess
      BY <2>1, <2>3, <3>2, IncrementInRange
      DEF TypeOK, CircuitState, AfterCall, recordSuccess
    <3>3. QED
      BY <2>3, <3>1, <3>2 DEF AfterCall
  <2>4. CASE Reset
    BY <2>1, <2>4 DEF TypeOK, CircuitState, Reset
  <2>5. CASE TimeoutElapses
    BY <2>5 DEF TypeOK, TimeoutElapses, breakerVars
  <2>6. CASE UNCHANGED vars
    BY <2>6 DEF TypeOK, vars
  <2>7. QED
    BY <2>2, <2>3, <2>4, <2>5, <2>6 DEF Next
<1>3. QED
  BY <1>1, <1>2, PTL DEF Spec

-----------------------------------------------------------------------------

(* What a step does to the state and the counters, whoever takes it: a call   *)
(* admitted without a transition and the passing of time touch none of them;  *)
(* the call that finds the timeout over half-opens the breaker; the rest are  *)
(* the results of calls and the operator's Reset.                             *)
HalfOpens ==
  /\ state = "open" /\ elapsed
  /\ state' = "halfOpen" /\ failureCount' = 0 /\ successCount' = 0
  /\ UNCHANGED streak

CountersKept == UNCHANGED <<state, failureCount, successCount, streak>>

LEMMA StepByEffect ==
  ASSUME [Next]_vars
  PROVE  CountersKept \/ HalfOpens \/ recordFailure \/ recordSuccess \/ Reset
<1>1. ASSUME NEW c \in Callers, BeforeCall(c) PROVE CountersKept \/ HalfOpens
  BY <1>1 DEF BeforeCall, AdmitClosed, AdmitAfterTimeout, AdmitHalfOpen,
              breakerVars, CountersKept, HalfOpens
<1>2. ASSUME NEW c \in Callers, AfterCall(c) PROVE recordFailure \/ recordSuccess
  BY <1>2 DEF AfterCall
<1>3. TimeoutElapses \/ UNCHANGED vars => CountersKept
  BY DEF TimeoutElapses, breakerVars, vars, CountersKept
<1>4. QED
  BY <1>1, <1>2, <1>3 DEF Next

(* What the counters say in each state.  Half-open: no failure is counted,    *)
(* since the first one reopens the breaker, and less than the quota of        *)
(* successes, since the last one closes it.  Closed: as the property says.    *)
(* The same cases of StepByEffect keep both, so one induction serves both.    *)
HalfOpenCounts ==
  state = "halfOpen" => failureCount = 0 /\ successCount < HalfOpenMaxCalls

CountersFitState == HalfOpenCounts /\ ClosedCountsConsecutiveFailures

LEMMA CountersFitStateInv == Spec => []CountersFitState
<1> USE DEF CountersFitState, HalfOpenCounts, ClosedCountsConsecutiveFailures
<1>1. Init => CountersFitState
  BY BreakerAssumption DEF Init
<1>2. ASSUME TypeOK, CountersFitState, recordFailure PROVE CountersFitState'
  <2>1. CASE state = "closed"
    <3>1. failureCount' = Increment(failureCount) /\ streak' = Increment(streak)
      BY <1>2, <2>1 DEF recordFailure
    <3>2. failureCount' \in 0..CountCap /\ failureCount' <= streak'
      BY <1>2, <2>1, <3>1, BreakerAssumption DEF TypeOK, Increment
    <3>3. QED
      BY <1>2, <2>1, <3>2, BreakerAssumption DEF recordFailure
  <2>2. CASE state # "closed"
    BY <1>2, <2>2 DEF recordFailure, TypeOK
  <2>3. QED
    BY <2>1, <2>2
<1>3. ASSUME TypeOK, CountersFitState, recordSuccess PROVE CountersFitState'
  <2>1. Increment(successCount) \in 0..CountCap
    BY <1>3, IncrementInRange DEF TypeOK
  <2>2. QED
    BY <1>3, <2>1, BreakerAssumption DEF recordSuccess, TypeOK
<1>4. ASSUME TypeOK, CountersFitState, CountersKept \/ HalfOpens \/ Reset
      PROVE  CountersFitState'
  BY <1>4, BreakerAssumption DEF CountersKept, HalfOpens, Reset, TypeOK
<1>5. TypeOK /\ CountersFitState /\ [Next]_vars => CountersFitState'
  BY <1>2, <1>3, <1>4, StepByEffect
<1>6. QED
  BY <1>1, <1>5, TypeCorrect, PTL DEF Spec

(* A half-open breaker always admits the next call: the refusal "half-open    *)
(* limit reached" of beforeCall cannot happen.                                *)
THEOREM HalfOpenAlwaysAdmits == Spec => []HalfOpenNeverStarves
<1>1. TypeOK /\ CountersFitState => HalfOpenNeverStarves
  BY BreakerAssumption
  DEF TypeOK, CountersFitState, HalfOpenCounts, HalfOpenNeverStarves,
      HalfOpenLimitReached
<1>2. QED
  BY <1>1, TypeCorrect, CountersFitStateInv, PTL

(* The failures a closed breaker counts are fewer than the threshold and all  *)
(* belong to the run of failures that ends now.                               *)
THEOREM ClosedCounts == Spec => []ClosedCountsConsecutiveFailures
<1>1. CountersFitState => ClosedCountsConsecutiveFailures
  BY DEF CountersFitState
<1>2. QED
  BY <1>1, CountersFitStateInv, PTL

-----------------------------------------------------------------------------

(* The step that opens a closed breaker is a failure that completes a run of  *)
(* at least FailureThreshold consecutive failures.                            *)
THEOREM OpensAfterRun == Spec => OpensOnlyAfterConsecutiveFailures
<1>1. TypeOK /\ ClosedCountsConsecutiveFailures /\ [Next]_vars
      => [state = "closed" /\ state' = "open" => streak' >= FailureThreshold]_vars
  <2> SUFFICES ASSUME TypeOK, ClosedCountsConsecutiveFailures, [Next]_vars,
                      state = "closed", state' = "open"
               PROVE  streak' >= FailureThreshold
    OBVIOUS
  <2>1. recordFailure
    BY StepByEffect DEF CountersKept, HalfOpens, recordSuccess, Reset
  <2>2. Increment(failureCount) >= FailureThreshold
    BY <2>1 DEF recordFailure
  <2>3. Increment(streak) >= Increment(failureCount)
    BY BreakerAssumption DEF Increment, TypeOK, ClosedCountsConsecutiveFailures
  <2>4. Increment(streak) \in Nat /\ Increment(failureCount) \in Nat
    BY IncrementInRange DEF TypeOK
  <2>5. QED
    BY <2>1, <2>2, <2>3, <2>4, BreakerAssumption DEF recordFailure
<1>2. QED
  BY <1>1, TypeCorrect, ClosedCounts, PTL
     DEF Spec, OpensOnlyAfterConsecutiveFailures

(* No late result closes an open breaker: it leaves the open state only by    *)
(* half-opening after the timeout, or by Reset.                               *)
THEOREM OpenClosesThroughTrials == Spec => OpenClosesOnlyThroughTrials
<1>1. [Next]_vars => [state = "open" /\ state' # "open" =>
                        \/ state' = "halfOpen" /\ elapsed
                        \/ Reset]_vars
  BY StepByEffect DEF CountersKept, HalfOpens, recordFailure, recordSuccess
<1>2. QED
  BY <1>1, PTL DEF Spec, OpenClosesOnlyThroughTrials
=============================================================================
