--------------------------- MODULE CircuitBreaker ---------------------------
(***************************************************************************)
(* One circuit breaker of the orchestrator                                 *)
(* (go/orchestrator/internal/pipeline/circuit_breaker.go) shared by the    *)
(* goroutines of every session that calls the provider it guards.          *)
(*                                                                         *)
(* Execute is not atomic: beforeCall and afterCall take the mutex, the     *)
(* provider call between them does not.  A call can therefore finish in a  *)
(* state of the breaker other than the one it was admitted in.             *)
(*                                                                         *)
(* Time is abstracted to the one question the code asks of it: whether     *)
(* more than config.Timeout has passed since lastFailureTime.              *)
(***************************************************************************)
EXTENDS Naturals

CONSTANTS
  Callers,           (* goroutines that may be inside Execute                *)
  FailureThreshold,  (* config.FailureThreshold                              *)
  HalfOpenMaxCalls,  (* config.HalfOpenMaxCalls                              *)
  CountCap           (* where the counters saturate: the code only compares
                        them, with >=, to the two limits above, so every
                        value at or above both limits behaves alike          *)

ASSUME BreakerAssumption ==
  /\ FailureThreshold \in Nat \ {0}
  /\ HalfOpenMaxCalls \in Nat \ {0}
  /\ CountCap \in Nat
  /\ CountCap >= FailureThreshold
  /\ CountCap > HalfOpenMaxCalls

VARIABLES
  state,         (* cb.state                                                 *)
  failureCount,  (* cb.failureCount                                          *)
  successCount,  (* cb.successCount                                          *)
  elapsed,       (* time.Since(cb.lastFailureTime) > cb.config.Timeout       *)
  inCall,        (* the callers whose provider call is running               *)
  (* observation, never read by the code *)
  streak         (* failures returned in a row, whatever the state           *)

breakerVars == <<state, failureCount, successCount>>
vars == <<state, failureCount, successCount, elapsed, inCall, streak>>

CircuitState == {"closed", "open", "halfOpen"}

Increment(n) == IF n < CountCap THEN n + 1 ELSE n

Init ==
  /\ state = "closed"
  /\ failureCount = 0
  /\ successCount = 0
  /\ elapsed = TRUE          \* lastFailureTime is the zero time
  /\ inCall = {}
  /\ streak = 0

-----------------------------------------------------------------------------
(* beforeCall admits the call, or returns ErrCircuitOpen and changes nothing. *)

HalfOpenLimitReached == successCount + failureCount >= HalfOpenMaxCalls

AdmitClosed(c) ==
  /\ state = "closed"
  /\ inCall' = inCall \cup {c}
  /\ UNCHANGED <<breakerVars, elapsed, streak>>

(* Mutations: the half-opening call forgets to reset the counters; it tests   *)
(* the half-open limit before the counters are reset.                         *)
AdmitAfterTimeoutNoReset(c) ==
  /\ state = "open"
  /\ elapsed
  /\ state' = "halfOpen"
  /\ inCall' = inCall \cup {c}
  /\ UNCHANGED <<failureCount, successCount, elapsed, streak>>

AdmitAfterTimeoutLimitFirst(c) ==
  /\ state = "open"
  /\ elapsed
  /\ ~HalfOpenLimitReached
  /\ state' = "halfOpen"
  /\ failureCount' = 0
  /\ successCount' = 0
  /\ inCall' = inCall \cup {c}
  /\ UNCHANGED <<elapsed, streak>>

\* The first call after the timeout is the one that half-opens the breaker.
AdmitAfterTimeout(c) ==
  /\ state = "open"
  /\ elapsed
  /\ state' = "halfOpen"
  /\ failureCount' = 0
  /\ successCount' = 0
  /\ inCall' = inCall \cup {c}
  /\ UNCHANGED <<elapsed, streak>>

AdmitHalfOpen(c) ==
  /\ state = "halfOpen"
  /\ ~HalfOpenLimitReached
  /\ inCall' = inCall \cup {c}
  /\ UNCHANGED <<breakerVars, elapsed, streak>>

BeforeCall(c) ==
  /\ c \notin inCall
  /\ AdmitClosed(c) \/ AdmitAfterTimeout(c) \/ AdmitHalfOpen(c)

-----------------------------------------------------------------------------
(* afterCall records the result in whatever state the breaker is in now. *)

recordFailure ==
  /\ elapsed' = FALSE
  /\ streak' = Increment(streak)
  /\ \/ /\ state = "closed"
        /\ failureCount' = Increment(failureCount)
        /\ state' = IF failureCount' >= FailureThreshold THEN "open" ELSE state
        /\ UNCHANGED successCount
     \/ /\ state = "halfOpen"
        /\ state' = "open"
        /\ failureCount' = 0
        /\ successCount' = 0
     \/ /\ state = "open"
        /\ failureCount' = Increment(failureCount)
        /\ UNCHANGED <<state, successCount>>

(* Mutations: a success in the closed state keeps the failures counted so    *)
(* far; enough late successes close an open breaker.                         *)
recordSuccessKeepsFailures ==
  /\ streak' = 0
  /\ UNCHANGED <<elapsed, failureCount>>
  /\ successCount' = Increment(successCount)
  /\ state' = IF state = "halfOpen" /\ successCount' >= HalfOpenMaxCalls
              THEN "closed" ELSE state

recordSuccessClosesOpen ==
  /\ streak' = 0
  /\ UNCHANGED elapsed
  /\ IF state # "closed" /\ Increment(successCount) >= HalfOpenMaxCalls
     THEN state' = "closed" /\ failureCount' = 0 /\ successCount' = 0
     ELSE /\ successCount' = Increment(successCount)
          /\ failureCount' = IF state = "closed" THEN 0 ELSE failureCount
          /\ UNCHANGED state

recordSuccess ==
  /\ streak' = 0
  /\ UNCHANGED elapsed
  /\ \/ /\ state = "halfOpen"
        /\ IF Increment(successCount) >= HalfOpenMaxCalls
           THEN /\ state' = "closed"
                /\ failureCount' = 0
                /\ successCount' = 0
           ELSE /\ successCount' = Increment(successCount)
                /\ UNCHANGED <<state, failureCount>>
     \/ /\ state = "closed"
        /\ successCount' = Increment(successCount)
        /\ failureCount' = 0
        /\ UNCHANGED state
     \/ /\ state = "open"
        /\ successCount' = Increment(successCount)
        /\ UNCHANGED <<state, failureCount>>

AfterCall(c) ==
  /\ c \in inCall
  /\ inCall' = inCall \ {c}
  /\ recordFailure \/ recordSuccess

-----------------------------------------------------------------------------

\* The registry's Reset, an operator's tool: any state, calls still running.
Reset ==
  /\ state' = "closed"
  /\ failureCount' = 0
  /\ successCount' = 0
  /\ UNCHANGED <<elapsed, inCall, streak>>

TimeoutElapses ==
  /\ ~elapsed
  /\ elapsed' = TRUE
  /\ UNCHANGED <<breakerVars, inCall, streak>>

Next ==
  \/ \E c \in Callers : BeforeCall(c) \/ AfterCall(c)
  \/ Reset
  \/ TimeoutElapses

Spec == Init /\ [][Next]_vars

(* Time passes, opening a provider's stream returns (Execute covers no more  *)
(* of a call than that), and sessions keep trying the provider.  Reset is    *)
(* nobody's duty.                                                            *)
Fairness ==
  /\ WF_vars(TimeoutElapses)
  /\ \A c \in Callers : WF_vars(BeforeCall(c)) /\ WF_vars(AfterCall(c))

FairSpec == Spec /\ Fairness

-----------------------------------------------------------------------------
(* Properties *)

\* Every variable has its type; the counters never pass the cap.
TypeOK ==
  /\ state \in CircuitState
  /\ failureCount \in 0..CountCap
  /\ successCount \in 0..CountCap
  /\ elapsed \in BOOLEAN
  /\ inCall \subseteq Callers
  /\ streak \in 0..CountCap

(* The limit test of beforeCall is never true in half-open: a half-open      *)
(* breaker that filled its quota would refuse every call, and nothing but    *)
(* Reset or a straggler could ever move it again.  Late results of calls     *)
(* admitted before the breaker opened are counted too, and must not fill it. *)
HalfOpenNeverStarves == state = "halfOpen" => ~HalfOpenLimitReached

(* A closed breaker has fewer counted failures than the threshold, and each  *)
(* of them belongs to the unbroken run of failures that ends now.            *)
ClosedCountsConsecutiveFailures ==
  state = "closed" => /\ failureCount < FailureThreshold
                      /\ failureCount <= streak

(* The comment on FailureThreshold: it is the number of CONSECUTIVE failures *)
(* before opening, across interleaved callers and earlier open periods.      *)
OpensOnlyAfterConsecutiveFailures ==
  [][state = "closed" /\ state' = "open" => streak' >= FailureThreshold]_vars

(* An open breaker cannot close directly, whatever results of old calls      *)
(* arrive while it is open: it half-opens after the timeout, or is reset.    *)
OpenClosesOnlyThroughTrials ==
  [][state = "open" /\ state' # "open" =>
       \/ state' = "halfOpen" /\ elapsed
       \/ Reset]_vars

(* A provider that is still being called gets tried again: no failure, and   *)
(* no late failure that pushes the timeout back, keeps the breaker open for  *)
(* ever; and a trial period ends, in success or in failure.                  *)
PeriodsEnd ==
  /\ state = "open" ~> state # "open"
  /\ state = "halfOpen" ~> state # "halfOpen"
=============================================================================
