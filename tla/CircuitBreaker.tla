--------------------------- MODULE CircuitBreaker ---------------------------
(***************************************************************************)
(* CircuitBreaker (src/src/circuit-breaker/circuit-breaker.ts): the        *)
(* operations of one breaker, for the component that calls them            *)
(* (ClientProxy).  Each runs to completion.  `failures` is counted up to   *)
(* the threshold only: nothing compares it with more.                      *)
(***************************************************************************)
EXTENDS Integers

CONSTANTS FailureThreshold, \* failureThreshold
          HalfOpenRequests  \* halfOpenRequests

VARIABLES state, failures, halfOpenAllowed, resetTimer

breaker == <<state, failures, halfOpenAllowed, resetTimer>>

TypeOK ==
  /\ state \in {"closed", "open", "half-open"}
  /\ failures \in 0 .. FailureThreshold
  /\ halfOpenAllowed \in 0 .. HalfOpenRequests
  /\ resetTimer \in BOOLEAN

-----------------------------------------------------------------------------
(* Faults: operations as a slip would have written them. *)

\* A success resets the count of a circuit that was half-open only.
SuccessOfProbeOnly ==
  IF state = "half-open"
  THEN state' = "closed" /\ failures' = 0 /\ resetTimer' = FALSE /\ UNCHANGED halfOpenAllowed
  ELSE UNCHANGED breaker

\* The failure of a probe only counts, like any other.
ProbeFailureCounted(count) == failures' = count /\ UNCHANGED <<state, resetTimer>>

-----------------------------------------------------------------------------
(* Operations *)

\* The breaker of a proxy before it is made, and when it is made.
Init ==
  state = "closed" /\ failures = 0 /\ halfOpenAllowed = 0 /\ resetTimer = FALSE

\* guard() lets through: a circuit that is closed, or half-open with a probe left.
TakesProbe ==
  /\ state = "half-open" /\ halfOpenAllowed > 0
  /\ halfOpenAllowed' = halfOpenAllowed - 1
  /\ UNCHANGED <<state, failures, resetTimer>>

GuardPasses == (state = "closed" /\ UNCHANGED breaker) \/ TakesProbe

\* guard() throws CircuitBreakerOpenError.
GuardRefuses ==
  /\ state = "open" \/ (state = "half-open" /\ halfOpenAllowed = 0)
  /\ UNCHANGED breaker

\* transitionTo("open") arms the timer.
Opens == state' = "open" /\ resetTimer' = TRUE

RecordSuccess ==
  /\ failures' = 0
  /\ IF state = "half-open" THEN state' = "closed" /\ resetTimer' = FALSE
                            ELSE UNCHANGED <<state, resetTimer>>
  /\ UNCHANGED halfOpenAllowed

\* The failure of a probe, or of a request sent long before: half-open means open.
FailsHalfOpen(count) == failures' = count /\ Opens

RecordFailure ==
  LET count == IF failures < FailureThreshold THEN failures + 1 ELSE failures
  IN  /\ CASE state = "half-open" -> FailsHalfOpen(count)
          [] state = "closed" /\ count = FailureThreshold -> failures' = count /\ Opens
          [] OTHER -> failures' = count /\ UNCHANGED <<state, resetTimer>>
      /\ UNCHANGED halfOpenAllowed

\* recordSuccess() whose onStateChange throws, and recordFailure() in the `catch`.
RecordSuccessThenFailure ==
  /\ state = "half-open"
  /\ failures' = 1
  /\ IF FailureThreshold = 1 THEN Opens ELSE state' = "closed" /\ resetTimer' = FALSE
  /\ UNCHANGED halfOpenAllowed

\* The callback of the timer.
ResetTimeout ==
  /\ resetTimer
  /\ resetTimer' = FALSE
  /\ halfOpenAllowed' = HalfOpenRequests
  /\ state' = "half-open"
  /\ UNCHANGED failures

Destroy == resetTimer' = FALSE /\ UNCHANGED <<state, failures, halfOpenAllowed>>

=============================================================================
