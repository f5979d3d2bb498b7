SPECIFICATION Spec
CONSTANTS
  Rpcs = {r1, r2, r3}
  Events = {e1}
  FailureThreshold = 2
  HalfOpenRequests = 1
INVARIANTS
  AnsweredOnce
  NoClientLeak
  CircuitSound
PROPERTIES
  OpensOnConsecutiveFailures
  EveryRequestAnswered
CHECK_DEADLOCK FALSE
