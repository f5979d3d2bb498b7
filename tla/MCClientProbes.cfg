SPECIFICATION Spec
CONSTANTS
  Rpcs = {r1, r2, r3}
  Events = {e1}
  FailureThreshold = 2
  HalfOpenRequests = 1
INVARIANT ProbesAllowed
CHECK_DEADLOCK FALSE
