SPECIFICATION Spec
CONSTANTS
  Callers = {c1, c2, c3, c4, c5}
  MaxConcurrent = 2
  MaxQueueDepth = 2
INVARIANTS
  SemaphoreInv
PROPERTIES
  FirstComeFirstServed
  WaiterServed
  ImplementsPool
