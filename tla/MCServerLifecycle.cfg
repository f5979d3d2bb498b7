SPECIFICATION Spec
CONSTANTS
  NumHandlers = 2
  Suspects = {2}
  Listeners = {l1}
  Clients = {c1, c2}
  NoClient = NoClient
  Policies <- SomePolicies
CHECK_DEADLOCK FALSE
INVARIANTS
  NoClientLeak
  BoundOnce
  ClosedIsFinal
  LoopAlive
  AttemptsBounded
  ListenersKept
PROPERTIES
  RetriesUntilBound
