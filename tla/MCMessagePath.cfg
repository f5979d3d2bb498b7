SPECIFICATION Spec
CONSTANTS
  None = None
  MaxMessages = 3
  Apps <- AllApps
CHECK_DEADLOCK FALSE
INVARIANTS
  CausalChain
  TraceUnbroken
  DeliveredAsMeant
  
PROPERTIES
  HeardAsMeant
