SPECIFICATION Spec
CONSTANTS
  None = None
  MaxHandlings = 2
  MaxCalls = 2
  Setups <- AllSetups
CHECK_DEADLOCK FALSE
INVARIANTS
  BusesTogether
  NoClientOutlivesApp
  HandlersCanSend
