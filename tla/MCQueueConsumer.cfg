SPECIFICATION Spec
CONSTANTS
  m1 = m1
  m2 = m2
  m3 = m3
  k = k
  Messages = {m1, m2, m3}
  Keys = {k}
  NoKey = NoKey
  KeyOf <- KeyOfTwins
  Invalid = {m3}
  DeadLetter = TRUE
  Polls = {p1, p2, p3}
  PollSize = 2
  MaxConcurrent = 1
  MaxQueueDepth = 1
  MaxRedeliveries = 1
SYMMETRY AnyPoll
CHECK_DEADLOCK FALSE
INVARIANTS
  TypeOK
  PermitsSound
  AckedSinglyWasProcessed
  AbandonedOnlyByFault
  DrainCoversInFlight
PROPERTIES
  UsesWindow
