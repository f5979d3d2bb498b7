SPECIFICATION Spec
CONSTANTS
  m1 = m1
  m2 = m2
  m3 = m3
  k = k
  Messages = {m1, m2, m3}
  Keys = {k}
  NoKey = NoKey
  KeyOf <- KeyOfTwins
  Invalid = {m3}
  DeadLetter = FALSE
  Polls = {p1, p2}
  PollSize = 2
  MaxConcurrent = 1
  MaxQueueDepth = 1
  MaxRedeliveries = 0

CHECK_DEADLOCK FALSE
PROPERTIES
  PollEnds
