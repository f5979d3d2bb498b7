SPECIFICATION Spec
CONSTANTS
  m1 = m1
  m2 = m2
  Messages = {m1, m2}
  Unset = Unset
  DefaultRetries = 1
  Policies <- RetryPolicies
CHECK_DEADLOCK FALSE
INVARIANTS
  AnswersTellTheOutcome
  DeadLettersMatchLosses
  DrainedMeansAnswered
  MockAgrees
PROPERTIES
  HealthTruthful
  EveryMessageSettles
  ImplementsRetryPolicy
