SPECIFICATION FairSpec
CONSTANTS
  Calls = {k1, k2, k3, k4}
  FailureThreshold = 3
  SuccessThreshold = 3
  HalfOpenMaxCalls = 3
INVARIANTS
  TypeOK
  StatesHoldGood
PROPERTIES
  HalfOpenEnds
  ClosesAfterRecovery
