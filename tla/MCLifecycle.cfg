SPECIFICATION FairSpec
CONSTANTS
  MaxRetries = 3
INVARIANTS
  TypeOK
  CleanExit
  ProvidersUp
  ReadyMeansStarted
PROPERTIES
  PhasesEnd
