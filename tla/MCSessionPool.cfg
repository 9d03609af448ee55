SPECIFICATION Spec
CONSTANTS
  Callers = {c1, c2, c3}
  Sessions = {s1, s2, s3, s4}
  NoSession = NoSession
  MaxSessions = 2
  Prewarm = 3
SYMMETRY Symmetry
INVARIANTS
  TypeOK
  Exclusive
  ExhaustedOnlyByErrors
  ClientsMatchStates
PROPERTIES
  ImplementsLimitedPool
  ImplementsCountedPool
