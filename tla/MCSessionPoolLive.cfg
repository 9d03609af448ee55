SPECIFICATION FairSpec
CONSTANTS
  Callers = {c1, c2, c3}
  Sessions = {s1, s2}
  NoSession = NoSession
  MaxSessions = 1
  Prewarm = 1
PROPERTIES
  EveryCallerLeaves
