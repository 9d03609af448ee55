SPECIFICATION Spec
CONSTANTS
  Callers = {c1, c2}
  Sessions = {s1, s2, s3}
  NoSession = NoSession
  MaxSessions = 2
  Prewarm = 2
INVARIANTS
  NoAbandonedReuse
