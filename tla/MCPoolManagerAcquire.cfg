SPECIFICATION Spec
CONSTANTS
  Caller = {k1}
  Connection = {a}
  Known = {a}
  PodLimit = 1
  PoolLimit = 1
  Prewarm = 1
  Lookup = {"missing"}
INVARIANTS
  OnlyDocumentedErrors
