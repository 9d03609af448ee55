SPECIFICATION Spec
CONSTANTS
  Caller = {k1, k2}
  Connection = {a, b}
  Known = {a, b}
  PodLimit = 2
  PoolLimit = 2
  Prewarm = 1
  Lookup = {"returns"}
SYMMETRY CallerSymmetry
INVARIANTS
  TypeOK
  PermitsAccounted
  PoolsReachable
  LeakNeedsOverlap
  NobodyStuck
PROPERTIES
  CheckIsComplete
  ImplementsCountedPools
