SPECIFICATION FairSpec
CONSTANTS
  Caller = {k1, k2, k3}
  Connection = {a, u}
  Known = {a}
  PodLimit = 2
  PoolLimit = 1
  Prewarm = 1
  Lookup = {"missing", "returns"}
PROPERTIES
  EveryCallerLeaves
