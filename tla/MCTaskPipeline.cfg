SPECIFICATION Spec
CONSTANTS
  Workers = {w1, w2}
  NoWorker = NoWorker
  MaxLength = 2
  MaxRetries = 2
  Faults = {"connect", "poll", "commit", "result", "dead_letter", "rebalance", "crash", "signal"}
SYMMETRY Symmetry
INVARIANTS
  TypeOK
  UndecodableKept
  InHandIsNext
PROPERTIES
  RepeatNeedsFault
  ImplementsPromise
CHECK_DEADLOCK FALSE
