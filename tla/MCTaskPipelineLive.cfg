SPECIFICATION RecoveringSpec
CONSTANTS
  Workers = {w1, w2}
  NoWorker = NoWorker
  MaxLength = 2
  MaxRetries = 1
  Faults = {"connect", "commit", "result", "dead_letter"}
PROPERTIES
  EveryMessageCommitted
CHECK_DEADLOCK FALSE
