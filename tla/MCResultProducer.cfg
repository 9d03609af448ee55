SPECIFICATION FairSpec
CONSTANTS
  Sends = {s1, s2}
  MaxRetries = 1
INVARIANTS
  TypeOK
  StatsAgree
  PendingTracksTasks
  StopWaitsForTasks
PROPERTIES
  WaitersReturn
