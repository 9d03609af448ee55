SPECIFICATION FairSpec
CONSTANTS
  Task = {t1, t2, t3}
  Routes <- OneOfEach
  MaxConcurrent = 2
INVARIANTS
  TypeOK
  CountersAgree
  ToldOnce
  ResultTellsWritten
PROPERTIES
  BatchEnds
