SPECIFICATION FairSpec
CONSTANTS
  Key = {k1}
  Run = {n1, n2, n3}
  MaxRetries = 2
  MaxCount = 4
  MaxCrashes = 1
INVARIANTS
  NoCallOnceAcknowledged
  OneWorkerPerTask
PROPERTIES
  KeepsObligation
  TasksSettle
CHECK_DEADLOCK FALSE
