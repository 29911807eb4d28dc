SPECIFICATION FairEngineSpec
CONSTANTS
  AutoDetect = TRUE
  Positives = 2
  Negatives = 3
  Tasks = {t1, t2}
  InitTask = InitTask
CHECK_DEADLOCK FALSE
INVARIANTS
  RequestIsServed
PROPERTY LeavesInitializing
