SPECIFICATION FairSpec
CONSTANTS
  MaxQueue = 3
INVARIANTS
  TypeOK
  ThreadsExclude
  DequeuesFindAMessage
  EveryMessageHasAUnit
PROPERTIES
  StopEndsAllThreads
CHECK_DEADLOCK FALSE
