SPECIFICATION Spec
CONSTANTS
  Agents <- TwoAlps
  Infinity = 9
  EndTime = 3
  WrapSteps = {2}
  WriteDelays = {0}
  MaxMessages = 2
INVARIANTS
  TypeOK
  PeriodsPartitionTime
  ReadsStayInTheirPeriod
  StaleReadsAreRolledBack
  NothingCommittedIsUndone
  NoReadBelowGvt
  AgentsAreAnswered
  WritesInSync
  MigrationKeepsWrites
  MigrationTellsReaders
CHECK_DEADLOCK FALSE
