SPECIFICATION Spec
CONSTANTS
  Agents <- TwoAlps
  Infinity = 9
  EndTime = 3
  WrapSteps = {1}
  WriteDelays = {1}
  MaxMessages = 2
INVARIANTS
  ReadsAreServable
CHECK_DEADLOCK FALSE
