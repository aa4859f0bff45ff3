SPECIFICATION Spec
CONSTANTS
  Agents <- TwoAlps
  Infinity = 9
  EndTime = 3
  WrapSteps = {}
  WriteDelays = {1}
  MaxMessages = 2
INVARIANTS
  UndoneWritesLeave
CHECK_DEADLOCK FALSE
