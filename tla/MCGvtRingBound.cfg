SPECIFICATION Spec
CONSTANTS
  N = 3
  Infinity = 99
  MaxRequests = 2
  MaxRounds = 1
INVARIANTS
  NoMessageBelowGvt
CHECK_DEADLOCK FALSE
