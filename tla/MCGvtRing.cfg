SPECIFICATION Spec
CONSTANTS
  N = 3
  Infinity = 99
  MaxRequests = 1
  MaxRounds = 2
INVARIANTS
  TypeOK
  OneRoundAtATime
  WhiteAccounting
PROPERTIES
  ValuesInOrder
CHECK_DEADLOCK FALSE
