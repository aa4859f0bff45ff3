SPECIFICATION Spec
CONSTANTS
  MaxQueue = 2
INVARIANTS
  SendFindsAMessage
CHECK_DEADLOCK FALSE
