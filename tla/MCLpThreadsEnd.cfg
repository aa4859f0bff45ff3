SPECIFICATION LockFairSpec
CONSTANTS
  MaxQueue = 2
PROPERTIES
  StarterReachesEnd
CHECK_DEADLOCK FALSE
