SPECIFICATION Spec
CONSTANTS
  Agents <- TwoAgents
  EndTime <- MCEndTime
  MaxRollbacks = 1
INVARIANTS
  TypeOK
  OnlyTheOneInHandSlips
  WhatTakesEffectIsListed
  ResponseIsOwn
PROPERTIES
  EveryWaitEnds
  RollbacksEnd
CHECK_DEADLOCK FALSE
