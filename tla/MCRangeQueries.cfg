SPECIFICATION Spec
CONSTANTS
  NumberOfClps = 3
  AlpToClp <- MCAlpToClp
  Variables = {"s", "t", "v", "w", "u"}
  Home <- MCHome
  InitialValue <- MCInitialValue
  Values <- MCValues
  Queries = {"tall", "far"}
  From <- MCFrom
  Id <- MCId
  Rectangle <- MCRectangle
  MaxChanges = 2
INVARIANTS
  TypeOK
  RepliesAreExpected
  StaleAnswersAreRolledBack
  CancelledQueriesAreForgotten
PROPERTIES
  EveryQueryIsAnswered
CHECK_DEADLOCK FALSE
