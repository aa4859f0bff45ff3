SPECIFICATION Spec
CONSTANTS
  NumberOfClps = 3
  AlpToClp <- MCAlpToClp
  Agents = {1, 2}
  AlpOf <- MCAlpOf
  Variables = {"x"}
  InitialClp <- MCInitialClp
  PortThreshold = 3
  MaxRequests <- MCMaxRequests
  MaxAntis = 1
INVARIANTS
  TypeOK
  OnePlace
  DirectionsLeadHome
  DetoursAreBounded
  OvertakenOnlyByAMove
  NothingIsLost
PROPERTY
  ImplementsRemoteAccess
CHECK_DEADLOCK FALSE
