SPECIFICATION FairSpec
CONSTANTS
  Sockets = 4
  MaxLosses = 4
INVARIANTS TypeOK NothingLeftBehind ConnectionsAreHeld
PROPERTY NetworkReturns
CHECK_DEADLOCK FALSE
