SPECIFICATION FairSpec
CONSTANTS
  Records = 1
  Leds = 1
  Breaks = 2
  MaxTimeouts = 1
  MaxAttempts = 2
  MinWait = 1
  MaxWait = 2
INVARIANTS
  TypeOK StateMatchesCall OpenWhileConnected StaysSubscribed
PROPERTIES
  RecordIsDelivered PubacksInOrder ReconnectionEnds BrokenLinkIsLeft
CHECK_DEADLOCK FALSE
