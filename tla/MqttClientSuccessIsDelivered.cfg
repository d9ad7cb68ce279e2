SPECIFICATION Spec
CONSTANTS
  Records = 2
  Leds = 1
  Breaks = 1
  MaxTimeouts = 1
  MaxAttempts = 2
  MinWait = 1
  MaxWait = 2
PROPERTY SuccessIsDelivered
CHECK_DEADLOCK FALSE
