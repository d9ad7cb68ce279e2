SPECIFICATION Spec
CONSTANTS
  Dial = 13
  FirstDial = 10
  PowerAttempts = 3
INVARIANT ServedModuleIsInitialised
