SPECIFICATION FairSpec
CONSTANTS
  Dial = 13
  FirstDial = 10
  PowerAttempts = 3
INVARIANTS
  TypeOK
  ParserNeverSeesPppMode
  DialFindsPppIdle
  WaitHasCallback
  ResetNotForgotten
  PublisherKeepsLine
PROPERTIES
  LineIsHandedOver
  BringUpEnds
  DialledLineConnects
  FirstFailureIsHandled
