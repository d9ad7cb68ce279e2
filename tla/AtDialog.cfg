SPECIFICATION FairSpec
CONSTANTS
  Commands = 3
  QueueLength = 2
  BufferLength = 3
INVARIANTS
  TypeOK
  LagBounded
  TextErasedOnlyAfterTimeout
PROPERTIES
  AnswersInOrder
  ReceptionResumes
  CommandReturns
