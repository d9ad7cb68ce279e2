SPECIFICATION FairSpec
CONSTANTS
  Size = 5
  QueueLength = 2
  MaxBytes = 6
INVARIANTS
  TypeOK
  BytesInOrder
PROPERTIES
  CloudInOrder
  BufferIsTaken
CHECK_DEADLOCK FALSE
