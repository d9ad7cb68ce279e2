SPECIFICATION Spec
CONSTANTS
  Frames = 1
  MaxChunks = 2
  QueueLength = 1
  RxBytes = 1
  RxQueueLength = 1
  TbufLength = 1
INVARIANT SentAsWritten
CHECK_DEADLOCK FALSE
