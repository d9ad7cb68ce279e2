SPECIFICATION FairSpec
CONSTANTS
  Frames = 1
  MaxChunks = 2
  QueueLength = 1
  RxBytes = 2
  RxQueueLength = 1
  TbufLength = 1
INVARIANTS TypeOK BytesInOrder
PROPERTIES SentInOrder FramesCutOnlyUnlocked LinkDrains
CHECK_DEADLOCK FALSE
