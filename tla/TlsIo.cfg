SPECIFICATION Spec
CONSTANTS
  Half = 32
  Start = 58
  MaxTime = 12
  Poll = 1
  Timeout = 3
  PacketTimeout = 2
  RecvTimeout = 3
  TcpTimeout = 2
  BufSize = 3
  First <- MCFirst
INVARIANTS TypeOK TimeoutsAreKept InStep
CHECK_DEADLOCK FALSE
