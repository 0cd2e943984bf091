SPECIFICATION SuiteSpec
CONSTANTS
  Interval = 5
  ConnectTimeout = 20
  KeepAlives = {0, 10}
  RingSize = 6
  RingLengths = {2, 3, 5}
  SndBuf = 4
  Numbers = 11
  ListRing = 2
  ListLengths = {1}
  ListSndBuf = 1
  ListNumbers = 3
  MaxRequests = 2
  Timeout = 10
  PacketIds = {1, 2, 3}
  BufLen = 8
  Base = 6
  Topics = {1, 6}
  Payloads = {0, 7}
  MaxBuffers = 2
  MaxLength = 4
  MaxMessages = 2
INVARIANTS LinkSafe HealthyKept RingSafe RequestsSafe 
PROPERTIES DeadNoticed RequestsEnd Parsed
CHECK_DEADLOCK FALSE
