SPECIFICATION SuiteSpec
CONSTANTS
  Buffers = {b1, b2}
  Size = 2
  Batch = 2
  Numbers = 7
  Resets = TRUE
  AssertsOn = FALSE
  Wild = Wild
  TestPool = 3
  TestSlots = 2
  TestBatch = 2
INVARIANTS TestsSafe
PROPERTIES ImplementsLoopback MultiEnds SingleEnds
CHECK_DEADLOCK FALSE
