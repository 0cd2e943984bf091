SPECIFICATION SuiteSpec
CONSTANTS
  Threads = {t1, t2, t3}
  N = 2
  Subscribers = {"i2c4", "spi1", "eth"}
  MaxTopics = 8
  Loggers = {"default", "i2c4"}
  LogSize = 4
  LogRecords <- TwoRecords
  Chunk = 3
INVARIANTS PoolSafe StartSafe DumpDecodes
PROPERTIES AllServe ImplementsLog
CHECK_DEADLOCK FALSE
