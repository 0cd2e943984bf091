SPECIFICATION Spec
CONSTANTS
  Rates = {0}
  Scales = {2}
  MayFail = TRUE
  QueueSize = 2
  PoolSize = 6
  Offered = {"get_temp"}
INVARIANTS Isolation
