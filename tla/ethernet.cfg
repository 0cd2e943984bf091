SPECIFICATION SuiteSpec
CONSTANTS
  Descs = 2
  Bufs = 5
  Freers = {"tcpip", "task"}
  Flaps = TRUE
  TxDescs = 2
  TxOthers = {"a", "b"}
INVARIANTS BuffersSafe SteadySupplied TxSafe
PROPERTIES SteadyResumes OutputReturns Retransmitted
