SPECIFICATION SuiteSpec
CONSTANTS
  Rates = {0}
  Scales = {2}
  MayFail = FALSE
  QueueSize = 2
  PoolSize = 4
  Offered = {"BDU", "get_temp"}
  DeviceRates = {0, 6}
  DeviceScales = {1, 2}
  Loggers = {"i2c4", "default", "tcpip"}
  MaxBytes = 11
  MaxLux = 3
  Samples = 6
  Word = 8
  Long = 20
  Frac = 10
  Cal1 = 12
  Cal2 = 19
  Vref = 16
  Num = 40
  Off = 28
  Temps = {10, 11, 12, 13, 14, 15, 16, 17, 18, 19, 20}
  Vdds = {16}
INVARIANTS DriverSafe LightSafe AdcSafe TempSafe
PROPERTIES LossesKnown TasksHandled
CHECK_DEADLOCK FALSE
