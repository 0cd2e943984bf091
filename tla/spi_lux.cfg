SPECIFICATION FairSpec
CONSTANTS
  Loggers = {"i2c4", "default", "tcpip"}
  Recording = TRUE
  MaxBytes = 11
  MaxLux = 40
PROPERTIES LuxAnswered
CHECK_DEADLOCK FALSE
