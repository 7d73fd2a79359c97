\* One unit of time is 250 ms, the shortest waits rounded up to it.
CONSTANTS
  PERIOD = 4
  WATCHDOG = 32
  RX_TIMEOUT = 12
  SETTLE = 4
  I2C_TIMEOUT = 1
  SEND = 1
  FLASH = 1
  COPIES = 33
  MaxChunks = 2
  MaxLate = 6
  RingLines = 2
SPECIFICATION FairSpec
INVARIANTS TypeOK WatchdogStaysFed OnlyExcusedReverts TicksOnTime
PROPERTIES Recovers StatusContinues CatchesUp
