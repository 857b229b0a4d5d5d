CONSTANTS
  None = None
  kukai = kukai
  temple = temple
  umami = umami
  bitget = bitget
  Entries <- MCEntries
  NAttempts = 2
  Devices = {"desktop", "phone"}
  LongList = TRUE
  MaxAlerts = 2
SPECIFICATION AlertSpec
INVARIANT OpenAlertIsMounted
CHECK_DEADLOCK FALSE
