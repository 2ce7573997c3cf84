CONSTANTS
  LogMaxAge = 2
  Interval = 2
  MaxBackups = 2
  MaxUptime = 9
  MaxMisses = 2
SPECIFICATION LogSpec
CHECK_DEADLOCK FALSE
INVARIANTS
  CurrentIsYoung
