CONSTANTS
  Buckets = {d1, d2, d3}
  MaxRows = 2
  MaxAge = 1
  MaxClock = 2
  MaxAppends = 4
SPECIFICATION FairSpec
CHECK_DEADLOCK FALSE
INVARIANTS
  RecentRowsKept
  DiskBudget
PROPERTIES
  ExpiredRowsGo
