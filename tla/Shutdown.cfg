CONSTANTS
  Conns = {c1, c2, c3}
  Others = {rotator, pruner}
SPECIFICATION FairSpec
CHECK_DEADLOCK FALSE
INVARIANTS
  NoNewConnLeft
  StoreOutlivesHandlers
PROPERTY Exits
