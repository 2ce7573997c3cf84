CONSTANTS
  Agents = {a1, a2}
  Clis = {c1}
  Devices = {d1}
  Day = 1000
  Limit = 1048576
  Names = {"x", "y"}
  IPv6 = {"v6"}
  Refs = {"web"}
  Junk = "host:8443"
  Envs <- MCEnvs
  MaxIds = 8
  Scenarios <- MCScenarios
SPECIFICATION FairSpec
CHECK_DEADLOCK FALSE
INVARIANTS
  StableIdentity
  RowsSurvive
  ServesWholeIdentity
  ConfigExact
  BudgetsHold
PROPERTIES
  ComesUp
