CONSTANTS
  Agents = {a1}
  Clis = {c1}
  Devices = {d1}
  Day = 1000
  Limit = 1048576
  Names = {"x"}
  IPv6 = {"v6"}
  Refs = {"web"}
  Junk = "host:8443"
  Envs <- MCEnvs
  MaxIds = 5
  Scenarios <- LostDb
SPECIFICATION Spec
CHECK_DEADLOCK FALSE
INVARIANT LostDatabaseIsRefused
