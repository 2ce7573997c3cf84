CONSTANTS
  Requests = {r1}
  Self = agent
  Other = web
  Containers = {agent, db, web}
  Names = {devmon, traefik, app}
  BadRef = BadRef
  Stale = Stale
  NoId = NoId
  NoRef = NoRef
  Containerized = TRUE
  Overrides = {devmon, NoRef}
  Finds <- MCFinds
  Entries = {traefik, db}
  Modes = {0, 1, 2}
  MaxListItems = 2
  NoRow = NoRow
SPECIFICATION ReadSpec
CHECK_DEADLOCK FALSE
INVARIANTS
  AuditTruthful
PROPERTIES
  NeverSelf
  ProtectedHeld
  MarkIsKept
