CONSTANTS
  Codes = {c1}
  Devices = {d1, d2}
  Serials = {s1, s2, s3}
  Requests = {r1, r2}
  TTLs = {1}
  MaxClock = 1
  NoCode = NoCode
  NoDevice = NoDevice
  NoSerial = NoSerial
SYMMETRY Symmetry
SPECIFICATION MCSpec
CHECK_DEADLOCK FALSE
INVARIANTS
  SingleUse
  CredentialIsPaired
  NeverStranded
  RevokedLockedOut
  OrphansExplained
  AuditTruthful
PROPERTIES
  ImplementsRegistry
