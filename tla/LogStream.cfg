CONSTANTS
  s1 = s1
  s2 = s2
  Streams = {s1, s2}
  Devices = {d1, d2}
  Caps <- MCCaps
  Scenarios <- MCScenarios
SPECIFICATION MCSpec
CHECK_DEADLOCK FALSE
INVARIANTS
  SlotsAccounted
  OneTerminalFrame
  NoWriterLeftBehind
PROPERTIES
  StreamsEnd
