CONSTANTS
  s1 = s1
  s2 = s2
  Streams = {s1, s2}
  Devices = {d1}
  NoStream = NoStream
  BufferCap = 1
  MaxEvents = 0
  MaxRuns = 2
  Scenarios <- LivenessScenarios
SPECIFICATION FairSpec
CHECK_DEADLOCK FALSE
PROPERTIES
  HubStops
  StreamsEnd
  ShutdownDrains
