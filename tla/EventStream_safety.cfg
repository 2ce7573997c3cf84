CONSTANTS
  s1 = s1
  s2 = s2
  Streams = {s1, s2}
  Devices = {d1, d2}
  NoStream = NoStream
  BufferCap = 1
  MaxEvents = 3
  MaxRuns = 2
  Scenarios <- SafetyScenarios
SYMMETRY Symmetry
SPECIFICATION Spec
CHECK_DEADLOCK FALSE
INVARIANTS
  NoSilentStream
  OneSubscription
  NewestWins
PROPERTIES
  ImplementsFeed
