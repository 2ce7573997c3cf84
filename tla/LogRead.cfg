CONSTANTS
  Streams = {stdout, stderr}
  Stdout = stdout
  NL = NL
  CR = CR
  Byte = Byte
  MaxLine = 2
  MaxItems = 2
  MaxFrame = 3
  MaxBytes = 5
SPECIFICATION ReadSpec
CHECK_DEADLOCK FALSE
INVARIANTS
  FramingInvisible
  AnswerIsExact
  MemoryBounded
