\* A content of more than 255 bytes.
SPECIFICATION Spec
CONSTANTS
  Scenarios <- LongScenarios
  Fill = {0}
  BufSize = 24
INVARIANT
  LengthAnnounced
