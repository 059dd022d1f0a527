\* Every way to cut the bytes of a script into reads, and little room to write.
SPECIFICATION Spec
CONSTANTS
  Scenarios <- ShortScenarios
  Fill = {0}
  BufSize = 24
INVARIANTS
  TypeOK
  CorruptionNoticed
  StreamIntact
PROPERTY
  OneMessagePerRead
