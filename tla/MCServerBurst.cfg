\* A burst of commands: the last ones are not taken out of the buffer.
SPECIFICATION FairSpec
CONSTANTS
  c1 = c1
  c2 = c2
  ann = ann
  bob = bob
  Conn = {c1, c2}
  Name = {ann}
  NoName = NoName
  Segs = 1
  MaxFrames <- PairFrames
  Leavers = {}
  Faults = {}
PROPERTY
  CommandsReachGame
