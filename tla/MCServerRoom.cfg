\* Two clients that may leave at any time, two names: refusals and retries, the
\* chat and the game's log, accept errors, a SIGINT.
SPECIFICATION Spec
CONSTANTS
  c1 = c1
  c2 = c2
  ann = ann
  bob = bob
  Conn = {c1, c2}
  Name = {ann, bob}
  NoName = NoName
  Segs = 1
  MaxFrames <- PairFrames
  Leavers = {c1, c2}
  Faults = {"bind", "accept", "signal"}
INVARIANTS
  RoomWellFormed
  UniqueNames
  JoinReplies
  GameLogFaithful
PROPERTIES
  NameOnce
  NoUseAfterReturn
  ImplementsChat
SYMMETRY NameSymmetry
