\* Two users who talk, a third who reads: the order of the chat in every place.
SPECIFICATION SystemSpec
CONSTANTS
  c1 = c1
  c2 = c2
  c3 = c3
  ann = ann
  bob = bob
  cid = cid
  Conn = {c1, c2, c3}
  Name = {ann, bob, cid}
  NoName = NoName
  Wanted <- TalkWanted
  After <- OneByOne
  Entered = {"MESSAGE"}
  Segs = 1
  MaxFrames <- TalkFrames
  Leavers = {}
  Faults = {}
INVARIANTS
  NamesAgree
  ChatOrder
  OneConversation
