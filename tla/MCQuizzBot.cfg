\* Two users who want the same name, of whom one may leave, frames in pieces, and
\* a SIGINT: safety, and liveness under the fairness of all threads.
SPECIFICATION FairSystemSpec
CONSTANTS
  c1 = c1
  c2 = c2
  ann = ann
  Conn = {c1, c2}
  Name = {ann}
  NoName = NoName
  Wanted <- RivalsWanted
  After <- AtAnyTime
  Entered = {"MESSAGE", "ANSWER"}
  Segs = 2
  MaxFrames <- RivalFrames
  Leavers = {c1}
  Faults = {"signal"}
INVARIANTS
  TypeOK
  ClientTypeOK
  NamesAgree
PROPERTIES
  ServesClient
  ShutdownCompletes
  ConnectionsAccepted
  EventsProcessed
  JoinAnswered
