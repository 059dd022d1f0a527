---------------------------- MODULE FrameStream ----------------------------
(***************************************************************************)
(* One direction of a connection at the level of bytes.  At one end a      *)
(* writer packs messages and starts an async_write for each (send_command  *)
(* in server/tcp_connection.h, send in client/tcp_client.cc); at the other *)
(* a reader reads some bytes, appends them to its buffer, parses once,     *)
(* hands on the message if there is one, and reads again (the same code in *)
(* both files).  Between them are the socket's buffers, of limited room.   *)
(*                                                                         *)
(* async_write tries to write at once.  If nothing fits, the operation     *)
(* waits in the reactor; if a part fits, a handler is posted that will     *)
(* write on, and another async_write may get in between.  Whatever is not  *)
(* written at once is read later from a Packet that was freed when the     *)
(* call returned.                                                          *)
(***************************************************************************)
EXTENDS Framing

CONSTANTS
  Scenarios, \* codec, script of messages, noise on the wire in front, room
  BufSize,   \* size of input_buf_
  Fill       \* the bytes that a freed buffer may be overwritten with

ASSUME StreamAssumption ==
  /\ BufSize \in Nat \ {0}
  /\ Fill \subseteq Byte
  /\ \A s \in Scenarios : s.codec \in Codecs /\ s.room \in Nat \ {0}

VARIABLES
  link,      \* the scenario
  issued,    \* how many messages of the script were given to async_write
  waiting,   \* what the writes have left that wait in the reactor
  resumed,   \* what the short writes have left whose handler is posted
  intact,    \* history: how many messages were written before one was not at once
  wire,      \* the bytes that have not been read yet
  acc,       \* acc_packet_ (server), aggr_packet_ (client)
  received,  \* history: the messages handed on
  up         \* no exception has left the read handler

writeVars == <<issued, waiting, resumed, intact>>
readVars == <<acc, received, up>>
vars == <<link, writeVars, wire, readVars>>

\* The messages that the program is made for: of a kind of the codec, with its
\* strings, and a content whose length has two digits (protocol.h:40).
Sendable(codec, m) ==
  /\ m = [type |-> m.type, fields |-> m.fields] /\ m.fields \in Seq(Seq(Byte))
  /\ IF codec = "command" THEN m.type \in Letters /\ Len(m.fields) = 1
     ELSE m.type \in 0 .. 5 /\ Len(m.fields) = FieldCount[m.type]
  /\ Len(Content(codec, m)) <= 255

\* The bytes that no number begins with.
Harmless == {x \in Byte : \A y \in Byte : SizeOf(x, y) = -1}

\* A script of such messages, behind noise in which no frame can begin.
Regular(s) ==
  /\ s.script \in Seq(Range(s.script)) /\ s.script # <<>>
  /\ \A i \in DOMAIN s.script : Sendable(s.codec, s.script[i])
  /\ s.noise \in Seq(Harmless)

Packed(s) == FlattenSeq([i \in DOMAIN s |-> Pack(link.codec, s[i])])

TypeOK ==
  /\ link \in Scenarios
  /\ intact \in 0 .. issued /\ issued \in 0 .. Len(link.script)
  /\ Len(waiting) + Len(resumed) <= issued
  /\ \A i \in DOMAIN wire : wire[i] \in Byte
  /\ \A i \in DOMAIN acc : acc[i] \in Byte
  /\ Len(wire) <= Max({link.room, Len(link.noise)})
  /\ up \in BOOLEAN

Init ==
  /\ link \in Scenarios
  /\ issued = 0 /\ intact = 0
  /\ waiting = <<>> /\ resumed = <<>>
  /\ wire = link.noise
  /\ acc = <<>>
  /\ received = <<>>
  /\ up = TRUE

-----------------------------------------------------------------------------
(* The writer.                                                             *)
Free == link.room - Len(wire)

\* What a buffer that was freed may hold when it is read.
Stale(b) == {b} \cup {[i \in DOMAIN b |-> f] : f \in Fill}

\* A write that does not ask how much the socket takes.
WriteSomeAll(b, posted) == wire' = wire \o b /\ resumed' = posted

\* One write to the socket takes what fits; posted are the handlers that wait.
WriteSome(b, posted) ==
  LET n == Min({Len(b), Free})
      left == SubSeq(b, n + 1, Len(b))
  IN  /\ wire' = wire \o SubSeq(b, 1, n)
      /\ resumed' = IF left = <<>> THEN posted ELSE Append(posted, left)

\* The reactor tries a new write at once unless others wait before it.
StartWrite(b, posted) ==
  \/ /\ waiting = <<>> /\ Free > 0
     /\ WriteSome(b, posted) /\ UNCHANGED waiting
  \/ /\ waiting # <<>> \/ Free = 0
     /\ waiting' = Append(waiting, b) /\ resumed' = posted /\ UNCHANGED wire

Send ==
  /\ issued < Len(link.script)
  /\ issued' = issued + 1
  /\ StartWrite(Pack(link.codec, Copy(link.codec, link.script[issued + 1])), resumed)
  /\ intact' = IF intact = issued /\ waiting' = <<>> /\ resumed' = <<>> THEN issued' ELSE intact
  /\ UNCHANGED <<link, readVars>>

\* The handler of a short write writes on.
WriteOn ==
  /\ resumed # <<>>
  /\ \E b \in Stale(Head(resumed)) : StartWrite(b, Tail(resumed))
  /\ UNCHANGED <<link, issued, intact, readVars>>

\* The socket has room again: the first write that waits is done.
WriteReady ==
  /\ waiting # <<>> /\ Free > 0
  /\ \E b \in Stale(Head(waiting)) : WriteSome(b, resumed)
  /\ waiting' = Tail(waiting)
  /\ UNCHANGED <<link, issued, intact, readVars>>

-----------------------------------------------------------------------------
(* The reader.                                                             *)

\* A handler that looks only at the bytes of this read.
ReadForgets(n) ==
  /\ up
  /\ LET result == Parse(link.codec, SubSeq(wire, 1, n))
     IN  /\ acc' = result.rest
         /\ received' = IF result.code = "PARSE_OK" THEN Append(received, result.msg)
                        ELSE received
         /\ up' = (result.code # "THROW")
  /\ wire' = SubSeq(wire, n + 1, Len(wire))
  /\ UNCHANGED <<link, writeVars>>

\* The read handler on n bytes; the message is handed on as a copy.
Read(n) ==
  /\ up
  /\ LET result == Parse(link.codec, acc \o SubSeq(wire, 1, n))
     IN  /\ acc' = result.rest
         /\ received' = IF result.code = "PARSE_OK" THEN Append(received, Copy(link.codec, result.msg))
                        ELSE received
         /\ up' = (result.code # "THROW")
  /\ wire' = SubSeq(wire, n + 1, Len(wire))
  /\ UNCHANGED <<link, writeVars>>

Writer == Send \/ WriteOn \/ WriteReady
Reader == \E n \in 1 .. Min({BufSize, Len(wire)}) : Read(n)

\* Everything was sent, written and read, or the reader's thread died.  No other
\* state is final: no write is left waiting for ever.
Over ==
  /\ \/ ~up
     \/ issued = Len(link.script) /\ waiting = <<>> /\ resumed = <<>> /\ wire = <<>>
  /\ UNCHANGED vars

Next == Writer \/ Reader \/ Over

Spec == Init /\ [][Next]_vars

-----------------------------------------------------------------------------
\* protocol.h:40, "a maximum of 255 characters for the content length": a packet
\* is its content, 6 bytes longer, with the content's true length in its head.
LengthAnnounced ==
  \A i \in DOMAIN link.script :
    LET packet == Pack(link.codec, link.script[i])
        content == Content(link.codec, link.script[i])
    IN  /\ Len(packet) = Len(content) + 6
        /\ SizeOf(packet[3], packet[4]) = Len(content)

\* A packet with one byte of its content or its checksum changed is not taken
\* for a message any more (checksum_parser::read); the sum modulo 255 cannot
\* tell 0 and 255 apart.  A fact about packets: it is looked at before any step.
CorruptionNoticed ==
  issued = 0 /\ acc = <<>> /\ wire = link.noise =>
    LET packet == Pack(link.codec, link.script[1])
    IN  \A i \in 5 .. Len(packet), d \in {1, 100} :
          LET changed == (packet[i] + d) % 256
          IN  {packet[i], changed} # {0, 255} =>
                SyncRead(link.codec, [packet EXCEPT ![i] = changed], 0).code # "PARSE_OK"

Whole == intact = issued
Left == SubSeq(link.script, Len(received) + 1, issued)

\* As long as every packet finds room at once: whatever the pieces in which the
\* bytes come, the messages handed on are the ones sent, in order, and the bytes
\* of the others are still in the buffer or on the wire: nothing is lost, torn,
\* invented or taken twice.  A write that does not go out at once can spoil what
\* is sent from then on, but no message that was written before it.
StreamIntact ==
  /\ LET safe == Min({Len(received), intact})
     IN  SubSeq(received, 1, safe) = SubSeq(link.script, 1, safe)
  /\ up \/ Len(received) >= intact
  /\ Whole =>
       /\ Len(received) <= issued
       /\ IsSuffix(Packed(Left), acc \o wire)
       /\ received # <<>> => Packed(Left) = acc \o wire

\* A read hands on exactly one message if the next frame is now complete, and
\* none otherwise (the assumption that module Server makes of HandleRead).
OneMessagePerRead ==
  [][ Reader /\ Whole =>
        LET complete == Left # <<>> /\ Len(wire') <= Len(Packed(Tail(Left)))
        IN  received' = IF complete THEN Append(received, Head(Left)) ELSE received ]_vars

=============================================================================
