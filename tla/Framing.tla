------------------------------ MODULE Framing ------------------------------
(***************************************************************************)
(* The wire format: class protocol<Msg, T> (src/src/common/protocol.h/.cc) *)
(* with either of the two codecs it is instantiated with (protocol.h:90):  *)
(* the msgpack encoding of the messages (message.h/.cc, messages/*.h) and  *)
(* the naive protocol of the commands (command.h/.cc).                     *)
(* A frame is \x01 \x02, the content's length in two hex digits, the       *)
(* content, and its checksum in two hex digits.  Bytes are numbers.        *)
(***************************************************************************)
EXTENDS Integers, Sequences, SequencesExt, FiniteSetsExt

Byte == 0 .. 255

(* A message: the number of its MessageType and its strings, in the order  *)
(* in which pack writes them and the constructor takes them.               *)
MessageMessage(msg, from) == [type |-> 0, fields |-> <<msg, from>>]
AnswerMessage(from, answer) == [type |-> 1, fields |-> <<from, answer>>]
JoinMessage(name) == [type |-> 2, fields |-> <<name>>]
JoinAckMessage == [type |-> 3, fields |-> <<>>]
JoinNackMessage(error) == [type |-> 4, fields |-> <<error>>]
ErrorMessage(error) == [type |-> 5, fields |-> <<error>>]

MessagesOver(Strings) ==
  {MessageMessage(s, t) : s, t \in Strings} \cup {AnswerMessage(s, t) : s, t \in Strings}
    \cup {JoinMessage(s) : s \in Strings} \cup {JoinAckMessage}
    \cup {JoinNackMessage(s) : s \in Strings} \cup {ErrorMessage(s) : s \in Strings}

\* create_data: how many strings the new object will unpack.
FieldCount == [t \in 0 .. 5 |-> CASE t \in {0, 1} -> 2 [] t \in {2, 4, 5} -> 1 [] t = 3 -> 0]

-----------------------------------------------------------------------------
(* msgpack, as far as the messages use it: small integers and strings.     *)
PackString(s) ==
  IF Len(s) < 32 THEN <<160 + Len(s)>> \o s
  ELSE IF Len(s) < 256 THEN <<217, Len(s)>> \o s
  ELSE <<218, Len(s) \div 256, Len(s) % 256>> \o s

\* Message::pack
PackMessage(m) == <<m.type>> \o FlattenSeq([i \in DOMAIN m.fields |-> PackString(m.fields[i])])

\* The string that starts at offset o + 1 of b; `end` is -1 when unpack throws
\* (the bytes end too early, or it is not a string).
StringAt(b, o) ==
  LET from(head, len) ==
        IF o + head + len <= Len(b)
        THEN [str |-> SubSeq(b, o + head + 1, o + head + len), end |-> o + head + len]
        ELSE [str |-> <<>>, end |-> -1]
      tag == IF 0 <= o /\ o < Len(b) THEN b[o + 1] ELSE 0
  IN  CASE tag \in 160 .. 191 -> from(1, tag - 160)
        [] tag = 217 /\ o + 2 <= Len(b) -> from(2, b[o + 2])
        [] tag = 218 /\ o + 3 <= Len(b) -> from(3, 256 * b[o + 2] + b[o + 3])
        [] OTHER -> [str |-> <<>>, end |-> -1]

Thrown == [type |-> -1, fields |-> <<>>]

\* Message::unpack.  Throws, or aborts in create_data, on anything that is not
\* a message; bytes after the last string are ignored.  What msgpack would convert
\* as well, a type in a wider integer (message.h:91) or a string tagged as binary,
\* counts as not a message: pack writes neither.
Unpack(b) ==
  IF b = <<>> \/ b[1] \notin 0 .. 5 THEN Thrown
  ELSE LET first == StringAt(b, 1)
           second == StringAt(b, first.end)
           strings == SubSeq(<<first, second>>, 1, FieldCount[b[1]])
       IN  IF \E i \in DOMAIN strings : strings[i].end = -1 THEN Thrown
           ELSE [type |-> b[1], fields |-> [i \in DOMAIN strings |-> strings[i].str]]

-----------------------------------------------------------------------------
(* The naive protocol: one letter and one string, that is all a command is *)
(* (A answer, M message, B nack, C join request, D ack; E error or empty). *)
Letters == {65, 66, 67, 68, 77}

CommandsOver(Strings) == [type : Letters \cup {69}, fields : [1 .. 1 -> Strings]]

\* What parse makes of anything else; the wording of its content is left out.
ErrorCommand == [type |-> 69, fields |-> <<<<>>>>]

\* naive_command_protocol::pack
PackCommand(m) == <<m.type>> \o m.fields[1]

\* naive_command_protocol::parse
ParseCommand(b) ==
  IF b = <<>> \/ b[1] \notin Letters THEN ErrorCommand
  ELSE [type |-> b[1], fields |-> <<Tail(b)>>]

-----------------------------------------------------------------------------
(* The codec is the template parameter T of protocol<Msg, T>.              *)
Codecs == {"message", "command"}

Content(codec, m) == IF codec = "command" THEN PackCommand(m) ELSE PackMessage(m)

\* The copy constructor of Message packs and unpacks; a command is copied as it is.
Copy(codec, m) == IF codec = "command" THEN m ELSE Unpack(PackMessage(m))

Decode(codec, b) == IF codec = "command" THEN ParseCommand(b) ELSE Unpack(b)

-----------------------------------------------------------------------------
(* Numbers in hex.                                                         *)
HexDigit(n) == IF n < 10 THEN 48 + n ELSE 87 + n

\* setw(2), setfill('0'), hex; a larger number has three digits (below 4096),
\* and only the first two are sent.
Hex2(n) == IF n < 256 THEN <<HexDigit(n \div 16), HexDigit(n % 16)>>
           ELSE <<HexDigit(n \div 256), HexDigit((n \div 16) % 16)>>

HexValue(b) ==
  CASE b \in 48 .. 57 -> b - 48
    [] b \in 65 .. 70 -> b - 55
    [] b \in 97 .. 102 -> b - 87
    [] OTHER -> -1

Huge == 2 ^ 30    \* stands for the numbers near 2^64

\* istringstream >> hex >> size on two characters: white space and a sign may
\* precede the digits (a minus wraps around), "0x" wants another digit, and
\* what follows the first digit is left unread if it is not one.  -1: fail.
SizeOf(b1, b2) ==
  LET h1 == HexValue(b1)  h2 == HexValue(b2)
  IN  CASE h1 # -1 /\ h2 # -1 -> 16 * h1 + h2
        [] h1 # -1 /\ h2 = -1 -> IF b1 = 48 /\ b2 \in {88, 120} THEN -1 ELSE h1
        [] b1 \in (9 .. 13) \cup {32, 43} -> h2
        [] b1 = 45 -> IF h2 <= 0 THEN h2 ELSE Huge
        [] OTHER -> -1

\* compute_cc
Checksum(content) ==
  LET sum[i \in 0 .. Len(content)] == IF i = 0 THEN 0 ELSE sum[i - 1] + content[i]
  IN  sum[Len(content)] % 255

-----------------------------------------------------------------------------
(* protocol::pack and protocol::parse.                                     *)
Pack(codec, m) ==
  LET c == Content(codec, m) IN <<1, 2>> \o Hex2(Len(c)) \o c \o Hex2(Checksum(c))

(* The chain of parsers, each on what the one before it left: they answer  *)
(* with a code and, if it is PARSE_OK, the message and where it ends.       *)
Code(c) == [code |-> c]

\* A parser that does not compare.
ChecksumReadUnchecked(codec, b, o, content) ==
  IF Len(b) - o < 2 THEN Code("NOT_ENOUGH")
  ELSE [code |-> "PARSE_OK", msg |-> Decode(codec, content), end |-> o + 2]

\* checksum_parser::read, at offset o, for the content in front of o.
ChecksumRead(codec, b, o, content) ==
  IF Len(b) - o < 2 THEN Code("NOT_ENOUGH")
  ELSE IF SubSeq(b, o + 1, o + 2) # Hex2(Checksum(content)) THEN Code("BAD_CHECKSUM")
  ELSE [code |-> "PARSE_OK", msg |-> Decode(codec, content), end |-> o + 2]

\* content_parser::read: the content is decoded before its checksum is known.
ContentRead(codec, b, o, size) ==
  LET content == SubSeq(b, o + 1, o + size)
  IN  IF Len(b) - o < size THEN Code("NOT_ENOUGH")
      ELSE IF Decode(codec, content) = Thrown THEN Code("THROW")
      ELSE ChecksumRead(codec, b, o + size, content)

\* size_parser::read
SizeRead(codec, b, o) ==
  IF Len(b) - o < 2 THEN Code("NOT_ENOUGH")
  ELSE IF SizeOf(b[o + 1], b[o + 2]) = -1 THEN Code("BLURP")
  ELSE ContentRead(codec, b, o + 2, SizeOf(b[o + 1], b[o + 2]))

\* A parser that gives up on a byte that does not begin a frame.
SyncReadStrict(codec, b, o) ==
  IF Len(b) - o < 2 THEN Code("NOT_ENOUGH")
  ELSE IF SubSeq(b, o + 1, o + 2) # <<1, 2>> THEN Code("NOT_ENOUGH")
  ELSE SizeRead(codec, b, o + 2)

\* sync_parser::read
SyncRead(codec, b, o) ==
  IF Len(b) - o < 2 THEN Code("NOT_ENOUGH")
  ELSE IF SubSeq(b, o + 1, o + 2) # <<1, 2>> THEN Code("BLURP")
  ELSE SizeRead(codec, b, o + 2)

\* protocol::parse: bytes are dropped one at a time until the chain finds a
\* frame, wants more bytes, or throws; `rest` is what packet holds after it.
Parse(codec, b) ==
  LET stops == {o \in 0 .. Len(b) - 1 : SyncRead(codec, b, o).code \notin {"BLURP", "BAD_CHECKSUM"}}
      first == Min(stops)
      result == SyncRead(codec, b, first)
  IN  IF stops = {} THEN [code |-> "NONE", rest |-> <<>>]
      ELSE IF result.code = "PARSE_OK"
      THEN [code |-> "PARSE_OK", msg |-> result.msg, rest |-> SubSeq(b, result.end + 1, Len(b))]
      ELSE [code |-> result.code, rest |-> SubSeq(b, first + 1, Len(b))]

=============================================================================
