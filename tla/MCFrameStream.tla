---------------------------- MODULE MCFrameStream ----------------------------
(* FrameStream on short scripts.                                           *)
EXTENDS FrameStream

Run(n) == [i \in 1 .. n |-> 97]

\* Strings of lengths around the border of fixstr and str8, and strings of bytes
\* that mean something elsewhere: a head, a whole frame, a str8 tag.
Strings == {Run(n) : n \in {0, 31, 32}} \cup {<<1, 2, 48, 49, 3, 48, 51>>, <<217, 255>>}

\* Kinds of messages that the players and the server exchange, and commands.
Chat == {MessageMessage(<<1, 2>>, Run(1)), JoinMessage(Run(1)), JoinAckMessage}
Commands == {[type |-> t, fields |-> <<s>>] : t \in {67, 68}, s \in {<<>>, <<1, 2>>}}

PlainCommands == {m \in CommandsOver(Strings) : m.type # 69}

Small == {m \in Chat : m.type # 0}

Pairs(M) == {<<m, n>> : m, n \in M}
Triples(M) == {<<m, n, n>> : m, n \in M}

\* Noise without hex digits: parts of a frame's head, and a letter.
HeadNoise == {<<120>>, <<1>>, <<1, 1>>, <<2, 1>>, <<1, 2, 120>>, <<120, 1, 2, 1, 2>>}

Setting(codec, scripts, noises, rooms) ==
  [codec : {codec}, script : scripts, noise : noises, room : rooms]

\* Every message over the strings; sequences of them behind noise; and sequences
\* that meet a socket with little room.
ShortScenarios ==
  Setting("message", {<<m>> : m \in MessagesOver(Strings)}, {<<>>}, {1000})
    \cup Setting("command", {<<m>> : m \in PlainCommands}, {<<>>}, {1000})
    \cup Setting("message", Pairs(Chat) \cup Triples(Chat), HeadNoise, {1000})
    \cup Setting("command", Pairs(Commands), HeadNoise, {1000})
    \cup Setting("message", Pairs(Chat), {<<>>}, {14})
    \cup Setting("message", {<<m, m>> : m \in Small}, {<<>>}, {8})

ASSUME RegularScenarios == \A s \in ShortScenarios : Regular(s)

\* Names and lines with which the content has 255 bytes, and more.
LongScenarios ==
  Setting("message", {<<JoinMessage(Run(n))>> : n \in {1, 252, 253}}, {<<>>}, {1000})

=============================================================================
