# quizzbot: a verification project

quizzbot is a chat and quiz program: one server process, many terminal clients,
one TCP connection each, binary frames with msgpack contents. This directory
holds TLA+ models of its parts, the TLC runs that check them on small instances
and TLAPS proofs for every size. Paths below are relative to the repository;
the program itself is under `src/src/`, its unit tests under `src/tests/`.

## 1. Inventory

| Part | State | Operations | Talks to |
|---|---|---|---|
| event queue (`common/event_queue.h`) | `queue_`, `mutex_` | `push`, `size`, `empty` | one network thread pushes, the main thread polls, in server and client |
| server network (`server/network.*`, `tcp_connection.h`) | acceptor, one `TcpConnection` per client: socket, `acc_packet_`, `name_` | accept handler, read handler, `send_command` | handlers; all on the `io_service` thread |
| handlers (`server/handler.h`) | `participants_` | `ChatRoom::handle`, `transmit_message`, `find_by_name`, `add_participant`; `JoinHandler::handle`; `GameHandler::handle` | connections (write), event queue (push) |
| game loop (`server/game.*`) | `should_run`, `current_commands`, the `io_service` and its thread | start, polling loop, SIGINT handler, shutdown | event queue; the quiz |
| quiz sessions (`server/quizz_system.*`) | `answers_`, `current_session_dt_`, question | constructor, `submit_answer`, `update` | constructed by the game loop, not called yet |
| framing (`common/protocol.*`) | none | `pack`, `parse` and its chain of parsers, over either codec | both read handlers, both writers |
| messages (`common/message.*`, `messages/*.h`) | type and strings | constructors, `pack`, `unpack`, copy constructor | framing; every thread that hands a message on |
| naive command protocol (`common/command.*`) | type and string | `pack`, `parse` | framing; used by the tests only |
| line parser (`client/line_parser.*`, `string_utils.h`) | user name | `parse_line`, `trim_left`, `trim_right` | `ui::send_msg` |
| client network (`client/tcp_client.*`) | socket, `aggr_packet_` | resolve, connect, `send`, read handler | event queue (push) |
| client main thread (`client/main.cc`) | `current_commands`, the two loops | join loop, interface loop, end | event queue, `send`, interface |
| client interface (`client/ui.*`) | input field, chat panel | `handle_keyboard`, `send_msg`, `write_to_chat` | line parser, `send` |

Not modelled:

* `send_to` and `broadcast` of the room, and `trim` of the string helpers: no line of
  the program calls them, so no behaviour of it contains them.
* the ring of panels that tab turns (`switch_panel`, `top_panel_`): nothing reads it
  but the redrawing.
* `player` (`common/player.*`): a state without an operation that changes it; unused.
* `log.h` and `command::str`: output. Windows, borders and redrawing in `ui.cc`: output.
* `src/scripts/`: generates `common/messages/*.h` when a developer runs it; the
  generated code is modelled.
* `src/googletest-release-1.7.0/`: the vendored test framework. It is more than nine
  tenths of the lines under `src/`, so that the share of all source lines that the
  map names is small although the program's own `src/src/` is mapped nearly in full.
* `game.h`'s announced quiz: `update` and `submit_answer` are modelled in
  `QuizzSystem`, but nothing calls them, so they are not part of the composition.

What is hard in this program, and to which property it led, is listed with line
numbers under "hazards" in `PROJECT.json`. In short: two threads share the queue
and the flag `should_run`; `size()` and `empty()` are two critical sections;
objects on the stack of `loop()` are used by handlers on another thread; one
message is parsed per read although TCP delivers any number of pieces; the room
never forgets a connection; names are checked and set between two messages; a
failing accept, a vanished peer, a lost connection and a user who is faster than
the connect have paths of their own; the frame length has two digits and the
parser must find its way back after noise.

## 2. The modules

Every definition that stands for code is listed with its lines in
`PROJECT.json`, "map". Names follow the code where they can (`participants`,
`submit_answer`, `parse_line`); a definition whose comment describes a
*different* program (`PushLockForgotten`, `TakeCopy`, ...) is a plausible bug,
not part of the specification: the properties are tested against it.

**Mailbox** is what the event queue promises: elements put by many producers are
handed to one consumer, each once, in order, and in the end.
**EventQueue** is the code: the mutex, the container, and the threads that use
them. An access to `std::queue` is not atomic, so a push is lock / load / store
and the swap in `empty()` is lock / load / store; the consumer is the polling
loop that `game::loop` and the client's `main` share. `EventQueue` implements
`Mailbox` under the mapping that counts the elements once while the swap is
half done (`Pending`).

**Server** is the server process: accept handlers, read handlers, the room, the join and
game handlers, the SIGINT handler (all on the one `io_service` thread, so a handler is
one step) and the main thread's loop, which is split at each access to the queue and to
`should_run`. The queue is used as a sequence with atomic operations, which is what
`EventQueue` shows. A frame arrives in `Segs` pieces and a read returns any number of
them; what the pieces are is abstracted (`FrameStream`). A read dispatches at most one
frame, as `handle_receive` does. Environment: clients connect, send any request, leave;
the port may be taken (`StartServerFails`: the acceptor's constructor throws through
`main`), accept may fail; the operator may interrupt. A client may leave before it is
accepted: if it has closed in good order it is accepted all the same and read to its end
(`HandleAccept`, `Opened`), if with a reset, `remote_endpoint()` throws
(`HandleAcceptVanished`). The model does not know which of the two a peer has done, so
it allows both. A write is one step that succeeds; when that is so, and what happens
otherwise, is `FrameStream`'s business.

**Chat** is what the server promises, without sockets, pieces, threads, queues and
batches: members enter, each frame of a member is handled in one step, names belong
to one member for ever, and what named members say makes one conversation, whose
chat lines reach every other member at once. `Server` implements it
(`ImplementsChat`): the conversation is `log \o batch \o queue`, an inbox is what was
handed to the socket, and every step of the main thread is a stutter.

**QuizzBot** is the whole program: `Server`, and a client process per connection in
place of the arbitrary client. A client names itself, waits in its join loop, then shows
chat and sends lines; its reads move pieces and parse one message, its main thread takes
all parsed messages as one batch. Two constants bound the users: `Entered`, the kinds of
line they type, and `After`, whom a user waits for before starting, which is empty where
the order of arrival is part of the question. These clients are `Client` reduced to what
crosses the wire. `Client`'s own environment assumes a server that talks as in
`ServesClient`, which `QuizzBot` checks of the real one; `QuizzBot` assumes that a
client's lines leave in order and whole, which `Client` checks and proves
(`OutboxInOrder`).

**QuizzSystem** is the class of that name: sessions, answers, the clock. Nothing
calls it yet, so the calls come in any order.

**Framing** holds the wire format as pure operators on bytes: `Pack`, the chain
`SyncRead` / `SizeRead` / `ContentRead` / `ChecksumRead`, and `Parse` with its
byte-wise resynchronisation, over two codecs: the msgpack messages and the naive
commands, as the template has it. `istringstream >> hex` and msgpack are modelled by
what they do on the inputs that occur (`SizeOf`, `StringAt`). Copying a message is
packing and unpacking it (`Copy`). Encodings that msgpack would convert but never
writes for these types (a wider integer, a binary tag) count as not a message.

**FrameStream** is one direction of a connection at the level of bytes. The writer
packs the messages of a script and starts an `async_write` for each. `boost::asio`
tries it at once; if nothing fits the write waits in the reactor, if a part fits a
handler is posted that writes on, and another `async_write` may get in between.
Since the buffer belongs to a temporary `Packet`, whatever is written later is read
from freed memory: the model lets it be the old bytes or a filler (`Stale`). The
reader is the read handler that server and client share: any pieces, one parse per
read, the message handed on as a copy. `Regular` says which scripts the program is made
for: messages with their fields and a content of at most 255 bytes (`protocol.h:40`),
behind bytes with which no number begins. The specification does not assume it.

**LineParser** is the keyboard side of the client: the field, backspace, what
`parse_line` makes of a line, padded as ncurses does it, and what `send_msg` sends and
shows of the result, with `trim_left` and `trim_right`. Without an input field (`field`:
nobody looks at what `new_field` returned) Enter shows an error (`send_msg_null`).
`Received` is what another client's panel shows of a chat message: `EchoIsSent` compares
it with what the author was shown, whichever field of the message holds which.

**Client** is the client process: the main thread with its join loop, its
interface loop and its end, and the network thread with resolve, connect, posted
sends and reads. A send that starts while the socket is still connecting waits
behind the connect with a pointer to a temporary buffer; the model lets any of
them come out as `Garbage`. Once connected, a write is assumed to leave in one
piece (what a person types fits an empty socket buffer).

`MCEventQueue`, `MCServer`, `MCQuizzBot`, `MCConversation`, `MCQuizzSystem`,
`MCFrameStream`, `MCLineParser` and `MCClient` fix the small instances;
`EventQueueProofs`, `ServerProofs`, `QuizzBotProofs`, `QuizzSystemProofs`,
`ClientProofs`, `LineParserProofs` and `FrameStreamProofs` hold the theorems,
`CommonLemmas` what they share: induction over sets of numbers, functions defined by
recursion, pieces of sequences, `FlattenSeq`.

## 3. The runs

| Run | What it shows | Bounds, and why they are enough |
|---|---|---|
| `event_queue` | mutual exclusion; no load is stale; every step is a mailbox step; every element arrives | 3 producers, 2 pushes each: a push can meet every state of a swap and of another push, and a producer's two elements can be reordered |
| `server_room` | names are unique and stay, join replies, the game's log; what `loop()` owns outlives its users; every step is a step of `Chat` | 2 connections that may leave at any time, with 2 frames and 1, 2 names, a taken port, accept errors, SIGINT: refusal then success, success then another request, talk to a member that is gone, a name of a dead connection, shutdown between any two steps. Frames come whole: `quizzbot` has the pieces. One line is said at most: `conversation` has the order |
| `conversation` | the order of the chat in the game's events, in what each connection is sent and on each panel, without gaps; who is named | 3 clients. One says two lines, one says one, the third only reads: two lines of one author and two authors, so that every pair of lines can be exchanged; two readers share two lines, one panel shows three, enough for a gap. The users come one after the other (two lines, reader, one line), so that the later ones miss lines or begin between two. Nobody leaves and frames come whole: `quizzbot` and `server_room` have that |
| `quizzbot` | who is who, on both sides; the server talks as `Client` assumes; shutdown ends; nobody waits for ever to be accepted; events are processed; who asks for a name gets into the chat or is turned away | 2 clients who want the same name, frames in 2 pieces in both directions; the first says a thing and may leave at any time (in the backlog, between two pieces, named or not), SIGINT between any two steps; under fairness |
| `server_burst` | violated: see section 5 | 2 frames on one connection |
| `quizz_sessions` | first answers of the session are judged | 2 players, 2 answers, 4 calls, time to twice the duration: a session closes in the middle of the answers |
| `quizz_timer` | violated: see section 5 | 1 player |
| `frame_stream` | the stream is intact, one message per read, damage is noticed, no write is left waiting | every kind of message and command over strings of length 0, 31, 32 (fixstr ends at 31) and strings that imitate frame heads, whole frames and str8 tags; up to 3 frames behind 6 kinds of noise; two frames into a socket with room for 14 or 8 bytes, less than both or one of them; reads of any size up to `BufSize` |
| `codec_long` | violated: see section 5 | contents of 255 and more bytes |
| `line_parser` | commands stay private, answers are the rest of the line, author and readers see the same text, trimming takes only blanks | every line of up to 4 characters from blank, slash, and the letters of the commands; with and without an input field |
| `line_parser_chat` | violated: see section 5 | the same |
| `client` | lines leave in order, the panel shows the chat, ack starts the interface, Escape ends the program | 2 endpoints, a request and 3 typed lines, 4 lines from the server: chat before, with and behind the ack in one read or one batch |

Deadlock is checked except in `QuizzSystem`, which stops when its bounds on calls and
time are used up. `Server`, `QuizzBot` and `Client` stutter only when the process is
over, `FrameStream` when everything is written and read or the reader died (`Over`).
Symmetry is used in runs without liveness: names, players and answers are
interchangeable.

**Fairness.** `EventQueue`: threads keep running; weak fairness suffices for the mutex
because the pushes of the instance are finitely many. `Server`: weak fairness of the
main thread, of the accept handler, of the signal handler and of each connection's read
handler, because `io_service::run` serves what the kernel reports and the main thread
blocks nowhere but in the join. `Client`: the same for its two threads. `QuizzBot`: all
of these, for the server and each client. Nothing is assumed of users, peers, timers or
the operator.

**What the liveness properties leave out.** `ConnectionsAccepted` holds of an acceptor
whose accepts do not fail; after an error the handler does not accept again
(`HandleAcceptError`, which `server_room` takes). A peer that was reset in the backlog
ends the process (`HandleAcceptVanished`), as a taken port does. `JoinAnswered` has an
exception, `LeftInBuffer`: when the answer came in one read behind a chat line it stays
in `aggr_packet_` until the server says something else, the same code as in
`server_burst`.

**What a short write does.** `StreamIntact` and `OneMessagePerRead` say everything of
a stream whose writes went out at once, which is what `Server` and `Client` assume
(a frame is small, a socket buffer is not). Once a write was short or had to wait,
only the messages before it are promised: in the runs with little room TLC reaches
states in which the rest of the stream is lost, torn or ends the reader.

## 4. The proofs

All are for arbitrary constants that satisfy the named assumptions of the
modules (`QueueAssumption`, `ServerAssumption`, `QuizzBotAssumption`,
`QuizzAssumption`, `ClientAssumption`, `LineAssumption`, `StreamAssumption`). Those about
the byte stream have one hypothesis besides: every scenario is `Regular`. That is
needed, since `codec_long` shows what longer contents do, and noise that holds a head and
hex digits makes the parser wait for, or drop, bytes of the frames behind it. The
scenarios of `frame_stream` are regular, which TLC evaluates (`RegularScenarios`).

*EventQueue.* The inductive invariant `QInv` is the conjunction of the type
invariant, `MutualExclusion` and `NoStaleAccess`. Alone, neither of the last two
is inductive: exclusion is needed so that a load stays current, and the control
states tie the mutex to its holder. From it, `Refinement`: a push's store is a
`Put`, a pop is a `Get`, and the two halves of a swap change nothing in `Pending`.

*Server.* `TypeCorrect` needs arithmetic on pieces: a complete frame was sent
(`CompleteFrame`). `RoomInv` (types, `RoomWellFormed`, `UniqueNames`) is
inductive; uniqueness of names needs that a named connection is in the room,
because `find_by_name` looks only there, and that the room never loses anyone.
`NamesStay` follows since the join handler is unreachable for a named connection.
`QueueOutlivesHandlers` rests on `ReturnInv`: the main thread returns only after
the io thread has stopped.

*Server implements Chat.* `ChatRefinement`: an accept is an
`Enter`, a read that completes a frame a `Hear`, everything else a stutter. On top
of `RoomInv` it needs that the batch is empty whenever `Take` runs (`BatchInv`: else
taking would reorder the conversation) and that frame k of c says so (`FrameInv`).
That `find_by_name` looks only at the participants is no loss: a name is held only
in the room (`FreeName`). So the order of the chat, the game's share in it and the
fate of each request are those of a one-page specification, for any number of
clients.

*What participants and game get.* `ServerProofs` shows by what each step may do
(`StepCases`: it handles one frame as `Chat` says, or lets one connection in, or
changes none of this) that
- `GameLogFaithful` is inductive together with `ChatInv`: frames that were taken stay
  what they are (`TakenStay`), and a connection without a name has no events
  (`Nameless`), so a grant starts its share of the log;
- `ChatOrder` needs `GameLogFaithful` (a frame is recorded once, so the new line is
  none of the earlier ones), and that the room's history starts within the events
  (`OrderInv`). One lemma per kind of growth: a reply, an event that is no line for the
  participant, a line (`MatchReply`, `MatchEvent`, `MatchLine`);
- `JoinReplies` counts: a refusal adds one to the nacks and one to the requests
  (`RefuseOne`), a grant fixes both for ever (`GrantOne`, `GrantedFrames`).
These properties are stated by positions in the sequences, not by filtering them: what
is at a position stays there when a sequence grows.

*QuizzSystem.* `QuizzInv` adds that no submission carries a later session's number.

*Client.* `TypeCorrect` needs that nothing is on its way that was not said. `OutInv`,
which gives `SendsInOrder`, is stronger than `OutboxInOrder` in three ways. Before the ack
there is one message, the join request, in one of five places (`Alone`), and it waits
behind the connect only while the client connects (`Connection`). An ack anywhere
on its way back means that the request was written, whole (`AckAnswers`). So when the
interface begins (`Chatting`) the connection is made, no write is stuck behind the connect,
and what is written and what is posted make up what was typed.

`PanelIsFaithful` is the other direction. What is under way (wire,
buffer, queue, batch: `Ahead`) is the end of what the server said (`EndOf`), a line's
number is its place in it (`Numbered`), and a batch exists only while the main thread
walks through it (`BatchPlace`). So the panel is the chat in the part of `said` that has
left `Ahead`, without what came before the interface (`Panel`). One lemma per move: a
read, a parse, a batch taken, its head shown, a batch dropped, the server speaking.

*QuizzBot.* `SystemInv` joins the server's invariants with four about the clients: what
was read was sent (`Pieces`), a connection carries one join request, as its first frame,
with the name that its user asked for (`OneRequest`), and a user who chats was sent an
ack, one who was denied a nack (`Answers`). With `JoinReplies` that decides who is who: a
named connection was never refused, a nameless one never acked (`ClientsAreNamed`). The
other theorem, `ClientIsServed`, discharges what `Client` assumes of the server: the
request that is answered is the first frame, so nothing was answered before it
(`FirstReply`). A step of the system is a step of the server or a hang-up (`SystemStep`),
which is how the server's lemmas carry over.

*One conversation.* `ConversationIsOne` joins the two halves. What a loop of the client
picks from a batch is a recursive function (`OfType`), so the first thing to prove is
what it computes: the messages of the types, each once, in order, with the positions
they come from (`Picks`, `OfTypePicks`). The provers cannot use the library's induction
theorem, which takes a predicate; `CommonLemmas` derives from the well-foundedness of
`<` an induction over *sets* of numbers (`NatInd`) and that functions defined by recursion
exist (`RecursionExists`). `PanelInv` then says that a panel shows the chat lines of one
stretch of what its connection was sent, up to the last message that the main thread has
seen; it holds before the chat because nothing is shown then, it begins anew when the
acks are dropped with what is before them in the batch, and it survives a batch because
stretches that meet are a stretch (`PicksOn`). It is inductive with `SystemInv`,
`GameLogFaithful` and `OrderInv` (`FullInv`). By `ChatOrder` what a participant was sent
matches the events after it entered, so its panel is the stretch of `Events` between the
first and the last line it shows (`PanelStretch`): for every client, whenever it joined
and however far it has read, the same lines in the same order. `ClientTypesCorrect` is
from the same invariant.

*LineParser.* Every state is what the last Enter made of its line (`LineInv`, `Sent`,
`Echoed`), and `EnterCases` are the three things that an Enter can make. The rest is about
the operators, for any line, any alphabet and any size of the field:
- `TrimLeftAt` and `TrimRightAt`: the helpers cut at the first and the last character
  that is not blank, which exist unless all are blank (`HasEnds`, by `NatMin`);
  `TrimsAgree` composes them (`CutOfCut`) and counts what they leave (`TextStays`, a
  bijection between the positions).
- `WordEnds` and `OneEnd`: the first word is well defined; `WordOfField`: the word of the
  padded field is a command exactly if the line begins with it and a blank or its end
  follows. Thus `CommandsArePrivate`.
- `RestBehind`: what is left behind the word is a suffix, and what was dropped between
  them is blank. Thus `AnswersAreText`.
- `Padded` and `EchoOfField`: the field is the shown text and blanks. The user name has no
  blanks (`LineAssumption`: it was read with `operator>>`), so the panel of a reader, which
  cuts the blanks behind what it takes for the text, shows it whole. Thus `EchoesAreSent`.

*Framing.* From digits to frames, for every message of both codecs whose content has at
most 255 bytes, and any buffer:
- `Hex2Facts`: the two digits that are written are read as the number (`SizeOf`).
  `RoundTrip`: packing and unpacking give the message back, by the two encodings of a
  string of that length (`PackStringFacts`, `StringBack`).
- `CompleteRead`, `PartialRead`, `NoiseRead`: at a whole packet the chain of parsers
  takes the message, at the beginning of one it wants more, at a byte that begins no
  frame it gives up. `parse` drops bytes up to the first offset where the chain does not
  give up (`ParseAt`), so it takes a packet behind anything in which no frame begins
  (`ParseFindsFrame`), and what it leaves otherwise still has the packet (`ParseWants`).
- `ChangeNoticed`: the checksum is a recursive sum; one other byte shifts it by the
  difference (`SumShifts`), which is a multiple of 255 only for 0 and 255. So a content
  that decodes, to whatever, does not match its checksum; one that does not decode throws.

*FrameStream.* `StreamTypes` needs that a write takes at most what fits and that each
message waits in one place. It does not say that no more messages are read than were
issued: that is part of `StreamIntact` only while every write went out at once (`Whole`).
A torn write may put bytes of a content between others, and a content may hold frames.

`StreamKept` and `ReadsOne` follow from `StreamInv`: either the reader is in order
(`InOrder`: it has handed on the first messages of the script, and its buffer with the
wire is a rest of the noise, the packets of the messages that were written at once and not
handed on, and what a torn write has put behind them), or it has all that was written
at once and a write was not (`Spoilt`: then nothing more is promised, not even that
the reader runs). `StreamIntact` alone is not inductive: it says how many bytes are left,
not which, and nothing of the noise. A write adds a packet at the end or
something behind everything (`AddsInOrder`); a read takes the front packet, or wants more
and drops only noise (`FrontRead`, `NoiseOnlyRead`), whichever way the bytes were cut.
With short writes the proof uses nothing of what they put on the wire, so it covers
whatever the freed buffer held.

Left to TLC: liveness (`ImplementsFairMailbox`, `ShutdownCompletes`, `ConnectionsAccepted`,
`EventsProcessed`, `JoinAnswered`, `AckStartsGui`, `QuitCompletes`), because the prover does
not handle fairness here, and that `FrameStream` has no deadlock. Every safety property of
a passing run is stated by a theorem.

## 5. Where the code and its texts disagree

* `server_burst`: `handle_receive` (`server/tcp_connection.h:81`) takes one message
  per read. When one read delivers two, the second waits for the next bytes the
  client sends, although `handler.h:126-128` has the network thread push the
  players' commands to the queue. The client's `handle_read` does the same.
* `quizz_timer`: `update` never sets `current_session_dt_` back
  (`server/quizz_system.cc:36`): after the first timeout every session lasts one call.
* `codec_long`: the length is written with `setw(2)`, a minimum, and cut to two
  digits (`common/protocol.h:184`); nothing enforces the 255 bytes of line 40.
* `line_parser_chat`: `parse_line` passes name and line to `MessageMessage` in the
  wrong order (`client/line_parser.cc:22`), against `tests/line_parser_test.cc:36`.
  The readers' panels show the line in front of the name; `EchoIsSent` and its theorem hold
  with the arguments in either order.

More were met and have no run. `trim` (`common/string_utils.h:31`) drops the result of
`trim_left` and leaves the blanks on the left, where `tests/string_utils_test.cc:24`
expects "Bonjour" of " Bonjour  "; nothing in the program calls it, and it is not
modelled. An Enter in an empty field sends a line of blanks, because the field pads
its contents, although `line_parser.cc:15` expects that the interface stops it
(`send_msg` in LineParser does it, and `EchoIsSent` says nothing of an empty line).
`command.h:50` calls B a chat message, the code
packs and parses it as a nack, and M as the chat message. A `Message` without a kind
cannot be copied. The client's join loop spins for ever when the connection is refused
or lost (`Client` models it; no text promises otherwise).

## 6. Plan

Done, in this order: event queue, server, quiz, framing and stream, line parser,
client; proofs of the event queue, the server's types, room and names, the quiz, the
client's types and outbox; then the composition `QuizzBot`, the abstract `Chat` and the
refinement with its proof, the write path, the second codec, the rest of the keyboard,
the proofs of `GameLogFaithful`, `ChatOrder`, `JoinReplies`, `PanelShowsChat`, `NamesAgree`
and `ServesClient`; then `OneConversation`, `ClientTypeOK`, and all of `LineParser`; last
the proofs about bytes, `Framing` and `FrameStream`.

Next, what the stream promises behind a short write, if the writes of a connection are
queued and their buffers live as long as they (`tcp_connection.h:42`): then `InOrder`
should hold without `Spoilt`.

And the game loop, once `quizz_system_` is called from it.
