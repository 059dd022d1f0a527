------------------------------- MODULE Server -------------------------------
(***************************************************************************)
(* The quizzbot server: tcp_server (network.h/.cc), TcpConnection          *)
(* (tcp_connection.h), the handlers ChatRoom, JoinHandler and GameHandler  *)
(* (handler.h) and the two threads of class game (game.h/.cc).             *)
(*                                                                         *)
(* Threads.  Every handler below runs on the one thread inside io_.run(),  *)
(* so one handler is one step; the main thread shares with it only the     *)
(* event queue (whose push, size and empty are atomic: see EventQueue) and *)
(* the flag should_run, so the main loop is split where it touches them.   *)
(*                                                                         *)
(* Bytes.  A frame is one packed Message; TCP may cut it into Segs pieces, *)
(* and a read returns any positive number of the pieces that were sent.    *)
(* What the pieces look like is the business of module Framing.            *)
(***************************************************************************)
EXTENDS Naturals, Sequences, FiniteSets

CONSTANTS
  Conn,       \* connections that clients may open
  Name,       \* the non-empty player names
  NoName,     \* the empty string
  Segs,       \* pieces a frame may arrive in
  MaxFrames,  \* bound: MaxFrames[c] is how many frames c's client sends
  Leavers,    \* bound: the connections whose client may go away
  Faults      \* bound: which of "bind" (the port is taken), "accept" (async_accept
              \* reports an error) and "signal" (a SIGINT from the operator) may happen

ASSUME ServerAssumption ==
  /\ NoName \notin Name
  /\ Segs \in Nat \ {0}
  /\ MaxFrames \in [Conn -> Nat]
  /\ Leavers \subseteq Conn
  /\ Faults \subseteq {"bind", "accept", "signal"}

VARIABLES
  accepting,     \* an async_accept is outstanding
  conn,          \* life cycle of each connection
  stream,        \* stream[c]: the frames c's client has sent
  arrived,       \* arrived[c]: pieces of them that reads have moved to acc_packet_
  parsed,        \* parsed[c]: frames parse() has taken out of acc_packet_
  participants,  \* ChatRoom::participants_
  name,          \* TcpConnection::name_
  sent,          \* sent[c]: messages handed to c's socket by send_command
  queue,         \* the event_queue<GameEvent> of game::loop
  batch,         \* current_commands, private to the main thread
  log,           \* history: the events the main loop has processed
  since,         \* history: how many events existed when c entered the room
  shouldRun,     \* should_run
  io,            \* the io_service and its thread
  main,          \* control state of the main thread
  sigint         \* a SIGINT was delivered to the process

netVars  == <<accepting, conn, stream, arrived, parsed>>
roomVars == <<participants, name, sent, since>>
gameVars == <<batch, log>>
ctlVars  == <<shouldRun, io, main, sigint>>
vars == <<netVars, roomVars, queue, gameVars, ctlVars>>

-----------------------------------------------------------------------------
(* Messages.  `by` and `nr` are not on the wire: they identify the frame.  *)

Frame(c, k, type, n) == [type |-> type, name |-> n, by |-> c, nr |-> k]
Frames ==
  [type : {"JOIN_REQUEST"}, name : Name \cup {NoName}, by : Conn, nr : Nat]
    \cup [type : {"MESSAGE", "ANSWER"}, name : {NoName}, by : Conn, nr : Nat]

Ack == [type |-> "JOIN_ACK"]
Nack == [type |-> "JOIN_NACK"]
Messages == Frames \cup {Ack, Nack}

GameEvents == [name : Name, msg : Frames]
Events == log \o batch \o queue

TypeOK ==
  /\ accepting \in BOOLEAN
  /\ conn \in [Conn -> {"none", "backlog", "vanished", "reading", "hungup", "dead"}]
  /\ stream \in [Conn -> Seq(Frames)]
  /\ \A c \in Conn : Len(stream[c]) <= MaxFrames[c]
  /\ arrived \in [Conn -> Nat]
  /\ parsed \in [Conn -> Nat]
  /\ \A c \in Conn :
       Segs * parsed[c] <= arrived[c] /\ arrived[c] <= Segs * Len(stream[c])
  /\ participants \in Seq(Conn)
  /\ name \in [Conn -> Name \cup {NoName}]
  /\ sent \in [Conn -> Seq(Messages)]
  /\ queue \in Seq(GameEvents)
  /\ batch \in Seq(GameEvents)
  /\ log \in Seq(GameEvents)
  /\ since \in [Conn -> Nat]
  /\ shouldRun \in BOOLEAN
  /\ io \in {"running", "stopping", "stopped", "terminated"}
  /\ main \in {"boot", "test", "poll", "take", "process", "sleep", "join", "returned"}
  /\ sigint \in BOOLEAN

Init ==
  /\ accepting = FALSE
  /\ conn = [c \in Conn |-> "none"]
  /\ stream = [c \in Conn |-> <<>>]
  /\ arrived = [c \in Conn |-> 0]
  /\ parsed = [c \in Conn |-> 0]
  /\ participants = <<>>
  /\ name = [c \in Conn |-> NoName]
  /\ sent = [c \in Conn |-> <<>>]
  /\ queue = <<>>
  /\ batch = <<>>
  /\ log = <<>>
  /\ since = [c \in Conn |-> 0]
  /\ shouldRun = TRUE
  /\ io = "running"
  /\ main = "boot"
  /\ sigint = FALSE

-----------------------------------------------------------------------------
(* The clients and the operator.                                           *)

Requests == {<<"JOIN_REQUEST", n>> : n \in Name \cup {NoName}}
              \cup {<<"MESSAGE", NoName>>, <<"ANSWER", NoName>>}

\* The kernel completes a connection as soon as the acceptor listens.
Connect(c) ==
  /\ main # "boot"
  /\ conn[c] = "none"
  /\ conn' = [conn EXCEPT ![c] = "backlog"]
  /\ UNCHANGED <<accepting, stream, arrived, parsed, roomVars, queue, gameVars, ctlVars>>

ClientSends(c, r) ==
  /\ conn[c] \in {"backlog", "reading"}
  /\ Len(stream[c]) < MaxFrames[c]
  /\ stream' = [stream EXCEPT ![c] = Append(@, Frame(c, Len(@) + 1, r[1], r[2]))]
  /\ UNCHANGED <<accepting, conn, arrived, parsed, roomVars, queue, gameVars, ctlVars>>

ClientSend(c) == \E r \in Requests : ClientSends(c, r)

\* The client's process ends, or its connection does.
HangUp(c) ==
  /\ \/ conn[c] = "backlog" /\ conn' = [conn EXCEPT ![c] = "vanished"]
     \/ conn[c] = "reading" /\ conn' = [conn EXCEPT ![c] = "hungup"]
  /\ UNCHANGED <<accepting, stream, arrived, parsed, roomVars, queue, gameVars, ctlVars>>

ClientLeave(c) == c \in Leavers /\ HangUp(c)

Interrupt ==
  /\ "signal" \in Faults
  /\ ~sigint
  /\ sigint' = TRUE
  /\ UNCHANGED <<netVars, roomVars, queue, gameVars, shouldRun, io, main>>

-----------------------------------------------------------------------------
(* The chat room, the join handler and the game handler.                   *)

InRoom(c) == \E i \in DOMAIN participants : participants[i] = c

\* A look-up that leaves out the connections whose client has gone.
FindByNameLive(n) ==
  /\ n # NoName
  /\ \E i \in DOMAIN participants :
       name[participants[i]] = n /\ conn[participants[i]] # "dead"

\* ChatRoom::find_by_name: participants_ keeps the connections that are dead.
FindByName(n) ==
  /\ n # NoName
  /\ \E i \in DOMAIN participants : name[participants[i]] = n

SendCommand(c, m) == sent' = [sent EXCEPT ![c] = Append(@, m)]

\* A room whose newest line overtakes those that were sent before.
TransmitNewestFirst(c, m) ==
  sent' = [d \in Conn |-> IF InRoom(d) /\ d # c THEN <<m>> \o sent[d] ELSE sent[d]]

\* ChatRoom::transmit_message.  A connection is in participants_ at most once
\* (RoomWellFormed), so each receiver gets one copy; a name is not required.
TransmitMessage(c, m) ==
  sent' = [d \in Conn |-> IF InRoom(d) /\ d # c THEN Append(sent[d], m) ELSE sent[d]]

\* ChatRoom::handle: everything but a chat message is ignored.
RoomHandle(c, m) ==
  \/ m.type = "MESSAGE" /\ TransmitMessage(c, m)
  \/ m.type # "MESSAGE" /\ UNCHANGED sent

\* GameHandler::handle, with the emitter's name at the time of the call.
GameHandle(n, m) == queue' = Append(queue, [name |-> n, msg |-> m])

\* A refusal that does not return after the nack.
JoinRefusedFallThrough(c, m) ==
  /\ m.type = "JOIN_REQUEST"
  /\ FindByName(m.name)
  /\ sent' = [sent EXCEPT ![c] = @ \o <<Nack, Ack>>]
  /\ name' = [name EXCEPT ![c] = m.name]
  /\ GameHandle(m.name, m)

\* JoinHandler::handle, its two early returns with a nack.
JoinRefused(c, m) ==
  /\ m.type = "JOIN_REQUEST"
  /\ m.name = NoName \/ FindByName(m.name)
  /\ SendCommand(c, Nack)
  /\ UNCHANGED <<name, queue>>

\* A grant after which handle_receive does not relay the request.
JoinAcceptedUnrelayed(c, m) ==
  /\ m.type = "JOIN_REQUEST"
  /\ m.name # NoName
  /\ ~FindByName(m.name)
  /\ name' = [name EXCEPT ![c] = m.name]
  /\ SendCommand(c, Ack)
  /\ UNCHANGED queue

\* JoinHandler::handle to its end; handle_receive sees that the name is set
\* and relays the request to the game.
JoinAccepted(c, m) ==
  /\ m.type = "JOIN_REQUEST"
  /\ m.name # NoName
  /\ ~FindByName(m.name)
  /\ name' = [name EXCEPT ![c] = m.name]
  /\ SendCommand(c, Ack)
  /\ GameHandle(m.name, m)

\* JoinHandler::handle, first return: only a join request is of interest.
JoinIgnored(c, m) ==
  /\ m.type # "JOIN_REQUEST"
  /\ UNCHANGED <<name, sent, queue>>

\* A player's message: to the room, then to the game.
PlayerMessage(c, m) ==
  /\ UNCHANGED name
  /\ RoomHandle(c, m)
  /\ GameHandle(name[c], m)

\* A dispatch that offers every message to the join handler.
DispatchAlwaysJoin(c, m) ==
  \/ JoinIgnored(c, m) \/ JoinRefused(c, m) \/ JoinAccepted(c, m)

\* The body of TcpConnection::handle_receive, given the message.
Dispatch(c, m) ==
  \/ name[c] = NoName /\ (JoinIgnored(c, m) \/ JoinRefused(c, m) \/ JoinAccepted(c, m))
  \/ name[c] # NoName /\ PlayerMessage(c, m)

-----------------------------------------------------------------------------
(* Completion handlers, on the io thread.                                  *)

IoRuns == io = "running"

\* A connection that the kernel has made and nobody accepted; and what it becomes:
\* from a peer that has closed, reads get what it sent before, then the end.
Waiting(c) == conn[c] \in {"backlog", "vanished"}
Opened(c) == IF conn[c] = "backlog" THEN "reading" ELSE "hungup"

\* An accept handler that starts the connection without adding it to the room.
HandleAcceptNotAdded(c) ==
  /\ IoRuns /\ accepting
  /\ Waiting(c)
  /\ since' = [since EXCEPT ![c] = Len(Events)]
  /\ conn' = [conn EXCEPT ![c] = Opened(c)]
  /\ UNCHANGED <<accepting, stream, arrived, parsed, participants, name, sent,
                 queue, gameVars, ctlVars>>

\* An accept handler that forgets start_accept.
HandleAcceptNoRearm(c) ==
  /\ IoRuns /\ accepting
  /\ Waiting(c)
  /\ accepting' = FALSE
  /\ participants' = Append(participants, c)
  /\ since' = [since EXCEPT ![c] = Len(Events)]
  /\ conn' = [conn EXCEPT ![c] = Opened(c)]
  /\ UNCHANGED <<stream, arrived, parsed, name, sent, queue, gameVars, ctlVars>>

\* tcp_server's accept handler, no error: remote_endpoint() answers, because the
\* peer is still there or has closed in good order; handle_new_connection adds
\* the connection to the room, starts its first read and re-arms the acceptor.
HandleAccept(c) ==
  /\ IoRuns /\ accepting
  /\ Waiting(c)
  /\ participants' = Append(participants, c)
  /\ since' = [since EXCEPT ![c] = Len(Events)]
  /\ conn' = [conn EXCEPT ![c] = Opened(c)]
  /\ UNCHANGED <<accepting, stream, arrived, parsed, name, sent, queue, gameVars, ctlVars>>

\* The peer went away with a reset while it waited to be accepted: the throwing
\* remote_endpoint() in the log line ends io_.run() with an exception that
\* nobody catches, and std::terminate ends the process.
HandleAcceptVanished(c) ==
  /\ IoRuns /\ accepting
  /\ conn[c] = "vanished"
  /\ io' = "terminated"
  /\ UNCHANGED <<netVars, roomVars, queue, gameVars, shouldRun, main, sigint>>

\* The accept handler, with an error: it logs and does not accept again.
HandleAcceptError ==
  /\ "accept" \in Faults
  /\ IoRuns /\ accepting
  /\ accepting' = FALSE
  /\ UNCHANGED <<conn, stream, arrived, parsed, roomVars, queue, gameVars, ctlVars>>

\* A read handler that takes a frame as soon as its first piece is there.
HandleReadPartial(c, n) ==
  /\ IoRuns
  /\ conn[c] \in {"reading", "hungup"}
  /\ arrived[c] + n <= Segs * Len(stream[c])
  /\ arrived' = [arrived EXCEPT ![c] = @ + n]
  /\ \/ /\ Segs * parsed[c] < arrived[c] + n
        /\ parsed' = [parsed EXCEPT ![c] = @ + 1]
        /\ Dispatch(c, stream[c][parsed[c] + 1])
     \/ /\ Segs * parsed[c] >= arrived[c] + n
        /\ UNCHANGED <<parsed, name, sent, queue>>
  /\ UNCHANGED <<accepting, conn, stream, participants, since, gameVars, ctlVars>>

\* TcpConnection::begin_read's handler, no error: n more pieces reach
\* acc_packet_; handle_receive parses ONE frame if the first is complete,
\* dispatches it, and in any case starts the next read.
HandleRead(c, n) ==
  /\ IoRuns
  /\ conn[c] \in {"reading", "hungup"}
  /\ arrived[c] + n <= Segs * Len(stream[c])
  /\ arrived' = [arrived EXCEPT ![c] = @ + n]
  /\ \/ /\ Segs * (parsed[c] + 1) <= arrived[c] + n
        /\ parsed' = [parsed EXCEPT ![c] = @ + 1]
        /\ Dispatch(c, stream[c][parsed[c] + 1])
     \/ /\ Segs * (parsed[c] + 1) > arrived[c] + n
        /\ UNCHANGED <<parsed, name, sent, queue>>
  /\ UNCHANGED <<accepting, conn, stream, participants, since, gameVars, ctlVars>>

\* The same handler with an error (end of file after everything was read, or a
\* reset that discards the rest): no further read; participants_ is untouched.
HandleReadError(c) ==
  /\ IoRuns
  /\ conn[c] = "hungup"
  /\ conn' = [conn EXCEPT ![c] = "dead"]
  /\ UNCHANGED <<accepting, stream, arrived, parsed, roomVars, queue, gameVars, ctlVars>>

\* The SIGINT handler: should_run.store(false), then io.stop(); the main
\* thread may run between the two.
SignalStore ==
  /\ IoRuns /\ sigint
  /\ shouldRun' = FALSE
  /\ io' = "stopping"
  /\ UNCHANGED <<netVars, roomVars, queue, gameVars, main, sigint>>

\* A handler that clears should_run and leaves the io_service running.
SignalStopForgotten ==
  /\ io = "stopping"
  /\ io' = "running"
  /\ UNCHANGED <<netVars, roomVars, queue, gameVars, shouldRun, main, sigint>>

SignalStop ==
  /\ io = "stopping"
  /\ io' = "stopped"
  /\ UNCHANGED <<netVars, roomVars, queue, gameVars, shouldRun, main, sigint>>

-----------------------------------------------------------------------------
(* game::loop, on the main thread (which dies with the process).           *)

MainAt(from, to) == io # "terminated" /\ main = from /\ main' = to

\* The server is created and starts to accept while io_.run() already runs.
StartServer ==
  /\ MainAt("boot", "test")
  /\ accepting' = TRUE
  /\ UNCHANGED <<conn, stream, arrived, parsed, roomVars, queue, gameVars, shouldRun, io, sigint>>

\* The same when the port is taken: the acceptor's constructor throws through
\* loop() and main(), while io_.run() already runs on the other thread.
StartServerFails ==
  /\ "bind" \in Faults
  /\ MainAt("boot", "boot")
  /\ io' = "terminated"
  /\ UNCHANGED <<netVars, roomVars, queue, gameVars, shouldRun, sigint>>

\* while (should_run)
TestRun ==
  /\ MainAt("test", IF shouldRun THEN "poll" ELSE "join")
  /\ UNCHANGED <<netVars, roomVars, queue, gameVars, shouldRun, io, sigint>>

\* A test of the size that misses a single event.
PollOffByOne ==
  /\ MainAt("poll", IF Len(queue) > 1 THEN "take" ELSE "process")
  /\ UNCHANGED <<netVars, roomVars, queue, gameVars, shouldRun, io, sigint>>

\* queue.size() != 0
Poll ==
  /\ MainAt("poll", IF queue # <<>> THEN "take" ELSE "process")
  /\ UNCHANGED <<netVars, roomVars, queue, gameVars, shouldRun, io, sigint>>

\* A batch taken by copy.
TakeCopy ==
  /\ MainAt("take", "process")
  /\ batch' = queue
  /\ UNCHANGED <<netVars, roomVars, queue, log, shouldRun, io, sigint>>

\* current_commands = queue.empty()
Take ==
  /\ MainAt("take", "process")
  /\ batch' = queue
  /\ queue' = <<>>
  /\ UNCHANGED <<netVars, roomVars, log, shouldRun, io, sigint>>

\* The inner while: it touches nothing but the batch, so it is one step.
Process ==
  /\ MainAt("process", "sleep")
  /\ log' = log \o batch
  /\ batch' = <<>>
  /\ UNCHANGED <<netVars, roomVars, queue, shouldRun, io, sigint>>

Sleep ==
  /\ MainAt("sleep", "test")
  /\ UNCHANGED <<netVars, roomVars, queue, gameVars, shouldRun, io, sigint>>

\* A return that does not wait for the io thread.
JoinIoDetached ==
  /\ MainAt("join", "returned")
  /\ UNCHANGED <<netVars, roomVars, queue, gameVars, shouldRun, io, sigint>>

\* io_thread_.join(), then loop() returns and the queue is destroyed.
JoinIo ==
  /\ MainAt("join", "returned")
  /\ io = "stopped"
  /\ UNCHANGED <<netVars, roomVars, queue, gameVars, shouldRun, io, sigint>>

-----------------------------------------------------------------------------
Environment ==
  \/ \E c \in Conn : Connect(c) \/ ClientSend(c) \/ ClientLeave(c)
  \/ Interrupt

Reading(c) == \E n \in 1 .. Segs * MaxFrames[c] : HandleRead(c, n)
Accepting == \E c \in Conn : HandleAccept(c) \/ HandleAcceptVanished(c)
Signal == SignalStore \/ SignalStop

IoThread ==
  \/ Accepting
  \/ HandleAcceptError
  \/ \E c \in Conn : Reading(c) \/ HandleReadError(c)
  \/ Signal

MainThread ==
  \/ StartServer \/ StartServerFails \/ TestRun \/ Poll \/ Take \/ Process \/ Sleep \/ JoinIo

\* The only states in which nothing is left to do: main() is over.
Over == (main = "returned" \/ io = "terminated") /\ UNCHANGED vars

Next == Environment \/ IoThread \/ MainThread \/ Over

\* The io_service serves every completed operation, the main thread is never
\* blocked but in the join; clients and operator promise nothing.
Fairness ==
  /\ WF_vars(MainThread)
  /\ WF_vars(Signal)
  /\ WF_vars(Accepting)
  /\ \A c \in Conn : WF_vars(Reading(c))

Spec == Init /\ [][Next]_vars
FairSpec == Spec /\ Fairness

-----------------------------------------------------------------------------
(* Safety.                                                                 *)

Named(c) == name[c] # NoName
\* The room holds a connection exactly once from its accept on, also after its
\* client has gone, and a connection has a name or an answer only in the room.
RoomWellFormed ==
  /\ \A i, j \in DOMAIN participants :
       participants[i] = participants[j] => i = j
  /\ \A c \in Conn :
       /\ InRoom(c) <=> conn[c] \in {"reading", "hungup", "dead"}
       /\ Named(c) \/ parsed[c] > 0 \/ sent[c] # <<>> => InRoom(c)

\* A name identifies one player for the whole game, those who left included
\* (find_by_name and the check in JoinHandler::handle).
UniqueNames ==
  \A c, d \in Conn : Named(c) /\ name[c] = name[d] => c = d

\* Every join request that a nameless connection makes is answered: a nack each
\* until the first success, one ack that names the player, and no reply at all
\* after that, whatever the player requests.
JoinReplies ==
  \A c \in Conn :
    LET asked(n) == {k \in 1 .. n : stream[c][k].type = "JOIN_REQUEST"}
        refusals == {p \in DOMAIN sent[c] : sent[c][p].type = "JOIN_NACK"}
        grants == {p \in DOMAIN sent[c] : sent[c][p].type = "JOIN_ACK"}
    IN  IF Named(c)
        THEN \E k \in asked(parsed[c]), p \in grants :
               /\ stream[c][k].name = name[c]
               /\ grants = {p} /\ \A q \in refusals : q < p
               /\ Cardinality(refusals) = Cardinality(asked(k - 1))
        ELSE grants = {} /\ Cardinality(refusals) = Cardinality(asked(parsed[c]))

\* What the game gets of a player is what the player sent: from the join request
\* that was granted on, every frame, once, in the order sent, and under the
\* name the player holds, although it crosses two threads and three queues.
GameLogFaithful ==
  /\ \A i \in DOMAIN Events :
       LET e == Events[i]  c == e.msg.by
       IN  /\ e.name = name[c]
           /\ e.msg.nr \in 1 .. parsed[c] /\ e.msg = stream[c][e.msg.nr]
  /\ \A i, j \in DOMAIN Events :
       Events[i].msg.by = Events[j].msg.by /\ i < j => Events[i].msg.nr < Events[j].msg.nr
  /\ \A c \in Conn : Named(c) =>
       \E k \in 1 .. parsed[c] :
         /\ stream[c][k].type = "JOIN_REQUEST" /\ stream[c][k].name = name[c]
         /\ \A n \in 1 .. parsed[c] :
              n >= k <=> \E i \in DOMAIN Events : Events[i].msg.by = c /\ Events[i].msg.nr = n

\* The lines that a participant is sent are exactly the chat among the game's
\* events since the participant entered, without the participant's own lines,
\* each once and in the game's order: all participants see the chat in one order.
ChatOrder ==
  \A d \in Conn : InRoom(d) =>
    LET game == Events
        lines == {p \in DOMAIN sent[d] : sent[d][p].type \notin {"JOIN_ACK", "JOIN_NACK"}}
        chat == {i \in since[d] + 1 .. Len(game) :
                   game[i].msg.type = "MESSAGE" /\ game[i].msg.by # d}
    IN  /\ {sent[d][p] : p \in lines} = {game[i].msg : i \in chat}
        /\ \A p \in lines, i \in chat : sent[d][p] = game[i].msg =>
             \A q \in lines, j \in chat : sent[d][q] = game[j].msg => (p < q <=> i < j)

\* The queue and the room outlive their users: once loop() has returned, and its
\* local queue is gone, no handler of the io thread runs any more.
NoUseAfterReturn ==
  [][main = "returned" => UNCHANGED <<accepting, arrived, parsed, roomVars, queue, io>>]_vars

\* A player's name never changes: the join handler is out of reach after it.
NameOnce == [][\A c \in Conn : Named(c) => name'[c] = name[c]]_vars

\* Sockets, pieces, the io thread, the event queue and the main loop together are
\* the chat service that module Chat describes: each handler's step is one step
\* of it, and what the main loop does to the queue is none.
Room ==
  INSTANCE Chat WITH members <- {c \in Conn : InRoom(c)}, heard <- parsed,
                     said <- Events, inbox <- sent
ImplementsChat == Room!Spec

-----------------------------------------------------------------------------
(* Liveness, under FairSpec.                                               *)

\* After a SIGINT the main thread returns, unless std::terminate came first.
ShutdownCompletes == sigint ~> (main = "returned" \/ io = "terminated")

Going == ~sigint /\ io # "terminated"

\* The acceptor is re-armed by every connection it takes: nobody waits for ever
\* (a failing accept is the exception: see HandleAcceptError).
ConnectionsAccepted ==
  \A c \in Conn : conn[c] = "backlog" ~> (conn[c] # "backlog" \/ ~Going)

\* Every event the io thread pushes is processed by the main loop, whatever the
\* order of push, size() and empty().
EventsProcessed ==
  \A c \in Conn : \A k \in 1 .. MaxFrames[c] :
    LET In(s) == \E i \in DOMAIN s : s[i].msg.by = c /\ s[i].msg.nr = k
    IN  In(Events) ~> (In(log) \/ ~Going)

\* handler.h:126-128: the network threads push the players' commands to the
\* queue of the main thread.  It takes one command per read, so that the last
\* ones of a burst stay in acc_packet_.
CommandsReachGame ==
  \A c \in Conn : \A k \in 1 .. MaxFrames[c] :
    (conn[c] = "reading" /\ Named(c) /\ Len(stream[c]) >= k)
      ~> (parsed[c] >= k \/ conn[c] \in {"hungup", "dead"} \/ ~Going)

=============================================================================
