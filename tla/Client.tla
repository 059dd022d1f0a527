------------------------------- MODULE Client -------------------------------
(***************************************************************************)
(* The quizzbot client: the main thread (client/main.cc with the keyboard  *)
(* and the chat panel of ui.cc) and the network thread in io_service.run() *)
(* (tcp_client.cc).  They share the event queue of received messages and   *)
(* the handlers that send() posts.  Queue and post are atomic (EventQueue; *)
(* the io_service's own lock), and so is a handler.                        *)
(*                                                                         *)
(* A message is whole on the wire: the pieces are the business of module   *)
(* FrameStream.  What LineParser makes of a line is one of three kinds.    *)
(* The server is what module Server promises of it.                        *)
(***************************************************************************)
EXTENDS Naturals, Sequences

CONSTANTS
  Endpoints,  \* how many addresses the resolver returns
  MaxLines,   \* bound: lines that the user enters
  MaxSaid     \* bound: the server relays chat until it has said this much

ASSUME ClientAssumption ==
  /\ Endpoints \in Nat \ {0}
  /\ MaxLines \in Nat
  /\ MaxSaid \in Nat

VARIABLES
  net,      \* what the network thread waits for
  left,     \* endpoints that were not tried yet
  posted,   \* messages whose send() handler has not run
  stuck,    \* writes started on a socket that is still connecting
  written,  \* what went out on the connection
  wire,     \* what the server sent and the client has not read
  aggr,     \* aggr_packet_
  queue,    \* the event_queue<Message>
  batch,    \* current_commands
  main,     \* control state of the main thread
  phase,    \* which of the two polling loops: "join", "gui"
  shown,    \* the chat lines of others in the chat panel
  typed,    \* history: what the user gave to send()
  said,     \* history: what the server sent
  since,    \* history: how much of it was taken when the user interface began
  up        \* the server holds the connection

netVars  == <<net, left, posted, stuck, written>>
readVars == <<aggr, queue>>
mainVars == <<batch, main, phase, shown, typed, since>>
peerVars == <<wire, said, up>>
vars == <<netVars, readVars, mainVars, peerVars>>

Join == [type |-> "JOIN_REQUEST", nr |-> 0]
Ack == [type |-> "JOIN_ACK", nr |-> 0]
Nack == [type |-> "JOIN_NACK", nr |-> 0]
Garbage == [type |-> "NONE", nr |-> 0]      \* bytes of a buffer that was freed
Line(kind, k) == [type |-> kind, nr |-> k]
IsChat(m) == m.type = "MESSAGE"

Outgoing == {Join} \cup [type : {"MESSAGE", "ANSWER"}, nr : Nat]
Incoming == {Ack, Nack} \cup [type : {"MESSAGE"}, nr : Nat]

TypeOK ==
  /\ net \in {"resolving", "connecting", "reading", "broken", "ended"}
  /\ left \in 0 .. Endpoints - 1
  /\ posted \in Seq(Outgoing)
  /\ stuck \in Seq(Outgoing)
  /\ written \in Seq(Outgoing \cup {Garbage})
  /\ wire \in Seq(Incoming)
  /\ aggr \in Seq(Incoming)
  /\ queue \in Seq(Incoming)
  /\ batch \in Seq(Incoming)
  /\ main \in {"name", "poll", "take", "batch", "keyboard", "stop", "join",
               "returned", "terminated"}
  /\ phase \in {"join", "gui"}
  /\ shown \in Seq(Incoming)
  /\ typed \in Seq(Outgoing)
  /\ Len(typed) <= MaxLines + 1 /\ (main = "name" => typed = <<>>)
  /\ said \in Seq(Incoming)
  /\ Len(batch) + Len(queue) + Len(aggr) + Len(wire) <= Len(said)
  /\ since \in Nat
  /\ up \in BOOLEAN

\* The constructor of tcp_client has started to resolve; the thread runs.
Init ==
  /\ net = "resolving" /\ left = 0
  /\ posted = <<>> /\ stuck = <<>> /\ written = <<>>
  /\ wire = <<>> /\ aggr = <<>> /\ queue = <<>> /\ batch = <<>>
  /\ main = "name" /\ phase = "join"
  /\ shown = <<>> /\ typed = <<>>
  /\ said = <<>> /\ since = 0
  /\ up = FALSE

-----------------------------------------------------------------------------
(* Handlers on the network thread.  stop() lets no further one begin.      *)
Stopped == main \in {"join", "returned"}
Runs == ~Stopped /\ net # "ended" /\ main # "terminated"

\* handle_resolve
Resolved ==
  /\ Runs /\ net = "resolving"
  /\ net' = "connecting" /\ left' = Endpoints - 1
  /\ UNCHANGED <<posted, stuck, written, readVars, mainVars, peerVars>>

ResolveFailed ==
  /\ Runs /\ net = "resolving"
  /\ net' = "broken"
  /\ UNCHANGED <<left, posted, stuck, written, readVars, mainVars, peerVars>>

\* handle_connect, no error.  The writes that waited behind the connect in the
\* reactor are now done, from buffers that died when send()'s handler returned.
Connected ==
  /\ Runs /\ net = "connecting"
  /\ net' = "reading"
  /\ up' = TRUE
  /\ \E garbled \in SUBSET DOMAIN stuck :
       written' = written \o [i \in DOMAIN stuck |->
                                IF i \in garbled THEN Garbage ELSE stuck[i]]
  /\ stuck' = <<>>
  /\ UNCHANGED <<left, posted, readVars, mainVars, wire, said>>

\* A comparison that goes one past the last endpoint.
ConnectRefusedPastEnd ==
  /\ Runs /\ net = "connecting"
  /\ left' = left - 1
  /\ stuck' = <<>>
  /\ UNCHANGED <<net, posted, written, readVars, mainVars, peerVars>>

\* handle_connect with an error: the next endpoint, or none; the writes fail.
ConnectRefused ==
  /\ Runs /\ net = "connecting"
  /\ \/ left > 0 /\ left' = left - 1 /\ UNCHANGED net
     \/ left = 0 /\ net' = "broken" /\ UNCHANGED left
  /\ stuck' = <<>>
  /\ UNCHANGED <<posted, written, readVars, mainVars, peerVars>>

\* A handler that takes the newest post first.
RunPostedLast ==
  /\ Runs /\ posted # <<>>
  /\ posted' = SubSeq(posted, 1, Len(posted) - 1)
  /\ \/ net = "reading" /\ written' = Append(written, posted[Len(posted)]) /\ UNCHANGED stuck
     \/ net = "connecting" /\ stuck' = Append(stuck, posted[Len(posted)]) /\ UNCHANGED written
     \/ net \in {"resolving", "broken"} /\ UNCHANGED <<stuck, written>>
  /\ UNCHANGED <<net, left, readVars, mainVars, peerVars>>

\* The handler that send() posts: async_write.  On the connection the whole
\* packet goes out at once (what a user types fits the socket's buffer); a
\* socket that is closed or broken reports an error, and the message is gone.
RunPosted ==
  /\ Runs /\ posted # <<>>
  /\ posted' = Tail(posted)
  /\ \/ net = "reading" /\ written' = Append(written, Head(posted)) /\ UNCHANGED stuck
     \/ net = "connecting" /\ stuck' = Append(stuck, Head(posted)) /\ UNCHANGED written
     \/ net \in {"resolving", "broken"} /\ UNCHANGED <<stuck, written>>
  /\ UNCHANGED <<net, left, readVars, mainVars, peerVars>>

\* A read handler that empties aggr_packet_ whenever it has found a message.
ReadClears(n) ==
  /\ Runs /\ net = "reading"
  /\ LET got == aggr \o SubSeq(wire, 1, n)
     IN  queue' = Append(queue, Head(got)) /\ aggr' = <<>>
  /\ wire' = SubSeq(wire, n + 1, Len(wire))
  /\ UNCHANGED <<netVars, mainVars, said, up>>

\* begin_read's handler and handle_read: n more messages are in aggr_packet_,
\* ONE is parsed and pushed.
Read(n) ==
  /\ Runs /\ net = "reading"
  /\ LET got == aggr \o SubSeq(wire, 1, n)
     IN  queue' = Append(queue, Head(got)) /\ aggr' = Tail(got)
  /\ wire' = SubSeq(wire, n + 1, Len(wire))
  /\ UNCHANGED <<netVars, mainVars, said, up>>

\* The same handler with an error: no further read.
ReadError ==
  /\ Runs /\ net = "reading" /\ ~up
  /\ net' = "broken"
  /\ UNCHANGED <<left, posted, stuck, written, readVars, mainVars, peerVars>>

\* run() returns: stopped, or out of work (nothing is posted or outstanding).
RunReturns ==
  /\ net # "ended" /\ main # "terminated"
  /\ Stopped \/ (net = "broken" /\ posted = <<>>)
  /\ net' = "ended"
  /\ UNCHANGED <<left, posted, stuck, written, readVars, mainVars, peerVars>>

-----------------------------------------------------------------------------
(* main().                                                                 *)
MainAt(from, to) == main = from /\ main' = to

Send(m) == posted' = Append(posted, m) /\ typed' = Append(typed, m)

\* The user has given a name: send(join_msg).
GiveName ==
  /\ MainAt("name", "poll")
  /\ Send(Join)
  /\ UNCHANGED <<net, left, stuck, written, readVars, batch, phase, shown, since, peerVars>>

\* A test of the size that misses a single message.
PollOffByOne ==
  /\ MainAt("poll", IF Len(queue) > 1 THEN "take" ELSE "batch")
  /\ UNCHANGED <<netVars, readVars, batch, phase, shown, typed, since, peerVars>>

\* queue.size() != 0, in both loops.
Poll ==
  /\ MainAt("poll", IF queue # <<>> THEN "take" ELSE "batch")
  /\ UNCHANGED <<netVars, readVars, batch, phase, shown, typed, since, peerVars>>

\* current_commands = queue.empty()
Take ==
  /\ MainAt("take", "batch")
  /\ batch' = queue
  /\ queue' = <<>>
  /\ UNCHANGED <<netVars, aggr, phase, shown, typed, since, peerVars>>

\* The join loop before the ack: what is no answer is passed over.
JoinPass ==
  /\ phase = "join" /\ main = "batch"
  /\ batch # <<>> /\ Head(batch) \notin {Ack, Nack}
  /\ batch' = Tail(batch)
  /\ UNCHANGED <<netVars, readVars, main, phase, shown, typed, since, peerVars>>

JoinAgain ==
  /\ phase = "join" /\ batch = <<>>
  /\ MainAt("batch", "poll")
  /\ UNCHANGED <<netVars, readVars, batch, phase, shown, typed, since, peerVars>>

\* The ack ends both loops: the rest of the batch goes with them.  set_name, the
\* user interface and its first update follow.
JoinGranted ==
  /\ phase = "join" /\ batch # <<>> /\ Head(batch) = Ack
  /\ MainAt("batch", "poll")
  /\ phase' = "gui"
  /\ batch' = <<>>
  /\ since' = Len(said) - (Len(queue) + Len(aggr) + Len(wire))
  /\ UNCHANGED <<netVars, readVars, shown, typed, peerVars>>

\* A nack: main returns and destroys a thread that is joinable: std::terminate.
JoinDenied ==
  /\ phase = "join" /\ batch # <<>> /\ Head(batch) = Nack
  /\ MainAt("batch", "terminated")
  /\ UNCHANGED <<netVars, readVars, batch, phase, shown, typed, since, peerVars>>

\* The inner loop of the user interface: a chat line goes to the panel.
ShowHead ==
  /\ phase = "gui" /\ main = "batch"
  /\ batch # <<>>
  /\ shown' = IF IsChat(Head(batch)) THEN Append(shown, Head(batch)) ELSE shown
  /\ batch' = Tail(batch)
  /\ UNCHANGED <<netVars, readVars, main, phase, typed, since, peerVars>>

ShownAll ==
  /\ phase = "gui" /\ batch = <<>>
  /\ MainAt("batch", "keyboard")
  /\ UNCHANGED <<netVars, readVars, batch, phase, shown, typed, since, peerVars>>

\* handle_keyboard: no key, an editing key, TAB, or Enter in a line that is an
\* error send nothing; then the loop's test.
KeyOther ==
  /\ MainAt("keyboard", "poll")
  /\ UNCHANGED <<netVars, readVars, batch, phase, shown, typed, since, peerVars>>

\* Enter in a chat line or an answer.
KeyEnter ==
  /\ MainAt("keyboard", "poll")
  /\ Len(typed) <= MaxLines
  /\ \E kind \in {"MESSAGE", "ANSWER"} : Send(Line(kind, Len(typed)))
  /\ UNCHANGED <<net, left, stuck, written, readVars, batch, phase, shown, since, peerVars>>

\* Escape: should_run_ is false, the loop ends.
KeyEscape ==
  /\ MainAt("keyboard", "stop")
  /\ UNCHANGED <<netVars, readVars, batch, phase, shown, typed, since, peerVars>>

\* An end that joins without stopping the io_service.
StopForgotten ==
  /\ main = "stop" /\ net = "ended"
  /\ main' = "join"
  /\ UNCHANGED <<netVars, readVars, batch, phase, shown, typed, since, peerVars>>

\* io_service.stop()
Stop ==
  /\ MainAt("stop", "join")
  /\ UNCHANGED <<netVars, readVars, batch, phase, shown, typed, since, peerVars>>

\* network_thread.join(), and the end of main.
JoinThread ==
  /\ net = "ended"
  /\ MainAt("join", "returned")
  /\ UNCHANGED <<netVars, readVars, batch, phase, shown, typed, since, peerVars>>

-----------------------------------------------------------------------------
(* The server, reduced to what one client may see of it; QuizzBot checks that the *)
(* real one keeps to this (ServesClient).  Everybody who is connected is sent the *)
(* chat, named or not.                                                            *)
Says(m) == wire' = Append(wire, m) /\ said' = Append(said, m)

\* A chat line is known by its place in what the server says.
ServerChat ==
  /\ up /\ Len(said) < MaxSaid
  /\ Says(Line("MESSAGE", Len(said) + 1))
  /\ UNCHANGED <<netVars, readVars, mainVars, up>>

\* A join request that came through is answered once.
ServerAnswer ==
  /\ up
  /\ \E i \in DOMAIN written : written[i] = Join
  /\ \A i \in DOMAIN said : said[i] \notin {Ack, Nack}
  /\ Says(Ack) \/ Says(Nack)
  /\ UNCHANGED <<netVars, readVars, mainVars, up>>

ServerGone ==
  /\ up
  /\ up' = FALSE
  /\ UNCHANGED <<netVars, readVars, mainVars, wire, said>>

-----------------------------------------------------------------------------
ReadAny == \E n \in 1 .. Len(wire) : Read(n)

NetThread ==
  \/ Resolved \/ ResolveFailed
  \/ Connected \/ ConnectRefused
  \/ RunPosted \/ ReadAny \/ ReadError
  \/ RunReturns

JoinLoop == JoinPass \/ JoinAgain \/ JoinGranted \/ JoinDenied
Keyboard == KeyOther \/ KeyEnter \/ KeyEscape
MainThread == Poll \/ Take \/ JoinLoop \/ ShowHead \/ ShownAll \/ Keyboard \/ Stop \/ JoinThread

Server == ServerChat \/ ServerAnswer \/ ServerGone

Over == main \in {"returned", "terminated"} /\ UNCHANGED vars

Next == GiveName \/ MainThread \/ NetThread \/ Server \/ Over

\* Both threads run; run() serves what is posted and what the socket has.  The
\* user and the server owe nothing.
Fairness ==
  /\ WF_vars(MainThread)
  /\ WF_vars(RunPosted)
  /\ WF_vars(ReadAny)
  /\ WF_vars(RunReturns)

Spec == Init /\ [][Next]_vars
FairSpec == Spec /\ Fairness

-----------------------------------------------------------------------------
\* What the user sends goes out in order, once, the join request first, and
\* while the connection lasts nothing of it is lost, although it crosses from
\* the main thread to the network thread.  Only the request itself can come to
\* grief, when it is sent before the socket is connected (handle_connect), and
\* then the user interface never begins.
OutboxInOrder ==
  /\ phase = "join" => Len(written \o stuck \o posted) <= 1
  /\ phase = "gui" => written # <<>> /\ written = SubSeq(typed, 1, Len(written))
  /\ phase = "gui" /\ net = "reading" => written \o posted = typed

\* What the panel shows of the others' chat is what the server said since the
\* user interface began, up to what is on its way through the socket,
\* aggr_packet_, the queue and the batch: no gaps, no repetition, one order.
\* Only what came before the ack or in one batch with it is not shown.
PanelShowsChat ==
  LET ahead == batch \o queue \o aggr \o wire
      taken == Len(said) - Len(ahead)
  IN  /\ ahead = SubSeq(said, taken + 1, Len(said))
      /\ phase = "gui" =>
           /\ \E i \in 1 .. since : said[i] = Ack
           /\ {shown[i].nr : i \in DOMAIN shown}
                = {k \in since + 1 .. taken : IsChat(said[k])}
           /\ \A i, j \in DOMAIN shown : i < j => shown[i].nr < shown[j].nr

\* The ack that was parsed starts the user interface: the join loop polls until
\* it has seen it, whatever comes before it (main.cc:37-57).
AckStartsGui == (\E i \in DOMAIN queue : queue[i] = Ack) ~> phase = "gui"

\* Escape ends the program: stop() makes run() return, whatever the network
\* thread is about to do, and the join comes back (main.cc:85-86).
QuitCompletes == main = "stop" ~> main = "returned"

=============================================================================
