------------------------------ MODULE QuizzBot ------------------------------
(***************************************************************************)
(* The whole program: the server (module Server) and one client process    *)
(* per connection.  The client is the one of module Client, reduced to     *)
(* what crosses the wire: it names itself, waits for the answer in its     *)
(* join loop, then shows chat and sends lines (client/main.cc); a read     *)
(* parses one message (client/tcp_client.cc).  What a client's send() puts *)
(* on the connection, and that it is in order, is OutboxInOrder of Client. *)
(***************************************************************************)
EXTENDS Server

CONSTANTS
  Wanted,  \* bound: Wanted[c] are the names that c's user may give
  After,   \* bound: c's user starts when those in After[c] are in the chat
  Entered  \* bound: the types of message that a user's lines make

ASSUME QuizzBotAssumption ==
  /\ Wanted \in [Conn -> SUBSET (Name \cup {NoName})]
  /\ After \in [Conn -> SUBSET Conn]
  /\ Entered \subseteq {"MESSAGE", "ANSWER"}

VARIABLES
  user,   \* how far each client's main() is
  asked,  \* the name it asked for
  came,   \* pieces of what it was sent that its reads have moved to aggr_packet_
  taken,  \* messages parse() has taken out of it and pushed to the queue
  seen,   \* messages of the queue that the main thread has taken
  shown   \* the chat lines in its panel

clientVars == <<user, asked, came, taken, seen, shown>>
allVars == <<vars, clientVars>>

SystemInit ==
  /\ Init
  /\ user = [c \in Conn |-> "out"]
  /\ asked = [c \in Conn |-> NoName]
  /\ came = [c \in Conn |-> 0]
  /\ taken = [c \in Conn |-> 0]
  /\ seen = [c \in Conn |-> 0]
  /\ shown = [c \in Conn |-> <<>>]

Alive(c) == user[c] \in {"naming", "joining", "chatting"}

ClientTypeOK ==
  /\ user \in [Conn -> {"out", "naming", "joining", "chatting", "denied", "gone"}]
  /\ asked \in [Conn -> Name \cup {NoName}]
  /\ \A c \in Conn :
       /\ came[c] \in 0 .. Segs * Len(sent[c])
       /\ taken[c] \in 0 .. came[c] \div Segs
       /\ seen[c] \in 0 .. taken[c]
       /\ Len(shown[c]) <= seen[c]
       /\ Alive(c) <=> conn[c] \in {"backlog", "reading"}

\* What a loop over s that picks the messages of some types has after n of them.
OfType(s, types) ==
  LET picked[n \in 0 .. Len(s)] ==
        IF n = 0 THEN <<>>
        ELSE IF s[n].type \in types THEN Append(picked[n - 1], s[n]) ELSE picked[n - 1]
  IN  picked[Len(s)]

-----------------------------------------------------------------------------
(* The client's actions.                                                   *)
Becomes(c, state) == user' = [user EXCEPT ![c] = state]

\* The program is started, and the connection is made while the user is asked
\* for a name.
ClientStart(c) ==
  /\ \A d \in After[c] : user[d] = "chatting"
  /\ Connect(c)
  /\ Becomes(c, "naming")
  /\ UNCHANGED <<asked, came, taken, seen, shown>>

\* std::cin >> name, and send(join_msg); at the end of the input it is empty.
ClientJoin(c, n) ==
  /\ user[c] = "naming"
  /\ ClientSends(c, <<"JOIN_REQUEST", n>>)
  /\ Becomes(c, "joining")
  /\ asked' = [asked EXCEPT ![c] = n]
  /\ UNCHANGED <<came, taken, seen, shown>>

\* Enter in a line that is chat or an answer.
ClientSay(c, type) ==
  /\ user[c] = "chatting"
  /\ ClientSends(c, <<type, NoName>>)
  /\ UNCHANGED clientVars

\* Escape, or the end of the client at any other time.
ClientQuit(c) ==
  /\ Alive(c)
  /\ ClientLeave(c)
  /\ Becomes(c, "gone")
  /\ UNCHANGED <<asked, came, taken, seen, shown>>

\* A handler that takes a message of which only the first piece is there.
ClientReadPartial(c, n) ==
  /\ Alive(c)
  /\ came[c] + n <= Segs * Len(sent[c])
  /\ came' = [came EXCEPT ![c] = @ + n]
  /\ taken' = IF Segs * taken[c] < came[c] + n
              THEN [taken EXCEPT ![c] = @ + 1] ELSE taken
  /\ UNCHANGED <<vars, user, asked, seen, shown>>

\* begin_read's handler: n more pieces, then handle_read parses one message if
\* the first one is complete.
ClientRead(c, n) ==
  /\ Alive(c)
  /\ came[c] + n <= Segs * Len(sent[c])
  /\ came' = [came EXCEPT ![c] = @ + n]
  /\ taken' = IF Segs * (taken[c] + 1) <= came[c] + n
              THEN [taken EXCEPT ![c] = @ + 1] ELSE taken
  /\ UNCHANGED <<vars, user, asked, seen, shown>>

\* What queue.empty() returns.
Unseen(c) == SubSeq(sent[c], seen[c] + 1, taken[c])

\* The first message of a batch that is an answer to the join request.
FirstAnswer(c, m) ==
  \E i \in DOMAIN Unseen(c) :
    /\ Unseen(c)[i] = m
    /\ \A j \in 1 .. i - 1 : Unseen(c)[j] \notin {Ack, Nack}

SeeAll(c) == seen[c] < taken[c] /\ seen' = [seen EXCEPT ![c] = taken[c]]

\* The join loop: what is no answer is passed over.
JoinWaits(c) ==
  /\ user[c] = "joining"
  /\ SeeAll(c)
  /\ ~FirstAnswer(c, Ack) /\ ~FirstAnswer(c, Nack)
  /\ UNCHANGED <<vars, user, asked, came, taken, shown>>

\* A loop that takes any message but a nack for the grant.
JoinGrantedByChat(c) ==
  /\ user[c] = "joining"
  /\ SeeAll(c)
  /\ ~FirstAnswer(c, Nack)
  /\ Becomes(c, "chatting")
  /\ UNCHANGED <<vars, asked, came, taken, shown>>

\* The ack starts the user interface; the rest of the batch is dropped.
JoinGranted(c) ==
  /\ user[c] = "joining"
  /\ SeeAll(c)
  /\ FirstAnswer(c, Ack)
  /\ Becomes(c, "chatting")
  /\ UNCHANGED <<vars, asked, came, taken, shown>>

\* A nack that ends the batch and not the process.
JoinDeniedStays(c) ==
  /\ user[c] = "joining"
  /\ SeeAll(c)
  /\ FirstAnswer(c, Nack)
  /\ UNCHANGED <<vars, user, asked, came, taken, shown>>

\* The nack ends the process, and with it the connection.
JoinDenied(c) ==
  /\ user[c] = "joining"
  /\ SeeAll(c)
  /\ FirstAnswer(c, Nack)
  /\ Becomes(c, "denied")
  /\ HangUp(c)
  /\ UNCHANGED <<asked, came, taken, shown>>

\* A loop that looks at the newest message of a batch only.
ShowBatchNewest(c) ==
  /\ user[c] = "chatting"
  /\ SeeAll(c)
  /\ LET newest == SubSeq(sent[c], taken[c], taken[c])
     IN  shown' = [shown EXCEPT ![c] = @ \o OfType(newest, {"MESSAGE"})]
  /\ UNCHANGED <<vars, user, asked, came, taken>>

\* The loop of the user interface: chat lines go to the panel.
ShowBatch(c) ==
  /\ user[c] = "chatting"
  /\ SeeAll(c)
  /\ shown' = [shown EXCEPT ![c] = @ \o OfType(Unseen(c), {"MESSAGE"})]
  /\ UNCHANGED <<vars, user, asked, came, taken>>

-----------------------------------------------------------------------------
ClientReading(c) == \E n \in 1 .. Segs * Len(sent[c]) : ClientRead(c, n)
ClientMain(c) == JoinWaits(c) \/ JoinGranted(c) \/ JoinDenied(c) \/ ShowBatch(c)

Client(c) ==
  \/ ClientStart(c)
  \/ \E n \in Wanted[c] : ClientJoin(c, n)
  \/ \E type \in Entered : ClientSay(c, type)
  \/ ClientQuit(c)
  \/ ClientReading(c)
  \/ ClientMain(c)

ServerStep == (Interrupt \/ IoThread \/ MainThread) /\ UNCHANGED clientVars

SystemNext ==
  \/ \E c \in Conn : Client(c)
  \/ ServerStep
  \/ Over /\ UNCHANGED clientVars

\* The server's two threads, and both threads of every client.
SystemFairness ==
  /\ WF_allVars(MainThread /\ UNCHANGED clientVars)
  /\ WF_allVars(Signal /\ UNCHANGED clientVars)
  /\ WF_allVars(Accepting /\ UNCHANGED clientVars)
  /\ \A c \in Conn :
       /\ WF_allVars(Reading(c) /\ UNCHANGED clientVars)
       /\ WF_allVars(ClientReading(c))
       /\ WF_allVars(ClientMain(c))

SystemSpec == SystemInit /\ [][SystemNext]_allVars
FairSystemSpec == SystemSpec /\ SystemFairness

-----------------------------------------------------------------------------
\* A client that shows its user interface holds, on the server, the name that
\* its user asked for, and nobody else does; one that was refused holds none; a
\* user who waits can only be given the name that was asked for.
NamesAgree ==
  \A c \in Conn :
    /\ user[c] \in {"out", "naming", "denied"} => name[c] = NoName
    /\ user[c] = "joining" => name[c] \in {NoName, asked[c]}
    /\ user[c] = "chatting" =>
         /\ name[c] = asked[c] /\ name[c] # NoName
         /\ \A d \in Conn \ {c} : name[d] # asked[c]

\* Every panel shows one stretch, without gaps, of the one conversation that the
\* game records, but for the user's own lines: two users who both see two lines
\* see them in the same order, and neither misses one in between, although the
\* lines cross four threads, two sockets and a queue.
OneConversation ==
  \A c \in Conn :
    LET game == Events
    IN  \E from, to \in 0 .. Len(game) :
          LET stretch == {i \in DOMAIN game : /\ from <= i /\ i <= to
                                              /\ game[i].msg.type = "MESSAGE"
                                              /\ game[i].msg.by # c}
          IN  /\ {shown[c][k] : k \in DOMAIN shown[c]} = {game[i].msg : i \in stretch}
              /\ \A k \in DOMAIN shown[c], i \in stretch : shown[c][k] = game[i].msg =>
                   \A l \in DOMAIN shown[c], j \in stretch :
                     shown[c][l] = game[j].msg => (k < l <=> i < j)

\* What module Client assumes of the server: it says one thing at a time to a
\* connection, a line of somebody else's or the one answer to the join request
\* that came on it.
ServesClient ==
  [][ \A c \in Conn : sent'[c] # sent[c] =>
        LET m == sent'[c][Len(sent'[c])]
        IN  /\ sent'[c] = Append(sent[c], m)
            /\ \/ m.type = "MESSAGE" /\ m.by # c
               \/ /\ m \in {Ack, Nack}
                  /\ \E k \in DOMAIN stream[c] : stream[c][k].type = "JOIN_REQUEST"
                  /\ \A p \in DOMAIN sent[c] : sent[c][p] \notin {Ack, Nack} ]_allVars

\* All that the client was sent has come, but parse() has not got to all of it:
\* nothing more happens until the server sends something else.
LeftInBuffer(c) == taken[c] < Len(sent[c]) /\ came[c] = Segs * Len(sent[c])

\* A user who has given a name gets to the chat or is turned away: the request
\* is read, answered, and the answer found by the join loop.  The answer may
\* stay in aggr_packet_ if it came with a chat line in one read.
JoinAnswered ==
  \A c \in Conn :
    user[c] = "joining" ~> (user[c] # "joining" \/ LeftInBuffer(c) \/ ~Going)

=============================================================================
