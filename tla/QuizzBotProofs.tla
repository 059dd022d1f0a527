---------------------------- MODULE QuizzBotProofs ----------------------------
(***************************************************************************)
(* Who is who, on both sides, and what the clients may assume of the       *)
(* server: for any connections, names, pieces and bounds.                  *)
(***************************************************************************)
EXTENDS QuizzBot, ServerProofs, CommonLemmas

USE ServerAssumption, QuizzBotAssumption DEF ServerAssumption, QuizzBotAssumption

(***************************************************************************)
(* On a connection there is one join request, the first frame, with the    *)
(* name that was asked for; a user who chats has been sent the ack, and    *)
(* one who was denied a nack.                                              *)
(***************************************************************************)

UserTypes ==
  /\ user \in [Conn -> {"out", "naming", "joining", "chatting", "denied", "gone"}]
  /\ asked \in [Conn -> Name \cup {NoName}]
  /\ came \in [Conn -> Nat] /\ taken \in [Conn -> Nat] /\ seen \in [Conn -> Nat]

Pieces ==
  \A c \in Conn : Segs * taken[c] <= came[c] /\ came[c] <= Segs * Len(sent[c])

OneRequest ==
  \A c \in Conn :
    /\ conn[c] = "none" => stream[c] = <<>>
    /\ user[c] \in {"out", "naming"} => stream[c] = <<>>
    /\ \A k \in DOMAIN stream[c] :
         stream[c][k].type = "JOIN_REQUEST" => k = 1 /\ stream[c][k].name = asked[c]

Answers ==
  \A c \in Conn :
    /\ user[c] = "chatting" => Grants(sent[c]) # {}
    /\ user[c] = "denied" => Refusals(sent[c]) # {}

SystemInv == ChatInv /\ JoinReplies /\ UserTypes /\ Pieces /\ OneRequest /\ Answers

(***************************************************************************)
(* The server's part.                                                      *)
(***************************************************************************)

\* A client that hangs up changes nothing else on the server.
LEMMA HangUpServer ==
  ASSUME ChatInv, JoinReplies, NEW c \in Conn, HangUp(c)
  PROVE  ChatInv' /\ JoinReplies'
<1>1. UNCHANGED <<accepting, stream, arrived, parsed, participants, name, sent, since,
                  queue, batch, log, shouldRun, io, main, sigint>>
  BY DEF HangUp, roomVars, gameVars, ctlVars
<1>2. /\ conn' \in [Conn -> {"none", "backlog", "vanished", "reading", "hungup", "dead"}]
      /\ \A d \in Conn : \/ conn'[d] = conn[d]
                         \/ conn[d] = "backlog" /\ conn'[d] = "vanished"
                         \/ conn[d] = "reading" /\ conn'[d] = "hungup"
  <2>1. conn \in [Conn -> {"none", "backlog", "vanished", "reading", "hungup", "dead"}]
    BY DEF ChatInv, RoomInv, TypeOK
  <2> QED
    BY <2>1 DEF HangUp
<1>3. TypeOK'
  BY <1>1, <1>2 DEF ChatInv, RoomInv, TypeOK
<1>4. RoomWellFormed' /\ UniqueNames'
  <2>1. \A d \in Conn : conn'[d] \in {"reading", "hungup", "dead"}
                         <=> conn[d] \in {"reading", "hungup", "dead"}
    BY <1>2
  <2>2. RoomWellFormed'
    BY <1>1, <2>1 DEF ChatInv, RoomInv, RoomWellFormed, InRoom, Named
  <2> QED
    BY <1>1, <2>2 DEF ChatInv, RoomInv, UniqueNames, Named
<1>5. JoinReplies'
  <2>1. \A d \in Conn :
          /\ name'[d] # NoName => Granted(stream'[d], parsed'[d], name'[d], sent'[d])
          /\ name'[d] = NoName => Refused(stream'[d], parsed'[d], sent'[d])
    BY <1>1, JoinRepliesSplit
  <2> QED
    BY <2>1, ZenonT(60) DEF JoinReplies, Named, Granted, Refused, Asked, Refusals, Grants
<1> QED
  BY <1>1, <1>3, <1>4, <1>5 DEF ChatInv, RoomInv, BatchInv, FrameInv

\* A step of the system is a step of the server, or a client hangs up.
LEMMA SystemStep ==
  ASSUME [SystemNext]_allVars
  PROVE  [Next]_vars \/ \E c \in Conn : HangUp(c)
<1>1. CASE UNCHANGED allVars
  BY <1>1 DEF allVars
<1>2. ASSUME NEW c \in Conn, Client(c) PROVE [Next]_vars \/ HangUp(c)
  <2>1. CASE ClientStart(c)
    BY <2>1 DEF ClientStart, Next, Environment
  <2>2. CASE \E n \in Wanted[c] : ClientJoin(c, n)
    <3>1. PICK n \in Wanted[c] : ClientJoin(c, n)
      BY <2>2
    <3>2. n \in Name \cup {NoName}
      OBVIOUS
    <3>3. <<"JOIN_REQUEST", n>> \in Requests
      BY <3>2 DEF Requests
    <3> QED
      BY <3>1, <3>3 DEF ClientJoin, ClientSend, Next, Environment
  <2>3. CASE \E type \in {"MESSAGE", "ANSWER"} : ClientSay(c, type)
    <3>1. PICK type \in {"MESSAGE", "ANSWER"} : ClientSay(c, type)
      BY <2>3
    <3>2. <<type, NoName>> \in Requests
      BY DEF Requests
    <3> QED
      BY <3>1, <3>2 DEF ClientSay, ClientSend, Next, Environment
  <2>4. CASE ClientQuit(c)
    BY <2>4 DEF ClientQuit, ClientLeave
  <2>5. CASE ClientReading(c) \/ JoinWaits(c) \/ JoinGranted(c) \/ ShowBatch(c)
    BY <2>5 DEF ClientReading, ClientRead, JoinWaits, JoinGranted, ShowBatch
  <2>6. CASE JoinDenied(c)
    BY <2>6 DEF JoinDenied
  <2> QED
    BY <1>2, <2>1, <2>2, <2>3, <2>4, <2>5, <2>6 DEF Client, ClientMain
<1>3. CASE ServerStep
  BY <1>3 DEF ServerStep, Next, Environment
<1>4. CASE Over
  BY <1>4 DEF Over
<1> QED
  BY <1>1, <1>2, <1>3, <1>4 DEF SystemNext

LEMMA ServerPart ==
  ASSUME ChatInv, JoinReplies, [SystemNext]_allVars
  PROVE  ChatInv' /\ JoinReplies'
<1>1. CASE [Next]_vars
  <2>1. RoomInv'
    BY <1>1, NextRoom DEF ChatInv
  <2>2. BatchInv' /\ FrameInv'
    BY <1>1, BatchInductive, FrameInductive DEF ChatInv, RoomInv
  <2> QED
    BY <1>1, <2>1, <2>2, NextReplies DEF ChatInv
<1>2. CASE \E c \in Conn : HangUp(c)
  BY <1>2, HangUpServer
<1> QED
  BY <1>1, <1>2, SystemStep

\* What a connection is sent is added at the end, one message in a step, by a
\* read of some connection's frame.
LEMMA SentGrows ==
  ASSUME ChatInv, [SystemNext]_allVars, NEW c \in Conn
  PROVE  \/ sent'[c] = sent[c]
         \/ \E x \in Messages : sent'[c] = Append(sent[c], x)
<1>1. sent \in [Conn -> Seq(Messages)]
  BY DEF ChatInv, RoomInv, TypeOK
<1>2. CASE sent' = sent
  BY <1>2
<1>3. ASSUME NEW d \in Conn, NEW m \in Frames, Handled(d, m)
      PROVE  \/ sent'[c] = sent[c]
             \/ \E x \in Messages : sent'[c] = Append(sent[c], x)
  <2>1. m \in Messages /\ Room!Ack \in Messages /\ Room!Nack \in Messages
    BY DEF Messages, Ack, Nack, Room!Ack, Room!Nack
  <2> QED
    BY <1>1, <1>3, <2>1 DEF Handled, Room!Ignore, Room!Refuse, Room!Grant, Room!Say, Room!Reply
<1>4. CASE [Next]_vars
  BY <1>2, <1>3, <1>4, StepCases, ReadCases
<1>5. CASE \E d \in Conn : HangUp(d)
  BY <1>2, <1>5 DEF HangUp, roomVars
<1> QED
  BY <1>4, <1>5, SystemStep

\* Nothing that was sent goes away.
LEMMA SentStays ==
  ASSUME ChatInv, [SystemNext]_allVars, NEW c \in Conn
  PROVE  /\ sent[c] \in Seq(Messages) /\ Len(sent[c]) \in Nat /\ Len(sent'[c]) \in Nat
         /\ Len(sent[c]) <= Len(sent'[c])
         /\ Grants(sent[c]) \subseteq Grants(sent'[c])
         /\ Refusals(sent[c]) \subseteq Refusals(sent'[c])
<1>1. sent[c] \in Seq(Messages) /\ Len(sent[c]) \in Nat /\ DOMAIN sent[c] = 1 .. Len(sent[c])
  BY LenProperties DEF ChatInv, RoomInv, TypeOK
<1>2. CASE sent'[c] = sent[c]
  BY <1>1, <1>2
<1>3. ASSUME NEW x \in Messages, sent'[c] = Append(sent[c], x)
      PROVE  /\ Len(sent'[c]) = Len(sent[c]) + 1
             /\ Grants(sent[c]) \subseteq Grants(sent'[c])
             /\ Refusals(sent[c]) \subseteq Refusals(sent'[c])
  <2> DEFINE s == sent[c]
             t == Append(s, x)
  <2>1. /\ Len(t) = Len(s) + 1 /\ DOMAIN t = 1 .. Len(s) + 1
        /\ \A i \in 1 .. Len(s) : t[i] = s[i]
    BY <1>1, AppendFacts
  <2> HIDE DEF t
  <2>2. Grants(s) \subseteq Grants(t) /\ Refusals(s) \subseteq Refusals(t)
    BY <1>1, <2>1 DEF Grants, Refusals
  <2> QED
    BY <1>3, <2>1, <2>2 DEF t
<1> QED
  BY <1>1, <1>2, <1>3, SentGrows

(***************************************************************************)
(* The clients' part.                                                      *)
(***************************************************************************)

\* The server sends no frame of a client's, opens no connection, and ends none
\* that its client has not left.
ServerQuietly ==
  /\ stream' = stream
  /\ \A c \in Conn : /\ conn'[c] = "none" => conn[c] = "none"
                     /\ conn'[c] \in {"backlog", "reading"} <=> conn[c] \in {"backlog", "reading"}

LEMMA ServerQuiet ==
  ASSUME TypeOK, Interrupt \/ IoThread \/ MainThread
  PROVE  ServerQuietly
<1>1. stream' = stream
  BY DEF Interrupt, IoThread, Accepting, HandleAccept, HandleAcceptVanished, HandleAcceptError,
      Reading, HandleRead, HandleReadError, Signal, SignalStore, SignalStop,
      MainThread, StartServer, StartServerFails, TestRun, Poll, Take, Process, Sleep, JoinIo, netVars
<1>2. conn \in [Conn -> {"none", "backlog", "vanished", "reading", "hungup", "dead"}]
  BY DEF TypeOK
<1>3. \/ conn' = conn
      \/ \E d \in Conn : conn[d] = "backlog" /\ conn' = [conn EXCEPT ![d] = "reading"]
      \/ \E d \in Conn : conn[d] = "vanished" /\ conn' = [conn EXCEPT ![d] = "hungup"]
      \/ \E d \in Conn : conn[d] = "hungup" /\ conn' = [conn EXCEPT ![d] = "dead"]
  BY DEF Interrupt, IoThread, Accepting, HandleAccept, Waiting, Opened, HandleAcceptVanished,
      HandleAcceptError, Reading, HandleRead, HandleReadError, Signal, SignalStore, SignalStop,
      MainThread, StartServer, StartServerFails, TestRun, Poll, Take, Process, Sleep, JoinIo, netVars
<1> QED
  BY <1>1, <1>2, <1>3 DEF ServerQuietly

\* What a step may do to the clients and to what they have sent.
LEMMA ClientCases ==
  ASSUME TypeOK, [SystemNext]_allVars
  PROVE  \/ UNCHANGED clientVars /\ ServerQuietly
         \/ \E c \in Conn : ClientStart(c)
         \/ \E c \in Conn : \E n \in Wanted[c] : ClientJoin(c, n)
         \/ \E c \in Conn : \E type \in {"MESSAGE", "ANSWER"} : ClientSay(c, type)
         \/ \E c \in Conn : ClientQuit(c)
         \/ \E c \in Conn : ClientReading(c)
         \/ \E c \in Conn : ClientMain(c)
<1>1. CASE UNCHANGED allVars
  BY <1>1 DEF allVars, vars, netVars, ServerQuietly
<1>2. CASE ServerStep
  BY <1>2, ServerQuiet DEF ServerStep
<1>3. CASE Over /\ UNCHANGED clientVars
  BY <1>3 DEF Over, vars, netVars, ServerQuietly
<1>4. CASE \E c \in Conn : Client(c)
  BY <1>4 DEF Client
<1> QED
  BY <1>1, <1>2, <1>3, <1>4 DEF SystemNext

LEMMA TypesKept ==
  ASSUME TypeOK, UserTypes, [SystemNext]_allVars
  PROVE  UserTypes'
<1>1. CASE UNCHANGED clientVars
  BY <1>1 DEF UserTypes, clientVars
<1>2. ASSUME NEW c \in Conn, ClientStart(c) \/ ClientQuit(c)
      PROVE  UserTypes'
  BY <1>2 DEF UserTypes, ClientStart, ClientQuit, Becomes
<1>3. ASSUME NEW c \in Conn, NEW n \in Wanted[c], ClientJoin(c, n)
      PROVE  UserTypes'
  <2>1. n \in Name \cup {NoName}
    OBVIOUS
  <2> QED
    BY <1>3, <2>1 DEF UserTypes, ClientJoin, Becomes
<1>4. ASSUME NEW c \in Conn, NEW type, ClientSay(c, type)
      PROVE  UserTypes'
  BY <1>1, <1>4 DEF ClientSay
<1>5. ASSUME NEW c \in Conn, NEW n \in 1 .. Segs * Len(sent[c]), ClientRead(c, n)
      PROVE  UserTypes'
  <2>1. sent[c] \in Seq(Messages) /\ Segs * Len(sent[c]) \in Nat
    BY LenProperties DEF TypeOK
  <2>2. n \in Nat
    BY <2>1
  <2>3. UNCHANGED <<user, asked, seen>> /\ came' = [came EXCEPT ![c] = @ + n]
    BY <1>5 DEF ClientRead
  <2>4. taken' = taken \/ taken' = [taken EXCEPT ![c] = @ + 1]
    BY <1>5 DEF ClientRead
  <2>5. came \in [Conn -> Nat] /\ taken \in [Conn -> Nat]
    BY DEF UserTypes
  <2>6. came' \in [Conn -> Nat]
    BY <2>2, <2>3, <2>5
  <2>8. taken[c] + 1 \in Nat
    BY <2>5
  <2>7. taken' \in [Conn -> Nat]
    BY <2>4, <2>5, <2>8
  <2> QED
    BY <2>3, <2>6, <2>7 DEF UserTypes
<1>6. ASSUME NEW c \in Conn, ClientMain(c)
      PROVE  UserTypes'
  <2>1. /\ UNCHANGED <<asked, came, taken>> /\ seen' = [seen EXCEPT ![c] = taken[c]]
        /\ \/ user' = user
           \/ \E state \in {"chatting", "denied"} : user' = [user EXCEPT ![c] = state]
    BY <1>6 DEF ClientMain, JoinWaits, JoinGranted, JoinDenied, ShowBatch, SeeAll, Becomes
  <2> QED
    BY <2>1 DEF UserTypes
<1> QED
  BY <1>1, <1>2, <1>3, <1>4, <1>5, <1>6, ClientCases DEF ClientReading

LEMMA Scale ==
  ASSUME NEW s \in Nat, NEW a \in Nat, NEW b \in Nat, a <= b
  PROVE  s * a \in Nat /\ s * b \in Nat /\ s * a <= s * b
<1>1. PICK d \in Nat : b = a + d
  <2>1. b - a \in Nat /\ b = a + (b - a)
    OBVIOUS
  <2> QED
    BY <2>1
<1>2. s * b = s * a + s * d
  BY <1>1
<1>3. s * d \in Nat /\ s * a \in Nat
  OBVIOUS
<1> QED
  BY <1>2, <1>3

LEMMA PiecesKept ==
  ASSUME ChatInv, UserTypes, Pieces, [SystemNext]_allVars
  PROVE  Pieces'
<1>1. TypeOK
  BY DEF ChatInv, RoomInv
<1>2. ASSUME NEW c \in Conn
      PROVE  Segs * Len(sent[c]) \in Nat /\ Segs * Len(sent'[c]) \in Nat
             /\ Segs * Len(sent[c]) <= Segs * Len(sent'[c])
  <2> DEFINE a == Len(sent[c])
             b == Len(sent'[c])
  <2>1. a \in Nat /\ b \in Nat /\ a <= b
    BY SentStays
  <2>2. Segs \in Nat
    OBVIOUS
  <2> HIDE DEF a, b
  <2>3. Segs * a \in Nat /\ Segs * b \in Nat /\ Segs * a <= Segs * b
    BY <2>1, <2>2, Scale
  <2> QED
    BY <2>3 DEF a, b
<1>3. ASSUME UNCHANGED <<came, taken>>
      PROVE  Pieces'
  <2> SUFFICES ASSUME NEW c \in Conn
               PROVE  Segs * taken[c] <= came[c] /\ came[c] <= Segs * Len(sent'[c])
    BY <1>3 DEF Pieces
  <2>1. /\ Segs * taken[c] <= came[c] /\ came[c] <= Segs * Len(sent[c]) /\ came[c] \in Nat
    BY DEF Pieces, UserTypes
  <2> DEFINE x == Segs * Len(sent[c])
             y == Segs * Len(sent'[c])
  <2>2. x \in Nat /\ y \in Nat /\ x <= y /\ came[c] <= x
    BY <1>2, <2>1
  <2> HIDE DEF x, y
  <2>3. came[c] <= y
    BY <2>1, <2>2
  <2> QED
    BY <2>1, <2>3 DEF y
<1>4. ASSUME NEW d \in Conn, NEW n \in 1 .. Segs * Len(sent[d]), ClientRead(d, n)
      PROVE  Pieces'
  <2>1. sent' = sent
    BY <1>4 DEF ClientRead, vars, roomVars
  <2>2. /\ came[d] + n <= Segs * Len(sent[d])
        /\ came' = [came EXCEPT ![d] = came[d] + n]
        /\ taken' = IF Segs * (taken[d] + 1) <= came[d] + n
                    THEN [taken EXCEPT ![d] = taken[d] + 1] ELSE taken
    BY <1>4 DEF ClientRead
  <2> SUFFICES ASSUME NEW c \in Conn
               PROVE  Segs * taken'[c] <= came'[c] /\ came'[c] <= Segs * Len(sent[c])
    BY <2>1 DEF Pieces
  <2>3. CASE c # d
    <3>1. taken'[c] = taken[c] /\ came'[c] = came[c]
      BY <2>2, <2>3 DEF UserTypes
    <3> QED
      BY <3>1 DEF Pieces
  <2>4. CASE c = d
    <3>1. came'[d] = came[d] + n
      BY <2>2 DEF UserTypes
    <3>2. CASE Segs * (taken[d] + 1) <= came[d] + n
      <4>1. taken'[d] = taken[d] + 1
        BY <2>2, <3>2 DEF UserTypes
      <4> QED
        BY <2>2, <2>4, <3>1, <3>2, <4>1
    <3>3. CASE ~(Segs * (taken[d] + 1) <= came[d] + n)
      <4>1. taken'[d] = taken[d]
        BY <2>2, <3>3
      <4>2. Segs * taken[d] <= came[d] /\ came[d] \in Nat /\ taken[d] \in Nat
        BY DEF Pieces, UserTypes
      <4>3. Segs * taken[d] \in Nat /\ n \in Nat
        BY <1>2, <4>2
      <4> QED
        BY <2>2, <2>4, <3>1, <4>1, <4>2, <4>3
    <3> QED
      BY <3>2, <3>3
  <2> QED
    BY <2>3, <2>4
<1>5. ASSUME NEW c \in Conn,
             \/ ClientStart(c) \/ (\E n \in Wanted[c] : ClientJoin(c, n))
             \/ (\E type \in {"MESSAGE", "ANSWER"} : ClientSay(c, type))
             \/ ClientQuit(c) \/ ClientMain(c)
      PROVE  UNCHANGED <<came, taken>>
  BY <1>5 DEF ClientStart, ClientJoin, ClientSay, ClientQuit, ClientMain, JoinWaits, JoinGranted,
              JoinDenied, ShowBatch, clientVars
<1> QED
  BY <1>1, <1>3, <1>4, <1>5, ClientCases DEF ClientReading, clientVars

LEMMA RequestsKept ==
  ASSUME TypeOK, UserTypes, OneRequest, [SystemNext]_allVars
  PROVE  OneRequest'
<1>1. /\ stream \in [Conn -> Seq(Frames)]
      /\ user \in [Conn -> {"out", "naming", "joining", "chatting", "denied", "gone"}]
      /\ conn \in [Conn -> {"none", "backlog", "vanished", "reading", "hungup", "dead"}]
      /\ asked \in [Conn -> Name \cup {NoName}]
  BY DEF TypeOK, UserTypes
<1>2. ASSUME UNCHANGED <<stream, asked>>,
             \A c \in Conn : /\ conn'[c] = "none" => conn[c] = "none"
                             /\ user'[c] \in {"out", "naming"} =>
                                  user[c] \in {"out", "naming"} \/ conn[c] = "none"
      PROVE  OneRequest'
  BY <1>2 DEF OneRequest
<1>3. ASSUME NEW c \in Conn, ClientStart(c) PROVE OneRequest'
  <2>1. /\ UNCHANGED <<stream, asked>> /\ conn[c] = "none"
        /\ conn' = [conn EXCEPT ![c] = "backlog"] /\ user' = [user EXCEPT ![c] = "naming"]
    BY <1>3 DEF ClientStart, Connect, Becomes
  <2> QED
    BY <1>1, <1>2, <2>1
<1>4. ASSUME NEW c \in Conn, NEW n \in Wanted[c], ClientJoin(c, n) PROVE OneRequest'
  <2> DEFINE f == Frame(c, Len(stream[c]) + 1, "JOIN_REQUEST", n)
  <2>1. /\ conn[c] # "none" /\ conn' = conn /\ user[c] = "naming"
        /\ stream' = [stream EXCEPT ![c] = Append(@, f)]
        /\ user' = [user EXCEPT ![c] = "joining"] /\ asked' = [asked EXCEPT ![c] = n]
    BY <1>4 DEF ClientJoin, ClientSends, Becomes
  <2>2. stream[c] = <<>> /\ f.name = n
    BY <2>1 DEF OneRequest, Frame
  <2> HIDE DEF f
  <2>3. stream'[c] = <<f>>
    BY <1>1, <2>1, <2>2
  <2>4. \A d \in Conn : d # c => /\ stream'[d] = stream[d] /\ user'[d] = user[d]
                                 /\ asked'[d] = asked[d]
    BY <1>1, <2>1
  <2>5. user'[c] = "joining" /\ asked'[c] = n
    BY <1>1, <2>1
  <2>6. \A k \in DOMAIN stream'[c] : k = 1 /\ stream'[c][k].name = n
    BY <2>2, <2>3
  <2> QED
    BY <2>1, <2>4, <2>5, <2>6 DEF OneRequest
<1>5. ASSUME NEW c \in Conn, NEW type \in {"MESSAGE", "ANSWER"}, ClientSay(c, type) PROVE OneRequest'
  <2> DEFINE f == Frame(c, Len(stream[c]) + 1, type, NoName)
  <2>1. /\ conn[c] # "none" /\ conn' = conn /\ user[c] = "chatting"
        /\ stream' = [stream EXCEPT ![c] = Append(@, f)]
        /\ UNCHANGED <<user, asked>>
    BY <1>5 DEF ClientSay, ClientSends, clientVars
  <2>2. f \in Frames /\ f.type # "JOIN_REQUEST"
    BY <1>1, LenProperties DEF Frame, Frames
  <2> HIDE DEF f
  <2>3. \A d \in Conn : d # c => stream'[d] = stream[d]
    BY <1>1, <2>1
  <2>4. stream'[c] = Append(stream[c], f) /\ stream[c] \in Seq(Frames)
    BY <1>1, <2>1
  <2>5. \A k \in DOMAIN stream'[c] : stream'[c][k].type = "JOIN_REQUEST" =>
          k \in DOMAIN stream[c] /\ stream'[c][k] = stream[c][k]
    BY <2>2, <2>4, AppendFacts
  <2>6. \A k \in DOMAIN stream'[c] :
          stream'[c][k].type = "JOIN_REQUEST" => k = 1 /\ stream'[c][k].name = asked[c]
    BY <2>5 DEF OneRequest
  <2> QED
    BY <2>1, <2>3, <2>6 DEF OneRequest
<1>6. ASSUME NEW c \in Conn, ClientQuit(c) PROVE OneRequest'
  <2>1. /\ UNCHANGED <<stream, asked>> /\ user' = [user EXCEPT ![c] = "gone"]
        /\ \A d \in Conn : conn'[d] = "none" => conn[d] = "none"
    BY <1>1, <1>6 DEF ClientQuit, ClientLeave, HangUp, Becomes
  <2> QED
    BY <1>1, <1>2, <2>1
<1>7. ASSUME NEW c \in Conn, ClientReading(c) PROVE OneRequest'
  BY <1>2, <1>7 DEF ClientReading, ClientRead, vars, netVars
<1>8. ASSUME NEW c \in Conn, ClientMain(c) PROVE OneRequest'
  <2>1. /\ UNCHANGED <<stream, asked>>
        /\ \/ user' = user
           \/ user' = [user EXCEPT ![c] = "chatting"]
           \/ user' = [user EXCEPT ![c] = "denied"]
    BY <1>8 DEF ClientMain, JoinWaits, JoinGranted, JoinDenied, ShowBatch, Becomes, HangUp,
                vars, netVars
  <2>2. \A d \in Conn : conn'[d] = "none" => conn[d] = "none"
    BY <1>1, <1>8 DEF ClientMain, JoinWaits, JoinGranted, JoinDenied, ShowBatch, HangUp,
                      vars, netVars
  <2> QED
    BY <1>1, <1>2, <2>1, <2>2
<1>9. CASE UNCHANGED clientVars /\ ServerQuietly
  BY <1>2, <1>9 DEF clientVars, ServerQuietly
<1> QED
  BY <1>3, <1>4, <1>5, <1>6, <1>7, <1>8, <1>9, ClientCases

\* The reads take no more messages than were sent.
LEMMA TakenSent ==
  ASSUME TypeOK, UserTypes, Pieces, NEW c \in Conn
  PROVE  taken[c] <= Len(sent[c])
<1> DEFINE a == taken[c]
           b == Len(sent[c])
<1>1. a \in Nat /\ b \in Nat /\ came[c] \in Nat
  BY LenProperties DEF TypeOK, UserTypes
<1>2. Segs * a <= came[c] /\ came[c] <= Segs * b
  BY DEF Pieces
<1>3. Segs * a \in Nat /\ Segs * b \in Nat
  BY <1>1
<1> HIDE DEF a, b
<1>4. Segs * a <= Segs * b
  <2> DEFINE x == Segs * a
             y == Segs * b
  <2>1. x \in Nat /\ y \in Nat /\ x <= came[c] /\ came[c] <= y
    BY <1>2, <1>3
  <2> HIDE DEF x, y
  <2>2. x <= y
    BY <1>1, <2>1
  <2> QED
    BY <2>2 DEF x, y
<1>5. a <= b
  BY <1>1, <1>4, Cancel
<1> QED
  BY <1>5 DEF a, b

\* What the main thread finds in its queue was sent.
LEMMA AnswerSent ==
  ASSUME TypeOK, UserTypes, Pieces, NEW c \in Conn, NEW m, FirstAnswer(c, m)
  PROVE  \E p \in DOMAIN sent[c] : sent[c][p] = m
<1>1. /\ sent[c] \in Seq(Messages) /\ Len(sent[c]) \in Nat /\ DOMAIN sent[c] = 1 .. Len(sent[c])
      /\ \A p \in 1 .. Len(sent[c]) : sent[c][p] \in Messages
  BY LenProperties, ElementOfSeq DEF TypeOK
<1>2. seen[c] \in Nat /\ taken[c] \in Nat
  BY DEF UserTypes
<1>3. taken[c] <= Len(sent[c])
  BY TakenSent
<1> DEFINE from == seen[c] + 1
           to == taken[c]
<1>4. \A i \in from .. to : sent[c][i] \in Messages /\ i \in DOMAIN sent[c]
  BY <1>1, <1>2, <1>3
<1>5. /\ Unseen(c) \in Seq(Messages)
      /\ Len(Unseen(c)) = IF from <= to THEN to - from + 1 ELSE 0
      /\ \A i \in 1 .. to - from + 1 : Unseen(c)[i] = sent[c][from + i - 1]
  BY <1>2, <1>4, SubSeqProperties DEF Unseen
<1>6. PICK i \in DOMAIN Unseen(c) : Unseen(c)[i] = m
  BY DEF FirstAnswer
<1>7. DOMAIN Unseen(c) = 1 .. Len(Unseen(c))
  BY <1>5, LenProperties
<1>8. i \in 1 .. to - from + 1 /\ from + i - 1 \in from .. to
  BY <1>2, <1>5, <1>6, <1>7
<1> QED
  BY <1>4, <1>5, <1>6, <1>8

LEMMA AnswersKept ==
  ASSUME ChatInv, UserTypes, Pieces, Answers, [SystemNext]_allVars
  PROVE  Answers'
<1>1. TypeOK /\ user \in [Conn -> {"out", "naming", "joining", "chatting", "denied", "gone"}]
  BY DEF ChatInv, RoomInv, UserTypes
<1>2. \A c \in Conn : /\ Grants(sent[c]) \subseteq Grants(sent'[c])
                      /\ Refusals(sent[c]) \subseteq Refusals(sent'[c])
  BY SentStays
<1>3. ASSUME \A c \in Conn : /\ user'[c] = "chatting" => user[c] = "chatting" \/ Grants(sent[c]) # {}
                             /\ user'[c] = "denied" => user[c] = "denied" \/ Refusals(sent[c]) # {}
      PROVE  Answers'
  BY <1>2, <1>3 DEF Answers
<1>4. CASE user' = user
  BY <1>3, <1>4
<1>5. ASSUME NEW c \in Conn, NEW s \in {"naming", "joining", "gone"}, Becomes(c, s)
      PROVE  Answers'
  BY <1>1, <1>3, <1>5 DEF Becomes
<1>6. ASSUME NEW c \in Conn, JoinGranted(c) PROVE Answers'
  <2>1. PICK p \in DOMAIN sent[c] : sent[c][p] = Ack
    BY <1>1, <1>6, AnswerSent DEF JoinGranted
  <2>2. Grants(sent[c]) # {}
    BY <2>1 DEF Grants, Ack
  <2> QED
    BY <1>1, <1>3, <1>6, <2>2 DEF JoinGranted, Becomes
<1>7. ASSUME NEW c \in Conn, JoinDenied(c) PROVE Answers'
  <2>1. PICK p \in DOMAIN sent[c] : sent[c][p] = Nack
    BY <1>1, <1>7, AnswerSent DEF JoinDenied
  <2>2. Refusals(sent[c]) # {}
    BY <2>1 DEF Refusals, Nack
  <2> QED
    BY <1>1, <1>3, <1>7, <2>2 DEF JoinDenied, Becomes
<1>8. CASE \E c \in Conn : ClientStart(c) \/ ClientQuit(c) \/ \E n \in Wanted[c] : ClientJoin(c, n)
  BY <1>5, <1>8 DEF ClientStart, ClientQuit, ClientJoin
<1>9. CASE \E c \in Conn : ClientReading(c) \/ \E type \in {"MESSAGE", "ANSWER"} : ClientSay(c, type)
  BY <1>4, <1>9 DEF ClientReading, ClientRead, ClientSay, clientVars
<1>10. CASE \E c \in Conn : ClientMain(c)
  BY <1>4, <1>6, <1>7, <1>10 DEF ClientMain, JoinWaits, ShowBatch
<1>11. CASE UNCHANGED clientVars
  BY <1>4, <1>11 DEF clientVars
<1> QED
  BY <1>1, <1>8, <1>9, <1>10, <1>11, ClientCases

LEMMA SpecSystemInv == SystemSpec => []SystemInv
<1>1. SystemInit => ChatInv /\ JoinReplies
  BY InitChat, InitReplies DEF SystemInit
<1>2. SystemInit => UserTypes /\ Pieces /\ OneRequest /\ Answers
  <2> SUFFICES ASSUME SystemInit PROVE UserTypes /\ Pieces /\ OneRequest /\ Answers
    OBVIOUS
  <2>1. \A c \in Conn : /\ user[c] = "out" /\ stream[c] = <<>> /\ sent[c] = <<>>
                        /\ came[c] = 0 /\ taken[c] = 0
    BY DEF SystemInit, Init
  <2>2. UserTypes
    BY DEF SystemInit, UserTypes
  <2> QED
    BY <2>1, <2>2 DEF Pieces, OneRequest, Answers
<1>3. SystemInv /\ [SystemNext]_allVars => SystemInv'
  <2>1. ChatInv => TypeOK
    BY DEF ChatInv, RoomInv
  <2> QED
    BY <2>1, ServerPart, TypesKept, PiecesKept, RequestsKept, AnswersKept DEF SystemInv
<1>4. SystemInit => SystemInv
  BY <1>1, <1>2 DEF SystemInv
<1> QED
  BY <1>3, <1>4, PTL DEF SystemSpec

(***************************************************************************)
(* The theorems.                                                           *)
(***************************************************************************)

LEMMA NoneRefused ==
  ASSUME TypeOK, NEW c \in Conn, NEW t, Cardinality(Refusals(sent[c])) = Cardinality(Asked(t, 0))
  PROVE  Refusals(sent[c]) = {}
<1>1. DOMAIN sent[c] = 1 .. Len(sent[c]) /\ Len(sent[c]) \in Nat
  BY LenProperties DEF TypeOK
<1>2. IsFiniteSet(1 .. Len(sent[c]))
  BY <1>1, FiniteInitial, Zenon
<1>3. IsFiniteSet(Refusals(sent[c]))
  <2>1. Refusals(sent[c]) \subseteq 1 .. Len(sent[c])
    BY <1>1 DEF Refusals
  <2> QED
    BY <1>2, <2>1, FS_Subset
<1>4. Asked(t, 0) = {}
  BY DEF Asked
<1> QED
  BY <1>3, <1>4, FS_EmptySet

LEMMA NamedAsked ==
  ASSUME SystemInv, NEW c \in Conn, name[c] # NoName
  PROVE  name[c] = asked[c] /\ stream[c] # <<>> /\ Refusals(sent[c]) = {}
<1>1. TypeOK
  BY DEF SystemInv, ChatInv, RoomInv
<1>2. Granted(stream[c], parsed[c], name[c], sent[c])
  BY JoinRepliesSplit DEF SystemInv
<1>3. PICK k \in Asked(stream[c], parsed[c]) :
        /\ stream[c][k].name = name[c]
        /\ Cardinality(Refusals(sent[c])) = Cardinality(Asked(stream[c], k - 1))
  BY <1>2 DEF Granted
<1>4. k \in 1 .. parsed[c] /\ stream[c][k].type = "JOIN_REQUEST"
  BY <1>3 DEF Asked
<1>5. k \in DOMAIN stream[c]
  <2>1. parsed[c] \in Nat /\ Len(stream[c]) \in Nat /\ parsed[c] <= Len(stream[c])
    BY <1>1, ParsedSent
  <2>2. DOMAIN stream[c] = 1 .. Len(stream[c])
    BY <1>1, LenProperties DEF TypeOK
  <2> QED
    BY <1>4, <2>1, <2>2
<1>6. k = 1 /\ stream[c][k].name = asked[c]
  BY <1>4, <1>5 DEF SystemInv, OneRequest
<1>7. Refusals(sent[c]) = {}
  BY <1>1, <1>3, <1>6, NoneRefused
<1> QED
  BY <1>3, <1>5, <1>6, <1>7

\* handler.h:57-80, client/main.cc:35-60: server and client agree on who is who.
THEOREM ClientsAreNamed == SystemSpec => []NamesAgree
<1>1. SystemInv => NamesAgree
  <2> SUFFICES ASSUME SystemInv, NEW c \in Conn
               PROVE  /\ user[c] \in {"out", "naming", "denied"} => name[c] = NoName
                      /\ user[c] = "joining" => name[c] \in {NoName, asked[c]}
                      /\ user[c] = "chatting" =>
                           /\ name[c] = asked[c] /\ name[c] # NoName
                           /\ \A d \in Conn \ {c} : name[d] # asked[c]
    BY DEF NamesAgree
  <2>1. CASE user[c] \in {"out", "naming"}
    BY <2>1, NamedAsked DEF SystemInv, OneRequest
  <2>2. CASE user[c] = "denied"
    BY <2>2, NamedAsked DEF SystemInv, Answers
  <2>3. CASE user[c] = "joining"
    BY <2>3, NamedAsked
  <2>4. CASE user[c] = "chatting"
    <3>1. name[c] # NoName
      BY <2>4, JoinRepliesSplit DEF SystemInv, Answers, Refused
    <3>2. name[c] = asked[c]
      BY <3>1, NamedAsked
    <3>3. \A d \in Conn \ {c} : name[d] # asked[c]
      BY <3>1, <3>2 DEF SystemInv, ChatInv, RoomInv, UniqueNames, Named
    <3> QED
      BY <2>4, <3>1, <3>2, <3>3
  <2> QED
    BY <2>1, <2>2, <2>3, <2>4
<1> QED
  BY <1>1, SpecSystemInv, PTL

\* A nameless connection whose request is taken has had no answer.
LEMMA FirstReply ==
  ASSUME SystemInv, NEW c \in Conn, name[c] = NoName,
         parsed[c] + 1 \in DOMAIN stream[c], stream[c][parsed[c] + 1].type = "JOIN_REQUEST"
  PROVE  \A p \in DOMAIN sent[c] : sent[c][p] \notin {Ack, Nack}
<1>1. TypeOK /\ parsed[c] \in Nat
  BY DEF SystemInv, ChatInv, RoomInv, TypeOK
<1>2. parsed[c] + 1 = 1
  BY DEF SystemInv, OneRequest
<1>3. parsed[c] = 0
  BY <1>1, <1>2
<1>4. Refused(stream[c], 0, sent[c])
  BY <1>3, JoinRepliesSplit DEF SystemInv
<1>5. Grants(sent[c]) = {} /\ Refusals(sent[c]) = {}
  BY <1>1, <1>4, NoneRefused DEF Refused
<1> QED
  BY <1>5 DEF Grants, Refusals, Ack, Nack

\* What the client relies on holds of each message that it is sent.
LEMMA OneAnswer ==
  ASSUME SystemInv, [SystemNext]_allVars, NEW c \in Conn, sent'[c] # sent[c]
  PROVE  \E x \in Messages :
           /\ sent'[c] = Append(sent[c], x)
           /\ \/ x.type = "MESSAGE" /\ x.by # c
              \/ /\ x \in {Ack, Nack}
                 /\ \E k \in DOMAIN stream[c] : stream[c][k].type = "JOIN_REQUEST"
                 /\ \A p \in DOMAIN sent[c] : sent[c][p] \notin {Ack, Nack}
<1>1. ChatInv /\ sent \in [Conn -> Seq(Messages)]
  BY DEF SystemInv, ChatInv, RoomInv, TypeOK
<1>2. [Next]_vars
  BY SystemStep DEF HangUp, roomVars
<1>3. PICK d \in Conn : Reading(d)
  BY <1>1, <1>2, StepCases
<1>4. PICK m \in Frames : /\ parsed[d] + 1 \in DOMAIN stream[d] /\ m = stream[d][parsed[d] + 1]
                          /\ m.by = d /\ Handled(d, m)
  BY <1>1, <1>3, ReadCases
<1>5. m \in Messages /\ Ack \in Messages /\ Nack \in Messages
  BY DEF Messages
<1>6. CASE Room!Refuse(d, m) \/ Room!Grant(d, m)
  <2>1. /\ name[d] = NoName /\ m.type = "JOIN_REQUEST"
        /\ \E x \in {Ack, Nack} : sent' = [sent EXCEPT ![d] = Append(@, x)]
    BY <1>6 DEF Room!Refuse, Room!Grant, Room!Reply, Room!Ack, Room!Nack, Ack, Nack
  <2>2. c = d /\ \E x \in {Ack, Nack} : sent'[c] = Append(sent[c], x)
    BY <1>1, <2>1
  <2>3. \A p \in DOMAIN sent[c] : sent[c][p] \notin {Ack, Nack}
    BY <1>4, <2>1, <2>2, FirstReply
  <2>4. \E k \in DOMAIN stream[c] : stream[c][k].type = "JOIN_REQUEST"
    BY <1>4, <2>1, <2>2
  <2> QED
    BY <1>5, <2>2, <2>3, <2>4
<1>7. CASE Room!Say(d, m)
  <2>1. m.type = "MESSAGE" /\ c # d /\ sent'[c] = Append(sent[c], m)
    BY <1>1, <1>7 DEF Room!Say
  <2> QED
    BY <1>4, <1>5, <2>1
<1>8. CASE Room!Ignore(d, m)
  BY <1>8 DEF Room!Ignore
<1> QED
  BY <1>4, <1>6, <1>7, <1>8 DEF Handled

\* client/main.cc:44-58 against handler.h: the server serves a client as the
\* client expects, one message at a time and one answer.
THEOREM ClientIsServed == SystemSpec => ServesClient
<1>1. ASSUME SystemInv, [SystemNext]_allVars, NEW c \in Conn, sent'[c] # sent[c]
      PROVE  LET m == sent'[c][Len(sent'[c])]
             IN  /\ sent'[c] = Append(sent[c], m)
                 /\ \/ m.type = "MESSAGE" /\ m.by # c
                    \/ /\ m \in {Ack, Nack}
                       /\ \E k \in DOMAIN stream[c] : stream[c][k].type = "JOIN_REQUEST"
                       /\ \A p \in DOMAIN sent[c] : sent[c][p] \notin {Ack, Nack}
  <2>1. PICK x \in Messages :
           /\ sent'[c] = Append(sent[c], x)
           /\ \/ x.type = "MESSAGE" /\ x.by # c
              \/ /\ x \in {Ack, Nack}
                 /\ \E k \in DOMAIN stream[c] : stream[c][k].type = "JOIN_REQUEST"
                 /\ \A p \in DOMAIN sent[c] : sent[c][p] \notin {Ack, Nack}
    BY <1>1, OneAnswer
  <2>2. sent[c] \in Seq(Messages)
    BY <1>1 DEF SystemInv, ChatInv, RoomInv, TypeOK
  <2>3. sent'[c][Len(sent'[c])] = x
    BY <2>1, <2>2, AppendFacts
  <2> QED
    BY <2>1, <2>3
<1>2. SystemInv /\ [SystemNext]_allVars =>
        [ \A c \in Conn : sent'[c] # sent[c] =>
            LET m == sent'[c][Len(sent'[c])]
            IN  /\ sent'[c] = Append(sent[c], m)
                /\ \/ m.type = "MESSAGE" /\ m.by # c
                   \/ /\ m \in {Ack, Nack}
                      /\ \E k \in DOMAIN stream[c] : stream[c][k].type = "JOIN_REQUEST"
                      /\ \A p \in DOMAIN sent[c] : sent[c][p] \notin {Ack, Nack} ]_allVars
  BY <1>1
<1> QED
  BY <1>2, SpecSystemInv, PTL DEF SystemSpec, ServesClient

(***************************************************************************)
(* What a loop picks.  Picks(g, t, s, from, to, types): t is made of the   *)
(* messages of these types at the positions from + 1 to `to` of s, in      *)
(* order; the k-th one is at position g[k].                                *)
(***************************************************************************)

Picks(g, t, s, from, to, types) ==
  /\ \A k \in 1 .. Len(t) : g[k] \in from + 1 .. to /\ t[k] = s[g[k]] /\ s[g[k]].type \in types
  /\ \A k, l \in 1 .. Len(t) : k < l => g[k] < g[l]
  /\ \A p \in from + 1 .. to : s[p].type \in types => \E k \in 1 .. Len(t) : g[k] = p

LEMMA PicksOne ==
  ASSUME NEW S, NEW s, NEW n \in Nat, s[n + 1] \in S, NEW types, s[n + 1].type \in types,
         NEW t \in Seq(S), NEW g, Picks(g, t, s, 0, n, types)
  PROVE  \E h : Picks(h, Append(t, s[n + 1]), s, 0, n + 1, types)
<1> DEFINE u == Append(t, s[n + 1])
           h == [k \in 1 .. Len(t) + 1 |-> IF k = Len(t) + 1 THEN n + 1 ELSE g[k]]
<1>1. /\ Len(t) \in Nat /\ Len(u) = Len(t) + 1 /\ u[Len(t) + 1] = s[n + 1]
      /\ \A k \in 1 .. Len(t) : u[k] = t[k]
  BY AppendFacts
<1>2. h[Len(t) + 1] = n + 1 /\ \A k \in 1 .. Len(t) : h[k] = g[k]
  BY <1>1
<1> HIDE DEF u, h
<1>3. \A k \in 1 .. Len(u) : h[k] \in 1 .. n + 1 /\ u[k] = s[h[k]] /\ s[h[k]].type \in types
  <2> SUFFICES ASSUME NEW k \in 1 .. Len(u)
               PROVE  h[k] \in 1 .. n + 1 /\ u[k] = s[h[k]] /\ s[h[k]].type \in types
    OBVIOUS
  <2>1. CASE k = Len(t) + 1
    BY <1>1, <1>2, <2>1
  <2>2. CASE k \in 1 .. Len(t)
    BY <1>1, <1>2, <2>2 DEF Picks
  <2> QED
    BY <1>1, <2>1, <2>2
<1>4. \A k, l \in 1 .. Len(u) : k < l => h[k] < h[l]
  <2> SUFFICES ASSUME NEW k \in 1 .. Len(u), NEW l \in 1 .. Len(u), k < l PROVE h[k] < h[l]
    OBVIOUS
  <2>1. k \in 1 .. Len(t) /\ h[k] = g[k] /\ g[k] \in 1 .. n
    BY <1>1, <1>2 DEF Picks
  <2>2. CASE l = Len(t) + 1
    BY <1>2, <2>1, <2>2
  <2>3. CASE l \in 1 .. Len(t)
    BY <1>2, <2>1, <2>3 DEF Picks
  <2> QED
    BY <1>1, <2>2, <2>3
<1>5. \A p \in 1 .. n + 1 : s[p].type \in types => \E k \in 1 .. Len(u) : h[k] = p
  <2> SUFFICES ASSUME NEW p \in 1 .. n + 1, s[p].type \in types
               PROVE  \E k \in 1 .. Len(u) : h[k] = p
    OBVIOUS
  <2>1. CASE p = n + 1
    BY <1>1, <1>2, <2>1
  <2>2. CASE p \in 1 .. n
    <3>1. PICK k \in 1 .. Len(t) : g[k] = p
      BY <2>2 DEF Picks
    <3> QED
      BY <1>1, <1>2, <3>1
  <2> QED
    BY <2>1, <2>2
<1>6. Picks(h, u, s, 0, n + 1, types)
  BY <1>3, <1>4, <1>5 DEF Picks
<1> QED
  BY <1>6 DEF u

LEMMA PicksNone ==
  ASSUME NEW S, NEW s, NEW n \in Nat, NEW types, s[n + 1].type \notin types,
         NEW t \in Seq(S), NEW g, Picks(g, t, s, 0, n, types)
  PROVE  Picks(g, t, s, 0, n + 1, types)
<1>1. \A p \in 1 .. n + 1 : s[p].type \in types => p \in 1 .. n
  <2> SUFFICES ASSUME NEW p \in 1 .. n + 1, s[p].type \in types, p = n + 1 PROVE FALSE
    OBVIOUS
  <2> QED
    OBVIOUS
<1>2. \A k \in 1 .. Len(t) : g[k] \in 1 .. n + 1 /\ t[k] = s[g[k]] /\ s[g[k]].type \in types
  BY DEF Picks
<1>3. \A k, l \in 1 .. Len(t) : k < l => g[k] < g[l]
  BY DEF Picks
<1>4. ASSUME NEW p \in 1 .. n + 1, s[p].type \in types PROVE \E k \in 1 .. Len(t) : g[k] = p
  <2>1. p \in 1 .. n
    BY <1>1, <1>4
  <2> QED
    BY <1>4, <2>1 DEF Picks
<1>5. 0 + 1 .. n + 1 = 1 .. n + 1
  OBVIOUS
<1> QED
  BY <1>2, <1>3, <1>4, <1>5, Zenon DEF Picks

LEMMA OfTypePicks ==
  ASSUME NEW S, NEW s \in Seq(S), NEW types
  PROVE  /\ OfType(s, types) \in Seq(S)
         /\ Len(OfType(s, types)) <= Len(s)
         /\ \E g : Picks(g, OfType(s, types), s, 0, Len(s), types)
<1> DEFINE N == Len(s)
           step(n, x) == IF s[n].type \in types THEN Append(x, s[n]) ELSE x
           F == [n \in 1 .. N |-> [x \in Seq(S) |-> step(n, x)]]
           solves(f) == f = [n \in 0 .. N |-> IF n = 0 THEN <<>> ELSE step(n, f[n - 1])]
           picked == CHOOSE f : solves(f)
<1>1. N \in Nat /\ \A n \in 1 .. N : s[n] \in S
  BY LenProperties, ElementOfSeq
<1>2. \A n \in 1 .. N, x \in Seq(S) : step(n, x) \in Seq(S)
  BY <1>1, AppendProperties
<1>3. \A n \in 1 .. N, x \in Seq(S) : F[n][x] = step(n, x)
  OBVIOUS
<1>4. <<>> \in Seq(S)
  OBVIOUS
<1>5. \E f : solves(f)
  <2> HIDE DEF F, step, N
  <2>1. PICK f \in [0 .. N -> Seq(S)] : f[0] = <<>> /\ \A n \in 1 .. N : f[n] = F[n][f[n - 1]]
    <3> DEFINE Q == Seq(S)
    <3>1. StepsIn(F, N, Q)
      BY <1>2, <1>3 DEF StepsIn
    <3>2. <<>> \in Q /\ N \in Nat
      BY <1>1, <1>4
    <3> HIDE DEF Q
    <3>3. \E f \in [0 .. N -> Q] : Iterates(f, F, N, <<>>)
      BY <3>1, <3>2, RecursionExists
    <3> QED
      BY <3>3 DEF Q, Iterates
  <2>2. ASSUME NEW n \in 1 .. N PROVE f[n] = step(n, f[n - 1])
    <3>1. f[n - 1] \in Seq(S)
      BY <1>1, <2>1
    <3> QED
      BY <1>3, <2>1, <3>1
  <2>3. solves(f)
    BY <1>1, <2>1, <2>2
  <2> QED
    BY <2>3
<1>6. solves(picked)
  BY <1>5
<1>0. ASSUME NEW n \in Nat, n + 1 <= N PROVE picked[n + 1] = step(n + 1, picked[n])
  <2> HIDE DEF picked, step, N
  <2>1. n + 1 \in 0 .. N /\ n + 1 # 0 /\ n + 1 - 1 = n
    BY <1>0, <1>1
  <2> DEFINE unfolded(f) == [m \in 0 .. N |-> IF m = 0 THEN <<>> ELSE step(m, f[m - 1])]
  <2>2. ASSUME NEW f PROVE unfolded(f)[n + 1] = step(n + 1, f[n])
    BY <2>1
  <2>3. picked = unfolded(picked)
    BY <1>6
  <2> HIDE DEF unfolded
  <2> QED
    BY <2>2, <2>3
<1>7. OfType(s, types) = picked[N]
  BY DEF OfType
<1> DEFINE Good(n) == /\ picked[n] \in Seq(S) /\ Len(picked[n]) <= n
                      /\ \E g : Picks(g, picked[n], s, 0, n, types)
           T == {n \in Nat : n <= N => Good(n)}
<1> HIDE DEF picked
<1>8. 0 \in T
  <2>1. picked[0] = <<>>
    BY <1>1, <1>6
  <2>2. Good(0)
    BY <1>4, <2>1 DEF Picks
  <2> QED
    BY <2>2
<1>9. ASSUME NEW n \in Nat, n \in T PROVE n + 1 \in T
  <2> SUFFICES ASSUME n + 1 <= N PROVE Good(n + 1)
    OBVIOUS
  <2>1. picked[n + 1] = step(n + 1, picked[n])
    BY <1>0
  <2>2. Good(n) /\ s[n + 1] \in S
    BY <1>1, <1>9
  <2>3. PICK g : Picks(g, picked[n], s, 0, n, types)
    BY <2>2
  <2>4. CASE s[n + 1].type \in types
    <3>1. picked[n + 1] = Append(picked[n], s[n + 1])
      BY <2>1, <2>4
    <3>2. picked[n + 1] \in Seq(S) /\ Len(picked[n + 1]) = Len(picked[n]) + 1 /\ Len(picked[n]) \in Nat
      BY <2>2, <3>1, AppendFacts
    <3>3. \E h : Picks(h, picked[n + 1], s, 0, n + 1, types)
      BY <2>2, <2>3, <2>4, <3>1, PicksOne
    <3> QED
      BY <2>2, <3>2, <3>3
  <2>5. CASE s[n + 1].type \notin types
    <3>1. picked[n + 1] = picked[n]
      BY <2>1, <2>5
    <3>2. Picks(g, picked[n + 1], s, 0, n + 1, types)
      BY <2>2, <2>3, <2>5, <3>1, PicksNone
    <3>3. Len(picked[n]) \in Nat
      BY <2>2, LenProperties
    <3> QED
      BY <2>2, <3>1, <3>2, <3>3
  <2> QED
    BY <2>4, <2>5
<1> HIDE DEF T
<1>10. N \in T
  BY <1>1, <1>8, <1>9, NatInd
<1>11. Good(N)
  BY <1>1, <1>10 DEF T
<1> QED
  BY <1>7, <1>11

\* One batch after another.
LEMMA PicksOn ==
  ASSUME NEW S, NEW s \in Seq(S), NEW types, NEW from \in Nat, NEW mid \in Nat, NEW to \in Nat,
         from <= mid, mid <= to, to <= Len(s),
         NEW t \in Seq(S), NEW g, Picks(g, t, s, from, mid, types),
         NEW b \in Seq(S), Len(b) = to - mid, \A i \in 1 .. to - mid : b[i] = s[mid + i],
         NEW u \in Seq(S), NEW h, Picks(h, u, b, 0, to - mid, types)
  PROVE  \E f : Picks(f, t \o u, s, from, to, types)
<1> DEFINE w == t \o u
           m == Len(t)
           n == Len(u)
           f == [k \in 1 .. m + n |-> IF k <= m THEN g[k] ELSE mid + h[k - m]]
<1>1. /\ m \in Nat /\ n \in Nat /\ Len(w) = m + n
      /\ \A k \in 1 .. m : w[k] = t[k]
      /\ \A k \in m + 1 .. m + n : w[k] = u[k - m]
  BY ConcatProperties, LenProperties
<1>2. /\ \A k \in 1 .. m : f[k] = g[k]
      /\ \A k \in m + 1 .. m + n : f[k] = mid + h[k - m]
  BY <1>1
<1>3. /\ \A k \in 1 .. m : g[k] \in from + 1 .. mid /\ t[k] = s[g[k]] /\ s[g[k]].type \in types
      /\ \A k, l \in 1 .. m : k < l => g[k] < g[l]
      /\ \A p \in from + 1 .. mid : s[p].type \in types => \E k \in 1 .. m : g[k] = p
  BY DEF Picks
<1>4. /\ \A k \in 1 .. n : h[k] \in 1 .. to - mid /\ u[k] = b[h[k]] /\ b[h[k]].type \in types
      /\ \A k, l \in 1 .. n : k < l => h[k] < h[l]
      /\ \A p \in 1 .. to - mid : b[p].type \in types => \E k \in 1 .. n : h[k] = p
  BY DEF Picks
<1> HIDE DEF w, m, n, f
<1>0. from \in Nat /\ mid \in Nat /\ to \in Nat /\ from <= mid /\ mid <= to
  OBVIOUS
<1>5. ASSUME NEW k \in m + 1 .. m + n
      PROVE  /\ k - m \in 1 .. n /\ h[k - m] \in 1 .. to - mid /\ f[k] = mid + h[k - m]
             /\ w[k] = s[f[k]] /\ s[f[k]].type \in types
  <2>0. m \in Nat /\ n \in Nat
    BY <1>1
  <2>1. k - m \in 1 .. n
    BY <2>0
  <2>2. h[k - m] \in 1 .. to - mid /\ u[k - m] = b[h[k - m]] /\ b[h[k - m]].type \in types
    BY <1>4, <2>1
  <2>3. b[h[k - m]] = s[mid + h[k - m]]
    BY <2>2
  <2> QED
    BY <1>1, <1>2, <2>1, <2>2, <2>3
<1>6. \A k \in 1 .. m + n : f[k] \in from + 1 .. to /\ w[k] = s[f[k]] /\ s[f[k]].type \in types
  <2> SUFFICES ASSUME NEW k \in 1 .. m + n
               PROVE  f[k] \in from + 1 .. to /\ w[k] = s[f[k]] /\ s[f[k]].type \in types
    OBVIOUS
  <2>1. CASE k \in 1 .. m
    <3>1. g[k] \in from + 1 .. mid /\ t[k] = s[g[k]] /\ s[g[k]].type \in types
      BY <1>3, <2>1
    <3>2. f[k] = g[k] /\ w[k] = t[k]
      BY <1>1, <1>2, <2>1
    <3>3. from + 1 .. mid \subseteq from + 1 .. to
      BY <1>0
    <3> QED
      BY <3>1, <3>2, <3>3, Zenon
  <2>2. CASE k \in m + 1 .. m + n
    <3>1. h[k - m] \in 1 .. to - mid /\ f[k] = mid + h[k - m]
      BY <1>5, <2>2
    <3>2. f[k] \in from + 1 .. to
      BY <3>1
    <3> QED
      BY <1>5, <2>2, <3>2
  <2> QED
    BY <1>1, <2>1, <2>2
<1>7. \A k, l \in 1 .. m + n : k < l => f[k] < f[l]
  <2> SUFFICES ASSUME NEW k \in 1 .. m + n, NEW l \in 1 .. m + n, k < l PROVE f[k] < f[l]
    OBVIOUS
  <2>1. CASE l \in 1 .. m
    BY <1>1, <1>2, <1>3, <2>1
  <2>2. CASE k \in 1 .. m /\ l \in m + 1 .. m + n
    <3>1. f[k] \in from + 1 .. mid
      BY <1>2, <1>3, <2>2
    <3> DEFINE y == h[l - m]
    <3>2. f[l] = mid + y /\ y \in 1 .. to - mid
      BY <1>5, <2>2
    <3> HIDE DEF y
    <3> QED
      BY <1>0, <3>1, <3>2
  <2>3. CASE k \in m + 1 .. m + n
    <3>1. l \in m + 1 .. m + n
      BY <1>1, <2>3
    <3>2. /\ k - m \in 1 .. n /\ f[k] = mid + h[k - m] /\ h[k - m] \in 1 .. to - mid
      BY <1>5, <2>3
    <3>4. /\ l - m \in 1 .. n /\ f[l] = mid + h[l - m] /\ h[l - m] \in 1 .. to - mid
      BY <1>5, <3>1
    <3>5. k - m < l - m
      BY <1>1
    <3> DEFINE x == h[k - m]
               y == h[l - m]
    <3>3. x < y
      BY <1>4, <3>2, <3>4, <3>5
    <3>6. f[k] = mid + x /\ f[l] = mid + y /\ x \in 1 .. to - mid /\ y \in 1 .. to - mid
      BY <3>2, <3>4
    <3> HIDE DEF x, y
    <3>7. x \in Int /\ y \in Int
      BY <3>6
    <3> QED
      BY <1>0, <3>3, <3>6, <3>7
  <2>4. l \in 1 .. m \/ (k \in 1 .. m /\ l \in m + 1 .. m + n) \/ k \in m + 1 .. m + n
    BY <1>1
  <2> QED
    BY <2>1, <2>2, <2>3, <2>4, Zenon
<1>8. \A p \in from + 1 .. to : s[p].type \in types => \E k \in 1 .. m + n : f[k] = p
  <2> SUFFICES ASSUME NEW p \in from + 1 .. to, s[p].type \in types
               PROVE  \E k \in 1 .. m + n : f[k] = p
    OBVIOUS
  <2>1. CASE p <= mid
    <3>1. PICK k \in 1 .. m : g[k] = p
      BY <1>3, <2>1
    <3>2. f[k] = p
      BY <1>2, <3>1
    <3>3. k \in 1 .. m + n
      BY <1>1
    <3> QED
      BY <3>2, <3>3, Zenon
  <2>2. CASE p > mid
    <3>1. p - mid \in 1 .. to - mid /\ mid + (p - mid) = p
      BY <2>2
    <3>2. b[p - mid] = s[p]
      BY <3>1
    <3>3. PICK k \in 1 .. n : h[k] = p - mid
      <4>1. b[p - mid].type \in types
        BY <3>2
      <4> QED
        BY <1>4, <3>1, <4>1, Zenon
    <3>4. k + m \in m + 1 .. m + n /\ (k + m) - m = k
      <4>1. m \in Nat /\ n \in Nat
        BY <1>1
      <4> QED
        BY <4>1
    <3>5. PICK l \in m + 1 .. m + n : l - m = k
      BY <3>4
    <3>6. f[l] = mid + h[k]
      BY <1>2, <3>5
    <3>7. l \in 1 .. m + n
      BY <1>1
    <3>8. f[l] = p
      BY <3>1, <3>3, <3>6
    <3> QED
      BY <3>7, <3>8, Zenon
  <2> QED
    BY <2>1, <2>2
<1>9. Picks(f, w, s, from, to, types)
  BY <1>1, <1>6, <1>7, <1>8 DEF Picks
<1> QED
  BY <1>9 DEF w

\* What was picked stays what it is when the sequence grows.
LEMMA PicksStay ==
  ASSUME NEW s, NEW r, NEW types, NEW from \in Nat, NEW to \in Nat,
         \A p \in from + 1 .. to : r[p] = s[p], NEW t, Len(t) \in Nat, NEW g,
         Picks(g, t, s, from, to, types)
  PROVE  Picks(g, t, r, from, to, types)
BY DEF Picks

LEMMA DivBound ==
  ASSUME NEW s \in Nat \ {0}, NEW a \in Nat, NEW b \in Nat, s * a <= b
  PROVE  a <= b \div s /\ b \div s \in Nat
<1> DEFINE q == b \div s
<1>1. q \in Nat /\ b < s * (q + 1)
  OBVIOUS
<1> HIDE DEF q
<1>2. ASSUME q + 1 <= a PROVE FALSE
  <2>1. s * (q + 1) <= s * a
    BY <1>1, <1>2, Scale
  <2> DEFINE x == s * a
             y == s * (q + 1)
  <2>2. x \in Nat /\ y \in Nat /\ y <= x /\ x <= b /\ b < y
    BY <1>1, <2>1
  <2> HIDE DEF x, y
  <2> QED
    BY <2>2
<1> QED
  BY <1>1, <1>2 DEF q

(***************************************************************************)
(* The panels.  PanelInv: a panel shows the chat lines of one stretch of   *)
(* what its connection was sent, up to the last message that the main      *)
(* thread has seen; with ChatOrder this is a stretch of the conversation.  *)
(***************************************************************************)

\* t is what a panel shows that has shown the chat lines of a stretch of s that
\* ends with its n-th message.
Shows(t, s, n) == \E from \in 0 .. n : \E g : Picks(g, t, s, from, n, {"MESSAGE"})

PanelInv ==
  /\ shown \in [Conn -> Seq(Messages)]
  /\ \A c \in Conn :
       /\ Alive(c) <=> conn[c] \in {"backlog", "reading"}
       /\ conn[c] = "none" => user[c] = "out"
       /\ seen[c] <= taken[c]
       /\ user[c] \in {"out", "naming", "joining"} => shown[c] = <<>>
       /\ Len(shown[c]) <= seen[c]
       /\ Shows(shown[c], sent[c], seen[c])

LEMMA ShowsNothing ==
  ASSUME NEW s, NEW n \in Nat
  PROVE  Shows(<<>>, s, n)
<1>1. Picks(<<>>, <<>>, s, n, n, {"MESSAGE"})
  BY DEF Picks
<1> QED
  BY <1>1 DEF Shows

\* A panel does not change when its connection is sent more.
LEMMA ShowsStay ==
  ASSUME ChatInv, [SystemNext]_allVars, UserTypes, Pieces, NEW c \in Conn, NEW t \in Seq(Messages),
         seen[c] <= taken[c], Shows(t, sent[c], seen[c])
  PROVE  Shows(t, sent'[c], seen[c])
<1>1. /\ sent[c] \in Seq(Messages) /\ Len(sent[c]) \in Nat /\ seen[c] \in Nat /\ taken[c] \in Nat
      /\ Len(t) \in Nat
  BY LenProperties DEF ChatInv, RoomInv, TypeOK, UserTypes
<1>2. taken[c] <= Len(sent[c])
  BY TakenSent DEF ChatInv, RoomInv
<1>3. \A p \in 1 .. Len(sent[c]) : sent'[c][p] = sent[c][p]
  <2>1. CASE sent'[c] = sent[c]
    BY <2>1
  <2>2. CASE \E x \in Messages : sent'[c] = Append(sent[c], x)
    BY <1>1, <2>2, AppendFacts
  <2> QED
    BY <2>1, <2>2, SentGrows
<1>4. PICK from \in 0 .. seen[c] : \E g : Picks(g, t, sent[c], from, seen[c], {"MESSAGE"})
  BY DEF Shows
<1>5. PICK g : Picks(g, t, sent[c], from, seen[c], {"MESSAGE"})
  BY <1>4
<1>6. \A p \in from + 1 .. seen[c] : sent'[c][p] = sent[c][p]
  BY <1>1, <1>2, <1>3
<1>7. Picks(g, t, sent'[c], from, seen[c], {"MESSAGE"})
  <2>1. from \in Nat
    BY <1>1
  <2> DEFINE r == sent'[c]
             b == sent[c]
             n == seen[c]
  <2>2. /\ \A p \in from + 1 .. n : r[p] = b[p]
        /\ n \in Nat /\ Len(t) \in Nat /\ Picks(g, t, b, from, n, {"MESSAGE"})
    BY <1>1, <1>5, <1>6
  <2> HIDE DEF r, b, n
  <2>3. Picks(g, t, r, from, n, {"MESSAGE"})
    BY <2>1, <2>2, PicksStay
  <2> QED
    BY <2>3 DEF r, n
<1> QED
  BY <1>7 DEF Shows

\* The messages in the queue of a client.
LEMMA UnseenFacts ==
  ASSUME TypeOK, UserTypes, Pieces, NEW c \in Conn, seen[c] <= taken[c]
  PROVE  /\ Unseen(c) \in Seq(Messages) /\ Len(Unseen(c)) = taken[c] - seen[c]
         /\ \A i \in 1 .. taken[c] - seen[c] : Unseen(c)[i] = sent[c][seen[c] + i]
<1>1. /\ sent[c] \in Seq(Messages) /\ Len(sent[c]) \in Nat
      /\ \A p \in 1 .. Len(sent[c]) : sent[c][p] \in Messages
  BY LenProperties, ElementOfSeq DEF TypeOK
<1>2. seen[c] \in Nat /\ taken[c] \in Nat
  BY DEF UserTypes
<1>3. taken[c] <= Len(sent[c])
  BY TakenSent
<1> DEFINE from == seen[c] + 1
           to == taken[c]
<1>4. \A i \in from .. to : sent[c][i] \in Messages
  BY <1>1, <1>2, <1>3
<1>5. /\ Unseen(c) \in Seq(Messages)
      /\ Len(Unseen(c)) = IF from <= to THEN to - from + 1 ELSE 0
      /\ \A i \in 1 .. to - from + 1 : Unseen(c)[i] = sent[c][from + i - 1]
  BY <1>2, <1>4, SubSeqProperties DEF Unseen
<1>6. /\ to - from + 1 = taken[c] - seen[c]
      /\ (IF from <= to THEN to - from + 1 ELSE 0) = taken[c] - seen[c]
  BY <1>2
<1>7. \A i \in 1 .. taken[c] - seen[c] : from + i - 1 = seen[c] + i
  BY <1>2
<1> HIDE DEF from, to
<1> QED
  BY <1>5, <1>6, <1>7

\* A panel after a batch.
LEMMA ShowsBatch ==
  ASSUME TypeOK, UserTypes, Pieces, PanelInv, NEW c \in Conn
  PROVE  LET u == OfType(Unseen(c), {"MESSAGE"})
         IN  /\ shown[c] \o u \in Seq(Messages) /\ Len(shown[c] \o u) <= taken[c]
             /\ Shows(shown[c] \o u, sent[c], taken[c])
<1> DEFINE u == OfType(Unseen(c), {"MESSAGE"})
           t == shown[c]
           b == Unseen(c)
           s == sent[c]
           M == {"MESSAGE"}
<1>1. /\ s \in Seq(Messages) /\ t \in Seq(Messages) /\ Len(s) \in Nat
      /\ seen[c] \in Nat /\ taken[c] \in Nat /\ seen[c] <= taken[c] /\ Len(t) <= seen[c]
  BY LenProperties DEF TypeOK, UserTypes, PanelInv
<1>2. taken[c] <= Len(s)
  BY TakenSent
<1>3. /\ b \in Seq(Messages) /\ Len(b) = taken[c] - seen[c]
      /\ \A i \in 1 .. taken[c] - seen[c] : b[i] = s[seen[c] + i]
  BY <1>1, UnseenFacts
<1>4. PICK from \in 0 .. seen[c] : \E g : Picks(g, t, s, from, seen[c], M)
  BY DEF Shows, PanelInv
<1>5. PICK g : Picks(g, t, s, from, seen[c], M)
  BY <1>4
<1>6. /\ u \in Seq(Messages) /\ Len(u) <= Len(b)
      /\ \E h : Picks(h, u, b, 0, Len(b), M)
  BY <1>3, OfTypePicks
<1>7. PICK h : Picks(h, u, b, 0, taken[c] - seen[c], M)
  BY <1>3, <1>6
<1>8. Len(t) \in Nat /\ Len(u) \in Nat
  BY <1>1, <1>6, LenProperties
<1> HIDE DEF u, t, b, s, M
<1>9. \E f : Picks(f, t \o u, s, from, taken[c], M)
  <2>1. from \in Nat /\ from <= seen[c]
    BY <1>1
  <2> QED
    BY <1>1, <1>2, <1>3, <1>5, <1>6, <1>7, <2>1, PicksOn
<1>10. t \o u \in Seq(Messages) /\ Len(t \o u) = Len(t) + Len(u)
  BY <1>1, <1>6, ConcatProperties
<1>11. Len(t \o u) <= taken[c]
  BY <1>1, <1>3, <1>6, <1>8, <1>10
<1>12. from \in 0 .. taken[c]
  BY <1>1
<1>13. Shows(t \o u, s, taken[c])
  BY <1>9, <1>12 DEF Shows, M
<1> QED
  BY <1>10, <1>11, <1>13 DEF t, u, s

\* A step that touches neither the panels nor what the main threads have seen.
LEMMA PanelsStay ==
  ASSUME ChatInv, [SystemNext]_allVars, UserTypes, Pieces, PanelInv, UNCHANGED <<seen, shown>>,
         \A c \in Conn :
           /\ Alive(c)' <=> conn'[c] \in {"backlog", "reading"}
           /\ conn'[c] = "none" => user'[c] = "out"
           /\ taken[c] <= taken'[c] /\ taken'[c] \in Nat
           /\ user'[c] \in {"out", "naming", "joining"} =>
                user[c] \in {"out", "naming", "joining"}
  PROVE  PanelInv'
<1>1. shown' \in [Conn -> Seq(Messages)]
  BY DEF PanelInv
<1>2. ASSUME NEW c \in Conn
      PROVE  /\ Alive(c)' <=> conn'[c] \in {"backlog", "reading"}
             /\ conn'[c] = "none" => user'[c] = "out"
             /\ seen'[c] <= taken'[c]
             /\ user'[c] \in {"out", "naming", "joining"} => shown'[c] = <<>>
             /\ Len(shown'[c]) <= seen'[c]
             /\ Shows(shown'[c], sent'[c], seen'[c])
  <2>1. /\ seen[c] <= taken[c] /\ seen[c] \in Nat /\ taken[c] \in Nat
        /\ shown[c] \in Seq(Messages) /\ Len(shown[c]) <= seen[c]
        /\ Shows(shown[c], sent[c], seen[c])
    BY DEF PanelInv, UserTypes
  <2>2. Shows(shown[c], sent'[c], seen[c])
    BY <2>1, ShowsStay
  <2>3. seen'[c] <= taken'[c]
    BY <2>1
  <2>4. user'[c] \in {"out", "naming", "joining"} => shown'[c] = <<>>
    BY <2>1 DEF PanelInv
  <2> QED
    BY <2>1, <2>2, <2>3, <2>4
<1> QED
  BY <1>1, <1>2 DEF PanelInv

LEMMA PanelKept ==
  ASSUME ChatInv, [SystemNext]_allVars, UserTypes, Pieces, PanelInv
  PROVE  PanelInv'
<1>1. /\ TypeOK /\ conn \in [Conn -> {"none", "backlog", "vanished", "reading", "hungup", "dead"}]
      /\ user \in [Conn -> {"out", "naming", "joining", "chatting", "denied", "gone"}]
      /\ seen \in [Conn -> Nat] /\ taken \in [Conn -> Nat] /\ shown \in [Conn -> Seq(Messages)]
      /\ \A c \in Conn : /\ Alive(c) <=> conn[c] \in {"backlog", "reading"}
                         /\ conn[c] = "none" => user[c] = "out"
                         /\ user[c] \in {"out", "naming", "joining"} => shown[c] = <<>>
                         /\ seen[c] <= taken[c] /\ Shows(shown[c], sent[c], seen[c])
                         /\ Len(shown[c]) <= seen[c]
  BY DEF ChatInv, RoomInv, TypeOK, UserTypes, PanelInv
<1>2. CASE UNCHANGED clientVars /\ ServerQuietly
  <2>1. UNCHANGED <<user, seen, shown, taken>>
    BY <1>2 DEF clientVars
  <2> QED
    BY <1>1, <1>2, <2>1, PanelsStay DEF ServerQuietly, Alive
<1>3. ASSUME NEW c \in Conn, ClientStart(c) PROVE PanelInv'
  <2>1. /\ conn' = [conn EXCEPT ![c] = "backlog"] /\ user' = [user EXCEPT ![c] = "naming"]
        /\ UNCHANGED <<seen, shown, taken>> /\ conn[c] = "none"
    BY <1>3 DEF ClientStart, Connect, Becomes
  <2> QED
    BY <1>1, <2>1, PanelsStay DEF Alive
<1>4. ASSUME NEW c \in Conn, NEW n \in Wanted[c], ClientJoin(c, n) PROVE PanelInv'
  <2>1. /\ conn' = conn /\ user' = [user EXCEPT ![c] = "joining"] /\ user[c] = "naming"
        /\ UNCHANGED <<seen, shown, taken>>
    BY <1>4 DEF ClientJoin, ClientSends, Becomes
  <2> QED
    BY <1>1, <2>1, PanelsStay DEF Alive
<1>5. ASSUME NEW c \in Conn, NEW type \in {"MESSAGE", "ANSWER"}, ClientSay(c, type) PROVE PanelInv'
  <2>1. conn' = conn /\ UNCHANGED <<user, seen, shown, taken>>
    BY <1>5 DEF ClientSay, ClientSends, clientVars
  <2> QED
    BY <1>1, <2>1, PanelsStay DEF Alive
<1>6. ASSUME NEW c \in Conn, ClientQuit(c) PROVE PanelInv'
  <2>1. /\ user' = [user EXCEPT ![c] = "gone"] /\ UNCHANGED <<seen, shown, taken>>
        /\ \/ conn[c] = "backlog" /\ conn' = [conn EXCEPT ![c] = "vanished"]
           \/ conn[c] = "reading" /\ conn' = [conn EXCEPT ![c] = "hungup"]
    BY <1>6 DEF ClientQuit, ClientLeave, HangUp, Becomes
  <2> QED
    BY <1>1, <2>1, PanelsStay DEF Alive
<1>7. ASSUME NEW c \in Conn, ClientReading(c) PROVE PanelInv'
  <2>1. /\ UNCHANGED <<conn, user, seen, shown>>
        /\ taken' = taken \/ taken' = [taken EXCEPT ![c] = @ + 1]
    BY <1>7 DEF ClientReading, ClientRead, vars, netVars
  <2>2. ASSUME NEW d \in Conn PROVE taken[d] <= taken'[d] /\ taken'[d] \in Nat
    <3>1. taken[d] \in Nat /\ (taken'[d] = taken[d] \/ taken'[d] = taken[d] + 1)
      BY <1>1, <2>1
    <3> QED
      BY <3>1
  <2> QED
    BY <1>1, <2>1, <2>2, PanelsStay DEF Alive
<1>8. ASSUME NEW c \in Conn, JoinWaits(c) \/ JoinGranted(c) \/ JoinDenied(c) PROVE PanelInv'
  <2>1. /\ user[c] = "joining" /\ seen' = [seen EXCEPT ![c] = taken[c]]
        /\ UNCHANGED <<shown, taken, sent>>
        /\ \/ UNCHANGED <<user, conn>>
           \/ user' = [user EXCEPT ![c] = "chatting"] /\ conn' = conn
           \/ /\ user' = [user EXCEPT ![c] = "denied"]
              /\ \/ conn[c] = "backlog" /\ conn' = [conn EXCEPT ![c] = "vanished"]
                 \/ conn[c] = "reading" /\ conn' = [conn EXCEPT ![c] = "hungup"]
    BY <1>8 DEF JoinWaits, JoinGranted, JoinDenied, SeeAll, Becomes, HangUp, vars, netVars, roomVars
  <2>2. \A d \in Conn : /\ Alive(d)' <=> conn'[d] \in {"backlog", "reading"}
                        /\ conn'[d] = "none" => user'[d] = "out"
                        /\ user'[d] \in {"out", "naming", "joining"} => shown'[d] = <<>>
    BY <1>1, <2>1 DEF Alive
  <2>3. shown[c] = <<>> /\ Shows(<<>>, sent[c], taken[c]) /\ Len(<<>>) <= taken[c]
    BY <1>1, <2>1, ShowsNothing
  <2>4. \A d \in Conn : /\ seen'[d] <= taken'[d] /\ Len(shown'[d]) <= seen'[d]
                        /\ Shows(shown'[d], sent'[d], seen'[d])
    BY <1>1, <2>1, <2>3
  <2>5. shown' \in [Conn -> Seq(Messages)]
    BY <1>1, <2>1
  <2> QED
    BY <2>2, <2>4, <2>5 DEF PanelInv
<1>9. ASSUME NEW c \in Conn, ShowBatch(c) PROVE PanelInv'
  <2> DEFINE u == shown[c] \o OfType(Unseen(c), {"MESSAGE"})
  <2>1. /\ user[c] = "chatting" /\ seen' = [seen EXCEPT ![c] = taken[c]]
        /\ shown' = [shown EXCEPT ![c] = u]
        /\ UNCHANGED <<conn, user, taken, sent>>
    BY <1>9 DEF ShowBatch, SeeAll, vars, netVars, roomVars
  <2>2. u \in Seq(Messages) /\ Len(u) <= taken[c] /\ Shows(u, sent[c], taken[c])
    BY <1>1, ShowsBatch
  <2> HIDE DEF u
  <2>3. \A d \in Conn : /\ Alive(d)' <=> conn'[d] \in {"backlog", "reading"}
                        /\ conn'[d] = "none" => user'[d] = "out"
                        /\ user'[d] \in {"out", "naming", "joining"} => shown'[d] = <<>>
    BY <1>1, <2>1 DEF Alive
  <2>4. \A d \in Conn : /\ seen'[d] <= taken'[d] /\ Len(shown'[d]) <= seen'[d]
                        /\ Shows(shown'[d], sent'[d], seen'[d])
    BY <1>1, <2>1, <2>2
  <2>5. shown' \in [Conn -> Seq(Messages)]
    BY <1>1, <2>1, <2>2
  <2> QED
    BY <2>3, <2>4, <2>5 DEF PanelInv
<1> QED
  BY <1>1, <1>2, <1>3, <1>4, <1>5, <1>6, <1>7, <1>8, <1>9, ClientCases DEF ClientMain

LEMMA OrderPart ==
  ASSUME ChatInv, GameLogFaithful, OrderInv, [SystemNext]_allVars
  PROVE  GameLogFaithful' /\ OrderInv'
<1>1. CASE [Next]_vars
  BY <1>1, NextLog, NextOrder
<1>2. CASE \E c \in Conn : HangUp(c)
  <2>1. UNCHANGED <<stream, parsed, participants, name, sent, since, queue, batch, log>>
    BY <1>2 DEF HangUp, roomVars, gameVars
  <2>2. Events' = Events /\ \A d \in Conn : InRoom(d)' <=> InRoom(d)
    BY <2>1 DEF Events, InRoom
  <2>3. GameLogFaithful'
    BY <2>1, <2>2 DEF GameLogFaithful, Named
  <2>4. \A d \in Conn : InRoom(d)' => Matches(sent'[d], Events', since'[d], d)
    BY <2>1, <2>2, ChatOrderMatches DEF OrderInv
  <2>5. ChatOrder'
    BY <2>4, ChatOrderAfter
  <2>6. (\A d \in Conn : InRoom(d) => since[d] <= Len(Events))'
    BY <2>1, <2>2 DEF OrderInv
  <2> QED
    BY <2>3, <2>5, <2>6 DEF OrderInv
<1> QED
  BY <1>1, <1>2, SystemStep

FullInv == SystemInv /\ PanelInv /\ GameLogFaithful /\ OrderInv

LEMMA SpecFullInv == SystemSpec => []FullInv
<1>1. SystemInit => PanelInv
  <2> SUFFICES ASSUME SystemInit PROVE PanelInv
    OBVIOUS
  <2>1. /\ shown = [c \in Conn |-> <<>>]
        /\ \A c \in Conn : /\ user[c] = "out" /\ conn[c] = "none" /\ shown[c] = <<>>
                           /\ seen[c] = 0 /\ taken[c] = 0
    BY DEF SystemInit, Init
  <2>2. \A c \in Conn : Shows(<<>>, sent[c], 0)
    BY ShowsNothing
  <2>3. shown \in [Conn -> Seq(Messages)] /\ Len(<<>>) = 0
    BY <2>1
  <2> QED
    BY <2>1, <2>2, <2>3 DEF PanelInv, Alive
<1>2. SystemInit => GameLogFaithful /\ OrderInv
  BY InitLog, InitOrder DEF SystemInit
<1>3. SystemInv /\ PanelInv /\ [SystemNext]_allVars => PanelInv'
  BY PanelKept DEF SystemInv
<1>4. SystemInv /\ GameLogFaithful /\ OrderInv /\ [SystemNext]_allVars => GameLogFaithful' /\ OrderInv'
  BY OrderPart DEF SystemInv
<1>5. SystemInv /\ PanelInv /\ GameLogFaithful /\ OrderInv => FullInv
  BY DEF FullInv
<1> QED
  BY <1>1, <1>2, <1>3, <1>4, <1>5, SpecSystemInv, PTL DEF SystemSpec

\* client/tcp_client.cc:71-101, client/main.cc:36-80: the counts of a client fit
\* together, and it is connected as long as it runs.
THEOREM ClientTypesCorrect == SystemSpec => []ClientTypeOK
<1>1. FullInv => ClientTypeOK
  <2> SUFFICES ASSUME FullInv PROVE ClientTypeOK
    OBVIOUS
  <2>1. UserTypes /\ Pieces /\ PanelInv
    BY DEF FullInv, SystemInv
  <2>2. ASSUME NEW c \in Conn
        PROVE  /\ came[c] \in 0 .. Segs * Len(sent[c])
               /\ taken[c] \in 0 .. came[c] \div Segs
               /\ seen[c] \in 0 .. taken[c]
    <3>1. /\ came[c] \in Nat /\ taken[c] \in Nat /\ seen[c] \in Nat /\ Len(sent[c]) \in Nat
          /\ Segs * taken[c] <= came[c] /\ came[c] <= Segs * Len(sent[c]) /\ seen[c] <= taken[c]
      BY <2>1, LenProperties DEF UserTypes, Pieces, PanelInv, FullInv, SystemInv, ChatInv, RoomInv, TypeOK
    <3>2. taken[c] <= came[c] \div Segs /\ came[c] \div Segs \in Nat
      BY <3>1, DivBound
    <3>3. Segs * Len(sent[c]) \in Nat /\ came[c] \div Segs \in Nat
      <4>1. Segs * Len(sent[c]) \in Nat
        BY <3>1
      <4> QED
        BY <3>2, <4>1
    <3> DEFINE x == Segs * Len(sent[c])
               y == came[c] \div Segs
    <3>4. x \in Nat /\ y \in Nat /\ came[c] <= x /\ taken[c] <= y
      BY <3>1, <3>2, <3>3
    <3> HIDE DEF x, y
    <3>5. came[c] \in 0 .. x /\ taken[c] \in 0 .. y /\ seen[c] \in 0 .. taken[c]
      BY <3>1, <3>4
    <3> QED
      BY <3>5 DEF x, y
  <2> QED
    BY <2>1, <2>2 DEF UserTypes, PanelInv, ClientTypeOK
<1> QED
  BY <1>1, SpecFullInv, PTL

\* t shows the stretch of the conversation in E that d has been sent.
Stretch(E, from, to, d) ==
  {i \in DOMAIN E : from <= i /\ i <= to /\ E[i].msg.type = "MESSAGE" /\ E[i].msg.by # d}
ShowsStretch(t, E, T) ==
  /\ {t[k] : k \in DOMAIN t} = {E[i].msg : i \in T}
  /\ \A k, l \in DOMAIN t, i, j \in T : t[k] = E[i].msg /\ t[l] = E[j].msg => (k < l <=> i < j)

LEMMA ConversationSplit ==
  OneConversation <=> \A c \in Conn : \E from, to \in 0 .. Len(Events) :
                        ShowsStretch(shown[c], Events, Stretch(Events, from, to, c))
<1> DEFINE Nested(c, from, to) ==
             LET T == Stretch(Events, from, to, c)
             IN  /\ {shown[c][k] : k \in DOMAIN shown[c]} = {Events[i].msg : i \in T}
                 /\ \A k \in DOMAIN shown[c], i \in T : shown[c][k] = Events[i].msg =>
                      \A l \in DOMAIN shown[c], j \in T :
                        shown[c][l] = Events[j].msg => (k < l <=> i < j)
<1>1. OneConversation <=> \A c \in Conn : \E from, to \in 0 .. Len(Events) : Nested(c, from, to)
  BY DEF OneConversation, Stretch
<1>2. ASSUME NEW c, NEW from, NEW to
      PROVE  Nested(c, from, to) <=> ShowsStretch(shown[c], Events, Stretch(Events, from, to, c))
  BY Zenon DEF ShowsStretch
<1> HIDE DEF Nested
<1> QED
  BY <1>1, <1>2

\* The panel of a participant whose lines match the events after `since`.
LEMMA PanelStretch ==
  ASSUME NEW E, Len(E) \in Nat, DOMAIN E = 1 .. Len(E), NEW s, Len(s) \in Nat, DOMAIN s = 1 .. Len(s),
         NEW first \in Nat, NEW d, Matches(s, E, first, d),
         NEW n \in Nat, n <= Len(s), NEW b \in 0 .. n, NEW t, Len(t) \in Nat, DOMAIN t = 1 .. Len(t),
         t # <<>>, Len(t) # 0, NEW g, Picks(g, t, s, b, n, {"MESSAGE"})
  PROVE  \E from, to \in 0 .. Len(E) :
           ShowsStretch(t, E, Stretch(E, from, to, d))
<1> DEFINE m == Len(t)
           L == Lines(s)
           C == ChatOf(E, first, d)
<1>1. /\ \A k \in 1 .. m : g[k] \in b + 1 .. n /\ t[k] = s[g[k]] /\ s[g[k]].type = "MESSAGE"
      /\ \A k, l \in 1 .. m : k < l => g[k] < g[l]
      /\ \A p \in b + 1 .. n : s[p].type = "MESSAGE" => \E k \in 1 .. m : g[k] = p
  BY DEF Picks
<1>2. \A k \in 1 .. m : g[k] \in L /\ g[k] \in Nat
  BY <1>1 DEF Lines
<1>3. /\ L \subseteq 1 .. Len(s) /\ C \subseteq first + 1 .. Len(E)
      /\ \A i \in C : E[i].msg.type = "MESSAGE" /\ E[i].msg.by # d
      /\ \A i \in first + 1 .. Len(E) : E[i].msg.type = "MESSAGE" /\ E[i].msg.by # d => i \in C
  BY DEF Lines, ChatOf, IsChat
<1>4. \A p \in L : \E i \in C : s[p] = E[i].msg
  <2>1. \A p \in L : s[p] \in {E[i].msg : i \in C}
    BY DEF Matches
  <2> HIDE DEF L, C
  <2> QED
    BY <2>1
<1>0. \A i \in C : \E p \in L : s[p] = E[i].msg
  <2>1. \A i \in C : E[i].msg \in {s[p] : p \in L}
    BY DEF Matches
  <2> HIDE DEF L, C
  <2> QED
    BY <2>1
<1>18. \A p, q \in L, i, j \in C : s[p] = E[i].msg /\ s[q] = E[j].msg => (p < q <=> i < j)
  BY DEF Matches
<1>5. 1 \in 1 .. m /\ m \in 1 .. m
  OBVIOUS
<1> HIDE DEF m, L, C
<1>6. PICK from \in C : s[g[1]] = E[from].msg
  BY <1>2, <1>4, <1>5
<1>7. PICK to \in C : s[g[m]] = E[to].msg
  BY <1>2, <1>4, <1>5
<1> DEFINE T == {i \in DOMAIN E : /\ from <= i /\ i <= to
                                  /\ E[i].msg.type = "MESSAGE" /\ E[i].msg.by # d}
<1>8. T \subseteq C /\ T \subseteq Nat /\ \A i \in T : from <= i /\ i <= to
  <2>1. from \in first + 1 .. Len(E)
    BY <1>3
  <2> QED
    BY <1>3, <2>1
<1>9. \A i \in C : from <= i /\ i <= to => i \in T
  <2> SUFFICES ASSUME NEW i \in C, from <= i, i <= to PROVE i \in T
    OBVIOUS
  <2>1. i \in first + 1 .. Len(E) /\ E[i].msg.type = "MESSAGE" /\ E[i].msg.by # d
    BY <1>3
  <2> QED
    BY <2>1
<1>10. \A k, l \in 1 .. m : k < l <=> g[k] < g[l]
  <2> SUFFICES ASSUME NEW k \in 1 .. m, NEW l \in 1 .. m PROVE k < l <=> g[k] < g[l]
    OBVIOUS
  <2>1. g[k] \in Nat /\ g[l] \in Nat /\ k \in Int /\ l \in Int
    BY <1>2 DEF m
  <2>2. CASE k < l
    BY <1>1, <2>2
  <2>3. CASE l < k
    <3>1. g[l] < g[k]
      BY <1>1, <2>3
    <3> QED
      BY <2>1, <2>3, <3>1
  <2>4. CASE k = l
    BY <2>1, <2>4
  <2> QED
    BY <2>1, <2>2, <2>3, <2>4
<1>11. \A k \in 1 .. m : ~(g[k] < g[1]) /\ ~(g[m] < g[k])
  BY <1>5, <1>10 DEF m
<1>12. C \subseteq Nat
  BY <1>3
<1> HIDE DEF T
<1>13. ASSUME NEW k \in 1 .. m PROVE \E i \in T : t[k] = E[i].msg
  <2>1. PICK i \in C : s[g[k]] = E[i].msg
    BY <1>2, <1>4
  <2>2. ~(i < from) /\ ~(to < i)
    <3>1. g[1] \in L /\ g[m] \in L /\ g[k] \in L
      BY <1>2, <1>5
    <3>2. (g[k] < g[1] <=> i < from) /\ (g[m] < g[k] <=> to < i)
      BY <1>6, <1>7, <1>18, <2>1, <3>1, Zenon
    <3> QED
      BY <1>11, <3>2
  <2>3. from \in Nat /\ to \in Nat /\ i \in Nat
    BY <1>12
  <2>4. from <= i /\ i <= to
    BY <2>2, <2>3
  <2> QED
    BY <1>1, <1>9, <2>1, <2>4
<1>14. ASSUME NEW i \in T PROVE \E k \in 1 .. m : t[k] = E[i].msg
  <2>1. i \in C /\ from <= i /\ i <= to /\ E[i].msg.type = "MESSAGE"
    BY <1>3, <1>8
  <2>2. PICK p \in L : s[p] = E[i].msg
    BY <1>0, <2>1
  <2>3. i \in Nat /\ from \in Nat /\ to \in Nat /\ p \in Nat
    BY <1>3, <1>12, <2>1
  <2>4. ~(i < from) /\ ~(to < i)
    BY <2>1, <2>3
  <2>5. ~(p < g[1]) /\ ~(g[m] < p)
    <3>1. g[1] \in L /\ g[m] \in L
      BY <1>2, <1>5
    <3>2. (p < g[1] <=> i < from) /\ (g[m] < p <=> to < i)
      BY <1>6, <1>7, <1>18, <2>1, <2>2, <3>1, ZenonT(30)
    <3> QED
      BY <2>4, <3>2
  <2>6. p \in b + 1 .. n
    <3>1. g[1] \in b + 1 .. n /\ g[m] \in b + 1 .. n
      BY <1>1, <1>5
    <3> QED
      BY <2>3, <2>5, <3>1
  <2>7. PICK k \in 1 .. m : g[k] = p
    BY <1>1, <2>1, <2>2, <2>6
  <2> QED
    BY <1>1, <2>2, <2>7
<1>15. {t[k] : k \in DOMAIN t} = {E[i].msg : i \in T}
  <2>1. \A k \in DOMAIN t : t[k] \in {E[i].msg : i \in T}
    BY <1>13 DEF m
  <2>2. \A i \in T : E[i].msg \in {t[k] : k \in DOMAIN t}
    BY <1>14 DEF m
  <2> QED
    BY <2>1, <2>2
<1>16. \A k, l \in DOMAIN t, i, j \in T : t[k] = E[i].msg /\ t[l] = E[j].msg => (k < l <=> i < j)
  <2> SUFFICES ASSUME NEW k \in 1 .. m, NEW l \in 1 .. m, NEW i \in T, NEW j \in T,
                      t[k] = E[i].msg, t[l] = E[j].msg
               PROVE  k < l <=> i < j
    BY DEF m
  <2>1. i \in C /\ j \in C /\ g[k] \in L /\ g[l] \in L /\ s[g[k]] = E[i].msg /\ s[g[l]] = E[j].msg
    BY <1>1, <1>2, <1>8
  <2> QED
    <3>2. \A q \in L : \A x, y \in C :
            s[g[k]] = E[x].msg /\ s[q] = E[y].msg => (g[k] < q <=> x < y)
      <4>1. g[k] \in L
        BY <2>1
      <4> QED
        BY <1>18, <4>1, Zenon
    <3>3. \A y \in C : s[g[l]] = E[y].msg => (g[k] < g[l] <=> i < y)
      BY <2>1, <3>2, Zenon
    <3>1. g[k] < g[l] <=> i < j
      BY <2>1, <3>3, Zenon
    <3> QED
      BY <1>10, <3>1
<1>17. from \in 0 .. Len(E) /\ to \in 0 .. Len(E)
  BY <1>3
<1>19. ShowsStretch(t, E, T)
  BY <1>15, <1>16 DEF ShowsStretch
<1>20. T = Stretch(E, from, to, d)
  BY DEF T, Stretch
<1> QED
  BY <1>17, <1>19, <1>20

\* client/main.cc:62-80, handler.h:45-63: every panel shows
\* one stretch of the one conversation that the game records.
THEOREM ConversationIsOne == SystemSpec => []OneConversation
<1>1. FullInv => OneConversation
  <2> SUFFICES ASSUME FullInv, NEW c \in Conn
               PROVE  \E from, to \in 0 .. Len(Events) :
                        ShowsStretch(shown[c], Events, Stretch(Events, from, to, c))
    BY ConversationSplit
  <2>1. TypeOK /\ RoomWellFormed /\ UserTypes /\ Pieces /\ PanelInv /\ OrderInv
    BY DEF FullInv, SystemInv, ChatInv, RoomInv
  <2>2. /\ Len(Events) \in Nat /\ DOMAIN Events = 1 .. Len(Events)
        /\ sent[c] \in Seq(Messages) /\ shown[c] \in Seq(Messages)
        /\ since[c] \in Nat /\ seen[c] \in Nat /\ taken[c] \in Nat /\ seen[c] <= taken[c]
    BY <2>1, EventFacts DEF TypeOK, UserTypes, PanelInv
  <2>3. /\ Len(sent[c]) \in Nat /\ DOMAIN sent[c] = 1 .. Len(sent[c])
        /\ Len(shown[c]) \in Nat /\ DOMAIN shown[c] = 1 .. Len(shown[c])
    BY <2>2, LenProperties
  <2>4. seen[c] <= Len(sent[c])
    BY <2>1, <2>2, <2>3, TakenSent
  <2>5. CASE shown[c] = <<>>
    <3>1. DOMAIN shown[c] = {}
      BY <2>5
    <3>2. 0 \in 0 .. Len(Events)
      BY <2>2
    <3>3. Stretch(Events, 0, 0, c) = {}
      BY <2>2 DEF Stretch
    <3>4. ShowsStretch(shown[c], Events, {})
      BY <3>1 DEF ShowsStretch
    <3> QED
      BY <3>2, <3>3, <3>4
  <2>6. CASE shown[c] # <<>>
    <3>1. Len(shown[c]) # 0 /\ Len(shown[c]) <= seen[c]
      BY <2>1, <2>2, <2>6, EmptySeq DEF PanelInv
    <3>2. sent[c] # <<>>
      BY <2>2, <2>3, <2>4, <3>1
    <3>3. Matches(sent[c], Events, since[c], c)
      BY <2>1, <3>2, ChatOrderMatches DEF RoomWellFormed, OrderInv
    <3>4. PICK b \in 0 .. seen[c] : \E g : Picks(g, shown[c], sent[c], b, seen[c], {"MESSAGE"})
      BY <2>1 DEF PanelInv, Shows
    <3>5. PICK g : Picks(g, shown[c], sent[c], b, seen[c], {"MESSAGE"})
      BY <3>4
    <3> DEFINE E == Events
               s == sent[c]
               t == shown[c]
               n == seen[c]
               first == since[c]
    <3>6. /\ Len(E) \in Nat /\ DOMAIN E = 1 .. Len(E) /\ Len(s) \in Nat /\ DOMAIN s = 1 .. Len(s)
          /\ first \in Nat /\ Matches(s, E, first, c) /\ n \in Nat /\ n <= Len(s) /\ b \in 0 .. n
          /\ Len(t) \in Nat /\ DOMAIN t = 1 .. Len(t) /\ t # <<>> /\ Len(t) # 0
          /\ Picks(g, t, s, b, n, {"MESSAGE"})
      BY <2>2, <2>3, <2>4, <2>6, <3>1, <3>3, <3>5
    <3> HIDE DEF E, s, t, n, first
    <3>7. \E from, to \in 0 .. Len(E) :
           ShowsStretch(t, E, Stretch(E, from, to, c))
      BY <3>6, PanelStretch
    <3> QED
      BY <3>7 DEF E, t
  <2> QED
    BY <2>5, <2>6
<1> QED
  BY <1>1, SpecFullInv, PTL

=============================================================================
