----------------------------- MODULE ServerProofs -----------------------------
(***************************************************************************)
(* Proofs about Server, for any sets of connections and names, any number  *)
(* of pieces per frame and any bounds.                                     *)
(***************************************************************************)
EXTENDS Server, SequenceTheorems, FiniteSetTheorems, TLAPS

USE ServerAssumption DEF ServerAssumption

(***************************************************************************)
(* Types.                                                                  *)
(***************************************************************************)

LEMMA Cancel ==
  ASSUME NEW s \in Nat \ {0}, NEW a \in Nat, NEW b \in Nat, s * a <= s * b
  PROVE  a <= b
<1> SUFFICES ASSUME b < a PROVE FALSE
  OBVIOUS
<1>1. PICK d \in Nat \ {0} : a = b + d
  <2>1. a - b \in Nat \ {0} /\ a = b + (a - b)
    OBVIOUS
  <2> QED
    BY <2>1
<1>2. s * a = s * b + s * d
  BY <1>1
<1>3. s * d > 0 /\ s * b \in Nat /\ s * d \in Nat
  OBVIOUS
<1> QED
  BY <1>2, <1>3

\* A frame that has arrived in full was sent.
LEMMA FrameSent ==
  ASSUME TypeOK, NEW c \in Conn, NEW n \in Nat,
         arrived[c] + n <= Segs * Len(stream[c]),
         Segs * (parsed[c] + 1) <= arrived[c] + n
  PROVE  parsed[c] + 1 \in DOMAIN stream[c]
<1>1. /\ stream[c] \in Seq(Frames) /\ Len(stream[c]) \in Nat
      /\ DOMAIN stream[c] = 1 .. Len(stream[c])
      /\ parsed[c] \in Nat /\ arrived[c] \in Nat
  BY LenProperties DEF TypeOK
<1>2. Segs * (parsed[c] + 1) <= Segs * Len(stream[c])
  <2> DEFINE x == Segs * (parsed[c] + 1)
             y == Segs * Len(stream[c])
  <2>1. x \in Nat /\ y \in Nat /\ arrived[c] + n \in Nat
    <3>1. Segs \in Nat /\ parsed[c] + 1 \in Nat /\ Len(stream[c]) \in Nat /\ arrived[c] + n \in Nat
      BY <1>1
    <3>2. \A i, j \in Nat : i * j \in Nat
      OBVIOUS
    <3> QED
      BY <3>1, <3>2, Zenon
  <2>3. x <= arrived[c] + n /\ arrived[c] + n <= y
    BY Zenon
  <2> HIDE DEF x, y
  <2>2. x <= y
    BY <2>1, <2>3
  <2> QED
    BY <2>2 DEF x, y
<1> DEFINE a == parsed[c] + 1
           b == Len(stream[c])
<1>3. Segs \in Nat \ {0} /\ a \in Nat /\ b \in Nat /\ Segs * a <= Segs * b
  BY <1>1, <1>2
<1> HIDE DEF a, b
<1>4. a <= b
  BY <1>3, Cancel
<1> QED
  BY <1>1, <1>4 DEF a, b

LEMMA CompleteFrame ==
  ASSUME TypeOK, NEW c \in Conn, NEW n \in Nat,
         arrived[c] + n <= Segs * Len(stream[c]),
         Segs * (parsed[c] + 1) <= arrived[c] + n
  PROVE  stream[c][parsed[c] + 1] \in Frames
<1>1. stream[c] \in Seq(Frames) /\ DOMAIN stream[c] = 1 .. Len(stream[c])
  BY LenProperties DEF TypeOK
<1> QED
  BY <1>1, FrameSent, ElementOfSeq

LEMMA EventsType ==
  ASSUME TypeOK
  PROVE  Events \in Seq(GameEvents)
BY ConcatProperties DEF TypeOK, Events

\* The handlers keep the types, whichever of them the frame is for.
LEMMA DispatchType ==
  ASSUME TypeOK, NEW c \in Conn, NEW m \in Frames, Dispatch(c, m)
  PROVE  /\ name' \in [Conn -> Name \cup {NoName}]
         /\ sent' \in [Conn -> Seq(Messages)]
         /\ queue' \in Seq(GameEvents)
<1>1. /\ name \in [Conn -> Name \cup {NoName}]
      /\ sent \in [Conn -> Seq(Messages)]
      /\ queue \in Seq(GameEvents)
  BY DEF TypeOK
<1>2. m \in Messages /\ Ack \in Messages /\ Nack \in Messages
  BY DEF Messages
<1>3. m.name \in Name \cup {NoName}
  BY DEF Frames
<1>4. \A n \in Name : Append(queue, [name |-> n, msg |-> m]) \in Seq(GameEvents)
  BY <1>1, AppendProperties DEF GameEvents
<1>5. \A x \in Messages, d \in Conn : Append(sent[d], x) \in Seq(Messages)
  BY <1>1, AppendProperties
<1>6. CASE JoinIgnored(c, m)
  BY <1>1, <1>6 DEF JoinIgnored
<1>7. CASE JoinRefused(c, m)
  BY <1>1, <1>2, <1>5, <1>7 DEF JoinRefused, SendCommand
<1>8. CASE JoinAccepted(c, m)
  <2>1. m.name \in Name
    BY <1>3, <1>8 DEF JoinAccepted
  <2> QED
    BY <1>1, <1>2, <1>4, <1>5, <1>8, <2>1 DEF JoinAccepted, SendCommand, GameHandle
<1>9. CASE name[c] # NoName /\ PlayerMessage(c, m)
  <2>1. name[c] \in Name
    BY <1>1, <1>9
  <2>2. queue' \in Seq(GameEvents)
    BY <1>4, <1>9, <2>1 DEF PlayerMessage, GameHandle
  <2>3. sent' \in [Conn -> Seq(Messages)]
    <3>1. sent' = sent \/ TransmitMessage(c, m)
      BY <1>9 DEF PlayerMessage, RoomHandle
    <3>2. ASSUME TransmitMessage(c, m) PROVE sent' \in [Conn -> Seq(Messages)]
      <4>1. \A d \in Conn : Append(sent[d], m) \in Seq(Messages) /\ sent[d] \in Seq(Messages)
        BY <1>1, <1>2, <1>5
      <4> QED
        BY <3>2, <4>1 DEF TransmitMessage
    <3> QED
      BY <1>1, <3>1, <3>2
  <2> QED
    BY <1>1, <1>9, <2>2, <2>3 DEF PlayerMessage
<1> QED
  BY <1>6, <1>7, <1>8, <1>9 DEF Dispatch

LEMMA InitType == Init => TypeOK
<1> SUFFICES ASSUME Init PROVE TypeOK
  OBVIOUS
<1>1. /\ <<>> \in Seq(Frames) /\ <<>> \in Seq(Conn) /\ <<>> \in Seq(Messages)
      /\ <<>> \in Seq(GameEvents) /\ Len(<<>>) = 0
  BY EmptySeq
<1>2. \A c \in Conn : /\ Len(stream[c]) <= MaxFrames[c]
                      /\ Segs * parsed[c] <= arrived[c]
                      /\ arrived[c] <= Segs * Len(stream[c])
  <2> TAKE c \in Conn
  <2>1. stream[c] = <<>> /\ parsed[c] = 0 /\ arrived[c] = 0
    BY DEF Init
  <2>2. Segs * 0 = 0 /\ Len(stream[c]) = 0 /\ MaxFrames[c] \in Nat
    BY <1>1, <2>1
  <2>3. Segs * parsed[c] = 0 /\ Segs * Len(stream[c]) = 0
    BY <2>1, <2>2
  <2> QED
    BY <2>1, <2>2, <2>3
<1> QED
  BY <1>1, <1>2 DEF Init, TypeOK

LEMMA EnvironmentType ==
  ASSUME TypeOK, Environment
  PROVE  TypeOK'
<1>1. ASSUME NEW c \in Conn, Connect(c) PROVE TypeOK'
  BY <1>1 DEF Connect, TypeOK, roomVars, gameVars, ctlVars
<1>2. ASSUME NEW c \in Conn, ClientSend(c) PROVE TypeOK'
  <2>1. PICK r \in Requests : ClientSends(c, r)
    BY <1>2 DEF ClientSend
  <2>2. stream[c] \in Seq(Frames) /\ Len(stream[c]) \in Nat
    BY LenProperties DEF TypeOK
  <2> DEFINE f == Frame(c, Len(stream[c]) + 1, r[1], r[2])
  <2>3. f \in Frames
    BY <2>2 DEF Requests, Frame, Frames
  <2>4. stream' = [stream EXCEPT ![c] = Append(stream[c], f)]
    BY <2>1 DEF ClientSends
  <2>5. Append(stream[c], f) \in Seq(Frames) /\ Len(Append(stream[c], f)) = Len(stream[c]) + 1
    BY <2>2, <2>3, AppendProperties
  <2>6. stream' \in [Conn -> Seq(Frames)]
    BY <2>4, <2>5 DEF TypeOK
  <2>7. /\ Len(stream'[c]) = Len(stream[c]) + 1
        /\ \A d \in Conn : d # c => stream'[d] = stream[d]
    BY <2>4, <2>5 DEF TypeOK
  <2>8. \A d \in Conn : Len(stream'[d]) <= MaxFrames[d]
    BY <2>1, <2>2, <2>7 DEF ClientSends, TypeOK
  <2>9. Segs * Len(stream[c]) <= Segs * (Len(stream[c]) + 1)
    BY <2>2
  <2>10. \A d \in Conn : Segs * parsed[d] <= arrived[d] /\ arrived[d] <= Segs * Len(stream'[d])
    <3>1. Segs * Len(stream[c]) \in Nat /\ Segs * (Len(stream[c]) + 1) \in Nat
      BY <2>2
    <3>2. Segs * parsed[c] <= arrived[c] /\ arrived[c] <= Segs * Len(stream[c])
          /\ arrived[c] \in Nat
      BY DEF TypeOK
    <3>3. arrived[c] <= Segs * Len(stream'[c])
      BY <2>7, <2>9, <3>1, <3>2
    <3> QED
      BY <2>7, <3>2, <3>3 DEF TypeOK
  <2> QED
    BY <2>1, <2>6, <2>8, <2>10 DEF ClientSends, TypeOK, roomVars, gameVars, ctlVars
<1>3. ASSUME NEW c \in Conn, ClientLeave(c) PROVE TypeOK'
  BY <1>3 DEF ClientLeave, HangUp, TypeOK, roomVars, gameVars, ctlVars
<1>4. CASE Interrupt
  BY <1>4 DEF Interrupt, TypeOK, netVars, roomVars, gameVars
<1> QED
  BY <1>1, <1>2, <1>3, <1>4 DEF Environment

LEMMA IoThreadType ==
  ASSUME TypeOK, IoThread
  PROVE  TypeOK'
<1>1. ASSUME NEW c \in Conn, HandleAccept(c) PROVE TypeOK'
  <2>1. participants' \in Seq(Conn)
    BY <1>1, AppendProperties DEF HandleAccept, TypeOK
  <2>2. Len(Events) \in Nat
    BY EventsType, LenProperties
  <2> QED
    BY <1>1, <2>1, <2>2 DEF HandleAccept, Opened, TypeOK, gameVars, ctlVars
<1>2. ASSUME NEW c \in Conn, HandleAcceptVanished(c) PROVE TypeOK'
  BY <1>2 DEF HandleAcceptVanished, TypeOK, netVars, roomVars, gameVars
<1>3. CASE HandleAcceptError
  BY <1>3 DEF HandleAcceptError, TypeOK, roomVars, gameVars, ctlVars
<1>4. ASSUME NEW c \in Conn, Reading(c) PROVE TypeOK'
  <2>1. PICK n \in 1 .. Segs * MaxFrames[c] : HandleRead(c, n)
    BY <1>4 DEF Reading
  <2>2. n \in Nat /\ arrived[c] \in Nat /\ parsed[c] \in Nat
    BY DEF TypeOK
  <2>3. arrived' \in [Conn -> Nat]
    <3>1. arrived \in [Conn -> Nat]
      BY DEF TypeOK
    <3>2. arrived' = [arrived EXCEPT ![c] = @ + n]
      BY <2>1 DEF HandleRead
    <3> QED
      BY <2>2, <3>1, <3>2
  <2>6. /\ arrived'[c] = arrived[c] + n /\ arrived[c] + n <= Segs * Len(stream[c])
        /\ \A d \in Conn : d # c => arrived'[d] = arrived[d]
    BY <2>1 DEF HandleRead, TypeOK
  <2>4. CASE Segs * (parsed[c] + 1) <= arrived[c] + n
    <3>1. Dispatch(c, stream[c][parsed[c] + 1]) /\ parsed' = [parsed EXCEPT ![c] = @ + 1]
      BY <2>1, <2>2, <2>4 DEF HandleRead
    <3>2. stream[c][parsed[c] + 1] \in Frames
      BY <2>1, <2>2, <2>4, CompleteFrame DEF HandleRead
    <3>3. /\ name' \in [Conn -> Name \cup {NoName}]
          /\ sent' \in [Conn -> Seq(Messages)]
          /\ queue' \in Seq(GameEvents)
      BY <3>1, <3>2, DispatchType
    <3>4. \A d \in Conn : Segs * parsed'[d] <= arrived'[d]
                          /\ arrived'[d] <= Segs * Len(stream[d])
      <4>1. parsed'[c] = parsed[c] + 1 /\ \A d \in Conn : d # c => parsed'[d] = parsed[d]
        BY <3>1 DEF TypeOK
      <4>2. \A d \in Conn : Segs * parsed[d] <= arrived[d] /\ arrived[d] <= Segs * Len(stream[d])
        BY DEF TypeOK
      <4>3. Segs * parsed'[c] <= arrived'[c] /\ arrived'[c] <= Segs * Len(stream[c])
        BY <2>4, <2>6, <4>1
      <4> QED
        BY <2>6, <4>1, <4>2, <4>3
    <3>5. UNCHANGED <<accepting, conn, stream, participants, since, gameVars, ctlVars>>
      BY <2>1 DEF HandleRead
    <3>6. parsed' \in [Conn -> Nat]
      <4>1. parsed \in [Conn -> Nat]
        BY DEF TypeOK
      <4> QED
        BY <2>2, <3>1, <4>1
    <3> QED
      BY <2>3, <3>3, <3>4, <3>5, <3>6 DEF TypeOK, gameVars, ctlVars
  <2>5. CASE ~(Segs * (parsed[c] + 1) <= arrived[c] + n)
    <3>1. UNCHANGED <<parsed, name, sent, queue>>
      BY <2>1, <2>2, <2>5 DEF HandleRead
    <3>2. \A d \in Conn : Segs * parsed[d] <= arrived'[d]
                          /\ arrived'[d] <= Segs * Len(stream[d])
      <4>1. Segs * parsed[c] <= arrived[c] /\ Segs * parsed[c] \in Nat
        BY <2>2 DEF TypeOK
      <4>2. Segs * parsed[c] <= arrived[c] + n
        BY <2>2, <4>1
      <4> QED
        BY <2>6, <4>2 DEF TypeOK
    <3>3. UNCHANGED <<accepting, conn, stream, participants, since, gameVars, ctlVars>>
      BY <2>1 DEF HandleRead
    <3>4. parsed' = parsed /\ name' = name /\ sent' = sent /\ queue' = queue
      BY <3>1
    <3> QED
      BY <2>3, <3>2, <3>3, <3>4 DEF TypeOK, gameVars, ctlVars
  <2> QED
    BY <2>4, <2>5
<1>5. ASSUME NEW c \in Conn, HandleReadError(c) PROVE TypeOK'
  BY <1>5 DEF HandleReadError, TypeOK, roomVars, gameVars, ctlVars
<1>6. CASE SignalStore
  BY <1>6 DEF SignalStore, TypeOK, netVars, roomVars, gameVars
<1>7. CASE SignalStop
  BY <1>7 DEF SignalStop, TypeOK, netVars, roomVars, gameVars
<1> QED
  BY <1>1, <1>2, <1>3, <1>4, <1>5, <1>6, <1>7 DEF IoThread, Accepting, Signal

LEMMA MainThreadType ==
  ASSUME TypeOK, MainThread
  PROVE  TypeOK'
<1>1. CASE StartServer \/ StartServerFails
  BY <1>1 DEF StartServer, StartServerFails, MainAt, TypeOK, netVars, roomVars, gameVars
<1>2. CASE TestRun
  BY <1>2 DEF TestRun, MainAt, TypeOK, netVars, roomVars, gameVars
<1>3. CASE Poll
  BY <1>3 DEF Poll, MainAt, TypeOK, netVars, roomVars, gameVars
<1>4. CASE Take
  <2>1. <<>> \in Seq(GameEvents)
    BY EmptySeq
  <2> QED
    BY <1>4, <2>1 DEF Take, MainAt, TypeOK, netVars, roomVars
<1>5. CASE Process
  <2>1. <<>> \in Seq(GameEvents) /\ log' \in Seq(GameEvents)
    BY <1>5, EmptySeq, ConcatProperties DEF Process, TypeOK
  <2> QED
    BY <1>5, <2>1 DEF Process, MainAt, TypeOK, netVars, roomVars
<1>6. CASE Sleep
  BY <1>6 DEF Sleep, MainAt, TypeOK, netVars, roomVars, gameVars
<1>7. CASE JoinIo
  BY <1>7 DEF JoinIo, MainAt, TypeOK, netVars, roomVars, gameVars
<1> QED
  BY <1>1, <1>2, <1>3, <1>4, <1>5, <1>6, <1>7 DEF MainThread

LEMMA NextType == TypeOK /\ [Next]_vars => TypeOK'
<1> SUFFICES ASSUME TypeOK, [Next]_vars PROVE TypeOK'
  OBVIOUS
<1>1. CASE UNCHANGED vars
  BY <1>1 DEF vars, netVars, roomVars, gameVars, ctlVars, TypeOK
<1> QED
  BY <1>1, EnvironmentType, IoThreadType, MainThreadType DEF Next, Over

\* The server's variables keep their types; in particular no frame is taken
\* before it has arrived and none arrives before it was sent.
THEOREM TypeCorrect == Spec => []TypeOK
BY InitType, NextType, PTL DEF Spec

(***************************************************************************)
(* Shutdown.  loop() returns after the join, hence after io.stop().        *)
(***************************************************************************)

ReturnInv == main = "returned" => io = "stopped"

LEMMA ReturnInductive == ReturnInv /\ [Next]_vars => ReturnInv'
<1> SUFFICES ASSUME ReturnInv, [Next]_vars PROVE ReturnInv'
  OBVIOUS
<1> USE DEF ReturnInv
<1>1. CASE Environment
  BY <1>1 DEF Environment, Connect, ClientSend, ClientSends, ClientLeave, HangUp, Interrupt, ctlVars
<1>2. CASE IoThread
  BY <1>2 DEF IoThread, Accepting, HandleAccept, HandleAcceptVanished, HandleAcceptError,
              Reading, HandleRead, HandleReadError, Signal, SignalStore, SignalStop,
              IoRuns, ctlVars
<1>3. CASE MainThread
  BY <1>3 DEF MainThread, StartServer, StartServerFails, TestRun, Poll, Take, Process, Sleep, JoinIo, MainAt
<1>4. CASE UNCHANGED vars
  BY <1>4 DEF vars, ctlVars
<1> QED
  BY <1>1, <1>2, <1>3, <1>4 DEF Next, Over

\* game.cc:61: once loop() has returned no completion handler touches the room,
\* the connections or the queue.
THEOREM QueueOutlivesHandlers == Spec => NoUseAfterReturn
<1>1. Init => ReturnInv
  BY DEF Init, ReturnInv
<1>2. ASSUME ReturnInv, [Next]_vars
      PROVE  [main = "returned" =>
                UNCHANGED <<accepting, arrived, parsed, roomVars, queue, io>>]_vars
  <2> SUFFICES ASSUME main = "returned", Next
               PROVE  UNCHANGED <<accepting, arrived, parsed, roomVars, queue, io>>
    BY <1>2
  <2>1. io = "stopped"
    BY <1>2 DEF ReturnInv
  <2>2. CASE Environment
    BY <2>2 DEF Environment, Connect, ClientSend, ClientSends, ClientLeave, HangUp, Interrupt, netVars, ctlVars
  <2>3. ~IoThread
    BY <2>1 DEF IoThread, Accepting, HandleAccept, HandleAcceptVanished, HandleAcceptError,
                Reading, HandleRead, HandleReadError, Signal, SignalStore, SignalStop, IoRuns
  <2>4. ~MainThread
    BY DEF MainThread, StartServer, StartServerFails, TestRun, Poll, Take, Process, Sleep, JoinIo, MainAt
  <2>5. CASE UNCHANGED vars
    BY <2>5 DEF vars, netVars, ctlVars
  <2> QED
    BY <2>2, <2>3, <2>4, <2>5 DEF Next, Over
<1> QED
  BY <1>1, <1>2, ReturnInductive, PTL DEF Spec, NoUseAfterReturn

(***************************************************************************)
(* The room and its names.                                                 *)
(***************************************************************************)

\* What a frame may do to the players: answers go to members of the room, and
\* only a nameless connection gets a name, one that no member has.
LEMMA DispatchEffect ==
  ASSUME TypeOK, NEW c \in Conn, NEW m \in Frames, Dispatch(c, m), InRoom(c)
  PROVE  /\ \A d \in Conn : ~InRoom(d) => sent'[d] = sent[d]
         /\ \/ name' = name
            \/ /\ ~Named(c) /\ m.name # NoName /\ ~FindByName(m.name)
               /\ name' = [name EXCEPT ![c] = m.name]
<1>1. sent \in [Conn -> Seq(Messages)]
  BY DEF TypeOK
<1>2. CASE JoinIgnored(c, m)
  BY <1>2 DEF JoinIgnored
<1>3. CASE JoinRefused(c, m)
  BY <1>1, <1>3 DEF JoinRefused, SendCommand
<1>4. CASE name[c] = NoName /\ JoinAccepted(c, m)
  BY <1>1, <1>4 DEF JoinAccepted, SendCommand, Named
<1>5. CASE name[c] # NoName /\ PlayerMessage(c, m)
  BY <1>1, <1>5 DEF PlayerMessage, RoomHandle, TransmitMessage
<1> QED
  BY <1>2, <1>3, <1>4, <1>5 DEF Dispatch

\* A read: only c's own connection advances.
LEMMA ReadEffect ==
  ASSUME TypeOK, RoomWellFormed, NEW c \in Conn, Reading(c)
  PROVE  /\ UNCHANGED <<conn, participants, since>>
         /\ InRoom(c)
         /\ \A d \in Conn : d # c => parsed'[d] = parsed[d]
         /\ \A d \in Conn : ~InRoom(d) => sent'[d] = sent[d]
         /\ \/ name' = name
            \/ \E n \in Name : /\ ~Named(c) /\ ~FindByName(n)
                               /\ name' = [name EXCEPT ![c] = n]
<1>1. PICK n \in 1 .. Segs * MaxFrames[c] : HandleRead(c, n)
  BY DEF Reading
<1>2. n \in Nat
  OBVIOUS
<1>3. UNCHANGED <<conn, participants, since>>
  BY <1>1 DEF HandleRead
<1>4. InRoom(c)
  BY <1>1 DEF HandleRead, RoomWellFormed
<1>5. CASE /\ Segs * (parsed[c] + 1) <= arrived[c] + n
           /\ parsed' = [parsed EXCEPT ![c] = @ + 1]
           /\ Dispatch(c, stream[c][parsed[c] + 1])
  <2>1. stream[c][parsed[c] + 1] \in Frames
    BY <1>1, <1>2, <1>5, CompleteFrame DEF HandleRead
  <2> DEFINE m == stream[c][parsed[c] + 1]
  <2>2. m.name \in Name \cup {NoName}
    BY <2>1 DEF Frames
  <2>3. /\ \A d \in Conn : ~InRoom(d) => sent'[d] = sent[d]
        /\ \/ name' = name
           \/ /\ ~Named(c) /\ m.name # NoName /\ ~FindByName(m.name)
              /\ name' = [name EXCEPT ![c] = m.name]
    BY <1>4, <1>5, <2>1, DispatchEffect
  <2>4. \A d \in Conn : d # c => parsed'[d] = parsed[d]
    BY <1>5 DEF TypeOK
  <2> QED
    BY <1>3, <1>4, <2>2, <2>3, <2>4
<1>6. CASE UNCHANGED <<parsed, name, sent, queue>>
  BY <1>3, <1>4, <1>6
<1> QED
  BY <1>1, <1>5, <1>6 DEF HandleRead

RoomInv == TypeOK /\ RoomWellFormed /\ UniqueNames

LEMMA InitRoom == Init => RoomInv
<1> SUFFICES ASSUME Init PROVE RoomInv
  OBVIOUS
<1>1. DOMAIN participants = {}
  BY DEF Init
<1>2. RoomWellFormed
  BY <1>1 DEF Init, RoomWellFormed, InRoom, Named
<1> QED
  BY <1>2, InitType DEF Init, RoomInv, UniqueNames, Named

\* Steps that leave the room, its members' life and the names alone.
LEMMA RoomUnchanged ==
  ASSUME RoomInv, UNCHANGED <<participants, parsed, name, sent>>,
         \A c \in Conn : conn'[c] = conn[c] \/ (~InRoom(c) /\ conn'[c] \in {"backlog", "vanished"})
                          \/ (InRoom(c) /\ conn'[c] \in {"hungup", "dead"})
  PROVE  RoomWellFormed' /\ UniqueNames'
BY DEF RoomInv, RoomWellFormed, UniqueNames, InRoom, Named

LEMMA AcceptRoom ==
  ASSUME RoomInv, NEW c \in Conn, HandleAccept(c)
  PROVE  RoomWellFormed' /\ UniqueNames'
<1>1. /\ participants \in Seq(Conn) /\ participants' = Append(participants, c)
      /\ conn' = [conn EXCEPT ![c] = Opened(c)] /\ conn[c] \in {"backlog", "vanished"}
      /\ conn \in [Conn -> {"none", "backlog", "vanished", "reading", "hungup", "dead"}]
      /\ UNCHANGED <<parsed, name, sent>>
      /\ Opened(c) \in {"reading", "hungup"}
  BY DEF HandleAccept, Waiting, Opened, RoomInv, TypeOK
<1>2. /\ Len(participants) \in Nat
      /\ DOMAIN participants = 1 .. Len(participants)
      /\ DOMAIN participants' = 1 .. Len(participants) + 1
      /\ \A i \in 1 .. Len(participants) : participants'[i] = participants[i]
      /\ participants'[Len(participants) + 1] = c
  BY <1>1, LenProperties, AppendProperties
<1>3. ~InRoom(c)
  BY <1>1 DEF RoomInv, RoomWellFormed
<1>4. \A d \in Conn : InRoom(d)' <=> InRoom(d) \/ d = c
  BY <1>2 DEF InRoom
<1>5. \A i, j \in DOMAIN participants' : participants'[i] = participants'[j] => i = j
  BY <1>2, <1>3 DEF InRoom, RoomInv, RoomWellFormed
<1>6. \A d \in Conn :
        /\ InRoom(d)' <=> conn'[d] \in {"reading", "hungup", "dead"}
        /\ Named(d)' \/ parsed'[d] > 0 \/ sent'[d] # <<>> => InRoom(d)'
  BY <1>1, <1>4 DEF RoomInv, RoomWellFormed, Named
<1> QED
  BY <1>1, <1>5, <1>6 DEF RoomInv, RoomWellFormed, UniqueNames, Named

LEMMA ReadRoom ==
  ASSUME RoomInv, NEW c \in Conn, Reading(c)
  PROVE  RoomWellFormed' /\ UniqueNames'
<1>1. /\ UNCHANGED <<conn, participants, since>>
      /\ InRoom(c)
      /\ \A d \in Conn : d # c => parsed'[d] = parsed[d]
      /\ \A d \in Conn : ~InRoom(d) => sent'[d] = sent[d]
      /\ \/ name' = name
         \/ \E n \in Name : /\ ~Named(c) /\ ~FindByName(n)
                            /\ name' = [name EXCEPT ![c] = n]
  BY ReadEffect DEF RoomInv
<1>2. \A d \in Conn : d # c => name'[d] = name[d]
  BY <1>1 DEF RoomInv, TypeOK
<1>3. \A d \in Conn : InRoom(d)' <=> InRoom(d)
  BY <1>1 DEF InRoom
<1>4. RoomWellFormed'
  BY <1>1, <1>2, <1>3 DEF RoomInv, RoomWellFormed, Named
<1>5. ASSUME NEW n \in Name, ~FindByName(n), name' = [name EXCEPT ![c] = n]
      PROVE  UniqueNames'
  <2>1. \A d \in Conn : name[d] # n
    BY <1>5 DEF RoomInv, RoomWellFormed, Named, InRoom, FindByName
  <2>2. name'[c] = n
    BY <1>5 DEF RoomInv, TypeOK
  <2> QED
    BY <1>2, <2>1, <2>2 DEF RoomInv, UniqueNames, Named
<1>6. CASE name' = name
  BY <1>4, <1>6 DEF RoomInv, UniqueNames, Named
<1> QED
  BY <1>1, <1>4, <1>5, <1>6

LEMMA NextRoom == RoomInv /\ [Next]_vars => RoomInv'
<1> SUFFICES ASSUME RoomInv, [Next]_vars PROVE RoomWellFormed' /\ UniqueNames'
  BY NextType DEF RoomInv
<1>1. CASE Environment
  <2>1. UNCHANGED <<participants, parsed, name, sent>>
    BY <1>1 DEF Environment, Connect, ClientSend, ClientSends, ClientLeave, HangUp, Interrupt, netVars, roomVars
  <2>2. \A c \in Conn : conn'[c] = conn[c]
                         \/ (~InRoom(c) /\ conn'[c] \in {"backlog", "vanished"})
                         \/ (InRoom(c) /\ conn'[c] \in {"hungup", "dead"})
    BY <1>1 DEF Environment, Connect, ClientSend, ClientSends, ClientLeave, HangUp, Interrupt, netVars,
                RoomInv, RoomWellFormed, TypeOK
  <2> QED
    BY <2>1, <2>2, RoomUnchanged
<1>2. ASSUME NEW c \in Conn, HandleReadError(c) PROVE RoomWellFormed' /\ UniqueNames'
  <2>1. UNCHANGED <<participants, parsed, name, sent>>
    BY <1>2 DEF HandleReadError, roomVars
  <2>2. InRoom(c) /\ conn' = [conn EXCEPT ![c] = "dead"]
    BY <1>2 DEF HandleReadError, RoomInv, RoomWellFormed
  <2> QED
    BY <2>1, <2>2, RoomUnchanged DEF RoomInv, TypeOK
<1>3. CASE \/ \E c \in Conn : HandleAcceptVanished(c)
           \/ HandleAcceptError \/ Signal
  <2>1. UNCHANGED <<participants, parsed, name, sent, conn>>
    BY <1>3 DEF HandleAcceptVanished, HandleAcceptError, Signal, SignalStore, SignalStop,
                netVars, roomVars
  <2> QED
    BY <2>1, RoomUnchanged
<1>4. CASE MainThread
  <2>1. UNCHANGED <<participants, parsed, name, sent, conn>>
    BY <1>4 DEF MainThread, StartServer, StartServerFails, TestRun, Poll, Take, Process, Sleep, JoinIo,
                netVars, roomVars
  <2> QED
    BY <2>1, RoomUnchanged
<1>5. CASE UNCHANGED vars
  <2>1. UNCHANGED <<participants, parsed, name, sent, conn>>
    BY <1>5 DEF vars, netVars, roomVars
  <2> QED
    BY <2>1, RoomUnchanged
<1>6. CASE IoThread
  <2>1. CASE \E c \in Conn : HandleAccept(c)
    BY <2>1, AcceptRoom
  <2>2. CASE \E c \in Conn : Reading(c)
    BY <2>2, ReadRoom
  <2> QED
    BY <1>2, <1>3, <1>6, <2>1, <2>2 DEF IoThread, Accepting
<1> QED
  BY <1>1, <1>4, <1>5, <1>6 DEF Next, Over

LEMMA SpecRoom == Spec => []RoomInv
BY InitRoom, NextRoom, PTL DEF Spec

\* handler.h: a connection is in the room at most once, from its accept on.
THEOREM RoomCorrect == Spec => []RoomWellFormed
BY SpecRoom, PTL DEF RoomInv

\* handler.h: two connections never have the same name.
THEOREM NamesAreUnique == Spec => []UniqueNames
BY SpecRoom, PTL DEF RoomInv

\* tcp_connection.h: handle_receive asks the join handler only while there is
\* no name, so a name, once given, stays.
THEOREM NamesStay == Spec => NameOnce
<1>1. ASSUME RoomInv, [Next]_vars
      PROVE  [\A c \in Conn : Named(c) => name'[c] = name[c]]_vars
  <2> SUFFICES ASSUME Next PROVE \A c \in Conn : Named(c) => name'[c] = name[c]
    BY <1>1
  <2>1. CASE \E c \in Conn : Reading(c)
    BY <1>1, <2>1, ReadEffect DEF RoomInv, TypeOK
  <2>2. CASE ~ \E c \in Conn : Reading(c)
    <3>1. name' = name
      BY <2>2 DEF Next, Over, vars, Environment, Connect, ClientSend, ClientSends, ClientLeave, HangUp, Interrupt,
           IoThread, Accepting, HandleAccept, HandleAcceptVanished, HandleAcceptError,
           HandleReadError, Signal, SignalStore, SignalStop,
           MainThread, StartServer, StartServerFails, TestRun, Poll, Take, Process, Sleep, JoinIo, roomVars
    <3> QED
      BY <3>1
  <2> QED
    BY <2>1, <2>2
<1> QED
  BY <1>1, SpecRoom, PTL DEF Spec, NameOnce

(***************************************************************************)
(* The server implements the chat service of module Chat.                  *)
(***************************************************************************)

(***************************************************************************)
(* What the refinement needs beyond RoomInv: the main loop takes a batch   *)
(* only after the one before it is used up, so that taking one moves       *)
(* events without changing their sequence; and frame k of c says that it   *)
(* is frame k of c.                                                        *)
(***************************************************************************)

BatchInv == batch # <<>> => main = "process"
FrameInv ==
  \A c \in Conn : \A i \in DOMAIN stream[c] : stream[c][i].by = c /\ stream[c][i].nr = i
ChatInv == RoomInv /\ BatchInv /\ FrameInv

LEMMA BatchInductive == BatchInv /\ [Next]_vars => BatchInv'
<1> SUFFICES ASSUME BatchInv, [Next]_vars PROVE BatchInv'
  OBVIOUS
<1> USE DEF BatchInv
<1>1. CASE Environment
  BY <1>1 DEF Environment, Connect, ClientSend, ClientSends, ClientLeave, HangUp, Interrupt,
              gameVars, ctlVars
<1>2. CASE IoThread
  BY <1>2 DEF IoThread, Accepting, HandleAccept, HandleAcceptVanished, HandleAcceptError,
              Reading, HandleRead, HandleReadError, Signal, SignalStore, SignalStop,
              gameVars, ctlVars
<1>3. CASE MainThread
  BY <1>3 DEF MainThread, StartServer, StartServerFails, TestRun, Poll, Take, Process, Sleep, JoinIo, MainAt,
              gameVars
<1>4. CASE UNCHANGED vars
  BY <1>4 DEF vars, gameVars, ctlVars
<1> QED
  BY <1>1, <1>2, <1>3, <1>4 DEF Next, Over

LEMMA SendFrame ==
  ASSUME TypeOK, FrameInv, NEW c \in Conn, ClientSend(c)
  PROVE  FrameInv'
<1>1. PICK r \in Requests : ClientSends(c, r)
  BY DEF ClientSend
<1>2. stream[c] \in Seq(Frames) /\ Len(stream[c]) \in Nat
      /\ DOMAIN stream[c] = 1 .. Len(stream[c])
  BY LenProperties DEF TypeOK
<1> DEFINE f == Frame(c, Len(stream[c]) + 1, r[1], r[2])
<1>3. f \in Frames /\ f.by = c /\ f.nr = Len(stream[c]) + 1
  BY <1>2 DEF Requests, Frame, Frames
<1>4. stream' = [stream EXCEPT ![c] = Append(stream[c], f)]
  BY <1>1 DEF ClientSends
<1> HIDE DEF f
<1>5. /\ Len(Append(stream[c], f)) = Len(stream[c]) + 1
      /\ DOMAIN Append(stream[c], f) = 1 .. Len(stream[c]) + 1
      /\ \A i \in 1 .. Len(stream[c]) : Append(stream[c], f)[i] = stream[c][i]
      /\ Append(stream[c], f)[Len(stream[c]) + 1] = f
  BY <1>2, <1>3, AppendProperties, LenProperties
<1>6. /\ stream'[c] = Append(stream[c], f)
      /\ \A d \in Conn : d # c => stream'[d] = stream[d]
  BY <1>4 DEF TypeOK
<1>7. \A i \in DOMAIN stream'[c] : stream'[c][i].by = c /\ stream'[c][i].nr = i
  <2> TAKE i \in DOMAIN stream'[c]
  <2>1. CASE i = Len(stream[c]) + 1
    BY <1>3, <1>5, <1>6, <2>1
  <2>2. CASE i \in 1 .. Len(stream[c])
    BY <1>2, <1>5, <1>6, <2>2 DEF FrameInv
  <2> QED
    BY <1>2, <1>5, <1>6, <2>1, <2>2
<1> QED
  BY <1>6, <1>7 DEF FrameInv

LEMMA FrameInductive == TypeOK /\ FrameInv /\ [Next]_vars => FrameInv'
<1> SUFFICES ASSUME TypeOK, FrameInv, [Next]_vars PROVE FrameInv'
  OBVIOUS
<1>1. CASE \E c \in Conn : ClientSend(c)
  BY <1>1, SendFrame
<1>2. CASE ~ \E c \in Conn : ClientSend(c)
  <2>1. stream' = stream
    BY <1>2 DEF Next, Over, vars, Environment, Connect, ClientLeave, HangUp, Interrupt,
         IoThread, Accepting, HandleAccept, HandleAcceptVanished, HandleAcceptError,
         Reading, HandleRead, HandleReadError, Signal, SignalStore, SignalStop,
         MainThread, StartServer, StartServerFails, TestRun, Poll, Take, Process, Sleep, JoinIo, netVars
  <2> QED
    BY <2>1 DEF FrameInv
<1> QED
  BY <1>1, <1>2

LEMMA InitChat == Init => ChatInv
<1>1. Init => FrameInv
  <2> SUFFICES ASSUME Init, NEW c \in Conn, NEW i \in DOMAIN stream[c] PROVE FALSE
    BY DEF FrameInv
  <2>1. stream[c] = <<>>
    BY DEF Init
  <2> QED
    BY <2>1
<1>2. Init => BatchInv
  BY DEF Init, BatchInv
<1> QED
  BY <1>1, <1>2, InitRoom DEF ChatInv

LEMMA SpecChatInv == Spec => []ChatInv
<1>1. Init => BatchInv /\ FrameInv
  BY InitChat DEF ChatInv
<1>2. RoomInv => TypeOK
  BY DEF RoomInv
<1> QED
  BY <1>1, <1>2, SpecRoom, BatchInductive, FrameInductive, PTL DEF Spec, ChatInv

(***************************************************************************)
(* The steps.                                                              *)
(***************************************************************************)

\* A step that changes none of what the abstract variables are made of.
LEMMA Stutter ==
  ASSUME UNCHANGED <<participants, parsed, name, sent>>, Events' = Events
  PROVE  UNCHANGED Room!vars
<1>1. \A c \in Conn : InRoom(c)' <=> InRoom(c)
  BY DEF InRoom
<1> QED
  BY <1>1 DEF Room!vars

LEMMA EnterStep ==
  ASSUME ChatInv, NEW c \in Conn, HandleAccept(c)
  PROVE  Room!Enter(c)
<1>1. /\ participants \in Seq(Conn) /\ participants' = Append(participants, c)
      /\ conn[c] \in {"backlog", "vanished"} /\ UNCHANGED <<parsed, name, sent, queue, batch, log>>
  BY DEF HandleAccept, Waiting, ChatInv, RoomInv, TypeOK, gameVars
<1>2. /\ DOMAIN participants = 1 .. Len(participants) /\ Len(participants) \in Nat
      /\ DOMAIN participants' = 1 .. Len(participants) + 1
      /\ \A i \in 1 .. Len(participants) : participants'[i] = participants[i]
      /\ participants'[Len(participants) + 1] = c
  BY <1>1, LenProperties, AppendProperties
<1>3. ~InRoom(c)
  BY <1>1 DEF ChatInv, RoomInv, RoomWellFormed
<1>4. \A d \in Conn : InRoom(d)' <=> InRoom(d) \/ d = c
  BY <1>2 DEF InRoom
<1>5. {d \in Conn : InRoom(d)'} = {d \in Conn : InRoom(d)} \cup {c}
  BY <1>4
<1>6. Events' = Events
  BY <1>1 DEF Events
<1> QED
  BY <1>1, <1>3, <1>5, <1>6 DEF Room!Enter

\* Pushing an event appends it to the conversation.
LEMMA PushEvent ==
  ASSUME TypeOK, NEW n \in Name, NEW m \in Frames, GameHandle(n, m), UNCHANGED gameVars
  PROVE  Events' = Append(Events, [name |-> n, msg |-> m])
<1> DEFINE x == [name |-> n, msg |-> m]
<1>1. x \in GameEvents
  BY DEF GameEvents
<1>2. log \in Seq(GameEvents) /\ batch \in Seq(GameEvents) /\ queue \in Seq(GameEvents)
  BY DEF TypeOK
<1>3. queue' = Append(queue, x) /\ log' = log /\ batch' = batch
  BY DEF GameHandle, gameVars
<1> HIDE DEF x
<1>4. log \o batch \in Seq(GameEvents) /\ (log \o batch) \o queue \in Seq(GameEvents)
  BY <1>2, ConcatProperties
<1>5. <<x>> \in Seq(GameEvents)
  BY <1>1
<1>6. (log \o batch) \o Append(queue, x) = Append((log \o batch) \o queue, x)
  <2> DEFINE l == log \o batch
             G == GameEvents
  <2>1. l \in Seq(G) /\ queue \in Seq(G) /\ x \in G
    BY <1>1, <1>2, <1>4
  <2> HIDE DEF l, G
  <2>2. l \o Append(queue, x) = Append(l \o queue, x)
    BY <2>1
  <2> QED
    BY <2>2 DEF l
<1> QED
  BY <1>3, <1>6 DEF Events, x

\* The look-up among the participants finds exactly the names that are taken.
LEMMA FreeName ==
  ASSUME RoomInv, NEW n \in Name \cup {NoName}
  PROVE  Room!Free(n) <=> n # NoName /\ ~FindByName(n)
<1>1. \A d \in Conn : name[d] # NoName => \E i \in DOMAIN participants : participants[i] = d
  BY DEF RoomInv, RoomWellFormed, Named, InRoom
<1>2. \A i \in DOMAIN participants : participants[i] \in Conn
  BY ElementOfSeq, LenProperties DEF RoomInv, TypeOK
<1> QED
  BY <1>1, <1>2 DEF Room!Free, FindByName

\* What is dispatched is the next frame of its connection, and the handlers do
\* with it what the abstract room does.
LEMMA DispatchStep ==
  ASSUME ChatInv, NEW c \in Conn, NEW m \in Room!NextFrames(c), m \in Frames,
         InRoom(c), Dispatch(c, m), UNCHANGED <<participants, gameVars>>
  PROVE  Room!Ignore(c, m) \/ Room!Refuse(c, m) \/ Room!Grant(c, m) \/ Room!Say(c, m)
<1>1. m.name \in Name \cup {NoName}
  BY DEF Frames
<1>2. TypeOK /\ RoomInv /\ sent \in [Conn -> Seq(Messages)] /\ name[c] \in Name \cup {NoName}
  BY DEF ChatInv, RoomInv, TypeOK
<1>3. Room!Ack = Ack /\ Room!Nack = Nack
  BY DEF Room!Ack, Ack, Room!Nack, Nack
<1>4. Room!Free(m.name) <=> m.name # NoName /\ ~FindByName(m.name)
  BY <1>1, <1>2, FreeName
<1>5. queue' = queue => Events' = Events
  BY DEF Events, gameVars
<1>6. CASE name[c] = NoName /\ JoinIgnored(c, m)
  BY <1>5, <1>6 DEF JoinIgnored, Room!Ignore
<1>7. CASE name[c] = NoName /\ JoinRefused(c, m)
  BY <1>3, <1>4, <1>5, <1>7 DEF JoinRefused, SendCommand, Room!Refuse, Room!Reply
<1>8. CASE name[c] = NoName /\ JoinAccepted(c, m)
  <2>1. m.name \in Name
    BY <1>1, <1>8 DEF JoinAccepted
  <2>2. Events' = Append(Events, [name |-> m.name, msg |-> m])
    BY <1>2, <1>8, <2>1, PushEvent DEF JoinAccepted
  <2> QED
    BY <1>3, <1>4, <1>8, <2>2
       DEF JoinAccepted, SendCommand, Room!Grant, Room!Reply, Room!Record
<1>9. CASE name[c] # NoName /\ PlayerMessage(c, m)
  <2>1. Events' = Append(Events, [name |-> name[c], msg |-> m])
    BY <1>2, <1>9, PushEvent DEF PlayerMessage
  <2> DEFINE hearers == IF m.type = "MESSAGE" THEN {d \in Conn : InRoom(d)} \ {c} ELSE {}
  <2>2. sent' = [d \in Conn |-> IF d \in hearers THEN Append(sent[d], m) ELSE sent[d]]
    <3>1. CASE m.type = "MESSAGE" /\ TransmitMessage(c, m)
      BY <3>1 DEF TransmitMessage
    <3>2. CASE m.type # "MESSAGE" /\ sent' = sent
      BY <1>2, <3>2
    <3> QED
      BY <1>9, <3>1, <3>2 DEF PlayerMessage, RoomHandle
  <2> QED
    BY <1>9, <2>1, <2>2 DEF PlayerMessage, Room!Say, Room!Record
<1> QED
  BY <1>6, <1>7, <1>8, <1>9 DEF Dispatch

\* What the handlers do with the frame m of c, in the words of the abstract room.
Handled(c, m) == Room!Ignore(c, m) \/ Room!Refuse(c, m) \/ Room!Grant(c, m) \/ Room!Say(c, m)

\* A read takes no frame, or exactly the next one of its connection.
LEMMA ReadCases ==
  ASSUME ChatInv, NEW c \in Conn, Reading(c)
  PROVE  /\ UNCHANGED <<stream, participants, since>>
         /\ InRoom(c)
         /\ \/ UNCHANGED <<parsed, name, sent>> /\ Events' = Events
            \/ \E m \in Frames :
                 /\ parsed[c] + 1 \in DOMAIN stream[c] /\ m = stream[c][parsed[c] + 1]
                 /\ m.by = c /\ m.nr = parsed[c] + 1
                 /\ parsed' = [parsed EXCEPT ![c] = @ + 1]
                 /\ Handled(c, m)
<1>1. PICK n \in 1 .. Segs * MaxFrames[c] : HandleRead(c, n)
  BY DEF Reading
<1>2. TypeOK /\ n \in Nat /\ parsed[c] \in Nat
  <2>1. TypeOK
    BY DEF ChatInv, RoomInv
  <2>2. parsed[c] \in Nat
    BY <2>1 DEF TypeOK
  <2> DEFINE most == Segs * MaxFrames[c]
  <2>3. n \in 1 .. most
    OBVIOUS
  <2> HIDE DEF most
  <2>4. n \in Nat
    BY <2>3
  <2> QED
    BY <2>1, <2>2, <2>4
<1>3. InRoom(c)
  BY <1>1 DEF HandleRead, ChatInv, RoomInv, RoomWellFormed
<1>4. UNCHANGED <<stream, participants, since, gameVars>>
  BY <1>1 DEF HandleRead
<1>5. CASE /\ Segs * (parsed[c] + 1) <= arrived[c] + n
           /\ parsed' = [parsed EXCEPT ![c] = @ + 1]
           /\ Dispatch(c, stream[c][parsed[c] + 1])
  <2> DEFINE m == stream[c][parsed[c] + 1]
  <2>1. m \in Frames /\ parsed[c] + 1 \in DOMAIN stream[c]
    BY <1>1, <1>2, <1>5, CompleteFrame, FrameSent DEF HandleRead
  <2>2. m.by = c /\ m.nr = parsed[c] + 1
    BY <2>1 DEF ChatInv, FrameInv
  <2>3. Dispatch(c, m)
    BY <1>5
  <2> HIDE DEF m
  <2>4. m \in Room!NextFrames(c)
    BY <2>1, <2>2 DEF Frames, Room!NextFrames
  <2>5. Handled(c, m)
    BY <1>3, <1>4, <2>1, <2>3, <2>4, DispatchStep DEF Handled
  <2> QED
    BY <1>3, <1>4, <1>5, <2>1, <2>2, <2>5 DEF m
<1>6. CASE UNCHANGED <<parsed, name, sent, queue>>
  <2>1. Events' = Events
    BY <1>4, <1>6 DEF Events, gameVars
  <2> QED
    BY <1>3, <1>4, <1>6, <2>1
<1> QED
  BY <1>1, <1>5, <1>6 DEF HandleRead

LEMMA ReadStep ==
  ASSUME ChatInv, NEW c \in Conn, Reading(c)
  PROVE  Room!Hear(c) \/ UNCHANGED Room!vars
<1>1. UNCHANGED participants /\ InRoom(c)
  BY ReadCases
<1>2. {d \in Conn : InRoom(d)'} = {d \in Conn : InRoom(d)}
  BY <1>1 DEF InRoom
<1>3. CASE UNCHANGED <<parsed, name, sent>> /\ Events' = Events
  BY <1>1, <1>3, Stutter
<1>4. ASSUME NEW m \in Frames, m.by = c, m.nr = parsed[c] + 1,
             parsed' = [parsed EXCEPT ![c] = @ + 1], Handled(c, m)
      PROVE  Room!Hear(c)
  <2>1. m \in Room!NextFrames(c)
    BY <1>4 DEF Frames, Room!NextFrames
  <2> QED
    BY <1>1, <1>2, <1>4, <2>1 DEF Room!Hear, Handled
<1> QED
  BY <1>3, <1>4, ReadCases

\* The main thread moves events from the queue to the batch and on to the log.
LEMMA MainStep ==
  ASSUME ChatInv, MainThread
  PROVE  UNCHANGED <<stream, participants, since, parsed, name, sent>> /\ Events' = Events
<1>1. log \in Seq(GameEvents) /\ batch \in Seq(GameEvents) /\ queue \in Seq(GameEvents)
      /\ <<>> \in Seq(GameEvents)
  BY EmptySeq DEF ChatInv, RoomInv, TypeOK
<1>2. UNCHANGED <<stream, participants, since, parsed, name, sent>>
  BY DEF MainThread, StartServer, StartServerFails, TestRun, Poll, Take, Process, Sleep, JoinIo, netVars, roomVars
<1>3. CASE Take
  <2>1. batch = <<>> /\ batch' = queue /\ queue' = <<>> /\ log' = log
    BY <1>3 DEF Take, MainAt, ChatInv, BatchInv
  <2>2. (log \o <<>>) \o queue = (log \o queue) \o <<>>
    BY <1>1, ConcatEmptySeq, ConcatProperties
  <2>3. Events' = Events
    BY <2>1, <2>2 DEF Events
  <2> QED
    BY <1>2, <2>3
<1>4. CASE Process
  <2>1. batch' = <<>> /\ queue' = queue /\ log' = log \o batch
    BY <1>4 DEF Process
  <2>2. (log \o batch) \o <<>> = log \o batch
    BY <1>1, ConcatEmptySeq, ConcatProperties
  <2>3. Events' = Events
    BY <2>1, <2>2 DEF Events
  <2> QED
    BY <1>2, <2>3
<1>5. CASE StartServer \/ StartServerFails \/ TestRun \/ Poll \/ Sleep \/ JoinIo
  <2>1. Events' = Events
    BY <1>5 DEF StartServer, StartServerFails, TestRun, Poll, Sleep, JoinIo, gameVars, Events
  <2> QED
    BY <1>2, <2>1
<1> QED
  BY <1>3, <1>4, <1>5 DEF MainThread

LEMMA NextStep == ChatInv /\ [Next]_vars => [Room!Next]_(Room!vars)
<1> SUFFICES ASSUME ChatInv, [Next]_vars
             PROVE  Room!Next \/ UNCHANGED Room!vars
  OBVIOUS
<1>1. CASE \E c \in Conn : HandleAccept(c)
  BY <1>1, EnterStep DEF Room!Next
<1>2. CASE \E c \in Conn : Reading(c)
  BY <1>2, ReadStep DEF Room!Next
<1>3. CASE MainThread
  BY <1>3, MainStep, Stutter
<1>4. CASE \/ Environment \/ HandleAcceptError \/ Signal \/ UNCHANGED vars
           \/ \E c \in Conn : HandleAcceptVanished(c) \/ HandleReadError(c)
  <2>1. UNCHANGED <<participants, parsed, name, sent, queue, batch, log>>
    BY <1>4 DEF Environment, Connect, ClientSend, ClientSends, ClientLeave, HangUp, Interrupt,
         HandleAcceptVanished, HandleAcceptError, HandleReadError, Signal, SignalStore,
         SignalStop, vars, netVars, roomVars, gameVars
  <2>2. Events' = Events
    BY <2>1 DEF Events
  <2> QED
    BY <2>1, <2>2, Stutter
<1> QED
  BY <1>1, <1>2, <1>3, <1>4 DEF Next, Over, IoThread, Accepting

LEMMA InitStep == Init => Room!Init
<1> SUFFICES ASSUME Init PROVE Room!Init
  OBVIOUS
<1>1. DOMAIN participants = {} /\ log = <<>> /\ batch = <<>> /\ queue = <<>>
  BY DEF Init
<1>2. {c \in Conn : InRoom(c)} = {}
  BY <1>1 DEF InRoom
<1>3. Events = <<>>
  BY <1>1 DEF Events
<1> QED
  BY <1>2, <1>3 DEF Init, Room!Init

\* handler.h, tcp_connection.h, game.cc: the server implements the chat service.
\* Whatever the pieces, the threads and the batches, each frame is handled in one
\* step, and game and members get one conversation.
THEOREM ChatRefinement == Spec => ImplementsChat
BY InitStep, SpecChatInv, NextStep, PTL DEF Spec, ImplementsChat, Room!Spec

-----------------------------------------------------------------------------
(***************************************************************************)
(* What the game and the participants get, for any connections, names and  *)
(* frames: the log is faithful, the chat has one order, and every join     *)
(* request has its answer.                                                 *)
(***************************************************************************)

(***************************************************************************)
(* What a step may do.                                                     *)
(***************************************************************************)

\* A step takes a frame of one connection, or lets one into the room, or touches
\* nothing that the properties of this module are about, but for new frames.
LEMMA StepCases ==
  ASSUME ChatInv, [Next]_vars
  PROVE  \/ \E c \in Conn : Reading(c)
         \/ /\ UNCHANGED <<parsed, name, sent>> /\ Events' = Events
            /\ \/ UNCHANGED <<participants, since>>
               \/ \E c \in Conn : HandleAccept(c)
<1>1. CASE \E c \in Conn : HandleAccept(c)
  <2>1. PICK c \in Conn : HandleAccept(c)
    BY <1>1
  <2>2. UNCHANGED <<parsed, name, sent, queue, batch, log>>
    BY <2>1 DEF HandleAccept, gameVars
  <2> QED
    BY <1>1, <2>2 DEF Events
<1>2. CASE MainThread
  BY <1>2, MainStep
<1>3. CASE \/ Environment \/ HandleAcceptError \/ Signal \/ UNCHANGED vars
           \/ \E c \in Conn : HandleAcceptVanished(c) \/ HandleReadError(c)
  <2>1. UNCHANGED <<participants, since, parsed, name, sent, queue, batch, log>>
    BY <1>3 DEF Environment, Connect, ClientSend, ClientSends, ClientLeave, HangUp, Interrupt,
         HandleAcceptVanished, HandleAcceptError, HandleReadError, Signal, SignalStore,
         SignalStop, vars, netVars, roomVars, gameVars
  <2> QED
    BY <2>1 DEF Events
<1> QED
  BY <1>1, <1>2, <1>3 DEF Next, Over, IoThread, Accepting

LEMMA ParsedSent ==
  ASSUME TypeOK, NEW c \in Conn
  PROVE  parsed[c] \in Nat /\ Len(stream[c]) \in Nat /\ parsed[c] <= Len(stream[c])
<1>1. /\ parsed[c] \in Nat /\ arrived[c] \in Nat /\ Len(stream[c]) \in Nat
      /\ Segs * parsed[c] <= arrived[c] /\ arrived[c] <= Segs * Len(stream[c])
  BY LenProperties DEF TypeOK
<1>2. Segs * parsed[c] \in Nat /\ Segs * Len(stream[c]) \in Nat
  BY <1>1
<1>3. Segs * parsed[c] <= Segs * Len(stream[c])
  BY <1>1, <1>2
<1> DEFINE a == parsed[c]
           b == Len(stream[c])
<1>4. Segs \in Nat \ {0} /\ a \in Nat /\ b \in Nat /\ Segs * a <= Segs * b
  BY <1>1, <1>3
<1> HIDE DEF a, b
<1>5. a <= b
  BY <1>4, Cancel
<1> QED
  BY <1>1, <1>5 DEF a, b

\* Frames that were taken stay what they were.
LEMMA TakenStay ==
  ASSUME ChatInv, [Next]_vars, NEW c \in Conn, NEW k \in 1 .. parsed[c]
  PROVE  stream'[c][k] = stream[c][k]
<1>1. TypeOK
  BY DEF ChatInv, RoomInv
<1>2. CASE stream' = stream
  BY <1>2
<1>3. CASE \E d \in Conn : ClientSend(d)
  <2>1. PICK d \in Conn, r \in Requests : ClientSends(d, r)
    BY <1>3 DEF ClientSend
  <2>2. /\ stream \in [Conn -> Seq(Frames)] /\ stream[d] \in Seq(Frames)
        /\ Len(stream[d]) \in Nat
    BY <1>1, LenProperties DEF TypeOK
  <2> DEFINE f == Frame(d, Len(stream[d]) + 1, r[1], r[2])
  <2>3. f \in Frames
    BY <2>2 DEF Requests, Frame, Frames
  <2>4. stream' = [stream EXCEPT ![d] = Append(stream[d], f)]
    BY <2>1 DEF ClientSends
  <2> HIDE DEF f
  <2>5. k \in 1 .. Len(stream[c])
    BY <1>1, ParsedSent
  <2>6. \A i \in 1 .. Len(stream[d]) : Append(stream[d], f)[i] = stream[d][i]
    BY <2>2, <2>3, AppendProperties
  <2> QED
    BY <2>2, <2>4, <2>5, <2>6
<1> QED
  BY <1>2, <1>3
  DEF Next, Over, vars, Environment, Connect, ClientLeave, HangUp, Interrupt,
      IoThread, Accepting, HandleAccept, HandleAcceptVanished, HandleAcceptError,
      Reading, HandleRead, HandleReadError, Signal, SignalStore, SignalStop,
      MainThread, StartServer, StartServerFails, TestRun, Poll, Take, Process, Sleep, JoinIo, netVars

LEMMA EventFacts ==
  ASSUME TypeOK
  PROVE  /\ Events \in Seq(GameEvents) /\ Len(Events) \in Nat
         /\ DOMAIN Events = 1 .. Len(Events)
         /\ \A i \in DOMAIN Events : Events[i] \in GameEvents
BY EventsType, LenProperties, ElementOfSeq

LEMMA AppendFacts ==
  ASSUME NEW S, NEW s \in Seq(S), NEW e \in S
  PROVE  /\ Len(s) \in Nat /\ DOMAIN s = 1 .. Len(s)
         /\ Append(s, e) \in Seq(S) /\ Len(Append(s, e)) = Len(s) + 1
         /\ DOMAIN Append(s, e) = 1 .. Len(s) + 1
         /\ \A i \in 1 .. Len(s) : Append(s, e)[i] = s[i]
         /\ Append(s, e)[Len(s) + 1] = e
BY LenProperties, AppendProperties

(***************************************************************************)
(* The game's log.                                                         *)
(***************************************************************************)

\* A connection without a name has no events.
LEMMA Nameless ==
  ASSUME TypeOK, GameLogFaithful, NEW c \in Conn, name[c] = NoName
  PROVE  \A i \in DOMAIN Events : Events[i].msg.by # c
<1> SUFFICES ASSUME NEW i \in DOMAIN Events, Events[i].msg.by = c PROVE FALSE
  OBVIOUS
<1>1. Events[i] \in GameEvents
  BY EventFacts
<1>2. Events[i].name \in Name
  BY <1>1 DEF GameEvents
<1>3. Events[i].name = name[c]
  BY DEF GameLogFaithful
<1> QED
  BY <1>2, <1>3

\* The frame that is taken is recorded as an event of its author.
LEMMA LogRecord ==
  ASSUME ChatInv, GameLogFaithful, NEW c \in Conn, NEW m \in Frames, UNCHANGED stream,
         parsed[c] + 1 \in DOMAIN stream[c], m = stream[c][parsed[c] + 1],
         m.by = c, m.nr = parsed[c] + 1, parsed' = [parsed EXCEPT ![c] = @ + 1],
         name'[c] \in Name, \A d \in Conn : d # c => name'[d] = name[d],
         Events' = Append(Events, [name |-> name'[c], msg |-> m]),
         \/ name'[c] = name[c]
         \/ name[c] = NoName /\ m.type = "JOIN_REQUEST" /\ m.name = name'[c]
  PROVE  GameLogFaithful'
<1> DEFINE x == [name |-> name'[c], msg |-> m]
           L == Len(Events)
<1>1. TypeOK /\ name[c] \in Name \cup {NoName} /\ parsed \in [Conn -> Nat]
  BY DEF ChatInv, RoomInv, TypeOK
<1>2. x \in GameEvents /\ x.msg = m /\ x.name = name'[c]
  BY DEF GameEvents
<1>3. /\ L \in Nat /\ DOMAIN Events = 1 .. L /\ DOMAIN Events' = 1 .. L + 1
      /\ \A i \in 1 .. L : Events'[i] = Events[i] /\ Events[i] \in GameEvents
      /\ Events'[L + 1] = x
  BY <1>1, <1>2, EventFacts, AppendFacts
<1>4. \A i \in 1 .. L : Events[i].msg \in Frames /\ Events[i].msg.by \in Conn
  BY <1>3 DEF GameEvents, Frames
<1>5. /\ parsed'[c] = parsed[c] + 1 /\ parsed[c] \in Nat
      /\ \A d \in Conn : d # c => parsed'[d] = parsed[d]
  BY <1>1
<1>6. name[c] = NoName => \A i \in 1 .. L : Events[i].msg.by # c
  BY <1>1, <1>3, Nameless
<1> HIDE DEF x, L
<1>7. \A i \in 1 .. L : /\ Events[i].name = name[Events[i].msg.by]
                        /\ Events[i].msg.nr \in 1 .. parsed[Events[i].msg.by]
                        /\ Events[i].msg = stream[Events[i].msg.by][Events[i].msg.nr]
  BY <1>3 DEF GameLogFaithful
<1>8. ASSUME NEW i \in DOMAIN Events'
      PROVE  /\ Events'[i].name = name'[Events'[i].msg.by]
             /\ Events'[i].msg.nr \in 1 .. parsed'[Events'[i].msg.by]
             /\ Events'[i].msg = stream'[Events'[i].msg.by][Events'[i].msg.nr]
  <2>1. CASE i = L + 1
    <3>1. Events'[i].name = name'[c] /\ Events'[i].msg = m
      BY <1>2, <1>3, <2>1
    <3>2. m.nr \in 1 .. parsed'[c] /\ m = stream'[c][m.nr]
      BY <1>5
    <3> QED
      BY <3>1, <3>2
  <2>2. CASE i \in 1 .. L
    <3>1. Events[i].name = name'[Events[i].msg.by]
      BY <1>1, <1>4, <1>6, <1>7, <2>2
    <3>2. Events[i].msg.nr \in 1 .. parsed'[Events[i].msg.by]
      <4> DEFINE d == Events[i].msg.by
                 nr == Events[i].msg.nr
      <4>1. d \in Conn /\ nr \in 1 .. parsed[d] /\ parsed[d] \in Nat
        BY <1>1, <1>4, <1>7, <2>2
      <4>2. parsed'[d] = parsed[d] \/ parsed'[d] = parsed[d] + 1
        BY <1>5, <4>1
      <4> HIDE DEF d, nr
      <4>3. nr \in 1 .. parsed'[d]
        BY <4>1, <4>2
      <4> QED
        BY <4>3 DEF d, nr
    <3> QED
      BY <1>3, <1>7, <2>2, <3>1, <3>2
  <2>3. i = L + 1 \/ i \in 1 .. L
    BY <1>3
  <2> QED
    BY <2>1, <2>2, <2>3
<1>9. ASSUME NEW i \in DOMAIN Events', NEW j \in DOMAIN Events',
             Events'[i].msg.by = Events'[j].msg.by, i < j
      PROVE  Events'[i].msg.nr < Events'[j].msg.nr
  <2>1. i \in 1 .. L
    BY <1>3, <1>9
  <2>2. CASE j = L + 1
    <3>1. Events'[j].msg = m /\ Events'[i] = Events[i]
      BY <1>2, <1>3, <2>1, <2>2
    <3>2. Events[i].msg.by = c
      BY <1>9, <3>1
    <3>3. Events[i].msg.nr \in 1 .. parsed[c]
      BY <1>7, <2>1, <3>2
    <3>4. m.nr = parsed[c] + 1
      OBVIOUS
    <3> QED
      BY <1>5, <3>1, <3>3, <3>4
  <2>3. CASE j \in 1 .. L
    <3>1. Events'[i] = Events[i] /\ Events'[j] = Events[j]
      BY <1>3, <2>1, <2>3
    <3>2. \A k, n \in DOMAIN Events :
            Events[k].msg.by = Events[n].msg.by /\ k < n => Events[k].msg.nr < Events[n].msg.nr
      BY DEF GameLogFaithful
    <3>3. i \in DOMAIN Events /\ j \in DOMAIN Events
      BY <1>3, <2>1, <2>3
    <3> QED
      BY <1>9, <3>1, <3>2, <3>3
  <2> QED
    BY <1>3, <2>2, <2>3
<1>10. ASSUME NEW d \in Conn, name'[d] # NoName
       PROVE  \E k \in 1 .. parsed'[d] :
                /\ stream'[d][k].type = "JOIN_REQUEST" /\ stream'[d][k].name = name'[d]
                /\ \A n \in 1 .. parsed'[d] :
                     n >= k <=> \E i \in DOMAIN Events' : /\ Events'[i].msg.by = d
                                                         /\ Events'[i].msg.nr = n
  <2>1. CASE d = c /\ name[c] = NoName
    <3>1. stream'[d][parsed'[d]].type = "JOIN_REQUEST" /\ stream'[d][parsed'[d]].name = name'[d]
      BY <1>1, <1>5, <1>10, <2>1
    <3>2. ASSUME NEW n \in 1 .. parsed'[d]
          PROVE  n >= parsed'[d] <=> \E i \in DOMAIN Events' : /\ Events'[i].msg.by = d
                                                               /\ Events'[i].msg.nr = n
      <4>1. parsed'[d] = parsed[c] + 1 /\ m.by = d /\ m.nr = parsed[c] + 1 /\ parsed[c] \in Nat
        BY <1>5, <2>1
      <4>2. /\ Events'[L + 1].msg = m
            /\ \A i \in 1 .. L : Events'[i].msg.by # d
        BY <1>2, <1>3, <1>6, <2>1
      <4>3. \A i \in DOMAIN Events' : i = L + 1 \/ i \in 1 .. L
        BY <1>3
      <4>4. L + 1 \in DOMAIN Events'
        BY <1>3
      <4>5. n >= parsed'[d] <=> n = m.nr
        BY <4>1
      <4> QED
        BY <4>1, <4>2, <4>3, <4>4, <4>5
    <3>3. parsed'[d] \in 1 .. parsed'[d]
      BY <1>5, <2>1
    <3> QED
      BY <3>1, <3>2, <3>3, Zenon
  <2>2. CASE d # c \/ name[c] # NoName
    <3>1. name'[d] = name[d] /\ name[d] # NoName
      BY <1>10, <2>2
    <3>2. PICK k \in 1 .. parsed[d] :
            /\ stream[d][k].type = "JOIN_REQUEST" /\ stream[d][k].name = name[d]
            /\ \A n \in 1 .. parsed[d] :
                 n >= k <=> \E i \in DOMAIN Events : Events[i].msg.by = d /\ Events[i].msg.nr = n
      BY <3>1 DEF GameLogFaithful, Named
    <3>3. k \in 1 .. parsed'[d]
      BY <1>1, <1>5
    <3>4. ASSUME NEW n \in 1 .. parsed'[d]
          PROVE  n >= k <=> \E i \in DOMAIN Events' : /\ Events'[i].msg.by = d
                                                      /\ Events'[i].msg.nr = n
      <4>1. CASE n \in 1 .. parsed[d]
        <5>1. (\E i \in DOMAIN Events : Events[i].msg.by = d /\ Events[i].msg.nr = n)
                <=> \E i \in DOMAIN Events' : Events'[i].msg.by = d /\ Events'[i].msg.nr = n
          BY <1>2, <1>3, <1>5, <4>1
        <5> QED
          BY <3>2, <4>1, <5>1
      <4>2. CASE d = c /\ n = parsed[c] + 1
        BY <1>2, <1>3, <1>5, <4>2
      <4> QED
        BY <1>1, <1>5, <3>4, <4>1, <4>2
    <3>5. stream'[d][k].type = "JOIN_REQUEST" /\ stream'[d][k].name = name'[d]
      BY <3>1, <3>2
    <3> QED
      BY <3>3, <3>4, <3>5, Zenon
  <2> QED
    BY <2>1, <2>2
<1>11. \A i \in DOMAIN Events' :
         LET e == Events'[i]  d == e.msg.by
         IN  /\ e.name = name'[d]
             /\ e.msg.nr \in 1 .. parsed'[d] /\ e.msg = stream'[d][e.msg.nr]
  BY <1>8
<1>12. \A i, j \in DOMAIN Events' :
         Events'[i].msg.by = Events'[j].msg.by /\ i < j => Events'[i].msg.nr < Events'[j].msg.nr
  BY <1>9
<1>13. \A d \in Conn : name'[d] # NoName =>
         \E k \in 1 .. parsed'[d] :
           /\ stream'[d][k].type = "JOIN_REQUEST" /\ stream'[d][k].name = name'[d]
           /\ \A n \in 1 .. parsed'[d] :
                n >= k <=> \E i \in DOMAIN Events' : /\ Events'[i].msg.by = d
                                                    /\ Events'[i].msg.nr = n
  BY <1>10, Zenon
<1> QED
  BY <1>11, <1>12, <1>13, Zenon DEF GameLogFaithful, Named

\* A step that records nothing: frames may be sent, or taken from the nameless.
LEMMA LogQuiet ==
  ASSUME ChatInv, GameLogFaithful, [Next]_vars, UNCHANGED name, Events' = Events,
         \/ UNCHANGED parsed
         \/ \E c \in Conn : name[c] = NoName /\ parsed' = [parsed EXCEPT ![c] = @ + 1]
  PROVE  GameLogFaithful'
<1>1. TypeOK /\ parsed \in [Conn -> Nat]
  BY DEF ChatInv, RoomInv, TypeOK
<1>2. \A c \in Conn : /\ parsed[c] \in Nat /\ parsed'[c] \in Nat /\ parsed[c] <= parsed'[c]
                      /\ name[c] # NoName => parsed'[c] = parsed[c]
  BY <1>1
<1>3. \A c \in Conn : \A k \in 1 .. parsed[c] : stream'[c][k] = stream[c][k]
  BY TakenStay
<1>4. \A i \in DOMAIN Events : Events[i].msg.by \in Conn
  BY <1>1, EventFacts DEF GameEvents, Frames
<1>5. \A i \in DOMAIN Events : /\ Events[i].name = name[Events[i].msg.by]
                               /\ Events[i].msg.nr \in 1 .. parsed[Events[i].msg.by]
                               /\ Events[i].msg = stream[Events[i].msg.by][Events[i].msg.nr]
  BY DEF GameLogFaithful
<1>6. \A i \in DOMAIN Events : /\ Events[i].msg.nr \in 1 .. parsed'[Events[i].msg.by]
                               /\ Events[i].msg = stream'[Events[i].msg.by][Events[i].msg.nr]
  BY <1>2, <1>3, <1>4, <1>5
<1>7. ASSUME NEW d \in Conn, name[d] # NoName
      PROVE  \E k \in 1 .. parsed'[d] :
               /\ stream'[d][k].type = "JOIN_REQUEST" /\ stream'[d][k].name = name[d]
               /\ \A n \in 1 .. parsed'[d] :
                    n >= k <=> \E i \in DOMAIN Events : Events[i].msg.by = d /\ Events[i].msg.nr = n
  BY <1>2, <1>3, <1>7 DEF GameLogFaithful, Named
<1> QED
  BY <1>5, <1>6, <1>7 DEF GameLogFaithful, Named

LEMMA NextLog == ChatInv /\ GameLogFaithful /\ [Next]_vars => GameLogFaithful'
<1> SUFFICES ASSUME ChatInv, GameLogFaithful, [Next]_vars PROVE GameLogFaithful'
  OBVIOUS
<1>1. CASE UNCHANGED <<parsed, name, sent>> /\ Events' = Events
  BY <1>1, LogQuiet
<1>2. ASSUME NEW c \in Conn, Reading(c), ~(UNCHANGED <<parsed, name, sent>> /\ Events' = Events)
      PROVE  GameLogFaithful'
  <2>1. PICK m \in Frames : /\ parsed[c] + 1 \in DOMAIN stream[c] /\ m = stream[c][parsed[c] + 1]
                            /\ m.by = c /\ m.nr = parsed[c] + 1
                            /\ parsed' = [parsed EXCEPT ![c] = @ + 1]
                            /\ Handled(c, m)
    BY <1>2, ReadCases
  <2>2. UNCHANGED stream /\ name \in [Conn -> Name \cup {NoName}] /\ m.name \in Name \cup {NoName}
    BY <1>2, ReadCases DEF ChatInv, RoomInv, TypeOK, Frames
  <2>3. CASE Room!Ignore(c, m) \/ Room!Refuse(c, m)
    BY <2>1, <2>3, LogQuiet DEF Room!Ignore, Room!Refuse
  <2>4. CASE Room!Grant(c, m)
    <3>1. /\ name' = [name EXCEPT ![c] = m.name] /\ m.name # NoName /\ name[c] = NoName
          /\ m.type = "JOIN_REQUEST" /\ Events' = Append(Events, [name |-> m.name, msg |-> m])
      BY <2>4 DEF Room!Grant, Room!Free, Room!Record
    <3>2. name'[c] = m.name /\ name'[c] \in Name /\ \A d \in Conn : d # c => name'[d] = name[d]
      BY <2>2, <3>1
    <3> QED
      BY <2>1, <2>2, <3>1, <3>2, LogRecord
  <2>5. CASE Room!Say(c, m)
    <3>1. /\ name' = name /\ name[c] # NoName
          /\ Events' = Append(Events, [name |-> name[c], msg |-> m])
      BY <2>5 DEF Room!Say, Room!Record
    <3>2. name'[c] \in Name
      BY <2>2, <3>1
    <3> QED
      BY <2>1, <2>2, <3>1, <3>2, LogRecord
  <2> QED
    BY <2>1, <2>3, <2>4, <2>5 DEF Handled
<1> QED
  BY <1>1, <1>2, StepCases

LEMMA InitLog == Init => GameLogFaithful
<1> SUFFICES ASSUME Init PROVE GameLogFaithful
  OBVIOUS
<1>1. Events = <<>>
  BY DEF Init, Events
<1>2. \A c \in Conn : name[c] = NoName
  BY DEF Init
<1> QED
  BY <1>1, <1>2 DEF GameLogFaithful, Named

\* tcp_connection.h:85-96, game.cc:43-56: the game gets what the players say from
\* their granted join request on, complete, in order, once, under their names.
THEOREM LogIsFaithful == Spec => []GameLogFaithful
BY InitLog, NextLog, SpecChatInv, PTL DEF Spec

(***************************************************************************)
(* The order of the chat.  Matches(s, E, from, d): the lines in s are the  *)
(* chat for d among the events of E after the first `from` of them.        *)
(***************************************************************************)

Lines(s) == {p \in DOMAIN s : s[p].type \notin {"JOIN_ACK", "JOIN_NACK"}}
IsChat(e, d) == e.msg.type = "MESSAGE" /\ e.msg.by # d
ChatOf(E, from, d) == {i \in from + 1 .. Len(E) : IsChat(E[i], d)}
Matches(s, E, from, d) ==
  /\ {s[p] : p \in Lines(s)} = {E[i].msg : i \in ChatOf(E, from, d)}
  /\ \A p, q \in Lines(s), i, j \in ChatOf(E, from, d) :
       s[p] = E[i].msg /\ s[q] = E[j].msg => (p < q <=> i < j)

\* The same with the quantifiers as ChatOrder has them.
InOrderOf(s, E, L, C) ==
  /\ {s[p] : p \in L} = {E[i].msg : i \in C}
  /\ \A p \in L, i \in C : s[p] = E[i].msg =>
       \A q \in L, j \in C : s[q] = E[j].msg => (p < q <=> i < j)

LEMMA NestedMatches ==
  ASSUME NEW s, NEW E, NEW from, NEW d
  PROVE  InOrderOf(s, E, Lines(s), ChatOf(E, from, d)) <=> Matches(s, E, from, d)
BY Zenon DEF InOrderOf, Matches

LEMMA ChatOrderNested ==
  ChatOrder <=> \A d \in Conn : InRoom(d) =>
                  InOrderOf(sent[d], Events, Lines(sent[d]), ChatOf(Events, since[d], d))
BY DEF ChatOrder, InOrderOf, Lines, ChatOf, IsChat

LEMMA ChatOrderMatches ==
  ChatOrder <=> \A d \in Conn : InRoom(d) => Matches(sent[d], Events, since[d], d)
BY ChatOrderNested, NestedMatches

\* And of the state after a step.
LEMMA ChatOrderAfter ==
  ASSUME \A d \in Conn : InRoom(d)' => Matches(sent'[d], Events', since'[d], d)
  PROVE  ChatOrder'
<1>1. \A d \in Conn : InRoom(d)' =>
        InOrderOf(sent'[d], Events', Lines(sent'[d]), ChatOf(Events', since'[d], d))
  BY NestedMatches
<1> QED
  BY <1>1 DEF ChatOrder, InOrderOf, Lines, ChatOf, IsChat

\* An ack or a nack is not a line.
LEMMA MatchReply ==
  ASSUME NEW s \in Seq(Messages), NEW x \in {Ack, Nack}, NEW E, NEW from, NEW d, Matches(s, E, from, d)
  PROVE  Matches(Append(s, x), E, from, d)
<1> DEFINE t == Append(s, x)
<1>1. /\ DOMAIN s = 1 .. Len(s) /\ Len(s) \in Nat /\ DOMAIN t = 1 .. Len(s) + 1
      /\ \A p \in 1 .. Len(s) : t[p] = s[p]
      /\ t[Len(s) + 1] = x
  BY AppendFacts DEF Messages
<1>2. x.type \in {"JOIN_ACK", "JOIN_NACK"}
  BY DEF Ack, Nack
<1> HIDE DEF t
<1>3. Lines(t) = Lines(s)
  BY <1>1, <1>2 DEF Lines
<1>4. \A p \in Lines(s) : t[p] = s[p]
  BY <1>1 DEF Lines
<1>5. {t[p] : p \in Lines(t)} = {s[p] : p \in Lines(s)}
  BY <1>3, <1>4
<1>6. Matches(t, E, from, d)
  BY <1>3, <1>4, <1>5 DEF Matches
<1> QED
  BY <1>6 DEF t

\* An event that is not chat for d.
LEMMA MatchEvent ==
  ASSUME NEW s, NEW E \in Seq(GameEvents), NEW e \in GameEvents, NEW from \in Nat, NEW d,
         from <= Len(E), ~IsChat(e, d), Matches(s, E, from, d)
  PROVE  Matches(s, Append(E, e), from, d)
<1> DEFINE F == Append(E, e)
<1>1. /\ Len(E) \in Nat /\ Len(F) = Len(E) + 1
      /\ \A i \in 1 .. Len(E) : F[i] = E[i]
      /\ F[Len(E) + 1] = e
  BY AppendFacts
<1> HIDE DEF F
<1>2. ChatOf(F, from, d) = ChatOf(E, from, d)
  BY <1>1 DEF ChatOf
<1>3. \A i \in ChatOf(E, from, d) : F[i] = E[i]
  BY <1>1 DEF ChatOf
<1>4. {F[i].msg : i \in ChatOf(F, from, d)} = {E[i].msg : i \in ChatOf(E, from, d)}
  BY <1>2, <1>3
<1>5. Matches(s, F, from, d)
  BY <1>2, <1>3, <1>4 DEF Matches
<1> QED
  BY <1>5 DEF F

\* A new line, and the event that it is.
LEMMA MatchLine ==
  ASSUME NEW s \in Seq(Messages), NEW E \in Seq(GameEvents), NEW e \in GameEvents,
         NEW from \in Nat, NEW d, from <= Len(E), IsChat(e, d),
         \A i \in 1 .. Len(E) : E[i].msg # e.msg, Matches(s, E, from, d)
  PROVE  Matches(Append(s, e.msg), Append(E, e), from, d)
<1> DEFINE t == Append(s, e.msg)
           F == Append(E, e)
           k == Len(s) + 1
           l == Len(E) + 1
<1>1. e.msg \in Messages /\ e.msg.type = "MESSAGE"
  BY DEF GameEvents, Messages, IsChat
<1>2. /\ DOMAIN s = 1 .. Len(s) /\ Len(s) \in Nat /\ DOMAIN t = 1 .. k
      /\ \A p \in 1 .. Len(s) : t[p] = s[p]
      /\ t[k] = e.msg
  BY <1>1, AppendFacts
<1>3. /\ Len(E) \in Nat /\ Len(F) = l
      /\ \A i \in 1 .. Len(E) : F[i] = E[i]
      /\ F[l] = e
  BY AppendFacts
<1> HIDE DEF t, F
<1>4. Lines(t) = Lines(s) \cup {k} /\ \A p \in Lines(s) : p \in Nat /\ p < k /\ t[p] = s[p]
  BY <1>1, <1>2 DEF Lines
<1>5. /\ ChatOf(F, from, d) = ChatOf(E, from, d) \cup {l}
      /\ \A i \in ChatOf(E, from, d) : /\ i \in Nat /\ i < l /\ F[i] = E[i]
                                       /\ E[i].msg # e.msg
  BY <1>3 DEF ChatOf
<1> HIDE DEF k, l
<1>6. \A p \in Lines(s) : s[p] # e.msg
  <2> TAKE p \in Lines(s)
  <2>1. s[p] \in {s[q] : q \in Lines(s)}
    OBVIOUS
  <2>2. s[p] \in {E[i].msg : i \in ChatOf(E, from, d)}
    BY <2>1 DEF Matches
  <2>3. PICK i \in ChatOf(E, from, d) : s[p] = E[i].msg
    BY <2>2
  <2> QED
    BY <1>5, <2>3
<1>7. {t[p] : p \in Lines(t)} = {s[p] : p \in Lines(s)} \cup {e.msg}
  BY <1>2, <1>4
<1>8. {F[i].msg : i \in ChatOf(F, from, d)} = {E[i].msg : i \in ChatOf(E, from, d)} \cup {e.msg}
  BY <1>3, <1>5
<1>9. {t[p] : p \in Lines(t)} = {F[i].msg : i \in ChatOf(F, from, d)}
  BY <1>7, <1>8 DEF Matches
<1>10. k \in Nat /\ l \in Nat
  BY <1>2, <1>3 DEF k, l
<1>11. ASSUME NEW p \in Lines(t), NEW q \in Lines(t), NEW i \in ChatOf(F, from, d),
              NEW j \in ChatOf(F, from, d), t[p] = F[i].msg, t[q] = F[j].msg
       PROVE  p < q <=> i < j
  <2>1. (p = k <=> i = l) /\ (q = k <=> j = l)
    BY <1>2, <1>3, <1>4, <1>5, <1>6, <1>11
  <2>2. CASE p # k /\ q # k
    <3>1. p \in Lines(s) /\ q \in Lines(s) /\ i \in ChatOf(E, from, d) /\ j \in ChatOf(E, from, d)
      BY <1>4, <1>5, <2>1, <2>2
    <3>2. s[p] = E[i].msg /\ s[q] = E[j].msg
      BY <1>4, <1>5, <1>11, <3>1
    <3> QED
      BY <3>1, <3>2 DEF Matches
  <2>3. CASE p = k \/ q = k
    BY <1>4, <1>5, <1>10, <2>1, <2>3
  <2> QED
    BY <2>2, <2>3
<1>12. Matches(t, F, from, d)
  BY <1>9, <1>11 DEF Matches
<1> QED
  BY <1>12 DEF t, F

OrderInv == ChatOrder /\ \A d \in Conn : InRoom(d) => since[d] <= Len(Events)

\* One participant, at a step that handles the frame m of c.
LEMMA OrderHandled ==
  ASSUME ChatInv, GameLogFaithful, NEW c \in Conn, NEW m \in Frames, m.by = c,
         m.nr = parsed[c] + 1, Handled(c, m), NEW d \in Conn, InRoom(d),
         since[d] <= Len(Events), Matches(sent[d], Events, since[d], d)
  PROVE  /\ since[d] <= Len(Events')
         /\ Matches(sent'[d], Events', since[d], d)
<1>1. /\ TypeOK /\ sent \in [Conn -> Seq(Messages)] /\ sent[d] \in Seq(Messages)
      /\ since[d] \in Nat /\ name \in [Conn -> Name \cup {NoName}] /\ parsed[c] \in Nat
      /\ m.name \in Name \cup {NoName}
  BY DEF ChatInv, RoomInv, TypeOK, Frames
<1>2. Events \in Seq(GameEvents) /\ Len(Events) \in Nat
  BY <1>1, EventFacts
<1>3. Room!Ack = Ack /\ Room!Nack = Nack
  BY DEF Room!Ack, Ack, Room!Nack, Nack
<1>4. \A i \in 1 .. Len(Events) : Events[i].msg # m
  <2> SUFFICES ASSUME NEW i \in 1 .. Len(Events), Events[i].msg = m PROVE FALSE
    OBVIOUS
  <2>1. i \in DOMAIN Events
    BY <1>1, EventFacts
  <2>2. Events[i].msg.nr \in 1 .. parsed[Events[i].msg.by]
    BY <2>1 DEF GameLogFaithful
  <2> QED
    BY <1>1, <2>2
<1>5. CASE Room!Ignore(c, m)
  BY <1>5 DEF Room!Ignore
<1>6. CASE Room!Refuse(c, m)
  <2>1. Events' = Events /\ (sent'[d] = sent[d] \/ sent'[d] = Append(sent[d], Nack))
    BY <1>1, <1>3, <1>6 DEF Room!Refuse, Room!Reply
  <2>2. Matches(Append(sent[d], Nack), Events, since[d], d)
    BY <1>1, MatchReply
  <2> QED
    BY <2>1, <2>2
<1>7. CASE Room!Grant(c, m)
  <2> DEFINE e == [name |-> m.name, msg |-> m]
  <2>1. /\ m.name \in Name /\ m.type = "JOIN_REQUEST" /\ Events' = Append(Events, e)
        /\ sent'[d] = sent[d] \/ sent'[d] = Append(sent[d], Ack)
    BY <1>1, <1>3, <1>7 DEF Room!Grant, Room!Free, Room!Record, Room!Reply
  <2>2. e \in GameEvents /\ ~IsChat(e, d)
    BY <2>1 DEF GameEvents, IsChat
  <2> HIDE DEF e
  <2>3. Matches(sent'[d], Events, since[d], d)
    <3>1. Matches(Append(sent[d], Ack), Events, since[d], d)
      BY <1>1, MatchReply
    <3> QED
      BY <2>1, <3>1
  <2>4. Matches(sent'[d], Events', since[d], d)
    BY <1>1, <1>2, <2>1, <2>2, <2>3, MatchEvent
  <2>5. Len(Events') = Len(Events) + 1
    BY <1>2, <2>1, <2>2, AppendFacts
  <2> QED
    BY <1>1, <1>2, <2>4, <2>5
<1>8. CASE Room!Say(c, m)
  <2> DEFINE e == [name |-> name[c], msg |-> m]
  <2>1. /\ name[c] \in Name /\ Events' = Append(Events, e)
        /\ sent'[d] = IF m.type = "MESSAGE" /\ d # c THEN Append(sent[d], m) ELSE sent[d]
    BY <1>1, <1>8 DEF Room!Say, Room!Record
  <2>2. e \in GameEvents /\ e.msg = m
    BY <2>1 DEF GameEvents
  <2> HIDE DEF e
  <2>3. Len(Events') = Len(Events) + 1
    BY <1>2, <2>1, <2>2, AppendFacts
  <2>4. CASE m.type = "MESSAGE" /\ d # c
    <3>1. IsChat(e, d)
      BY <2>2, <2>4 DEF IsChat
    <3>2. Matches(Append(sent[d], e.msg), Append(Events, e), since[d], d)
      BY <1>1, <1>2, <1>4, <2>2, <3>1, MatchLine
    <3> QED
      BY <1>1, <1>2, <2>1, <2>2, <2>3, <2>4, <3>2
  <2>5. CASE ~(m.type = "MESSAGE" /\ d # c)
    <3>1. ~IsChat(e, d)
      BY <2>2, <2>5 DEF IsChat
    <3>2. Matches(sent[d], Append(Events, e), since[d], d)
      BY <1>1, <1>2, <2>2, <3>1, MatchEvent
    <3> QED
      BY <1>1, <1>2, <2>1, <2>3, <2>5, <3>2
  <2> QED
    BY <2>4, <2>5
<1> QED
  BY <1>5, <1>6, <1>7, <1>8 DEF Handled

\* A connection that enters has been sent nothing, and its chat starts now.
LEMMA OrderAccept ==
  ASSUME ChatInv, OrderInv, NEW c \in Conn, HandleAccept(c)
  PROVE  OrderInv'
<1>1. /\ UNCHANGED <<name, sent, queue, batch, log>> /\ since' = [since EXCEPT ![c] = Len(Events)]
      /\ participants \in Seq(Conn) /\ participants' = Append(participants, c)
      /\ since \in [Conn -> Nat] /\ conn[c] \in {"backlog", "vanished"}
  BY DEF HandleAccept, Waiting, gameVars, ChatInv, RoomInv, TypeOK
<1>2. Events' = Events /\ Len(Events) \in Nat
  BY <1>1, EventFacts DEF Events, ChatInv, RoomInv
<1>3. sent[c] = <<>>
  BY <1>1 DEF ChatInv, RoomInv, RoomWellFormed
<1>4. \A d \in Conn : InRoom(d)' => InRoom(d) \/ d = c
  BY <1>1, AppendFacts DEF InRoom
<1>5. Lines(<<>>) = {} /\ ChatOf(Events, Len(Events), c) = {}
  BY <1>2 DEF Lines, ChatOf
<1>6. Matches(sent[c], Events, Len(Events), c)
  BY <1>3, <1>5 DEF Matches
<1>7. ASSUME NEW d \in Conn, InRoom(d)'
      PROVE  since'[d] <= Len(Events') /\ Matches(sent'[d], Events', since'[d], d)
  <2>1. CASE d = c
    BY <1>1, <1>2, <1>6, <2>1
  <2>2. CASE d # c
    BY <1>1, <1>2, <1>4, <1>7, <2>2, ChatOrderMatches DEF OrderInv
  <2> QED
    BY <2>1, <2>2
<1>8. ChatOrder'
  BY <1>7, ChatOrderAfter
<1> QED
  BY <1>7, <1>8 DEF OrderInv

LEMMA NextOrder == ChatInv /\ GameLogFaithful /\ OrderInv /\ [Next]_vars => OrderInv'
<1> SUFFICES ASSUME ChatInv, GameLogFaithful, OrderInv, [Next]_vars PROVE OrderInv'
  OBVIOUS
<1>1. \A d \in Conn : InRoom(d) => since[d] <= Len(Events) /\ Matches(sent[d], Events, since[d], d)
  BY ChatOrderMatches DEF OrderInv
<1>2. ASSUME UNCHANGED <<participants, since>>,
             \A d \in Conn : InRoom(d) => /\ since[d] <= Len(Events')
                                          /\ Matches(sent'[d], Events', since[d], d)
      PROVE  OrderInv'
  <2>1. \A d \in Conn : InRoom(d)' <=> InRoom(d)
    BY <1>2 DEF InRoom
  <2>2. \A d \in Conn : InRoom(d)' => Matches(sent'[d], Events', since'[d], d)
    BY <1>2, <2>1
  <2>3. ChatOrder'
    BY <2>2, ChatOrderAfter
  <2> QED
    BY <1>2, <2>1, <2>3 DEF OrderInv
<1>3. CASE UNCHANGED <<participants, since, sent>> /\ Events' = Events
  BY <1>1, <1>2, <1>3
<1>4. CASE \E c \in Conn : HandleAccept(c)
  BY <1>4, OrderAccept
<1>5. ASSUME NEW c \in Conn, Reading(c) PROVE OrderInv'
  BY <1>1, <1>2, <1>3, <1>5, ReadCases, OrderHandled
<1> QED
  BY <1>3, <1>4, <1>5, StepCases

LEMMA InitOrder == Init => OrderInv
<1> SUFFICES ASSUME Init PROVE OrderInv
  OBVIOUS
<1>1. DOMAIN participants = {}
  BY DEF Init
<1> QED
  BY <1>1 DEF OrderInv, ChatOrder, InRoom

\* handler.h:45-63, game.cc:43-56: every participant sees the chat in the order in
\* which the game gets it, each line once, from the accept on, without its own.
THEOREM ChatIsOrdered == Spec => []ChatOrder
<1>1. OrderInv => ChatOrder
  BY DEF OrderInv
<1> QED
  BY <1>1, InitOrder, NextOrder, SpecChatInv, LogIsFaithful, PTL DEF Spec

(***************************************************************************)
(* The answers to the join requests.                                       *)
(***************************************************************************)

Asked(t, n) == {k \in 1 .. n : t[k].type = "JOIN_REQUEST"}
Refusals(s) == {p \in DOMAIN s : s[p].type = "JOIN_NACK"}
Grants(s) == {p \in DOMAIN s : s[p].type = "JOIN_ACK"}

Refused(t, n, s) == Grants(s) = {} /\ Cardinality(Refusals(s)) = Cardinality(Asked(t, n))
Granted(t, n, who, s) ==
  \E k \in Asked(t, n), p \in Grants(s) :
    /\ t[k].name = who
    /\ Grants(s) = {p} /\ \A q \in Refusals(s) : q < p
    /\ Cardinality(Refusals(s)) = Cardinality(Asked(t, k - 1))

LEMMA JoinRepliesSplit ==
  JoinReplies <=>
    \A c \in Conn : /\ name[c] # NoName => Granted(stream[c], parsed[c], name[c], sent[c])
                    /\ name[c] = NoName => Refused(stream[c], parsed[c], sent[c])
BY DEF JoinReplies, Named, Granted, Refused, Asked, Refusals, Grants

\* Only the frames that were taken count.
LEMMA AskedAgree ==
  ASSUME NEW n \in Nat, NEW t, NEW u, \A k \in 1 .. n : u[k] = t[k]
  PROVE  \A m \in Nat : m <= n => Asked(u, m) = Asked(t, m)
BY DEF Asked

\* Positions in a sequence are finitely many.
LEMMA FiniteInitial == \A n \in Nat : IsFiniteSet(1 .. n)
<1> TAKE n \in Nat
<1>1. 1 \in Int /\ n \in Int
  OBVIOUS
<1> QED
  BY <1>1, FS_Interval, Zenon

LEMMA AskedNext ==
  ASSUME NEW t, NEW n \in Nat
  PROVE  /\ t[n + 1].type = "JOIN_REQUEST" => Asked(t, n + 1) = Asked(t, n) \cup {n + 1}
         /\ t[n + 1].type # "JOIN_REQUEST" => Asked(t, n + 1) = Asked(t, n)
         /\ n + 1 \notin Asked(t, n)
         /\ IsFiniteSet(Asked(t, n))
<1>1. IsFiniteSet(1 .. n)
  BY FiniteInitial, Zenon
<1>2. Asked(t, n) \subseteq 1 .. n
  BY DEF Asked
<1>3. IsFiniteSet(Asked(t, n))
  BY <1>1, <1>2, FS_Subset
<1> QED
  BY <1>3 DEF Asked

\* Taking a frame that is no request, or any frame once a request was granted,
\* changes neither side.
LEMMA RefusedFrames ==
  ASSUME NEW n \in Nat, NEW t, NEW u, \A k \in 1 .. n : u[k] = t[k], NEW s, Refused(t, n, s)
  PROVE  Refused(u, n, s)
<1>1. Asked(u, n) = Asked(t, n)
  BY AskedAgree
<1> QED
  BY <1>1 DEF Refused

LEMMA GrantedFrames ==
  ASSUME NEW n \in Nat, NEW m \in Nat, n <= m, NEW t, NEW u, \A k \in 1 .. n : u[k] = t[k],
         NEW who, NEW s, Granted(t, n, who, s)
  PROVE  Granted(u, m, who, s)
<1>1. PICK k \in Asked(t, n), p \in Grants(s) :
        /\ t[k].name = who
        /\ Grants(s) = {p} /\ \A q \in Refusals(s) : q < p
        /\ Cardinality(Refusals(s)) = Cardinality(Asked(t, k - 1))
  BY DEF Granted
<1>2. k \in 1 .. n /\ u[k] = t[k] /\ k \in Asked(u, m)
  BY DEF Asked
<1>3. k - 1 \in Nat /\ k - 1 <= n
  BY <1>2
<1>4. Asked(u, k - 1) = Asked(t, k - 1)
  BY <1>3, AskedAgree
<1> QED
  BY <1>1, <1>2, <1>4 DEF Granted

\* A chat line is neither an ack nor a nack.
LEMMA ChatLine ==
  ASSUME NEW s \in Seq(Messages), NEW x \in Messages, x.type = "MESSAGE"
  PROVE  Refusals(Append(s, x)) = Refusals(s) /\ Grants(Append(s, x)) = Grants(s)
<1> DEFINE t == Append(s, x)
<1>1. /\ DOMAIN s = 1 .. Len(s) /\ Len(s) \in Nat /\ DOMAIN t = 1 .. Len(s) + 1
      /\ \A p \in 1 .. Len(s) : t[p] = s[p]
      /\ t[Len(s) + 1] = x
  BY AppendFacts
<1> HIDE DEF t
<1>2. Refusals(t) = Refusals(s) /\ Grants(t) = Grants(s)
  BY <1>1 DEF Refusals, Grants
<1> QED
  BY <1>2 DEF t

LEMMA RefuseOne ==
  ASSUME NEW t, NEW n \in Nat, NEW s \in Seq(Messages), Refused(t, n, s),
         t[n + 1].type = "JOIN_REQUEST"
  PROVE  Refused(t, n + 1, Append(s, Nack))
<1> DEFINE r == Append(s, Nack)
<1>1. /\ DOMAIN s = 1 .. Len(s) /\ Len(s) \in Nat /\ DOMAIN r = 1 .. Len(s) + 1
      /\ \A p \in 1 .. Len(s) : r[p] = s[p]
      /\ r[Len(s) + 1].type = "JOIN_NACK"
  BY AppendFacts DEF Messages, Nack
<1> HIDE DEF r
<1>2. /\ Refusals(r) = Refusals(s) \cup {Len(s) + 1} /\ Len(s) + 1 \notin Refusals(s)
      /\ Grants(r) = Grants(s) /\ Refusals(s) \subseteq 1 .. Len(s)
  BY <1>1 DEF Refusals, Grants
<1>3. IsFiniteSet(1 .. Len(s))
  BY <1>1, FiniteInitial, Zenon
<1>4. IsFiniteSet(Refusals(s))
  BY <1>2, <1>3, FS_Subset
<1>5. Cardinality(Refusals(r)) = Cardinality(Refusals(s)) + 1
  BY <1>2, <1>4, FS_AddElement
<1>6. Cardinality(Asked(t, n + 1)) = Cardinality(Asked(t, n)) + 1
  BY AskedNext, FS_AddElement
<1>7. Refused(t, n + 1, r)
  BY <1>2, <1>5, <1>6 DEF Refused
<1> QED
  BY <1>7 DEF r

LEMMA GrantOne ==
  ASSUME NEW t, NEW n \in Nat, NEW s \in Seq(Messages), Refused(t, n, s),
         t[n + 1].type = "JOIN_REQUEST"
  PROVE  Granted(t, n + 1, t[n + 1].name, Append(s, Ack))
<1> DEFINE r == Append(s, Ack)
           p == Len(s) + 1
<1>1. /\ DOMAIN s = 1 .. Len(s) /\ Len(s) \in Nat /\ DOMAIN r = 1 .. p
      /\ \A q \in 1 .. Len(s) : r[q] = s[q]
      /\ r[p].type = "JOIN_ACK"
  BY AppendFacts DEF Messages, Ack
<1> HIDE DEF r
<1>2. /\ Refusals(r) = Refusals(s) /\ Grants(r) = Grants(s) \cup {p}
      /\ \A q \in Refusals(s) : q < p
  BY <1>1 DEF Refusals, Grants
<1>3. Grants(r) = {p} /\ p \in Grants(r)
  BY <1>2 DEF Refused
<1>4. n + 1 \in Asked(t, n + 1) /\ (n + 1) - 1 = n
  BY DEF Asked
<1>5. Cardinality(Refusals(r)) = Cardinality(Asked(t, (n + 1) - 1))
  BY <1>2, <1>4 DEF Refused
<1>6. Granted(t, n + 1, t[n + 1].name, r)
  BY <1>2, <1>3, <1>4, <1>5 DEF Granted
<1> QED
  BY <1>6 DEF r

\* The emitter of the frame that is handled.
LEMMA RepliesToEmitter ==
  ASSUME ChatInv, JoinReplies, NEW c \in Conn, NEW m \in Frames,
         m = stream[c][parsed[c] + 1], UNCHANGED stream,
         parsed' = [parsed EXCEPT ![c] = @ + 1], Handled(c, m)
  PROVE  /\ name'[c] # NoName => Granted(stream'[c], parsed'[c], name'[c], sent'[c])
         /\ name'[c] = NoName => Refused(stream'[c], parsed'[c], sent'[c])
<1> DEFINE t == stream[c]
           n == parsed[c]
<1>1. /\ sent \in [Conn -> Seq(Messages)] /\ sent[c] \in Seq(Messages) /\ n \in Nat
      /\ name \in [Conn -> Name \cup {NoName}] /\ n + 1 \in Nat /\ n <= n + 1
      /\ stream'[c] = t /\ parsed'[c] = n + 1 /\ m = t[n + 1]
  <2>1. TypeOK
    BY DEF ChatInv, RoomInv
  <2>2. /\ sent \in [Conn -> Seq(Messages)] /\ n \in Nat
        /\ name \in [Conn -> Name \cup {NoName}] /\ parsed \in [Conn -> Nat]
    BY <2>1 DEF TypeOK
  <2> QED
    BY <2>2
<1>2. /\ name[c] # NoName => Granted(t, n, name[c], sent[c])
      /\ name[c] = NoName => Refused(t, n, sent[c])
  BY JoinRepliesSplit
<1>3. Room!Ack = Ack /\ Room!Nack = Nack
  BY DEF Room!Ack, Ack, Room!Nack, Nack
<1> HIDE DEF t, n
<1>4. CASE Room!Ignore(c, m)
  <2>1. name' = name /\ sent' = sent /\ name[c] = NoName /\ Asked(t, n + 1) = Asked(t, n)
    BY <1>1, <1>4, AskedNext DEF Room!Ignore
  <2>2. Refused(t, n + 1, sent[c])
    BY <1>2, <2>1 DEF Refused
  <2> QED
    BY <1>1, <2>1, <2>2
<1>5. CASE Room!Refuse(c, m)
  <2>1. /\ name' = name /\ name[c] = NoName /\ m.type = "JOIN_REQUEST"
        /\ sent'[c] = Append(sent[c], Nack)
    BY <1>1, <1>3, <1>5 DEF Room!Refuse, Room!Reply
  <2>2. Refused(t, n + 1, Append(sent[c], Nack))
    BY <1>1, <1>2, <2>1, RefuseOne
  <2> QED
    BY <1>1, <2>1, <2>2
<1>6. CASE Room!Grant(c, m)
  <2>1. /\ name[c] = NoName /\ name'[c] = m.name /\ m.name # NoName
        /\ m.type = "JOIN_REQUEST" /\ sent'[c] = Append(sent[c], Ack)
    BY <1>1, <1>3, <1>6 DEF Room!Grant, Room!Free, Room!Reply
  <2>2. Granted(t, n + 1, m.name, Append(sent[c], Ack))
    BY <1>1, <1>2, <2>1, GrantOne
  <2> QED
    BY <1>1, <2>1, <2>2
<1>7. CASE Room!Say(c, m)
  <2>1. name' = name /\ name[c] # NoName /\ sent'[c] = sent[c]
    BY <1>1, <1>7 DEF Room!Say
  <2>2. Granted(t, n + 1, name[c], sent[c])
    BY <1>1, <1>2, <2>1, GrantedFrames
  <2> QED
    BY <1>1, <2>1, <2>2
<1> QED
  BY <1>4, <1>5, <1>6, <1>7 DEF Handled

\* Everybody else: at most one more chat line.
LEMMA RepliesToOthers ==
  ASSUME ChatInv, JoinReplies, NEW c \in Conn, NEW m \in Frames, UNCHANGED stream,
         parsed' = [parsed EXCEPT ![c] = @ + 1], Handled(c, m), NEW d \in Conn, d # c
  PROVE  /\ name'[d] # NoName => Granted(stream'[d], parsed'[d], name'[d], sent'[d])
         /\ name'[d] = NoName => Refused(stream'[d], parsed'[d], sent'[d])
<1>1. /\ sent \in [Conn -> Seq(Messages)] /\ sent[d] \in Seq(Messages) /\ m \in Messages
      /\ name \in [Conn -> Name \cup {NoName}] /\ parsed \in [Conn -> Nat]
  BY DEF ChatInv, RoomInv, TypeOK, Messages
<1>2. name'[d] = name[d]
  BY <1>1 DEF Handled, Room!Ignore, Room!Refuse, Room!Grant, Room!Say
<1>3. \/ sent'[d] = sent[d]
      \/ m.type = "MESSAGE" /\ sent'[d] = Append(sent[d], m)
  BY <1>1 DEF Handled, Room!Ignore, Room!Refuse, Room!Grant, Room!Say, Room!Reply
<1>4. Refusals(sent'[d]) = Refusals(sent[d]) /\ Grants(sent'[d]) = Grants(sent[d])
  BY <1>1, <1>3, ChatLine
<1>5. stream'[d] = stream[d] /\ parsed'[d] = parsed[d]
  BY <1>1
<1>6. /\ name[d] # NoName => Granted(stream[d], parsed[d], name[d], sent[d])
      /\ name[d] = NoName => Refused(stream[d], parsed[d], sent[d])
  BY JoinRepliesSplit
<1> QED
  BY <1>2, <1>4, <1>5, <1>6 DEF Granted, Refused

LEMMA NextReplies == ChatInv /\ JoinReplies /\ [Next]_vars => JoinReplies'
<1> SUFFICES ASSUME ChatInv, JoinReplies, [Next]_vars PROVE JoinReplies'
  OBVIOUS
<1>1. ASSUME \A c \in Conn :
               /\ name'[c] # NoName => Granted(stream'[c], parsed'[c], name'[c], sent'[c])
               /\ name'[c] = NoName => Refused(stream'[c], parsed'[c], sent'[c])
      PROVE  JoinReplies'
  BY <1>1 DEF JoinReplies, Named, Granted, Refused, Asked, Refusals, Grants
<1>2. CASE UNCHANGED <<parsed, name, sent>>
  <2>1. ASSUME NEW c \in Conn
        PROVE  /\ name[c] # NoName => Granted(stream'[c], parsed[c], name[c], sent[c])
               /\ name[c] = NoName => Refused(stream'[c], parsed[c], sent[c])
    <3>1. /\ name[c] # NoName => Granted(stream[c], parsed[c], name[c], sent[c])
          /\ name[c] = NoName => Refused(stream[c], parsed[c], sent[c])
      BY JoinRepliesSplit
    <3>2. parsed[c] \in Nat /\ parsed[c] <= parsed[c]
      BY DEF ChatInv, RoomInv, TypeOK
    <3>3. \A k \in 1 .. parsed[c] : stream'[c][k] = stream[c][k]
      BY TakenStay
    <3> QED
      BY <3>1, <3>2, <3>3, RefusedFrames, GrantedFrames
  <2> QED
    BY <1>1, <1>2, <2>1
<1>3. ASSUME NEW c \in Conn, NEW m \in Frames, m = stream[c][parsed[c] + 1],
             UNCHANGED stream, parsed' = [parsed EXCEPT ![c] = @ + 1], Handled(c, m)
      PROVE  JoinReplies'
  BY <1>1, <1>3, RepliesToEmitter, RepliesToOthers
<1>4. ASSUME NEW c \in Conn, Reading(c) PROVE JoinReplies'
  BY <1>2, <1>3, <1>4, ReadCases
<1> QED
  BY <1>2, <1>4, StepCases

LEMMA InitReplies == Init => JoinReplies
<1> SUFFICES ASSUME Init, NEW c \in Conn PROVE name[c] = NoName /\ Refused(stream[c], parsed[c], sent[c])
  BY JoinRepliesSplit
<1>1. name[c] = NoName /\ parsed[c] = 0 /\ DOMAIN sent[c] = {}
  BY DEF Init
<1>2. Asked(stream[c], 0) = {} /\ Refusals(sent[c]) = {} /\ Grants(sent[c]) = {}
  BY <1>1 DEF Asked, Refusals, Grants
<1> QED
  BY <1>1, <1>2 DEF Refused

\* handler.h:70-104, tcp_connection.h:85-96: for any connections, names and frames,
\* a nack for each failed join request, one ack, and nothing after it.
THEOREM JoinsAreAnswered == Spec => []JoinReplies
BY InitReplies, NextReplies, SpecChatInv, PTL DEF Spec

=============================================================================
