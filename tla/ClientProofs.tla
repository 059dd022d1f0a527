----------------------------- MODULE ClientProofs -----------------------------
(***************************************************************************)
(* Proofs about Client, for any number of endpoints, lines and chat lines. *)
(***************************************************************************)
EXTENDS Client, SequenceTheorems, TLAPS

USE ClientAssumption DEF ClientAssumption

(***************************************************************************)
(* Sequences.                                                              *)
(***************************************************************************)

\* Taking the head of the second sequence to the end of the first.
LEMMA MoveHead ==
  ASSUME NEW S, NEW s \in Seq(S), NEW t \in Seq(S), t # <<>>
  PROVE  /\ Head(t) \in S /\ Tail(t) \in Seq(S)
         /\ Append(s, Head(t)) \o Tail(t) = s \o t
<1>1. Head(t) \in S /\ Tail(t) \in Seq(S) /\ Len(Tail(t)) = Len(t) - 1
  BY HeadTailProperties
<1>2. /\ Append(s, Head(t)) \in Seq(S) /\ Len(Append(s, Head(t))) = Len(s) + 1
      /\ \A i \in 1 .. Len(s) : Append(s, Head(t))[i] = s[i]
      /\ Append(s, Head(t))[Len(s) + 1] = Head(t)
  BY <1>1, AppendProperties
<1> DEFINE l == Append(s, Head(t)) \o Tail(t)
           r == s \o t
<1>3. l \in Seq(S) /\ Len(l) = Len(s) + 1 + (Len(t) - 1)
  BY <1>1, <1>2, ConcatProperties
<1>4. r \in Seq(S) /\ Len(r) = Len(s) + Len(t)
  BY ConcatProperties
<1>5. Len(s) \in Nat /\ Len(t) \in Nat /\ Len(t) # 0
  BY LenProperties, EmptySeq
<1>6. \A i \in 1 .. Len(r) : l[i] = r[i]
  BY <1>1, <1>2, <1>5, ConcatProperties, HeadTailProperties
<1> QED
  BY <1>1, <1>3, <1>4, <1>5, <1>6, SeqEqual

\* A sequence is a beginning of itself with something behind it.
LEMMA Beginning ==
  ASSUME NEW S, NEW s \in Seq(S), NEW t \in Seq(S)
  PROVE  s = SubSeq(s \o t, 1, Len(s))
OBVIOUS

LEMMA ConcatAppend ==
  ASSUME NEW S, NEW s \in Seq(S), NEW t \in Seq(S), NEW x \in S
  PROVE  s \o Append(t, x) = Append(s \o t, x)
OBVIOUS

\* What lies at the beginning stays there when the sequence grows.
LEMMA BeginningGrows ==
  ASSUME NEW S, NEW s \in Seq(S), NEW n \in 0 .. Len(s), NEW x \in S
  PROVE  SubSeq(Append(s, x), 1, n) = SubSeq(s, 1, n)
OBVIOUS


(***************************************************************************)
(* Types.                                                                  *)
(***************************************************************************)
LEMMA Messages ==
  /\ Join \in Outgoing /\ Ack \in Incoming /\ Nack \in Incoming
  /\ Ack # Nack
  /\ \A k \in Nat : /\ Line("MESSAGE", k) \in Outgoing \cap Incoming
                    /\ Line("ANSWER", k) \in Outgoing
                    /\ Line("MESSAGE", k) \notin {Ack, Nack}
BY DEF Join, Ack, Nack, Line, Outgoing, Incoming

LEMMA InitType == Init => TypeOK
<1> SUFFICES ASSUME Init PROVE TypeOK
  OBVIOUS
<1>1. /\ <<>> \in Seq(Outgoing) /\ <<>> \in Seq(Incoming)
      /\ <<>> \in Seq(Outgoing \cup {Garbage}) /\ Len(<<>>) = 0
  BY EmptySeq
<1>2. 0 \in 0 .. Endpoints - 1 /\ 0 <= MaxLines + 1
  OBVIOUS
<1>3. 0 + 0 + 0 + 0 <= 0
  OBVIOUS
<1> QED
  BY <1>1, <1>2, <1>3 DEF Init, TypeOK

\* What a read takes off the wire, and what it leaves.
LEMMA ReadSequences ==
  ASSUME TypeOK, NEW n \in 1 .. Len(wire)
  PROVE  LET got == aggr \o SubSeq(wire, 1, n)
         IN  /\ got \in Seq(Incoming) /\ got # <<>>
             /\ Head(got) \in Incoming /\ Tail(got) \in Seq(Incoming)
             /\ SubSeq(wire, n + 1, Len(wire)) \in Seq(Incoming)
             /\ Len(Tail(got)) + 1 + Len(SubSeq(wire, n + 1, Len(wire)))
                  = Len(aggr) + Len(wire)
<1>1. wire \in Seq(Incoming) /\ aggr \in Seq(Incoming) /\ Len(wire) \in Nat
  BY LenProperties DEF TypeOK
<1>2. \A i \in 1 .. Len(wire) : wire[i] \in Incoming
  BY <1>1, ElementOfSeq
<1>3. /\ SubSeq(wire, 1, n) \in Seq(Incoming) /\ Len(SubSeq(wire, 1, n)) = n
      /\ SubSeq(wire, n + 1, Len(wire)) \in Seq(Incoming)
      /\ Len(SubSeq(wire, n + 1, Len(wire))) = Len(wire) - n
  BY <1>1, <1>2, SubSeqProperties
<1> DEFINE got == aggr \o SubSeq(wire, 1, n)
<1>4. got \in Seq(Incoming) /\ Len(got) = Len(aggr) + n /\ Len(aggr) \in Nat
  BY <1>1, <1>3, ConcatProperties, LenProperties
<1>5. got # <<>>
  BY <1>4, EmptySeq
<1>6. /\ Head(got) \in Incoming /\ Tail(got) \in Seq(Incoming)
      /\ Len(Tail(got)) = Len(got) - 1
  BY <1>4, <1>5, HeadTailProperties
<1>7. Len(Tail(got)) + 1 + Len(SubSeq(wire, n + 1, Len(wire))) = Len(aggr) + Len(wire)
  <2> HIDE DEF got
  <2> DEFINE front == Len(Tail(got))
             back == Len(SubSeq(wire, n + 1, Len(wire)))
             a == Len(aggr)
             w == Len(wire)
  <2>1. front = a + n - 1
    BY <1>4, <1>6
  <2>2. back = w - n /\ a \in Nat /\ w \in Nat /\ n \in Nat
    BY <1>1, <1>3, <1>4
  <2> HIDE DEF front, back, a, w
  <2>3. front + 1 + back = a + w
    BY <2>1, <2>2
  <2> QED
    BY <2>3 DEF front, back, a, w
<1> QED
  BY <1>3, <1>4, <1>5, <1>6, <1>7

\* The lengths that the bound on what is on its way speaks of.
LEMMA Lengths ==
  ASSUME TypeOK
  PROVE  /\ Len(batch) \in Nat /\ Len(queue) \in Nat /\ Len(aggr) \in Nat
         /\ Len(wire) \in Nat /\ Len(said) \in Nat /\ Len(<<>>) = 0
BY LenProperties, EmptySeq DEF TypeOK

LEMMA NetThreadType ==
  ASSUME TypeOK, NetThread
  PROVE  TypeOK'
<1> USE DEF Runs
<1>1. CASE Resolved
  BY <1>1 DEF Resolved, TypeOK, readVars, mainVars, peerVars
<1>2. CASE ResolveFailed
  BY <1>2 DEF ResolveFailed, TypeOK, readVars, mainVars, peerVars
<1>3. CASE Connected
  <2>1. PICK garbled \in SUBSET DOMAIN stuck :
          written' = written \o [i \in DOMAIN stuck |->
                                   IF i \in garbled THEN Garbage ELSE stuck[i]]
    BY <1>3 DEF Connected
  <2>2. stuck \in Seq(Outgoing) /\ Len(stuck) \in Nat /\ DOMAIN stuck = 1 .. Len(stuck)
    BY LenProperties DEF TypeOK
  <2> DEFINE late == [i \in DOMAIN stuck |-> IF i \in garbled THEN Garbage ELSE stuck[i]]
  <2>3. \A i \in 1 .. Len(stuck) : late[i] \in Outgoing \cup {Garbage}
    BY <2>2, ElementOfSeq
  <2>4. late \in [1 .. Len(stuck) -> Outgoing \cup {Garbage}]
    BY <2>2, <2>3
  <2>5. late \in Seq(Outgoing \cup {Garbage})
    BY <2>2, <2>4, SeqDef
  <2>6. written' \in Seq(Outgoing \cup {Garbage})
    BY <2>1, <2>5, ConcatProperties DEF TypeOK
  <2>7. <<>> \in Seq(Outgoing)
    BY EmptySeq
  <2> QED
    BY <1>3, <2>6, <2>7 DEF Connected, TypeOK, readVars, mainVars
<1>4. CASE ConnectRefused
  <2>1. <<>> \in Seq(Outgoing)
    BY EmptySeq
  <2>2. left' \in 0 .. Endpoints - 1
    BY <1>4 DEF ConnectRefused, TypeOK
  <2> QED
    BY <1>4, <2>1, <2>2 DEF ConnectRefused, TypeOK, readVars, mainVars, peerVars
<1>5. CASE RunPosted
  <2>1. Head(posted) \in Outgoing /\ Tail(posted) \in Seq(Outgoing)
    BY <1>5, HeadTailProperties DEF RunPosted, TypeOK
  <2>2. /\ Append(written, Head(posted)) \in Seq(Outgoing \cup {Garbage})
        /\ Append(stuck, Head(posted)) \in Seq(Outgoing)
    BY <2>1, AppendProperties DEF TypeOK
  <2> QED
    BY <1>5, <2>1, <2>2 DEF RunPosted, TypeOK, readVars, mainVars, peerVars
<1>6. CASE ReadAny
  <2>1. PICK n \in 1 .. Len(wire) : Read(n)
    BY <1>6 DEF ReadAny
  <2> DEFINE got == aggr \o SubSeq(wire, 1, n)
  <2>2. /\ Head(got) \in Incoming /\ Tail(got) \in Seq(Incoming)
        /\ SubSeq(wire, n + 1, Len(wire)) \in Seq(Incoming)
        /\ Len(Tail(got)) + 1 + Len(SubSeq(wire, n + 1, Len(wire))) = Len(aggr) + Len(wire)
    BY ReadSequences
  <2>3. /\ queue' = Append(queue, Head(got)) /\ aggr' = Tail(got)
        /\ wire' = SubSeq(wire, n + 1, Len(wire))
        /\ UNCHANGED <<netVars, mainVars, said, up>>
    BY <2>1 DEF Read
  <2> HIDE DEF got
  <2>4. /\ Append(queue, Head(got)) \in Seq(Incoming)
        /\ Len(Append(queue, Head(got))) = Len(queue) + 1
    BY <2>2, AppendProperties DEF TypeOK
  <2>5. Len(batch) + Len(queue') + Len(aggr') + Len(wire') <= Len(said)
    <3>1. /\ Len(Tail(got)) \in Nat /\ Len(SubSeq(wire, n + 1, Len(wire))) \in Nat
      BY <2>2, LenProperties
    <3>2. batch' = batch /\ Len(queue') = Len(queue) + 1
      BY <2>3, <2>4 DEF mainVars
    <3>3. /\ Len(aggr') + 1 + Len(wire') = Len(aggr) + Len(wire)
          /\ Len(aggr') \in Nat /\ Len(wire') \in Nat
      BY <2>2, <2>3, <3>1
    <3> DEFINE b == Len(batch)
               q == Len(queue)
               a == Len(aggr)
               w == Len(wire)
               all == Len(said)
               a1 == Len(aggr')
               w1 == Len(wire')
    <3>4. /\ b \in Nat /\ q \in Nat /\ a \in Nat /\ w \in Nat /\ all \in Nat
          /\ a1 \in Nat /\ w1 \in Nat
          /\ a1 + 1 + w1 = a + w /\ b + q + a + w <= all
      BY <3>3, Lengths DEF TypeOK
    <3> HIDE DEF b, q, a, w, all, a1, w1
    <3>5. b + (q + 1) + a1 + w1 <= all
      BY <3>4
    <3> QED
      BY <3>2, <3>5, Lengths DEF b, q, a, w, all, a1, w1
  <2> QED
    BY <2>2, <2>3, <2>4, <2>5 DEF TypeOK, netVars, mainVars
<1>7. CASE ReadError
  BY <1>7 DEF ReadError, TypeOK, readVars, mainVars, peerVars
<1>8. CASE RunReturns
  BY <1>8 DEF RunReturns, TypeOK, readVars, mainVars, peerVars
<1> QED
  BY <1>1, <1>2, <1>3, <1>4, <1>5, <1>6, <1>7, <1>8 DEF NetThread

LEMMA SendType ==
  ASSUME TypeOK, NEW m \in Outgoing, Send(m), Len(typed) <= MaxLines
  PROVE  posted' \in Seq(Outgoing) /\ typed' \in Seq(Outgoing) /\ Len(typed') <= MaxLines + 1
<1>1. posted \in Seq(Outgoing) /\ typed \in Seq(Outgoing) /\ Len(typed) \in Nat
  BY LenProperties DEF TypeOK
<1> QED
  BY <1>1, AppendProperties DEF Send

LEMMA MainThreadType ==
  ASSUME TypeOK, MainThread
  PROVE  TypeOK'
<1>0. <<>> \in Seq(Incoming)
  BY EmptySeq
<1> USE DEF MainAt, netVars, readVars, peerVars
<1>1. CASE Poll
  BY <1>1 DEF Poll, TypeOK
<1>2. CASE Take
  BY <1>0, <1>2, Lengths DEF Take, TypeOK
<1>3. CASE JoinPass
  <2>1. batch' \in Seq(Incoming) /\ Len(batch') = Len(batch) - 1
    BY <1>3, HeadTailProperties DEF JoinPass, TypeOK
  <2> QED
    BY <1>3, <2>1, Lengths DEF JoinPass, TypeOK
<1>4. CASE JoinAgain
  BY <1>4 DEF JoinAgain, TypeOK
<1>5. CASE JoinGranted
  <2>1. since' \in Nat
    BY <1>5, Lengths DEF JoinGranted, TypeOK
  <2> QED
    BY <1>0, <1>5, <2>1, Lengths DEF JoinGranted, TypeOK
<1>6. CASE JoinDenied
  BY <1>6 DEF JoinDenied, TypeOK
<1>7. CASE ShowHead
  <2>1. /\ batch' \in Seq(Incoming) /\ Head(batch) \in Incoming
        /\ Len(batch') = Len(batch) - 1
    BY <1>7, HeadTailProperties DEF ShowHead, TypeOK
  <2>2. shown' \in Seq(Incoming)
    BY <1>7, <2>1, AppendProperties DEF ShowHead, TypeOK
  <2> QED
    BY <1>7, <2>1, <2>2, Lengths DEF ShowHead, TypeOK
<1>8. CASE ShownAll
  BY <1>8 DEF ShownAll, TypeOK
<1>9. CASE KeyOther
  BY <1>9 DEF KeyOther, TypeOK
<1>10. CASE KeyEnter
  <2>1. PICK kind \in {"MESSAGE", "ANSWER"} : Send(Line(kind, Len(typed)))
    BY <1>10 DEF KeyEnter
  <2>2. Line(kind, Len(typed)) \in Outgoing /\ Len(typed) <= MaxLines
    BY <1>10, LenProperties, Messages DEF TypeOK, KeyEnter
  <2>3. posted' \in Seq(Outgoing) /\ typed' \in Seq(Outgoing) /\ Len(typed') <= MaxLines + 1
    BY <2>1, <2>2, SendType
  <2> QED
    BY <1>10, <2>3 DEF KeyEnter, TypeOK
<1>11. CASE KeyEscape
  BY <1>11 DEF KeyEscape, TypeOK
<1>12. CASE Stop
  BY <1>12 DEF Stop, TypeOK
<1>13. CASE JoinThread
  BY <1>13 DEF JoinThread, TypeOK
<1> QED
  BY <1>1, <1>2, <1>3, <1>4, <1>5, <1>6, <1>7, <1>8, <1>9, <1>10, <1>11, <1>12, <1>13
     DEF MainThread, JoinLoop, Keyboard

LEMMA ServerType ==
  ASSUME TypeOK, Server
  PROVE  TypeOK'
<1> USE DEF netVars, readVars, mainVars
<1>1. ASSUME NEW m \in Incoming, Says(m), UNCHANGED <<netVars, readVars, mainVars, up>>
      PROVE  TypeOK'
  <2>1. /\ wire' \in Seq(Incoming) /\ Len(wire') = Len(wire) + 1
        /\ said' \in Seq(Incoming) /\ Len(said') = Len(said) + 1
    BY <1>1, AppendProperties DEF Says, TypeOK
  <2> QED
    BY <1>1, <2>1, Lengths DEF TypeOK
<1>2. CASE ServerChat
  <2>1. Line("MESSAGE", Len(said) + 1) \in Incoming
    BY Lengths, Messages
  <2> QED
    BY <1>1, <1>2, <2>1 DEF ServerChat
<1>3. CASE ServerAnswer
  BY <1>1, <1>3, Messages DEF ServerAnswer
<1>4. CASE ServerGone
  BY <1>4 DEF ServerGone, TypeOK
<1> QED
  BY <1>2, <1>3, <1>4 DEF Server

LEMMA NextType == TypeOK /\ [Next]_vars => TypeOK'
<1> SUFFICES ASSUME TypeOK, [Next]_vars PROVE TypeOK'
  OBVIOUS
<1>1. CASE GiveName
  <2>1. Len(typed) <= MaxLines
    BY <1>1, Lengths DEF GiveName, MainAt, TypeOK
  <2>2. posted' \in Seq(Outgoing) /\ typed' \in Seq(Outgoing) /\ Len(typed') <= MaxLines + 1
    BY <1>1, <2>1, SendType, Messages DEF GiveName
  <2> QED
    BY <1>1, <2>2 DEF GiveName, MainAt, TypeOK, readVars, peerVars
<1>2. CASE MainThread
  BY <1>2, MainThreadType
<1>3. CASE NetThread
  BY <1>3, NetThreadType
<1>4. CASE Server
  BY <1>4, ServerType
<1>5. CASE UNCHANGED vars
  BY <1>5 DEF TypeOK, vars, netVars, readVars, mainVars, peerVars
<1> QED
  BY <1>1, <1>2, <1>3, <1>4, <1>5 DEF Next, Over

\* Every state of the client is a state of its types: the lines that are under
\* way fit what was said, and the user enters no more than the bound.
THEOREM TypeCorrect == Spec => []TypeOK
<1>1. TypeOK /\ [Next]_vars => TypeOK'
  BY NextType
<1> QED
  BY InitType, <1>1, PTL DEF Spec

(***************************************************************************)
(* The way out.  Before the ack there is one message, the join request, in *)
(* one of five places; after it, the connection is made and no write waits *)
(* behind it.  That the ack tells the one from the other is why the part   *)
(* of the messages that came back is in the invariant.                     *)
(***************************************************************************)
Acked(s) == \E i \in DOMAIN s : s[i] = Ack

\* Where the join request can be: written, or spoilt; behind the connect, or lost; posted.
Alone ==
  \/ written \in {<<Join>>, <<Garbage>>} /\ stuck = <<>> /\ posted = <<>>
  \/ written = <<>> /\ stuck \in {<<Join>>, <<>>} /\ posted = <<>>
  \/ written = <<>> /\ stuck = <<>> /\ posted = <<Join>>

BeforeJoin ==
  main = "name" => /\ phase = "join"
                   /\ written = <<>> /\ stuck = <<>> /\ posted = <<>>

Joining ==
  phase = "join" /\ main # "name" =>
    /\ main \in {"poll", "take", "batch", "terminated"}
    /\ typed = <<Join>> /\ Alone

Connection ==
  /\ stuck # <<>> => net = "connecting"
  /\ net \in {"resolving", "connecting"} => written = <<>>

AckAnswers ==
  phase = "join" /\ (Acked(batch) \/ Acked(queue) \/ Acked(aggr) \/ Acked(wire))
    => main # "name" /\ written = <<Join>>

Chatting ==
  phase = "gui" =>
    /\ stuck = <<>> /\ written # <<>>
    /\ Len(written) <= Len(typed) /\ written = SubSeq(typed, 1, Len(written))
    /\ net = "reading" => written \o posted = typed

OutInv == TypeOK /\ BeforeJoin /\ Joining /\ Connection /\ AckAnswers /\ Chatting

\* Sequences of no and of one element.
LEMMA Singles ==
  ASSUME NEW S, NEW x \in S, NEW s \in Seq(S)
  PROVE  /\ <<x>> \in Seq(S) /\ Len(<<x>>) = 1
         /\ Head(<<x>>) = x /\ Tail(<<x>>) = <<>>
         /\ Append(<<>>, x) = <<x>> /\ Append(s, x) # <<>>
         /\ s \o <<>> = s /\ <<>> \o s = s
<1>1. <<x>> \in Seq(S) /\ Len(<<x>>) = 1 /\ Head(<<x>>) = x
  OBVIOUS
<1>2. Tail(<<x>>) = <<>>
  <2>1. Tail(<<x>>) \in Seq(S) /\ Len(Tail(<<x>>)) = 0
    BY <1>1, HeadTailProperties, EmptySeq
  <2> QED
    BY <2>1, EmptySeq
<1>3. Append(<<>>, x) = <<x>>
  OBVIOUS
<1>4. Append(s, x) # <<>>
  BY AppendProperties, EmptySeq, LenProperties
<1>5. s \o <<>> = s /\ <<>> \o s = s
  BY ConcatEmptySeq
<1> QED
  BY <1>1, <1>2, <1>3, <1>4, <1>5

LEMMA AckedTail ==
  ASSUME NEW s \in Seq(Incoming), s # <<>>, Acked(Tail(s))
  PROVE  Acked(s)
<1>1. PICK i \in DOMAIN Tail(s) : Tail(s)[i] = Ack
  BY DEF Acked
<1>2. /\ Len(s) \in Nat /\ DOMAIN Tail(s) = 1 .. Len(s) - 1
      /\ Tail(s)[i] = s[i + 1] /\ DOMAIN s = 1 .. Len(s)
  BY HeadTailProperties, LenProperties
<1> QED
  BY <1>1, <1>2 DEF Acked

LEMMA AckedAppend ==
  ASSUME NEW s \in Seq(Incoming), NEW m, Acked(Append(s, m))
  PROVE  Acked(s) \/ m = Ack
BY DEF Acked

\* A read moves messages; it makes none.
LEMMA ReadAcked ==
  ASSUME TypeOK, NEW n \in 1 .. Len(wire), Read(n),
         Acked(queue') \/ Acked(aggr') \/ Acked(wire')
  PROVE  Acked(queue) \/ Acked(aggr) \/ Acked(wire)
<1>1. /\ wire \in Seq(Incoming) /\ aggr \in Seq(Incoming) /\ queue \in Seq(Incoming)
      /\ Len(wire) \in Nat /\ DOMAIN wire = 1 .. Len(wire)
      /\ Len(aggr) \in Nat /\ DOMAIN aggr = 1 .. Len(aggr)
  BY LenProperties DEF TypeOK
<1> DEFINE front == SubSeq(wire, 1, n)
           got == aggr \o front
<1>2. /\ front \in Seq(Incoming) /\ DOMAIN front = 1 .. n
      /\ \A i \in 1 .. n : front[i] = wire[i]
  BY <1>1
<1>3. got \in Seq(Incoming) /\ got # <<>>
  BY ReadSequences
<1>4. Acked(got) => Acked(aggr) \/ Acked(wire)
  <2> SUFFICES ASSUME Acked(got) PROVE Acked(aggr) \/ Acked(wire)
    OBVIOUS
  <2>1. PICK i \in DOMAIN got : got[i] = Ack
    BY DEF Acked
  <2>2. /\ DOMAIN got = 1 .. Len(aggr) + n
        /\ got[i] = IF i <= Len(aggr) THEN aggr[i] ELSE front[i - Len(aggr)]
    BY <1>1, <1>2
  <2>3. CASE i <= Len(aggr)
    BY <1>1, <2>1, <2>2, <2>3 DEF Acked
  <2>4. CASE ~(i <= Len(aggr))
    <3>1. i - Len(aggr) \in 1 .. n /\ front[i - Len(aggr)] = Ack
      BY <1>1, <2>1, <2>2, <2>4
    <3> QED
      BY <1>1, <1>2, <3>1 DEF Acked
  <2> QED
    BY <2>3, <2>4
<1>5. Acked(wire') => Acked(wire)
  <2> SUFFICES ASSUME Acked(wire') PROVE Acked(wire)
    OBVIOUS
  <2>1. wire' = SubSeq(wire, n + 1, Len(wire))
    BY DEF Read
  <2>2. PICK i \in DOMAIN wire' : wire'[i] = Ack
    BY DEF Acked
  <2>3. i + n \in 1 .. Len(wire) /\ wire[i + n] = Ack
    BY <1>1, <2>1, <2>2
  <2> QED
    BY <1>1, <2>3 DEF Acked
<1>6. queue' = Append(queue, Head(got)) /\ aggr' = Tail(got)
  BY DEF Read
<1> HIDE DEF got
<1>7. Acked(aggr') => Acked(got)
  BY <1>3, <1>6, AckedTail
<1>8. Head(got) = Ack => Acked(got)
  <2>1. 1 \in DOMAIN got /\ Head(got) = got[1]
    BY <1>3, EmptySeq, LenProperties
  <2> QED
    BY <2>1 DEF Acked
<1>9. Acked(queue') => Acked(queue) \/ Acked(got)
  BY <1>1, <1>6, <1>8, AckedAppend
<1> QED
  BY <1>4, <1>5, <1>7, <1>9

LEMMA Prefix ==
  ASSUME NEW S, NEW w \in Seq(S), NEW p \in Seq(S), NEW t, w \o p = t
  PROVE  Len(w) <= Len(t) /\ w = SubSeq(t, 1, Len(w))
<1>1. Len(t) = Len(w) + Len(p) /\ Len(w) \in Nat /\ Len(p) \in Nat
  BY ConcatProperties, LenProperties
<1> QED
  BY <1>1, Beginning

\* What the steps below need of the types.
LEMMA OutTypes ==
  ASSUME TypeOK
  PROVE  /\ written \in Seq(Outgoing \cup {Garbage}) /\ stuck \in Seq(Outgoing)
         /\ posted \in Seq(Outgoing) /\ posted \in Seq(Outgoing \cup {Garbage})
         /\ typed \in Seq(Outgoing)
         /\ batch \in Seq(Incoming) /\ queue \in Seq(Incoming)
         /\ aggr \in Seq(Incoming) /\ wire \in Seq(Incoming)
         /\ Join \in Outgoing /\ Garbage \in Outgoing \cup {Garbage}
         /\ Garbage # Join
<1>1. posted \in Seq(Outgoing) => posted \in Seq(Outgoing \cup {Garbage})
  OBVIOUS
<1>2. Garbage # Join
  BY DEF Garbage, Join
<1> QED
  BY <1>1, <1>2, Messages DEF TypeOK

LEMMA InitOut == Init => OutInv
<1> SUFFICES ASSUME Init PROVE OutInv
  OBVIOUS
<1>1. TypeOK
  BY InitType
<1>2. ~Acked(<<>>)
  BY DEF Acked
<1> QED
  BY <1>1, <1>2 DEF Init, OutInv, BeforeJoin, Joining, Connection, AckAnswers, Chatting

LEMMA ConnectedOut ==
  ASSUME OutInv, Connected
  PROVE  BeforeJoin' /\ Joining' /\ Connection' /\ AckAnswers' /\ Chatting'
<1> USE DEF OutInv, readVars, mainVars
<1>1. /\ net = "connecting" /\ written = <<>> /\ stuck' = <<>> /\ net' = "reading"
      /\ phase # "gui" /\ UNCHANGED <<posted, batch, queue, aggr, wire, main, phase, typed>>
      /\ phase \in {"join", "gui"}
  BY DEF Connected, Connection, Chatting, TypeOK
<1>2. PICK garbled \in SUBSET DOMAIN stuck :
        written' = written \o [i \in DOMAIN stuck |->
                                 IF i \in garbled THEN Garbage ELSE stuck[i]]
  BY DEF Connected
<1> DEFINE late == [i \in DOMAIN stuck |-> IF i \in garbled THEN Garbage ELSE stuck[i]]
<1>3. CASE stuck = <<>>
  <2>1. late = <<>>
    BY <1>3
  <2>2. written' = <<>>
    BY <1>1, <1>2, <2>1
  <2> QED
    BY <1>1, <1>3, <2>2
       DEF BeforeJoin, Joining, Alone, Connection, AckAnswers, Chatting
<1>4. CASE stuck # <<>>
  <2>1. main # "name" /\ stuck = <<Join>> /\ posted = <<>>
    BY <1>1, <1>4 DEF BeforeJoin, Joining, Alone
  <2>2. late \in {<<Join>>, <<Garbage>>}
    BY <2>1
  <2>3. late \in Seq(Outgoing \cup {Garbage})
    <3>1. TypeOK
      BY <1>1
    <3>2. Join \in Outgoing \cup {Garbage} /\ Garbage \in Outgoing \cup {Garbage}
      BY <3>1, OutTypes
    <3> DEFINE O == Outgoing \cup {Garbage}
    <3> HIDE DEF O, late
    <3>3. Join \in O /\ Garbage \in O
      BY <3>2 DEF O
    <3>4. <<Join>> \in Seq(O) /\ <<Garbage>> \in Seq(O)
      BY <3>3
    <3> QED
      BY <2>2, <3>4 DEF O
  <2>4. written' = late
    BY <1>1, <1>2, <2>3, ConcatEmptySeq
  <2>5. ~Acked(batch) /\ ~Acked(queue) /\ ~Acked(aggr) /\ ~Acked(wire)
    BY <1>1, OutTypes, Singles DEF AckAnswers
  <2> QED
    BY <1>1, <2>1, <2>2, <2>4, <2>5
       DEF BeforeJoin, Joining, Alone, Connection, AckAnswers, Chatting, Acked
<1> QED
  BY <1>3, <1>4

LEMMA RunPostedOut ==
  ASSUME OutInv, RunPosted
  PROVE  BeforeJoin' /\ Joining' /\ Connection' /\ AckAnswers' /\ Chatting'
<1> USE DEF OutInv, readVars, mainVars, peerVars
<1>1. /\ posted # <<>> /\ posted' = Tail(posted) /\ phase \in {"join", "gui"}
      /\ UNCHANGED <<net, batch, queue, aggr, wire, main, phase, typed>>
  BY DEF RunPosted, TypeOK
<1>2. CASE phase = "join"
  <2>1. /\ main # "name" /\ posted = <<Join>> /\ written = <<>> /\ stuck = <<>>
    BY <1>1, <1>2 DEF BeforeJoin, Joining, Alone
  <2>2. /\ Head(posted) = Join /\ posted' = <<>>
        /\ Append(<<>>, Join) = <<Join>> /\ <<Join>> # <<>>
    BY <1>1, <2>1, Singles, OutTypes, Messages
  <2>3. ~Acked(batch) /\ ~Acked(queue) /\ ~Acked(aggr) /\ ~Acked(wire)
    BY <1>2, <2>1, <2>2 DEF AckAnswers
  <2>4. AckAnswers' /\ Chatting' /\ BeforeJoin'
    BY <1>1, <1>2, <2>1, <2>3 DEF AckAnswers, Chatting, BeforeJoin, Acked
  <2>5. Joining' /\ Connection'
    BY <1>1, <1>2, <2>1, <2>2 DEF Joining, Alone, Connection, RunPosted
  <2> QED
    BY <2>4, <2>5
<1>3. CASE phase = "gui"
  <2>1. net \notin {"resolving", "connecting"} /\ main # "name" /\ stuck = <<>>
    BY <1>3 DEF Connection, Chatting, BeforeJoin
  <2>2. CASE net = "reading"
    <3>1. written' = Append(written, Head(posted)) /\ UNCHANGED stuck
      BY <2>2 DEF RunPosted
    <3>2. written' \o posted' = typed' /\ Head(posted) \in Outgoing \cup {Garbage}
      <4>1. /\ written \in Seq(Outgoing \cup {Garbage}) /\ posted \in Seq(Outgoing \cup {Garbage})
            /\ posted # <<>> /\ posted' = Tail(posted) /\ typed' = typed
        BY <1>1, OutTypes
      <4>2. written \o posted = typed
        BY <1>3, <2>2 DEF Chatting
      <4>3. /\ Head(posted) \in Outgoing \cup {Garbage}
            /\ Append(written, Head(posted)) \o Tail(posted) = written \o posted
        <5> DEFINE O == Outgoing \cup {Garbage}
        <5>1. written \in Seq(O) /\ posted \in Seq(O) /\ posted # <<>>
          BY <4>1
        <5> HIDE DEF O
        <5>2. Head(posted) \in O /\ Append(written, Head(posted)) \o Tail(posted) = written \o posted
          BY <5>1, MoveHead
        <5> QED
          BY <5>2 DEF O
      <4> QED
        BY <3>1, <4>1, <4>2, <4>3
    <3>3. written' \in Seq(Outgoing \cup {Garbage}) /\ posted' \in Seq(Outgoing \cup {Garbage})
      BY <1>1, <3>1, MoveHead, AppendProperties, OutTypes
    <3>4. Len(written') <= Len(typed') /\ written' = SubSeq(typed', 1, Len(written'))
      BY <3>2, <3>3, Prefix
    <3>5. written' # <<>>
      BY <3>1, <3>2, Singles, OutTypes
    <3> QED
      BY <1>1, <1>3, <2>1, <2>2, <3>1, <3>2, <3>4, <3>5
         DEF BeforeJoin, Joining, Connection, AckAnswers, Chatting
  <2>3. CASE net # "reading"
    <3>1. UNCHANGED <<stuck, written>>
      BY <2>1, <2>3 DEF RunPosted
    <3> QED
      BY <1>1, <1>3, <2>1, <2>3, <3>1
         DEF BeforeJoin, Joining, Connection, AckAnswers, Chatting
  <2> QED
    BY <2>2, <2>3
<1> QED
  BY <1>1, <1>2, <1>3

LEMMA NetThreadOut ==
  ASSUME OutInv, NetThread
  PROVE  BeforeJoin' /\ Joining' /\ Connection' /\ AckAnswers' /\ Chatting'
<1> USE DEF OutInv, readVars, mainVars, peerVars
<1>1. CASE Resolved
  BY <1>1 DEF Resolved, BeforeJoin, Joining, Alone, Connection, AckAnswers, Chatting, Acked
<1>2. CASE ResolveFailed
  BY <1>2 DEF ResolveFailed, BeforeJoin, Joining, Alone, Connection, AckAnswers, Chatting, Acked
<1>3. CASE Connected
  BY <1>3, ConnectedOut
<1>4. CASE ConnectRefused
  BY <1>4 DEF ConnectRefused, BeforeJoin, Joining, Alone, Connection, AckAnswers, Chatting, Acked
<1>5. CASE RunPosted
  BY <1>5, RunPostedOut
<1>6. CASE ReadAny
  <2>1. PICK n \in 1 .. Len(wire) : Read(n)
    BY <1>6 DEF ReadAny
  <2>2. UNCHANGED <<netVars, mainVars>>
    BY <2>1 DEF Read
  <2>3. Acked(queue') \/ Acked(aggr') \/ Acked(wire')
          => Acked(queue) \/ Acked(aggr) \/ Acked(wire)
    BY <2>1, ReadAcked
  <2>4. BeforeJoin' /\ Joining' /\ Connection' /\ Chatting'
    BY <2>2 DEF netVars, BeforeJoin, Joining, Alone, Connection, Chatting
  <2>5. AckAnswers'
    BY <2>2, <2>3 DEF netVars, AckAnswers
  <2> QED
    BY <2>4, <2>5
<1>7. CASE ReadError
  BY <1>7 DEF ReadError, BeforeJoin, Joining, Alone, Connection, AckAnswers, Chatting, Acked
<1>8. CASE RunReturns
  <2>1. stuck = <<>>
    BY <1>8 DEF RunReturns, Stopped, BeforeJoin, Joining, Connection, Chatting, TypeOK
  <2> QED
    BY <1>8, <2>1
       DEF RunReturns, BeforeJoin, Joining, Alone, Connection, AckAnswers, Chatting, Acked
<1> QED
  BY <1>1, <1>2, <1>3, <1>4, <1>5, <1>6, <1>7, <1>8 DEF NetThread

LEMMA GiveNameOut ==
  ASSUME OutInv, GiveName
  PROVE  BeforeJoin' /\ Joining' /\ Connection' /\ AckAnswers' /\ Chatting'
<1> USE DEF OutInv, MainAt, peerVars, readVars
<1>1. /\ main = "name" /\ main' = "poll" /\ phase = "join" /\ typed = <<>>
      /\ posted = <<>> /\ written = <<>> /\ stuck = <<>>
      /\ UNCHANGED <<net, written, stuck, batch, queue, aggr, wire, phase>>
  BY DEF GiveName, BeforeJoin, TypeOK
<1>2. posted' = <<Join>> /\ typed' = <<Join>>
  BY <1>1, Singles, Messages DEF GiveName, Send
<1>3. ~Acked(batch) /\ ~Acked(queue) /\ ~Acked(aggr) /\ ~Acked(wire)
  BY <1>1 DEF AckAnswers
<1> QED
  BY <1>1, <1>2, <1>3
     DEF BeforeJoin, Joining, Alone, Connection, AckAnswers, Chatting, Acked

LEMMA KeyEnterOut ==
  ASSUME OutInv, KeyEnter
  PROVE  BeforeJoin' /\ Joining' /\ Connection' /\ AckAnswers' /\ Chatting'
<1> USE DEF OutInv, MainAt, peerVars, readVars
<1>1. /\ main = "keyboard" /\ main' = "poll" /\ phase = "gui"
      /\ UNCHANGED <<net, written, stuck, batch, queue, aggr, wire, phase>>
  BY DEF KeyEnter, BeforeJoin, Joining, TypeOK
<1>2. PICK m \in Outgoing : posted' = Append(posted, m) /\ typed' = Append(typed, m)
  <2>1. PICK kind \in {"MESSAGE", "ANSWER"} : Send(Line(kind, Len(typed)))
    BY DEF KeyEnter
  <2>2. Line(kind, Len(typed)) \in Outgoing
    BY LenProperties, Messages, OutTypes
  <2> QED
    BY <2>1, <2>2 DEF Send
<1>3. /\ Len(written) \in Nat /\ Len(typed) \in Nat /\ Len(typed') = Len(typed) + 1
      /\ Len(written) <= Len(typed) /\ written = SubSeq(typed, 1, Len(written))
  BY <1>1, <1>2, AppendProperties, LenProperties, OutTypes DEF Chatting
<1>4. Len(written') <= Len(typed') /\ written' = SubSeq(typed', 1, Len(written'))
  BY <1>1, <1>2, <1>3, BeginningGrows, OutTypes
<1>5. net = "reading" => written \o posted' = typed'
  <2> DEFINE Sent == Outgoing \cup {Garbage}
  <2>1. m \in Sent /\ written \in Seq(Sent) /\ posted \in Seq(Sent)
    BY OutTypes
  <2> HIDE DEF Sent
  <2>2. written \o Append(posted, m) = Append(written \o posted, m)
    BY <2>1, ConcatAppend
  <2>3. net = "reading" => written \o posted = typed
    BY <1>1 DEF Chatting
  <2> QED
    BY <1>2, <2>2, <2>3
<1>6. Chatting'
  BY <1>1, <1>4, <1>5 DEF Chatting
<1> QED
  BY <1>1, <1>6 DEF BeforeJoin, Joining, Connection, AckAnswers

LEMMA MainThreadOut ==
  ASSUME OutInv, MainThread
  PROVE  BeforeJoin' /\ Joining' /\ Connection' /\ AckAnswers' /\ Chatting'
<1> USE DEF OutInv, MainAt, netVars, peerVars, readVars
<1>1. CASE Poll
  BY <1>1 DEF Poll, BeforeJoin, Joining, Alone, Connection, AckAnswers, Chatting, Acked
<1>2. CASE Take
  <2>1. ~Acked(<<>>)
    BY DEF Acked
  <2> QED
    BY <1>2, <2>1 DEF Take, BeforeJoin, Joining, Alone, Connection, AckAnswers, Chatting
<1>3. CASE JoinPass
  <2>1. Acked(batch') => Acked(batch)
    BY <1>3, AckedTail, OutTypes DEF JoinPass
  <2> QED
    BY <1>3, <2>1 DEF JoinPass, BeforeJoin, Joining, Alone, Connection, AckAnswers, Chatting
<1>4. CASE JoinAgain
  BY <1>4 DEF JoinAgain, BeforeJoin, Joining, Alone, Connection, AckAnswers, Chatting, Acked
<1>5. CASE JoinGranted
  <2>1. /\ phase = "join" /\ main = "batch" /\ main' = "poll" /\ phase' = "gui"
        /\ batch # <<>> /\ Head(batch) = Ack
        /\ UNCHANGED <<net, stuck, posted, written, typed>>
    BY <1>5 DEF JoinGranted
  <2>2. Acked(batch)
    <3>1. 1 \in DOMAIN batch /\ Head(batch) = batch[1]
      BY <2>1, OutTypes, EmptySeq, LenProperties
    <3> QED
      BY <2>1, <3>1 DEF Acked
  <2>3. written = <<Join>> /\ written # <<>> /\ typed = <<Join>>
    BY <2>1, <2>2, Singles, OutTypes DEF AckAnswers, Joining
  <2>4. stuck = <<>> /\ posted = <<>>
    BY <2>1, <2>3 DEF Joining, Alone
  <2>5. written \o posted = typed
    BY <2>3, <2>4, ConcatEmptySeq, OutTypes
  <2>6. Len(written) <= Len(typed) /\ written = SubSeq(typed, 1, Len(written))
    BY <2>5, Prefix, OutTypes
  <2> QED
    BY <2>1, <2>3, <2>4, <2>5, <2>6 DEF BeforeJoin, Joining, Connection, AckAnswers, Chatting
<1>6. CASE JoinDenied
  BY <1>6 DEF JoinDenied, BeforeJoin, Joining, Alone, Connection, AckAnswers, Chatting, Acked
<1>7. CASE ShowHead
  BY <1>7 DEF ShowHead, BeforeJoin, Joining, Connection, AckAnswers, Chatting
<1>8. CASE ShownAll
  BY <1>8 DEF ShownAll, BeforeJoin, Joining, Connection, AckAnswers, Chatting
<1>9. CASE KeyOther
  BY <1>9 DEF KeyOther, BeforeJoin, Joining, Alone, Connection, AckAnswers, Chatting, Acked
<1>10. CASE KeyEnter
  BY <1>10, KeyEnterOut
<1>11. CASE KeyEscape
  BY <1>11 DEF KeyEscape, BeforeJoin, Joining, Alone, Connection, AckAnswers, Chatting, Acked
<1>12. CASE Stop
  BY <1>12 DEF Stop, BeforeJoin, Joining, Alone, Connection, AckAnswers, Chatting, Acked
<1>13. CASE JoinThread
  BY <1>13 DEF JoinThread, BeforeJoin, Joining, Alone, Connection, AckAnswers, Chatting, Acked
<1> QED
  BY <1>1, <1>2, <1>3, <1>4, <1>5, <1>6, <1>7, <1>8, <1>9, <1>10, <1>11, <1>12, <1>13
     DEF MainThread, JoinLoop, Keyboard

LEMMA ServerOut ==
  ASSUME OutInv, Server
  PROVE  BeforeJoin' /\ Joining' /\ Connection' /\ AckAnswers' /\ Chatting'
<1> USE DEF OutInv
<1>1. UNCHANGED <<netVars, readVars, mainVars>>
  BY DEF Server, ServerChat, ServerAnswer, ServerGone
<1>2. BeforeJoin' /\ Joining' /\ Connection' /\ Chatting'
  BY <1>1 DEF netVars, readVars, mainVars, BeforeJoin, Joining, Alone, Connection, Chatting
<1>3. CASE ServerChat
  <2>1. Line("MESSAGE", Len(said) + 1) # Ack
    BY Lengths, Messages
  <2>2. Acked(wire') => Acked(wire)
    BY <1>3, <2>1, AckedAppend, OutTypes DEF ServerChat, Says
  <2> QED
    BY <1>1, <1>2, <2>2 DEF netVars, readVars, mainVars, AckAnswers
<1>4. CASE ServerAnswer
  <2>1. PICK i \in DOMAIN written : written[i] = Join
    BY <1>4 DEF ServerAnswer
  <2>2. phase = "join" => main # "name" /\ written = <<Join>>
    BY <2>1, OutTypes DEF BeforeJoin, Joining, Alone
  <2> QED
    BY <1>1, <1>2, <2>2 DEF netVars, readVars, mainVars, AckAnswers
<1>5. CASE ServerGone
  BY <1>1, <1>2, <1>5 DEF ServerGone, netVars, readVars, mainVars, AckAnswers
<1> QED
  BY <1>3, <1>4, <1>5 DEF Server

LEMMA NextOut == OutInv /\ [Next]_vars => OutInv'
<1> SUFFICES ASSUME OutInv, [Next]_vars PROVE OutInv'
  OBVIOUS
<1>1. TypeOK'
  BY NextType DEF OutInv
<1>2. CASE UNCHANGED vars
  BY <1>1, <1>2 DEF OutInv, vars, netVars, readVars, mainVars, peerVars,
       BeforeJoin, Joining, Alone, Connection, AckAnswers, Chatting, Acked
<1> QED
  BY <1>1, <1>2, GiveNameOut, MainThreadOut, NetThreadOut, ServerOut DEF OutInv, Next, Over

\* The invariant says what the property asks.
LEMMA OutInvOrder == OutInv => OutboxInOrder
<1> SUFFICES ASSUME OutInv PROVE OutboxInOrder
  OBVIOUS
<1>1. CASE phase = "join"
  <2>1. main = "name" \/ Alone
    BY <1>1 DEF OutInv, Joining
  <2>2. /\ Len(<<Join>>) = 1 /\ Len(<<Garbage>>) = 1 /\ Len(<<>>) = 0
        /\ <<Join>> \in Seq(Outgoing \cup {Garbage})
        /\ <<Garbage>> \in Seq(Outgoing \cup {Garbage})
        /\ <<>> \in Seq(Outgoing \cup {Garbage})
    BY Singles, EmptySeq, Messages
  <2>3. written \o stuck \o posted \in {<<Join>>, <<Garbage>>, <<>>}
    BY <1>1, <2>1, <2>2, ConcatEmptySeq DEF OutInv, BeforeJoin, Alone
  <2> QED
    BY <1>1, <2>2, <2>3 DEF OutboxInOrder
<1>2. CASE phase = "gui"
  BY <1>2 DEF OutInv, Chatting, OutboxInOrder
<1> QED
  BY <1>1, <1>2 DEF OutInv, TypeOK

\* What the user sends goes out in order and once, the join request first, and
\* nothing of it is lost on a connection that lasts: client.send() on the main
\* thread, the posted handler on the network thread, the connect between them.
THEOREM SendsInOrder == Spec => []OutboxInOrder
<1>1. OutInv /\ [Next]_vars => OutInv'
  BY NextOut
<1> QED
  BY InitOut, <1>1, OutInvOrder, PTL DEF Spec

(***************************************************************************)
(* What the user sees: for any endpoints, lines and amount of chat, the    *)
(* panel shows what the server said since the user interface began.        *)
(***************************************************************************)

(***************************************************************************)
(* Concatenation, as an operator that the provers leave alone.             *)
(***************************************************************************)

Cat(s, t) == s \o t

LEMMA CatType ==
  ASSUME NEW S, NEW s \in Seq(S), NEW t \in Seq(S)
  PROVE  Cat(s, t) \in Seq(S)
BY ConcatProperties DEF Cat

LEMMA CatLen ==
  ASSUME NEW S, NEW s \in Seq(S), NEW t \in Seq(S)
  PROVE  Len(Cat(s, t)) = Len(s) + Len(t) /\ Len(s) \in Nat /\ Len(t) \in Nat
BY ConcatProperties, LenProperties DEF Cat

LEMMA CatElements ==
  ASSUME NEW S, NEW s \in Seq(S), NEW t \in Seq(S)
  PROVE  /\ \A i \in 1 .. Len(s) : Cat(s, t)[i] = s[i]
         /\ \A i \in 1 .. Len(t) : Cat(s, t)[Len(s) + i] = t[i]
<1>1. Len(s) \in Nat /\ Len(t) \in Nat
  BY LenProperties
<1>2. \A i \in 1 .. Len(s) + Len(t) :
        Cat(s, t)[i] = IF i <= Len(s) THEN s[i] ELSE t[i - Len(s)]
  BY ConcatProperties DEF Cat
<1>3. ASSUME NEW i \in 1 .. Len(t) PROVE Cat(s, t)[Len(s) + i] = t[i]
  <2>1. /\ Len(s) + i \in 1 .. Len(s) + Len(t) /\ ~(Len(s) + i <= Len(s))
        /\ (Len(s) + i) - Len(s) = i
    BY <1>1
  <2> QED
    BY <1>2, <2>1
<1>4. ASSUME NEW i \in 1 .. Len(s) PROVE Cat(s, t)[i] = s[i]
  <2>1. i \in 1 .. Len(s) + Len(t) /\ i <= Len(s)
    BY <1>1
  <2> QED
    BY <1>2, <2>1
<1> QED
  BY <1>3, <1>4

LEMMA CatEmpty ==
  ASSUME NEW S, NEW s \in Seq(S)
  PROVE  Cat(s, <<>>) = s /\ Cat(<<>>, s) = s
BY ConcatEmptySeq DEF Cat

LEMMA CatAssoc ==
  ASSUME NEW S, NEW a \in Seq(S), NEW b \in Seq(S), NEW c \in Seq(S)
  PROVE  Cat(Cat(a, b), c) = Cat(a, Cat(b, c))
BY ConcatAssociative DEF Cat

LEMMA Regroup ==
  ASSUME NEW S, NEW a \in Seq(S), NEW b \in Seq(S), NEW c \in Seq(S), NEW d \in Seq(S)
  PROVE  Cat(Cat(Cat(a, b), c), d) = Cat(a, Cat(Cat(b, c), d))
<1>1. Cat(b, c) \in Seq(S)
  BY CatType
<1> QED
  BY <1>1, CatAssoc

\* A sequence that begins as f does and goes on as r does is the two of them.
LEMMA CatIs ==
  ASSUME NEW S, NEW f \in Seq(S), NEW r \in Seq(S), NEW s \in Seq(S), Len(s) = Len(f) + Len(r),
         \A i \in 1 .. Len(f) : f[i] = s[i], \A i \in 1 .. Len(r) : r[i] = s[Len(f) + i]
  PROVE  Cat(f, r) = s
<1> DEFINE t == Cat(f, r)
<1>4. t \in Seq(S) /\ Len(t) = Len(f) + Len(r) /\ Len(f) \in Nat /\ Len(r) \in Nat
  BY CatType, CatLen
<1>5. \A i \in 1 .. Len(f) : t[i] = f[i]
  BY CatElements
<1>6. \A i \in 1 .. Len(r) : t[Len(f) + i] = r[i]
  BY CatElements
<1>1. /\ t \in Seq(S) /\ Len(t) = Len(s) /\ Len(f) \in Nat /\ Len(r) \in Nat
      /\ \A i \in 1 .. Len(f) : t[i] = f[i]
      /\ \A i \in 1 .. Len(r) : t[Len(f) + i] = r[i]
  BY <1>4, <1>5, <1>6
<1> HIDE DEF t
<1>2. ASSUME NEW i \in 1 .. Len(s) PROVE t[i] = s[i]
  <2>1. CASE i \in 1 .. Len(f)
    BY <1>1, <2>1
  <2>2. CASE Len(f) < i
    <3>1. i - Len(f) \in 1 .. Len(r) /\ Len(f) + (i - Len(f)) = i
      BY <1>1, <2>2
    <3>2. t[Len(f) + (i - Len(f))] = r[i - Len(f)] /\ r[i - Len(f)] = s[Len(f) + (i - Len(f))]
      BY <1>1, <3>1
    <3> QED
      BY <3>1, <3>2
  <2> QED
    BY <1>1, <2>1, <2>2
<1>3. t = s
  BY <1>1, <1>2, SeqEqual
<1> QED
  BY <1>3 DEF t

LEMMA SplitCat ==
  ASSUME NEW S, NEW s \in Seq(S), NEW n \in 1 .. Len(s)
  PROVE  /\ SubSeq(s, 1, n) \in Seq(S) /\ SubSeq(s, n + 1, Len(s)) \in Seq(S)
         /\ Cat(SubSeq(s, 1, n), SubSeq(s, n + 1, Len(s))) = s
<1> DEFINE f == SubSeq(s, 1, n)
           r == SubSeq(s, n + 1, Len(s))
           l == Len(s)
<1>1. l \in Nat /\ n \in Nat /\ 1 <= n /\ n <= l /\ \A i \in 1 .. l : s[i] \in S
  BY LenProperties, ElementOfSeq
<1>2. f \in Seq(S) /\ Len(f) = n /\ \A i \in 1 .. n : f[i] = s[i]
  BY <1>1, SubSeqProperties
<1>3. \A i \in n + 1 .. l : s[i] \in S
  BY <1>1
<1>4. /\ r \in Seq(S) /\ Len(r) = (IF n + 1 <= l THEN l - (n + 1) + 1 ELSE 0)
      /\ \A i \in 1 .. l - (n + 1) + 1 : r[i] = s[(n + 1) + i - 1]
  BY <1>1, <1>3, SubSeqProperties
<1> HIDE DEF f, r
<1>5. Len(r) = l - n /\ Len(s) = Len(f) + Len(r)
  BY <1>1, <1>2, <1>4
<1>6. ASSUME NEW i \in 1 .. Len(r) PROVE r[i] = s[Len(f) + i]
  <2>1. i \in 1 .. l - (n + 1) + 1 /\ (n + 1) + i - 1 = n + i
    BY <1>1, <1>5
  <2> QED
    BY <1>2, <1>4, <2>1
<1>7. Cat(f, r) = s
  BY <1>2, <1>4, <1>5, <1>6, CatIs
<1> QED
  BY <1>2, <1>4, <1>7 DEF f, r

(***************************************************************************)
(* What is on its way is the end of what the server said; a chat line is   *)
(* known by its place in that; the batch is left behind only by a main     *)
(* that is over; and the panel is as PanelShowsChat says.                  *)
(***************************************************************************)

Ahead == Cat(Cat(Cat(batch, queue), aggr), wire)
Taken == Len(said) - Len(Ahead)

EndOf(a, s) ==
  /\ Len(a) <= Len(s)
  /\ \A i \in 1 .. Len(a) : a[i] = s[Len(s) - Len(a) + i]

BatchPlace == batch # <<>> => main \in {"batch", "terminated"}
Numbered == \A i \in DOMAIN said : IsChat(said[i]) => said[i].nr = i
PanelEmpty == phase = "join" => shown = <<>>
Panel ==
  phase = "gui" =>
    /\ since <= Taken
    /\ \E i \in 1 .. since : said[i] = Ack
    /\ {shown[i].nr : i \in DOMAIN shown} = {k \in since + 1 .. Taken : IsChat(said[k])}
    /\ \A i, j \in DOMAIN shown : i < j => shown[i].nr < shown[j].nr

PanelInv == TypeOK /\ BatchPlace /\ Numbered /\ PanelEmpty /\ EndOf(Ahead, said) /\ Panel

(***************************************************************************)
(* The way of the messages.                                                *)
(***************************************************************************)

LEMMA AheadType ==
  ASSUME TypeOK
  PROVE  /\ Ahead \in Seq(Incoming) /\ Len(Ahead) \in Nat /\ Len(said) \in Nat
         /\ Len(Ahead) = Len(batch) + Len(queue) + Len(aggr) + Len(wire)
         /\ Len(Ahead) <= Len(said) /\ Taken \in Nat /\ since \in Nat
         /\ said \in Seq(Incoming) /\ DOMAIN said = 1 .. Len(said)
         /\ shown \in Seq(Incoming) /\ Len(shown) \in Nat /\ DOMAIN shown = 1 .. Len(shown)
<1>1. /\ batch \in Seq(Incoming) /\ queue \in Seq(Incoming)
      /\ aggr \in Seq(Incoming) /\ wire \in Seq(Incoming)
      /\ said \in Seq(Incoming) /\ shown \in Seq(Incoming)
  BY DEF TypeOK
<1>2. /\ Len(batch) \in Nat /\ Len(queue) \in Nat /\ Len(aggr) \in Nat /\ Len(wire) \in Nat
      /\ Len(said) \in Nat /\ Len(shown) \in Nat
      /\ DOMAIN said = 1 .. Len(said) /\ DOMAIN shown = 1 .. Len(shown)
  BY <1>1, LenProperties
<1>3. Cat(batch, queue) \in Seq(Incoming) /\ Len(Cat(batch, queue)) = Len(batch) + Len(queue)
  BY <1>1, CatType, CatLen
<1>4. /\ Cat(Cat(batch, queue), aggr) \in Seq(Incoming)
      /\ Len(Cat(Cat(batch, queue), aggr)) = Len(batch) + Len(queue) + Len(aggr)
  BY <1>1, <1>3, CatType, CatLen
<1>5. Ahead \in Seq(Incoming) /\ Len(Ahead) = Len(batch) + Len(queue) + Len(aggr) + Len(wire)
  BY <1>1, <1>4, CatType, CatLen DEF Ahead
<1> QED
  BY <1>1, <1>2, <1>5 DEF TypeOK, Taken

\* A read moves messages from the wire to the queue; none is lost or overtaken.
LEMMA ReadMoves ==
  ASSUME TypeOK, NEW n \in 1 .. Len(wire), Read(n)
  PROVE  Ahead' = Ahead
<1> DEFINE front == SubSeq(wire, 1, n)
           rest == SubSeq(wire, n + 1, Len(wire))
           got == Cat(aggr, front)
           p == Append(queue, Head(got))
           r == Tail(got)
<1>1. /\ batch \in Seq(Incoming) /\ queue \in Seq(Incoming)
      /\ aggr \in Seq(Incoming) /\ wire \in Seq(Incoming) /\ Len(wire) \in Nat
  BY LenProperties DEF TypeOK
<1>2. front \in Seq(Incoming) /\ rest \in Seq(Incoming) /\ Cat(front, rest) = wire
  BY <1>1, SplitCat
<1>3. got # <<>> /\ got \in Seq(Incoming)
  BY ReadSequences DEF Cat
<1>4. /\ queue' = p /\ aggr' = r /\ wire' = rest /\ batch' = batch
  BY DEF Read, mainVars, Cat
<1>7. got = Cat(aggr, front)
  OBVIOUS
<1> HIDE DEF front, rest, got
<1>5. p \in Seq(Incoming) /\ r \in Seq(Incoming) /\ Cat(p, r) = Cat(queue, Cat(aggr, front))
  <2>1. p \in Seq(Incoming) /\ r \in Seq(Incoming) /\ Cat(p, r) = Cat(queue, got)
    BY <1>1, <1>3, MoveHead, AppendProperties DEF Cat
  <2> QED
    BY <1>7, <2>1
<1> HIDE DEF p, r
<1>6. Cat(Cat(Cat(batch, p), r), rest) = Cat(Cat(Cat(batch, queue), aggr), Cat(front, rest))
  <2>1. Cat(queue, aggr) \in Seq(Incoming) /\ Cat(front, rest) \in Seq(Incoming)
    BY <1>1, <1>2, CatType
  <2>2. Cat(p, r) = Cat(Cat(queue, aggr), front)
    BY <1>1, <1>2, <1>5, CatAssoc
  <2>3. Cat(Cat(Cat(batch, p), r), rest) = Cat(batch, Cat(Cat(p, r), rest))
    BY <1>1, <1>2, <1>5, Regroup
  <2>4. Cat(Cat(Cat(batch, queue), aggr), Cat(front, rest))
          = Cat(batch, Cat(Cat(queue, aggr), Cat(front, rest)))
    BY <1>1, <2>1, Regroup
  <2>5. Cat(Cat(Cat(queue, aggr), front), rest) = Cat(Cat(queue, aggr), Cat(front, rest))
    BY <1>2, <2>1, CatAssoc
  <2> QED
    BY <2>2, <2>3, <2>4, <2>5
<1> QED
  BY <1>2, <1>4, <1>6 DEF Ahead

\* Taking the queue as a batch moves messages, too.
LEMMA TakeMoves ==
  ASSUME TypeOK, BatchPlace, Take
  PROVE  Ahead' = Ahead
<1>1. /\ batch = <<>> /\ batch' = queue /\ queue' = <<>> /\ UNCHANGED <<aggr, wire>>
      /\ queue \in Seq(Incoming)
  BY DEF Take, MainAt, BatchPlace, peerVars, TypeOK
<1>2. Cat(queue, <<>>) = Cat(<<>>, queue)
  BY <1>1, CatEmpty
<1> QED
  BY <1>1, <1>2 DEF Ahead

\* Leaving out the front of what is on its way leaves the end.
LEMMA EndOfRest ==
  ASSUME NEW S, NEW b \in Seq(S), NEW r \in Seq(S), NEW s \in Seq(S), EndOf(Cat(b, r), s)
  PROVE  /\ EndOf(r, s)
         /\ b # <<>> => Head(b) = s[Len(s) - Len(Cat(b, r)) + 1]
<1>1. /\ Len(b) \in Nat /\ Len(r) \in Nat /\ Len(s) \in Nat
      /\ Len(Cat(b, r)) = Len(b) + Len(r) /\ Len(b) + Len(r) <= Len(s)
  BY CatLen, LenProperties DEF EndOf
<1>2. \A i \in 1 .. Len(b) + Len(r) : Cat(b, r)[i] = s[Len(s) - (Len(b) + Len(r)) + i]
  BY <1>1 DEF EndOf
<1>3. ASSUME NEW i \in 1 .. Len(r) PROVE r[i] = s[Len(s) - Len(r) + i]
  <2>1. /\ Len(b) + i \in 1 .. Len(b) + Len(r)
        /\ Len(s) - (Len(b) + Len(r)) + (Len(b) + i) = Len(s) - Len(r) + i
    BY <1>1
  <2>2. Cat(b, r)[Len(b) + i] = r[i]
    BY CatElements
  <2> QED
    BY <1>2, <2>1, <2>2
<1>4. ASSUME b # <<>> PROVE Head(b) = s[Len(s) - Len(Cat(b, r)) + 1]
  <2>1. 1 \in 1 .. Len(b) /\ 1 \in 1 .. Len(b) + Len(r)
    BY <1>1, <1>4, EmptySeq
  <2>2. Cat(b, r)[1] = b[1] /\ Head(b) = b[1]
    BY <1>4, <2>1, CatElements
  <2> QED
    BY <1>1, <1>2, <2>1, <2>2
<1> QED
  BY <1>1, <1>3, <1>4 DEF EndOf

Rest == Cat(Cat(queue, aggr), wire)

LEMMA AheadSplit ==
  ASSUME TypeOK
  PROVE  /\ Rest \in Seq(Incoming) /\ Len(Rest) = Len(queue) + Len(aggr) + Len(wire)
         /\ Ahead = Cat(batch, Rest)
         /\ \A b \in Seq(Incoming) : Cat(Cat(Cat(b, queue), aggr), wire) = Cat(b, Rest)
<1>1. /\ batch \in Seq(Incoming) /\ queue \in Seq(Incoming)
      /\ aggr \in Seq(Incoming) /\ wire \in Seq(Incoming)
  BY DEF TypeOK
<1>2. Cat(queue, aggr) \in Seq(Incoming) /\ Len(Cat(queue, aggr)) = Len(queue) + Len(aggr)
  BY <1>1, CatType, CatLen
<1>3. Rest \in Seq(Incoming) /\ Len(Rest) = Len(queue) + Len(aggr) + Len(wire)
  BY <1>1, <1>2, CatType, CatLen DEF Rest
<1>4. \A b \in Seq(Incoming) : Cat(Cat(Cat(b, queue), aggr), wire) = Cat(b, Rest)
  BY <1>1, Regroup DEF Rest
<1> QED
  BY <1>1, <1>3, <1>4 DEF Ahead

\* The head of the batch leaves.
LEMMA HeadLeaves ==
  ASSUME TypeOK, EndOf(Ahead, said), batch # <<>>, batch' = Tail(batch),
         UNCHANGED <<queue, aggr, wire, said>>
  PROVE  /\ Taken' = Taken + 1 /\ Taken + 1 \in 1 .. Len(said)
         /\ Head(batch) = said[Taken + 1]
         /\ EndOf(Ahead', said)
<1> DEFINE x == Head(batch)
           b == Tail(batch)
           a == Cat(b, Rest)
<1>1. batch \in Seq(Incoming) /\ said \in Seq(Incoming) /\ Rest \in Seq(Incoming)
  BY AheadSplit DEF TypeOK
<1>2. x \in Incoming /\ b \in Seq(Incoming) /\ <<x>> \in Seq(Incoming) /\ batch = Cat(<<x>>, b)
  BY <1>1 DEF Cat
<1>3. Ahead = Cat(batch, Rest) /\ Ahead' = a
  BY <1>2, AheadSplit DEF Ahead
<1>4. Head(<<x>>) = x /\ <<x>> # <<>> /\ Len(<<x>>) = 1
  OBVIOUS
<1>10. a = Cat(b, Rest)
  OBVIOUS
<1> DEFINE o == <<x>>
<1>11. o \in Seq(Incoming) /\ batch = Cat(o, b) /\ Head(o) = x /\ o # <<>> /\ Len(o) = 1
  BY <1>2, <1>4
<1> HIDE DEF x, b, a, o
<1>5. a \in Seq(Incoming) /\ Ahead = Cat(o, a)
  BY <1>1, <1>2, <1>3, <1>10, <1>11, CatType, CatAssoc
<1>6. EndOf(a, said) /\ x = said[Len(said) - Len(Ahead) + 1]
  BY <1>1, <1>5, <1>11, EndOfRest
<1>7. Len(Ahead) = Len(a) + 1 /\ Len(a) \in Nat
  <2>1. Len(Cat(o, a)) = Len(o) + Len(a) /\ Len(a) \in Nat
    BY <1>5, <1>11, CatLen
  <2> QED
    BY <1>5, <1>11, <2>1
<1>8. Len(said) \in Nat /\ Len(Ahead) <= Len(said) /\ said' = said
  BY AheadType
<1>9. Taken' = Taken + 1 /\ Taken + 1 \in 1 .. Len(said)
  BY <1>3, <1>7, <1>8 DEF Taken
<1> QED
  BY <1>3, <1>6, <1>9 DEF x, Taken

\* The whole batch leaves.
LEMMA BatchLeaves ==
  ASSUME TypeOK, EndOf(Ahead, said), batch # <<>>, batch' = <<>>,
         UNCHANGED <<queue, aggr, wire, said>>
  PROVE  /\ Taken' = Len(said) - (Len(queue) + Len(aggr) + Len(wire))
         /\ Taken' \in Nat /\ Taken + 1 \in 1 .. Taken' /\ Head(batch) = said[Taken + 1]
         /\ EndOf(Ahead', said)
<1>1. batch \in Seq(Incoming) /\ said \in Seq(Incoming) /\ <<>> \in Seq(Incoming)
      /\ Len(batch) \in Nat \ {0}
  BY EmptySeq, LenProperties DEF TypeOK
<1>2. /\ Rest \in Seq(Incoming) /\ Len(Rest) = Len(queue) + Len(aggr) + Len(wire)
      /\ Ahead = Cat(batch, Rest) /\ Cat(Cat(Cat(<<>>, queue), aggr), wire) = Cat(<<>>, Rest)
  BY <1>1, AheadSplit
<1>3. Ahead' = Rest
  BY <1>2, CatEmpty DEF Ahead
<1>4. EndOf(Rest, said) /\ Head(batch) = said[Len(said) - Len(Ahead) + 1]
  BY <1>1, <1>2, EndOfRest
<1>5. Len(Ahead) = Len(batch) + Len(Rest) /\ Len(Rest) \in Nat
  BY <1>1, <1>2, CatLen
<1>6. Len(said) \in Nat /\ Len(Ahead) <= Len(said) /\ said' = said
  BY AheadType
<1>7. Taken' = Len(said) - Len(Rest) /\ Taken + 1 \in 1 .. Taken' /\ Taken' \in Nat
  BY <1>1, <1>3, <1>5, <1>6 DEF Taken
<1> QED
  BY <1>2, <1>3, <1>4, <1>7 DEF Taken

\* What the server says goes to the end of both.
LEMMA SaysBoth ==
  ASSUME TypeOK, Numbered, EndOf(Ahead, said), NEW m \in Incoming, Says(m),
         UNCHANGED <<batch, queue, aggr>>, IsChat(m) => m.nr = Len(said) + 1
  PROVE  /\ Taken' = Taken /\ EndOf(Ahead', said') /\ Numbered'
         /\ \A k \in 1 .. Len(said) : said'[k] = said[k]
<1> DEFINE c == Cat(Cat(batch, queue), aggr)
           A == Append(Ahead, m)
           L == Append(said, m)
<1>1. /\ batch \in Seq(Incoming) /\ queue \in Seq(Incoming)
      /\ aggr \in Seq(Incoming) /\ wire \in Seq(Incoming)
      /\ wire' = Append(wire, m) /\ said' = L
  BY DEF TypeOK, Says
<1>2. Cat(batch, queue) \in Seq(Incoming)
  BY <1>1, CatType
<1>3. c \in Seq(Incoming)
  BY <1>1, <1>2, CatType
<1>4. Ahead' = Cat(c, Append(wire, m)) /\ Ahead = Cat(c, wire)
  BY <1>1 DEF Ahead
<1> HIDE DEF c
<1>5. Ahead' = A
  BY <1>1, <1>3, <1>4, ConcatAppend DEF Cat
<1>6. /\ Ahead \in Seq(Incoming) /\ Len(Ahead) \in Nat /\ said \in Seq(Incoming)
      /\ Len(said) \in Nat /\ Len(Ahead) <= Len(said) /\ DOMAIN said = 1 .. Len(said)
  BY AheadType
<1>7. /\ Len(A) = Len(Ahead) + 1 /\ A[Len(Ahead) + 1] = m
      /\ \A i \in 1 .. Len(Ahead) : A[i] = Ahead[i]
  BY <1>6, AppendProperties
<1>8. /\ Len(L) = Len(said) + 1 /\ L[Len(said) + 1] = m
      /\ \A i \in 1 .. Len(said) : L[i] = said[i]
      /\ DOMAIN L = 1 .. Len(said) + 1
  BY <1>6, AppendProperties, LenProperties
<1> HIDE DEF A, L
<1>9. Taken' = Taken
  BY <1>1, <1>5, <1>6, <1>7, <1>8 DEF Taken
<1>10. ASSUME NEW i \in 1 .. Len(A) PROVE A[i] = L[Len(L) - Len(A) + i]
  <2>1. CASE i = Len(Ahead) + 1
    BY <1>6, <1>7, <1>8, <2>1
  <2>2. CASE i \in 1 .. Len(Ahead)
    <3>1. /\ Len(L) - Len(A) + i = Len(said) - Len(Ahead) + i
          /\ Len(said) - Len(Ahead) + i \in 1 .. Len(said)
      BY <1>6, <1>7, <1>8, <2>2
    <3>2. Ahead[i] = said[Len(said) - Len(Ahead) + i]
      BY <2>2 DEF EndOf
    <3> QED
      BY <1>7, <1>8, <2>2, <3>1, <3>2
  <2> QED
    BY <1>6, <1>7, <2>1, <2>2
<1>11. EndOf(A, L)
  BY <1>6, <1>7, <1>8, <1>10 DEF EndOf
<1>12. Numbered'
  <2>1. ASSUME NEW i \in DOMAIN L, IsChat(L[i]) PROVE L[i].nr = i
    <3>1. CASE i = Len(said) + 1
      BY <1>8, <2>1, <3>1
    <3>2. CASE i \in 1 .. Len(said)
      BY <1>6, <1>8, <2>1, <3>2 DEF Numbered
    <3> QED
      BY <1>6, <1>8, <3>1, <3>2
  <2> QED
    BY <1>1, <2>1 DEF Numbered
<1> QED
  BY <1>1, <1>5, <1>8, <1>9, <1>11, <1>12

(***************************************************************************)
(* The panel.                                                              *)
(***************************************************************************)

LEMMA Ranges ==
  ASSUME NEW a \in Nat, NEW b \in Nat, a <= b
  PROVE  a + 1 .. b + 1 = (a + 1 .. b) \cup {b + 1} /\ a + 1 .. a = {}
OBVIOUS

LEMMA PanelSame ==
  ASSUME TypeOK, Panel, Taken' = Taken, UNCHANGED <<phase, since, shown>>,
         \A k \in 1 .. Len(said) : said'[k] = said[k]
  PROVE  Panel'
<1> SUFFICES ASSUME phase' = "gui" PROVE Panel'
  BY DEF Panel
<1>1. /\ since \in Nat /\ Taken \in Nat /\ Len(said) \in Nat /\ Taken <= Len(said)
  BY AheadType DEF Taken
<1>2. since <= Taken /\ phase = "gui"
  BY DEF Panel
<1>3. /\ \A k \in 1 .. since : said'[k] = said[k]
      /\ \A k \in since + 1 .. Taken : said'[k] = said[k]
  BY <1>1, <1>2
<1>4. {k \in since + 1 .. Taken : IsChat(said'[k])} = {k \in since + 1 .. Taken : IsChat(said[k])}
  BY <1>3
<1> QED
  BY <1>2, <1>3, <1>4 DEF Panel

LEMMA ShowHeadPanel ==
  ASSUME PanelInv, ShowHead
  PROVE  Panel' /\ EndOf(Ahead', said)
<1> DEFINE x == Head(batch)
           t == Taken + 1
<1>1. /\ phase = "gui" /\ batch # <<>> /\ batch' = Tail(batch)
      /\ shown' = IF IsChat(x) THEN Append(shown, x) ELSE shown
      /\ UNCHANGED <<queue, aggr, wire, said, phase, since>>
  BY DEF ShowHead, readVars, peerVars
<1>2. /\ Taken' = t /\ t \in 1 .. Len(said) /\ x = said[t] /\ EndOf(Ahead', said)
  BY <1>1, HeadLeaves DEF PanelInv
<1>3. /\ since \in Nat /\ Taken \in Nat /\ shown \in Seq(Incoming) /\ Len(shown) \in Nat
      /\ DOMAIN shown = 1 .. Len(shown) /\ said \in Seq(Incoming) /\ DOMAIN said = 1 .. Len(said)
  BY AheadType DEF PanelInv
<1>4. /\ since <= Taken /\ \E i \in 1 .. since : said[i] = Ack
      /\ {shown[i].nr : i \in DOMAIN shown} = {k \in since + 1 .. Taken : IsChat(said[k])}
      /\ \A i, j \in DOMAIN shown : i < j => shown[i].nr < shown[j].nr
  BY <1>1 DEF PanelInv, Panel
<1>5. since + 1 .. t = (since + 1 .. Taken) \cup {t}
  BY <1>3, <1>4, Ranges
<1>9. since <= t
  BY <1>3, <1>4
<1>6. x \in Incoming
  BY <1>2, <1>3, ElementOfSeq
<1> HIDE DEF x, t
<1>7. CASE IsChat(x)
  <2>1. x.nr = t
    BY <1>2, <1>3, <1>7 DEF PanelInv, Numbered
  <2>2. /\ DOMAIN shown' = 1 .. Len(shown) + 1 /\ shown'[Len(shown) + 1] = x
        /\ \A i \in 1 .. Len(shown) : shown'[i] = shown[i]
    BY <1>1, <1>3, <1>6, <1>7, AppendProperties, LenProperties
  <2>3. {shown'[i].nr : i \in DOMAIN shown'} = {shown[i].nr : i \in DOMAIN shown} \cup {t}
    BY <1>3, <2>1, <2>2
  <2>4. {k \in since + 1 .. t : IsChat(said[k])}
          = {k \in since + 1 .. Taken : IsChat(said[k])} \cup {t}
    BY <1>2, <1>5, <1>7
  <2>5. \A i \in DOMAIN shown : shown[i].nr \in Nat /\ shown[i].nr < t
    <3> TAKE i \in DOMAIN shown
    <3>1. shown[i].nr \in {k \in since + 1 .. Taken : IsChat(said[k])}
      BY <1>4
    <3> QED
      BY <1>3, <3>1 DEF t
  <2>6. ASSUME NEW i \in DOMAIN shown', NEW j \in DOMAIN shown', i < j
        PROVE  shown'[i].nr < shown'[j].nr
    <3>1. i \in 1 .. Len(shown)
      BY <1>3, <2>2, <2>6
    <3>2. CASE j = Len(shown) + 1
      BY <1>3, <2>1, <2>2, <2>5, <3>1, <3>2
    <3>3. CASE j \in 1 .. Len(shown)
      BY <1>3, <1>4, <2>2, <2>6, <3>1, <3>3
    <3> QED
      BY <1>3, <2>2, <3>2, <3>3
  <2>8. {shown'[i].nr : i \in DOMAIN shown'} = {k \in since + 1 .. t : IsChat(said[k])}
    BY <1>4, <2>3, <2>4
  <2>7. Panel'
    BY <1>1, <1>2, <1>4, <1>9, <2>6, <2>8, Zenon DEF Panel
  <2> QED
    BY <1>2, <2>7
<1>8. CASE ~IsChat(x)
  <2>1. {k \in since + 1 .. t : IsChat(said[k])} = {k \in since + 1 .. Taken : IsChat(said[k])}
    BY <1>2, <1>5, <1>8
  <2>2. Panel'
    <3>1. shown' = shown
      BY <1>1, <1>8
    <3>2. {shown'[i].nr : i \in DOMAIN shown'} = {k \in since + 1 .. t : IsChat(said[k])}
      BY <1>4, <2>1, <3>1
    <3>3. \A i, j \in DOMAIN shown' : i < j => shown'[i].nr < shown'[j].nr
      BY <1>4, <3>1
    <3> QED
      BY <1>1, <1>2, <1>4, <1>9, <3>2, <3>3, Zenon DEF Panel
  <2> QED
    BY <1>2, <2>2
<1> QED
  BY <1>7, <1>8

\* The ack, which is in the batch, is taken with it; the panel begins empty.
LEMMA JoinGrantedPanel ==
  ASSUME PanelInv, JoinGranted
  PROVE  Panel' /\ EndOf(Ahead', said)
<1>1. /\ phase = "join" /\ batch # <<>> /\ Head(batch) = Ack /\ batch' = <<>>
      /\ since' = Len(said) - (Len(queue) + Len(aggr) + Len(wire))
      /\ UNCHANGED <<queue, aggr, wire, said, shown>> /\ shown = <<>>
  BY DEF JoinGranted, readVars, peerVars, PanelInv, PanelEmpty
<1>2. /\ Taken' = since' /\ since' \in Nat /\ Taken + 1 \in 1 .. since'
      /\ said[Taken + 1] = Ack /\ EndOf(Ahead', said)
  BY <1>1, BatchLeaves DEF PanelInv
<1>3. since' + 1 .. Taken' = {}
  <2>1. \A n \in Nat : n + 1 .. n = {}
    BY Ranges
  <2> QED
    BY <1>2, <2>1
<1>4. DOMAIN shown' = {}
  BY <1>1
<1> QED
  BY <1>1, <1>2, <1>3, <1>4 DEF Panel

(***************************************************************************)
(* The invariant.                                                          *)
(***************************************************************************)

LEMMA InitPanel == Init => PanelInv
<1> SUFFICES ASSUME Init PROVE PanelInv
  OBVIOUS
<1>1. TypeOK /\ Len(<<>>) = 0 /\ <<>> \in Seq(Incoming)
  BY InitType, EmptySeq
<1>2. batch = <<>> /\ said = <<>> /\ shown = <<>> /\ phase = "join"
  BY DEF Init
<1>3. Len(Ahead) = 0
  BY <1>1, AheadType DEF Init
<1> QED
  BY <1>1, <1>2, <1>3 DEF PanelInv, BatchPlace, Numbered, PanelEmpty, Panel, EndOf

\* A step that moves messages at most, and leaves the panel alone.
LEMMA PanelQuiet ==
  ASSUME PanelInv, TypeOK', BatchPlace', Ahead' = Ahead, UNCHANGED <<said, phase, since, shown>>
  PROVE  PanelInv'
<1>1. Taken' = Taken
  BY DEF Taken
<1>2. Panel'
  BY <1>1, PanelSame DEF PanelInv
<1> QED
  BY <1>2 DEF PanelInv, Numbered, PanelEmpty

LEMMA MainThreadPanel ==
  ASSUME PanelInv, TypeOK', MainThread \/ GiveName
  PROVE  PanelInv'
<1> USE DEF PanelInv, BatchPlace, MainAt, netVars, readVars, peerVars
<1>1. CASE Poll \/ JoinAgain \/ JoinDenied \/ ShownAll \/ Keyboard \/ Stop \/ JoinThread \/ GiveName
  <2>1. UNCHANGED <<batch, queue, aggr, wire, said, phase, since, shown>> /\ BatchPlace'
    BY <1>1 DEF Poll, JoinAgain, JoinDenied, ShownAll, Keyboard, KeyOther, KeyEnter, KeyEscape,
                Stop, JoinThread, GiveName, Send
  <2>2. Ahead' = Ahead
    BY <2>1 DEF Ahead
  <2> QED
    BY <2>1, <2>2, PanelQuiet
<1>2. CASE Take
  <2>1. UNCHANGED <<said, phase, since, shown>> /\ BatchPlace'
    BY <1>2 DEF Take
  <2> QED
    BY <1>2, <2>1, TakeMoves, PanelQuiet
<1>3. CASE JoinPass
  <2>1. /\ batch # <<>> /\ batch' = Tail(batch) /\ phase' = "join" /\ main' = "batch"
        /\ UNCHANGED <<queue, aggr, wire, said, shown, phase>>
    BY <1>3 DEF JoinPass
  <2>2. EndOf(Ahead', said)
    BY <2>1, HeadLeaves
  <2> QED
    BY <2>1, <2>2 DEF Numbered, PanelEmpty, Panel
<1>4. CASE JoinGranted
  <2>1. batch' = <<>> /\ phase' = "gui" /\ said' = said
    BY <1>4 DEF JoinGranted
  <2>2. Panel' /\ EndOf(Ahead', said)
    BY <1>4, JoinGrantedPanel
  <2> QED
    BY <2>1, <2>2 DEF Numbered, PanelEmpty
<1>5. CASE ShowHead
  <2>1. main' = "batch" /\ phase' = "gui" /\ said' = said
    BY <1>5 DEF ShowHead
  <2>2. Panel' /\ EndOf(Ahead', said)
    BY <1>5, ShowHeadPanel
  <2> QED
    BY <2>1, <2>2 DEF Numbered, PanelEmpty
<1> QED
  BY <1>1, <1>2, <1>3, <1>4, <1>5 DEF MainThread, JoinLoop

LEMMA NetThreadPanel ==
  ASSUME PanelInv, TypeOK', NetThread
  PROVE  PanelInv'
<1>1. UNCHANGED <<batch, main, said, phase, since, shown>> /\ BatchPlace'
  BY DEF NetThread, Resolved, ResolveFailed, Connected, ConnectRefused, RunPosted, ReadAny, Read,
         ReadError, RunReturns, mainVars, peerVars, PanelInv, BatchPlace
<1>2. CASE ReadAny
  <2>1. Ahead' = Ahead
    BY <1>2, ReadMoves DEF ReadAny, PanelInv
  <2> QED
    BY <1>1, <2>1, PanelQuiet
<1>3. CASE Resolved \/ ResolveFailed \/ Connected \/ ConnectRefused \/ RunPosted
           \/ ReadError \/ RunReturns
  <2>1. UNCHANGED <<queue, aggr, wire>>
    BY <1>3 DEF Resolved, ResolveFailed, Connected, ConnectRefused, RunPosted, ReadError,
                RunReturns, readVars, peerVars
  <2>2. Ahead' = Ahead
    BY <1>1, <2>1 DEF Ahead
  <2> QED
    BY <1>1, <2>2, PanelQuiet
<1> QED
  BY <1>2, <1>3 DEF NetThread

LEMMA ServerPanel ==
  ASSUME PanelInv, TypeOK', Server
  PROVE  PanelInv'
<1>1. UNCHANGED <<batch, queue, aggr, main, phase, since, shown>>
  BY DEF Server, ServerChat, ServerAnswer, ServerGone, readVars, mainVars
<1>2. ASSUME NEW m \in Incoming, Says(m), IsChat(m) => m.nr = Len(said) + 1
      PROVE  PanelInv'
  <2>1. /\ Taken' = Taken /\ EndOf(Ahead', said') /\ Numbered'
        /\ \A k \in 1 .. Len(said) : said'[k] = said[k]
    BY <1>1, <1>2, SaysBoth DEF PanelInv
  <2>2. Panel'
    BY <1>1, <2>1, PanelSame DEF PanelInv
  <2> QED
    BY <1>1, <2>1, <2>2 DEF PanelInv, BatchPlace, PanelEmpty
<1>3. CASE ServerChat
  <2>1. /\ Line("MESSAGE", Len(said) + 1) \in Incoming
        /\ Line("MESSAGE", Len(said) + 1).nr = Len(said) + 1
    <3>1. Len(said) + 1 \in Nat
      BY AheadType DEF PanelInv
    <3>2. Line("MESSAGE", Len(said) + 1) \in Incoming
      BY <3>1, Messages
    <3> QED
      BY <3>2 DEF Line
  <2> QED
    BY <1>2, <1>3, <2>1 DEF ServerChat
<1>4. CASE ServerAnswer
  <2>1. Ack \in Incoming /\ Nack \in Incoming /\ ~IsChat(Ack) /\ ~IsChat(Nack)
    BY Messages DEF Ack, Nack, IsChat
  <2> QED
    BY <1>2, <1>4, <2>1 DEF ServerAnswer
<1>5. CASE ServerGone
  <2>1. Ahead' = Ahead /\ said' = said /\ BatchPlace'
    BY <1>1, <1>5 DEF ServerGone, Ahead, PanelInv, BatchPlace
  <2> QED
    BY <1>1, <2>1, PanelQuiet
<1> QED
  BY <1>3, <1>4, <1>5 DEF Server

LEMMA NextPanel == PanelInv /\ [Next]_vars => PanelInv'
<1> SUFFICES ASSUME PanelInv, [Next]_vars PROVE PanelInv'
  OBVIOUS
<1>1. TypeOK'
  BY NextType DEF PanelInv
<1>2. CASE UNCHANGED vars
  <2>1. /\ UNCHANGED <<batch, queue, aggr, wire, said, main, phase, since, shown>>
    BY <1>2 DEF vars, readVars, mainVars, peerVars
  <2>2. Ahead' = Ahead /\ BatchPlace'
    BY <2>1 DEF Ahead, PanelInv, BatchPlace
  <2> QED
    BY <1>1, <2>1, <2>2, PanelQuiet
<1> QED
  BY <1>1, <1>2, MainThreadPanel, NetThreadPanel, ServerPanel DEF Next, Over

LEMMA PanelInvShows == PanelInv => PanelShowsChat
<1> SUFFICES ASSUME PanelInv PROVE PanelShowsChat
  OBVIOUS
<1>1. /\ Ahead \in Seq(Incoming) /\ Len(Ahead) \in Nat /\ said \in Seq(Incoming)
      /\ Len(said) \in Nat /\ Len(Ahead) <= Len(said) /\ Taken \in Nat
  BY AheadType DEF PanelInv
<1> DEFINE e == SubSeq(said, Taken + 1, Len(said))
<1>2. \A i \in Taken + 1 .. Len(said) : said[i] \in Incoming
  BY <1>1, ElementOfSeq
<1>3. /\ e \in Seq(Incoming)
      /\ Len(e) = (IF Taken + 1 <= Len(said) THEN Len(said) - (Taken + 1) + 1 ELSE 0)
      /\ \A i \in 1 .. Len(said) - (Taken + 1) + 1 : e[i] = said[(Taken + 1) + i - 1]
  BY <1>1, <1>2, SubSeqProperties
<1> HIDE DEF e
<1>4. Len(e) = Len(Ahead)
  BY <1>1, <1>3 DEF Taken
<1>5. ASSUME NEW i \in 1 .. Len(Ahead) PROVE Ahead[i] = e[i]
  <2>1. /\ i \in 1 .. Len(said) - (Taken + 1) + 1
        /\ (Taken + 1) + i - 1 = Len(said) - Len(Ahead) + i
    BY <1>1 DEF Taken
  <2>2. Ahead[i] = said[Len(said) - Len(Ahead) + i]
    BY DEF PanelInv, EndOf
  <2> QED
    BY <1>3, <2>1, <2>2
<1>6. Ahead = e
  BY <1>1, <1>3, <1>4, <1>5, SeqEqual
<1>7. Ahead = batch \o queue \o aggr \o wire
  BY DEF Ahead, Cat
<1>8. Ahead = SubSeq(said, Taken + 1, Len(said))
  BY <1>6 DEF e
<1> QED
  BY <1>7, <1>8 DEF PanelShowsChat, PanelInv, Panel, Taken

\* client/main.cc:66-79, tcp_client.cc:117-142: the panel shows what the server
\* said since the interface began, without gaps or repetition and in one order.
THEOREM PanelIsFaithful == Spec => []PanelShowsChat
<1>1. PanelInv /\ [Next]_vars => PanelInv'
  BY NextPanel
<1> QED
  BY InitPanel, <1>1, PanelInvShows, PTL DEF Spec

=============================================================================
