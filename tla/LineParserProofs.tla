-------------------------- MODULE LineParserProofs --------------------------
(***************************************************************************)
(* Proofs about LineParser, for any characters and any size of the field.  *)
(***************************************************************************)
EXTENDS LineParser, SequenceTheorems, FiniteSetTheorems, CommonLemmas

LEMMA FieldSize == MaxLine \in Nat
BY LineAssumption DEF LineAssumption

USE FieldSize

(***************************************************************************)
(* The field.                                                              *)
(***************************************************************************)

Pad == " "
Shown == Chars \cup {Pad}

LEMMA Spaces ==
  /\ Pad \in Space /\ "/" \notin Space /\ "a" \notin Space /\ "nswer" \notin Space /\ "/" # Pad
  /\ \A s, i : Blank(s, i) <=> s[i] = Pad
BY Zenon DEF Space, Pad, Blank

LEMMA FieldFacts ==
  ASSUME NEW s \in Seq(Chars), Len(s) <= MaxLine
  PROVE  /\ field_buffer(s) \in Seq(Shown) /\ Len(field_buffer(s)) = MaxLine
         /\ \A i \in 1 .. Len(s) : field_buffer(s)[i] = s[i]
         /\ \A i \in Len(s) + 1 .. MaxLine : field_buffer(s)[i] = Pad
<1> DEFINE pad == [i \in 1 .. MaxLine - Len(s) |-> Pad]
           b == s \o pad
<1>1. Len(s) \in Nat /\ \A i \in 1 .. Len(s) : s[i] \in Shown
  BY SeqFacts DEF Shown
<1>2. s \in Seq(Shown)
  BY SeqMonotonic DEF Shown
<1>3. MaxLine - Len(s) \in Nat
  BY <1>1
<1>4. pad \in [1 .. MaxLine - Len(s) -> Shown]
  BY DEF Shown
<1>5. pad \in Seq(Shown) /\ Len(pad) = MaxLine - Len(s)
  BY <1>3, <1>4, FunctionIsSeq
<1>6. \A i \in 1 .. MaxLine - Len(s) : pad[i] = Pad
  OBVIOUS
<1> HIDE DEF pad
<1>7. /\ b \in Seq(Shown) /\ Len(b) = Len(s) + Len(pad)
      /\ \A i \in 1 .. Len(s) + Len(pad) : b[i] = IF i <= Len(s) THEN s[i] ELSE pad[i - Len(s)]
  BY <1>2, <1>5, ConcatProperties
<1>8. field_buffer(s) = b
  BY Zenon DEF field_buffer, pad, Pad
<1> HIDE DEF b
<1>9. Len(b) = MaxLine
  BY <1>1, <1>5, <1>7
<1>10. \A i \in 1 .. Len(s) : b[i] = s[i]
  BY <1>1, <1>5, <1>7
<1>11. ASSUME NEW i \in Len(s) + 1 .. MaxLine PROVE b[i] = Pad
  <2>1. i - Len(s) \in 1 .. MaxLine - Len(s) /\ i \in 1 .. Len(s) + Len(pad) /\ ~(i <= Len(s))
    BY <1>1, <1>5
  <2> QED
    BY <1>6, <1>7, <2>1
<1> QED
  BY <1>7, <1>8, <1>9, <1>10, <1>11

(***************************************************************************)
(* string_utils.h.  FirstText, LastText: the ends of what trimming leaves. *)
(***************************************************************************)

FirstText(s, k) == k \in 1 .. Len(s) /\ ~Blank(s, k) /\ \A j \in 1 .. Len(s) : j < k => Blank(s, j)
LastText(s, k) == k \in 1 .. Len(s) /\ ~Blank(s, k) /\ \A j \in 1 .. Len(s) : k < j => Blank(s, j)

LEMMA HasEnds ==
  ASSUME NEW S, NEW s \in Seq(S), NEW i \in 1 .. Len(s), ~Blank(s, i)
  PROVE  (\E k : FirstText(s, k)) /\ (\E k : LastText(s, k))
<1> DEFINE T == {k \in 1 .. Len(s) : ~Blank(s, k)}
           U == {n \in 0 .. Len(s) : Len(s) - n \in T}
<1>1. Len(s) \in Nat
  BY SeqFacts
<1>2. i \in T /\ T \subseteq Nat
  BY <1>1
<1>3. Len(s) - i \in U /\ U \subseteq Nat
  BY <1>1, <1>2
<1>4. PICK k \in T : \A j \in T : k <= j
  BY <1>2, NatMin
<1>5. FirstText(s, k)
  <2>1. k \in 1 .. Len(s) /\ ~Blank(s, k)
    OBVIOUS
  <2>2. ASSUME NEW j \in 1 .. Len(s), j < k PROVE Blank(s, j)
    BY <1>1, <1>4, <2>1, <2>2
  <2> QED
    BY <2>1, <2>2 DEF FirstText
<1>6. PICK n \in U : \A m \in U : n <= m
  BY <1>3, NatMin
<1>7. LastText(s, Len(s) - n)
  <2>1. Len(s) - n \in 1 .. Len(s) /\ ~Blank(s, Len(s) - n)
    BY <1>6
  <2>2. ASSUME NEW j \in 1 .. Len(s), Len(s) - n < j PROVE Blank(s, j)
    <3>1. Len(s) - j \in Nat /\ Len(s) - j < n /\ Len(s) - (Len(s) - j) = j /\ Len(s) - j \in 0 .. Len(s)
      BY <1>1, <1>3, <1>6, <2>2
    <3>2. Len(s) - j \notin U
      BY <1>3, <1>6, <3>1
    <3> QED
      BY <3>1, <3>2
  <2> QED
    BY <2>1, <2>2 DEF LastText
<1> QED
  BY <1>5, <1>7

LEMMA TrimLeftAt ==
  ASSUME NEW S, NEW s \in Seq(S), NEW k, FirstText(s, k)
  PROVE  trim_left(s) = SubSeq(s, k, Len(s))
<1> DEFINE kept == {i \in DOMAIN s : ~Blank(s, i)}
<1>1. DOMAIN s = 1 .. Len(s) /\ Len(s) \in Nat
  BY SeqFacts
<1>2. k \in kept /\ \A j \in kept : k <= j
  BY <1>1 DEF FirstText
<1>3. ASSUME NEW i \in kept, \A j \in kept : i <= j PROVE i = k
  BY <1>1, <1>2, <1>3
<1> HIDE DEF kept
<1>4. (CHOOSE i \in kept : \A j \in kept : i <= j) = k
  BY <1>2, <1>3
<1>5. kept # {}
  BY <1>2
<1> QED
  BY <1>4, <1>5 DEF trim_left, kept

LEMMA TrimRightAt ==
  ASSUME NEW S, NEW s \in Seq(S), NEW k, LastText(s, k)
  PROVE  trim_right(s) = SubSeq(s, 1, k)
<1> DEFINE kept == {i \in DOMAIN s : ~Blank(s, i)}
<1>1. DOMAIN s = 1 .. Len(s) /\ Len(s) \in Nat
  BY SeqFacts
<1>2. k \in kept /\ \A j \in kept : j <= k
  BY <1>1 DEF LastText
<1>3. ASSUME NEW i \in kept, \A j \in kept : j <= i PROVE i = k
  BY <1>1, <1>2, <1>3
<1> HIDE DEF kept
<1>4. (CHOOSE i \in kept : \A j \in kept : j <= i) = k
  BY <1>2, <1>3
<1>5. kept # {}
  BY <1>2
<1> QED
  BY <1>4, <1>5 DEF trim_right, kept

\* A string of blanks only is left as it is.
LEMMA TrimBlanks ==
  ASSUME NEW S, NEW s \in Seq(S), \A i \in 1 .. Len(s) : Blank(s, i)
  PROVE  trim_left(s) = s /\ trim_right(s) = s
<1>1. {i \in DOMAIN s : ~Blank(s, i)} = {}
  BY SeqFacts
<1> QED
  BY <1>1 DEF trim_left, trim_right

(***************************************************************************)
(* The first word.                                                         *)
(***************************************************************************)

Ends(s, n) ==
  /\ n \in 0 .. Len(s)
  /\ \A i \in 1 .. n : s[i] \notin Space
  /\ n < Len(s) => s[n + 1] \in Space

LEMMA WordEnds ==
  ASSUME NEW S, NEW s \in Seq(S)
  PROVE  \E n : Ends(s, n) /\ Word(s) = SubSeq(s, 1, n)
<1> DEFINE T == {n \in 0 .. Len(s) : n < Len(s) => s[n + 1] \in Space}
<1>1. Len(s) \in Nat
  BY SeqFacts
<1>2. Len(s) \in T /\ T \subseteq Nat
  BY <1>1
<1>3. PICK n \in T : \A m \in T : n <= m
  BY <1>2, NatMin
<1>4. ASSUME NEW i \in 1 .. n PROVE s[i] \notin Space
  <2>1. i - 1 \in 0 .. Len(s) /\ i - 1 < n /\ i - 1 < Len(s) /\ (i - 1) + 1 = i
    BY <1>1, <1>2
  <2>2. i - 1 \notin T
    BY <1>3, <2>1
  <2> QED
    BY <2>1, <2>2
<1>5. \E m \in 0 .. Len(s) : /\ \A i \in 1 .. m : s[i] \notin Space
                             /\ m < Len(s) => s[m + 1] \in Space
  BY <1>4
<1> DEFINE c == CHOOSE m \in 0 .. Len(s) : /\ \A i \in 1 .. m : s[i] \notin Space
                                           /\ m < Len(s) => s[m + 1] \in Space
<1>6. Ends(s, c)
  BY <1>5 DEF Ends
<1>7. Word(s) = SubSeq(s, 1, c)
  BY DEF Word
<1> QED
  BY <1>6, <1>7

LEMMA OneEnd ==
  ASSUME NEW S, NEW s \in Seq(S), NEW m, NEW n, Ends(s, m), Ends(s, n)
  PROVE  m = n
<1>1. Len(s) \in Nat /\ m \in 0 .. Len(s) /\ n \in 0 .. Len(s)
  BY SeqFacts DEF Ends
<1>2. ~(m < n)
  <2> SUFFICES ASSUME m < n PROVE FALSE
    OBVIOUS
  <2>1. m < Len(s) /\ m + 1 \in 1 .. n
    BY <1>1
  <2> QED
    BY <2>1 DEF Ends
<1>3. ~(n < m)
  <2> SUFFICES ASSUME n < m PROVE FALSE
    OBVIOUS
  <2>1. n < Len(s) /\ n + 1 \in 1 .. m
    BY <1>1
  <2> QED
    BY <2>1 DEF Ends
<1> QED
  BY <1>1, <1>2, <1>3

(***************************************************************************)
(* The state is what the last Enter made of its line.                      *)
(***************************************************************************)

Sent(s) == LET msg == parse_line(field_buffer(s)) IN IF msg.type = "ERROR" THEN <<>> ELSE <<msg>>
Echoed(s) ==
  LET buf == field_buffer(s)
      msg == parse_line(buf)
  IN  CASE msg.type = "MESSAGE" -> write_to_chat("me", buf)
        [] msg.type = "ERROR" -> write_to_chat("ERROR", <<>>)
        [] OTHER -> <<>>

LineInv ==
  /\ line \in Seq(Chars) /\ Len(line) <= MaxLine
  /\ field \in BOOLEAN /\ (~field => line = <<>>)
  /\ entered \in Seq(Chars) /\ Len(entered) <= MaxLine
  /\ \/ entered = <<>> /\ sent = <<>> /\ shown \in {<<>>, <<[who |-> "errno", text |-> <<>>]>>}
     \/ sent = Sent(entered) /\ shown = Echoed(entered)

LEMMA SpecLineInv == Spec => []LineInv
<1>1. Init => LineInv
  <2> SUFFICES ASSUME Init PROVE LineInv
    OBVIOUS
  <2>1. <<>> \in Seq(Chars) /\ Len(<<>>) = 0
    BY EmptySeq
  <2> QED
    BY <2>1 DEF Init, LineInv
<1>2. LineInv /\ [Next]_vars => LineInv'
  <2> SUFFICES ASSUME LineInv, [Next]_vars PROVE LineInv'
    OBVIOUS
  <2>1. Len(line) \in Nat /\ Len(line) <= MaxLine /\ line \in Seq(Chars)
    BY LenProperties DEF LineInv
  <2>2. ASSUME NEW ch \in Chars, Type(ch) PROVE LineInv'
    <3>1. Append(line, ch) \in Seq(Chars) /\ Len(Append(line, ch)) = Len(line) + 1
      BY <2>1, AppendProperties
    <3>2. Len(line') <= MaxLine /\ line' \in Seq(Chars) /\ UNCHANGED <<field, entered, sent, shown>> /\ field
      BY <2>1, <2>2, <3>1 DEF Type
    <3> QED
      BY <3>2 DEF LineInv
  <2>3. CASE Backspace
    <3>1. Len(line) # 0
      BY <2>1, <2>3, EmptySeq DEF Backspace
    <3> DEFINE n == Len(line) - 1
    <3>4. n \in Nat /\ 1 <= n + 1 /\ n <= Len(line)
      BY <2>1, <3>1
    <3>5. SubSeq(line, 1, n) \in Seq(Chars) /\ Len(SubSeq(line, 1, n)) = n + 1 - 1
      <4> HIDE DEF n
      <4> QED
        BY <2>1, <3>4, CutFacts
    <3>2. SubSeq(line, 1, Len(line) - 1) \in Seq(Chars) /\ Len(SubSeq(line, 1, Len(line) - 1)) = n
      BY <3>4, <3>5
    <3>3. Len(line') <= MaxLine /\ line' \in Seq(Chars) /\ UNCHANGED <<field, entered, sent, shown>> /\ field
      BY <2>1, <2>3, <3>2 DEF Backspace, LineInv
    <3> QED
      BY <3>3 DEF LineInv
  <2>4. CASE send_msg_null
    <3>1. write_to_chat("errno", <<>>) = <<[who |-> "errno", text |-> <<>>]>>
      BY DEF write_to_chat
    <3>2. line = <<>> /\ Len(<<>>) = 0
      BY <2>4 DEF LineInv, send_msg_null
    <3>3. /\ sent' = <<>> /\ shown' = <<[who |-> "errno", text |-> <<>>]>>
          /\ entered' = <<>> /\ UNCHANGED <<line, field>>
      BY <2>4, <3>1, <3>2 DEF send_msg_null
    <3> QED
      BY <2>1, <3>2, <3>3 DEF LineInv
  <2>5. CASE send_msg
    <3>1. <<>> \in Seq(Chars) /\ Len(<<>>) = 0
      BY EmptySeq
    <3>2. sent' = Sent(line) /\ shown' = Echoed(line) /\ entered' = line /\ line' = <<>> /\ field' = field
      BY <2>5 DEF send_msg, Sent, Echoed
    <3>3. sent' = Sent(entered') /\ shown' = Echoed(entered')
      BY <3>2
    <3> QED
      BY <2>1, <3>1, <3>2, <3>3 DEF LineInv, Sent, Echoed
  <2>6. CASE UNCHANGED vars
    BY <2>6 DEF LineInv, vars
  <2> QED
    BY <2>2, <2>3, <2>4, <2>5, <2>6 DEF Next
<1> QED
  BY <1>1, <1>2, PTL DEF Spec

\* The three things that an Enter may do.
LEMMA EnterCases ==
  ASSUME NEW s \in Seq(Chars), Len(s) <= MaxLine
  PROVE  LET b == field_buffer(s)
         IN  \/ /\ b = <<>> \/ (b[1] = "/" /\ Word(b) \notin AnswerCommands)
                /\ Sent(s) = <<>> /\ Echoed(s) = <<[who |-> "ERROR", text |-> <<>>]>>
             \/ /\ b # <<>> /\ b[1] # "/"
                /\ Sent(s) = <<[type |-> "MESSAGE", msg |-> UserName, from |-> b]>>
                /\ Echoed(s) = write_to_chat("me", b)
             \/ /\ b # <<>> /\ b[1] = "/" /\ Word(b) \in AnswerCommands
                /\ Sent(s) = <<[type |-> "ANSWER", from |-> UserName, answer |-> trim_left(Rest(b))]>>
                /\ Echoed(s) = <<>>
<1> DEFINE b == field_buffer(s)
           msg == parse_line(b)
<1>1. CASE b = <<>> \/ (b[1] = "/" /\ Word(b) \notin AnswerCommands)
  <2>1. msg.type = "ERROR"
    BY <1>1 DEF parse_line, Error
  <2>2. write_to_chat("ERROR", <<>>) = <<[who |-> "ERROR", text |-> <<>>]>>
    BY DEF write_to_chat
  <2> QED
    BY <1>1, <2>1, <2>2 DEF Sent, Echoed
<1>2. CASE b # <<>> /\ b[1] # "/"
  <2>1. msg = [type |-> "MESSAGE", msg |-> UserName, from |-> b]
    BY <1>2 DEF parse_line
  <2>2. msg.type = "MESSAGE"
    BY <2>1
  <2> QED
    BY <1>2, <2>1, <2>2 DEF Sent, Echoed
<1>3. CASE b # <<>> /\ b[1] = "/" /\ Word(b) \in AnswerCommands
  <2>1. msg = [type |-> "ANSWER", from |-> UserName, answer |-> trim_left(Rest(b))]
    BY <1>3 DEF parse_line
  <2>2. msg.type = "ANSWER"
    BY <2>1
  <2> QED
    BY <1>3, <2>1, <2>2 DEF Sent, Echoed
<1> HIDE DEF b
<1>4. \/ b = <<>> \/ (b[1] = "/" /\ Word(b) \notin AnswerCommands)
      \/ b # <<>> /\ b[1] # "/"
      \/ b # <<>> /\ b[1] = "/" /\ Word(b) \in AnswerCommands
  OBVIOUS
<1> QED
  BY <1>1, <1>2, <1>3, <1>4, Zenon DEF b

\* client/ui.cc:101-128: one message and one line at most come of an Enter.
THEOREM LineTypes == Spec => []TypeOK
<1>1. LineInv => TypeOK
  <2> SUFFICES ASSUME LineInv PROVE TypeOK
    OBVIOUS
  <2>1. \A s \in Seq(Chars) : Len(s) <= MaxLine => Len(Sent(s)) <= 1 /\ Len(Echoed(s)) <= 1
    <3> SUFFICES ASSUME NEW s \in Seq(Chars), Len(s) <= MaxLine
                 PROVE  Len(Sent(s)) <= 1 /\ Len(Echoed(s)) <= 1
      OBVIOUS
    <3>1. ASSUME NEW t, t = <<>> \/ (\E x : t = <<x>>) PROVE Len(t) <= 1
      <4>1. CASE t = <<>>
        BY <4>1
      <4>2. CASE \E x : t = <<x>>
        <5>1. PICK x : t = <<x>>
          BY <4>2
        <5>2. Len(<<x>>) = 1
          OBVIOUS
        <5> QED
          BY <5>1, <5>2
      <4> QED
        BY <3>1, <4>1, <4>2
    <3>3. Sent(s) = <<>> \/ \E x : Sent(s) = <<x>>
      BY DEF Sent
    <3>4. Echoed(s) = <<>> \/ \E x : Echoed(s) = <<x>>
      BY EnterCases DEF write_to_chat
    <3> QED
      BY <3>1, <3>3, <3>4
  <2>2. Len(<<>>) = 0 /\ Len(<<[who |-> "errno", text |-> <<>>]>>) = 1
    OBVIOUS
  <2>3. entered \in Seq(Chars) /\ Len(entered) <= MaxLine
    BY DEF LineInv
  <2>4. CASE sent = Sent(entered) /\ shown = Echoed(entered)
    <3>1. Len(Sent(entered)) <= 1 /\ Len(Echoed(entered)) <= 1
      BY <2>1, <2>3
    <3> QED
      BY <2>4, <3>1 DEF LineInv, TypeOK
  <2>5. CASE sent = <<>> /\ shown \in {<<>>, <<[who |-> "errno", text |-> <<>>]>>}
    <3>1. Len(sent) <= 1 /\ Len(shown) <= 1
      <4>1. CASE shown = <<>>
        BY <2>2, <2>5, <4>1
      <4>2. CASE shown = <<[who |-> "errno", text |-> <<>>]>>
        BY <2>2, <2>5, <4>2
      <4> QED
        BY <2>5, <4>1, <4>2
    <3> QED
      BY <3>1 DEF LineInv, TypeOK
  <2> QED
    BY <2>4, <2>5 DEF LineInv
<1> QED
  BY <1>1, SpecLineInv, PTL

(***************************************************************************)
(* Commands.                                                               *)
(***************************************************************************)

LEMMA CommandFacts ==
  ASSUME NEW w \in AnswerCommands
  PROVE  /\ Len(w) \in {2, 3} /\ Len(w) \in Nat /\ DOMAIN w = 1 .. Len(w)
         /\ \A i \in 1 .. Len(w) : w[i] \notin Space
         /\ w \in Seq({"/", "a", "nswer"})
<1>1. CASE w = <<"/", "a">>
  <2>1. Len(w) = 2 /\ DOMAIN w = 1 .. 2 /\ w[1] = "/" /\ w[2] = "a"
    BY <1>1
  <2>2. \A i \in 1 .. 2 : i = 1 \/ i = 2
    OBVIOUS
  <2>3. w \in Seq({"/", "a", "nswer"})
    BY <1>1
  <2> QED
    BY <2>1, <2>2, <2>3, Spaces
<1>2. CASE w = <<"/", "a", "nswer">>
  <2>1. Len(w) = 3 /\ DOMAIN w = 1 .. 3 /\ w[1] = "/" /\ w[2] = "a" /\ w[3] = "nswer"
    BY <1>2
  <2>2. \A i \in 1 .. 3 : i = 1 \/ i = 2 \/ i = 3
    OBVIOUS
  <2>3. w \in Seq({"/", "a", "nswer"})
    BY <1>2
  <2> QED
    BY <2>1, <2>2, <2>3, Spaces
<1> QED
  BY <1>1, <1>2 DEF AnswerCommands

\* s begins with the command w, and nothing else is in its first word.
Begins(w, s) ==
  /\ Len(w) <= Len(s) /\ \A i \in 1 .. Len(w) : s[i] = w[i]
  /\ Len(w) < Len(s) => s[Len(w) + 1] \in Space

LEMMA BeginsPrefix ==
  ASSUME NEW s \in Seq(Chars), NEW w \in AnswerCommands
  PROVE  Begins(w, s) <=> IsPrefix(w, s) /\ (s = w \/ s[Len(w) + 1] \in Space)
<1> DEFINE m == Len(w)
           U == Chars \cup {"/", "a", "nswer"}
<1>1. m \in Nat /\ Len(s) \in Nat /\ w \in Seq(U) /\ s \in Seq(U)
  BY CommandFacts, SeqFacts, SeqMonotonic
<1> HIDE DEF U
<1>2. SubSeq(w, 1, m) = w
  BY <1>1, SubSeqFull
<1>3. ASSUME m <= Len(s)
      PROVE  /\ SubSeq(s, 1, m) \in Seq(U) /\ Len(SubSeq(s, 1, m)) = m
             /\ \A i \in 1 .. m : SubSeq(s, 1, m)[i] = s[i]
  <2>1. /\ SubSeq(s, 1, m) \in Seq(U) /\ Len(SubSeq(s, 1, m)) = m + 1 - 1
        /\ \A i \in 1 .. m + 1 - 1 : SubSeq(s, 1, m)[i] = s[1 + i - 1]
    <3>1. 1 <= m + 1 /\ m \in Nat
      BY <1>1
    <3> HIDE DEF m
    <3> QED
      BY <1>1, <1>3, <3>1, CutFacts
  <2>2. m + 1 - 1 = m /\ \A i \in 1 .. m : 1 + i - 1 = i
    BY <1>1
  <2> QED
    BY <2>1, <2>2
<1>4. m <= Len(s) => (SubSeq(s, 1, m) = w <=> \A i \in 1 .. m : s[i] = w[i])
  <2> SUFFICES ASSUME m <= Len(s) PROVE SubSeq(s, 1, m) = w <=> \A i \in 1 .. m : s[i] = w[i]
    OBVIOUS
  <2>1. (\A i \in 1 .. m : s[i] = w[i]) => SubSeq(s, 1, m) = w
    BY <1>1, <1>3, SameSeq
  <2> QED
    BY <1>3, <2>1
<1>5. IsPrefix(w, s) <=> m <= Len(s) /\ \A i \in 1 .. m : s[i] = w[i]
  BY <1>2, <1>4 DEF IsPrefix
<1>6. m = Len(s) /\ (\A i \in 1 .. m : s[i] = w[i]) => s = w
  BY <1>1, SameSeq
<1>7. s = w => m = Len(s)
  OBVIOUS
<1> HIDE DEF m
<1> QED
  BY <1>1, <1>5, <1>6, <1>7 DEF Begins, m

\* The first word of the field is that of the line.
LEMMA WordOfField ==
  ASSUME NEW s \in Seq(Chars), Len(s) <= MaxLine, NEW w \in AnswerCommands
  PROVE  Word(field_buffer(s)) = w <=> Begins(w, s)
<1> DEFINE b == field_buffer(s)
           m == Len(w)
<1>1. /\ b \in Seq(Shown) /\ Len(b) = MaxLine /\ Len(s) \in Nat
      /\ \A i \in 1 .. Len(s) : b[i] = s[i]
      /\ \A i \in Len(s) + 1 .. MaxLine : b[i] = Pad
  BY FieldFacts, SeqFacts
<1>2. m \in Nat /\ DOMAIN w = 1 .. m /\ \A i \in 1 .. m : w[i] \notin Space
  BY CommandFacts
<1>3. PICK n : Ends(b, n) /\ Word(b) = SubSeq(b, 1, n)
  BY <1>1, WordEnds
<1>4. n \in 0 .. MaxLine
  BY <1>1, <1>3 DEF Ends
<1>5. /\ SubSeq(b, 1, n) \in Seq(Shown) /\ Len(SubSeq(b, 1, n)) = n + 1 - 1
      /\ \A i \in 1 .. n + 1 - 1 : SubSeq(b, 1, n)[i] = b[1 + i - 1]
  <2>1. n \in Nat /\ 1 <= n + 1 /\ n <= Len(b)
    BY <1>1, <1>4
  <2> HIDE DEF b
  <2> QED
    BY <1>1, <2>1, CutFacts
<1> HIDE DEF b, m
<1>6. Len(Word(b)) = n /\ \A i \in 1 .. n : Word(b)[i] = b[i]
  BY <1>3, <1>4, <1>5
<1>7. ASSUME Word(b) = w PROVE Begins(w, s)
  <2>1. m = n
    BY <1>6, <1>7 DEF m
  <2>2. \A i \in 1 .. m : b[i] = w[i]
    BY <1>6, <1>7, <2>1
  <2>3. ASSUME Len(s) < m PROVE FALSE
    <3>1. m \in Len(s) + 1 .. MaxLine /\ m \in 1 .. m
      BY <1>1, <1>2, <1>4, <2>1, <2>3
    <3>2. b[m] = Pad /\ b[m] = w[m]
      BY <1>1, <2>2, <3>1
    <3> QED
      BY <1>2, <3>1, <3>2, Spaces
  <2>4. m <= Len(s)
    BY <1>1, <1>2, <2>3
  <2>5. \A i \in 1 .. m : s[i] = w[i]
    BY <1>1, <1>2, <2>2, <2>4
  <2>6. ASSUME m < Len(s) PROVE s[m + 1] \in Space
    <3>1. m < Len(b) /\ m + 1 \in 1 .. Len(s)
      BY <1>1, <1>2, <2>6
    <3>2. b[m + 1] \in Space /\ b[m + 1] = s[m + 1]
      BY <1>1, <1>3, <2>1, <3>1 DEF Ends
    <3> QED
      BY <3>2
  <2> QED
    BY <2>4, <2>5, <2>6 DEF Begins, m
<1>8. ASSUME Begins(w, s) PROVE Word(b) = w
  <2>1. m <= Len(s) /\ (\A i \in 1 .. m : s[i] = w[i]) /\ (m < Len(s) => s[m + 1] \in Space)
    BY <1>8 DEF Begins, m
  <2>2. \A i \in 1 .. m : b[i] = w[i]
    BY <1>1, <1>2, <2>1
  <2>3. m < Len(b) => b[m + 1] \in Space
    <3> SUFFICES ASSUME m < Len(b) PROVE b[m + 1] \in Space
      OBVIOUS
    <3>1. CASE m < Len(s)
      <4>1. m + 1 \in 1 .. Len(s)
        BY <1>1, <1>2, <3>1
      <4> QED
        BY <1>1, <2>1, <3>1, <4>1
    <3>2. CASE m = Len(s)
      <4>1. m + 1 \in Len(s) + 1 .. MaxLine
        BY <1>1, <1>2, <3>2
      <4>2. b[m + 1] = Pad
        BY <1>1, <4>1
      <4> QED
        BY <4>2, Spaces
    <3> QED
      BY <1>1, <1>2, <2>1, <3>1, <3>2
  <2>4. m \in 0 .. Len(b) /\ \A i \in 1 .. m : b[i] \notin Space
    BY <1>1, <1>2, <2>1, <2>2
  <2>5. Ends(b, m)
    BY <2>3, <2>4 DEF Ends
  <2>6. m = n
    BY <1>1, <1>3, <2>5, OneEnd
  <2> DEFINE U == Shown \cup {"/", "a", "nswer"}
  <2>7. w \in Seq(U) /\ Word(b) \in Seq(U)
    BY <1>3, <1>5, CommandFacts, SeqMonotonic
  <2> HIDE DEF U
  <2>8. Len(Word(b)) = Len(w) /\ \A i \in 1 .. Len(Word(b)) : Word(b)[i] = w[i]
    BY <1>6, <2>2, <2>6 DEF m
  <2> QED
    BY <2>7, <2>8, SameSeq
<1> QED
  BY <1>7, <1>8 DEF b

\* messages.yaml:17: what begins with a slash is shown to nobody else, and what
\* begins with an answer command is an answer.
THEOREM CommandsArePrivate == Spec => []CommandsStayPrivate
<1>1. LineInv => CommandsStayPrivate
  <2> SUFFICES ASSUME LineInv, entered # <<>>, entered[1] = "/"
               PROVE  /\ \A i \in DOMAIN shown : shown[i].who = "ERROR"
                      /\ \A i \in DOMAIN sent : sent[i].type # "MESSAGE"
                      /\ sent # <<>> <=> \E w \in AnswerCommands :
                           IsPrefix(w, entered) /\ (entered = w \/ entered[Len(w) + 1] \in Space)
    BY DEF CommandsStayPrivate
  <2> DEFINE s == entered
             b == field_buffer(s)
  <2>1. s \in Seq(Chars) /\ Len(s) <= MaxLine /\ sent = Sent(s) /\ shown = Echoed(s)
    BY DEF LineInv
  <2>2. Len(s) \in Nat \ {0}
    BY <2>1, EmptySeq
  <2>3. b[1] = "/" /\ Len(b) = MaxLine
    BY <2>1, <2>2, FieldFacts
  <2>4. b # <<>>
    BY <2>1, <2>2, <2>3, EmptySeq
  <2>5. CASE Word(b) \notin AnswerCommands
    <3>1. Sent(s) = <<>> /\ Echoed(s) = <<[who |-> "ERROR", text |-> <<>>]>>
      BY <2>1, <2>3, <2>4, <2>5, EnterCases
    <3>2. ~\E w \in AnswerCommands : IsPrefix(w, s) /\ (s = w \/ s[Len(w) + 1] \in Space)
      BY <2>1, <2>5, WordOfField, BeginsPrefix
    <3> QED
      BY <2>1, <3>1, <3>2
  <2>6. CASE Word(b) \in AnswerCommands
    <3>1. /\ Sent(s) = <<[type |-> "ANSWER", from |-> UserName, answer |-> trim_left(Rest(b))]>>
          /\ Echoed(s) = <<>>
      BY <2>1, <2>3, <2>4, <2>6, EnterCases
    <3>2. \E w \in AnswerCommands : IsPrefix(w, s) /\ (s = w \/ s[Len(w) + 1] \in Space)
      BY <2>1, <2>6, WordOfField, BeginsPrefix
    <3> QED
      BY <2>1, <3>1, <3>2
  <2> QED
    BY <2>5, <2>6
<1> QED
  BY <1>1, SpecLineInv, PTL

(***************************************************************************)
(* Answers.                                                                *)
(***************************************************************************)

\* a is what is behind the first word of b, from the first character on that is
\* not blank.
Behind(a, b) ==
  /\ IsSuffix(a, b)
  /\ \A j \in DOMAIN b : j <= Len(b) - Len(a) => b[j] = Pad \/ j <= Len(Word(b))
  /\ a # <<>> /\ a[1] = Pad => \A j \in DOMAIN a : a[j] = Pad

LEMMA RestBehind ==
  ASSUME NEW S, NEW b \in Seq(S)
  PROVE  Behind(trim_left(Rest(b)), b)
<1> DEFINE N == Len(b)
           r == Rest(b)
           a == trim_left(r)
<1>1. N \in Nat /\ DOMAIN b = 1 .. N
  BY SeqFacts
<1>2. PICK n : Ends(b, n) /\ Word(b) = SubSeq(b, 1, n)
  BY WordEnds
<1>3. n \in Nat /\ n <= N
  BY <1>1, <1>2 DEF Ends
<1> HIDE DEF N
<1>4. Len(Word(b)) = n
  <2>1. 1 <= n + 1
    BY <1>3
  <2>2. Len(SubSeq(b, 1, n)) = n + 1 - 1
    BY <1>3, <2>1, CutFacts DEF N
  <2> QED
    BY <1>2, <1>3, <2>2
<1>5. r = SubSeq(b, n + 1, N)
  BY <1>4 DEF Rest, N
<1>6. /\ r \in Seq(S) /\ Len(r) = N - n
      /\ \A i \in 1 .. N - n : r[i] = b[n + i]
  <2> DEFINE m == n + 1
  <2>1. m \in Nat /\ 1 <= m /\ m <= N + 1 /\ N <= Len(b)
    BY <1>1, <1>3 DEF N
  <2>2. N + 1 - m = N - n /\ \A i \in 1 .. N - n : m + i - 1 = n + i
    BY <1>1, <1>3
  <2> HIDE DEF m
  <2>3. /\ SubSeq(b, m, N) \in Seq(S) /\ Len(SubSeq(b, m, N)) = N + 1 - m
        /\ \A i \in 1 .. N + 1 - m : SubSeq(b, m, N)[i] = b[m + i - 1]
    BY <1>1, <2>1, CutFacts
  <2> QED
    BY <1>5, <2>2, <2>3 DEF m
<1> HIDE DEF r
<1>7. ASSUME NEW k \in 1 .. N - n,
             a \in Seq(S), Len(a) = N - n + 1 - k,
             \A i \in 1 .. N - n + 1 - k : a[i] = r[k + i - 1],
             \A j \in 1 .. N - n : j < k => r[j] = Pad,
             a[1] = Pad => \A j \in 1 .. N - n + 1 - k : a[j] = Pad
      PROVE  Behind(a, b)
  <2> HIDE DEF a
  <2>1. Len(a) <= Len(b) /\ DOMAIN a = 1 .. Len(a) /\ Len(b) - Len(a) = n + k - 1
    BY <1>1, <1>3, <1>7, SeqFacts DEF N
  <2>2. \A i \in 1 .. Len(a) : a[i] = b[Len(b) - Len(a) + i]
    <3> SUFFICES ASSUME NEW i \in 1 .. Len(a) PROVE a[i] = b[Len(b) - Len(a) + i]
      OBVIOUS
    <3>1. a[i] = r[k + i - 1]
      BY <1>7
    <3>2. k + i - 1 \in 1 .. N - n /\ n + (k + i - 1) = Len(b) - Len(a) + i
      <4>1. i \in 1 .. N - n + 1 - k /\ k \in 1 .. N - n
        BY <1>7
      <4>2. k + i - 1 \in 1 .. N - n /\ n + (k + i - 1) = n + k - 1 + i
        BY <1>1, <1>3, <4>1
      <4> QED
        BY <2>1, <4>2
    <3>3. r[k + i - 1] = b[n + (k + i - 1)]
      BY <1>6, <3>2
    <3> QED
      BY <3>1, <3>2, <3>3
  <2>3. IsSuffix(a, b)
    BY <1>7, <2>1, <2>2, SuffixAt
  <2>4. ASSUME NEW j \in DOMAIN b, j <= Len(b) - Len(a) PROVE b[j] = Pad \/ j <= Len(Word(b))
    <3>1. j \in 1 .. N /\ j <= n + k - 1
      BY <1>1, <2>1, <2>4
    <3>2. CASE j <= n
      BY <1>4, <3>2
    <3>3. CASE j > n
      <4>1. j - n \in 1 .. N - n /\ j - n < k /\ n + (j - n) = j
        BY <1>1, <1>3, <3>1, <3>3
      <4>2. r[j - n] = Pad /\ r[j - n] = b[n + (j - n)]
        BY <1>6, <1>7, <4>1
      <4> QED
        BY <4>1, <4>2
    <3> QED
      BY <1>3, <3>1, <3>2, <3>3
  <2>5. a # <<>> /\ a[1] = Pad => \A j \in DOMAIN a : a[j] = Pad
    BY <1>7, <2>1
  <2> QED
    BY <2>3, <2>4, <2>5 DEF Behind
<1>8. ASSUME r = <<>> PROVE Behind(a, b)
  <2>1. a = <<>>
    BY <1>8 DEF trim_left
  <2>2. Len(a) = 0 /\ DOMAIN a = {} /\ a \in Seq(S)
    BY <2>1
  <2>3. N - n = 0
    BY <1>6, <1>8
  <2>4. IsSuffix(a, b)
    <3>1. Len(a) <= Len(b) /\ \A i \in 1 .. Len(a) : a[i] = b[Len(b) - Len(a) + i]
      BY <1>1, <2>2 DEF N
    <3> HIDE DEF a
    <3> QED
      BY <2>2, <3>1, SuffixAt
  <2>5. \A j \in DOMAIN b : j <= Len(Word(b))
    BY <1>1, <1>3, <1>4, <2>3
  <2>6. a # <<>> /\ a[1] = Pad => \A j \in DOMAIN a : a[j] = Pad
    BY <2>1
  <2> HIDE DEF a
  <2> QED
    BY <2>4, <2>5, <2>6, Zenon DEF Behind
<1>9. ASSUME r # <<>>, \A i \in 1 .. Len(r) : Blank(r, i) PROVE Behind(a, b)
  <2>1. a = r
    BY <1>6, <1>9, TrimBlanks
  <2>2. Len(r) # 0
    BY <1>6, <1>9, EmptySeq
  <2>3. 1 \in 1 .. N - n /\ N - n + 1 - 1 = N - n
    BY <1>1, <1>3, <1>6, <2>2
  <2>4. \A i \in 1 .. N - n : r[i] = Pad
    BY <1>6, <1>9, Spaces
  <2>5. /\ a \in Seq(S) /\ Len(a) = N - n + 1 - 1
        /\ \A i \in 1 .. N - n + 1 - 1 : a[i] = r[1 + i - 1]
        /\ \A j \in 1 .. N - n : j < 1 => r[j] = Pad
        /\ \A j \in 1 .. N - n + 1 - 1 : a[j] = Pad
    BY <1>1, <1>3, <1>6, <2>1, <2>3, <2>4
  <2> HIDE DEF a
  <2> QED
    BY <1>7, <2>3, <2>5
<1>10. ASSUME NEW i \in 1 .. Len(r), ~Blank(r, i) PROVE Behind(a, b)
  <2>1. PICK k : FirstText(r, k)
    BY <1>6, <1>10, HasEnds
  <2>2. k \in 1 .. N - n /\ r[k] # Pad /\ \A j \in 1 .. N - n : j < k => r[j] = Pad
    BY <1>6, <2>1, Spaces DEF FirstText
  <2>3. a = SubSeq(r, k, N - n)
    BY <1>6, <2>1, TrimLeftAt
  <2>4. /\ a \in Seq(S) /\ Len(a) = N - n + 1 - k
        /\ \A j \in 1 .. N - n + 1 - k : a[j] = r[k + j - 1]
    <3> DEFINE M == N - n
    <3>1. k \in Nat /\ M \in Nat /\ 1 <= k /\ k <= M + 1 /\ M <= Len(r)
      BY <1>1, <1>3, <1>6, <2>2
    <3> HIDE DEF M
    <3>2. /\ SubSeq(r, k, M) \in Seq(S) /\ Len(SubSeq(r, k, M)) = M + 1 - k
          /\ \A j \in 1 .. M + 1 - k : SubSeq(r, k, M)[j] = r[k + j - 1]
      BY <1>6, <3>1, CutFacts
    <3> QED
      BY <2>3, <3>2 DEF M
  <2>5. a[1] # Pad
    <3>1. 1 \in 1 .. N - n + 1 - k /\ k + 1 - 1 = k
      BY <1>1, <1>3, <2>2
    <3> QED
      BY <2>2, <2>4, <3>1
  <2> HIDE DEF a
  <2> QED
    BY <1>7, <2>2, <2>4, <2>5
<1> HIDE DEF a
<1>11. Behind(a, b)
  <2>1. CASE r = <<>>
    BY <1>8, <2>1
  <2>2. CASE \A i \in 1 .. Len(r) : Blank(r, i)
    BY <1>8, <1>9, <2>2, Zenon
  <2>3. CASE \E i \in 1 .. Len(r) : ~Blank(r, i)
    BY <1>10, <2>3, Zenon
  <2> QED
    BY <2>2, <2>3, Zenon
<1> QED
  BY <1>11 DEF a, r

\* client/line_parser.cc:19-38: the answer is the text behind the command.
THEOREM AnswersAreText == Spec => []AnswerIsRest
<1>1. LineInv => AnswerIsRest
  <2> SUFFICES ASSUME LineInv PROVE AnswerIsRest
    OBVIOUS
  <2>1. (\A i \in DOMAIN sent : sent[i].type = "ANSWER" => Behind(sent[i].answer, field_buffer(entered)))
          => AnswerIsRest
    BY Zenon DEF AnswerIsRest, Behind, Pad
  <2>2. entered \in Seq(Chars) /\ Len(entered) <= MaxLine
    BY DEF LineInv
  <2>3. field_buffer(entered) \in Seq(Shown)
    BY <2>2, FieldFacts
  <2>4. \/ sent = <<>>
        \/ sent = <<[type |-> "MESSAGE", msg |-> UserName, from |-> field_buffer(entered)]>>
        \/ sent = <<[type |-> "ANSWER", from |-> UserName,
                     answer |-> trim_left(Rest(field_buffer(entered)))]>>
    BY <2>2, EnterCases DEF LineInv
  <2>5. Behind(trim_left(Rest(field_buffer(entered))), field_buffer(entered))
    BY <2>3, RestBehind
  <2>6. \A i \in DOMAIN sent : sent[i].type = "ANSWER" => Behind(sent[i].answer, field_buffer(entered))
    BY <2>4, <2>5
  <2> QED
    BY <2>1, <2>6
<1> QED
  BY <1>1, SpecLineInv, PTL

(***************************************************************************)
(* What the chat panel shows of a line.                                    *)
(***************************************************************************)

LEMMA Padded ==
  ASSUME NEW S, Pad \in S, NEW b \in Seq(S), NEW k \in 0 .. Len(b),
         \A j \in 1 .. Len(b) : k < j => b[j] = Pad
  PROVE  b = SubSeq(b, 1, k) \o [j \in 1 .. Len(b) - k |-> Pad]
<1> DEFINE t == SubSeq(b, 1, k)
           n == Len(b) - k
           pad == [j \in 1 .. n |-> Pad]
           c == t \o pad
<1>1. Len(b) \in Nat /\ k \in Nat /\ n \in Nat /\ 1 <= k + 1 /\ k <= Len(b)
  BY SeqFacts
<1>2. t \in Seq(S) /\ Len(t) = k /\ \A i \in 1 .. k : t[i] = b[i]
  <2>1. /\ SubSeq(b, 1, k) \in Seq(S) /\ Len(SubSeq(b, 1, k)) = k + 1 - 1
        /\ \A i \in 1 .. k + 1 - 1 : SubSeq(b, 1, k)[i] = b[1 + i - 1]
    BY <1>1, CutFacts
  <2> QED
    BY <1>1, <2>1
<1>3. pad \in Seq(S) /\ Len(pad) = n /\ \A i \in 1 .. n : pad[i] = Pad
  <2>1. pad \in [1 .. n -> S]
    OBVIOUS
  <2>2. \A i \in 1 .. n : pad[i] = Pad
    OBVIOUS
  <2> HIDE DEF pad
  <2> QED
    BY <1>1, <2>1, <2>2, FunctionIsSeq
<1>4. n = Len(b) - k /\ k + n = Len(b)
  BY <1>1
<1> HIDE DEF t, n, pad
<1>5. /\ c \in Seq(S) /\ Len(c) = Len(t) + Len(pad)
      /\ \A i \in 1 .. Len(t) + Len(pad) : c[i] = IF i <= Len(t) THEN t[i] ELSE pad[i - Len(t)]
  BY <1>2, <1>3, ConcatProperties
<1> HIDE DEF c
<1>6. Len(c) = Len(b)
  <2>1. Len(c) = k + n
    BY <1>2, <1>3, <1>5
  <2> QED
    BY <1>4, <2>1
<1>7. ASSUME NEW i \in 1 .. Len(b) PROVE b[i] = c[i]
  <2>1. c[i] = IF i <= k THEN t[i] ELSE pad[i - k]
    BY <1>1, <1>2, <1>3, <1>4, <1>5
  <2>2. CASE i <= k
    <3>1. i \in 1 .. k
      BY <1>1, <2>2
    <3> QED
      BY <1>2, <2>1, <2>2, <3>1
  <2>3. CASE ~(i <= k)
    <3>1. i - k \in 1 .. n /\ k < i
      BY <1>1, <1>4, <2>3
    <3> QED
      BY <1>3, <2>1, <2>3, <3>1
  <2> QED
    BY <2>2, <2>3
<1>8. b = c
  BY <1>5, <1>6, <1>7, SameSeq
<1> QED
  BY <1>8 DEF c, t, pad, n

EchoText(b) == IF {i \in DOMAIN b : ~Blank(b, i)} = {} THEN <<>> ELSE trim_right(b)

LEMMA EchoOfField ==
  ASSUME NEW S, Pad \in S, NEW b \in Seq(S)
  PROVE  /\ \E n \in 0 .. Len(b) : b = EchoText(b) \o [j \in 1 .. n |-> Pad]
         /\ EchoText(b) # <<>> => ~Blank(EchoText(b), Len(EchoText(b)))
         /\ (\E i \in 1 .. Len(b) : ~Blank(b, i)) => EchoText(b) # <<>>
<1> DEFINE kept == {i \in DOMAIN b : ~Blank(b, i)}
           e == EchoText(b)
<1>1. Len(b) \in Nat /\ DOMAIN b = 1 .. Len(b)
  BY SeqFacts
<1>2. ASSUME NEW k \in 0 .. Len(b), \A j \in 1 .. Len(b) : k < j => b[j] = Pad,
             e = SubSeq(b, 1, k)
      PROVE  \E n \in 0 .. Len(b) : b = e \o [j \in 1 .. n |-> Pad]
  <2> HIDE DEF e
  <2>1. b = e \o [j \in 1 .. Len(b) - k |-> Pad]
    BY <1>2, Padded
  <2>2. Len(b) - k \in 0 .. Len(b)
    BY <1>1
  <2> QED
    BY <2>1, <2>2, Zenon
<1>3. CASE kept = {}
  <2>1. e = <<>>
    BY <1>3 DEF EchoText
  <2>2. SubSeq(b, 1, 0) = <<>>
    <3>1. 0 \in Nat /\ 1 <= 0 + 1 /\ 0 <= Len(b) /\ 0 + 1 - 1 = 0
      BY <1>1
    <3>2. SubSeq(b, 1, 0) \in Seq(S) /\ Len(SubSeq(b, 1, 0)) = 0 + 1 - 1
      BY <3>1, CutFacts
    <3> QED
      BY <3>1, <3>2, EmptySeq
  <2>3. 0 \in 0 .. Len(b) /\ \A j \in 1 .. Len(b) : b[j] = Pad
    BY <1>1, <1>3, Spaces
  <2> HIDE DEF e
  <2>4. \E n \in 0 .. Len(b) : b = e \o [j \in 1 .. n |-> Pad]
    BY <1>2, <2>1, <2>2, <2>3
  <2>5. ~\E j \in 1 .. Len(b) : ~Blank(b, j)
    BY <2>3, Spaces
  <2> QED
    BY <2>1, <2>4, <2>5, Zenon DEF e
<1>4. CASE kept # {}
  <2>1. PICK i \in 1 .. Len(b) : ~Blank(b, i)
    BY <1>1, <1>4
  <2>2. PICK k : LastText(b, k)
    BY <2>1, HasEnds
  <2>3. k \in 1 .. Len(b) /\ b[k] # Pad /\ \A j \in 1 .. Len(b) : k < j => b[j] = Pad
    BY <2>2, Spaces DEF LastText
  <2>4. trim_right(b) = SubSeq(b, 1, k)
    BY <2>2, TrimRightAt
  <2>5. e = SubSeq(b, 1, k)
    BY <1>4, <2>4 DEF EchoText
  <2> HIDE DEF e
  <2>6. k \in 0 .. Len(b) /\ k \in Nat /\ k \in 1 .. k /\ 1 <= k + 1 /\ k <= Len(b)
    BY <1>1, <2>3
  <2>7. \E n \in 0 .. Len(b) : b = e \o [j \in 1 .. n |-> Pad]
    BY <1>2, <2>3, <2>5, <2>6
  <2>8. /\ Len(SubSeq(b, 1, k)) = k + 1 - 1
        /\ \A j \in 1 .. k + 1 - 1 : SubSeq(b, 1, k)[j] = b[1 + j - 1]
    BY <2>6, CutFacts
  <2>9. Len(e) = k /\ e[k] = b[k]
    BY <2>5, <2>6, <2>8
  <2>10. ~Blank(e, Len(e))
    BY <2>3, <2>9, Spaces
  <2>11. e # <<>>
    BY <2>6, <2>9
  <2> QED
    BY <2>7, <2>10, <2>11, Zenon DEF e
<1> QED
  BY <1>3, <1>4, Zenon

\* A name has no blanks, so that write_to_chat leaves it as it is.
LEMMA NameStays == EchoText(UserName) = UserName
<1>1. /\ UserName \in Seq(Chars \ Space) /\ Len(UserName) \in Nat
      /\ DOMAIN UserName = 1 .. Len(UserName)
  BY LineAssumption, SeqFacts DEF LineAssumption
<1>2. \A i \in 1 .. Len(UserName) : ~Blank(UserName, i)
  <2>1. \A i \in 1 .. Len(UserName) : UserName[i] \in Chars \ Space
    BY <1>1, SeqFacts
  <2> QED
    BY <2>1, Spaces
<1>3. CASE UserName = <<>>
  <2>1. {i \in DOMAIN UserName : ~Blank(UserName, i)} = {}
    BY <1>3
  <2> QED
    BY <1>3, <2>1 DEF EchoText
<1>4. CASE UserName # <<>>
  <2>1. Len(UserName) \in 1 .. Len(UserName)
    BY <1>1, <1>4, EmptySeq
  <2>2. LastText(UserName, Len(UserName))
    BY <1>1, <1>2, <2>1 DEF LastText
  <2>3. trim_right(UserName) = UserName
    BY <1>1, <2>2, TrimRightAt, SubSeqFull
  <2>4. {i \in DOMAIN UserName : ~Blank(UserName, i)} # {}
    BY <1>1, <1>2, <2>1
  <2> QED
    BY <2>3, <2>4 DEF EchoText
<1> QED
  BY <1>3, <1>4

\* ui.cc:101-128, main.cc:77: the user sees as his own exactly what is sent to the
\* others, and they see the same text with the user's name.
THEOREM EchoesAreSent == Spec => []EchoIsSent
<1>1. LineInv => EchoIsSent
  <2> SUFFICES ASSUME LineInv PROVE EchoIsSent
    OBVIOUS
  <2> DEFINE b == field_buffer(entered)
             Same(mine, theirs) ==
               /\ mine.who = "me" /\ mine.text # <<>> /\ ~Blank(mine.text, Len(mine.text))
               /\ \E n \in 0 .. MaxLine :
                    {theirs.who, theirs.text} = {UserName, mine.text \o [l \in 1 .. n |-> Pad]}
             Echo(i) == \E j \in DOMAIN shown, k \in DOMAIN Received(sent[i]) :
                          Same(shown[j], Received(sent[i])[k])
  <2>1. /\ (\E i \in DOMAIN entered : ~Blank(entered, i)) =>
             \A i \in DOMAIN sent : sent[i].type = "MESSAGE" => Echo(i)
        /\ entered # <<>> => sent # <<>> \/ shown # <<>>
        /\ (\E j \in DOMAIN shown : shown[j].who = "me") => sent # <<>>
        => EchoIsSent
    BY Zenon DEF EchoIsSent, Pad
  <2>2. entered \in Seq(Chars) /\ Len(entered) <= MaxLine
    BY DEF LineInv
  <2>3. b \in Seq(Shown) /\ Len(b) = MaxLine /\ Pad \in Shown
    BY <2>2, FieldFacts DEF Shown
  <2>4. write_to_chat("me", b) = <<[who |-> "me", text |-> EchoText(b)]>>
    BY DEF write_to_chat, EchoText
  <2>5. \/ entered = <<>> /\ sent = <<>> /\ shown \in {<<>>, <<[who |-> "errno", text |-> <<>>]>>}
        \/ sent = <<>> /\ shown = <<[who |-> "ERROR", text |-> <<>>]>>
        \/ /\ sent = <<[type |-> "MESSAGE", msg |-> UserName, from |-> b]>>
           /\ shown = <<[who |-> "me", text |-> EchoText(b)]>>
        \/ /\ sent = <<[type |-> "ANSWER", from |-> UserName, answer |-> trim_left(Rest(b))]>>
           /\ shown = <<>>
    BY <2>2, <2>4, EnterCases DEF LineInv
  <2>6. /\ \E n \in 0 .. MaxLine : b = EchoText(b) \o [j \in 1 .. n |-> Pad]
        /\ EchoText(b) # <<>> => ~Blank(EchoText(b), Len(EchoText(b)))
        /\ (\E i \in 1 .. MaxLine : ~Blank(b, i)) => EchoText(b) # <<>>
    BY <2>3, EchoOfField
  <2>7. ASSUME NEW i \in DOMAIN entered, ~Blank(entered, i) PROVE EchoText(b) # <<>>
    <3>1. i \in 1 .. Len(entered) /\ Len(entered) \in Nat
      BY <2>2, SeqFacts
    <3>2. i \in 1 .. MaxLine /\ b[i] = entered[i]
      BY <2>2, <3>1, FieldFacts
    <3> HIDE DEF b
    <3> QED
      BY <2>6, <2>7, <3>2, Spaces
  <2>8. Received([type |-> "MESSAGE", msg |-> UserName, from |-> b])
          = <<[who |-> b, text |-> UserName]>>
    BY NameStays DEF Received, write_to_chat, EchoText
  <2> HIDE DEF b
  <2>9. ASSUME EchoText(b) # <<>>, NEW i \in DOMAIN sent, sent[i].type = "MESSAGE" PROVE Echo(i)
    <3>1. sent = <<[type |-> "MESSAGE", msg |-> UserName, from |-> b]>>
          /\ shown = <<[who |-> "me", text |-> EchoText(b)]>>
      BY <2>5, <2>9
    <3>2. Received(sent[i]) = <<[who |-> b, text |-> UserName]>>
      BY <2>8, <3>1
    <3> DEFINE mine == shown[1]
               theirs == Received(sent[i])[1]
    <3>3. 1 \in DOMAIN shown /\ mine.who = "me" /\ mine.text = EchoText(b)
      BY <3>1
    <3>4. 1 \in DOMAIN Received(sent[i]) /\ theirs.who = b /\ theirs.text = UserName
      BY <3>2
    <3> HIDE DEF mine, theirs
    <3>5. PICK n \in 0 .. MaxLine : b = EchoText(b) \o [l \in 1 .. n |-> Pad]
      BY <2>6
    <3>6. {theirs.who, theirs.text} = {UserName, mine.text \o [l \in 1 .. n |-> Pad]}
      <4>1. theirs.who = mine.text \o [l \in 1 .. n |-> Pad]
        BY <3>3, <3>4, <3>5, Zenon
      <4> QED
        BY <3>4, <4>1, Zenon
    <3>7. Same(mine, theirs)
      BY <2>6, <2>9, <3>3, <3>6, Zenon
    <3> QED
      BY <3>3, <3>4, <3>7, Zenon DEF mine, theirs
  <2>10. entered # <<>> => sent # <<>> \/ shown # <<>>
    BY <2>5
  <2>11. (\E j \in DOMAIN shown : shown[j].who = "me") => sent # <<>>
    BY <2>5
  <2> QED
    BY <2>1, <2>7, <2>9, <2>10, <2>11, Zenon
<1> QED
  BY <1>1, SpecLineInv, PTL

(***************************************************************************)
(* Trimming from both ends.                                                *)
(***************************************************************************)

LEMMA CutOfCut ==
  ASSUME NEW S, NEW s \in Seq(S), NEW i \in 1 .. Len(s), NEW j \in i .. Len(s),
         NEW m \in 1 .. j + 1 - i, NEW n \in m .. j + 1 - i
  PROVE  SubSeq(SubSeq(s, i, j), m, n) = SubSeq(s, i + m - 1, i + n - 1)
<1>1. /\ Len(s) \in Nat /\ i \in Nat /\ j \in Nat /\ m \in Nat /\ n \in Nat
      /\ 1 <= i /\ i <= j + 1 /\ j <= Len(s)
      /\ 1 <= m /\ m <= n + 1 /\ n <= j + 1 - i
  BY SeqFacts
<1> DEFINE t == SubSeq(s, i, j)
           a == i + m - 1
           z == i + n - 1
           u == SubSeq(t, m, n)
           v == SubSeq(s, a, z)
<1>2. t \in Seq(S) /\ Len(t) = j + 1 - i /\ \A k \in 1 .. j + 1 - i : t[k] = s[i + k - 1]
  BY <1>1, CutFacts
<1>3. a \in Nat /\ z \in Nat /\ 1 <= a /\ a <= z + 1 /\ z <= Len(s) /\ z + 1 - a = n + 1 - m
  BY <1>1
<1>4. \A k \in 1 .. n + 1 - m : m + k - 1 \in 1 .. j + 1 - i /\ i + (m + k - 1) - 1 = a + k - 1
  BY <1>1
<1> HIDE DEF t, a, z
<1>5. v \in Seq(S) /\ Len(v) = z + 1 - a /\ \A k \in 1 .. z + 1 - a : v[k] = s[a + k - 1]
  BY <1>3, CutFacts
<1>6. n <= Len(t)
  BY <1>1, <1>2
<1>7. u \in Seq(S) /\ Len(u) = n + 1 - m /\ \A k \in 1 .. n + 1 - m : u[k] = t[m + k - 1]
  BY <1>1, <1>2, <1>6, CutFacts
<1> HIDE DEF u, v
<1>8. Len(u) = Len(v)
  BY <1>3, <1>5, <1>7
<1>9. ASSUME NEW k \in 1 .. Len(u) PROVE u[k] = v[k]
  <2>1. k \in 1 .. n + 1 - m /\ k \in 1 .. z + 1 - a
    BY <1>3, <1>7
  <2>2. u[k] = t[m + k - 1] /\ v[k] = s[a + k - 1]
    BY <1>5, <1>7, <2>1
  <2>3. t[m + k - 1] = s[i + (m + k - 1) - 1]
    BY <1>2, <1>4, <2>1
  <2>4. i + (m + k - 1) - 1 = a + k - 1
    BY <1>4, <2>1
  <2> QED
    BY <2>2, <2>3, <2>4
<1>10. u = v
  BY <1>5, <1>7, <1>8, <1>9, SameSeq
<1> QED
  BY <1>10 DEF u, v, t, a, z

\* What is left between the first and the last character that is not blank.
LEMMA Middle ==
  ASSUME NEW S, NEW s \in Seq(S), NEW lo, NEW hi, FirstText(s, lo), LastText(s, hi)
  PROVE  /\ lo \in 1 .. Len(s) /\ hi \in lo .. Len(s)
         /\ SubSeq(s, lo, hi) \in Seq(S) /\ Len(SubSeq(s, lo, hi)) = hi + 1 - lo
         /\ \A i \in 1 .. hi + 1 - lo : SubSeq(s, lo, hi)[i] = s[lo + i - 1]
<1>1. lo \in 1 .. Len(s) /\ hi \in 1 .. Len(s) /\ Len(s) \in Nat
  BY SeqFacts DEF FirstText, LastText
<1>2. ~(hi < lo)
  BY <1>1 DEF FirstText, LastText
<1>3. lo \in Nat /\ hi \in Nat /\ 1 <= lo /\ lo <= hi + 1 /\ hi <= Len(s) /\ hi \in lo .. Len(s)
  BY <1>1, <1>2
<1> QED
  BY <1>1, <1>3, CutFacts

LEMMA RightThenLeft ==
  ASSUME NEW S, NEW s \in Seq(S), NEW lo, NEW hi, FirstText(s, lo), LastText(s, hi)
  PROVE  trim_left(trim_right(s)) = SubSeq(s, lo, hi)
<1> DEFINE r == SubSeq(s, 1, hi)
<1>1. lo \in 1 .. Len(s) /\ hi \in lo .. Len(s) /\ Len(s) \in Nat
  BY Middle, SeqFacts
<1>2. trim_right(s) = r
  BY TrimRightAt
<1>3. r \in Seq(S) /\ Len(r) = hi /\ \A i \in 1 .. hi : r[i] = s[i]
  <2>1. hi \in Nat /\ 1 <= hi + 1 /\ hi <= Len(s) /\ hi + 1 - 1 = hi /\ \A i \in 1 .. hi : 1 + i - 1 = i
    BY <1>1
  <2>2. r \in Seq(S) /\ Len(r) = hi + 1 - 1 /\ \A i \in 1 .. hi + 1 - 1 : r[i] = s[1 + i - 1]
    BY <2>1, CutFacts
  <2> QED
    BY <2>1, <2>2
<1>4. SubSeq(r, lo, hi) = SubSeq(s, lo, hi)
  <2>1. /\ 1 \in 1 .. Len(s) /\ hi \in 1 .. Len(s) /\ lo \in 1 .. hi + 1 - 1 /\ hi \in lo .. hi + 1 - 1
        /\ 1 + lo - 1 = lo /\ 1 + hi - 1 = hi
    BY <1>1
  <2>2. SubSeq(SubSeq(s, 1, hi), lo, hi) = SubSeq(s, 1 + lo - 1, 1 + hi - 1)
    BY <2>1, CutOfCut
  <2> QED
    BY <2>1, <2>2
<1> HIDE DEF r
<1>5. FirstText(r, lo)
  <2>1. lo \in 1 .. hi /\ \A j \in 1 .. hi : j \in 1 .. Len(s)
    BY <1>1
  <2>2. \A j \in 1 .. hi : Blank(r, j) <=> Blank(s, j)
    BY <1>3, Spaces
  <2> QED
    BY <1>3, <2>1, <2>2 DEF FirstText
<1>6. trim_left(r) = SubSeq(r, lo, Len(r))
  BY <1>3, <1>5, TrimLeftAt
<1> QED
  BY <1>2, <1>3, <1>4, <1>6

LEMMA LeftThenRight ==
  ASSUME NEW S, NEW s \in Seq(S), NEW lo, NEW hi, FirstText(s, lo), LastText(s, hi)
  PROVE  trim_right(trim_left(s)) = SubSeq(s, lo, hi)
<1> DEFINE N == Len(s)
           l == SubSeq(s, lo, N)
           n == hi + 1 - lo
<1>1. lo \in 1 .. N /\ hi \in lo .. N /\ N \in Nat
  BY Middle, SeqFacts
<1>2. trim_left(s) = l
  BY TrimLeftAt
<1>3. l \in Seq(S) /\ Len(l) = N + 1 - lo /\ \A i \in 1 .. N + 1 - lo : l[i] = s[lo + i - 1]
  <2>1. lo \in Nat /\ 1 <= lo /\ lo <= N + 1 /\ N <= Len(s)
    BY <1>1
  <2> HIDE DEF N
  <2> QED
    BY <1>1, <2>1, CutFacts
<1>4. SubSeq(l, 1, n) = SubSeq(s, lo, hi)
  <2>1. /\ lo \in 1 .. Len(s) /\ N \in lo .. Len(s) /\ 1 \in 1 .. N + 1 - lo /\ n \in 1 .. N + 1 - lo
        /\ lo + 1 - 1 = lo /\ lo + n - 1 = hi
    BY <1>1
  <2> HIDE DEF N, n
  <2>2. SubSeq(SubSeq(s, lo, N), 1, n) = SubSeq(s, lo + 1 - 1, lo + n - 1)
    BY <2>1, CutOfCut
  <2> QED
    BY <2>1, <2>2
<1>5. /\ n \in 1 .. N + 1 - lo /\ lo + n - 1 = hi
      /\ \A j \in 1 .. N + 1 - lo : /\ lo + j - 1 \in 1 .. N
                                    /\ n < j => hi < lo + j - 1
  BY <1>1
<1> HIDE DEF l, n
<1>6. LastText(l, n)
  <2>1. \A j \in 1 .. N + 1 - lo : Blank(l, j) <=> Blank(s, lo + j - 1)
    BY <1>3, Spaces
  <2>2. ~Blank(l, n)
    <3>1. ~Blank(s, hi)
      BY DEF LastText
    <3> QED
      BY <1>5, <2>1, <3>1
  <2>3. ASSUME NEW j \in 1 .. N + 1 - lo, n < j PROVE Blank(l, j)
    <3>1. lo + j - 1 \in 1 .. Len(s) /\ hi < lo + j - 1
      BY <1>5, <2>3
    <3>2. Blank(s, lo + j - 1)
      BY <3>1 DEF LastText
    <3> QED
      BY <2>1, <3>2
  <2> QED
    BY <1>3, <1>5, <2>2, <2>3 DEF LastText
<1>7. trim_right(l) = SubSeq(l, 1, n)
  BY <1>3, <1>6, TrimRightAt
<1> QED
  BY <1>2, <1>4, <1>7

\* Nothing but blanks is lost.
LEMMA TextStays ==
  ASSUME NEW S, NEW s \in Seq(S), NEW lo, NEW hi, FirstText(s, lo), LastText(s, hi)
  PROVE  LET m == SubSeq(s, lo, hi)
         IN  Cardinality({i \in DOMAIN m : ~Blank(m, i)}) = Cardinality({i \in DOMAIN s : ~Blank(s, i)})
<1> DEFINE m == SubSeq(s, lo, hi)
           A == {i \in DOMAIN m : ~Blank(m, i)}
           B == {i \in DOMAIN s : ~Blank(s, i)}
           n == hi + 1 - lo
<1>1. /\ lo \in 1 .. Len(s) /\ hi \in lo .. Len(s) /\ Len(s) \in Nat
      /\ m \in Seq(S) /\ Len(m) = n /\ \A i \in 1 .. n : m[i] = s[lo + i - 1]
      /\ DOMAIN s = 1 .. Len(s)
  BY Middle, SeqFacts
<1>2. DOMAIN m = 1 .. n
  BY <1>1, SeqFacts
<1> HIDE DEF m
<1>3. /\ n \in Nat /\ \A i \in 1 .. n : lo + i - 1 \in 1 .. Len(s)
      /\ \A j \in 1 .. Len(s) : ~(j < lo) /\ ~(hi < j) => j - lo + 1 \in 1 .. n /\ lo + (j - lo + 1) - 1 = j
      /\ \A i, k \in 1 .. n : lo + i - 1 = lo + k - 1 => i = k
  BY <1>1
<1>4. \A i \in 1 .. n : i \in A <=> lo + i - 1 \in B
  BY <1>1, <1>2, <1>3, Spaces
<1>5. \A j \in B : j \in 1 .. Len(s) /\ ~(j < lo) /\ ~(hi < j)
  BY <1>1 DEF FirstText, LastText
<1>6. A \subseteq 1 .. n
  BY <1>2
<1> HIDE DEF A, B, n
<1> DEFINE f == [i \in A |-> lo + i - 1]
<1>7. f \in [A -> B]
  BY <1>4, <1>6
<1>8. \A i, k \in A : f[i] = f[k] => i = k
  BY <1>3, <1>6
<1>9. ASSUME NEW j \in B PROVE \E i \in A : f[i] = j
  <2>1. j - lo + 1 \in 1 .. n /\ lo + (j - lo + 1) - 1 = j
    BY <1>3, <1>5
  <2>2. j - lo + 1 \in A
    BY <1>4, <2>1
  <2> QED
    BY <2>1, <2>2
<1> HIDE DEF f
<1>10. f \in Bijection(A, B)
  <2>1. f \in Injection(A, B)
    BY <1>7, <1>8 DEF Injection, IsInjective
  <2>2. f \in Surjection(A, B)
    BY <1>7, <1>9 DEF Surjection
  <2> QED
    BY <2>1, <2>2 DEF Bijection
<1>11. IsFiniteSet(A)
  <2>1. IsFiniteSet(1 .. n)
    <3>1. 1 \in Int /\ n \in Int
      BY <1>3
    <3> QED
      BY <3>1, FS_Interval, Zenon
  <2> QED
    BY <1>6, <2>1, FS_Subset
<1>12. Cardinality(A) = Cardinality(B)
  BY <1>10, <1>11, FS_Bijection DEF ExistsBijection
<1> QED
  BY <1>12 DEF A, B, m

\* common/string_utils.h: the helpers agree on any line, from either end.
THEOREM TrimsAgree == Spec => []TrimHelpers
<1>1. LineInv => TrimHelpers
  <2> SUFFICES ASSUME LineInv PROVE TrimHelpers
    OBVIOUS
  <2> DEFINE both == trim_left(trim_right(line))
             text == {i \in DOMAIN line : ~Blank(line, i)}
  <2>1. line \in Seq(Chars) /\ Len(line) \in Nat /\ DOMAIN line = 1 .. Len(line)
    BY SeqFacts DEF LineInv
  <2>2. CASE text = {}
    <3>1. trim_left(line) = line /\ trim_right(line) = line
      BY <2>1, <2>2, TrimBlanks
    <3>2. both = trim_right(trim_left(line))
      BY <3>1
    <3> QED
      BY <2>2, <3>2 DEF TrimHelpers
  <2>3. CASE text # {}
    <3>1. PICK i \in 1 .. Len(line) : ~Blank(line, i)
      BY <2>1, <2>3
    <3>2. PICK lo : FirstText(line, lo)
      BY <2>1, <3>1, HasEnds
    <3>3. PICK hi : LastText(line, hi)
      BY <2>1, <3>1, HasEnds
    <3> DEFINE m == SubSeq(line, lo, hi)
    <3>4. both = m /\ trim_right(trim_left(line)) = m
      BY <2>1, <3>2, <3>3, RightThenLeft, LeftThenRight
    <3>6. Cardinality({k \in DOMAIN m : ~Blank(m, k)}) = Cardinality(text)
      BY <2>1, <3>2, <3>3, TextStays
    <3>7. /\ lo \in 1 .. Len(line) /\ hi \in lo .. Len(line)
          /\ Len(m) = hi + 1 - lo /\ \A k \in 1 .. hi + 1 - lo : m[k] = line[lo + k - 1]
      BY <2>1, <3>2, <3>3, Middle
    <3> HIDE DEF m
    <3>8. /\ 1 \in 1 .. hi + 1 - lo /\ Len(m) \in 1 .. hi + 1 - lo
          /\ lo + 1 - 1 = lo /\ lo + Len(m) - 1 = hi
      BY <2>1, <3>7
    <3>9. ~Blank(line, lo) /\ ~Blank(line, hi)
      BY <3>2, <3>3 DEF FirstText, LastText
    <3>10. m[1] = line[lo] /\ m[Len(m)] = line[hi]
      BY <3>7, <3>8
    <3>11. ~Blank(m, 1) /\ ~Blank(m, Len(m))
      BY <3>9, <3>10, Spaces
    <3>12. \E k \in DOMAIN line : SubSeq(line, k, k + Len(m) - 1) = m
      BY <2>1, <3>7, <3>8 DEF m
    <3> HIDE DEF both
    <3>13. /\ ~Blank(both, 1) /\ ~Blank(both, Len(both))
           /\ \E k \in DOMAIN line : SubSeq(line, k, k + Len(both) - 1) = both
           /\ Cardinality({k \in DOMAIN both : ~Blank(both, k)}) = Cardinality(text)
      BY <3>4, <3>6, <3>11, <3>12
    <3> QED
      BY <3>4, <3>13 DEF TrimHelpers, both
  <2> QED
    BY <2>2, <2>3
<1> QED
  BY <1>1, SpecLineInv, PTL

=============================================================================
