--------------------------- MODULE QuizzSystemProofs ---------------------------
(***************************************************************************)
(* Proofs about QuizzSystem, for any players, answers and durations.       *)
(***************************************************************************)
EXTENDS QuizzSystem, SequenceTheorems, TLAPS

USE QuizzAssumption DEF QuizzAssumption

\* No submission is of a session to come; without it a new session could begin
\* with answers given to it in advance.
QuizzInv ==
  /\ TypeOK
  /\ \A i \in DOMAIN submissions : submissions[i].session <= session
  /\ FirstAnswersOfSession

LEMMA InitQuizz == Init => QuizzInv
<1> SUFFICES ASSUME Init PROVE QuizzInv
  OBVIOUS
<1>1. DOMAIN answers = {} /\ DOMAIN submissions = {}
  BY DEF Init
<1>2. <<>> \in Seq(Submissions) /\ <<>> \in Seq(Nat)
  BY EmptySeq
<1> QED
  BY <1>1, <1>2 DEF Init, QuizzInv, TypeOK, FirstAnswersOfSession

LEMMA SubmitQuizz ==
  ASSUME QuizzInv, NEW p \in Players, NEW a \in Answers, submit_answer(p, a)
  PROVE  QuizzInv'
<1> DEFINE s == [session |-> session, from |-> p, answer |-> a]
<1>1. s \in Submissions /\ submissions \in Seq(Submissions)
  BY DEF QuizzInv, TypeOK, Submissions
<1>2. /\ submissions' = Append(submissions, s)
      /\ answers' = [q \in DOMAIN answers \cup {p} |->
                       IF q \in DOMAIN answers THEN answers[q] ELSE a]
      /\ UNCHANGED <<current_session_dt, session, elapsed, lasted>>
  BY DEF submit_answer, Record
<1>3. PICK n \in Nat : n = Len(submissions) + 1
  BY <1>1, LenProperties
<1>4. /\ submissions' \in Seq(Submissions)
      /\ n \in Nat \ {0}
      /\ DOMAIN submissions = 1 .. n - 1 /\ DOMAIN submissions' = 1 .. n
      /\ \A i \in 1 .. n - 1 : submissions'[i] = submissions[i]
      /\ submissions'[n] = s
  <2> HIDE DEF s
  <2> QED
    BY <1>1, <1>2, <1>3, LenProperties, AppendProperties
<1>5. TypeOK'
  BY <1>2, <1>4 DEF QuizzInv, TypeOK
<1>6. \A i \in DOMAIN submissions' : submissions'[i].session <= session'
  BY <1>2, <1>4 DEF QuizzInv, TypeOK
<1>7. /\ submissions'[n].session = session /\ submissions'[n].from = p
      /\ submissions'[n].answer = a
  BY <1>4
<1> HIDE DEF s
<1>8. /\ \A q \in Players, i \in 1 .. n - 1 : InSession(i, q)' <=> InSession(i, q)
      /\ \A q \in Players : InSession(n, q)' <=> q = p
  <2>1. session' = session
    BY <1>2
  <2>2. ASSUME NEW q \in Players, NEW i \in 1 .. n - 1
        PROVE  InSession(i, q)' <=> InSession(i, q)
    <3>1. submissions'[i] = submissions[i]
      BY <1>4
    <3> QED
      BY <2>1, <3>1 DEF InSession
  <2>3. ASSUME NEW q \in Players
        PROVE  InSession(n, q)' <=> q = p
    BY <1>7, <2>1 DEF InSession
  <2> QED
    BY <2>2, <2>3
<1>9. ASSUME NEW q \in Players
      PROVE  q \in DOMAIN answers' <=> \E i \in DOMAIN submissions' : InSession(i, q)'
  <2>1. DOMAIN answers' = DOMAIN answers \cup {p}
    BY <1>2
  <2>2. q \in DOMAIN answers <=> \E i \in 1 .. n - 1 : InSession(i, q)'
    BY <1>4, <1>8 DEF QuizzInv, FirstAnswersOfSession
  <2>3. \A i : i \in 1 .. n <=> i \in 1 .. n - 1 \/ i = n
    BY <1>4
  <2>4. (\E i \in 1 .. n : InSession(i, q)')
          <=> (\E i \in 1 .. n - 1 : InSession(i, q)') \/ InSession(n, q)'
    BY <2>3
  <2> QED
    BY <1>4, <1>8, <2>1, <2>2, <2>4
<1>10. ASSUME NEW q \in DOMAIN answers'
      PROVE  \E i \in DOMAIN submissions' :
               /\ InSession(i, q)' /\ submissions'[i].answer = answers'[q]
               /\ \A j \in 1 .. i - 1 : ~InSession(j, q)'
  <2>0. q \in Players
    BY <1>2 DEF QuizzInv, TypeOK
  <2>1. CASE q \in DOMAIN answers
    <3>1. PICK i \in DOMAIN submissions :
            /\ InSession(i, q) /\ submissions[i].answer = answers[q]
            /\ \A j \in 1 .. i - 1 : ~InSession(j, q)
      BY <2>1 DEF QuizzInv, FirstAnswersOfSession
    <3>2. answers'[q] = answers[q]
      BY <1>2, <2>1
    <3>3. i \in DOMAIN submissions' /\ \A j \in 1 .. i - 1 : j \in 1 .. n - 1
      BY <1>4
    <3>4. /\ InSession(i, q)' /\ submissions'[i].answer = answers'[q]
          /\ \A j \in 1 .. i - 1 : ~InSession(j, q)'
      BY <1>4, <1>8, <2>0, <3>1, <3>2, <3>3
    <3> QED
      BY <3>3, <3>4
  <2>2. CASE q \notin DOMAIN answers
    <3>1. q = p /\ answers'[q] = a
      BY <1>2, <2>2
    <3>2. \A j \in 1 .. n - 1 : ~InSession(j, q)
      BY <1>4, <2>0, <2>2 DEF QuizzInv, FirstAnswersOfSession
    <3>3. /\ n \in DOMAIN submissions'
          /\ InSession(n, q)' /\ submissions'[n].answer = answers'[q]
          /\ \A j \in 1 .. n - 1 : ~InSession(j, q)'
      BY <1>4, <1>7, <1>8, <2>0, <3>1, <3>2
    <3> QED
      BY <3>3
  <2> QED
    BY <2>1, <2>2
<1> QED
  BY <1>5, <1>6, <1>9, <1>10 DEF QuizzInv, FirstAnswersOfSession

LEMMA UpdateQuizz ==
  ASSUME QuizzInv, NEW dt \in 1 .. MaxStep, update(dt)
  PROVE  QuizzInv'
<1>1. dt \in Nat /\ current_session_dt + dt \in Nat /\ elapsed + dt \in Nat
  BY DEF QuizzInv, TypeOK
<1>2. CASE update_running(dt)
  BY <1>1, <1>2 DEF update_running, Tick, QuizzInv, TypeOK, FirstAnswersOfSession, InSession
<1>3. CASE update_closing(dt)
  <2>1. /\ submissions' = submissions /\ answers' = <<>> /\ session' = session + 1
        /\ current_session_dt' = current_session_dt + dt
        /\ elapsed' = 0 /\ lasted' = Append(lasted, elapsed + dt)
    BY <1>3 DEF update_closing, Tick, NextSession
  <2>2. DOMAIN answers' = {}
    BY <2>1
  <2>3. lasted' \in Seq(Nat)
    BY <1>1, <2>1, AppendProperties DEF QuizzInv, TypeOK
  <2>4. TypeOK'
    BY <1>1, <2>1, <2>2, <2>3 DEF QuizzInv, TypeOK
  <2>5. \A i \in DOMAIN submissions :
          submissions[i].session \in Nat /\ submissions[i].session <= session
    <3>1. submissions \in Seq(Submissions) /\ DOMAIN submissions = 1 .. Len(submissions)
      BY LenProperties DEF QuizzInv, TypeOK
    <3>2. \A i \in DOMAIN submissions : submissions[i] \in Submissions
      BY <3>1, ElementOfSeq
    <3> QED
      BY <3>2 DEF QuizzInv, Submissions
  <2>6. \A i \in DOMAIN submissions, p \in Players : ~InSession(i, p)'
    BY <2>1, <2>5 DEF InSession, QuizzInv, TypeOK
  <2> QED
    BY <2>1, <2>2, <2>4, <2>5, <2>6 DEF QuizzInv, TypeOK, FirstAnswersOfSession
<1> QED
  BY <1>2, <1>3 DEF update

LEMMA SpecQuizz == Spec => []QuizzInv
<1>1. QuizzInv /\ [Next]_vars => QuizzInv'
  <2> SUFFICES ASSUME QuizzInv, [Next]_vars PROVE QuizzInv'
    OBVIOUS
  <2>1. CASE UNCHANGED vars
    BY <2>1 DEF vars, QuizzInv, TypeOK, FirstAnswersOfSession, InSession
  <2> QED
    BY <2>1, SubmitQuizz, UpdateQuizz DEF Next
<1> QED
  BY <1>1, InitQuizz, PTL DEF Spec

\* The quiz's variables keep their types.
THEOREM QuizzTypeCorrect == Spec => []TypeOK
BY SpecQuizz, PTL DEF QuizzInv

\* quizz_system.cc: emplace and clear together leave in answers_ exactly the
\* first answer of every player who answered in the current session.
THEOREM FirstAnswersCorrect == Spec => []FirstAnswersOfSession
BY SpecQuizz, PTL DEF QuizzInv

=============================================================================
