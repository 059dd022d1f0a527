----------------------------- MODULE QuizzSystem -----------------------------
(***************************************************************************)
(* QuizzSystem (src/src/server/quizz_system.h/.cc): timed sessions of one  *)
(* question each, and the players' answers to it.  game::loop constructs   *)
(* one and calls neither operation yet, so the calls are modelled in any   *)
(* order.  init_session always asks the same question; what counts here is *)
(* which session an answer was given to.  Time is in units, of which       *)
(* SESSION_DURATION is a constant number (5000 ms in the code).            *)
(***************************************************************************)
EXTENDS Naturals, Sequences

CONSTANTS
  Players,
  Answers,           \* the texts players may submit
  SESSION_DURATION,  \* time units after which a session is to be closed
  MaxStep,           \* bound: the longest dt passed to update
  MaxTime,           \* bound: when the calls of update end
  MaxCalls           \* bound: calls of submit_answer

ASSUME QuizzAssumption ==
  /\ SESSION_DURATION \in Nat \ {0}
  /\ MaxStep \in Nat
  /\ MaxTime \in Nat
  /\ MaxCalls \in Nat

VARIABLES
  current_session_dt,  \* current_session_dt_
  answers,             \* answers_: a function on the players who answered
  session,             \* history: sessions begun so far (init_session calls)
  submissions,         \* history: the calls of submit_answer
  elapsed,             \* history: time since the current session began
  lasted               \* history: how long each closed session lasted

vars == <<current_session_dt, answers, session, submissions, elapsed, lasted>>

Submissions == [session : Nat, from : Players, answer : Answers]

TypeOK ==
  /\ current_session_dt \in Nat
  /\ DOMAIN answers \subseteq Players
  /\ \A p \in DOMAIN answers : answers[p] \in Answers
  /\ session \in Nat \ {0}
  /\ submissions \in Seq(Submissions)
  /\ elapsed \in Nat
  /\ lasted \in Seq(Nat)

\* A constructor that begins no session.
InitNoSession ==
  /\ current_session_dt = 0
  /\ answers = <<>>
  /\ session = 0
  /\ submissions = <<>>
  /\ elapsed = 0
  /\ lasted = <<>>

\* The constructor calls init_session.
Init ==
  /\ current_session_dt = 0
  /\ answers = <<>>
  /\ session = 1
  /\ submissions = <<>>
  /\ elapsed = 0
  /\ lasted = <<>>

-----------------------------------------------------------------------------
Record(from, answer) ==
  submissions' = Append(submissions,
                        [session |-> session, from |-> from, answer |-> answer])

\* An answer that replaces the one before it.
submit_answer_overwriting(from, answer) ==
  /\ Len(submissions) < MaxCalls
  /\ Record(from, answer)
  /\ answers' = [p \in DOMAIN answers \cup {from} |->
                   IF p = from THEN answer ELSE answers[p]]
  /\ UNCHANGED <<current_session_dt, session, elapsed, lasted>>

\* unordered_map::emplace: a key that is there keeps its value.
submit_answer(from, answer) ==
  /\ Len(submissions) < MaxCalls
  /\ Record(from, answer)
  /\ answers' = [p \in DOMAIN answers \cup {from} |->
                   IF p \in DOMAIN answers THEN answers[p] ELSE answer]
  /\ UNCHANGED <<current_session_dt, session, elapsed, lasted>>

Tick(dt) ==
  /\ current_session_dt + dt <= MaxTime
  /\ current_session_dt' = current_session_dt + dt
  /\ UNCHANGED submissions

NextSession(dt) ==
  /\ session' = session + 1
  /\ elapsed' = 0
  /\ lasted' = Append(lasted, elapsed + dt)

\* update before the end of the session.
update_running(dt) ==
  /\ Tick(dt)
  /\ current_session_dt' < SESSION_DURATION
  /\ elapsed' = elapsed + dt
  /\ UNCHANGED <<answers, session, lasted>>

\* update at the end of the session: the loop over the winners has no effect;
\* the answers are cleared, init_session begins the next one, and the clock
\* runs on.
update_closing(dt) ==
  /\ Tick(dt)
  /\ current_session_dt' >= SESSION_DURATION
  /\ NextSession(dt)
  /\ answers' = <<>>

update(dt) == update_running(dt) \/ update_closing(dt)

Next ==
  \/ \E p \in Players, a \in Answers : submit_answer(p, a)
  \/ \E dt \in 1 .. MaxStep : update(dt)

Spec == Init /\ [][Next]_vars

-----------------------------------------------------------------------------
InSession(i, p) == submissions[i].session = session /\ submissions[i].from = p

\* The answers that are judged when the session closes are, for each player who
\* gave one, the first that the player gave in this very session.
FirstAnswersOfSession ==
  /\ \A p \in Players :
       p \in DOMAIN answers <=> \E i \in DOMAIN submissions : InSession(i, p)
  /\ \A p \in DOMAIN answers : \E i \in DOMAIN submissions :
       /\ InSession(i, p) /\ submissions[i].answer = answers[p]
       /\ \A j \in 1 .. i - 1 : ~InSession(j, p)

\* A session lasts SESSION_DURATION at least before its answers are judged and
\* the next question is asked (game.h:22, "Will finish after timeout.").
SessionLasts == \A i \in DOMAIN lasted : lasted[i] >= SESSION_DURATION

=============================================================================
