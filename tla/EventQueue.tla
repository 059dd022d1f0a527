----------------------------- MODULE EventQueue -----------------------------
(***************************************************************************)
(* event_queue<T> (src/src/common/event_queue.h) with its users: any       *)
(* number of producer threads that push, and the one consumer thread that  *)
(* runs the polling loop of game::loop (server) and main (client): read    *)
(* size(), and if it is not zero swap the contents out with empty(), then  *)
(* pop the private batch one element at a time.                            *)
(*                                                                         *)
(* std::queue is not thread safe, so its accesses are split: a push first  *)
(* loads the container (here: the whole contents, `view`) and then stores  *)
(* the extended one; the swap in empty() loads it into out_queue and then  *)
(* stores the empty one.  Only the mutex keeps these pairs together.       *)
(***************************************************************************)
EXTENDS Naturals, Sequences

CONSTANTS
  Producers,  \* threads that push (the server and the client have one each)
  Consumer,   \* the thread that polls
  Free,       \* value of `mutex` when nobody holds it
  MaxPush     \* bound: elements one producer pushes

ASSUME QueueAssumption ==
  /\ Consumer \notin Producers
  /\ Free \notin Producers \cup {Consumer}
  /\ MaxPush \in Nat

VARIABLES
  mutex,      \* mutex_: its holder, or Free
  queue,      \* queue_: the shared container
  pc,         \* control state of every thread
  view,       \* view[p]: the container as p's push loaded it
  next,       \* next[p]: pushes that p has completed
  batch,      \* the consumer's current_commands
  delivered   \* history: what the consumer popped, oldest first

vars == <<mutex, queue, pc, view, next, batch, delivered>>

Element(p, k) == [from |-> p, nr |-> k]
Elements == [from : Producers, nr : 1 .. MaxPush]

ProducerStates == {"outside", "loading", "storing"}
ConsumerStates == {"polling", "sizing", "nonempty", "loading", "storing", "popping"}

TypeOK ==
  /\ mutex \in Producers \cup {Consumer, Free}
  /\ queue \in Seq(Elements)
  /\ pc \in [Producers \cup {Consumer} -> ProducerStates \cup ConsumerStates]
  /\ \A p \in Producers : pc[p] \in ProducerStates
  /\ pc[Consumer] \in ConsumerStates
  /\ view \in [Producers -> Seq(Elements)]
  /\ next \in [Producers -> 0 .. MaxPush]
  /\ \A p \in Producers : pc[p] # "outside" => next[p] < MaxPush
  /\ batch \in Seq(Elements)
  /\ delivered \in Seq(Elements)

Init ==
  /\ mutex = Free
  /\ queue = <<>>
  /\ pc = [t \in Producers \cup {Consumer} |->
             IF t = Consumer THEN "polling" ELSE "outside"]
  /\ view = [p \in Producers |-> <<>>]
  /\ next = [p \in Producers |-> 0]
  /\ batch = <<>>
  /\ delivered = <<>>

Goto(t, from, to) ==
  /\ pc[t] = from
  /\ pc' = [pc EXCEPT ![t] = to]

\* std::lock_guard: constructed when the mutex is free, released at scope end.
Acquire(t) == mutex = Free /\ mutex' = t
Release == mutex' = Free

-----------------------------------------------------------------------------
(* push(T&&), called by a producer.                                        *)

\* A push without the lock_guard.
PushLockForgotten(p) ==
  /\ next[p] < MaxPush
  /\ Goto(p, "outside", "loading")
  /\ UNCHANGED <<mutex, queue, view, next, batch, delivered>>

PushLock(p) ==
  /\ next[p] < MaxPush
  /\ Goto(p, "outside", "loading")
  /\ Acquire(p)
  /\ UNCHANGED <<queue, view, next, batch, delivered>>

PushLoad(p) ==
  /\ Goto(p, "loading", "storing")
  /\ view' = [view EXCEPT ![p] = queue]
  /\ UNCHANGED <<mutex, queue, next, batch, delivered>>

\* A push whose element is built after the count moved on.
PushStoreLate(p) ==
  /\ Goto(p, "storing", "outside")
  /\ next' = [next EXCEPT ![p] = @ + 1]
  /\ queue' = Append(view[p], Element(p, next'[p] + 1))
  /\ Release
  /\ UNCHANGED <<view, batch, delivered>>

PushStore(p) ==
  /\ Goto(p, "storing", "outside")
  /\ queue' = Append(view[p], Element(p, next[p] + 1))
  /\ next' = [next EXCEPT ![p] = @ + 1]
  /\ Release
  /\ UNCHANGED <<view, batch, delivered>>

-----------------------------------------------------------------------------
(* The consumer's loop.  size() and empty() are two critical sections.     *)

SizeLock ==
  /\ Goto(Consumer, "polling", "sizing")
  /\ Acquire(Consumer)
  /\ UNCHANGED <<queue, view, next, batch, delivered>>

\* A poll that looks at the container only once it holds two elements.
SizeReadOffByOne ==
  /\ Goto(Consumer, "sizing", IF Len(queue) <= 1 THEN "popping" ELSE "nonempty")
  /\ Release
  /\ UNCHANGED <<queue, view, next, batch, delivered>>

\* size() returns; the caller compares the result with zero.
SizeRead ==
  /\ Goto(Consumer, "sizing", IF queue = <<>> THEN "popping" ELSE "nonempty")
  /\ Release
  /\ UNCHANGED <<queue, view, next, batch, delivered>>

\* empty() without its lock_guard.
EmptyLockForgotten ==
  /\ Goto(Consumer, "nonempty", "loading")
  /\ UNCHANGED <<mutex, queue, view, next, batch, delivered>>

EmptyLock ==
  /\ Goto(Consumer, "nonempty", "loading")
  /\ Acquire(Consumer)
  /\ UNCHANGED <<queue, view, next, batch, delivered>>

\* std::swap(queue_, out_queue), first half: the contents move out.
EmptyLoad ==
  /\ Goto(Consumer, "loading", "storing")
  /\ batch' = queue
  /\ UNCHANGED <<mutex, queue, view, next, delivered>>

\* A copy instead of a swap: the shared container keeps its contents.
EmptyStoreCopy ==
  /\ Goto(Consumer, "storing", "popping")
  /\ Release
  /\ UNCHANGED <<queue, view, next, batch, delivered>>

\* Second half: the fresh empty container moves in.
EmptyStore ==
  /\ Goto(Consumer, "storing", "popping")
  /\ queue' = <<>>
  /\ Release
  /\ UNCHANGED <<view, next, batch, delivered>>

\* front() and pop() on the private batch, then whatever the caller does.
Pop ==
  /\ pc[Consumer] = "popping"
  /\ batch # <<>>
  /\ delivered' = Append(delivered, Head(batch))
  /\ batch' = Tail(batch)
  /\ UNCHANGED <<mutex, queue, pc, view, next>>

\* The batch is used up: back to the top of the loop.
PollAgain ==
  /\ batch = <<>>
  /\ Goto(Consumer, "popping", "polling")
  /\ UNCHANGED <<mutex, queue, view, next, batch, delivered>>

-----------------------------------------------------------------------------
ProducerStep(p) == PushLock(p) \/ PushLoad(p) \/ PushStore(p)

ConsumerStep ==
  \/ SizeLock \/ SizeRead
  \/ EmptyLock \/ EmptyLoad \/ EmptyStore
  \/ Pop \/ PollAgain

Next == (\E p \in Producers : ProducerStep(p)) \/ ConsumerStep

\* Every thread keeps running, and the critical sections are finite.  Weak
\* fairness is enough for the consumer to get the mutex because the pushes are
\* finitely many (MaxPush each): after the last one the mutex stays free.
Fairness ==
  /\ \A p \in Producers : WF_vars(PushLoad(p) \/ PushStore(p))
  /\ WF_vars(ConsumerStep)

Spec == Init /\ [][Next]_vars
FairSpec == Spec /\ Fairness

-----------------------------------------------------------------------------
(* The threads that are between their acquire and their release.           *)
InCritical(t) == pc[t] \in {"loading", "storing", "sizing"}

\* The mutex protects: its holder and only its holder is in a critical section.
MutualExclusion ==
  \A t \in Producers \cup {Consumer} : InCritical(t) <=> mutex = t

\* No access races: what a thread loaded is still what is there when it stores
\* (push: lines 36-37, the swap in empty(): lines 42-44 of event_queue.h), and
\* a size() that was not zero is still right when empty() runs, because nobody
\* but the consumer takes elements out.
NoStaleAccess ==
  /\ \A p \in Producers : pc[p] = "storing" => view[p] = queue
  /\ pc[Consumer] = "storing" => batch = queue
  /\ pc[Consumer] \in {"nonempty", "loading", "storing"} => queue # <<>>
  /\ pc[Consumer] \in {"polling", "sizing", "nonempty", "loading"} => batch = <<>>

QInv == TypeOK /\ MutualExclusion /\ NoStaleAccess

-----------------------------------------------------------------------------
(* The refinement.  While the swap is half done its elements are in both   *)
(* containers; they count once.                                            *)
Pending == batch \o (IF pc[Consumer] = "storing" THEN <<>> ELSE queue)

Box == INSTANCE Mailbox WITH pending <- Pending

\* Nothing is lost, duplicated or reordered between push and pop.
ImplementsMailbox == Box!Safety

\* Every element pushed is popped in the end, however producers and consumer
\* interleave.
ImplementsFairMailbox == Box!Spec

=============================================================================
