------------------------------ MODULE Mailbox ------------------------------
(***************************************************************************)
(* What event_queue promises its users (src/src/common/event_queue.h):     *)
(* a channel from many producer threads to one consumer.  An element that  *)
(* was put is handed over exactly once, and in the order of the puts.      *)
(* Nothing here mentions the mutex, the size() test or the batches: they   *)
(* belong to EventQueue, which implements this specification.              *)
(***************************************************************************)
EXTENDS Naturals, Sequences

CONSTANTS
  Producers,  \* threads that push
  MaxPush     \* bound: elements one producer pushes

VARIABLES
  next,       \* next[p]: elements that p has put so far
  pending,    \* put and not yet handed to the consumer, oldest first
  delivered   \* what the consumer got, oldest first

mvars == <<next, pending, delivered>>

\* The k-th element of producer p: its identity is all that matters.
Element(p, k) == [from |-> p, nr |-> k]

Init ==
  /\ next = [p \in Producers |-> 0]
  /\ pending = <<>>
  /\ delivered = <<>>

Put(p) ==
  /\ next[p] < MaxPush
  /\ next' = [next EXCEPT ![p] = @ + 1]
  /\ pending' = Append(pending, Element(p, next[p] + 1))
  /\ UNCHANGED delivered

Get ==
  /\ pending # <<>>
  /\ delivered' = Append(delivered, Head(pending))
  /\ pending' = Tail(pending)
  /\ UNCHANGED next

Next == (\E p \in Producers : Put(p)) \/ Get

Safety == Init /\ [][Next]_mvars

\* The consumer never stops asking; nobody is obliged to put.
Spec == Safety /\ WF_mvars(Get)

=============================================================================
