--------------------------- MODULE EventQueueProofs ---------------------------
(***************************************************************************)
(* Proofs about EventQueue, for any set of producers and any MaxPush.      *)
(* QInv is inductive: the mutex names the thread in a critical section,    *)
(* therefore what a thread loaded stays what is stored, therefore a push   *)
(* is a Put of the mailbox, and a swap changes nothing that counts.        *)
(***************************************************************************)
EXTENDS EventQueue, SequenceTheorems, TLAPS

USE QueueAssumption DEF QueueAssumption

LEMMA ElementIsElement ==
  ASSUME NEW p \in Producers, NEW k \in 1 .. MaxPush
  PROVE  Element(p, k) \in Elements
BY DEF Element, Elements

LEMMA InitQInv == Init => QInv
<1> SUFFICES ASSUME Init PROVE QInv
  OBVIOUS
<1>1. TypeOK
  <2>1. <<>> \in Seq(Elements)
    BY EmptySeq
  <2>2. \A p \in Producers : pc[p] = "outside"
    BY DEF Init
  <2> QED
    BY <2>1, <2>2 DEF Init, TypeOK, ProducerStates, ConsumerStates
<1>2. MutualExclusion
  BY DEF Init, MutualExclusion, InCritical
<1>3. NoStaleAccess
  BY DEF Init, NoStaleAccess
<1> QED
  BY <1>1, <1>2, <1>3 DEF QInv

\* The bound on the pushes leaves room for the one that is under way.
LEMMA RoomForPush ==
  ASSUME TypeOK, NEW p \in Producers, pc[p] = "storing"
  PROVE  next[p] + 1 \in 1 .. MaxPush
<1>1. next[p] \in 0 .. MaxPush
  BY DEF TypeOK
<1>2. next[p] < MaxPush
  BY DEF TypeOK
<1> QED
  BY <1>1, <1>2

-----------------------------------------------------------------------------
(* A step of one producer.                                                 *)
LEMMA ProducerQInv ==
  ASSUME QInv, NEW p \in Producers, ProducerStep(p)
  PROVE  QInv'
<1> USE DEF QInv, TypeOK, MutualExclusion, NoStaleAccess, InCritical, Goto,
            ProducerStates, ConsumerStates
<1>1. CASE PushLock(p)
  BY <1>1 DEF PushLock, Acquire
<1>2. CASE PushLoad(p)
  BY <1>2 DEF PushLoad
<1>3. CASE PushStore(p)
  <2>1. next[p] + 1 \in 1 .. MaxPush
    BY <1>3, RoomForPush DEF PushStore
  <2>2. queue' \in Seq(Elements) /\ queue' # <<>>
    <3>1. Element(p, next[p] + 1) \in Elements
      BY <2>1, ElementIsElement
    <3>2. queue' = Append(view[p], Element(p, next[p] + 1)) /\ view[p] \in Seq(Elements)
      BY <1>3 DEF PushStore
    <3> QED
      BY <3>1, <3>2, AppendProperties
  <2>3. TypeOK'
    BY <1>3, <2>1, <2>2 DEF PushStore, Release
  <2>4. MutualExclusion'
    BY <1>3 DEF PushStore, Release
  <2>5. NoStaleAccess'
    BY <1>3, <2>2 DEF PushStore, Release
  <2> QED
    BY <2>3, <2>4, <2>5
<1> QED
  BY <1>1, <1>2, <1>3 DEF ProducerStep

(* A step of the consumer.                                                 *)
LEMMA ConsumerQInv ==
  ASSUME QInv, ConsumerStep
  PROVE  QInv'
<1> USE DEF QInv, TypeOK, MutualExclusion, NoStaleAccess, InCritical, Goto,
            ProducerStates, ConsumerStates
<1>1. CASE SizeLock
  BY <1>1 DEF SizeLock, Acquire
<1>2. CASE SizeRead
  BY <1>2 DEF SizeRead, Release
<1>3. CASE EmptyLock
  BY <1>3 DEF EmptyLock, Acquire
<1>4. CASE EmptyLoad
  BY <1>4 DEF EmptyLoad
<1>5. CASE EmptyStore
  BY <1>5 DEF EmptyStore, Release
<1>6. CASE Pop
  <2>1. Head(batch) \in Elements /\ Tail(batch) \in Seq(Elements)
    BY <1>6, HeadTailProperties DEF Pop
  <2>2. delivered' \in Seq(Elements)
    BY <1>6, <2>1, AppendProperties DEF Pop
  <2> QED
    BY <1>6, <2>1, <2>2 DEF Pop
<1>7. CASE PollAgain
  BY <1>7 DEF PollAgain
<1> QED
  BY <1>1, <1>2, <1>3, <1>4, <1>5, <1>6, <1>7 DEF ConsumerStep

LEMMA NextQInv == QInv /\ [Next]_vars => QInv'
<1> SUFFICES ASSUME QInv, [Next]_vars
             PROVE  QInv'
  OBVIOUS
<1>1. CASE \E p \in Producers : ProducerStep(p)
  BY <1>1, ProducerQInv
<1>2. CASE ConsumerStep
  BY <1>2, ConsumerQInv
<1>3. CASE UNCHANGED vars
  BY <1>3 DEF QInv, TypeOK, MutualExclusion, NoStaleAccess, InCritical, vars
<1> QED
  BY <1>1, <1>2, <1>3 DEF Next

LEMMA SpecQInv == Spec => []QInv
BY InitQInv, NextQInv, PTL DEF Spec

\* The event queue's variables keep their types.
THEOREM TypeCorrect == Spec => []TypeOK
BY SpecQInv, PTL DEF QInv

\* event_queue.h: at most one thread is between lock and unlock, and it is the
\* mutex's holder.
THEOREM MutexProtects == Spec => []MutualExclusion
BY SpecQInv, PTL DEF QInv

\* event_queue.h: no push and no swap stores over a container it did not load,
\* and size() # 0 still holds when empty() runs.
THEOREM AccessesAreFresh == Spec => []NoStaleAccess
BY SpecQInv, PTL DEF QInv

-----------------------------------------------------------------------------
(* The refinement.                                                         *)

LEMMA InitBox == Init => Box!Init
<1> SUFFICES ASSUME Init PROVE Box!Init
  OBVIOUS
<1>1. Pending = <<>>
  BY ConcatEmptySeq DEF Init, Pending
<1> QED
  BY <1>1 DEF Init, Box!Init

LEMMA ProducerBox ==
  ASSUME QInv, NEW p \in Producers, ProducerStep(p)
  PROVE  [Box!Next]_(Box!mvars)
<1> USE DEF QInv, TypeOK, MutualExclusion, NoStaleAccess, InCritical, Goto,
            ProducerStates, ConsumerStates
<1>1. CASE PushLock(p)
  BY <1>1 DEF PushLock, Pending, Box!mvars
<1>2. CASE PushLoad(p)
  BY <1>2 DEF PushLoad, Pending, Box!mvars
<1>3. CASE PushStore(p)
  <2> DEFINE e == Element(p, next[p] + 1)
  <2>1. next[p] + 1 \in 1 .. MaxPush /\ e \in Elements
    BY <1>3, RoomForPush, ElementIsElement DEF PushStore
  <2>2. pc[Consumer] # "storing" /\ pc'[Consumer] # "storing"
    BY <1>3 DEF PushStore
  <2>3. queue' = Append(queue, e)
    BY <1>3 DEF PushStore
  <2>4. batch' = batch /\ batch \in Seq(Elements) /\ queue \in Seq(Elements)
    BY <1>3 DEF PushStore
  <2>5. Pending = batch \o queue /\ Pending' = batch \o Append(queue, e)
    BY <2>2, <2>3, <2>4 DEF Pending
  <2>6. Pending' = Append(Pending, e)
    <3>1. /\ batch \in Seq(Elements) /\ queue \in Seq(Elements) /\ e \in Elements
          /\ Pending = batch \o queue /\ Pending' = batch \o Append(queue, e)
      BY <2>1, <2>4, <2>5
    <3> HIDE DEF e, QInv, TypeOK, MutualExclusion, NoStaleAccess
    <3>2. batch \o Append(queue, e) = Append(batch \o queue, e)
      BY <3>1
    <3> QED
      BY <3>1, <3>2
  <2>7. Box!Put(p)
    BY <1>3, <2>1, <2>6 DEF PushStore, Box!Put, Element, Box!Element
  <2> QED
    BY <2>7 DEF Box!Next
<1> QED
  BY <1>1, <1>2, <1>3 DEF ProducerStep

LEMMA ConsumerBox ==
  ASSUME QInv, ConsumerStep
  PROVE  [Box!Next]_(Box!mvars)
<1> USE DEF QInv, TypeOK, MutualExclusion, NoStaleAccess, InCritical, Goto,
            ProducerStates, ConsumerStates
<1>1. CASE SizeLock
  BY <1>1 DEF SizeLock, Pending, Box!mvars
<1>2. CASE SizeRead
  BY <1>2 DEF SizeRead, Pending, Box!mvars
<1>3. CASE EmptyLock
  BY <1>3 DEF EmptyLock, Pending, Box!mvars
<1>4. CASE EmptyLoad
  <2>1. pc[Consumer] = "loading" /\ pc'[Consumer] = "storing"
    BY <1>4 DEF EmptyLoad
  <2>2. Pending = queue
    BY <2>1, ConcatEmptySeq DEF Pending
  <2>3. Pending' = queue
    BY <1>4, <2>1, ConcatEmptySeq DEF EmptyLoad, Pending
  <2> QED
    BY <1>4, <2>2, <2>3 DEF EmptyLoad, Box!mvars
<1>5. CASE EmptyStore
  <2>1. Pending = batch \o <<>> /\ Pending' = batch \o <<>>
    BY <1>5 DEF EmptyStore, Pending
  <2> QED
    BY <1>5, <2>1 DEF EmptyStore, Box!mvars
<1>6. CASE Pop
  <2>1. pc[Consumer] = "popping" /\ pc' = pc /\ queue' = queue /\ batch' = Tail(batch)
    BY <1>6 DEF Pop
  <2>2. Pending = batch \o queue /\ Pending' = Tail(batch) \o queue
    BY <2>1 DEF Pending
  <2>3. batch # <<>> /\ batch \in Seq(Elements) /\ queue \in Seq(Elements)
    BY <1>6 DEF Pop
  <2>4. /\ Pending # <<>>
        /\ Head(Pending) = Head(batch)
        /\ Pending' = Tail(Pending)
    BY <2>2, <2>3
  <2>5. Box!Get
    BY <1>6, <2>4 DEF Pop, Box!Get
  <2> QED
    BY <2>5 DEF Box!Next
<1>7. CASE PollAgain
  BY <1>7 DEF PollAgain, Pending, Box!mvars
<1> QED
  BY <1>1, <1>2, <1>3, <1>4, <1>5, <1>6, <1>7 DEF ConsumerStep

\* event_queue.h with its users implements the mailbox: every element that was
\* pushed is handed to the consumer at most once, in the order of the pushes,
\* and nothing else is.
THEOREM Refinement == Spec => ImplementsMailbox
<1>1. QInv /\ [Next]_vars => [Box!Next]_(Box!mvars)
  <2> SUFFICES ASSUME QInv, [Next]_vars
               PROVE  [Box!Next]_(Box!mvars)
    OBVIOUS
  <2>1. CASE \E p \in Producers : ProducerStep(p)
    BY <2>1, ProducerBox
  <2>2. CASE ConsumerStep
    BY <2>2, ConsumerBox
  <2>3. CASE UNCHANGED vars
    BY <2>3 DEF vars, Pending, Box!mvars
  <2> QED
    BY <2>1, <2>2, <2>3 DEF Next
<1> QED
  BY <1>1, InitBox, SpecQInv, PTL DEF Spec, ImplementsMailbox, Box!Safety

=============================================================================
