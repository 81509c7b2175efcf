------------------------- MODULE BlockingDequeProofs -------------------------
(***************************************************************************)
(* Proofs about ConcurrentBlockingDeque for any number of threads and of   *)
(* calls: it is a first-in first-out queue, it loses no wakeup, and it     *)
(* implements FifoQueue.                                                   *)
(*                                                                         *)
(* The inductive invariant IInv joins the four invariants of BlockingDeque.*)
(* Fifo alone is not inductive: pop_front must remove the element that     *)
(* front returned, which is what LockDiscipline says.  NoLostWakeup needs  *)
(* it too: a consumer falls asleep only if the deque is empty at a moment  *)
(* when no producer stands between push_back and notify_one.               *)
(***************************************************************************)
EXTENDS BlockingDeque, TLAPS, SequenceTheorems

IInv == TypeOK /\ LockDiscipline /\ Fifo /\ NoLostWakeup

-----------------------------------------------------------------------------
(* Sequences                                                               *)

\* Taking the head of the deque and appending to the deque are the only updates;
\* these two lemmas say what they do to the elements.
LEMMA TailElements ==
  ASSUME NEW S, NEW s \in Seq(S), s # <<>>
  PROVE  /\ Head(s) \in S
         /\ Head(s) = s[1]
         /\ Tail(s) \in Seq(S)
         /\ Len(s) \in Nat \ {0}
         /\ Len(Tail(s)) = Len(s) - 1
         /\ \A i \in 1..Len(s) - 1 : Tail(s)[i] = s[i + 1]
  BY HeadTailProperties, LenProperties, EmptySeq

LEMMA AppendElements ==
  ASSUME NEW S, NEW s \in Seq(S), NEW e \in S
  PROVE  /\ Append(s, e) \in Seq(S)
         /\ Append(s, e) # <<>>
         /\ Len(Append(s, e)) = Len(s) + 1
         /\ Len(s) \in Nat
         /\ \A i \in 1..Len(s) : Append(s, e)[i] = s[i]
         /\ Append(s, e)[Len(s) + 1] = e
  BY AppendProperties, LenProperties

-----------------------------------------------------------------------------
(* Typing                                                                  *)

\* A call of push_back that is under way inserts a legitimate element.
LEMMA CurrentIsItem ==
  ASSUME TypeOK, LockDiscipline, NEW p \in Producers, pc[p] # "outside"
  PROVE  Current(p) \in Item
  BY MaxPushAssumption DEF TypeOK, LockDiscipline, Current, Item

LEMMA InitTypeOK == Init => TypeOK
  BY MaxPushAssumption, EmptySeq, ThreadsAssumption
     DEF Init, TypeOK, Threads, PushPc, PollPc

LEMMA StepTypeOK ==
  ASSUME TypeOK, LockDiscipline, [Next]_vars
  PROVE  TypeOK'
<1> USE ThreadsAssumption, MaxPushAssumption DEF TypeOK, Threads, PushPc, PollPc, Goto
<1>1. ASSUME NEW p \in Producers, PushLock(p)
      PROVE  TypeOK'
  BY <1>1 DEF PushLock, Acquire
<1>2. ASSUME NEW p \in Producers, PushAppend(p)
      PROVE  TypeOK'
  <2>1. Current(p) \in Item
    BY <1>2, CurrentIsItem DEF PushAppend
  <2>2. d' \in Seq(Item) /\ pushed' \in Seq(Item)
    BY <1>2, <2>1, AppendElements DEF PushAppend
  <2> QED
    BY <1>2, <2>2 DEF PushAppend
<1>3. ASSUME NEW p \in Producers, PushNotify(p)
      PROVE  TypeOK'
  BY <1>3 DEF PushNotify
<1>4. ASSUME NEW p \in Producers, PushUnlock(p)
      PROVE  TypeOK'
  BY <1>4 DEF PushUnlock, Release
<1>5. ASSUME NEW c \in Consumers, PollLock(c)
      PROVE  TypeOK'
  BY <1>5 DEF PollLock, Acquire
<1>6. ASSUME NEW c \in Consumers, PollWait(c)
      PROVE  TypeOK'
  BY <1>6 DEF PollWait, Release
<1>7. ASSUME NEW c \in Consumers, SpuriousWake(c)
      PROVE  TypeOK'
  BY <1>7 DEF SpuriousWake
<1>8. ASSUME NEW c \in Consumers, PollRelock(c)
      PROVE  TypeOK'
  BY <1>8 DEF PollRelock, Acquire
<1>9. ASSUME NEW c \in Consumers, PollNotEmpty(c)
      PROVE  TypeOK'
  BY <1>9 DEF PollNotEmpty
<1>10. ASSUME NEW c \in Consumers, PollFront(c)
       PROVE  TypeOK'
  <2>1. Head(d) \in Item
    BY <1>10, TailElements DEF PollFront, LockDiscipline
  <2> QED
    BY <1>10, <2>1 DEF PollFront
<1>11. ASSUME NEW c \in Consumers, PollPop(c)
       PROVE  TypeOK'
  <2>1. d # <<>> /\ result[c] = Head(d)
    BY <1>11 DEF PollPop, LockDiscipline
  <2>2. Tail(d) \in Seq(Item) /\ <<c, result[c]>> \in Consumers \X Item
    BY <2>1, TailElements
  <2>3. polled' \in Seq(Consumers \X Item)
    BY <1>11, <2>2, AppendElements DEF PollPop
  <2> QED
    BY <1>11, <2>2, <2>3 DEF PollPop
<1>12. ASSUME NEW c \in Consumers, PollUnlock(c)
       PROVE  TypeOK'
  BY <1>12 DEF PollUnlock, Release
<1>13. CASE UNCHANGED vars
  BY <1>13 DEF vars
<1> QED
  BY <1>1, <1>2, <1>3, <1>4, <1>5, <1>6, <1>7, <1>8, <1>9, <1>10, <1>11, <1>12,
     <1>13 DEF Next, PushBack, BlockPoll

-----------------------------------------------------------------------------
(* The lock discipline                                                     *)

LEMMA InitLockDiscipline == Init => LockDiscipline
  BY ThreadsAssumption DEF Init, LockDiscipline, Threads

LEMMA StepLockDiscipline ==
  ASSUME TypeOK, LockDiscipline, [Next]_vars
  PROVE  LockDiscipline'
<1> USE ThreadsAssumption, MaxPushAssumption
    DEF TypeOK, LockDiscipline, Threads, PushPc, PollPc, Goto
<1>1. ASSUME NEW p \in Producers, PushLock(p)
      PROVE  LockDiscipline'
  BY <1>1 DEF PushLock, Acquire
<1>2. ASSUME NEW p \in Producers, PushAppend(p)
      PROVE  LockDiscipline'
  <2>1. \A c \in Consumers : pc[c] \notin {"take", "pop"}
    BY <1>2 DEF PushAppend
  <2> QED
    BY <1>2, <2>1 DEF PushAppend
<1>3. ASSUME NEW p \in Producers, PushNotify(p)
      PROVE  LockDiscipline'
  BY <1>3 DEF PushNotify
<1>4. ASSUME NEW p \in Producers, PushUnlock(p)
      PROVE  LockDiscipline'
  BY <1>4 DEF PushUnlock, Release
<1>5. ASSUME NEW c \in Consumers, PollLock(c)
      PROVE  LockDiscipline'
  BY <1>5 DEF PollLock, Acquire
<1>6. ASSUME NEW c \in Consumers, PollWait(c)
      PROVE  LockDiscipline'
  BY <1>6 DEF PollWait, Release
<1>7. ASSUME NEW c \in Consumers, SpuriousWake(c)
      PROVE  LockDiscipline'
  BY <1>7 DEF SpuriousWake
<1>8. ASSUME NEW c \in Consumers, PollRelock(c)
      PROVE  LockDiscipline'
  BY <1>8 DEF PollRelock, Acquire
<1>9. ASSUME NEW c \in Consumers, PollNotEmpty(c)
      PROVE  LockDiscipline'
  BY <1>9 DEF PollNotEmpty
<1>10. ASSUME NEW c \in Consumers, PollFront(c)
       PROVE  LockDiscipline'
  BY <1>10 DEF PollFront
<1>11. ASSUME NEW c \in Consumers, PollPop(c)
       PROVE  LockDiscipline'
  <2>1. \A b \in Consumers : pc[b] \in {"take", "pop"} => b = c
    BY <1>11 DEF PollPop
  <2> QED
    BY <1>11, <2>1 DEF PollPop
<1>12. ASSUME NEW c \in Consumers, PollUnlock(c)
       PROVE  LockDiscipline'
  BY <1>12 DEF PollUnlock, Release
<1>13. CASE UNCHANGED vars
  BY <1>13 DEF vars
<1> QED
  BY <1>1, <1>2, <1>3, <1>4, <1>5, <1>6, <1>7, <1>8, <1>9, <1>10, <1>11, <1>12,
     <1>13 DEF Next, PushBack, BlockPoll

-----------------------------------------------------------------------------
(* First in, first out                                                     *)

LEMMA InitFifo == Init => Fifo
  BY DEF Init, Fifo

\* Only d.push_back and d.pop_front touch the deque or the histories.
LEMMA StepFifo ==
  ASSUME TypeOK, LockDiscipline, Fifo, [Next]_vars
  PROVE  Fifo'
<1>1. ASSUME NEW p \in Producers, PushAppend(p)
      PROVE  Fifo'
  <2> DEFINE e == Current(p)
  <2>1. e \in Item
    BY <1>1, CurrentIsItem DEF PushAppend
  <2>2. d' = Append(d, e) /\ pushed' = Append(pushed, e) /\ polled' = polled
    BY <1>1 DEF PushAppend
  <2>3. d \in Seq(Item) /\ pushed \in Seq(Item) /\ polled \in Seq(Consumers \X Item)
    BY DEF TypeOK
  <2> HIDE DEF e
  <2>4. /\ Len(d') = Len(d) + 1 /\ Len(d) \in Nat
        /\ \A i \in 1..Len(d) : d'[i] = d[i]
        /\ d'[Len(d) + 1] = e
    BY <2>1, <2>2, <2>3, AppendElements
  <2>5. /\ Len(pushed') = Len(pushed) + 1 /\ Len(pushed) \in Nat
        /\ \A i \in 1..Len(pushed) : pushed'[i] = pushed[i]
        /\ pushed'[Len(pushed) + 1] = e
    BY <2>1, <2>2, <2>3, AppendElements
  <2>6. Len(polled) \in Nat
    BY <2>3, LenProperties
  <2>7. Len(pushed) = Len(polled) + Len(d)
    BY DEF Fifo
  <2>8. /\ Len(polled') = Len(polled)
        /\ Len(pushed') = Len(polled') + Len(d')
    BY <2>2, <2>4, <2>5, <2>6, <2>7
  <2>9. \A i \in 1..Len(polled') : polled'[i][2] = pushed'[i]
    BY <2>2, <2>4, <2>5, <2>6, <2>7 DEF Fifo
  <2>10. \A i \in 1..Len(d') : d'[i] = pushed'[Len(polled') + i]
    <3> SUFFICES ASSUME NEW i \in 1..Len(d')
                 PROVE  d'[i] = pushed'[Len(polled) + i]
      BY <2>8
    <3>1. CASE i \in 1..Len(d)
      <4>1. Len(polled) + i \in 1..Len(pushed)
        BY <3>1, <2>4, <2>6, <2>7
      <4> QED
        BY <3>1, <4>1, <2>4, <2>5 DEF Fifo
    <3>2. CASE i = Len(d) + 1
      <4>1. Len(polled) + i = Len(pushed) + 1
        BY <3>2, <2>4, <2>6, <2>7
      <4> QED
        BY <3>2, <4>1, <2>4, <2>5
    <3> QED
      BY <3>1, <3>2, <2>4
  <2> QED
    BY <2>8, <2>9, <2>10 DEF Fifo
<1>2. ASSUME NEW c \in Consumers, PollPop(c)
      PROVE  Fifo'
  <2> DEFINE e == <<c, result[c]>>
  <2>1. /\ d # <<>> /\ result[c] = Head(d)
        /\ d' = Tail(d) /\ polled' = Append(polled, e) /\ pushed' = pushed
    BY <1>2 DEF PollPop, LockDiscipline
  <2>2. d \in Seq(Item) /\ pushed \in Seq(Item) /\ polled \in Seq(Consumers \X Item)
    BY DEF TypeOK
  <2>3. /\ Head(d) \in Item /\ Head(d) = d[1] /\ Len(d) \in Nat \ {0}
        /\ Len(d') = Len(d) - 1
        /\ \A i \in 1..Len(d) - 1 : d'[i] = d[i + 1]
    BY <2>1, <2>2, TailElements
  <2>4. e \in Consumers \X Item /\ e[2] = d[1]
    BY <2>1, <2>3
  <2> HIDE DEF e
  <2>5. /\ Len(polled') = Len(polled) + 1 /\ Len(polled) \in Nat
        /\ \A i \in 1..Len(polled) : polled'[i] = polled[i]
        /\ polled'[Len(polled) + 1] = e
    BY <2>1, <2>2, <2>4, AppendElements
  <2>6. Len(pushed') = Len(polled') + Len(d')
    <3>1. Len(pushed) = Len(polled) + Len(d)
      BY DEF Fifo
    <3>2. Len(pushed') = Len(pushed)
      BY <2>1
    <3> QED
      BY <3>1, <3>2, <2>3, <2>5
  <2>7. \A i \in 1..Len(polled') : polled'[i][2] = pushed'[i]
    <3> SUFFICES ASSUME NEW i \in 1..Len(polled')
                 PROVE  polled'[i][2] = pushed[i]
      BY <2>1
    <3>1. CASE i \in 1..Len(polled)
      BY <3>1, <2>5 DEF Fifo
    <3>2. CASE i = Len(polled) + 1
      BY <3>2, <2>3, <2>4, <2>5 DEF Fifo
    <3> QED
      BY <3>1, <3>2, <2>5
  <2>8. \A i \in 1..Len(d') : d'[i] = pushed'[Len(polled') + i]
    BY <2>1, <2>3, <2>5 DEF Fifo
  <2> QED
    BY <2>6, <2>7, <2>8 DEF Fifo
<1>3. CASE UNCHANGED <<d, pushed, polled>>
  BY <1>3 DEF Fifo
<1> QED
  BY <1>1, <1>2, <1>3
     DEF Next, PushBack, BlockPoll, vars, PushLock, PushNotify, PushUnlock,
         PollLock, PollWait, SpuriousWake, PollRelock, PollNotEmpty, PollFront,
         PollUnlock

-----------------------------------------------------------------------------
(* Wakeups                                                                 *)

LEMMA InitNoLostWakeup == Init => NoLostWakeup
  BY DEF Init, NoLostWakeup

\* A step could break the invariant by filling the deque (the producer is then at
\* notify_one), by notifying (a sleeper wakes), or by falling asleep (the deque
\* is empty then); no other step adds a sleeper or moves a producer off notify.
LEMMA StepNoLostWakeup ==
  ASSUME TypeOK, LockDiscipline, NoLostWakeup, [Next]_vars
  PROVE  NoLostWakeup'
<1> USE ThreadsAssumption DEF TypeOK, Threads, Goto
<1>1. ASSUME NEW p \in Producers, PushAppend(p)
      PROVE  NoLostWakeup'
  BY <1>1 DEF PushAppend, NoLostWakeup
<1>2. ASSUME NEW p \in Producers, PushNotify(p)
      PROVE  NoLostWakeup'
  BY <1>2 DEF PushNotify, NoLostWakeup
<1>3. ASSUME NEW p \in Producers, PushLock(p) \/ PushUnlock(p)
      PROVE  NoLostWakeup'
  BY <1>3 DEF PushLock, PushUnlock, NoLostWakeup
<1>4. ASSUME NEW c \in Consumers, PollWait(c)
      PROVE  NoLostWakeup'
  BY <1>4 DEF PollWait, NoLostWakeup
<1>5. ASSUME NEW c \in Consumers, SpuriousWake(c)
      PROVE  NoLostWakeup'
  BY <1>5 DEF SpuriousWake, NoLostWakeup
<1>6. ASSUME NEW c \in Consumers, PollPop(c)
      PROVE  NoLostWakeup'
  BY <1>6 DEF PollPop, NoLostWakeup, LockDiscipline
<1>7. ASSUME NEW c \in Consumers,
             \/ PollLock(c) \/ PollRelock(c) \/ PollNotEmpty(c)
             \/ PollFront(c) \/ PollUnlock(c)
      PROVE  NoLostWakeup'
  BY <1>7 DEF PollLock, PollRelock, PollNotEmpty, PollFront, PollUnlock, NoLostWakeup
<1>8. CASE UNCHANGED vars
  BY <1>8 DEF vars, NoLostWakeup
<1> QED
  BY <1>1, <1>2, <1>3, <1>4, <1>5, <1>6, <1>7, <1>8 DEF Next, PushBack, BlockPoll

-----------------------------------------------------------------------------
(* Invariance                                                              *)

LEMMA Invariance == Spec => []IInv
<1>1. Init => IInv
  BY InitTypeOK, InitLockDiscipline, InitFifo, InitNoLostWakeup DEF IInv
<1>2. IInv /\ [Next]_vars => IInv'
  BY StepTypeOK, StepLockDiscipline, StepFifo, StepNoLostWakeup DEF IInv
<1> QED
  BY <1>1, <1>2, PTL DEF Spec

\* Every variable keeps its type, for any sets of threads: in particular front()
\* is never called on an empty deque, whose result would not be an element.
THEOREM TypeCorrectness == Spec => []TypeOK
<1>1. IInv => TypeOK
  BY DEF IInv
<1> QED
  BY <1>1, Invariance, PTL

\* The mutex protects each call of push_back and block_poll from lock to unlock,
\* so that the front element does not change between front() and pop_front().
THEOREM LockDisciplineHolds == Spec => []LockDiscipline
<1>1. IInv => LockDiscipline
  BY DEF IInv
<1> QED
  BY <1>1, Invariance, PTL

\* block_poll returns exactly the elements that push_back inserted, in the order
\* in which they were inserted.
THEOREM FirstInFirstOut == Spec => []Fifo
<1>1. IInv => Fifo
  BY DEF IInv
<1> QED
  BY <1>1, Invariance, PTL

\* The consumers are never all asleep while the deque holds an element, except
\* in the instant before the producer that inserted it calls notify_one.
THEOREM WakeupsAreNotLost == Spec => []NoLostWakeup
<1>1. IInv => NoLostWakeup
  BY DEF IInv
<1> QED
  BY <1>1, Invariance, PTL

-----------------------------------------------------------------------------
(* Refinement                                                              *)

LEMMA InitRefines == Init => AbstractQueue!Init
  BY ThreadsAssumption DEF Init, AbstractQueue!Init, Puts, Threads

\* d.push_back is Put, d.pop_front is Get, and every other step of a thread
\* leaves the abstract queue as it was.
LEMMA StepRefines ==
  ASSUME IInv, [Next]_vars
  PROVE  [AbstractQueue!Next]_(AbstractQueue!vars)
<1> USE ThreadsAssumption, MaxPushAssumption DEF IInv, TypeOK, Threads, Goto, Puts
<1>1. ASSUME NEW p \in Producers, PushAppend(p)
      PROVE  AbstractQueue!Put(p)
  <2>1. calls[p] \in Nat /\ calls[p] > 0 /\ calls[p] <= MaxPush
    BY <1>1 DEF PushAppend, LockDiscipline
  <2>2. Puts[p] = calls[p] - 1
    BY <1>1 DEF PushAppend
  <2>3. Puts' = [Puts EXCEPT ![p] = @ + 1]
    <3>1. calls' = calls /\ pc' = [pc EXCEPT ![p] = "notify"]
      BY <1>1 DEF PushAppend
    <3>2. ASSUME NEW q \in Producers, q # p
          PROVE  Puts'[q] = Puts[q]
      BY <3>1, <3>2
    <3>3. Puts'[p] = Puts[p] + 1
      BY <3>1, <2>1, <2>2
    <3> QED
      BY <3>2, <3>3, Zenon
  <2>4. Current(p) = <<p, Puts[p] + 1>> /\ Puts[p] < MaxPush
    BY <2>1, <2>2 DEF Current
  <2> QED
    BY <1>1, <2>3, <2>4 DEF PushAppend, AbstractQueue!Put
<1>2. ASSUME NEW c \in Consumers, PollPop(c)
      PROVE  AbstractQueue!Get(c)
  <2>1. d # <<>> /\ result[c] = Head(d)
    BY <1>2 DEF PollPop, LockDiscipline
  <2>2. Puts' = Puts
    BY <1>2 DEF PollPop
  <2> QED
    BY <1>2, <2>1, <2>2 DEF PollPop, AbstractQueue!Get
<1>3. ASSUME NEW p \in Producers, PushLock(p)
      PROVE  UNCHANGED AbstractQueue!vars
  <2>1. Puts' = Puts
    BY <1>3 DEF PushLock, Acquire
  <2> QED
    BY <1>3, <2>1 DEF PushLock, AbstractQueue!vars
<1>4. ASSUME NEW p \in Producers, PushNotify(p) \/ PushUnlock(p)
      PROVE  UNCHANGED AbstractQueue!vars
  <2>1. Puts' = Puts
    BY <1>4 DEF PushNotify, PushUnlock
  <2> QED
    BY <1>4, <2>1 DEF PushNotify, PushUnlock, AbstractQueue!vars
<1>5. ASSUME NEW c \in Consumers,
             \/ PollLock(c) \/ PollWait(c) \/ SpuriousWake(c) \/ PollRelock(c)
             \/ PollNotEmpty(c) \/ PollFront(c) \/ PollUnlock(c)
      PROVE  UNCHANGED AbstractQueue!vars
  <2>1. Puts' = Puts
    BY <1>5 DEF PollLock, PollWait, SpuriousWake, PollRelock, PollNotEmpty,
                PollFront, PollUnlock
  <2> QED
    BY <1>5, <2>1 DEF PollLock, PollWait, SpuriousWake, PollRelock, PollNotEmpty,
                      PollFront, PollUnlock, AbstractQueue!vars
<1>6. CASE UNCHANGED vars
  BY <1>6 DEF vars, AbstractQueue!vars
<1> QED
  BY <1>1, <1>2, <1>3, <1>4, <1>5, <1>6
     DEF Next, PushBack, BlockPoll, AbstractQueue!Next

\* ConcurrentBlockingDeque implements FifoQueue, its fairness left aside: each
\* call takes effect atomically, and no element is put or handed out twice.
THEOREM ImplementsFifo ==
  Spec => AbstractQueue!Init /\ [][AbstractQueue!Next]_(AbstractQueue!vars)
<1> QED
  BY InitRefines, StepRefines, Invariance, PTL DEF Spec

=============================================================================
