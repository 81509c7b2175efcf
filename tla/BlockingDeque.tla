---------------------------- MODULE BlockingDeque ----------------------------
(***************************************************************************)
(* ConcurrentBlockingDeque<E> of include/ThreadSync.h: a std::deque        *)
(* guarded by one mutex, with one condition variable on which callers of   *)
(* block_poll sleep while the deque is empty.  Every step of a thread      *)
(* between two operations on shared state is an action of its own, so that *)
(* all interleavings of callers are explored, spurious wakeups included.   *)
(*                                                                         *)
(* Driver.cpp makes two of these: incoming_buffer (one producer, the       *)
(* thread of ClientNetworking::producing, one consumer) and                *)
(* outgoing_buffer (one producer, the consumer thread; one consumer, the   *)
(* thread of ClientNetworking::sending).  The class does not depend on     *)
(* that, so the sets of threads are parameters.                            *)
(***************************************************************************)
EXTENDS Naturals, Sequences

CONSTANTS Producers,  \* threads that call push_back
          Consumers,  \* threads that call block_poll
          MaxPush,    \* bound: calls of push_back made by one producer
          Free        \* value of the mutex when no thread holds it

Threads == Producers \union Consumers

ASSUME ThreadsAssumption ==
  /\ Producers \intersect Consumers = {}
  /\ Consumers # {}
  /\ Free \notin Threads

ASSUME MaxPushAssumption == MaxPush \in Nat

VARIABLES d,        \* the std::deque, front first
          m,        \* the std::mutex: the thread that holds it, or Free
          sleeping, \* threads blocked inside not_empty_trigger.wait
          pc,       \* what each thread does next
          calls,    \* number of push_back calls each producer has begun
          result,   \* the local variable "result" of block_poll
          pushed,   \* history: every element pushed, in order
          polled    \* history: every <<consumer, element>> returned, in order

vars == <<d, m, sleeping, pc, calls, result, pushed, polled>>

Item == Producers \X (1..MaxPush)
NoItem == <<>>

\* Faulty: the element of the call before is inserted.
StaleItem(p) == <<p, calls[p] - 1>>

\* The element that the current call of push_back by p inserts.
Current(p) == <<p, calls[p]>>

PushPc == {"outside", "push", "notify", "unlock"}
PollPc == {"outside", "test", "wait", "take", "pop", "unlock"}

Init ==
  /\ d = <<>>
  /\ m = Free
  /\ sleeping = {}
  /\ pc = [t \in Threads |-> "outside"]
  /\ calls = [p \in Producers |-> 0]
  /\ result = [c \in Consumers |-> NoItem]
  /\ pushed = <<>>
  /\ polled = <<>>

Goto(t, label) == pc' = [pc EXCEPT ![t] = label]

Acquire(t) == m = Free /\ m' = t
Release(t) == m = t /\ m' = Free

-----------------------------------------------------------------------------
(* push_back                                                               *)

\* std::unique_lock<std::mutex> lock{m}: the call begins and gets the mutex.
PushLock(p) ==
  /\ pc[p] = "outside"
  /\ calls[p] < MaxPush
  /\ Acquire(p)
  /\ calls' = [calls EXCEPT ![p] = @ + 1]
  /\ Goto(p, "push")
  /\ UNCHANGED <<d, sleeping, result, pushed, polled>>

\* Faulty: d.push_front(item)
PushAtFront(p) ==
  /\ pc[p] = "push"
  /\ d' = <<Current(p)>> \o d
  /\ pushed' = Append(pushed, Current(p))
  /\ Goto(p, "notify")
  /\ UNCHANGED <<m, sleeping, calls, result, polled>>

\* d.push_back(item)
PushAppend(p) ==
  /\ pc[p] = "push"
  /\ d' = Append(d, Current(p))
  /\ pushed' = Append(pushed, Current(p))
  /\ Goto(p, "notify")
  /\ UNCHANGED <<m, sleeping, calls, result, polled>>

\* Faulty: nobody is notified.
PushSilently(p) ==
  /\ pc[p] = "notify"
  /\ Goto(p, "unlock")
  /\ UNCHANGED <<d, m, sleeping, calls, result, pushed, polled>>

\* not_empty_trigger.notify_one(): one sleeper wakes, if there is one.
PushNotify(p) ==
  /\ pc[p] = "notify"
  /\ \/ /\ sleeping = {}
        /\ UNCHANGED sleeping
     \/ \E c \in sleeping : sleeping' = sleeping \ {c}
  /\ Goto(p, "unlock")
  /\ UNCHANGED <<d, m, calls, result, pushed, polled>>

\* The unique_lock goes out of scope and push_back returns.
PushUnlock(p) ==
  /\ pc[p] = "unlock"
  /\ Release(p)
  /\ Goto(p, "outside")
  /\ UNCHANGED <<d, sleeping, calls, result, pushed, polled>>

-----------------------------------------------------------------------------
(* block_poll                                                              *)

\* std::unique_lock<std::mutex> lock{m}
PollLock(c) ==
  /\ pc[c] = "outside"
  /\ Acquire(c)
  /\ Goto(c, "test")
  /\ UNCHANGED <<d, sleeping, calls, result, pushed, polled>>

\* The test, of the while statement and of wait's predicate, finds the deque
\* empty: the mutex is released and the thread falls asleep in one step.
PollWait(c) ==
  /\ pc[c] = "test"
  /\ d = <<>>
  /\ Release(c)
  /\ sleeping' = sleeping \union {c}
  /\ Goto(c, "wait")
  /\ UNCHANGED <<d, calls, result, pushed, polled>>

\* wait returns without a notification, as the standard allows it to.
SpuriousWake(c) ==
  /\ c \in sleeping
  /\ sleeping' = sleeping \ {c}
  /\ UNCHANGED <<d, m, pc, calls, result, pushed, polled>>

\* Faulty: a thread that was woken takes it that there is an element.
PollWithoutRetest(c) ==
  /\ pc[c] = "wait"
  /\ c \notin sleeping
  /\ Acquire(c)
  /\ Goto(c, "take")
  /\ UNCHANGED <<d, sleeping, calls, result, pushed, polled>>

\* A thread that was woken takes the mutex again and evaluates the test again.
PollRelock(c) ==
  /\ pc[c] = "wait"
  /\ c \notin sleeping
  /\ Acquire(c)
  /\ Goto(c, "test")
  /\ UNCHANGED <<d, sleeping, calls, result, pushed, polled>>

\* The test finds an element: both loops are left.
PollNotEmpty(c) ==
  /\ pc[c] = "test"
  /\ d # <<>>
  /\ Goto(c, "take")
  /\ UNCHANGED <<d, m, sleeping, calls, result, pushed, polled>>

\* E result = (E)d.front()
PollFront(c) ==
  /\ pc[c] = "take"
  /\ result' = [result EXCEPT ![c] = Head(d)]
  /\ Goto(c, "pop")
  /\ UNCHANGED <<d, m, sleeping, calls, pushed, polled>>

\* d.pop_front(); the value to return is settled.
PollPop(c) ==
  /\ pc[c] = "pop"
  /\ d' = Tail(d)
  /\ polled' = Append(polled, <<c, result[c]>>)
  /\ Goto(c, "unlock")
  /\ UNCHANGED <<m, sleeping, calls, result, pushed>>

\* return result; the unique_lock goes out of scope.
PollUnlock(c) ==
  /\ pc[c] = "unlock"
  /\ Release(c)
  /\ result' = [result EXCEPT ![c] = NoItem]
  /\ Goto(c, "outside")
  /\ UNCHANGED <<d, sleeping, calls, pushed, polled>>

-----------------------------------------------------------------------------

PushBack(p) ==
  PushLock(p) \/ PushAppend(p) \/ PushNotify(p) \/ PushUnlock(p)

BlockPoll(c) ==
  \/ PollLock(c) \/ PollWait(c) \/ PollRelock(c)
  \/ PollNotEmpty(c) \/ PollFront(c) \/ PollPop(c) \/ PollUnlock(c)

Next ==
  \/ \E p \in Producers : PushBack(p)
  \/ \E c \in Consumers : BlockPoll(c) \/ SpuriousWake(c)

\* The operating system runs every thread that can run.  Nothing makes a
\* wakeup without notification happen.
Fairness ==
  /\ \A p \in Producers : WF_vars(PushBack(p))
  /\ \A c \in Consumers : WF_vars(BlockPoll(c))

Spec == Init /\ [][Next]_vars
FairSpec == Spec /\ Fairness

-----------------------------------------------------------------------------
(* Properties                                                              *)

TypeOK ==
  /\ d \in Seq(Item)
  /\ m \in Threads \union {Free}
  /\ sleeping \in SUBSET Consumers
  /\ pc \in [Threads -> PushPc \union PollPc]
  /\ \A p \in Producers : pc[p] \in PushPc
  /\ \A c \in Consumers : pc[c] \in PollPc
  /\ calls \in [Producers -> 0..MaxPush]
  /\ result \in [Consumers -> Item \union {NoItem}]
  /\ pushed \in Seq(Item)
  /\ polled \in Seq(Consumers \X Item)

\* The lock discipline the class relies on.  A thread is between lock and unlock
\* exactly when it owns the mutex; a sleeper is inside wait; and the element found
\* by the test is still at the front when front() and pop_front() run, although
\* both follow the test, and other threads, as separate steps.
LockDiscipline ==
  /\ \A t \in Threads : m = t <=> pc[t] \notin {"outside", "wait"}
  /\ \A c \in sleeping : pc[c] = "wait"
  /\ \A p \in Producers : pc[p] # "outside" => calls[p] > 0
  /\ \A c \in Consumers : pc[c] \in {"take", "pop"} => d # <<>>
  /\ \A c \in Consumers : pc[c] = "pop" => result[c] = Head(d)

\* First in, first out: what was pushed is what was returned, followed by what
\* is in the deque, in the same order.  Nothing is lost, duplicated or invented,
\* whatever the interleaving of front() and pop_front() with other callers.
Fifo ==
  /\ Len(pushed) = Len(polled) + Len(d)
  /\ \A i \in 1..Len(polled) : polled[i][2] = pushed[i]
  /\ \A i \in 1..Len(d) : d[i] = pushed[Len(polled) + i]

\* No wakeup is lost: whenever the deque holds an element, some consumer is
\* awake, or a producer has still to call notify_one for it.
NoLostWakeup ==
  d # <<>> => \/ \E c \in Consumers : c \notin sleeping
              \/ \E p \in Producers : pc[p] = "notify"

\* Elements in the abstract queue: a call of push_back that has the mutex but
\* has not yet reached d.push_back(item) has put nothing.
Puts == [p \in Producers |-> IF pc[p] = "push" THEN calls[p] - 1 ELSE calls[p]]

AbstractQueue == INSTANCE FifoQueue WITH queue <- d, puts <- Puts

\* The class implements the abstract queue: d.push_back is the moment an element
\* enters, d.pop_front the moment it leaves, and every other step is invisible.
\* The fairness of the abstract queue is included: callers of block_poll cannot
\* all stay blocked while the deque holds an element.
ImplementsFifoQueue == AbstractQueue!Spec

\* Every element whose push_back has begun is returned by some block_poll in the
\* end, however the calls, the sleeps and the wakeups interleave.
EveryItemPolled ==
  \A i \in 1..MaxPush, p \in Producers :
    calls[p] >= i ~> \E k \in DOMAIN polled : polled[k][2] = <<p, i>>

=============================================================================
