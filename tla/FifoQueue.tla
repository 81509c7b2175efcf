------------------------------ MODULE FifoQueue ------------------------------
(***************************************************************************)
(* What ConcurrentBlockingDeque (ThreadSync.h) promises to the threads of  *)
(* Driver.cpp: an unbounded first-in first-out queue whose two operations  *)
(* are atomic, and in which an element never stays for ever while          *)
(* consumers keep asking for one.  There is no lock and no wait set here.  *)
(***************************************************************************)
EXTENDS Naturals, Sequences

CONSTANTS Producers,  \* threads that call push_back
          Consumers,  \* threads that call block_poll
          MaxPush     \* bound: calls of push_back made by one producer

VARIABLES queue,      \* the elements now in the queue, oldest first
          puts,       \* number of elements each producer has put
          pushed,     \* history: every element ever put, in order
          polled      \* history: every <<consumer, element>> handed out, in order

vars == <<queue, puts, pushed, polled>>

\* The k-th element pushed by p: elements are told apart by who pushed them, and when.
Item == Producers \X (1..MaxPush)

Init ==
  /\ queue = <<>>
  /\ puts = [p \in Producers |-> 0]
  /\ pushed = <<>>
  /\ polled = <<>>

\* Producer p puts its next element: no element is put twice.
Put(p) ==
  LET item == <<p, puts[p] + 1>>
  IN  /\ puts[p] < MaxPush
      /\ puts' = [puts EXCEPT ![p] = @ + 1]
      /\ queue' = Append(queue, item)
      /\ pushed' = Append(pushed, item)
      /\ UNCHANGED polled

Get(c) ==
  /\ queue # <<>>
  /\ queue' = Tail(queue)
  /\ polled' = Append(polled, <<c, Head(queue)>>)
  /\ UNCHANGED <<puts, pushed>>

Next ==
  \/ \E p \in Producers : Put(p)
  \/ \E c \in Consumers : Get(c)

Spec == Init /\ [][Next]_vars /\ WF_vars(\E c \in Consumers : Get(c))

=============================================================================
