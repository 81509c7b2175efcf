\* Two producers and three consumers: more consumers than elements at hand, so
\* that a woken consumer can find the deque empty again.
CONSTANTS
  Free = Free
  Producers = {p1, p2}
  Consumers = {c1, c2, c3}
  MaxPush = 2
SPECIFICATION FairSpec
INVARIANTS TypeOK LockDiscipline Fifo NoLostWakeup
PROPERTIES ImplementsFifoQueue EveryItemPolled
