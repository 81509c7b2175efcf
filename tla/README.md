# A verification project for nodeE-Zybo-Z20

Node E is the encryption node of a larger system.  It runs on a Zybo Z20 board, connects
to a server called the Core Complex, receives a seed in a handshake, and from then on
encrypts and decrypts what it is sent.  The cipher exists in software (`Linux/NodeE-CPP`)
and as an FPGA kernel that Linux drives through memory-mapped registers
(`Linux/NodeE-HLS`, `HLS/qpp_2_5`).  This directory holds TLA+ models of the program, the
TLC runs that check them, and proofs that TLAPS checks.

Paths of the source are relative to `src/`.  `PROJECT.json` gives, for each definition
that models code, the lines it stands for.

## 1. The system

| part | state | operations | modelled in |
|---|---|---|---|
| `ConcurrentBlockingDeque` (`include/ThreadSync.h`) | deque, mutex, condition variable | `push_back`, `block_poll` | `BlockingDeque`, promise in `FifoQueue` |
| node program (`src/Driver.cpp`) | two deques, seed buffer, pointer to the cipher | four threads: `main`, incoming, consumer, outgoing | `NodeE`, promise in `CipherService` |
| `ClientNetworking` | socket, buffer | `producing`, `sending` | `NodeE` (incoming and outgoing thread) |
| `InstructionToken` | fields of a message | parse, build, `dump` | `InstructionToken`; in `NodeE` reduced to the fields that `Driver` looks at |
| `json11` | a text and a position in it | `parse`, accessors | `Json11`, reference in `JsonGrammar` |
| `QPP` (`NodeE-CPP/src/QPP.cpp`) | seed, matrices, inverses, dispatch sequence, two buffers | constructor, `setPlainText`, `encrypt`, `setCipherText`, `decrypt` | `Words`, `QPP` |
| `QPP_HLS` (`NodeE-HLS/src/QPP_HLS.cpp`) | matrices, text size; registers and memory regions of the kernel | the same, each through calls of the kernel | `QPPHLS` |
| FPGA kernel (`HLS/qpp_2_5/qpp_hls.cpp`) | two tables, shift register; control interface | load tables, load seed, encrypt, decrypt | `QPPKernel` (functions), `QPPHardware` (device) |
| `Linux/app/main.c` | registers and regions | four commands in a row | `DemoPrograms` |
| firmware `Vitis/firmware/.../helloworld.c` | the same, with a data cache | four commands in a row | `DemoPrograms` |
| kernel test bench (`HLS/qpp_2_5/qpp_test.cpp`) | arrays | six calls of the kernel, two checks | `DemoPrograms` |
| `Vitis/embedded-linux` mock host and node | socket | one message each way | no: see section 8 |
| `QPP` copy in NodeE-HLS | as `QPP` | compiled, called by nothing | no; it is a mutant of `QPP` |
| `IOManagement`, `Timing`, `Statistics`, Vivado and build files | | | no: see section 8 |

How they interact:

    Core Complex --TCP--> producing --incoming_buffer--> consumer --outgoing_buffer--> sending --TCP--> Core Complex
                                                           |
                                                 QPP  or  QPP_HLS --registers, regions--> kernel

What is hard, and which properties are about it:

* **Threads and the condition variable.**  `block_poll` tests, reads the front and pops in
  separate steps, and sleeps with a predicate that other consumers may falsify before it
  runs again.  `LockDiscipline`, `Fifo`, `NoLostWakeup`, `EveryItemPolled`.
* **A pipeline without identifiers.**  Replies carry `task_id` 0: their order alone tells
  the Core Complex what they answer.  `PipelineMatchesExpected`, `AnswersKeepOrder`,
  `NeverAnswersWrongly`, `ImplementsCipherService`.
* **A handshake inside the handling of a token.**  The consumer polls the same deque for the
  seed, and exits the process if it gets something else.  Both ends may come to wait for each
  other.  `ExitOnlyWhenPeerGone`, `NoStandstill`, `HandshakeCompletes`, `HandshakeNeverHangs`.
* **Threads that never stop turning.**  A piece of a message is a token too, and has to leave the
  queues like any other.  `StepsAdvance`.
* **Shared memory without a lock.**  The seed buffer is deleted by `main` while the consumer
  uses it; the pointer to the cipher is uninitialized until the first handshake.
  `KeyAgreement`, `KeyedBeforeUse`.
* **A byte stream read as messages.**  One `read` is one message to the program; end of file
  and errors are not tested for.  The same properties, under all ways to cut the stream.
* **A piece of a message read as a message.**  The digits of a payload are JSON by themselves,
  and a handwritten parser decides what a piece is.  `ReadsAreAllOrNothing`,
  `ParseMatchesGrammar`.
* **Reads that change the device.**  Any read of the control register clears `ap_done`, also
  those that look for `ap_start`.  `DoneIsNotLost`, `CallsAdvance`, `CallsReturn`, `Terminates`.
* **Memory shared with a device that is running.**  `KernelOwnsMemory`, `TablesInverse`,
  `CommandsDoNotOverlap`.
* **A process that is stopped while the device works.**  The next one finds a call of any kind
  in progress: one program waits for it, though not before its first write; the other does not
  wait at all.  `KernelOwnsMemory`, `SeedLoadedFirst`, `CommandsDoNotOverlap`, `PrintsPlainText`.
* **A cache between the processor and the memory of a device.**  One of two arrays is
  invalidated, nothing is flushed, and lines may be shared, fetched and written back at any
  time.  `PrintsPlainText`, `PrintsCiphertext`.
* **A cipher with state.**  Buffers and the shift register carry over from call to call.
  `RoundTrip`, `CipherIsFunction`, `FreshRoundTrip`, `PrintsPlainText`, `BenchPasses`.

`PROJECT.json` lists every hazard at its line under `hazards`.

## 2. The modules

| module | what it is | extends / instantiates |
|---|---|---|
| `FifoQueue` | abstract queue with atomic operations | |
| `BlockingDeque` | the class, one action per step between two operations on shared state | instance of `FifoQueue` |
| `BlockingDequeProofs` | its theorems | `BlockingDeque` |
| `CipherService` | abstract promise of a node to the Core Complex | |
| `NodeE` | the four threads, the connection, the Core Complex | instance of `CipherService` |
| `NodeEProofs` | types, the cipher is constructed before it is used, answers keep their order, key agreement, each step leaves less to be done | `NodeE` |
| `NodeEServiceProofs` | pipeline, the node stays, no standstill, refinement of `CipherService` | `NodeEProofs` |
| `Words` | 2-bit words, matrices, shuffles, inverses | |
| `WordsProofs` | lemmas: masks, permutations, inverses | `Words` |
| `QPP`, `QPPProofs` | the cipher in software, its theorems | `Words`, `WordsProofs` |
| `QPPKernel` | the functions of the kernel | `Words` |
| `QPPHardware` | the kernel as a device | `QPPKernel` |
| `QPPHardwareProofs` | lemmas about the device, for all that drive it | `QPPHardware`, `WordsProofs` |
| `QPPHLS`, `QPPHLSProofs` | the driver, its theorems | `QPPHardware`, `QPPHardwareProofs` |
| `DemoPrograms`, `DemoProgramsProofs` | Linux program, firmware and test bench, their theorems | `QPPHardware`, `QPPHardwareProofs` |
| `Json11` | the JSON library | |
| `JsonGrammar` | what a text means as JSON, the reference | `Json11` |
| `InstructionToken` | the message class, and a stream of messages | `JsonGrammar` |
| `MC...` | constants for TLC | |

Definitions whose comment begins with "Faulty:" are mutants: the form a definition would
have with a likely bug in it.  No specification uses them.  `PROJECT.json` names, for each
property, the definition to replace and the mutant that must then violate the property.

### BlockingDeque

`PushLock`, `PushAppend`, `PushNotify`, `PushUnlock` are the four steps of `push_back`;
`PollLock`, `PollWait`, `PollRelock`, `PollNotEmpty`, `PollFront`, `PollPop`, `PollUnlock`
those of `block_poll`.  The `while` and the predicate of `wait` are the same test, and
there is nothing between them, so one action evaluates both.  `SpuriousWake` is what the
standard allows `wait` to do.  `d`, `m` and `result` are the variables of the code;
`sleeping` is the wait set of the condition variable; `pushed` and `polled` are history.

### NodeE

One action per operation of a thread on something another thread, or the peer, can see.
Both deques are atomic sequences here: `ImplementsFifoQueue`, checked and proved for
`BlockingDeque`, justifies it.  The connection is a sequence of messages, each with three
places where a read may begin or end (its brace, some place in its text, its newline), so
that `Receive` can return a part of a message, a message, or several.  A buffer parses to a
message if it holds exactly one, and to a token of defaults otherwise; a buffer that begins
with a newline is dropped as a whole.  After the end of the stream `read` returns 0 or -1
at once, for ever, and each turn pushes a token (`ReceiveNothing`); after -1 the buffer is
memory nothing was written to, so that the token may be the one of the turn before.
`Write` ignores its result, and a write after a reset may kill the process.

The Core Complex is not in the repository.  Its actions are the protocol that `Driver.cpp`
expects: handshake first, a seed after `SEND_ID`, texts after `HS_COMPLETE`, and a new
handshake whenever it likes; it may send up to `Window` messages ahead.

The cipher is abstract: the bytes of a reply are the pair of the seed and the text.  For
NodeE-CPP this is what `CipherIsFunction` shows of `QPP`.  For NodeE-HLS it holds for the
first encryption after a handshake only, and `hls_round_trip` shows why.

Two switches name what the environment may do.  `WholeMessages` lets every `read` return
one message; it is `FALSE` in `node_stream` and `node_fragment`.  `PromptMain` lets `main`
reach `delete[] seed` before the connection is up (it has one statement to execute, the
incoming thread has to connect first); it is `FALSE` in `node_seed_race`.

**The freed seed block.**  The program goes on writing each seed to the block that `main` has
deleted, and constructs each cipher from it.  The model takes it that the allocator never hands
this block out again: once `DeleteSeed` has happened, nobody but the consumer writes to it.  The
code does not guarantee this: any of its strings, tokens or buffers of that size may get the block,
and then overwrite a seed between its copy and its use, or be overwritten by it.  So `KeyAgreement`,
`AnswersKeepOrder` and what is proved of them (`KeysAgree`, `OrderIsKept`) hold of the
program only as far as the allocator leaves the block alone.  The model covers what `free` itself
writes, and when; `node_seed_race` shows that this is enough to go wrong.

### QPP

A buffer is a row of words rather than of bytes (four words to a byte), which turns the
shifts and masks of the loops into indexing: word 4i + j is bits 7 - 2j and 6 - 2j of byte
i.  The draws of `random()` are arbitrary, one triple for each matrix, and each matrix goes
on from the one before, as in `generateMatrix`.  Both buffers are variables, because a call
finds in them what the one before has left.  `setCipherText` copies `block_size` bytes
whatever the size it is given.  `Decrypt` is called with ciphertexts made before.

### QPPKernel, QPPHardware, QPPHLS, DemoPrograms

`QPPKernel` holds the functions of the kernel as operators: a block is 16 words, `prng` is
the shift register on its bits.  `QPPHardware` adds what makes it a device: the control
register, whose `ap_start` is cleared and whose `ap_done` is set when a call ends, and whose
`ap_done` is cleared by every read; the regions of memory; and the call, one block per step.
A program that includes it takes its own steps in between.

`QPPHLS` is the constructor, `encrypt` and `decrypt` of the driver.  `stage` is the call
that is being made, `phase` the loop it is in: `while(!qpp_ready)`, `while(!qpp_done)`, and
the second `while(!qpp_ready)`; each read of the register is a step.  A turn of a loop that
changes nothing is a stuttering step and has no action.  The tables are packed as the code
packs them, the fifth matrix falling out on the way.  `Stop` ends the process wherever it is; the
next one starts with `Construct`, while the kernel goes on with the call it was at: a load of the
seed or of either table, an encryption or a decryption.  What is set and started while a call is in
progress is lost (`Start`); the driver never does that, because each of its calls waits first.
But the constructor writes the region of the seed before its first wait (lines 149-153), and so
possibly under an `LD_SEED` that was left behind.  `KernelOwnsMemory` names this exception, and
`SeedLoadedFirst` says that it does no harm, since the constructor loads its seed after the wait.

`DemoPrograms` holds the three programs that drive the same device with a list of calls
(`Calls`).  Neither the Linux program nor the firmware loads a seed.

The Linux program is meant to wait for the kernel before its first call, but `while(!qpp_ready);`
(`main.c:216`) tests the address of a function.  The model starts it on an idle kernel, or on
one that still loads the first seed of a NodeE-HLS that has been stopped (`SeedCallLeft`); `Stop`
ends the program itself anywhere and starts it again once, on whatever call it left behind.  Its
copies (`CopyIn`) and its first command (`StartCall`) then happen under a call in progress,
which the history variable `overlapped` records.  The command is lost, the kernel may read tables
that are being replaced, and the program may go on with the tables of an earlier run.
`CommandsDoNotOverlap` therefore excepts the steps up to the first command, and says that from then on
the kernel is idle at each of them; and `PrintsPlainText` leaves out programs that have `overlapped`,
without which TLC finds it violated.  `Terminates` has no such condition: a program that lost its
command takes the end of the old call for the end of its own.

The firmware works on arrays of its own through a
write-back cache.  The model has copies of the two arrays that the kernel writes, `b_out` and
`m_out` (called `DST` and `OUT`); the processor never writes to the arrays that the kernel reads, so that
a copy of those is as good as the memory.  `Fetch` and `Evict` may happen at any time;
`Layouts` are the ways in which the linker may share the lines of the two arrays between them
and with their neighbours, and so what `Xil_DCacheInvalidateRange(b_out, 400)` reaches.  The test
bench calls the kernel as a function, with its own data and expected ciphertext.

`PrintsPlainText` and `PrintsCiphertext` are conditional for the firmware as well: no write-back has changed the
array after the kernel wrote it (`spoilt`), and the copy of `m_out`, which is never invalidated,
was not stale when the decryption returned (`stale`).  Without them both are false: zeros
that the start-up code of the firmware left dirty in the cache can go over the result, and a copy
of `m_out` that was fetched early is printed in its place.  What remains is what the
invalidation achieves, for `b_out` alone.  `PrintsPlainText` further needs a shift register that held 0
when the program started: with another value, which a NodeE-HLS leaves there, the decryption
uses other masks than the encryption, and nothing promises what is printed.

### Json11, JsonGrammar, InstructionToken

`Json11` translates `JsonParser` function by function: each takes a position and returns a value
and the position behind it.  After a failure the code only unwinds, so that `Failed` is returned at once.
A character of the model may stand for several of the text where the parser
has one outcome for all of them: a keyword, the four digits of a `\u` escape.  A number is its
mantissa and exponent; rounding to a double is left out.  `JsonGrammar` says what a text means
by cutting it into parts, without reading it from left to right, and `ParseMatchesGrammar`
compares the two.

`InstructionToken` is the class: `FromText`, `WithHex` and `WithBytes` are the constructors.  A peer
writes tokens (`Write`), `Read` returns any number of characters and makes a token of them,
`Push` hands it on.  `ReadsAreAllOrNothing` is what `Parse` of `NodeE` takes for granted.
`Disturb` stands for peers that write something else, and makes the texts on which the parser
is compared with the grammar.

## 3. The runs

| run | what it shows | distinct states |
|---|---|---|
| `deque` | type, lock discipline, order, no lost wakeup, refinement of `FifoQueue`, every element polled | 96 502 |
| `node_break` | pipeline, key agreement, no exit on an open connection, no standstill, no wrong answer, no consumer stuck, on connections that fail, end and are reset | 191 187 |
| `node_live` | refinement of `CipherService` with its liveness; handshakes are completed | 7 656 |
| `node_stream` | order of answers, no use of an uninitialized cipher, the same seed at both ends and no step in vain, however reads cut the stream | 193 352 |
| `node_fragment` (violation) | a part of SET_SEED makes the node exit | |
| `node_seed_race` (violation) | `delete[] seed` between copy and use of the seed | |
| `qpp` | matrices, inverses, round trip, ciphertext a function of text and seed | 290 816 |
| `qpp_hls` | the driver and the kernel, interleaved, in processes that are stopped anywhere: tables, seed, round trip, memory, no step in vain, every call returns | 62 126 |
| `hls_round_trip` (violation) | the second ciphertext does not come back | |
| `hls_fifth_matrix` (violation) | the fifth matrix does not arrive | |
| `demo_programs` | the programs print the text, the firmware the ciphertext as well, the bench finds what it expects; calls do not overlap once the first has been made; each program ends | 43 743 |
| `token` | tokens come whole or not at all; the parser agrees with the grammar | 106 194 |

Bounds, and why they are enough:

* `deque`: two producers with two elements each and three consumers.  A woken consumer can
  find the deque empty again, two notifications can be pending, and consumers outnumber
  elements.
* `node_*`: five messages, two ahead (three in `node_stream`): two handshakes with a text in
  between, or a handshake and texts in flight behind it.  `MaxBacklog = 2` caps the tokens
  that an ended stream piles up; the code has no such cap, which `hazards` says.
  `node_stream` uses symmetry in seeds and texts, which no action tells apart; the runs with
  liveness do not.
* `qpp`: 2 matrices, buffers of 3 bytes (so that 12 words wrap four times around the
  dispatch sequence, as 4096 wrap around 1024), texts shorter and longer, a text written
  over another, 3 calls.  Two seeds, all dispatch sequences, all draws but a third.
* `qpp_hls`: 2 blocks, a text that is padded and one that fills them, 2 keys, 3 objects,
  4 calls each.  With three objects a process can be stopped in a call, the next one in its
  constructor, and a third still complete its calls.
* `demo_programs`: the 3 blocks of "Hello World" and a second text, the tables of the
  `test_data.h` of each program, the shift register at 0 and at two other values, `ap_done` left
  set or not, a call left behind or none, one restart of the Linux program, all layouts and all states of the cache.
* `token`: two messages out of three, with an empty payload, one with leading and trailing zeros and
  one whose digits are a number, cut at every character.  Texts for the parser: all of up to 3 to 6
  pieces over seven alphabets, so that each function of the parser meets every character it
  tests for; `max_depth` is 1 instead of 200, which the texts exceed.

`CHECK_DEADLOCK FALSE` appears where the system may stop: a bound is reached, the process has
exited, or the program has ended.  `deque` checks for deadlock, since consumers that are all
asleep can always wake spuriously.

## 4. The disagreements found

1. `node_fragment`: `producing` parses whatever one `read` returns as one message.  SET_SEED
   is more than 2 KB of text, longer than a TCP segment; if a read returns part of it, the
   consumer finds the handshake erroneous and exits on an open connection.
2. `node_seed_race`: nothing orders `delete[] seed` in `main` after the handshake.  If `main` is
   late, the constructor of the cipher reads a buffer that `free` has written to.
3. `hls_round_trip`: `QPP_HLS::encrypt` does not load the seed and `decrypt` does.  What is
   encrypted second after a handshake is decrypted with another mask.  The test bench of the
   kernel loads the seed before both.
4. `hls_fifth_matrix`: `block_pos` counts matrices instead of elements, so the fifth matrix is
   shifted out.  `test_data.h` documents it in a second block.  Ciphertexts are not affected,
   because a 2-bit word never selects it (`TablesInverse`).

## 5. Fairness

`deque`: weak fairness of each thread's next step: the operating system runs what can run.
Weak fairness is enough although a thread may be starved of the mutex: one that waits for it
in `push_back` has not begun its call, and a consumer that gets it while the deque holds an
element takes the element.  Nothing is assumed of spurious wakeups.  `NodeE`: weak fairness of the
incoming, the consumer and the outgoing thread, and of the Core Complex for reading answers
and for giving the seed it owes; none for asking, closing or resetting.  `QPPHLS` and
`DemoPrograms`: weak fairness of the kernel, which is clocked, and of the driver's thread; none
for requests, none for the cache, and none for `Stop`: a process need not be stopped, and the Linux program
is stopped once at most, since one that is stopped again and again need not end.  `QPP` has no liveness: it is sequential and every loop is counted.

## 6. The proofs

Eight modules hold theorems and lemmas; everything below is for all values of the constants that satisfy
the named assumptions, and assumes nothing else.

**BlockingDequeProofs** (`ThreadsAssumption`, `MaxPushAssumption`).  `IInv` is `TypeOK`,
`LockDiscipline`, `Fifo` and `NoLostWakeup` together.  `Fifo` alone is not inductive: that
`PollPop` removes what `PollFront` has read needs the mutex, so the lock discipline with its
clauses about `pc` and the front of the deque.  `ImplementsFifo` proves that initial states
and steps map to those of `FifoQueue` under `queue <- d, puts <- Puts`.  Its liveness part is
model-checked only.

**NodeEProofs** (`PayloadAssumption`, `BoundsAssumption`; reads may cut the stream anywhere and the
connection may break).  `TInv` adds to `TypeOK` (in two parts, `ThreadTypes` and `QueueTypes`) the
conjunct `Handshakes`: an answer to a part of a handshake is the last one expected, so that an
answer of the right kind is one the Core Complex asked for in this state; the second message of
a handshake has been reserved; a seed is given before a cipher is asked for.  `KInv` gives
`KeyedBeforeUse`: until the first handshake is over there is no request for a cipher and no
`HS_COMPLETE` in any of the five queues, nor in the block that a failed `read` leaves behind.

`OrderIsKept` and `KeysAgree` add `ReplyAssumption` (a reply is not "no answer") and the switch `PromptMain`,
without which the cipher may be built from a freed block; reads, the end of the connection, seeds, texts, window
and numbers of messages are arbitrary.  `AnswersKeepOrder` says that the answers under way are
`Among` the expected ones: some of them, in their order.  Neither it nor
`KeyAgreement` is inductive, and each needs the other: the order shows that nothing is under way
when a seed is given, and the seeds show under which key an answer will be made.  `OInv` is:

* `Order`: all that is under way is among what is expected, and after a reset what was written is.  The
  second does not follow from the first once the first is given up.
* `Keyed`: the node's cipher has the seed the Core Complex gave last, or nothing on its way
  asks for a cipher or says it is ready; and each seed on its way is that one.  Without it
  an answer could be made under an earlier seed.  It holds after a reset too, where `read` no
  longer fills the buffer and the same text may be parsed again; therefore it is also about
  that text, and needs `LastRead`.
* `LastRead`: when all is read, and the request for a handshake is answered or its answer is under
  way, what was read last is that request or did not parse.  Reads cut anywhere can make the last
  two messages one text that does not parse, but then the request is lost and has no answer.
  So a seed that was read before is no longer in the buffer when the Core Complex gives another,
  nor is a request for a cipher.
* `CoreExpects`: during a handshake what is expected ends with the answer to its last message.  The
  Core Complex drops that answer, and what it then asks for, a new key among it, has
  nothing older behind it.
* `Linked`: the seed is freed, and nothing has happened, before the connection is up.

The proof sees the way of a message as a sequence of items, one for each token, that are
an answer or None.  A thread's step moves the border between two parts of the sequence
(`MovePush`, `MoveOut`, `MoveReceived`), or turns an item into the answer it stands for.
A read may drop items or turn some into None (`ReadMoves`, from `ReadAny`,
which cuts the stream at an arbitrary place), and a token that does not parse is None from the start.
Each of these is `Among` what was there before, and `AmongTransitive` carries the choice of
positions through, so that no proof of a step ever builds one.

`NothingIsDoneInVain` proves `StepsAdvance` without `PromptMain`.  `Work` weighs everything under way
by the steps it still has before it.  A read may begin and end at three places in each message
and makes one token, so that what is unread weighs most, at each of its places; a token weighs less
with every queue it moves on to.  `WorkFalls` goes through the actions: what a read takes from the
stream weighs more than the token it makes (`Receive`), and the consumer's answer weighs less than
the token it polled.  Only the Core Complex can add to the sum, by sending (`sent`).  With the fairness
of the threads this is why each message is answered in the end.

**NodeEServiceProofs** (the assumptions of `NodeEProofs`, and in each theorem the two switches `WholeMessages` and
`PromptMain`, without which `node_fragment` and `node_seed_race` violate what is proved; the connection
may break, and the number of messages, seeds, texts and the window are arbitrary).  `SInv` is, beside `OInv`:
`WholeReads`, that all that is queued while the connection is open did parse;
`Phases`, that `expected` is what was written, followed by what the consumer has in hand and what
was asked, together with where the one handshake in progress is;
`ExitOnlyWhenPeerGone`; and `WrittenFirst`, that what was written is the beginning of
what is expected, which unlike `Phases` survives the end of the connection.  The argument is in
the lemmas `Move...`: each thread's step moves one answer over the border between two of the parts
of `Phases` and changes no other.  That a token in front of the seed is impossible
(`NoHandshakeError`) follows from `Phases` and from the place of a handshake's answer in
`expected`.  `AnswersAreNeverWrong` is then a step simulation of `CipherService`.

`NeverStandsStill` reads `Phases` in the states where every thread blocks: with all queues
empty, the answers written are all that is expected; and since the place of the handshake is
known to both ends, the consumer polls for a seed if and only if the Core Complex has been, or
is about to be, told to give it.  Together with `NothingIsDoneInVain` it is the safety half of
`HandshakeCompletes`: a node that has work gets on with it, and one that has none owes nothing.

**QPPProofs** (`SizeAssumption`, `InputAssumption`).  `IInv` adds to `TypeOK` and
`MatricesInvert` that every ciphertext made is, as far as its text reaches, the permuted mask
of that text under the members of the object (`MadeByKey`), and `RoundTrip`.  The lemmas of
`WordsProofs` give what is needed of words: a mask applied twice is no mask, `Shuffle` keeps
permutations, a permutation of the four words is onto, `InvMatrix` inverts.
`generateMatrix` is a set of functions related to their predecessors, and `MatricesPermute`
needs an induction over the matrices, for which it takes a least counterexample.

**QPPHLSProofs** (`BlocksAssumption`, `KeysAssumption`, `TextsAssumption`, `CallsAssumption`).
The inductive invariant says, beside the types:
`Turns`, that kernel and driver take turns: a call in progress is the one whose registers the
stage has set, or one of any kind that a stopped process left behind, which ends before the first
command of the next; `Loaded`, how far each table has come on its way from the key through the region
`PERMS` into the kernel; and `CiphersAreBytes`.  `DoneIsNotLost` needs `Turns` to know that
nobody reads the register between the end of a call and the loop that waits for it.
`TablesInverse` needs `Loaded`, and the data lemmas: what is packed is what is unpacked for
each of the four matrices (`TablesArrive`), tables are tables whatever is in the region
(`LoadedTables`), `prng` yields a block (`PrngBlock`).  `KernelOwnsMemory` is an action
property that follows from `Turns` for each action.  So does `CallsAdvance`: a stage is four steps
of the driver and at most `Blocks + 2` of the kernel, and `Turns` excludes that the kernel takes a step
it was not started for, or the driver one that waits for a call of its own twice.

`FreshCiphersReturn` (the first ciphertext after a handshake comes back) needs more, `RInv`: where the shift
register holds the seed (`Seeded`), what `SRC` holds during a call (`Given`), and, for
each block done, that the shift register and `DST` are where they should be (`Encrypting`, `Decrypting`).
The stream of masks would be a recursive function, about which nothing can be
proved here.  The invariant avoids it: it says that some sequence exists which starts with the
seed and of which each member up to now is the `prng` of the one before; a turn of the
kernel's loop appends one.  Encryption leaves such a sequence with the ciphertext (`FreshAreEnciphered`),
and decryption follows it.  `SeedArrives` is a part of `RInv`: `Seeded` needs that a call left behind is over when
the constructor starts its own, and that this one reads the seed as the constructor wrote it.
The lemmas `FreshCiphersReturn` rests on are `BlockRoundTrip`, that decryption of a block under
the same mask undoes its encryption, and `PackUnpack`, that bytes survive being packed into words and back.

**DemoProgramsProofs** (`BlocksAssumption`, `InputsAssumption`: texts are as long as the code's and padded with
zeros).  All theorems but the last are for any text, any first value of the shift register, any call left behind that
`Init` and `Stop` allow for, any layout of the arrays and any behaviour of the cache; tables are those of the `test_data.h` files.
`IInv` is `TypeOK`; `Turns`, that a call in progress is the one the program waits for
in `while(!qpp_done)`, or was left behind for a Linux program that has not made its first call
(`BeforeItsCall`), and that the registers are those of the current call unless that one `overlapped`:
then the program waits for the call that was left behind, and from the second command on is in step again,
which is `CommandsDoNotOverlap`; and `CipherKept`, that after the invalidation
the lines with `b_out` hold what the kernel wrote.  `PInv` adds what `PrintsPlainText` needs as long
as its conditions hold (`Unspoilt`: the shift register starts with 0, the program did not overlap a call left behind,
and no write-back has done harm): the register stays 0, since
`prng` of zeros is zeros (`ZeroIsFixed`); the arguments of each call are in their place; the
tables arrive; and what has been encrypted and decrypted block by block.

`BenchSucceeds` is about fixed data: the bench's arrays have three blocks, so the theorem assumes
`Blocks = 3`, and the text, the seed, the tables and the expected ciphertext are those of `test_data.h`.
Nothing but the shift register's first value is free, and it is arbitrary.  The
theorem says that six calls leave in the arrays what the two checks compare with.  `BenchKept` says for
each call where the shift register is (`BenchSeed`), which tables have arrived (`BenchLoaded`), and
which blocks are done (`BenchCipher`, `BenchText`).  The masks cannot be left unnamed
here as in `FreshCiphersReturn`.  They are `BenchMask`, the seed and what `prng` makes of it three times.
`PrngRow` says for any block what `prng` makes of it: the words move on by a bit, and the bit that
comes in is the parity of the taps.  With it `MaskRows` computes the three masks, `BenchWords` and
`BenchBlocks` each block of the ciphertext, and `BenchTables` shows that the second table undoes the
first.

**QPPHardwareProofs** (`BlocksAssumption`) has what both rest on: types of blocks, areas and tables, `prng` yields
a block, `LoadTables` tables, decryption of a block undoes
its encryption.

## 7. What is only model-checked

All liveness, and the fairness part of refinements (`EveryItemPolled`, `HandshakeCompletes`,
`HandshakeNeverHangs`, `CallsReturn`, `Terminates`, `WF` in `ImplementsFifoQueue` and
`ImplementsCipherService`): TLAPS does not handle `ENABLED`.  What is proved next to them is that
nothing turns in vain (`StepsAdvance`, `CallsAdvance`), that no wait is for nothing (`NoLostWakeup`,
`NoStandstill`, `DoneIsNotLost`), and the safety part of the refinements.

`ReadsAreAllOrNothing` and `ParseMatchesGrammar` of `InstructionToken`: the parser and the
grammar are recursive operators over texts, and what they compute for every text needs an induction
that the provers cannot do.

## 8. What is not modelled, and why

* json11 beyond parsing: comments, `parse_multi`, `has_shape`, the comparison of values and
  `Json::dump`, which nothing calls.  The node prints its messages with `InstructionToken::dump`.
* The reuse of the freed seed block by the allocator: see NodeE in section 2.
* For the Linux program, calls that NodeE-HLS leaves behind other than the load of its first
  seed.  That one, and the calls of the program itself, show what the missing wait does.
* A restart of the firmware: it is booted together with the device.
* `Vitis/embedded-linux` mock host and mock node: one message each way and the end, without
  threads, cipher or a reaction to what is received.
* `IOManagement`, `Timing`, `Statistics`: measurements written by destructors that never run,
  as both node programs loop for ever.
* Failure of `socket`, `inet_pton`, `open` and `mmap`: the process ends before there is state.
* The `QPP` copy of NodeE-HLS: nothing constructs it.  Its `decrypt` reduces the dispatch index
  modulo `M`; as the mutant `RestoredModM` it violates `RoundTrip`.
* Messages that break the protocol, and sizes that exceed a buffer.
* Vivado, device-tree and build files, except the memory map, which is `Regions`.

## 9. Plan

1. *Model* the exchange of `mock-host/main.c` and `nodeE-C-maxi/main.cpp`, should it gain a
   reaction to what it receives.
