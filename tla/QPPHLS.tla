-------------------------------- MODULE QPPHLS --------------------------------
(***************************************************************************)
(* The class QPP_HLS (Linux/NodeE-HLS/src/QPP_HLS.cpp), through which the  *)
(* consumer thread of NodeE-HLS uses the kernel: the constructor loads the *)
(* shift register and the two tables, encrypt and decrypt run the kernel   *)
(* on the regions SRC and DST.  Each read of the control register is a     *)
(* step of its own, interleaved with the steps of the kernel.              *)
(***************************************************************************)
EXTENDS QPPHardware

CONSTANTS
  Keys,       \* what SET_SEED gives: the bytes of the seed, and the matrices that
              \* generateMatrix draws from random() after srand(seed[0])
  Texts,      \* the texts to encrypt, as sequences of bytes
  MaxCalls,   \* bound: calls of encrypt and decrypt on one object
  MaxObjects  \* bound: handshakes

ASSUME CallsAssumption == MaxCalls \in Nat /\ MaxObjects \in Nat

ASSUME KeysAssumption ==
  \A k \in Keys :
    /\ k.bytes \in [1..4 -> 0..255]
    /\ k.pmat \in Tables
    /\ \A i \in 0..(M - 1) : IsPermutation(k.pmat[i])

TextLength == 4 * Blocks

ASSUME TextsAssumption ==
  \A t \in Texts : t \in Seq(0..255) /\ Len(t) \in 1..TextLength

VARIABLES
  stage,   \* the call in progress, by the command it runs, or "idle"
  phase,   \* in a stage: "ready", "done" and "drain" are its three loops
  key,     \* the member of Keys the object was constructed with, or NoKey
  input,   \* the text, or the record of a ciphertext, that the call works on
  made,    \* ciphertexts made under this key: [text, cipher, fresh]
  answer,  \* the last ciphertext decrypted, and what decrypt returned for it
  calls,   \* number of calls of encrypt and decrypt on this object
  objects  \* number of objects constructed

driverVars == <<stage, phase, key, input, made, answer, calls, objects>>
vars == <<hwVars, driverVars>>

NoKey == [bytes |-> <<>>]
None == <<>>

-----------------------------------------------------------------------------
(* Bytes and blocks                                                        *)

\* Faulty: the bits above the word are kept.
UnmaskedWordOf(byte, j) == byte \div <<64, 16, 4, 1>>[j + 1]

\* The j-th word of a byte, j = 0 the most significant.
WordOf(byte, j) == (byte \div <<64, 16, 4, 1>>[j + 1]) % 4

\* The loops of setPlainText, setCipherText and the constructor: a byte takes four
\* lanes, the first byte of a block the first four, and the rest of the region is 0.
Pack(bytes) ==
  [a \in Addresses |-> [j \in Lanes |->
    LET at == (4 * a) + (j \div 4) + 1
    IN  IF at <= Len(bytes) THEN WordOf(bytes[at], j % 4) ELSE 0]]

\* The loops at the end of encrypt and decrypt.
Unpack(area) ==
  [at \in 1..TextLength |->
    LET word(j) == area[(at - 1) \div 4][(4 * ((at - 1) % 4)) + j]
    IN  (64 * word(0)) + (16 * word(1)) + (4 * word(2)) + word(3)]

\* The loops of generateMatrix and generateInvMatrix that write the tables.  The
\* block number never advances: block_pos counts matrices, not elements, and there
\* are 5, not 16.  So element l of matrix k goes to lane 4k + l of block 0, and for
\* the last matrix right_offset is negative: an ARM core shifts every bit out.
PackTables(tables) ==
  [a \in Addresses |-> [j \in Lanes |->
    IF a = 0 THEN tables[j \div mat_size][j % mat_size] ELSE 0]]

\* Calls that run the kernel, and the registers each one sets.
RegistersFor(st) ==
  CASE st \in {"ctorSeed", "decryptSeed"} ->
         [reg EXCEPT !.control = "LD_SEED", !.size = 1, !.src = "SEED"]
    [] st = "ctorPerms" ->
         [reg EXCEPT !.control = "LD_PERMS", !.size = 4 * n * M, !.src = "PERMS"]
    [] st = "ctorTPerms" ->
         [reg EXCEPT !.control = "LD_T_PERMS", !.size = 4 * n * M, !.src = "PERMS"]
    [] st = "encrypt" -> CipherRegisters
    [] st = "decrypt" -> [CipherRegisters EXCEPT !.control = "DECRYPT"]

Stages == {"ctorSeed", "ctorPerms", "ctorTPerms", "encrypt", "decryptSeed", "decrypt"}

Enter(st) == stage' = st /\ phase' = "ready"

-----------------------------------------------------------------------------

Init ==
  /\ \E s0 \in {ZeroBlock} \union {Pack(k.bytes)[0] : k \in Keys} : HwInit(s0)
  /\ mem = ZeroMemory
  /\ NoCall
  /\ stage = "idle"
  /\ phase = "ready"
  /\ key = NoKey
  /\ input = None
  /\ made = {}
  /\ answer = None
  /\ calls = 0
  /\ objects = 0

\* new QPP_HLS(seed), up to the first loop.  The kernel keeps what the object before
\* this one left in it.
Construct(k) ==
  /\ stage = "idle"
  /\ objects < MaxObjects
  /\ objects' = objects + 1
  /\ key' = k
  /\ mem' = [mem EXCEPT !["SEED"] = Pack(k.bytes)]
  /\ made' = {}
  /\ answer' = None
  /\ calls' = 0
  /\ Enter("ctorSeed")
  /\ UNCHANGED <<busVars, kernelVars, input>>

\* A turn of while(!qpp_ready(qpp_addr)); that finds a call still in progress.
NotReady ==
  /\ stage # "idle"
  /\ phase = "ready"
  /\ ap_start
  /\ ReadCtrl
  /\ UNCHANGED <<ap_start, reg, mem, kernelVars, driverVars>>

\* Faulty: the kernel is started without waiting, as Linux/app/main.c does.
StartUnready ==
  /\ stage # "idle"
  /\ phase = "ready"
  /\ Start(RegistersFor(stage))
  /\ phase' = "done"
  /\ UNCHANGED <<mem, kernelVars, stage, key, input, made, answer, calls, objects>>

\* The loop ends, the registers are set and the kernel is started.
StartCall ==
  /\ stage # "idle"
  /\ phase = "ready"
  /\ qpp_ready
  /\ Start(RegistersFor(stage))
  /\ phase' = "done"
  /\ UNCHANGED <<mem, kernelVars, stage, key, input, made, answer, calls, objects>>

\* Faulty: a loop on qpp_ready comes first.
AwaitReadyFirst ==
  /\ stage # "idle"
  /\ phase = "done"
  /\ qpp_ready
  /\ UNCHANGED <<ap_start, reg, mem, kernelVars, driverVars>>

\* The end of while(!qpp_done(qpp_addr));  A turn that finds ap_done clear changes
\* nothing.
AwaitDone ==
  /\ stage # "idle"
  /\ phase = "done"
  /\ qpp_done
  /\ phase' = "drain"
  /\ UNCHANGED <<ap_start, reg, mem, kernelVars, stage, key, input, made, answer, calls, objects>>

\* The end of while(!qpp_ready(qpp_addr)); behind it.
AwaitDrain ==
  /\ stage # "idle"
  /\ phase = "drain"
  /\ qpp_ready
  /\ phase' = "over"
  /\ UNCHANGED <<ap_start, reg, mem, kernelVars, stage, key, input, made, answer, calls, objects>>

\* generateMatrix() and generatingDispatchSequence(), whose result is not used.
GenerateMatrix ==
  /\ stage = "ctorSeed"
  /\ phase = "over"
  /\ mem' = [mem EXCEPT !["PERMS"] = PackTables(key.pmat)]
  /\ Enter("ctorPerms")
  /\ UNCHANGED <<busVars, kernelVars, key, input, made, answer, calls, objects>>

\* Faulty: the matrices are not inverted.
GenerateMatrixAgain ==
  /\ stage = "ctorPerms"
  /\ phase = "over"
  /\ mem' = [mem EXCEPT !["PERMS"] = PackTables(key.pmat)]
  /\ Enter("ctorTPerms")
  /\ UNCHANGED <<busVars, kernelVars, key, input, made, answer, calls, objects>>

\* generateInvMatrix()
GenerateInvMatrix ==
  /\ stage = "ctorPerms"
  /\ phase = "over"
  /\ mem' = [mem EXCEPT !["PERMS"] =
               PackTables([i \in 0..(M - 1) |-> InvMatrix(key.pmat[i])])]
  /\ Enter("ctorTPerms")
  /\ UNCHANGED <<busVars, kernelVars, key, input, made, answer, calls, objects>>

Constructed ==
  /\ stage = "ctorTPerms"
  /\ phase = "over"
  /\ Enter("idle")
  /\ UNCHANGED <<hwVars, key, input, made, answer, calls, objects>>

\* setPlainText(text, size), then encrypt() up to its first loop.
Encrypt(text) ==
  /\ stage = "idle"
  /\ key # NoKey
  /\ calls < MaxCalls
  /\ calls' = calls + 1
  /\ mem' = [mem EXCEPT !["SRC"] = Pack(text)]
  /\ input' = text
  /\ Enter("encrypt")
  /\ UNCHANGED <<busVars, kernelVars, key, made, answer, objects>>

\* encrypt() returns the blocks of DST.  The ciphertext is fresh if the shift register
\* held the seed when the call began: history, for the properties.
Encrypted ==
  /\ stage = "encrypt"
  /\ phase = "over"
  /\ made' = made \union
       {[text |-> input, cipher |-> Unpack(mem["DST"]), fresh |-> calls = 1]}
  /\ Enter("idle")
  /\ UNCHANGED <<hwVars, key, input, answer, calls, objects>>

\* Faulty: the seed is not loaded again.
DecryptUnseeded(c) ==
  /\ stage = "idle"
  /\ calls < MaxCalls
  /\ calls' = calls + 1
  /\ mem' = [mem EXCEPT !["SRC"] = Pack(c.cipher)]
  /\ input' = c
  /\ Enter("decrypt")
  /\ UNCHANGED <<busVars, kernelVars, key, made, answer, objects>>

\* setCipherText of a ciphertext the Core Complex was sent, then decrypt() up to its
\* first loop.
Decrypt(c) ==
  /\ stage = "idle"
  /\ calls < MaxCalls
  /\ calls' = calls + 1
  /\ mem' = [mem EXCEPT !["SRC"] = Pack(c.cipher)]
  /\ input' = c
  /\ Enter("decryptSeed")
  /\ UNCHANGED <<busVars, kernelVars, key, made, answer, objects>>

SeedReloaded ==
  /\ stage = "decryptSeed"
  /\ phase = "over"
  /\ Enter("decrypt")
  /\ UNCHANGED <<hwVars, key, input, made, answer, calls, objects>>

\* decrypt() returns the blocks of DST, of which Driver sends the first text_size.
Decrypted ==
  /\ stage = "decrypt"
  /\ phase = "over"
  /\ answer' = [of |-> input, text |-> SubSeq(Unpack(mem["DST"]), 1, Len(input.text))]
  /\ Enter("idle")
  /\ UNCHANGED <<hwVars, key, input, made, calls, objects>>

\* The process is stopped, wherever it is, and a new one comes up, in which no object has
\* been constructed.  The kernel knows nothing of it: a call in progress goes on.
Stop ==
  /\ key # NoKey
  /\ Enter("idle")
  /\ key' = NoKey
  /\ input' = None
  /\ made' = {}
  /\ answer' = None
  /\ calls' = 0
  /\ UNCHANGED <<hwVars, objects>>

KernelRuns == Kernel /\ UNCHANGED driverVars

Driver ==
  \/ NotReady \/ StartCall \/ AwaitDone \/ AwaitDrain
  \/ GenerateMatrix \/ GenerateInvMatrix \/ Constructed
  \/ Encrypted \/ SeedReloaded \/ Decrypted

Next ==
  \/ KernelRuns
  \/ Driver
  \/ \E k \in Keys : Construct(k)
  \/ \E text \in Texts : Encrypt(text)
  \/ \E c \in made : Decrypt(c)
  \/ Stop

\* The kernel is clocked and the consumer thread is scheduled.  Requests need not come,
\* and the process need not be stopped.
Fairness == WF_vars(KernelRuns) /\ WF_vars(Driver)

Spec == Init /\ [][Next]_vars
FairSpec == Spec /\ Fairness

-----------------------------------------------------------------------------
(* Properties                                                              *)

TypeOK ==
  /\ HwTypeOK
  /\ stage \in Stages \union {"idle"}
  /\ phase \in {"ready", "done", "drain", "over"}
  /\ key \in Keys \union {NoKey}
  /\ calls \in 0..MaxCalls
  /\ objects \in 0..MaxObjects

\* ap_done is cleared by any read of the control register, those of qpp_ready
\* included: while the driver waits for it, it is still to come or still there.
DoneIsNotLost ==
  phase = "done" => ap_start \/ ap_done

\* Driver and kernel take turns: while a call is pending or in progress, also one that a
\* stopped process left behind, nobody starts another one (it would be lost) or writes to
\* the registers or to the regions the call uses, so that no call works on a text or a
\* table that changes under it.  The exception: the constructor writes SEED before it
\* waits, and the LD_SEED of a stopped process may read SEED then.
KernelOwnsMemory ==
  [][ap_start \/ kernel # Idle
       => /\ phase' = "done" => phase = "done"
          /\ reg' = reg
          /\ \/ mem'[reg.src] = mem[reg.src]
             \/ reg.control = "LD_SEED" /\ key = NoKey
          /\ mem'[reg.dst] = mem[reg.dst] \/ kernel' # kernel]_vars

\* That exception does no harm: from the second call of the constructor on, until encrypt
\* or decrypt is called, the shift register holds the seed of this object's key, whatever
\* a call left behind loaded into it and whenever it did.
SeedLoadedFirst ==
  stage \in {"ctorPerms", "ctorTPerms"} \/ (stage = "idle" /\ key # NoKey /\ calls = 0)
    => seed = Pack(key.bytes)[0]

\* The steps that a call of the constructor, of encrypt or of decrypt has left: those of the
\* driver in this stage and in the stages behind it, and those of the kernel.
StepsBehind ==
  CASE stage = "ctorSeed" -> 8
    [] stage \in {"ctorPerms", "decryptSeed"} -> 4
    [] OTHER -> 0

StepsHere ==
  IF stage = "idle" THEN 0
  ELSE CASE phase = "ready" -> 4
         [] phase = "done" -> 3
         [] phase = "drain" -> 2
         [] phase = "over" -> 1

KernelLeft == IF ~ap_start THEN 0 ELSE IF kernel = Idle THEN Blocks + 2 ELSE Idle - kernel

\* No read of the control register is in vain and no use of the kernel is repeated: every
\* step during a call leaves less of it to be done.  Only the first loop of the constructor
\* may turn and change ap_done alone, while a call of a stopped process goes on.
CallsAdvance ==
  [][stage # "idle" =>
       \/ StepsBehind' + StepsHere' < StepsBehind + StepsHere
       \/ UNCHANGED <<stage, phase>> /\ KernelLeft' < KernelLeft
       \/ stage = "ctorSeed" /\ NotReady]_vars

\* When the constructor returns, and ever after, the two tables are those of this
\* object's key and undo each other, for every value a word of the mask can have,
\* although both go through the same region, and the last matrix does not arrive.
TablesInverse ==
  stage \in {"encrypt", "decryptSeed", "decrypt"} \/ (stage = "idle" /\ key # NoKey) =>
    \A x \in Word : perms[x] = key.pmat[x] /\ IsInverseOf(t_perms[x], perms[x])

\* The first ciphertext made after a handshake is decrypted to its text, whatever
\* was encrypted and decrypted in between.
FreshRoundTrip ==
  answer # None /\ answer.of.fresh => answer.text = answer.of.text

\* Every ciphertext is decrypted to its text.
RoundTrip ==
  answer # None => answer.text = answer.of.text

\* The fifth matrix arrives in the kernel, in the second block of the tables.
FifthMatrixLoaded ==
  stage = "idle" /\ key # NoKey => perms[4] = key.pmat[4]

\* Every call of the constructor, of encrypt and of decrypt returns: neither loop
\* waits for a bit that has been cleared by another read.
CallsReturn == stage # "idle" ~> stage = "idle"

=============================================================================
