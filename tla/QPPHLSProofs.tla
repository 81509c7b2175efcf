---------------------------- MODULE QPPHLSProofs ----------------------------
(***************************************************************************)
(* Proofs about the driver of the kernel, for every set of keys and texts, *)
(* every size of a text and any number of calls and handshakes.            *)
(***************************************************************************)
EXTENDS QPPHLS, QPPHardwareProofs

Inverses(tables) == [i \in 0..(M - 1) |-> InvMatrix(tables[i])]

-----------------------------------------------------------------------------
(* Words, blocks and tables                                                *)

LEMMA PackedTables ==
  ASSUME NEW tables \in Tables
  PROVE  PackTables(tables) \in Area
<1>1. ASSUME NEW j \in 0..15
      PROVE  tables[j \div 4][j % 4] \in 0..3
  <2>1. j \div 4 \in 0..4 /\ j % 4 \in 0..3
    OBVIOUS
  <2> QED
    BY <2>1, Shapes DEF Tables, Matrix
<1>2. \A a \in Addresses : \A j \in Lanes :
        (IF a = 0 THEN tables[j \div 4][j % 4] ELSE 0) \in Word
  BY <1>1, Shapes
<1>3. PackTables(tables) = [a \in Addresses |-> [j \in Lanes |->
                              IF a = 0 THEN tables[j \div 4][j % 4] ELSE 0]]
  BY DEF PackTables, mat_size
<1> QED
  BY <1>2, <1>3 DEF Area, Block

\* The first four matrices that the driver packs are those that the kernel unpacks.
LEMMA TablesArrive ==
  ASSUME NEW tables \in Tables, NEW x \in Word
  PROVE  LoadTables(PackTables(tables))[x] = tables[x]
<1> DEFINE b == PackTables(tables)
<1>1. b[0] = [j \in Lanes |-> tables[j \div 4][j % 4]]
  BY Shapes DEF PackTables, mat_size
<1>2. ASSUME NEW j \in 0..3
      PROVE  b[((4 * x) + j) \div 16][((4 * x) + j) % 16] = tables[x][j]
  <2>1. (4 * x) + j \in 0..15
    BY Shapes
  <2>2. ((4 * x) + j) \div 16 = 0 /\ ((4 * x) + j) % 16 = (4 * x) + j
    BY <2>1
  <2>3. ((4 * x) + j) \div 4 = x /\ ((4 * x) + j) % 4 = j
    BY <2>1, Shapes
  <2> QED
    BY <1>1, <2>1, <2>2, <2>3, Shapes
<1>3. LoadTables(b)[x] = [j \in 0..3 |-> b[((4 * x) + j) \div 16][((4 * x) + j) % 16]]
  BY Shapes DEF LoadTables, mat_size, BUS_WIDTH, n
<1>4. tables[x] = [j \in 0..3 |-> tables[x][j]]
  BY Shapes DEF Tables, Matrix
<1> QED
  <2> HIDE DEF b
  <2>1. LoadTables(b)[x] = [j \in 0..3 |-> tables[x][j]]
    BY <1>2, <1>3
  <2> QED
    BY <1>4, <2>1 DEF b

LEMMA InverseTables ==
  ASSUME NEW k \in Keys
  PROVE  /\ k.pmat \in Tables
         /\ Inverses(k.pmat) \in Tables
         /\ \A x \in Word : IsInverseOf(Inverses(k.pmat)[x], k.pmat[x])
<1>1. \A i \in 0..(M - 1) : IsPermutation(k.pmat[i])
  BY KeysAssumption
<1>2. \A i \in 0..(M - 1) : /\ InvMatrix(k.pmat[i]) \in Matrix
                            /\ IsInverseOf(InvMatrix(k.pmat[i]), k.pmat[i])
  BY <1>1, InvMatrixInverts
<1>3. \A x \in Word : x \in 0..(M - 1)
  BY Shapes
<1> QED
  BY <1>2, <1>3, KeysAssumption DEF Inverses, Tables

LEMMA Packed ==
  ASSUME NEW bytes, Len(bytes) \in Nat, \A at \in 1..Len(bytes) : bytes[at] \in 0..255
  PROVE  Pack(bytes) \in Area
<1>1. ASSUME NEW byte \in 0..255, NEW j \in 0..3
      PROVE  WordOf(byte, j) \in Word
  <2>1. <<64, 16, 4, 1>>[j + 1] \in {64, 16, 4, 1}
    OBVIOUS
  <2>2. byte \div <<64, 16, 4, 1>>[j + 1] \in Nat
    BY <2>1
  <2> QED
    BY <2>2, Shapes DEF WordOf
<1>2. ASSUME NEW a \in Addresses, NEW j \in Lanes
      PROVE  (IF (4 * a) + (j \div 4) + 1 <= Len(bytes)
              THEN WordOf(bytes[(4 * a) + (j \div 4) + 1], j % 4) ELSE 0) \in Word
  <2>1. j % 4 \in 0..3 /\ j \div 4 \in Nat /\ a \in Nat
    BY Shapes
  <2>2. (4 * a) + (j \div 4) + 1 \in Nat \ {0}
    BY <2>1
  <2>3. CASE (4 * a) + (j \div 4) + 1 <= Len(bytes)
    <3>1. (4 * a) + (j \div 4) + 1 \in 1..Len(bytes)
      BY <2>2, <2>3
    <3>2. bytes[(4 * a) + (j \div 4) + 1] \in 0..255
      BY <3>1
    <3> QED
      BY <1>1, <2>1, <2>3, <3>2
  <2>4. CASE ~((4 * a) + (j \div 4) + 1 <= Len(bytes))
    BY <2>4, Shapes
  <2> QED
    BY <2>3, <2>4
<1> QED
  BY <1>2 DEF Pack, Area, Block

LEMMA PackedText ==
  ASSUME NEW text \in Seq(0..255)
  PROVE  Pack(text) \in Area
<1>1. Len(text) \in Nat
  OBVIOUS
<1>2. ASSUME NEW at \in 1..Len(text)
      PROVE  text[at] \in 0..255
  BY ElementOfSeq
<1> QED
  BY <1>1, <1>2, Packed

LEMMA PackedSeed ==
  ASSUME NEW bytes \in [1..4 -> 0..255]
  PROVE  Pack(bytes) \in Area
<1>1. bytes \in Seq(0..255)
  <2>1. Seq(0..255) = UNION {[1..k -> 0..255] : k \in Nat}
    BY SeqDef
  <2>2. [1..4 -> 0..255] \in {[1..k -> 0..255] : k \in Nat}
    BY 4 \in Nat
  <2> QED
    BY <2>1, <2>2, Zenon
<1> QED
  BY <1>1, PackedText

LEMMA Unpacked ==
  ASSUME NEW area \in Area
  PROVE  Unpack(area) \in [1..TextLength -> 0..255] /\ Len(Unpack(area)) = TextLength
<1>1. TextLength \in Nat
  BY Shapes DEF TextLength
<1>2. ASSUME NEW at \in 1..TextLength, NEW j \in 0..3
      PROVE  area[(at - 1) \div 4][(4 * ((at - 1) % 4)) + j] \in 0..3
  <2>1. (at - 1) \div 4 \in 0..(Blocks - 1) /\ (at - 1) % 4 \in 0..3
    BY <1>1, Shapes DEF TextLength
  <2>2. (4 * ((at - 1) % 4)) + j \in 0..15
    BY <2>1
  <2> QED
    BY <2>1, <2>2, Shapes DEF Area, Block
<1>3. \A w0, w1, w2, w3 \in 0..3 : (64 * w0) + (16 * w1) + (4 * w2) + w3 \in 0..255
  OBVIOUS
<1> DEFINE word(at, j) == area[(at - 1) \div 4][(4 * ((at - 1) % 4)) + j]
           byte(at) == (64 * word(at, 0)) + (16 * word(at, 1)) + (4 * word(at, 2)) + word(at, 3)
<1>4. Unpack(area) \in [1..TextLength -> 0..255]
  <2>1. Unpack(area) = [at \in 1..TextLength |-> byte(at)]
    BY DEF Unpack
  <2>2. ASSUME NEW at \in 1..TextLength
        PROVE  byte(at) \in 0..255
    <3>1. /\ word(at, 0) \in 0..3 /\ word(at, 1) \in 0..3
          /\ word(at, 2) \in 0..3 /\ word(at, 3) \in 0..3
      BY <1>2
    <3> HIDE DEF word
    <3> QED
      BY <1>3, <3>1
  <2> HIDE DEF byte
  <2> QED
    BY <2>1, <2>2
<1> QED
  BY <1>1, <1>4

-----------------------------------------------------------------------------
(* The inductive invariant                                                 *)

\* The registers are those of the call that the stage runs.
RegistersMatch ==
  /\ stage \in {"ctorSeed", "decryptSeed"} =>
       reg.control = "LD_SEED" /\ reg.src = "SEED"
  /\ stage = "ctorPerms" => reg.control = "LD_PERMS" /\ reg.src = "PERMS"
  /\ stage = "ctorTPerms" => reg.control = "LD_T_PERMS" /\ reg.src = "PERMS"
  /\ stage = "encrypt" => reg = CipherRegisters
  /\ stage = "decrypt" => reg = [CipherRegisters EXCEPT !.control = "DECRYPT"]

\* A process has come up, and its first handshake has not got behind its first loop: a
\* call in progress is one that the process before left behind.
ComingUp == phase = "ready" /\ (stage = "ctorSeed" \/ (stage = "idle" /\ key = NoKey))

\* What each command reads.
SourceMatches ==
  /\ reg.control = "LD_SEED" => reg.src = "SEED"
  /\ reg.control \in {"LD_PERMS", "LD_T_PERMS"} => reg.src = "PERMS"
  /\ reg.control \in {"ENCRYPT", "DECRYPT"} => reg.src = "SRC"

\* Driver and kernel take turns.  A call in progress is the one the driver waits for,
\* or one left behind.
Turns ==
  /\ kernel # Idle => ap_start
  /\ SourceMatches
  /\ reg.dst = "DST"
  /\ reg.control \in {"ENCRYPT", "DECRYPT"} => reg.size = Blocks
  /\ stage = "idle" => phase = "ready"
  /\ stage # "idle" \/ made # {} => key # NoKey
  /\ ap_start => \/ ComingUp
                 \/ phase = "done" /\ ~ap_done /\ stage # "idle" /\ RegistersMatch
  /\ DoneIsNotLost

\* The call of stage st has been made and is over.
Settled(st) == stage = st /\ phase # "ready" /\ ~ap_start

PermsLoaded == \A x \in Word : perms[x] = key.pmat[x]
TPermsLoaded == \A x \in Word : t_perms[x] = Inverses(key.pmat)[x]

InUse ==
  stage \in {"encrypt", "decryptSeed", "decrypt"} \/ (stage = "idle" /\ key # NoKey)

\* How far the tables have come, from the region they go through to the kernel.
Loaded ==
  /\ stage = "ctorPerms" => mem["PERMS"] = PackTables(key.pmat)
  /\ stage = "ctorTPerms" => mem["PERMS"] = PackTables(Inverses(key.pmat))
  /\ Settled("ctorPerms") \/ stage = "ctorTPerms" \/ InUse => PermsLoaded
  /\ Settled("ctorTPerms") \/ InUse => TPermsLoaded

CiphersAreBytes ==
  \A c \in made : c.cipher \in [1..TextLength -> 0..255] /\ Len(c.cipher) = TextLength

IInv == TypeOK /\ Turns /\ Loaded /\ CiphersAreBytes

-----------------------------------------------------------------------------
(* Facts about the invariant                                               *)

LEMMA NoKeyIsNone == \A k \in Keys : k # NoKey
  BY KeysAssumption DEF NoKey

\* Between two calls the kernel is idle, and nothing has started it.
LEMMA Quiet ==
  ASSUME IInv,
         phase \in {"drain", "over"} \/ (stage # "idle" /\ ~ap_start)
           \/ (stage = "idle" /\ key # NoKey)
  PROVE  ~ap_start /\ kernel = Idle
  BY DEF IInv, Turns, ComingUp

\* A load that the kernel runs is the one its stage asks for, or was left behind.
LEMMA LoadsMatch ==
  ASSUME IInv, kernel = 0
  PROVE  /\ ap_start /\ 0 # Idle
         /\ reg.control = "LD_PERMS" => reg.src = "PERMS"
         /\ reg.control = "LD_T_PERMS" => reg.src = "PERMS"
         /\ reg.control = "LD_SEED" => reg.src = "SEED"
         /\ \/ ComingUp
            \/ /\ phase = "done"
               /\ reg.control = "LD_PERMS" => stage = "ctorPerms"
               /\ reg.control = "LD_T_PERMS" => stage = "ctorTPerms"
               /\ reg.control = "LD_SEED" => stage \in {"ctorSeed", "decryptSeed"}
<1>1. 0 # Idle
  BY Shapes DEF Idle
<1>2. ap_start
  BY <1>1 DEF IInv, Turns
<1>3. SourceMatches
  BY DEF IInv, Turns
<1>4. CASE phase = "done" /\ stage # "idle" /\ RegistersMatch
  BY <1>1, <1>2, <1>3, <1>4
  DEF IInv, TypeOK, Stages, RegistersMatch, SourceMatches, CipherRegisters
<1> QED
  BY <1>1, <1>2, <1>3, <1>4 DEF IInv, Turns, SourceMatches

LEMMA CipherInProgress ==
  ASSUME IInv, reg.control \in {"ENCRYPT", "DECRYPT"}, kernel <= reg.size
  PROVE  /\ ap_start
         /\ kernel \in 0..Blocks
         /\ reg.size = Blocks
         /\ reg.dst = "DST" /\ reg.src \in Regions \ {"DST"}
         /\ ComingUp \/ (phase = "done" /\ stage \in {"encrypt", "decrypt"})
<1>1. reg.size = Blocks /\ reg.dst = "DST" /\ reg.src \in Regions \ {"DST"}
  BY DEF IInv, Turns, SourceMatches, Regions
<1>2. kernel \in 0..Blocks /\ kernel # Idle
  BY <1>1, Shapes DEF IInv, TypeOK, HwTypeOK, Idle
<1>3. ap_start
  BY <1>2 DEF IInv, Turns
<1>4. ComingUp \/ (phase = "done" /\ stage \in {"encrypt", "decrypt"})
  BY <1>3 DEF IInv, Turns, TypeOK, Stages, RegistersMatch
<1> QED
  BY <1>1, <1>2, <1>3, <1>4

-----------------------------------------------------------------------------
(* The initial states                                                      *)

LEMMA InitInv ==
  ASSUME Init
  PROVE  IInv
<1>1. PICK s0 \in {ZeroBlock} \union {Pack(k.bytes)[0] : k \in Keys} : HwInit(s0)
  BY DEF Init
<1>2. s0 \in Block
  <2>1. ASSUME NEW k \in Keys
        PROVE  Pack(k.bytes)[0] \in Block
    <3>1. k.bytes \in [1..4 -> 0..255]
      BY KeysAssumption
    <3>2. Pack(k.bytes) \in Area
      BY <3>1, PackedSeed
    <3> QED
      BY <3>2, Shapes DEF Area
  <2> QED
    BY <2>1, ZeroShapes
<1>3. CipherRegisters \in Registers
  BY Shapes DEF CipherRegisters, Registers, Commands, Regions
<1>4. HwTypeOK
  <2>1. ap_start \in BOOLEAN /\ kernel \in 0..Blocks \union {Idle}
    BY DEF Init, NoCall
  <2> QED
    BY <1>1, <1>2, <1>3, <2>1, ZeroShapes DEF Init, HwInit, NoCall, HwTypeOK, ZeroMemory
<1>5. TypeOK
  BY <1>4, CallsAssumption DEF Init, TypeOK
<1>6. Turns
  BY <1>1 DEF Init, HwInit, Turns, SourceMatches, DoneIsNotLost, CipherRegisters, NoCall
<1>7. Loaded /\ CiphersAreBytes
  BY DEF Init, Loaded, InUse, Settled, CiphersAreBytes
<1> QED
  BY <1>5, <1>6, <1>7 DEF IInv

-----------------------------------------------------------------------------
(* The steps of the kernel                                                 *)

LEMMA LoadStep ==
  ASSUME IInv, UNCHANGED driverVars, LoadPerms \/ LoadTPerms \/ LoadSeed
  PROVE  IInv'
<1>1. /\ kernel = 0
      /\ mem' = mem /\ reg' = reg /\ Return
  BY DEF LoadPerms, LoadTPerms, LoadSeed, Return
<1>2. mem[reg.src] \in Area
  BY DEF IInv, TypeOK, HwTypeOK, Registers
<1>3. CASE LoadPerms
  <2>1. perms' = LoadTables(mem[reg.src]) /\ t_perms' = t_perms /\ seed' = seed
        /\ reg.control = "LD_PERMS"
    BY <1>3 DEF LoadPerms
  <2>2. reg.src = "PERMS" /\ (ComingUp \/ (stage = "ctorPerms" /\ phase = "done"))
    BY <1>1, <2>1, LoadsMatch
  <2>3. perms' \in Tables
    BY <1>2, <2>1, LoadedTables
  <2>4. ASSUME stage = "ctorPerms"
        PROVE  PermsLoaded'
    <3>1. key \in Keys
      BY <2>4 DEF IInv, TypeOK, Turns
    <3>2. mem["PERMS"] = PackTables(key.pmat)
      BY <2>4 DEF IInv, Loaded
    <3>3. key.pmat \in Tables
      BY <3>1, InverseTables
    <3> QED
      BY <2>1, <2>2, <3>2, <3>3, TablesArrive DEF PermsLoaded, driverVars
  <2>5. TypeOK'
    BY <1>1, <2>1, <2>3 DEF IInv, TypeOK, HwTypeOK, Return, driverVars
  <2>6. Turns'
    BY <1>1, <2>2 DEF IInv, Turns, SourceMatches, DoneIsNotLost, Return, driverVars
  <2>7. Loaded'
    BY <1>1, <2>2, <2>4 DEF IInv, Loaded, InUse, Settled, ComingUp, driverVars
  <2> QED
    BY <2>5, <2>6, <2>7 DEF IInv, CiphersAreBytes, driverVars
<1>4. CASE LoadTPerms
  <2>1. t_perms' = LoadTables(mem[reg.src]) /\ perms' = perms /\ seed' = seed
        /\ reg.control = "LD_T_PERMS"
    BY <1>4 DEF LoadTPerms
  <2>2. reg.src = "PERMS" /\ (ComingUp \/ (stage = "ctorTPerms" /\ phase = "done"))
    BY <1>1, <2>1, LoadsMatch
  <2>3. t_perms' \in Tables
    BY <1>2, <2>1, LoadedTables
  <2>4. ASSUME stage = "ctorTPerms"
        PROVE  TPermsLoaded'
    <3>1. key \in Keys
      BY <2>4 DEF IInv, TypeOK, Turns
    <3>2. mem["PERMS"] = PackTables(Inverses(key.pmat))
      BY <2>4 DEF IInv, Loaded
    <3>3. Inverses(key.pmat) \in Tables
      BY <3>1, InverseTables
    <3> QED
      BY <2>1, <2>2, <3>2, <3>3, TablesArrive DEF TPermsLoaded, driverVars
  <2>5. TypeOK'
    BY <1>1, <2>1, <2>3 DEF IInv, TypeOK, HwTypeOK, Return, driverVars
  <2>6. Turns'
    BY <1>1, <2>2 DEF IInv, Turns, SourceMatches, DoneIsNotLost, Return, driverVars
  <2>7. Loaded'
    BY <1>1, <2>1, <2>2, <2>4
    DEF IInv, Loaded, InUse, Settled, PermsLoaded, ComingUp, driverVars
  <2> QED
    BY <2>5, <2>6, <2>7 DEF IInv, CiphersAreBytes, driverVars
<1>5. CASE LoadSeed
  <2>1. seed' = mem[reg.src][0] /\ perms' = perms /\ t_perms' = t_perms
        /\ reg.control = "LD_SEED"
    BY <1>5 DEF LoadSeed
  <2>2. ComingUp \/ (stage \in {"ctorSeed", "decryptSeed"} /\ phase = "done")
    BY <1>1, <2>1, LoadsMatch
  <2>3. seed' \in Block
    BY <1>2, <2>1, Shapes DEF Area
  <2>4. TypeOK'
    BY <1>1, <2>1, <2>3 DEF IInv, TypeOK, HwTypeOK, Return, driverVars
  <2>5. Turns'
    BY <1>1, <2>2 DEF IInv, Turns, SourceMatches, DoneIsNotLost, Return, driverVars
  <2>6. Loaded'
    BY <1>1, <2>1, <2>2
    DEF IInv, Loaded, InUse, Settled, PermsLoaded, TPermsLoaded, ComingUp, driverVars
  <2> QED
    BY <2>4, <2>5, <2>6 DEF IInv, CiphersAreBytes, driverVars
<1> QED
  BY <1>3, <1>4, <1>5

LEMMA CipherStep ==
  ASSUME IInv, UNCHANGED driverVars, CipherBlock \/ CipherReturn
  PROVE  IInv'
<1>1. CASE CipherBlock
  <2>1. /\ ap_start /\ kernel \in 0..(Blocks - 1) /\ reg.dst = "DST"
        /\ reg.src \in Regions \ {"DST"}
    BY <1>1, CipherInProgress DEF CipherBlock, IInv, TypeOK, HwTypeOK, Registers, Idle
  <2>2. seed' \in Block
    BY <1>1, PrngBlock DEF CipherBlock, IInv, TypeOK, HwTypeOK
  <2>3. mem[reg.src][kernel] \in Block
    BY <2>1, Shapes DEF IInv, TypeOK, HwTypeOK, Area
  <2> DEFINE out == IF reg.control = "ENCRYPT"
                    THEN EncryptBlock(perms, mem[reg.src][kernel], seed')
                    ELSE DecryptBlock(t_perms, mem[reg.src][kernel], seed')
  <2>4. out \in Block
    BY <2>2, <2>3, CipherBlocks DEF IInv, TypeOK, HwTypeOK
  <2>5. mem' = [mem EXCEPT !["DST"][kernel] = out]
    BY <1>1, <2>1 DEF CipherBlock
  <2> HIDE DEF out
  <2>6. mem' \in [Regions -> Area] /\ mem'["PERMS"] = mem["PERMS"]
    BY <2>4, <2>5 DEF IInv, TypeOK, HwTypeOK, Area, Regions
  <2>7. kernel' \in 0..Blocks /\ UNCHANGED <<busVars, perms, t_perms>>
    BY <1>1, <2>1, Shapes DEF CipherBlock
  <2>8. TypeOK'
    BY <2>2, <2>6, <2>7 DEF IInv, TypeOK, HwTypeOK, busVars, driverVars
  <2>9. Turns'
    BY <2>1, <2>7
    DEF IInv, Turns, ComingUp, SourceMatches, RegistersMatch, DoneIsNotLost, busVars,
        driverVars
  <2>10. Loaded'
    BY <2>6, <2>7
    DEF IInv, Loaded, InUse, Settled, PermsLoaded, TPermsLoaded, busVars, driverVars
  <2> QED
    BY <2>8, <2>9, <2>10 DEF IInv, CiphersAreBytes, driverVars
<1>2. CASE CipherReturn
  <2>1. /\ ap_start
        /\ ComingUp \/ (phase = "done" /\ stage \in {"encrypt", "decrypt"})
    BY <1>2, CipherInProgress DEF CipherReturn, IInv, TypeOK, HwTypeOK, Registers
  <2>2. /\ Return /\ UNCHANGED <<mem, perms, t_perms, seed>>
    BY <1>2 DEF CipherReturn
  <2>3. TypeOK'
    BY <2>2 DEF IInv, TypeOK, HwTypeOK, Return, driverVars
  <2>4. Turns'
    BY <2>2 DEF IInv, Turns, SourceMatches, DoneIsNotLost, Return, driverVars
  <2>5. Loaded'
    BY <2>1, <2>2
    DEF IInv, Turns, Loaded, InUse, Settled, PermsLoaded, TPermsLoaded, ComingUp, Return,
        driverVars
  <2> QED
    BY <2>3, <2>4, <2>5 DEF IInv, CiphersAreBytes, driverVars
<1> QED
  BY <1>1, <1>2

LEMMA KernelStep ==
  ASSUME IInv, KernelRuns
  PROVE  IInv'
<1>1. UNCHANGED driverVars
  BY DEF KernelRuns
<1>2. CASE KernelBegin
  <2>1. /\ ap_start /\ kernel' = 0
        /\ UNCHANGED <<busVars, mem, perms, t_perms, seed>>
    BY <1>2 DEF KernelBegin
  <2>2. TypeOK'
    BY <1>1, <2>1, Shapes DEF IInv, TypeOK, HwTypeOK, busVars, driverVars
  <2>3. Turns'
    BY <1>1, <2>1
    DEF IInv, Turns, ComingUp, SourceMatches, RegistersMatch, DoneIsNotLost, busVars,
        driverVars
  <2>4. Loaded'
    BY <1>1, <2>1
    DEF IInv, Loaded, InUse, Settled, PermsLoaded, TPermsLoaded, busVars, driverVars
  <2> QED
    BY <1>1, <2>2, <2>3, <2>4 DEF IInv, CiphersAreBytes, driverVars
<1>3. CASE LoadPerms \/ LoadTPerms \/ LoadSeed
  BY <1>1, <1>3, LoadStep
<1>4. CASE CipherBlock \/ CipherReturn
  BY <1>1, <1>4, CipherStep
<1> QED
  BY <1>2, <1>3, <1>4 DEF KernelRuns, Kernel

-----------------------------------------------------------------------------
(* The steps of the driver                                                 *)

\* The three loops: what a step of one of them changes is the interface.
LEMMA WaitStep ==
  ASSUME IInv, NotReady \/ StartCall \/ AwaitDone \/ AwaitDrain
  PROVE  IInv'
<1>1. /\ stage # "idle" /\ key # NoKey
      /\ UNCHANGED <<mem, kernelVars, stage, key, made, calls, objects>>
  BY DEF IInv, Turns, NotReady, StartCall, AwaitDone, AwaitDrain, driverVars
<1>2. CiphersAreBytes'
  BY <1>1 DEF IInv, CiphersAreBytes
<1>3. PermsLoaded' = PermsLoaded /\ TPermsLoaded' = TPermsLoaded
  BY <1>1 DEF PermsLoaded, TPermsLoaded, kernelVars
<1>4. CASE NotReady
  <2>1. /\ phase = "ready" /\ phase' = phase /\ ap_start
        /\ ap_done' = FALSE /\ UNCHANGED <<ap_start, reg>>
    BY <1>4 DEF NotReady, ReadCtrl, driverVars
  <2>2. TypeOK'
    BY <1>1, <2>1 DEF IInv, TypeOK, HwTypeOK, kernelVars
  <2>3. Turns'
    BY <1>1, <2>1 DEF IInv, Turns, ComingUp, SourceMatches, DoneIsNotLost, kernelVars
  <2>4. Loaded'
    BY <1>1, <1>3, <2>1 DEF IInv, Loaded, InUse, Settled
  <2> QED
    BY <1>2, <2>2, <2>3, <2>4 DEF IInv
<1>5. CASE StartCall
  <2>1. /\ phase = "ready" /\ phase' = "done" /\ ~ap_start
        /\ reg' = RegistersFor(stage) /\ ap_start' = TRUE /\ ap_done' = FALSE
    <3>1. ~ap_start /\ kernel = Idle
      BY <1>5 DEF StartCall, qpp_ready, IInv, Turns
    <3> QED
      BY <1>5, <3>1 DEF StartCall, Start, ReadCtrl
  <2>2. /\ RegistersFor(stage) \in Registers
        /\ RegistersFor(stage).dst = "DST"
        /\ RegistersFor(stage).control \in {"ENCRYPT", "DECRYPT"}
             => RegistersFor(stage).size = Blocks
    <3>1. stage \in Stages /\ reg \in Registers /\ reg.dst = "DST"
      BY <1>1 DEF IInv, Turns, TypeOK, HwTypeOK
    <3>2. 4 * n * M \in Nat
      BY Shapes DEF n
    <3> QED
      BY <3>1, <3>2, Shapes
      DEF RegistersFor, Stages, Registers, Commands, Regions, CipherRegisters
  <2>3. RegistersMatch' /\ SourceMatches'
    <3>1. reg \in Registers /\ stage \in Stages
      BY <1>1 DEF IInv, TypeOK, HwTypeOK
    <3> QED
      BY <1>1, <2>1, <3>1
      DEF RegistersMatch, SourceMatches, RegistersFor, CipherRegisters, Registers, Stages
  <2>4. TypeOK'
    BY <1>1, <2>1, <2>2 DEF IInv, TypeOK, HwTypeOK, kernelVars
  <2>5. Turns'
    BY <1>1, <2>1, <2>2, <2>3 DEF Turns, DoneIsNotLost, kernelVars
  <2>6. Loaded'
    BY <1>1, <1>3, <2>1 DEF IInv, Loaded, InUse, Settled
  <2> QED
    BY <1>2, <2>4, <2>5, <2>6 DEF IInv
<1>6. CASE AwaitDone \/ AwaitDrain
  <2>1. /\ phase \in {"done", "drain"} /\ phase' \in {"drain", "over"}
        /\ ap_done' = FALSE /\ UNCHANGED <<ap_start, reg>>
    BY <1>6 DEF AwaitDone, AwaitDrain, qpp_done, qpp_ready, ReadCtrl
  <2>2. ~ap_start
    BY <1>6, <2>1 DEF IInv, Turns, ComingUp, AwaitDone, AwaitDrain, qpp_done, qpp_ready
  <2>3. TypeOK'
    BY <1>1, <2>1 DEF IInv, TypeOK, HwTypeOK, kernelVars
  <2>4. Turns'
    BY <1>1, <2>1, <2>2 DEF IInv, Turns, SourceMatches, DoneIsNotLost, kernelVars
  <2>5. Loaded'
    BY <1>1, <1>3, <2>1, <2>2 DEF IInv, Loaded, InUse, Settled
  <2> QED
    BY <1>2, <2>3, <2>4, <2>5 DEF IInv
<1> QED
  BY <1>4, <1>5, <1>6

\* The steps between two calls of the kernel, which find it idle.
LEMMA StageStep ==
  ASSUME IInv,
         \/ GenerateMatrix \/ GenerateInvMatrix \/ Constructed
         \/ Encrypted \/ SeedReloaded \/ Decrypted
  PROVE  IInv'
<1>1. /\ stage # "idle" /\ phase = "over" /\ phase' = "ready" /\ key \in Keys
      /\ key # NoKey
      /\ UNCHANGED <<busVars, kernelVars, key, calls, objects>>
  BY DEF IInv, TypeOK, Turns, GenerateMatrix, GenerateInvMatrix, Constructed, Encrypted,
         SeedReloaded, Decrypted, Enter, hwVars
<1>2. ~ap_start /\ kernel = Idle
  BY <1>1, Quiet
<1>3. /\ ~ap_start' /\ kernel' = Idle /\ ap_done' = ap_done /\ reg' = reg
      /\ key' = key /\ perms' = perms /\ t_perms' = t_perms /\ seed' = seed
  BY <1>1, <1>2 DEF busVars, kernelVars
<1>4. PermsLoaded' = PermsLoaded /\ TPermsLoaded' = TPermsLoaded
  BY <1>3 DEF PermsLoaded, TPermsLoaded
<1>5. stage' \in Stages \union {"idle"}
  BY DEF GenerateMatrix, GenerateInvMatrix, Constructed, Encrypted, SeedReloaded,
         Decrypted, Enter, Stages
<1>6. Turns'
  BY <1>1, <1>3 DEF IInv, Turns, SourceMatches, DoneIsNotLost
<1>7. ASSUME mem' \in [Regions -> Area]
      PROVE  TypeOK'
  <2>1. HwTypeOK'
    <3>1. HwTypeOK
      BY DEF IInv, TypeOK
    <3>2. ap_start' = ap_start /\ kernel' = kernel
      BY <1>2, <1>1 DEF busVars, kernelVars
    <3> QED
      BY <1>3, <1>7, <3>1, <3>2 DEF HwTypeOK
  <2>2. calls' \in 0..MaxCalls /\ objects' \in 0..MaxObjects
    BY <1>1 DEF IInv, TypeOK
  <2> QED
    BY <1>1, <1>3, <1>5, <2>1, <2>2 DEF TypeOK
<1>8. CASE GenerateMatrix
  <2>1. /\ mem' = [mem EXCEPT !["PERMS"] = PackTables(key.pmat)]
        /\ stage' = "ctorPerms" /\ made' = made
    BY <1>8 DEF GenerateMatrix, Enter
  <2>2. PackTables(key.pmat) \in Area
    BY <1>1, InverseTables, PackedTables
  <2>3. /\ mem' \in [Regions -> Area]
        /\ mem'["PERMS"] = PackTables(key.pmat)
    BY <2>1, <2>2 DEF IInv, TypeOK, HwTypeOK, Regions
  <2>4. Loaded'
    BY <1>1, <1>3, <2>1, <2>3 DEF Loaded, InUse, Settled
  <2> QED
    BY <1>6, <1>7, <2>1, <2>3, <2>4 DEF IInv, CiphersAreBytes
<1>9. CASE GenerateInvMatrix
  <2>1. /\ mem' = [mem EXCEPT !["PERMS"] = PackTables(Inverses(key.pmat))]
        /\ stage = "ctorPerms" /\ stage' = "ctorTPerms" /\ made' = made
    BY <1>9 DEF GenerateInvMatrix, Enter, Inverses
  <2>2. PackTables(Inverses(key.pmat)) \in Area
    BY <1>1, InverseTables, PackedTables
  <2>3. /\ mem' \in [Regions -> Area]
        /\ mem'["PERMS"] = PackTables(Inverses(key.pmat))
    BY <2>1, <2>2 DEF IInv, TypeOK, HwTypeOK, Regions
  <2>4. PermsLoaded
    BY <1>1, <1>2, <2>1 DEF IInv, Loaded, Settled
  <2>5. Loaded'
    BY <1>1, <1>3, <1>4, <2>1, <2>3, <2>4 DEF Loaded, InUse, Settled
  <2> QED
    BY <1>6, <1>7, <2>1, <2>3, <2>5 DEF IInv, CiphersAreBytes
<1>10. CASE Constructed
  <2>1. /\ mem' = mem /\ stage = "ctorTPerms" /\ stage' = "idle" /\ made' = made
    BY <1>10 DEF Constructed, Enter, hwVars
  <2>2. PermsLoaded /\ TPermsLoaded
    BY <1>1, <1>2, <2>1 DEF IInv, Loaded, Settled
  <2>3. Loaded'
    BY <1>1, <1>3, <1>4, <2>1, <2>2 DEF Loaded, InUse, Settled
  <2> QED
    BY <1>6, <1>7, <2>1, <2>3 DEF IInv, TypeOK, HwTypeOK, CiphersAreBytes
<1>11. CASE Encrypted \/ SeedReloaded \/ Decrypted
  <2>1. /\ mem' = mem
        /\ stage \in {"encrypt", "decryptSeed", "decrypt"}
        /\ stage' \in {"idle", "decrypt"}
    BY <1>11 DEF Encrypted, SeedReloaded, Decrypted, Enter, hwVars
  <2>2. Loaded'
    BY <1>1, <1>3, <1>4, <2>1 DEF IInv, Loaded, InUse, Settled
  <2>3. CiphersAreBytes'
    <3>1. CASE Encrypted
      <4>1. mem["DST"] \in Area
        BY DEF IInv, TypeOK, HwTypeOK, Regions
      <4>2. made' = made \union
              {[text |-> input, cipher |-> Unpack(mem["DST"]), fresh |-> calls = 1]}
        BY <3>1 DEF Encrypted
      <4> DEFINE new == [text |-> input, cipher |-> Unpack(mem["DST"]), fresh |-> calls = 1]
      <4>3. /\ new.cipher \in [1..TextLength -> 0..255]
            /\ Len(new.cipher) = TextLength
        BY <4>1, Unpacked
      <4> HIDE DEF new
      <4>4. made' = made \union {new}
        BY <4>2 DEF new
      <4> QED
        BY <4>3, <4>4, <1>1 DEF IInv, CiphersAreBytes
    <3>2. CASE SeedReloaded \/ Decrypted
      BY <3>2 DEF IInv, CiphersAreBytes, SeedReloaded, Decrypted
    <3> QED
      BY <1>11, <3>1, <3>2
  <2>4. TypeOK'
    BY <1>7, <2>1 DEF IInv, TypeOK, HwTypeOK
  <2> QED
    BY <1>6, <2>2, <2>3, <2>4 DEF IInv
<1> QED
  BY <1>8, <1>9, <1>10, <1>11

-----------------------------------------------------------------------------
(* The requests                                                            *)

LEMMA ConstructStep ==
  ASSUME IInv, NEW k \in Keys, Construct(k)
  PROVE  IInv'
<1>1. /\ stage = "idle" /\ phase = "ready" /\ objects < MaxObjects
      /\ stage' = "ctorSeed" /\ phase' = "ready" /\ key' = k /\ made' = {}
      /\ calls' = 0 /\ objects' = objects + 1
      /\ mem' = [mem EXCEPT !["SEED"] = Pack(k.bytes)]
      /\ UNCHANGED <<busVars, kernelVars>>
  BY DEF IInv, Turns, Construct, Enter
<1>2. Pack(k.bytes) \in Area
  BY KeysAssumption, PackedSeed
<1>3. TypeOK'
  BY <1>1, <1>2, CallsAssumption
  DEF IInv, TypeOK, HwTypeOK, Stages, Regions, busVars, kernelVars
<1>4. Turns'
  BY <1>1, NoKeyIsNone
  DEF IInv, Turns, ComingUp, SourceMatches, DoneIsNotLost, busVars, kernelVars
<1>5. Loaded' /\ CiphersAreBytes'
  BY <1>1 DEF Loaded, InUse, Settled, CiphersAreBytes
<1> QED
  BY <1>3, <1>4, <1>5 DEF IInv

\* encrypt and decrypt write to SRC before they look at the control register.
LEMMA RequestStep ==
  ASSUME IInv, stage = "idle", key # NoKey, calls < MaxCalls,
         NEW area \in Area, mem' = [mem EXCEPT !["SRC"] = area],
         stage' \in {"encrypt", "decryptSeed"}, phase' = "ready", calls' = calls + 1,
         UNCHANGED <<busVars, kernelVars, key, made, objects>>
  PROVE  IInv'
<1>1. ~ap_start /\ kernel = Idle
  BY Quiet
<1>2. TypeOK'
  BY CallsAssumption DEF IInv, TypeOK, HwTypeOK, Stages, Regions, busVars, kernelVars
<1>3. Turns'
  BY <1>1 DEF IInv, Turns, SourceMatches, DoneIsNotLost, busVars, kernelVars
<1>4. PermsLoaded' /\ TPermsLoaded'
  BY DEF IInv, Loaded, InUse, PermsLoaded, TPermsLoaded, kernelVars
<1>5. Loaded' /\ CiphersAreBytes'
  BY <1>4 DEF IInv, Loaded, Settled, CiphersAreBytes
<1> QED
  BY <1>2, <1>3, <1>5 DEF IInv

LEMMA EncryptStep ==
  ASSUME IInv, NEW text \in Texts, Encrypt(text)
  PROVE  IInv'
<1>1. text \in Seq(0..255)
  BY TextsAssumption
<1>2. Pack(text) \in Area
  BY <1>1, PackedText
<1> QED
  BY <1>2, RequestStep DEF Encrypt, Enter

LEMMA DecryptStep ==
  ASSUME IInv, NEW c \in made, Decrypt(c)
  PROVE  IInv'
<1>1. c.cipher \in [1..TextLength -> 0..255] /\ Len(c.cipher) = TextLength
  BY DEF IInv, CiphersAreBytes
<1>2. TextLength \in Nat
  BY Shapes DEF TextLength
<1>3. ASSUME NEW at \in 1..Len(c.cipher)
      PROVE  c.cipher[at] \in 0..255
  BY <1>1
<1>4. Pack(c.cipher) \in Area
  BY <1>1, <1>2, <1>3, Packed
<1>5. key # NoKey
  BY DEF IInv, Turns
<1> QED
  BY <1>4, <1>5, RequestStep DEF Decrypt, Enter

\* What is left of the process before is the kernel, and the call it may be in.
LEMMA StopStep ==
  ASSUME IInv, Stop
  PROVE  IInv'
<1>1. /\ stage' = "idle" /\ phase' = "ready" /\ key' = NoKey /\ made' = {} /\ calls' = 0
      /\ objects' = objects
      /\ UNCHANGED <<ap_start, ap_done, reg, mem, kernel, perms, t_perms, seed>>
  BY DEF Stop, Enter, hwVars, busVars, kernelVars
<1>2. TypeOK'
  BY <1>1, CallsAssumption DEF IInv, TypeOK, HwTypeOK
<1>3. Turns'
  BY <1>1 DEF IInv, Turns, ComingUp, SourceMatches, DoneIsNotLost
<1>4. Loaded' /\ CiphersAreBytes'
  BY <1>1 DEF Loaded, InUse, Settled, CiphersAreBytes
<1> QED
  BY <1>2, <1>3, <1>4 DEF IInv

-----------------------------------------------------------------------------
(* The theorems                                                            *)

LEMMA StepInv ==
  ASSUME IInv, [Next]_vars
  PROVE  IInv'
<1>1. CASE KernelRuns
  BY <1>1, KernelStep
<1>2. CASE Driver
  BY <1>2, WaitStep, StageStep DEF Driver
<1>3. CASE \E k \in Keys : Construct(k)
  BY <1>3, ConstructStep
<1>4. CASE \E text \in Texts : Encrypt(text)
  BY <1>4, EncryptStep
<1>5. CASE \E c \in made : Decrypt(c)
  BY <1>5, DecryptStep
<1>6. CASE Stop
  BY <1>6, StopStep
<1>7. CASE UNCHANGED vars
  <2>1. UNCHANGED <<ap_start, ap_done, reg, mem, kernel, perms, t_perms, seed,
                    stage, phase, key, made, calls, objects>>
    BY <1>7 DEF vars, hwVars, busVars, kernelVars, driverVars
  <2>2. TypeOK'
    BY <2>1 DEF IInv, TypeOK, HwTypeOK
  <2>3. Turns'
    BY <2>1 DEF IInv, Turns, ComingUp, SourceMatches, RegistersMatch, DoneIsNotLost
  <2>4. Loaded' /\ CiphersAreBytes'
    BY <2>1
    DEF IInv, Loaded, InUse, Settled, PermsLoaded, TPermsLoaded, CiphersAreBytes
  <2> QED
    BY <2>2, <2>3, <2>4 DEF IInv
<1> QED
  BY <1>1, <1>2, <1>3, <1>4, <1>5, <1>6, <1>7 DEF Next

\* The conjuncts of IInv hold in every reachable state.
THEOREM Invariant == Spec => []IInv
  BY InitInv, StepInv, PTL DEF Spec

\* Every variable keeps its type: what the kernel reads from the regions, whatever the
\* driver packed into them, is a table, a block or a seed.
THEOREM TypeCorrect == Spec => []TypeOK
<1>1. IInv => TypeOK
  BY DEF IInv
<1> QED
  BY <1>1, Invariant, PTL

\* While encrypt, decrypt or the constructor waits in while(!qpp_done(qpp_addr)), the
\* call is still pending or the bit it waits for is set: no read of the register by
\* one of the other loops has taken it away.
THEOREM DoneKept == Spec => []DoneIsNotLost
<1>1. IInv => DoneIsNotLost
  BY DEF IInv, Turns
<1> QED
  BY <1>1, Invariant, PTL

\* After the constructor, the kernel's tables are those of the key and undo each other.
THEOREM TablesCorrect == Spec => []TablesInverse
<1>1. IInv => TablesInverse
  <2> SUFFICES ASSUME IInv, InUse, NEW x \in Word
               PROVE  perms[x] = key.pmat[x] /\ IsInverseOf(t_perms[x], perms[x])
    BY DEF TablesInverse, InUse
  <2>1. perms[x] = key.pmat[x] /\ t_perms[x] = Inverses(key.pmat)[x]
    BY DEF IInv, Loaded, PermsLoaded, TPermsLoaded
  <2>2. key \in Keys
    BY DEF IInv, TypeOK, Turns, InUse
  <2> QED
    BY <2>1, <2>2, InverseTables
<1> QED
  BY <1>1, Invariant, PTL

\* While a call is pending or in progress, also one that a stopped process left behind,
\* nobody starts another one, and nobody but the kernel writes to the registers or to the
\* regions of the call; but for SEED, which the constructor writes before it waits.
THEOREM MemoryOwned == Spec => KernelOwnsMemory
<1> DEFINE Kept == /\ phase' = "done" => phase = "done"
                   /\ reg' = reg
                   /\ \/ mem'[reg.src] = mem[reg.src]
                      \/ reg.control = "LD_SEED" /\ key = NoKey
                   /\ mem'[reg.dst] = mem[reg.dst] \/ kernel' # kernel
<1>1. ASSUME IInv, [Next]_vars, ap_start \/ kernel # Idle
      PROVE  Kept
  <2>1. ap_start
    BY <1>1 DEF IInv, Turns
  <2>2. /\ mem \in [Regions -> Area] /\ kernel \in Nat
        /\ reg.control \in Commands /\ SourceMatches /\ reg.dst = "DST"
    BY <1>1, Shapes DEF IInv, TypeOK, HwTypeOK, Turns, Registers, Idle
  <2>3. reg.src \in {"SRC", "SEED", "PERMS"}
    BY <2>2 DEF SourceMatches, Commands
  <2>4. CASE KernelRuns
    <3>1. phase' = phase
      BY <2>4 DEF KernelRuns, driverVars
    <3>2. CASE CipherBlock
      BY <2>2, <2>3, <3>1, <3>2 DEF CipherBlock, busVars
    <3>3. CASE KernelBegin \/ LoadPerms \/ LoadTPerms \/ LoadSeed \/ CipherReturn
      BY <3>1, <3>3
      DEF KernelBegin, LoadPerms, LoadTPerms, LoadSeed, CipherReturn, Return, busVars
    <3> QED
      BY <2>4, <3>2, <3>3 DEF KernelRuns, Kernel
  <2>5. CASE Driver
    <3>1. CASE NotReady \/ StartCall \/ AwaitDone \/ AwaitDrain
      BY <2>1, <3>1
      DEF NotReady, StartCall, AwaitDone, AwaitDrain, qpp_ready, driverVars
    <3>2. CASE \/ GenerateMatrix \/ GenerateInvMatrix \/ Constructed
               \/ Encrypted \/ SeedReloaded \/ Decrypted
      <4>1. phase = "over"
        BY <3>2 DEF GenerateMatrix, GenerateInvMatrix, Constructed, Encrypted,
                    SeedReloaded, Decrypted
      <4> QED
        BY <1>1, <2>1, <4>1, Quiet
    <3> QED
      BY <2>5, <3>1, <3>2 DEF Driver
  <2>6. CASE \E k \in Keys : Construct(k)
    <3>1. PICK k \in Keys : Construct(k)
      BY <2>6
    <3>2. /\ stage = "idle" /\ phase' = "ready" /\ UNCHANGED <<reg, kernel>>
          /\ mem' = [mem EXCEPT !["SEED"] = Pack(k.bytes)]
      BY <3>1 DEF Construct, Enter, busVars, kernelVars
    <3>3. key = NoKey
      BY <1>1, <2>1, <3>2, Quiet
    <3>4. mem'["SRC"] = mem["SRC"] /\ mem'["PERMS"] = mem["PERMS"] /\ mem'["DST"] = mem["DST"]
      BY <2>2, <3>2 DEF Regions
    <3> QED
      BY <2>2, <2>3, <3>2, <3>3, <3>4 DEF SourceMatches, Commands
  <2>7. CASE (\E text \in Texts : Encrypt(text)) \/ (\E c \in made : Decrypt(c))
    <3>1. stage = "idle" /\ key # NoKey
      BY <1>1, <2>7 DEF IInv, Turns, Encrypt, Decrypt
    <3> QED
      BY <1>1, <2>1, <3>1, Quiet
  <2>8. CASE Stop
    BY <2>8 DEF Stop, Enter, hwVars, busVars
  <2>9. CASE UNCHANGED vars
    BY <2>9 DEF vars, hwVars, busVars, kernelVars, driverVars
  <2> QED
    BY <1>1, <2>4, <2>5, <2>6, <2>7, <2>8, <2>9 DEF Next
<1>2. IInv /\ [Next]_vars => [ap_start \/ kernel # Idle => Kept]_vars
  BY <1>1
<1> HIDE DEF Kept
<1>3. Spec => [][ap_start \/ kernel # Idle => Kept]_vars
  BY <1>2, Invariant, PTL DEF Spec
<1> QED
  BY <1>3 DEF KernelOwnsMemory, Kept

\* Every step of driver or kernel during a call leaves less of it to be done, but for the
\* first loop of the constructor, for any number of blocks, calls and handshakes.
THEOREM LoopsAdvance == Spec => CallsAdvance
<1> DEFINE Fewer == StepsBehind' + StepsHere' < StepsBehind + StepsHere
           Advance == \/ Fewer
                      \/ UNCHANGED <<stage, phase>> /\ KernelLeft' < KernelLeft
                      \/ stage = "ctorSeed" /\ NotReady
<1>1. ASSUME IInv, [Next]_vars, vars' # vars, stage # "idle"
      PROVE  Advance
  <2>1. stage \in Stages /\ phase \in {"ready", "done", "drain", "over"} /\ Idle = Blocks + 1
        /\ Blocks \in Nat
    BY <1>1, Shapes DEF IInv, TypeOK, Idle
  <2>2. CASE KernelRuns
    <3>1. UNCHANGED <<stage, phase>>
      BY <2>2 DEF KernelRuns, driverVars
    <3>2. CASE KernelBegin
      BY <2>1, <3>1, <3>2 DEF KernelBegin, KernelLeft, busVars
    <3>3. CASE LoadPerms \/ LoadTPerms \/ LoadSeed
      <4>1. kernel = 0 /\ ~ap_start'
        BY <3>3 DEF LoadPerms, LoadTPerms, LoadSeed, Return
      <4>2. ap_start
        BY <1>1, <4>1, LoadsMatch
      <4> QED
        BY <2>1, <3>1, <4>1, <4>2 DEF KernelLeft
    <3>4. CASE CipherBlock
      <4>1. kernel < reg.size /\ kernel' = kernel + 1 /\ ap_start' = ap_start
            /\ reg.control \in {"ENCRYPT", "DECRYPT"}
        BY <3>4 DEF CipherBlock, busVars
      <4>2. reg.size = Blocks
        BY <1>1, <4>1 DEF IInv, Turns
      <4>3. kernel \in 0..(Blocks - 1) /\ kernel <= reg.size
        BY <1>1, <2>1, <4>1, <4>2 DEF IInv, TypeOK, HwTypeOK
      <4>4. ap_start
        BY <1>1, <4>1, <4>3, CipherInProgress
      <4> QED
        BY <2>1, <3>1, <4>1, <4>3, <4>4 DEF KernelLeft
    <3>5. CASE CipherReturn
      <4>1. kernel = reg.size /\ ~ap_start' /\ reg.control \in {"ENCRYPT", "DECRYPT"}
        BY <3>5 DEF CipherReturn, Return
      <4>2. kernel = Blocks
        BY <1>1, <4>1 DEF IInv, Turns
      <4>3. ap_start
        BY <1>1, <2>1, <4>2 DEF IInv, Turns
      <4> QED
        BY <2>1, <3>1, <4>1, <4>2, <4>3 DEF KernelLeft
    <3> QED
      BY <2>2, <3>2, <3>3, <3>4, <3>5 DEF KernelRuns, Kernel
  <2>3. CASE Driver
    <3>1. CASE NotReady
      BY <1>1, <3>1 DEF NotReady, IInv, Turns, ComingUp
    <3>2. CASE StartCall \/ AwaitDone \/ AwaitDrain
      BY <1>1, <2>1, <3>2 DEF StartCall, AwaitDone, AwaitDrain, StepsBehind, StepsHere
    <3>3. CASE GenerateMatrix \/ GenerateInvMatrix \/ SeedReloaded
      BY <3>3 DEF GenerateMatrix, GenerateInvMatrix, SeedReloaded, Enter, StepsBehind, StepsHere
    <3>4. CASE Constructed \/ Encrypted \/ Decrypted
      <4>1. stage \in {"ctorTPerms", "encrypt", "decrypt"} /\ phase = "over" /\ stage' = "idle"
        BY <3>4 DEF Constructed, Encrypted, Decrypted, Enter
      <4> QED
        BY <4>1 DEF StepsBehind, StepsHere
    <3> QED
      BY <2>3, <3>1, <3>2, <3>3, <3>4 DEF Driver
  <2>4. CASE \/ \E k \in Keys : Construct(k)
             \/ \E text \in Texts : Encrypt(text)
             \/ \E c \in made : Decrypt(c)
    BY <1>1, <2>4 DEF Construct, Encrypt, Decrypt
  <2>5. CASE Stop
    <3>1. stage' = "idle"
      BY <2>5 DEF Stop, Enter
    <3> QED
      BY <1>1, <2>1, <3>1 DEF StepsBehind, StepsHere
  <2> QED
    BY <1>1, <2>2, <2>3, <2>4, <2>5 DEF Next
<1>2. IInv /\ [Next]_vars => [stage # "idle" => Advance]_vars
  BY <1>1
<1> HIDE DEF Advance
<1>3. Spec => [][stage # "idle" => Advance]_vars
  BY <1>2, Invariant, PTL DEF Spec
<1> QED
  BY <1>3 DEF CallsAdvance, Advance

-----------------------------------------------------------------------------
(* The round trip: the argument follows the shift register.  The invariant *)
(* never says what the stream of masks is: it quantifies a stream that     *)
(* starts with the seed and grows by a block with every turn of the loop.  *)

\* s holds the values of the shift register from the seed of key k on, for at least
\* the first "last" blocks.
Stream(k, s, last) ==
  /\ s \in [0..Blocks -> Block]
  /\ s[0] = Pack(k.bytes)[0]
  /\ \A i \in 0..(last - 1) : s[i + 1] = prng(s[i])

\* The first "last" blocks of the area are those of the text, encrypted along s.
Enciphers(k, s, area, text, last) ==
  \A i \in 0..(last - 1) : area[i] = EncryptBlock(k.pmat, Pack(text)[i], s[i + 1])

\* The ciphertext is the text, encrypted from the seed on.
Enciphered(k, s, c) ==
  Stream(k, s, Blocks) /\ Enciphers(k, s, Pack(c.cipher), c.text, Blocks)

\* The blocks that the cipher call of this stage has done.
Progress ==
  IF kernel # Idle THEN kernel
  ELSE IF phase = "ready" \/ ap_start THEN 0 ELSE Blocks

SeedLoaded == seed = Pack(key.bytes)[0]

\* Where the shift register is known to hold the seed, outside the cipher calls.
Seeded ==
  /\ key # NoKey => mem["SEED"] = Pack(key.bytes)
  /\ stage \in {"ctorSeed", "ctorPerms", "ctorTPerms"} => calls = 0
  /\ stage \in {"encrypt", "decryptSeed", "decrypt"} => calls # 0
  /\ Settled("ctorSeed") \/ Settled("decryptSeed") => SeedLoaded
  /\ stage \in {"ctorPerms", "ctorTPerms"} => SeedLoaded
  /\ stage = "idle" /\ key # NoKey /\ calls = 0 => SeedLoaded

\* SRC holds what the call was given, from setPlainText or setCipherText on.
Given ==
  /\ stage = "encrypt" => input \in Texts /\ mem["SRC"] = Pack(input)
  /\ stage \in {"decryptSeed", "decrypt"} =>
       input \in made /\ mem["SRC"] = Pack(input.cipher)

FreshAreEnciphered ==
  \A c \in made : /\ c.text \in Texts
                  /\ c.fresh => \E s : Enciphered(key, s, c)

\* The first call of encrypt: DST is the ciphertext as far as the call has come, and
\* the shift register is where the stream is.
Encrypting ==
  stage = "encrypt" /\ calls = 1 =>
    \E s : /\ Stream(key, s, Progress)
           /\ seed = s[Progress]
           /\ Enciphers(key, s, mem["DST"], input, Progress)

\* A call of decrypt with a fresh ciphertext: the shift register follows the stream
\* that made it, and DST is the text as far as the call has come.
Decrypting ==
  stage = "decrypt" /\ input.fresh =>
    \E s : /\ Enciphered(key, s, input)
           /\ seed = s[Progress]
           /\ \A i \in 0..(Progress - 1) : mem["DST"][i] = Pack(input.text)[i]

SeedToAnswer ==
  Seeded /\ Given /\ FreshAreEnciphered /\ Encrypting /\ Decrypting /\ FreshRoundTrip

RInv == IInv /\ SeedToAnswer

-----------------------------------------------------------------------------
(* The round trip: bytes, words and blocks                                 *)

\* Four words make a byte, from which WordOf takes each of them.
LEMMA WordsOfByte ==
  ASSUME NEW w0 \in 0..3, NEW w1 \in 0..3, NEW w2 \in 0..3, NEW w3 \in 0..3
  PROVE  LET byte == (64 * w0) + (16 * w1) + (4 * w2) + w3
         IN  /\ WordOf(byte, 0) = w0
             /\ WordOf(byte, 1) = w1
             /\ WordOf(byte, 2) = w2
             /\ WordOf(byte, 3) = w3
<1> DEFINE byte == (64 * w0) + (16 * w1) + (4 * w2) + w3
<1>1. /\ (byte \div 64) % 4 = w0
      /\ (byte \div 16) % 4 = w1
      /\ (byte \div 4) % 4 = w2
      /\ (byte \div 1) % 4 = w3
  OBVIOUS
<1> HIDE DEF byte
<1>2. /\ WordOf(byte, 0) = (byte \div 64) % 4
      /\ WordOf(byte, 1) = (byte \div 16) % 4
      /\ WordOf(byte, 2) = (byte \div 4) % 4
      /\ WordOf(byte, 3) = (byte \div 1) % 4
  BY DEF WordOf
<1> QED
  BY <1>1, <1>2 DEF byte

\* The four words of a byte make the byte again.
LEMMA ByteOfWords ==
  ASSUME NEW byte \in 0..255
  PROVE  (64 * WordOf(byte, 0)) + (16 * WordOf(byte, 1)) + (4 * WordOf(byte, 2))
           + WordOf(byte, 3) = byte
<1>1. /\ WordOf(byte, 0) = (byte \div 64) % 4
      /\ WordOf(byte, 1) = (byte \div 16) % 4
      /\ WordOf(byte, 2) = (byte \div 4) % 4
      /\ WordOf(byte, 3) = (byte \div 1) % 4
  BY DEF WordOf
<1>2. (64 * ((byte \div 64) % 4)) + (16 * ((byte \div 16) % 4)) + (4 * ((byte \div 4) % 4))
        + ((byte \div 1) % 4) = byte
  OBVIOUS
<1> QED
  BY <1>1, <1>2

\* What encrypt returns, given to setCipherText, arrives in SRC as it was in DST.
LEMMA PackUnpack ==
  ASSUME NEW area \in Area, NEW a \in 0..(Blocks - 1)
  PROVE  Pack(Unpack(area))[a] = area[a]
<1> DEFINE bytes == Unpack(area)
           at(j) == (4 * a) + (j \div 4) + 1
<1>1. a \in Addresses /\ Len(bytes) = TextLength /\ TextLength = 4 * Blocks
  BY Shapes, Unpacked DEF TextLength
<1>2. area[a] \in [Lanes -> Word]
  BY <1>1 DEF Area, Block
<1>3. ASSUME NEW j \in Lanes
      PROVE  (IF at(j) <= TextLength THEN WordOf(bytes[at(j)], j % 4) ELSE 0) = area[a][j]
  <2> DEFINE q == j \div 4
             r == j % 4
             byte == (64 * area[a][4 * q]) + (16 * area[a][(4 * q) + 1])
                       + (4 * area[a][(4 * q) + 2]) + area[a][(4 * q) + 3]
  <2>1. j \in 0..15 /\ q \in 0..3 /\ r \in {0, 1, 2, 3} /\ j = (4 * q) + r
    BY Shapes
  <2>2. /\ at(j) \in 1..TextLength
        /\ (at(j) - 1) \div 4 = a
        /\ (at(j) - 1) % 4 = q
    <3>1. at(j) - 1 = (4 * a) + q /\ a \in 0..(Blocks - 1) /\ Blocks \in Nat
      BY <2>1, Shapes
    <3> HIDE DEF at, q
    <3>2. ((4 * a) + q) \div 4 = a /\ ((4 * a) + q) % 4 = q
      BY <2>1, <3>1
    <3>3. at(j) = (4 * a) + q + 1
      BY <2>1, <3>1 DEF at, q
    <3> QED
      BY <1>1, <2>1, <3>1, <3>2, <3>3
  <2>3. bytes[at(j)] = byte
    <3> HIDE DEF at, q
    <3>1. bytes[at(j)] = (64 * area[a][(4 * q) + 0]) + (16 * area[a][(4 * q) + 1])
                           + (4 * area[a][(4 * q) + 2]) + area[a][(4 * q) + 3]
      BY <2>2 DEF Unpack
    <3>2. (4 * q) + 0 = 4 * q
      BY <2>1
    <3> QED
      BY <3>1, <3>2
  <2>4. /\ area[a][4 * q] \in 0..3 /\ area[a][(4 * q) + 1] \in 0..3
        /\ area[a][(4 * q) + 2] \in 0..3 /\ area[a][(4 * q) + 3] \in 0..3
    <3>1. 4 * q \in Lanes /\ (4 * q) + 1 \in Lanes /\ (4 * q) + 2 \in Lanes /\ (4 * q) + 3 \in Lanes
      BY <2>1, Shapes
    <3> HIDE DEF q
    <3> QED
      BY <1>2, <3>1, Shapes
  <2>5. /\ WordOf(byte, 0) = area[a][4 * q] /\ WordOf(byte, 1) = area[a][(4 * q) + 1]
        /\ WordOf(byte, 2) = area[a][(4 * q) + 2] /\ WordOf(byte, 3) = area[a][(4 * q) + 3]
    <3> HIDE DEF q
    <3> QED
      BY <2>4, WordsOfByte
  <2>6. WordOf(byte, r) = area[a][(4 * q) + r]
    <3>1. (4 * q) + 0 = 4 * q
      BY <2>1
    <3> HIDE DEF q, r, byte
    <3> QED
      BY <2>1, <2>5, <3>1
  <2> HIDE DEF at, byte, q
  <2> QED
    BY <2>1, <2>2, <2>3, <2>6
<1>4. Pack(bytes)[a] = [j \in Lanes |->
         IF at(j) <= TextLength THEN WordOf(bytes[at(j)], j % 4) ELSE 0]
  BY <1>1 DEF Pack
<1> HIDE DEF at, bytes
<1>5. Pack(bytes)[a] = [j \in Lanes |-> area[a][j]]
  BY <1>3, <1>4
<1> QED
  BY <1>2, <1>5 DEF bytes

\* If DST begins with the blocks of a text, the bytes that Driver sends are the text.
LEMMA TextOfBlocks ==
  ASSUME NEW text \in Texts, NEW area \in Area,
         \A i \in 0..(Blocks - 1) : area[i] = Pack(text)[i]
  PROVE  SubSeq(Unpack(area), 1, Len(text)) = text
<1>1. text \in Seq(0..255) /\ Len(text) \in 1..TextLength
  BY TextsAssumption
<1>2. TextLength = 4 * Blocks /\ TextLength \in Nat
  BY Shapes DEF TextLength
<1>3. ASSUME NEW at \in 1..Len(text)
      PROVE  Unpack(area)[at] = text[at]
  <2> DEFINE a == (at - 1) \div 4
             r == (at - 1) % 4
  <2>1. at \in 1..TextLength /\ a \in 0..(Blocks - 1) /\ r \in 0..3 /\ at = (4 * a) + r + 1
    <3>1. Len(text) \in Nat /\ Len(text) <= 4 * Blocks /\ Blocks \in Nat
      BY <1>1, <1>2, Shapes
    <3> DEFINE len == Len(text)
    <3> HIDE DEF len
    <3>2. at \in 1..len /\ len \in Nat /\ len <= 4 * Blocks /\ Blocks \in Nat
      BY <3>1 DEF len
    <3> QED
      BY <1>2, <3>2
  <2>2. a \in Addresses /\ text[at] \in 0..255
    BY <1>1, <2>1, Shapes, ElementOfSeq
  <2> HIDE DEF a, r
  <2>3. ASSUME NEW q \in 0..3
        PROVE  area[a][(4 * r) + q] = WordOf(text[at], q)
    <3>1. (4 * r) + q \in Lanes /\ ((4 * r) + q) \div 4 = r /\ ((4 * r) + q) % 4 = q
      BY <2>1, Shapes
    <3>2. area[a] = Pack(text)[a]
      BY <2>1
    <3>3. Pack(text)[a][(4 * r) + q] =
            IF at <= Len(text) THEN WordOf(text[at], q) ELSE 0
      BY <2>1, <2>2, <3>1 DEF Pack
    <3>4. at <= Len(text)
      BY <1>1
    <3> QED
      BY <3>2, <3>3, <3>4
  <2>4. Unpack(area)[at] = (64 * area[a][(4 * r) + 0]) + (16 * area[a][(4 * r) + 1])
                             + (4 * area[a][(4 * r) + 2]) + area[a][(4 * r) + 3]
    BY <2>1 DEF Unpack, a, r
  <2>5. /\ area[a][(4 * r) + 0] = WordOf(text[at], 0)
        /\ area[a][(4 * r) + 1] = WordOf(text[at], 1)
        /\ area[a][(4 * r) + 2] = WordOf(text[at], 2)
        /\ area[a][(4 * r) + 3] = WordOf(text[at], 3)
    BY <2>3
  <2> QED
    BY <2>2, <2>4, <2>5, ByteOfWords
<1> DEFINE u == Unpack(area)
           size == Len(text)
<1>4. size \in Nat /\ 1 <= size /\ \A at \in 1..size : u[at] \in 0..255
  <2>1. \A at \in 1..size : text[at] \in 0..255
    BY <1>1, ElementOfSeq
  <2>2. \A at \in 1..size : u[at] \in 0..255
    BY <1>3, <2>1
  <2>3. size \in Nat /\ 1 <= size
    <3>1. TextLength \in Nat /\ size \in 1..TextLength
      BY <1>1, <1>2
    <3> HIDE DEF size
    <3> QED
      BY <3>1
  <2> HIDE DEF u, size
  <2> QED
    BY <2>2, <2>3
<1> HIDE DEF u, size
<1>5. /\ SubSeq(u, 1, size) \in Seq(0..255)
      /\ Len(SubSeq(u, 1, size)) = IF 1 <= size THEN (size - 1) + 1 ELSE 0
      /\ \A at \in 1..((size - 1) + 1) : SubSeq(u, 1, size)[at] = u[(1 + at) - 1]
  <2>1. 1 \in Int /\ size \in Int
    BY <1>4
  <2> DEFINE S == 0..255
  <2>2. \A i \in 1..size : u[i] \in S
    BY <1>4
  <2> HIDE DEF S
  <2>3. /\ SubSeq(u, 1, size) \in Seq(S)
        /\ Len(SubSeq(u, 1, size)) = IF 1 <= size THEN (size - 1) + 1 ELSE 0
        /\ \A at \in 1..((size - 1) + 1) : SubSeq(u, 1, size)[at] = u[(1 + at) - 1]
    BY <2>1, <2>2, SubSeqProperties
  <2> QED
    BY <2>3 DEF S
<1>6. \A at \in 1..size : SubSeq(u, 1, size)[at] = u[at]
  <2>1. \A at \in 1..size : (1 + at) - 1 = at
    BY <1>4
  <2>2. (size - 1) + 1 = size
    BY <1>4
  <2> QED
    BY <1>5, <2>1, <2>2
<1>7. Len(SubSeq(u, 1, size)) = size
  BY <1>4, <1>5
<1>8. SubSeq(u, 1, size) = text
  <2>1. \A at \in 1..Len(SubSeq(u, 1, size)) : SubSeq(u, 1, size)[at] = text[at]
    BY <1>3, <1>6, <1>7 DEF u, size
  <2> QED
    BY <1>1, <1>5, <1>7, <2>1, SeqEqual DEF size
<1> QED
  BY <1>8 DEF u, size

\* The kernel works with the tables of the key: only words select a matrix.
LEMMA BlockByKey ==
  ASSUME NEW k \in Keys, NEW tables \in Tables, \A x \in Word : tables[x] = k.pmat[x],
         NEW b \in Block, NEW rn \in Block
  PROVE  EncryptBlock(tables, b, rn) = EncryptBlock(k.pmat, b, rn)
<1>1. ASSUME NEW j \in Lanes
      PROVE  encrypt_word(tables, b[j], rn[j]) = encrypt_word(k.pmat, b[j], rn[j])
  <2>1. rn[j] \in Word
    BY DEF Block
  <2>2. rn[j] % M = rn[j]
    BY <2>1, Shapes
  <2> QED
    BY <2>1, <2>2 DEF encrypt_word
<1> QED
  BY <1>1 DEF EncryptBlock

-----------------------------------------------------------------------------
(* The round trip: the steps                                               *)

LEMMA SeedBlock ==
  ASSUME NEW k \in Keys
  PROVE  Pack(k.bytes)[0] \in Block
<1>1. k.bytes \in [1..4 -> 0..255]
  BY KeysAssumption
<1>2. Pack(k.bytes) \in Area
  BY <1>1, PackedSeed
<1> QED
  BY <1>2, Shapes DEF Area

LEMMA InitSeedToAnswer ==
  ASSUME Init
  PROVE  SeedToAnswer
<1>1. Seeded
  BY DEF Init, Seeded, Settled
<1> QED
  BY <1>1
  DEF Init, SeedToAnswer, Given, FreshAreEnciphered, Encrypting, Decrypting, FreshRoundTrip

\* A call begins, or one that loads the seed or the tables runs.
LEMMA LoadFollowed ==
  ASSUME RInv, UNCHANGED driverVars,
         KernelBegin \/ LoadPerms \/ LoadTPerms \/ LoadSeed
  PROVE  SeedToAnswer'
<1>1. /\ mem' = mem /\ UNCHANGED <<stage, phase, key, input, made, answer, calls>>
  BY DEF KernelBegin, LoadPerms, LoadTPerms, LoadSeed, driverVars
<1>2. Given' /\ FreshAreEnciphered' /\ FreshRoundTrip'
  BY <1>1 DEF RInv, SeedToAnswer, Given, FreshAreEnciphered, FreshRoundTrip
<1>3. CASE KernelBegin
  <2>1. ap_start /\ kernel = Idle /\ kernel' = 0 /\ ap_start' = ap_start /\ seed' = seed
    BY <1>3 DEF KernelBegin, busVars
  <2>2. Progress' = Progress
    BY <2>1 DEF Progress
  <2>3. Seeded'
    BY <1>1, <2>1 DEF RInv, SeedToAnswer, Seeded, Settled, SeedLoaded
  <2>4. Encrypting' /\ Decrypting'
    BY <1>1, <2>1, <2>2 DEF RInv, SeedToAnswer, Encrypting, Decrypting
  <2> QED
    BY <1>2, <2>3, <2>4 DEF SeedToAnswer
<1>4. CASE LoadPerms \/ LoadTPerms
  <2>1. ComingUp \/ stage \in {"ctorPerms", "ctorTPerms"}
    BY <1>4, LoadsMatch DEF RInv, LoadPerms, LoadTPerms
  <2>2. seed' = seed
    BY <1>4 DEF LoadPerms, LoadTPerms
  <2>3. Seeded'
    BY <1>1, <2>1, <2>2 DEF RInv, SeedToAnswer, Seeded, SeedLoaded, Settled, ComingUp
  <2> QED
    BY <1>1, <1>2, <2>1, <2>3 DEF SeedToAnswer, Encrypting, Decrypting, ComingUp
<1>5. CASE LoadSeed
  <2>1. /\ ComingUp \/ stage \in {"ctorSeed", "decryptSeed"}
        /\ seed' = mem["SEED"][0]
    BY <1>5, LoadsMatch DEF RInv, LoadSeed
  <2>2. CASE ComingUp
    <3>1. Seeded'
      BY <1>1, <2>2 DEF RInv, SeedToAnswer, Seeded, Settled, ComingUp
    <3> QED
      BY <1>1, <1>2, <2>2, <3>1 DEF SeedToAnswer, Encrypting, Decrypting, ComingUp
  <2>3. CASE stage \in {"ctorSeed", "decryptSeed"}
    <3>1. key # NoKey
      BY <2>3 DEF RInv, IInv, Turns
    <3>2. SeedLoaded'
      BY <1>1, <2>1, <3>1 DEF RInv, SeedToAnswer, Seeded, SeedLoaded
    <3>3. Seeded'
      BY <1>1, <2>3, <3>2 DEF RInv, SeedToAnswer, Seeded
    <3> QED
      BY <1>1, <1>2, <2>3, <3>3 DEF SeedToAnswer, Encrypting, Decrypting
  <2> QED
    BY <2>1, <2>2, <2>3
<1> QED
  BY <1>3, <1>4, <1>5

\* One turn of the loop: the shift register and DST go on by a block together.
LEMMA BlockFollowed ==
  ASSUME RInv, UNCHANGED driverVars, CipherBlock
  PROVE  SeedToAnswer'
<1>1. /\ ap_start /\ kernel \in 0..(Blocks - 1) /\ reg.dst = "DST"
      /\ reg.src \in Regions \ {"DST"}
      /\ Blocks \in Nat
  BY CipherInProgress, Shapes DEF RInv, CipherBlock, IInv, TypeOK, HwTypeOK, Registers, Idle
<1>2. \/ ComingUp
      \/ phase = "done" /\ stage = "encrypt" /\ reg = CipherRegisters
      \/ phase = "done" /\ stage = "decrypt"
         /\ reg = [CipherRegisters EXCEPT !.control = "DECRYPT"]
  BY <1>1, CipherInProgress DEF RInv, IInv, Turns, ComingUp, RegistersMatch, CipherBlock
<1>3. UNCHANGED <<ap_start, stage, phase, key, input, made, answer, calls>>
  BY DEF CipherBlock, busVars, driverVars
<1>4. Progress = kernel /\ Progress' = kernel + 1
  BY <1>1 DEF CipherBlock, Progress, Idle
<1>5. seed \in Block /\ seed' = prng(seed) /\ seed' \in Block
  BY PrngBlock DEF RInv, IInv, TypeOK, HwTypeOK, CipherBlock
<1> DEFINE out == IF reg.control = "ENCRYPT"
                  THEN EncryptBlock(perms, mem[reg.src][kernel], seed')
                  ELSE DecryptBlock(t_perms, mem[reg.src][kernel], seed')
<1>6. mem' = [mem EXCEPT !["DST"][kernel] = out]
  BY <1>1 DEF CipherBlock
<1> HIDE DEF out
<1>7. /\ mem'["SRC"] = mem["SRC"] /\ mem'["SEED"] = mem["SEED"]
      /\ mem'["DST"][kernel] = out
      /\ \A i \in 0..(kernel - 1) : mem'["DST"][i] = mem["DST"][i]
  <2>1. mem \in [Regions -> Area] /\ kernel \in Addresses
    BY <1>1, Shapes DEF RInv, IInv, TypeOK, HwTypeOK
  <2> QED
    BY <1>1, <1>6, <2>1 DEF Regions, Area
<1>8. Given' /\ FreshAreEnciphered' /\ FreshRoundTrip'
  BY <1>3, <1>7 DEF RInv, SeedToAnswer, Given, FreshAreEnciphered, FreshRoundTrip
<1>9. Seeded'
  BY <1>1, <1>2, <1>3, <1>7 DEF RInv, SeedToAnswer, Seeded, Settled, ComingUp
<1>10. Encrypting'
  <2> SUFFICES ASSUME stage = "encrypt", calls = 1
               PROVE  \E s : /\ Stream(key, s, kernel + 1)
                             /\ seed' = s[kernel + 1]
                             /\ Enciphers(key, s, mem'["DST"], input, kernel + 1)
    BY <1>3, <1>4 DEF Encrypting
  <2>1. PICK s : /\ Stream(key, s, kernel)
                 /\ seed = s[kernel]
                 /\ Enciphers(key, s, mem["DST"], input, kernel)
    BY <1>4 DEF RInv, SeedToAnswer, Encrypting
  <2> DEFINE t == [s EXCEPT ![kernel + 1] = seed']
  <2>2. /\ t \in [0..Blocks -> Block]
        /\ t[kernel + 1] = seed'
        /\ \A i \in 0..kernel : t[i] = s[i]
    BY <1>1, <1>5, <2>1 DEF Stream
  <2> HIDE DEF t
  <2>3. Stream(key, t, kernel + 1)
    <3>1. ASSUME NEW i \in 0..kernel
          PROVE  t[i + 1] = prng(t[i])
      <4>1. CASE i = kernel
        BY <1>1, <1>5, <2>1, <2>2, <4>1
      <4>2. CASE i # kernel
        <5>1. i \in 0..(kernel - 1) /\ i + 1 \in 0..kernel
          BY <1>1, <4>2
        <5> QED
          BY <2>1, <2>2, <5>1 DEF Stream
      <4> QED
        BY <4>1, <4>2
    <3>2. (kernel + 1) - 1 = kernel /\ 0 \in 0..kernel
      BY <1>1
    <3> QED
      BY <2>1, <2>2, <3>1, <3>2 DEF Stream
  <2>4. Enciphers(key, t, mem'["DST"], input, kernel + 1)
    <3>1. out = EncryptBlock(key.pmat, Pack(input)[kernel], seed')
      <4>1. out = EncryptBlock(perms, mem["SRC"][kernel], seed')
        BY <1>2 DEF out, ComingUp, CipherRegisters
      <4>2. mem["SRC"] = Pack(input) /\ mem["SRC"] \in Area
        BY DEF RInv, SeedToAnswer, Given, IInv, TypeOK, HwTypeOK, Regions
      <4>3. mem["SRC"][kernel] \in Block
        BY <1>1, <4>2, Shapes DEF Area
      <4>4. key \in Keys /\ perms \in Tables /\ \A x \in Word : perms[x] = key.pmat[x]
        BY DEF RInv, IInv, TypeOK, HwTypeOK, Turns, Loaded, InUse, PermsLoaded
      <4> QED
        BY <1>5, <4>1, <4>2, <4>3, <4>4, BlockByKey
    <3>2. ASSUME NEW i \in 0..kernel
          PROVE  mem'["DST"][i] = EncryptBlock(key.pmat, Pack(input)[i], t[i + 1])
      <4>1. CASE i = kernel
        BY <1>7, <2>2, <3>1, <4>1
      <4>2. CASE i # kernel
        <5>1. i \in 0..(kernel - 1) /\ i + 1 \in 0..kernel
          BY <1>1, <4>2
        <5> QED
          BY <1>7, <2>1, <2>2, <5>1 DEF Enciphers
      <4> QED
        BY <4>1, <4>2
    <3>3. (kernel + 1) - 1 = kernel
      BY <1>1
    <3> QED
      BY <3>2, <3>3 DEF Enciphers
  <2> QED
    BY <2>2, <2>3, <2>4
<1>11. Decrypting'
  <2> SUFFICES ASSUME stage = "decrypt", input.fresh
               PROVE  \E s : /\ Enciphered(key, s, input)
                             /\ seed' = s[kernel + 1]
                             /\ \A i \in 0..kernel : mem'["DST"][i] = Pack(input.text)[i]
    <3>1. (kernel + 1) - 1 = kernel
      BY <1>1
    <3> QED
      BY <1>3, <1>4, <3>1 DEF Decrypting
  <2>1. PICK s : /\ Enciphered(key, s, input)
                 /\ seed = s[kernel]
                 /\ \A i \in 0..(kernel - 1) : mem["DST"][i] = Pack(input.text)[i]
    BY <1>4 DEF RInv, SeedToAnswer, Decrypting
  <2>2. seed' = s[kernel + 1]
    BY <1>1, <1>5, <2>1 DEF Enciphered, Stream
  <2>3. out = Pack(input.text)[kernel]
    <3>1. out = DecryptBlock(t_perms, mem["SRC"][kernel], seed')
      BY <1>2 DEF out, ComingUp, CipherRegisters
    <3>2. mem["SRC"] = Pack(input.cipher) /\ input \in made
      BY DEF RInv, SeedToAnswer, Given
    <3>3. Pack(input.cipher)[kernel] = EncryptBlock(key.pmat, Pack(input.text)[kernel], seed')
      BY <1>1, <2>1, <2>2 DEF Enciphered, Enciphers
    <3>4. Pack(input.text)[kernel] \in Block
      <4>1. input.text \in Seq(0..255)
        BY <3>2, TextsAssumption DEF RInv, SeedToAnswer, FreshAreEnciphered
      <4>2. Pack(input.text) \in Area
        BY <4>1, PackedText
      <4> QED
        BY <1>1, <4>2, Shapes DEF Area
    <3>5. /\ key \in Keys /\ t_perms \in Tables
          /\ \A x \in Word : t_perms[x] = Inverses(key.pmat)[x]
      BY DEF RInv, IInv, TypeOK, HwTypeOK, Turns, Loaded, InUse, TPermsLoaded
    <3>6. \A j \in Lanes : IsInverseOf(t_perms[seed'[j]], key.pmat[seed'[j]])
      BY <1>5, <3>5, InverseTables DEF Block
    <3>7. key.pmat \in Tables
      BY <3>5, InverseTables
    <3> QED
      BY <1>5, <3>1, <3>2, <3>3, <3>4, <3>5, <3>6, <3>7, BlockRoundTrip
  <2>4. ASSUME NEW i \in 0..kernel
        PROVE  mem'["DST"][i] = Pack(input.text)[i]
    <3>1. CASE i = kernel
      BY <1>7, <2>3, <3>1
    <3>2. CASE i # kernel
      <4>1. i \in 0..(kernel - 1)
        BY <1>1, <3>2
      <4> QED
        BY <1>7, <2>1, <4>1
    <3> QED
      BY <3>1, <3>2
  <2> QED
    BY <2>1, <2>2, <2>4
<1> QED
  BY <1>8, <1>9, <1>10, <1>11 DEF SeedToAnswer

\* The call returns with every block done.
LEMMA ReturnFollowed ==
  ASSUME RInv, UNCHANGED driverVars, CipherReturn
  PROVE  SeedToAnswer'
<1>1. /\ ap_start /\ kernel = Blocks /\ kernel # Idle
      /\ \/ phase = "done" /\ stage \in {"encrypt", "decrypt"}
         \/ phase = "ready" /\ stage \notin {"encrypt", "decrypt"}
         /\ (stage = "idle" => key = NoKey)
  BY CipherInProgress, Shapes
  DEF RInv, IInv, Turns, ComingUp, TypeOK, HwTypeOK, Registers, CipherReturn, Idle
<1>2. /\ kernel' = Idle /\ ap_start' = FALSE /\ mem' = mem /\ seed' = seed
      /\ UNCHANGED <<stage, phase, key, input, made, answer, calls>>
  BY DEF CipherReturn, Return, driverVars
<1>3. Given' /\ FreshAreEnciphered' /\ FreshRoundTrip'
  BY <1>2 DEF RInv, SeedToAnswer, Given, FreshAreEnciphered, FreshRoundTrip
<1>4. Seeded'
  BY <1>1, <1>2 DEF RInv, SeedToAnswer, Seeded, Settled, SeedLoaded
<1>5. phase = "done" => Progress' = Progress
  BY <1>1, <1>2 DEF Progress
<1>6. Encrypting' /\ Decrypting'
  BY <1>1, <1>2, <1>5 DEF RInv, SeedToAnswer, Encrypting, Decrypting
<1> QED
  BY <1>3, <1>4, <1>6 DEF SeedToAnswer

\* The three loops of the driver change neither the progress of a call nor its data.
LEMMA WaitFollowed ==
  ASSUME RInv, NotReady \/ StartCall \/ AwaitDone \/ AwaitDrain
  PROVE  SeedToAnswer'
<1>1. /\ stage # "idle"
      /\ UNCHANGED <<mem, kernel, seed, stage, key, input, made, answer, calls>>
  BY DEF NotReady, StartCall, AwaitDone, AwaitDrain, driverVars, kernelVars
<1>2. Progress' = Progress /\ \A st \in Stages : Settled(st)' => Settled(st)
  <2>1. CASE NotReady
    BY <1>1, <2>1 DEF NotReady, driverVars, Progress, Settled
  <2>2. CASE StartCall
    <3>1. phase = "ready" /\ ~ap_start /\ ap_start'
      BY <2>2 DEF StartCall, Start, qpp_ready
    <3>2. kernel = Idle
      BY <3>1 DEF RInv, IInv, Turns
    <3> QED
      BY <1>1, <3>1, <3>2 DEF Progress, Settled, Idle
  <2>3. CASE AwaitDone \/ AwaitDrain
    <3>1. /\ phase \in {"done", "drain"} /\ phase' \in {"drain", "over"}
          /\ ap_start' = ap_start
      BY <2>3 DEF AwaitDone, AwaitDrain
    <3> QED
      BY <1>1, <3>1 DEF Progress, Settled, Idle
  <2> QED
    BY <2>1, <2>2, <2>3
<1>3. Given' /\ FreshAreEnciphered' /\ FreshRoundTrip'
  BY <1>1 DEF RInv, SeedToAnswer, Given, FreshAreEnciphered, FreshRoundTrip
<1>4. Seeded'
  BY <1>1, <1>2 DEF RInv, SeedToAnswer, Seeded, SeedLoaded, Stages
<1>5. Encrypting' /\ Decrypting'
  BY <1>1, <1>2 DEF RInv, SeedToAnswer, Encrypting, Decrypting
<1> QED
  BY <1>3, <1>4, <1>5 DEF SeedToAnswer

\* What encrypt returns: if it was the first call, the stream it followed proves the
\* ciphertext fresh.
LEMMA EncryptedFollowed ==
  ASSUME RInv, Encrypted
  PROVE  SeedToAnswer'
<1>1. /\ stage = "encrypt" /\ phase = "over" /\ stage' = "idle"
      /\ UNCHANGED <<mem, kernel, seed, key, answer, calls>>
  BY DEF Encrypted, Enter, hwVars, kernelVars
<1> DEFINE c == [text |-> input, cipher |-> Unpack(mem["DST"]), fresh |-> calls = 1]
<1>2. made' = made \union {c}
  BY DEF Encrypted
<1>3. Progress = Blocks
  <2>1. ~ap_start /\ kernel = Idle
    BY <1>1, Quiet DEF RInv
  <2> QED
    BY <1>1, <2>1 DEF Progress
<1>4. c.text \in Texts /\ c.text = input
  BY <1>1 DEF RInv, SeedToAnswer, Given
<1>5. c.fresh => \E s : Enciphered(key, s, c)
  <2> SUFFICES ASSUME calls = 1
               PROVE  \E s : Enciphered(key, s, c)
    OBVIOUS
  <2>1. PICK s : /\ Stream(key, s, Blocks)
                 /\ Enciphers(key, s, mem["DST"], input, Blocks)
    BY <1>1, <1>3 DEF RInv, SeedToAnswer, Encrypting
  <2>2. mem["DST"] \in Area
    BY DEF RInv, IInv, TypeOK, HwTypeOK, Regions
  <2>3. c.cipher = Unpack(mem["DST"])
    OBVIOUS
  <2> HIDE DEF c
  <2>4. \A i \in 0..(Blocks - 1) : Pack(c.cipher)[i] = mem["DST"][i]
    BY <2>2, <2>3, PackUnpack
  <2> QED
    BY <1>4, <2>1, <2>4 DEF Enciphered, Enciphers
<1> HIDE DEF c
<1>6. FreshAreEnciphered'
  BY <1>1, <1>2, <1>4, <1>5 DEF RInv, SeedToAnswer, FreshAreEnciphered
<1>7. Seeded' /\ FreshRoundTrip'
  BY <1>1 DEF RInv, SeedToAnswer, Seeded, Settled, FreshRoundTrip
<1> QED
  BY <1>1, <1>6, <1>7 DEF SeedToAnswer, Given, Encrypting, Decrypting

\* The seed is back in the register: any stream of this key starts there.
LEMMA ReloadedFollowed ==
  ASSUME RInv, SeedReloaded
  PROVE  SeedToAnswer'
<1>1. /\ stage = "decryptSeed" /\ phase = "over" /\ stage' = "decrypt" /\ phase' = "ready"
      /\ UNCHANGED <<mem, kernel, seed, key, input, made, answer, calls>>
  BY DEF SeedReloaded, Enter, hwVars, kernelVars
<1>2. ~ap_start /\ kernel = Idle
  BY <1>1, Quiet DEF RInv
<1>3. seed = Pack(key.bytes)[0]
  BY <1>1, <1>2 DEF RInv, SeedToAnswer, Seeded, Settled, SeedLoaded
<1>4. Progress' = 0
  BY <1>1, <1>2 DEF Progress, Idle
<1>5. Decrypting'
  <2> SUFFICES ASSUME input.fresh
               PROVE  \E s : Enciphered(key, s, input) /\ seed = s[0]
    BY <1>1, <1>4 DEF Decrypting
  <2>1. PICK s : Enciphered(key, s, input)
    BY <1>1 DEF RInv, SeedToAnswer, Given, FreshAreEnciphered
  <2> QED
    BY <1>3, <2>1 DEF Enciphered, Stream
<1>6. Given' /\ FreshAreEnciphered' /\ FreshRoundTrip' /\ Seeded'
  BY <1>1
  DEF RInv, SeedToAnswer, Given, FreshAreEnciphered, FreshRoundTrip, Seeded, Settled
<1> QED
  BY <1>1, <1>5, <1>6 DEF SeedToAnswer, Encrypting

\* What decrypt returns for a fresh ciphertext is the text it was made from.
LEMMA DecryptedFollowed ==
  ASSUME RInv, Decrypted
  PROVE  SeedToAnswer'
<1>1. /\ stage = "decrypt" /\ phase = "over" /\ stage' = "idle"
      /\ UNCHANGED <<mem, kernel, seed, key, input, made, calls>>
      /\ answer' = [of |-> input,
                    text |-> SubSeq(Unpack(mem["DST"]), 1, Len(input.text))]
  BY DEF Decrypted, Enter, hwVars, kernelVars
<1>2. Progress = Blocks
  <2>1. ~ap_start /\ kernel = Idle
    BY <1>1, Quiet DEF RInv
  <2> QED
    BY <1>1, <2>1 DEF Progress
<1>3. FreshRoundTrip'
  <2> SUFFICES ASSUME input.fresh
               PROVE  SubSeq(Unpack(mem["DST"]), 1, Len(input.text)) = input.text
    BY <1>1 DEF FreshRoundTrip
  <2>1. \A i \in 0..(Blocks - 1) : mem["DST"][i] = Pack(input.text)[i]
    BY <1>1, <1>2 DEF RInv, SeedToAnswer, Decrypting
  <2>2. input.text \in Texts
    BY <1>1 DEF RInv, SeedToAnswer, Given, FreshAreEnciphered
  <2>3. mem["DST"] \in Area
    BY DEF RInv, IInv, TypeOK, HwTypeOK, Regions
  <2> QED
    BY <2>1, <2>2, <2>3, TextOfBlocks
<1>4. FreshAreEnciphered' /\ Seeded'
  BY <1>1 DEF RInv, SeedToAnswer, FreshAreEnciphered, Seeded, Settled
<1> QED
  BY <1>1, <1>3, <1>4 DEF SeedToAnswer, Given, Encrypting, Decrypting

\* The steps between the calls of the constructor.
LEMMA StageFollowed ==
  ASSUME RInv, GenerateMatrix \/ GenerateInvMatrix \/ Constructed
  PROVE  SeedToAnswer'
<1>1. /\ stage \in {"ctorSeed", "ctorPerms", "ctorTPerms"} /\ phase = "over"
      /\ stage' \in {"ctorPerms", "ctorTPerms", "idle"}
      /\ UNCHANGED <<kernel, seed, key, input, made, answer, calls>>
  BY DEF GenerateMatrix, GenerateInvMatrix, Constructed, Enter, hwVars, kernelVars
<1>2. mem'["SEED"] = mem["SEED"]
  BY DEF GenerateMatrix, GenerateInvMatrix, Constructed, hwVars, RInv, IInv, TypeOK,
         HwTypeOK, Regions
<1>3. ~ap_start /\ SeedLoaded
  <2>1. ~ap_start
    BY <1>1, Quiet DEF RInv
  <2> QED
    BY <1>1, <2>1 DEF RInv, SeedToAnswer, Seeded, Settled
<1>4. Seeded'
  BY <1>1, <1>2, <1>3 DEF RInv, SeedToAnswer, Seeded, SeedLoaded
<1>5. FreshAreEnciphered' /\ FreshRoundTrip'
  BY <1>1 DEF RInv, SeedToAnswer, FreshAreEnciphered, FreshRoundTrip
<1> QED
  BY <1>1, <1>4, <1>5 DEF SeedToAnswer, Given, Encrypting, Decrypting

LEMMA ConstructFollowed ==
  ASSUME RInv, NEW k \in Keys, Construct(k)
  PROVE  SeedToAnswer'
<1>1. /\ stage' = "ctorSeed" /\ phase' = "ready" /\ key' = k /\ made' = {} /\ answer' = None
      /\ calls' = 0 /\ mem' = [mem EXCEPT !["SEED"] = Pack(k.bytes)]
  BY DEF Construct, Enter
<1>2. mem'["SEED"] = Pack(k.bytes)
  BY <1>1 DEF RInv, IInv, TypeOK, HwTypeOK, Regions
<1>3. Seeded'
  BY <1>1, <1>2 DEF Seeded, Settled
<1> QED
  BY <1>1, <1>3
  DEF SeedToAnswer, Given, FreshAreEnciphered, FreshRoundTrip, Encrypting, Decrypting

\* The first call of encrypt finds the seed in the register: there the stream begins.
LEMMA EncryptFollowed ==
  ASSUME RInv, NEW text \in Texts, Encrypt(text)
  PROVE  SeedToAnswer'
<1>1. /\ stage = "idle" /\ key # NoKey /\ stage' = "encrypt" /\ phase' = "ready"
      /\ input' = text /\ calls' = calls + 1 /\ calls \in Nat
      /\ mem' = [mem EXCEPT !["SRC"] = Pack(text)]
      /\ UNCHANGED <<kernel, seed, key, made, answer>>
  BY CallsAssumption DEF Encrypt, Enter, kernelVars, RInv, IInv, TypeOK
<1>2. ~ap_start /\ kernel = Idle
  BY <1>1, Quiet DEF RInv
<1>3. mem'["SRC"] = Pack(text) /\ mem'["SEED"] = mem["SEED"]
  BY <1>1 DEF RInv, IInv, TypeOK, HwTypeOK, Regions
<1>4. Progress' = 0
  BY <1>1, <1>2 DEF Progress, Idle
<1>5. Encrypting'
  <2> SUFFICES ASSUME calls = 0
               PROVE  \E s : Stream(key, s, 0) /\ seed = s[0]
    BY <1>1, <1>4 DEF Encrypting, Enciphers
  <2>1. seed = Pack(key.bytes)[0]
    BY <1>1 DEF RInv, SeedToAnswer, Seeded, SeedLoaded
  <2> DEFINE s == [i \in 0..Blocks |-> seed]
  <2>2. s \in [0..Blocks -> Block] /\ s[0] = seed
    BY Shapes DEF RInv, IInv, TypeOK, HwTypeOK
  <2> HIDE DEF s
  <2> WITNESS s
  <2> QED
    BY <2>1, <2>2 DEF Stream
<1>6. Seeded'
  BY <1>1, <1>3 DEF RInv, SeedToAnswer, Seeded, Settled
<1>7. Given' /\ FreshAreEnciphered' /\ FreshRoundTrip'
  BY <1>1, <1>3 DEF RInv, SeedToAnswer, Given, FreshAreEnciphered, FreshRoundTrip
<1> QED
  BY <1>1, <1>5, <1>6, <1>7 DEF SeedToAnswer, Decrypting

LEMMA DecryptFollowed ==
  ASSUME RInv, NEW c \in made, Decrypt(c)
  PROVE  SeedToAnswer'
<1>1. /\ stage = "idle" /\ stage' = "decryptSeed" /\ phase' = "ready"
      /\ input' = c /\ calls' = calls + 1 /\ calls \in Nat
      /\ mem' = [mem EXCEPT !["SRC"] = Pack(c.cipher)]
      /\ UNCHANGED <<kernel, seed, key, made, answer>>
  BY CallsAssumption DEF Decrypt, Enter, kernelVars, RInv, IInv, TypeOK
<1>2. mem'["SRC"] = Pack(c.cipher) /\ mem'["SEED"] = mem["SEED"]
  BY <1>1 DEF RInv, IInv, TypeOK, HwTypeOK, Regions
<1>3. Seeded'
  BY <1>1, <1>2 DEF RInv, SeedToAnswer, Seeded, Settled
<1>4. Given' /\ FreshAreEnciphered' /\ FreshRoundTrip'
  BY <1>1, <1>2 DEF RInv, SeedToAnswer, Given, FreshAreEnciphered, FreshRoundTrip
<1> QED
  BY <1>1, <1>3, <1>4 DEF SeedToAnswer, Encrypting, Decrypting

LEMMA StopFollowed ==
  ASSUME RInv, Stop
  PROVE  SeedToAnswer'
<1>1. stage' = "idle" /\ key' = NoKey /\ made' = {} /\ answer' = None
  BY DEF Stop, Enter
<1> QED
  BY <1>1
  DEF SeedToAnswer, Seeded, Settled, Given, FreshAreEnciphered, FreshRoundTrip, Encrypting,
      Decrypting

-----------------------------------------------------------------------------
(* The round trip: the theorem                                             *)

LEMMA StepFollowed ==
  ASSUME RInv, [Next]_vars
  PROVE  RInv'
<1>1. IInv'
  BY StepInv DEF RInv
<1>2. CASE KernelRuns
  <2>1. UNCHANGED driverVars /\ Kernel
    BY <1>2 DEF KernelRuns
  <2> QED
    BY <1>1, <2>1, LoadFollowed, BlockFollowed, ReturnFollowed DEF Kernel, RInv
<1>3. CASE Driver
  BY <1>1, <1>3, WaitFollowed, StageFollowed, EncryptedFollowed, ReloadedFollowed,
     DecryptedFollowed
  DEF Driver, RInv
<1>4. CASE \E k \in Keys : Construct(k)
  BY <1>1, <1>4, ConstructFollowed DEF RInv
<1>5. CASE \E text \in Texts : Encrypt(text)
  BY <1>1, <1>5, EncryptFollowed DEF RInv
<1>6. CASE \E c \in made : Decrypt(c)
  BY <1>1, <1>6, DecryptFollowed DEF RInv
<1>7. CASE Stop
  BY <1>1, <1>7, StopFollowed DEF RInv
<1>8. CASE UNCHANGED vars
  <2>1. UNCHANGED <<ap_start, mem, kernel, seed, stage, phase, key, input, made, answer,
                    calls>>
    BY <1>8 DEF vars, hwVars, busVars, kernelVars, driverVars
  <2>2. Seeded' /\ Given' /\ FreshAreEnciphered' /\ FreshRoundTrip'
    BY <2>1
    DEF RInv, SeedToAnswer, Seeded, SeedLoaded, Settled, Given, FreshAreEnciphered,
        FreshRoundTrip
  <2>3. Progress' = Progress
    BY <2>1 DEF Progress
  <2>4. Encrypting' /\ Decrypting'
    BY <2>1, <2>3 DEF RInv, SeedToAnswer, Encrypting, Decrypting
  <2> QED
    BY <1>1, <2>2, <2>4 DEF RInv, SeedToAnswer
<1> QED
  BY <1>2, <1>3, <1>4, <1>5, <1>6, <1>7, <1>8 DEF Next

LEMMA RoundTripInvariant == Spec => []RInv
<1>1. Init => RInv
  BY InitInv, InitSeedToAnswer DEF RInv
<1> QED
  BY <1>1, StepFollowed, PTL DEF Spec

\* The first ciphertext made after a handshake is decrypted to its text, whatever was
\* encrypted and decrypted in between, for every key, text and size of a text.
THEOREM FreshCiphersReturn == Spec => []FreshRoundTrip
<1>1. RInv => FreshRoundTrip
  BY DEF RInv, SeedToAnswer
<1> QED
  BY <1>1, RoundTripInvariant, PTL

\* When the constructor goes on to its tables, the kernel has the seed of this object's
\* key, although an LD_SEED that a stopped process left behind may have read SEED while
\* the constructor wrote it; and the seed stays until encrypt or decrypt is called.
THEOREM SeedArrives == Spec => []SeedLoadedFirst
<1>1. RInv => SeedLoadedFirst
  BY DEF RInv, SeedToAnswer, Seeded, SeedLoaded, SeedLoadedFirst
<1> QED
  BY <1>1, RoundTripInvariant, PTL

=============================================================================
