-------------------------- MODULE QPPHardwareProofs --------------------------
(***************************************************************************)
(* Facts about the kernel and the memory it works on, for every size of a  *)
(* text, that the proofs about the programs driving it rest on.            *)
(***************************************************************************)
EXTENDS QPPHardware, WordsProofs, FiniteSetTheorems, SequenceTheorems

LEMMA Shapes ==
  /\ M = 5
  /\ Lanes = 0..15
  /\ Word = 0..3
  /\ Blocks \in Nat \ {0}
  /\ 0 \in Addresses /\ 1 \in Addresses
  /\ Addresses \subseteq Nat
  /\ \A a \in 0..(Blocks - 1) : a \in Addresses
<1>1. 32 \div 2 = 16
  OBVIOUS
<1> QED
  BY <1>1, BlocksAssumption DEF M, Lanes, BUS_WIDTH, n, Word, mat_size, Addresses

LEMMA ZeroShapes ==
  /\ ZeroBlock \in Block
  /\ ZeroArea \in Area
  /\ ZeroTables \in Tables
  BY Shapes DEF ZeroBlock, Block, ZeroArea, Area, ZeroTables, Tables, Matrix

\* What load_perms and load_t_perms read from any region is a table.
LEMMA LoadedTables ==
  ASSUME NEW b \in Area
  PROVE  LoadTables(b) \in Tables
<1>1. ASSUME NEW i \in 0..4, NEW j \in 0..3
      PROVE  b[((4 * i) + j) \div 16][((4 * i) + j) % 16] \in 0..3
  <2>1. (4 * i) + j \in 0..19
    OBVIOUS
  <2>2. ((4 * i) + j) \div 16 \in {0, 1} /\ ((4 * i) + j) % 16 \in 0..15
    BY <2>1
  <2> QED
    BY <2>2, Shapes DEF Area, Block
<1>2. LoadTables(b) = [i \in 0..4 |-> [j \in 0..3 |->
                         b[((4 * i) + j) \div 16][((4 * i) + j) % 16]]]
  BY Shapes DEF LoadTables, mat_size, BUS_WIDTH, n
<1> QED
  BY <1>1, <1>2, Shapes DEF Tables, Matrix

LEMMA BitIsBit ==
  ASSUME NEW b \in Block, NEW i \in 0..31
  PROVE  Bit(b, i) \in {0, 1}
<1>1. (31 - i) \div 2 \in 0..15
  OBVIOUS
<1>2. b[(31 - i) \div 2] \in 0..3
  BY <1>1, Shapes DEF Block
<1>3. Bit(b, i) = IF i % 2 = 0 THEN b[(31 - i) \div 2] % 2 ELSE b[(31 - i) \div 2] \div 2
  BY DEF Bit, BUS_WIDTH, n
<1>4. \A word \in 0..3 : word % 2 \in {0, 1} /\ word \div 2 \in {0, 1}
  OBVIOUS
<1> QED
  BY <1>2, <1>3, <1>4

\* The shift register keeps its width.
LEMMA PrngBlock ==
  ASSUME NEW s \in Block
  PROVE  prng(s) \in Block
<1> DEFINE on == {i \in Taps : Bit(s, i) = 1}
           feedback == Cardinality(on) % 2
           shifted(i) == IF i = BUS_WIDTH - 1 THEN feedback ELSE Bit(s, i + 1)
           low(j) == (BUS_WIDTH - n) - (n * j)
<1>1. feedback \in {0, 1}
  <2>1. IsFiniteSet(Taps)
    <3>1. IsFiniteSet({0})
      BY FS_Singleton
    <3>2. IsFiniteSet({0} \union {10})
      BY <3>1, FS_AddElement
    <3>3. IsFiniteSet(({0} \union {10}) \union {30})
      BY <3>2, FS_AddElement
    <3>4. IsFiniteSet((({0} \union {10}) \union {30}) \union {31})
      BY <3>3, FS_AddElement
    <3>5. Taps = (({0} \union {10}) \union {30}) \union {31}
      BY DEF Taps
    <3> QED
      BY <3>4, <3>5
  <2>2. Cardinality(on) \in Nat
    BY <2>1, FS_Subset, FS_CardinalityType
  <2> HIDE DEF on
  <2> QED
    BY <2>2
<1>2. ASSUME NEW i \in 0..31
      PROVE  shifted(i) \in {0, 1}
  <2> HIDE DEF feedback
  <2> QED
    BY <1>1, BitIsBit DEF BUS_WIDTH
<1>3. ASSUME NEW j \in Lanes
      PROVE  2 * shifted(low(j) + 1) + shifted(low(j)) \in Word
  <2>1. low(j) + 1 \in 0..31 /\ low(j) \in 0..31
    BY Shapes DEF BUS_WIDTH, n
  <2>2. shifted(low(j) + 1) \in {0, 1} /\ shifted(low(j)) \in {0, 1}
    BY <1>2, <2>1
  <2> HIDE DEF shifted
  <2> QED
    BY <2>2, Shapes
<1>4. prng(s) = [j \in Lanes |-> 2 * shifted(low(j) + 1) + shifted(low(j))]
  BY DEF prng
<1> QED
  <2> HIDE DEF shifted, low
  <2> QED
    BY <1>3, <1>4 DEF Block

LEMMA CipherBlocks ==
  ASSUME NEW tables \in Tables, NEW b \in Block, NEW rn \in Block
  PROVE  /\ EncryptBlock(tables, b, rn) \in Block
         /\ DecryptBlock(tables, b, rn) \in Block
<1>1. ASSUME NEW j \in Lanes
      PROVE  /\ encrypt_word(tables, b[j], rn[j]) \in Word
             /\ decrypt_word(tables, b[j], rn[j]) \in Word
  <2>1. b[j] \in Word /\ rn[j] \in Word
    BY DEF Block
  <2>2. rn[j] % M \in 0..(M - 1)
    BY <2>1, Shapes
  <2>3. tables[rn[j] % M] \in Matrix
    BY <2>2 DEF Tables
  <2>4. /\ tables[rn[j] % M][Xor(b[j], rn[j])] \in Word
        /\ tables[rn[j] % M][b[j]] \in Word
    BY <2>1, <2>3, XorWord DEF Matrix
  <2> QED
    BY <2>1, <2>4, XorWord DEF encrypt_word, decrypt_word
<1> QED
  BY <1>1 DEF EncryptBlock, DecryptBlock, Block

\* A block is decrypted with the block of masks it was encrypted with, if the matrices
\* that its words select undo each other.
LEMMA BlockRoundTrip ==
  ASSUME NEW p \in Tables, NEW t \in Tables, NEW b \in Block, NEW rn \in Block,
         \A j \in Lanes : IsInverseOf(t[rn[j]], p[rn[j]])
  PROVE  DecryptBlock(t, EncryptBlock(p, b, rn), rn) = b
<1>1. ASSUME NEW j \in Lanes
      PROVE  decrypt_word(t, encrypt_word(p, b[j], rn[j]), rn[j]) = b[j]
  <2>1. rn[j] \in Word /\ b[j] \in Word
    BY DEF Block
  <2>2. rn[j] % M = rn[j]
    BY <2>1, Shapes
  <2>3. Xor(b[j], rn[j]) \in Word /\ Xor(Xor(b[j], rn[j]), rn[j]) = b[j]
    BY <2>1, XorWord
  <2> QED
    BY <2>2, <2>3 DEF encrypt_word, decrypt_word, IsInverseOf
<1>2. DecryptBlock(t, EncryptBlock(p, b, rn), rn) = [j \in Lanes |-> b[j]]
  BY <1>1 DEF DecryptBlock, EncryptBlock
<1> QED
  BY <1>2 DEF Block

\* Whatever the registers, a step of the kernel keeps the types of the device, as long as
\* the size of a text is the one the program has set.
LEMMA KernelKeepsTypes ==
  ASSUME HwTypeOK, Kernel,
         reg.control \in {"ENCRYPT", "DECRYPT"} => reg.size = Blocks
  PROVE  HwTypeOK'
<1>1. mem[reg.src] \in Area /\ reg.src \in Regions /\ reg.dst \in Regions
  BY DEF HwTypeOK, Registers
<1>2. CASE KernelBegin
  BY <1>2, Shapes DEF HwTypeOK, KernelBegin, busVars
<1>3. CASE LoadPerms \/ LoadTPerms \/ LoadSeed
  <2>1. LoadTables(mem[reg.src]) \in Tables /\ mem[reg.src][0] \in Block
    BY <1>1, LoadedTables, Shapes DEF Area
  <2> QED
    BY <1>3, <2>1 DEF HwTypeOK, LoadPerms, LoadTPerms, LoadSeed, Return
<1>4. CASE CipherBlock
  <2>1. kernel \in 0..(Blocks - 1) /\ kernel \in Addresses
    BY <1>4, Shapes DEF HwTypeOK, CipherBlock, Idle
  <2>2. seed' \in Block
    BY <1>4, PrngBlock DEF HwTypeOK, CipherBlock
  <2> DEFINE out == IF reg.control = "ENCRYPT"
                    THEN EncryptBlock(perms, mem[reg.src][kernel], seed')
                    ELSE DecryptBlock(t_perms, mem[reg.src][kernel], seed')
  <2>3. out \in Block
    <3>1. mem[reg.src][kernel] \in Block
      BY <1>1, <2>1 DEF Area
    <3> QED
      BY <2>2, <3>1, CipherBlocks DEF HwTypeOK
  <2>4. mem' = [mem EXCEPT ![reg.dst][kernel] = out]
    BY <1>4 DEF CipherBlock
  <2> HIDE DEF out
  <2>5. mem' \in [Regions -> Area]
    BY <1>1, <2>1, <2>3, <2>4 DEF HwTypeOK, Area
  <2>6. kernel' \in 0..Blocks
    BY <1>4, <2>1, Shapes DEF CipherBlock
  <2> QED
    BY <1>4, <2>2, <2>5, <2>6 DEF HwTypeOK, CipherBlock, busVars
<1>5. CASE CipherReturn
  BY <1>5 DEF HwTypeOK, CipherReturn, Return
<1> QED
  BY <1>2, <1>3, <1>4, <1>5 DEF Kernel

=============================================================================
