------------------------- MODULE DemoProgramsProofs -------------------------
(***************************************************************************)
(* Proofs about the three programs that run the kernel on a text of their  *)
(* own, for every size of a text, every text, every value that the shift   *)
(* register may hold at first, and every layout and behaviour of the cache.*)
(* The last part is about the test bench, whose data are fixed.            *)
(***************************************************************************)
EXTENDS DemoPrograms, QPPHardwareProofs

-----------------------------------------------------------------------------
(* The inductive invariant                                                 *)

\* The app may be here when it finds a call left behind: before its first call.  What it
\* has done meanwhile it has done too early.
BeforeItsCall ==
  program = "app" /\ phase = "start" /\ (stage = 0 \/ (stage = 1 /\ overlapped))

\* Program and kernel take turns, although the app does not wait for qpp_ready: from
\* Start to Return the program is in the loop that waits for the call.  A first call that
\* the app started during a call left behind may be lost: then it waits for that one.
Turns ==
  /\ kernel # Idle => ap_start
  /\ ap_start => BeforeItsCall \/ (phase = "done" /\ ~ap_done)
  /\ phase # "start" => /\ stage \in DOMAIN Calls
                        /\ reg = Calls[stage] \/ (overlapped /\ stage = 1)
  /\ overlapped => program = "app"
  /\ result # None => Finished /\ phase = "start"
  /\ reg.dst \in {"SRC", "DST", "OUT"}
  /\ reg.control \in {"ENCRYPT", "DECRYPT"} => reg.size = Blocks

\* Behind the invalidation no line with b_out is dirty, since the processor does not
\* write to it: what the cache fetches of it then is what the kernel wrote.
CipherKept ==
  program = "firmware" /\ stage > 2 =>
    /\ "DST" \notin dirty
    /\ "DST" \notin spoilt => mem["DST"] = cipher /\ cache["DST"] \in {Absent, cipher}

\* The app and the bench do not look through a cache.
Uncached ==
  program # "firmware" => dirty = {} /\ cache = [r \in Outputs |-> Absent]

DataTyped ==
  /\ test_data \in Area
  /\ program # "bench" => \A a \in Addresses : a >= Blocks => test_data[a] = ZeroBlock

IInv == TypeOK /\ Turns /\ CipherKept /\ PrintsCiphertext /\ Uncached /\ DataTyped

\* The tables that the app or the firmware means to load.
Perms == IF program = "app" THEN test_perms ELSE firmware_perms
TPerms == IF program = "app" THEN test_t_perms ELSE firmware_t_perms

\* The call with this number has been made and is over.
Over(st) == stage > st \/ (stage = st /\ phase # "start" /\ ~ap_start)

\* The blocks that the cipher call with this number has done.
Progress(st) ==
  IF stage < st THEN 0
  ELSE IF stage > st THEN Blocks
  ELSE IF kernel # Idle THEN kernel
  ELSE IF phase = "start" \/ ap_start THEN 0 ELSE Blocks

\* The runs that PrintsPlainText is about, from the copies of the app on, as long as no
\* write-back has done harm.
Unspoilt ==
  /\ program # "bench" /\ seed0 = ZeroBlock
  /\ ~overlapped /\ spoilt = {}
  /\ program = "app" => stage # 0

\* Where the four arguments of the calls are.
Arguments ==
  /\ stage > 0 => mem["SRC"] = test_data
  /\ stage = 1 => mem["PERMS"] = Perms
  /\ stage = 3 => mem[IF program = "app" THEN "PERMS" ELSE "T_PERMS"] = TPerms
  /\ stage = 0 /\ program = "firmware" =>
       mem["SRC"] = test_data /\ mem["PERMS"] = Perms
  /\ stage \in 0..2 /\ program = "firmware" => mem["T_PERMS"] = TPerms

\* The tables arrive, and what the two cipher calls have done so far is the ciphertext
\* under a mask of zeros, and the text.
Loaded ==
  /\ Over(1) => perms = LoadTables(Perms)
  /\ Over(3) => t_perms = LoadTables(TPerms)

CipherDone ==
  \A i \in 0..(Progress(2) - 1) :
    mem["DST"][i] = EncryptBlock(LoadTables(Perms), test_data[i], ZeroBlock)

TextDone ==
  program = "firmware" =>
    /\ \A i \in 0..(Progress(4) - 1) : mem["OUT"][i] = test_data[i]
    /\ \A a \in Addresses : a >= Blocks => mem["OUT"][a] = ZeroBlock

\* What the processor sees of m_out is what the kernel wrote, if it was so when the
\* decryption was over.
TextSeen == Finished /\ "OUT" \notin stale => Read("OUT") = mem["OUT"]

\* The shift register stays 0, so that every mask is.
PlainKept ==
  Unspoilt => /\ seed = ZeroBlock
              /\ Arguments /\ Loaded /\ CipherDone /\ TextDone /\ TextSeen

PInv == IInv /\ PlainKept /\ PrintsPlainText

-----------------------------------------------------------------------------
(* The arrays, the calls and the cache                                     *)

\* Blocks written in hexadecimal digits are blocks.
LEMMA HexArea ==
  ASSUME NEW blocks, Len(blocks) \in Nat,
         \A i \in 1..Len(blocks) : \A d \in 1..8 : blocks[i][d] \in 0..15
  PROVE  AreaOf(blocks) \in Area
<1>1. ASSUME NEW i \in 1..Len(blocks), NEW j \in Lanes
      PROVE  FromHex(blocks[i])[j] \in Word
  <2> DEFINE digit == blocks[i][(j \div 2) + 1]
  <2>1. j \in 0..15 /\ (j \div 2) + 1 \in 1..8
    BY Shapes
  <2>2. digit \in 0..15
    BY <2>1
  <2>3. FromHex(blocks[i])[j] = IF j % 2 = 0 THEN digit \div 4 ELSE digit % 4
    BY DEF FromHex
  <2> HIDE DEF digit
  <2> QED
    BY <2>2, <2>3, Shapes
<1>2. \A i \in 1..Len(blocks) : FromHex(blocks[i]) \in Block
  <2> SUFFICES ASSUME NEW i \in 1..Len(blocks)
               PROVE  FromHex(blocks[i]) \in Block
    OBVIOUS
  <2>1. FromHex(blocks[i]) = [j \in Lanes |-> FromHex(blocks[i])[j]]
    BY DEF FromHex
  <2> QED
    BY <1>1, <2>1, Zenon DEF Block
<1>3. \A a \in Addresses : a < Len(blocks) => a + 1 \in 1..Len(blocks)
  BY Shapes
<1>4. \A a \in Addresses :
        (IF a < Len(blocks) THEN FromHex(blocks[a + 1]) ELSE ZeroBlock) \in Block
  BY <1>2, <1>3, ZeroShapes
<1> QED
  BY <1>4 DEF AreaOf, Area

LEMMA ArrayTypes ==
  /\ test_perms \in Area /\ test_t_perms \in Area
  /\ firmware_perms \in Area /\ firmware_t_perms \in Area
  /\ test_seed \in Area /\ bench_data \in Area
<1>1. test_perms \in Area
  <2> DEFINE blocks == << <<6, 3, 9, 3, 7, 8, 3, 9>>, <<3, 6, 0, 0, 0, 0, 0, 0>> >>
  <2>1. Len(blocks) = 2
    OBVIOUS
  <2>2. \A d \in 1..8 : blocks[1][d] \in 0..15
    OBVIOUS
  <2>3. \A d \in 1..8 : blocks[2][d] \in 0..15
    OBVIOUS
  <2>4. test_perms = AreaOf(blocks)
    BY DEF test_perms
  <2> HIDE DEF blocks
  <2>5. \A i \in 1..Len(blocks) : i = 1 \/ i = 2
    BY <2>1
  <2>6. Len(blocks) \in Nat
    BY <2>1
  <2>7. \A i \in 1..Len(blocks) : \A d \in 1..8 : blocks[i][d] \in 0..15
    BY <2>2, <2>3, <2>5
  <2>8. AreaOf(blocks) \in Area
    BY <2>6, <2>7, HexArea
  <2> QED
    BY <2>4, <2>8
<1>2. test_t_perms \in Area
  <2> DEFINE blocks == << <<8, 7, 9, 3, 12, 9, 3, 9>>, <<2, 13, 0, 0, 0, 0, 0, 0>> >>
  <2>1. Len(blocks) = 2
    OBVIOUS
  <2>2. \A d \in 1..8 : blocks[1][d] \in 0..15
    OBVIOUS
  <2>3. \A d \in 1..8 : blocks[2][d] \in 0..15
    OBVIOUS
  <2>4. test_t_perms = AreaOf(blocks)
    BY DEF test_t_perms
  <2> HIDE DEF blocks
  <2>5. \A i \in 1..Len(blocks) : i = 1 \/ i = 2
    BY <2>1
  <2>6. Len(blocks) \in Nat
    BY <2>1
  <2>7. \A i \in 1..Len(blocks) : \A d \in 1..8 : blocks[i][d] \in 0..15
    BY <2>2, <2>3, <2>5
  <2>8. AreaOf(blocks) \in Area
    BY <2>6, <2>7, HexArea
  <2> QED
    BY <2>4, <2>8
<1>3. test_seed \in Area
  BY HexArea DEF test_seed
<1>4. bench_data \in Area
  BY HexArea DEF bench_data
<1> QED
  BY <1>1, <1>2, <1>3, <1>4 DEF firmware_perms, firmware_t_perms

LEMMA NotAbsent == \A a \in Area : a # Absent
<1>1. \A a \in Area : DOMAIN a = Addresses
  BY DEF Area
<1>2. DOMAIN Absent = {}
  BY DEF Absent
<1> QED
  BY <1>1, <1>2, Shapes

\* Whatever the registers held before, the calls are well formed.
LEMMA CallTypes ==
  ASSUME program \in Programs, reg \in Registers
  PROVE  /\ DOMAIN Calls = 1..(IF program = "bench" THEN 6 ELSE 4)
         /\ Len(Calls) = IF program = "bench" THEN 6 ELSE 4
         /\ \A st \in DOMAIN Calls :
              /\ Calls[st] \in Registers
              /\ reg.dst \in {"SRC", "DST", "OUT"} => Calls[st].dst \in {"SRC", "DST", "OUT"}
              /\ Calls[st].control \in {"ENCRYPT", "DECRYPT"} => Calls[st].size = Blocks
<1>1. \A control \in {"LD_PERMS", "LD_T_PERMS"}, src \in Regions :
        /\ Load(control, src) \in Registers
        /\ Load(control, src).dst = reg.dst
        /\ Load(control, src).control = control
  BY DEF Load, Registers, Commands, PERM_LEN
<1>2. /\ LoadSeedCall \in Registers
      /\ LoadSeedCall.dst = reg.dst
      /\ LoadSeedCall.control = "LD_SEED"
  BY DEF LoadSeedCall, Registers, Commands, Regions
<1>3. \A control \in {"ENCRYPT", "DECRYPT"}, src, dst \in Regions :
        /\ Cipher(control, src, dst) \in Registers
        /\ Cipher(control, src, dst).dst = dst
        /\ Cipher(control, src, dst).size = Blocks
  BY Shapes DEF Cipher, Registers, Commands
<1> DEFINE Good(c) == /\ c \in Registers
                      /\ reg.dst \in {"SRC", "DST", "OUT"} => c.dst \in {"SRC", "DST", "OUT"}
                      /\ c.control \in {"ENCRYPT", "DECRYPT"} => c.size = Blocks
<1>4. \A control \in {"LD_PERMS", "LD_T_PERMS"}, src \in Regions : Good(Load(control, src))
  BY <1>1
<1>5. Good(LoadSeedCall)
  BY <1>2
<1>6. \A control \in {"ENCRYPT", "DECRYPT"}, src \in Regions, dst \in {"SRC", "DST", "OUT"} :
        Good(Cipher(control, src, dst))
  BY <1>3 DEF Regions
<1> HIDE DEF Good
<1>7. CASE program = "app"
  <2>1. Calls = << Load("LD_PERMS", "PERMS"), Cipher("ENCRYPT", "SRC", "DST"),
                   Load("LD_T_PERMS", "PERMS"), Cipher("DECRYPT", "DST", "SRC") >>
    BY <1>7 DEF Calls
  <2>2. DOMAIN Calls = 1..4 /\ Len(Calls) = 4 /\ \A st \in 1..4 : Good(Calls[st])
    BY <1>4, <1>6, <2>1 DEF Regions
  <2> QED
    BY <1>7, <2>2 DEF Good
<1>8. CASE program = "firmware"
  <2>1. Calls = << Load("LD_PERMS", "PERMS"), Cipher("ENCRYPT", "SRC", "DST"),
                   Load("LD_T_PERMS", "T_PERMS"), Cipher("DECRYPT", "DST", "OUT") >>
    BY <1>8 DEF Calls
  <2>2. DOMAIN Calls = 1..4 /\ Len(Calls) = 4 /\ \A st \in 1..4 : Good(Calls[st])
    BY <1>4, <1>6, <2>1 DEF Regions
  <2> QED
    BY <1>8, <2>2 DEF Good
<1>9. CASE program = "bench"
  <2>1. Calls = << Load("LD_PERMS", "PERMS"), LoadSeedCall, Load("LD_T_PERMS", "T_PERMS"),
                   Cipher("ENCRYPT", "SRC", "DST"), LoadSeedCall,
                   Cipher("DECRYPT", "DST", "OUT") >>
    BY <1>9 DEF Calls
  <2>2. DOMAIN Calls = 1..6 /\ Len(Calls) = 6 /\ \A st \in 1..6 : Good(Calls[st])
    BY <1>4, <1>5, <1>6, <2>1 DEF Regions
  <2> QED
    BY <1>9, <2>2 DEF Good
<1> QED
  BY <1>7, <1>8, <1>9 DEF Programs

\* The calls of the app and of the firmware, one by one.
LEMMA CallsInOrder ==
  ASSUME reg \in Registers, program \in {"app", "firmware"}
  PROVE  /\ Calls[1] = Load("LD_PERMS", "PERMS")
         /\ Calls[2] = Cipher("ENCRYPT", "SRC", "DST")
         /\ Calls[3] = Load("LD_T_PERMS", IF program = "app" THEN "PERMS" ELSE "T_PERMS")
         /\ Calls[4] = Cipher("DECRYPT", "DST", IF program = "app" THEN "SRC" ELSE "OUT")
<1>1. CASE program = "app"
  BY <1>1 DEF Calls
<1>2. CASE program = "firmware"
  BY <1>2 DEF Calls
<1> QED
  BY <1>1, <1>2

\* What the program is decides how many calls there are.
LEMMA AsManyCalls ==
  ASSUME program \in Programs, reg \in Registers, program' = program
  PROVE  DOMAIN Calls' = DOMAIN Calls
<1>1. DOMAIN Calls = 1..(IF program = "bench" THEN 6 ELSE 4)
  BY CallTypes
<1>2. CASE program = "app"
  <2>1. DOMAIN Calls' = 1..4
    BY <1>2 DEF Calls
  <2> QED
    BY <1>1, <1>2, <2>1
<1>3. CASE program = "firmware"
  <2>1. DOMAIN Calls' = 1..4
    BY <1>3 DEF Calls
  <2> QED
    BY <1>1, <1>3, <2>1
<1>4. CASE program = "bench"
  <2>1. DOMAIN Calls' = 1..6
    BY <1>4 DEF Calls
  <2> QED
    BY <1>1, <1>4, <2>1
<1> QED
  BY <1>2, <1>3, <1>4 DEF Programs

\* A call that has set the registers would set them to what they are.
LEMMA StartedCall ==
  ASSUME program \in Programs, reg \in Registers, stage \in DOMAIN Calls,
         reg' = Calls[stage], UNCHANGED <<program, stage>>
  PROVE  stage' \in DOMAIN Calls' /\ reg' = Calls'[stage']
<1>1. \A control \in {"LD_PERMS", "LD_T_PERMS"}, src \in Regions :
        reg' = Load(control, src) => reg' = Load(control, src)'
  BY DEF Load, Registers
<1>2. reg' = LoadSeedCall => reg' = LoadSeedCall'
  BY DEF LoadSeedCall, Registers
<1>3. \A control, src, dst : Cipher(control, src, dst)' = Cipher(control, src, dst)
  BY DEF Cipher
<1>4. reg' \in Registers
  BY CallTypes
<1>5. DOMAIN Calls' = DOMAIN Calls
  BY AsManyCalls
<1>6. CASE program = "app"
  <2>1. stage \in {1, 2, 3, 4}
    BY <1>6, CallTypes
  <2> QED
    BY <1>1, <1>3, <1>5, <1>6, <2>1 DEF Calls, Regions
<1>7. CASE program = "firmware"
  <2>1. stage \in {1, 2, 3, 4}
    BY <1>7, CallTypes
  <2> QED
    BY <1>1, <1>3, <1>5, <1>7, <2>1 DEF Calls, Regions
<1>8. CASE program = "bench"
  <2>1. stage \in {1, 2, 3, 4, 5, 6}
    BY <1>8, CallTypes
  <2> QED
    BY <1>1, <1>2, <1>3, <1>5, <1>8, <2>1 DEF Calls, Regions
<1> QED
  BY <1>6, <1>7, <1>8 DEF Programs

LEMMA CallsKept ==
  ASSUME UNCHANGED <<program, reg>>
  PROVE  Calls' = Calls
  BY DEF Calls, Load, LoadSeedCall, Cipher

\* A line is written back only where the processor has written.
LEMMA WrittenBack ==
  ASSUME TypeOK, NEW lines \in SUBSET Outputs, WriteBack(lines)
  PROVE  /\ mem' \in [Regions -> Area]
         /\ \A r \in Regions \ (lines \intersect dirty) : mem'[r] = mem[r]
<1>1. \A r \in dirty : r \in Outputs /\ cache[r] \in Area
  BY DEF TypeOK
<1> QED
  BY <1>1 DEF TypeOK, HwTypeOK, WriteBack

LEMMA Dropped ==
  ASSUME TypeOK, NEW lines \in SUBSET Outputs, Drop(lines)
  PROVE  /\ cache' \in [Outputs -> Area \union {Absent}]
         /\ dirty' \subseteq {r \in Outputs : cache'[r] # Absent}
  BY DEF TypeOK, Drop

LEMMA LineTypes ==
  ASSUME NEW r \in Outputs
  PROVE  Line(r) \subseteq Outputs /\ r \in Line(r)
  BY DEF Line

-----------------------------------------------------------------------------
(* The steps keep the invariant                                            *)

LEMMA InitInv ==
  ASSUME Init
  PROVE  IInv
<1>1. seed \in Block /\ test_data \in Area
  BY InputsAssumption, ArrayTypes DEF Init, HwInit
<1>2. mem \in [Regions -> Area]
  <2>1. InitialMemory \in [Regions -> Area]
    BY <1>1, ArrayTypes, ZeroShapes DEF InitialMemory, ZeroMemory, Init, Programs
  <2> QED
    BY <2>1 DEF Init
<1>3. HwTypeOK
  <2>1. CipherRegisters \in Registers
    BY Shapes DEF CipherRegisters, Registers, Commands, Regions
  <2>2. /\ ap_start \in BOOLEAN /\ kernel \in 0..Blocks \union {Idle} /\ reg \in Registers
    <3>1. CASE NoCall
      BY <2>1, <3>1 DEF NoCall
    <3>2. CASE SeedCallLeft
      <4>1. /\ ap_start = TRUE /\ kernel \in {Idle, 0}
            /\ reg = [CipherRegisters EXCEPT !.control = "LD_SEED", !.size = 1, !.src = "SEED"]
        BY <3>2 DEF SeedCallLeft
      <4>2. reg \in Registers
        BY <2>1, <4>1 DEF Registers, Commands, Regions
      <4>3. 0 \in 0..Blocks
        BY BlocksAssumption
      <4> QED
        BY <4>1, <4>2, <4>3
    <3> QED
      BY <3>1, <3>2 DEF Init
  <2> QED
    BY <1>1, <1>2, <2>2, ZeroShapes DEF Init, HwInit, HwTypeOK
<1>4. TypeOK
  <2>1. layout \in Layouts
    BY DEF Init, Layouts
  <2>2. dirty \subseteq Outputs
    BY DEF Init
  <2>3. cache \in [Outputs -> Area \union {Absent}]
    BY ZeroShapes DEF Init
  <2>4. dirty \subseteq {r \in Outputs : cache[r] # Absent}
    BY <2>2, ZeroShapes, NotAbsent DEF Init
  <2>5. /\ stage \in 0..7 /\ phase \in {"start", "done", "drain"}
        /\ restarted \in BOOLEAN /\ overlapped \in BOOLEAN
    <3>1. stage = IF program = "bench" THEN 1 ELSE 0
      BY DEF Init
    <3>2. stage \in 0..7
      BY <3>1
    <3>3. phase = "start" /\ restarted = FALSE /\ overlapped = FALSE
      BY DEF Init
    <3> QED
      BY <3>2, <3>3, Zenon
  <2>6. /\ program \in Programs
        /\ cipher \in Area \union {None} /\ result \in [cipher : Area, text : Area] \union {None}
        /\ spoilt \subseteq Outputs /\ stale \subseteq Outputs
    BY DEF Init
  <2> QED
    BY <1>3, <2>1, <2>3, <2>4, <2>5, <2>6, Zenon DEF TypeOK
<1>5. Turns
  <2>1. phase = "start" /\ result = None /\ ~overlapped
    BY DEF Init
  <2>2. CASE NoCall
    BY <2>1, <2>2 DEF NoCall, CipherRegisters, Turns
  <2>3. CASE program = "app" /\ SeedCallLeft
    <3>1. stage = 0 /\ ap_start = TRUE
      BY <2>3 DEF Init, SeedCallLeft
    <3>2. reg.dst = "DST" /\ reg.control = "LD_SEED"
      BY <2>3 DEF SeedCallLeft, CipherRegisters
    <3> QED
      BY <2>1, <2>3, <3>1, <3>2 DEF Turns, BeforeItsCall
  <2> QED
    BY <2>2, <2>3 DEF Init
<1>6. CipherKept /\ PrintsCiphertext
  BY DEF Init, CipherKept, PrintsCiphertext
<1>7. Uncached /\ DataTyped
  <2>1. Uncached
    BY DEF Init, Uncached
  <2>2. program # "bench" => test_data \in Data
    BY DEF Init
  <2> QED
    BY <1>1, <2>1, <2>2, InputsAssumption DEF DataTyped
<1> QED
  BY <1>4, <1>5, <1>6, <1>7 DEF IInv

LEMMA KernelInv ==
  ASSUME IInv, KernelRuns
  PROVE  IInv'
<1>1. /\ UNCHANGED <<program, seed0, test_data, stage, phase, cipher, result, restarted,
                     overlapped, stale>>
      /\ UNCHANGED <<layout, cache, dirty, spoilt>>
      /\ Kernel /\ reg' = reg
  BY DEF KernelRuns, appVars, cacheVars, Kernel, KernelBegin, LoadPerms, LoadTPerms,
         LoadSeed, CipherBlock, CipherReturn, Return, busVars
<1>2. HwTypeOK'
  BY <1>1, KernelKeepsTypes DEF IInv, TypeOK, Turns
<1>3. TypeOK'
  BY <1>1, <1>2 DEF IInv, TypeOK
<1>4. ap_start
  <2>1. kernel # Idle \/ ap_start
    BY <1>1, Shapes
    DEF IInv, TypeOK, HwTypeOK, Turns, Kernel, KernelBegin, LoadPerms, LoadTPerms,
        LoadSeed, CipherBlock, CipherReturn, Idle
  <2> QED
    BY <2>1 DEF IInv, Turns
<1>5. Turns'
  <2>1. \/ ap_start' = ap_start /\ ap_done' = ap_done
        \/ ~ap_start' /\ kernel' = Idle
    BY <1>1
    DEF Kernel, KernelBegin, LoadPerms, LoadTPerms, LoadSeed, CipherBlock, CipherReturn,
        Return, busVars
  <2>2. Calls' = Calls
    BY <1>1, CallsKept
  <2>3. Finished' = Finished
    BY <1>1, <2>2 DEF Finished
  <2>4. /\ kernel' # Idle => ap_start'
        /\ ap_start' => BeforeItsCall' \/ (phase' = "done" /\ ~ap_done')
    <3>1. BeforeItsCall \/ (phase = "done" /\ ~ap_done)
      BY <1>4 DEF IInv, Turns
    <3>2. ap_start = TRUE
      BY <1>4 DEF IInv, TypeOK, HwTypeOK
    <3>3. overlapped' = overlapped /\ overlapped \in BOOLEAN
      BY <1>1 DEF IInv, TypeOK
    <3>4. BeforeItsCall => BeforeItsCall'
      BY <1>1, <3>3 DEF BeforeItsCall
    <3>5. CASE ap_start' = ap_start /\ ap_done' = ap_done
      <4>1. kernel' # Idle => ap_start'
        BY <3>2, <3>5
      <4>2. phase = "done" /\ ~ap_done => phase' = "done" /\ ~ap_done'
        BY <1>1, <3>5 DEF IInv, TypeOK, HwTypeOK
      <4> QED
        BY <3>1, <3>4, <4>1, <4>2
    <3>6. CASE ~ap_start' /\ kernel' = Idle
      BY <3>6
    <3> QED
      BY <2>1, <3>5, <3>6
  <2>5. phase' # "start" => /\ stage' \in DOMAIN Calls'
                            /\ reg' = Calls'[stage'] \/ (overlapped' /\ stage' = 1)
    BY <1>1, <2>2 DEF IInv, Turns
  <2> QED
    BY <1>1, <2>3, <2>4, <2>5 DEF IInv, Turns
<1>6. program = "firmware" /\ stage > 2 => mem'["DST"] = mem["DST"]
  <2> SUFFICES ASSUME program = "firmware", stage > 2
               PROVE  mem'["DST"] = mem["DST"]
    OBVIOUS
  <2>1. stage \in DOMAIN Calls /\ reg = Calls[stage]
    BY <1>4 DEF IInv, Turns, BeforeItsCall
  <2>2. stage \in {3, 4}
    <3>1. program \in Programs /\ reg \in Registers
      BY DEF IInv, TypeOK, HwTypeOK
    <3>2. DOMAIN Calls = 1..4
      BY <3>1, CallTypes
    <3>3. stage \in 1..4
      BY <2>1, <3>2
    <3> QED
      BY <3>3
  <2>3. reg.control = "LD_T_PERMS" \/ reg.dst = "OUT"
    <3>1. reg \in Registers /\ program \in {"app", "firmware"}
      BY DEF IInv, TypeOK, HwTypeOK
    <3>2. /\ Calls[3] = Load("LD_T_PERMS", "T_PERMS")
          /\ Calls[4] = Cipher("DECRYPT", "DST", "OUT")
      BY <3>1, CallsInOrder
    <3>3. reg = Load("LD_T_PERMS", "T_PERMS") \/ reg = Cipher("DECRYPT", "DST", "OUT")
      BY <2>1, <2>2, <3>2
    <3>4. Load("LD_T_PERMS", "T_PERMS").control = "LD_T_PERMS"
      BY <3>1 DEF Load, Registers
    <3>5. Cipher("DECRYPT", "DST", "OUT").dst = "OUT"
      BY DEF Cipher
    <3> QED
      BY <3>3, <3>4, <3>5
  <2>4. CASE CipherBlock
    BY <2>3, <2>4 DEF CipherBlock, IInv, TypeOK, HwTypeOK, Regions
  <2>5. CASE ~CipherBlock
    BY <1>1, <2>5
    DEF Kernel, KernelBegin, LoadPerms, LoadTPerms, LoadSeed, CipherReturn
  <2> QED
    BY <2>4, <2>5
<1>7. CipherKept' /\ PrintsCiphertext' /\ Uncached' /\ DataTyped'
  BY <1>1, <1>6 DEF IInv, CipherKept, PrintsCiphertext, Uncached, DataTyped
<1> QED
  BY <1>3, <1>5, <1>7 DEF IInv

\* The steps of a program up to the next loop that waits, but for those behind a call.
LEMMA ProgramInv ==
  ASSUME IInv, CopyIn \/ AwaitReady \/ StartCall \/ AwaitDone \/ PrintResult
  PROVE  IInv'
<1>1. /\ UNCHANGED <<program, layout, cache, dirty, spoilt, cipher, kernel, perms, t_perms,
                     seed, restarted, stale>>
      /\ ap_done' \in BOOLEAN
  BY DEF CopyIn, AwaitReady, StartCall, AwaitDone, PrintResult, hwVars, kernelVars, busVars,
         cacheVars, Start, qpp_ready, qpp_done, ReadCtrl, IInv, TypeOK, HwTypeOK
<1>2. CASE CopyIn
  <2>1. /\ program = "app" /\ stage = 0 /\ stage' = 1
        /\ UNCHANGED <<ap_start, ap_done, reg, phase, result, test_data>>
        /\ mem' = [mem EXCEPT !["PERMS"] = test_perms, !["SRC"] = test_data]
        /\ overlapped' = (overlapped \/ ap_start)
    BY <1>2 DEF CopyIn, GoAhead, busVars
  <2>2. ~Finished
    BY <2>1, CallTypes DEF Finished, IInv, TypeOK, HwTypeOK
  <2>3. phase = "start" /\ result = None
    <3>1. 0 \notin DOMAIN Calls
      BY CallTypes DEF IInv, TypeOK, HwTypeOK
    <3> QED
      BY <2>1, <2>2, <3>1 DEF IInv, Turns
  <2>4. TypeOK'
    <3>1. mem' \in [Regions -> Area]
      BY <2>1, ArrayTypes DEF IInv, DataTyped, TypeOK, HwTypeOK, Regions
    <3> QED
      BY <1>1, <2>1, <3>1 DEF IInv, TypeOK, HwTypeOK
  <2>5. Turns'
    BY <1>1, <2>1, <2>3 DEF IInv, Turns, BeforeItsCall
  <2> QED
    BY <1>1, <2>1, <2>3, <2>4, <2>5
    DEF IInv, DataTyped, CipherKept, PrintsCiphertext, Uncached
<1>3. CASE AwaitReady
  <2>1. /\ program = "firmware" /\ stage = 0 /\ stage' = 1 /\ ~ap_start
        /\ ap_done' = FALSE
        /\ UNCHANGED <<ap_start, reg, mem, phase, result, overlapped, test_data>>
    BY <1>3 DEF AwaitReady, qpp_ready, ReadCtrl
  <2>2. ~Finished
    BY <2>1, CallTypes DEF Finished, IInv, TypeOK, HwTypeOK
  <2>3. phase = "start" /\ result = None
    <3>1. 0 \notin DOMAIN Calls
      BY CallTypes DEF IInv, TypeOK, HwTypeOK
    <3> QED
      BY <2>1, <2>2, <3>1 DEF IInv, Turns
  <2>4. TypeOK'
    BY <1>1, <2>1 DEF IInv, TypeOK, HwTypeOK
  <2>5. Turns'
    BY <1>1, <2>1, <2>3 DEF IInv, Turns, BeforeItsCall
  <2> QED
    BY <1>1, <2>1, <2>3, <2>4, <2>5
    DEF IInv, DataTyped, CipherKept, PrintsCiphertext, Uncached
<1>4. CASE StartCall
  <2>1. /\ phase = "start" /\ phase' = "done" /\ stage \in DOMAIN Calls
        /\ reg' = IF kernel = Idle THEN Calls[stage] ELSE reg
        /\ ap_start' = TRUE /\ ap_done' = FALSE
        /\ overlapped' = (overlapped \/ ap_start)
        /\ UNCHANGED <<mem, stage, result, test_data>>
    BY <1>4 DEF StartCall, GoAhead, Start, ReadCtrl
  <2>2. /\ reg' \in Registers /\ reg'.dst \in {"SRC", "DST", "OUT"}
        /\ reg'.control \in {"ENCRYPT", "DECRYPT"} => reg'.size = Blocks
    BY <2>1, CallTypes DEF IInv, TypeOK, HwTypeOK, Turns
  <2>3. ap_start => program = "app" /\ stage = 1
    <3>1. ap_start => BeforeItsCall
      BY <2>1 DEF IInv, Turns
    <3>2. 0 \notin DOMAIN Calls
      BY CallTypes DEF IInv, TypeOK, HwTypeOK
    <3> QED
      BY <2>1, <3>1, <3>2 DEF BeforeItsCall
  <2>4. /\ stage' \in DOMAIN Calls'
        /\ reg' = Calls'[stage'] \/ (overlapped' /\ stage' = 1)
    <3>1. stage \in DOMAIN Calls'
      BY <1>1, <2>1, AsManyCalls DEF IInv, TypeOK, HwTypeOK
    <3>2. CASE kernel = Idle
      BY <1>1, <2>1, <3>2, StartedCall DEF IInv, TypeOK, HwTypeOK
    <3>3. CASE kernel # Idle
      BY <2>1, <2>3, <3>1, <3>3 DEF IInv, Turns
    <3> QED
      BY <3>2, <3>3
  <2>5. result = None
    <3>1. ~Finished
      BY <2>1, CallTypes DEF Finished, IInv, TypeOK, HwTypeOK
    <3> QED
      BY <3>1 DEF IInv, Turns
  <2>6. TypeOK'
    BY <1>1, <1>4, <2>1, <2>2 DEF IInv, TypeOK, HwTypeOK, StartCall
  <2>7. Turns'
    <3>1. overlapped' => program' = "app"
      BY <1>1, <2>1, <2>3 DEF IInv, Turns
    <3> QED
      BY <1>1, <2>1, <2>2, <2>4, <2>5, <3>1 DEF Turns
  <2> QED
    BY <1>1, <2>1, <2>6, <2>7
    DEF IInv, DataTyped, CipherKept, PrintsCiphertext, Uncached
<1>5. CASE AwaitDone
  <2>1. /\ phase = "done" /\ phase' = "drain" /\ ap_done /\ ap_done' = FALSE
        /\ UNCHANGED <<ap_start, reg, mem, stage, result, overlapped, test_data>>
    BY <1>5 DEF AwaitDone, qpp_done, ReadCtrl
  <2>2. Calls' = Calls /\ Finished' = Finished
    BY <1>1, <2>1, CallsKept DEF Finished
  <2>3. TypeOK'
    BY <1>1, <2>1 DEF IInv, TypeOK, HwTypeOK
  <2>4. Turns'
    BY <1>1, <2>1, <2>2 DEF IInv, Turns, BeforeItsCall
  <2> QED
    BY <1>1, <2>1, <2>3, <2>4
    DEF IInv, DataTyped, CipherKept, PrintsCiphertext, Uncached
<1>6. CASE PrintResult
  <2>1. /\ Finished /\ result = None
        /\ result' = [cipher |-> Read("DST"),
                      text |-> Read(IF program = "app" THEN "SRC" ELSE "OUT")]
        /\ UNCHANGED <<ap_start, ap_done, reg, mem, stage, phase, overlapped, test_data>>
    BY <1>6 DEF PrintResult, hwVars, busVars
  <2>2. Calls' = Calls /\ Finished' = Finished
    BY <1>1, <2>1, CallsKept DEF Finished
  <2>3. phase = "start"
    <3>1. stage \notin DOMAIN Calls
      BY <2>1, CallTypes DEF Finished, IInv, TypeOK, HwTypeOK
    <3> QED
      BY <3>1 DEF IInv, Turns
  <2>4. Read("DST") \in Area /\ Read("SRC") \in Area /\ Read("OUT") \in Area
    BY DEF IInv, TypeOK, HwTypeOK, Read, Outputs, Regions
  <2>5. TypeOK'
    BY <1>1, <2>1, <2>4 DEF IInv, TypeOK, HwTypeOK
  <2>6. Turns'
    BY <1>1, <2>1, <2>2, <2>3 DEF IInv, Turns, BeforeItsCall
  <2>7. PrintsCiphertext'
    <3> SUFFICES ASSUME program = "firmware", "DST" \notin spoilt
                 PROVE  Read("DST") = cipher
      BY <1>1, <2>1 DEF PrintsCiphertext
    <3>1. stage > 2
      <4>1. program \in Programs /\ reg \in Registers
        BY DEF IInv, TypeOK, HwTypeOK
      <4>2. Len(Calls) = 4
        BY <4>1, CallTypes
      <4> QED
        BY <2>1, <4>2 DEF Finished
    <3> QED
      BY <3>1 DEF IInv, CipherKept, Read, Outputs
  <2> QED
    BY <1>1, <2>1, <2>5, <2>6, <2>7 DEF IInv, DataTyped, CipherKept, Uncached
<1> QED
  BY <1>2, <1>3, <1>4, <1>5, <1>6

\* Behind a call.  It is over, and the program writes to memory and to the cache.
LEMMA ContinueInv ==
  ASSUME IInv, AwaitDrain \/ Returned
  PROVE  IInv'
<1>1. /\ ~ap_start /\ phase # "start" /\ Continue
      /\ ap_done' \in BOOLEAN
      /\ UNCHANGED <<ap_start, reg, kernel, perms, t_perms, seed>>
  BY DEF AwaitDrain, Returned, qpp_ready, ReadCtrl, busVars, kernelVars, IInv, TypeOK,
         HwTypeOK
<1>2. /\ stage' = stage + 1 /\ phase' = "start"
      /\ UNCHANGED <<program, seed0, test_data, result, restarted, overlapped, layout>>
      /\ stale' \subseteq Outputs
      /\ cipher' = IF Calls[stage].control = "ENCRYPT" THEN mem["DST"] ELSE cipher
  BY <1>1 DEF Continue
<1>3. /\ stage \in DOMAIN Calls
      /\ stage \in 1..(IF program = "bench" THEN 6 ELSE 4)
      /\ result = None
  BY <1>1, CallTypes DEF IInv, TypeOK, HwTypeOK, Turns
<1>4. Turns'
  BY <1>1, <1>2, <1>3 DEF IInv, Turns
<1>5. PrintsCiphertext' /\ DataTyped'
  BY <1>2, <1>3 DEF IInv, PrintsCiphertext, DataTyped
<1>6. cipher' \in Area \union {None}
  BY <1>2 DEF IInv, TypeOK, HwTypeOK, Regions
<1>7. ASSUME mem' \in [Regions -> Area], cache' \in [Outputs -> Area \union {Absent}],
             dirty' \subseteq {r \in Outputs : cache'[r] # Absent}, spoilt' \subseteq Outputs
      PROVE  TypeOK'
  <2>1. HwTypeOK'
    BY <1>1, <1>7 DEF IInv, TypeOK, HwTypeOK
  <2>2. stage' \in 0..7
    BY <1>2, <1>3
  <2> QED
    BY <1>2, <1>3, <1>6, <1>7, <2>1, <2>2 DEF IInv, TypeOK
<1>8. CASE Calls[stage].control = "ENCRYPT" /\ program = "firmware"
  <2>1. /\ InvalidateRange /\ cipher' = mem["DST"]
    BY <1>1, <1>2, <1>8 DEF Continue
  <2> DEFINE first == Line("DST")
             back == IF layout.aligned THEN {} ELSE first
             gone == first \union (IF layout.behind THEN {"OUT"} ELSE {})
  <2>2. /\ back \in SUBSET Outputs /\ gone \in SUBSET Outputs /\ "DST" \in first
        /\ first \subseteq Outputs
    BY LineTypes DEF Outputs
  <2>3. /\ WriteBack(back) /\ Drop(gone)
        /\ spoilt' = spoilt \union {q \in first : mem'[q] # mem[q]}
    BY <2>1 DEF InvalidateRange
  <2> HIDE DEF first, back, gone
  <2>4. mem' \in [Regions -> Area]
    BY <2>2, <2>3, WrittenBack DEF IInv
  <2>5. /\ cache' \in [Outputs -> Area \union {Absent}]
        /\ dirty' \subseteq {r \in Outputs : cache'[r] # Absent}
    BY <2>2, <2>3, Dropped DEF IInv
  <2>6. spoilt' \subseteq Outputs
    BY <2>2, <2>3 DEF IInv, TypeOK
  <2>7. CipherKept'
    <3>1. "DST" \in gone
      BY <2>2 DEF gone
    <3>2. "DST" \notin dirty' /\ cache'["DST"] = Absent
      BY <2>3, <3>1 DEF Drop, Outputs
    <3>3. "DST" \notin spoilt' => mem'["DST"] = cipher'
      BY <2>1, <2>2, <2>3
    <3> QED
      BY <3>2, <3>3 DEF CipherKept
  <2> QED
    BY <1>2, <1>4, <1>5, <1>7, <1>8, <2>4, <2>5, <2>6, <2>7 DEF IInv, Uncached
<1>9. CASE Calls[stage].control = "ENCRYPT" /\ program = "app"
  <2>1. /\ mem' = [mem EXCEPT !["PERMS"] = test_t_perms]
        /\ UNCHANGED <<cache, dirty, spoilt>>
    BY <1>1, <1>9 DEF Continue
  <2>2. mem' \in [Regions -> Area]
    BY <2>1, ArrayTypes DEF IInv, TypeOK, HwTypeOK
  <2>3. TypeOK'
    BY <1>7, <2>1, <2>2 DEF IInv, TypeOK
  <2> QED
    BY <1>2, <1>4, <1>5, <1>9, <2>1, <2>3 DEF IInv, CipherKept, Uncached
<1>10. CASE Calls[stage].control # "ENCRYPT" \/ program = "bench"
  <2>1. UNCHANGED <<mem, cache, dirty, spoilt>>
    BY <1>1, <1>10 DEF Continue
  <2>2. TypeOK'
    BY <1>7, <2>1 DEF IInv, TypeOK, HwTypeOK
  <2>3. CipherKept'
    <3> SUFFICES ASSUME program = "firmware", stage + 1 > 2
                 PROVE  /\ "DST" \notin dirty
                        /\ "DST" \notin spoilt =>
                             mem["DST"] = cipher /\ cache["DST"] \in {Absent, cipher}
      BY <1>2, <1>10, <2>1 DEF CipherKept
    <3>1. stage # 2
      BY <1>10, CallsInOrder DEF IInv, TypeOK, HwTypeOK, Cipher
    <3>2. stage > 2
      BY <1>3, <3>1
    <3> QED
      BY <3>2 DEF IInv, CipherKept
  <2> QED
    BY <1>2, <1>4, <1>5, <2>1, <2>2, <2>3 DEF IInv, Uncached
<1> QED
  BY <1>8, <1>9, <1>10 DEF IInv, TypeOK, Programs

\* The cache drops a line, or fetches one, between any two steps.
LEMMA CacheInv ==
  ASSUME IInv, NEW r \in Outputs, Evict(r) \/ Fetch(r)
  PROVE  IInv'
<1>1. /\ UNCHANGED <<ap_start, ap_done, reg, kernel, perms, t_perms, seed>>
      /\ UNCHANGED <<program, seed0, test_data, stage, phase, cipher, result, restarted,
                     overlapped, stale, layout>>
  BY DEF Evict, Fetch, hwVars, busVars, kernelVars, appVars
<1>2. program = "firmware"
  <2>1. Evict(r) => cache[r] # Absent
    BY DEF Evict
  <2> QED
    BY <2>1 DEF IInv, Uncached, Fetch
<1>3. Turns'
  <2>1. Calls' = Calls /\ Finished' = Finished
    BY <1>1, CallsKept DEF Finished
  <2> QED
    BY <1>1, <2>1 DEF IInv, Turns, BeforeItsCall
<1>4. ASSUME mem' \in [Regions -> Area], cache' \in [Outputs -> Area \union {Absent}],
             dirty' \subseteq {q \in Outputs : cache'[q] # Absent}, spoilt' \subseteq Outputs
      PROVE  TypeOK'
  BY <1>1, <1>4 DEF IInv, TypeOK, HwTypeOK
<1>5. CASE Evict(r)
  <2>1. /\ WriteBack(Line(r)) /\ Drop(Line(r))
        /\ spoilt' = spoilt \union {q \in Line(r) : mem'[q] # mem[q]}
    BY <1>5 DEF Evict
  <2>2. /\ mem' \in [Regions -> Area]
        /\ \A q \in Regions \ (Line(r) \intersect dirty) : mem'[q] = mem[q]
    BY <2>1, LineTypes, WrittenBack DEF IInv
  <2>3. /\ cache' \in [Outputs -> Area \union {Absent}]
        /\ dirty' \subseteq {q \in Outputs : cache'[q] # Absent}
    BY <2>1, LineTypes, Dropped DEF IInv
  <2>4. spoilt' \subseteq Outputs /\ spoilt \subseteq spoilt'
    BY <2>1, LineTypes DEF IInv, TypeOK
  <2>5. CipherKept'
    <3>1. cache'["DST"] \in {Absent, cache["DST"]} /\ dirty' \subseteq dirty
      BY <2>1 DEF Drop, Outputs
    <3>2. "DST" \notin dirty => mem'["DST"] = mem["DST"]
      BY <2>2 DEF Regions
    <3> QED
      BY <1>1, <2>4, <3>1, <3>2 DEF IInv, CipherKept
  <2>6. PrintsCiphertext' /\ Uncached' /\ DataTyped'
    BY <1>1, <1>2, <2>4 DEF IInv, PrintsCiphertext, Uncached, DataTyped
  <2> QED
    BY <1>3, <1>4, <2>2, <2>3, <2>4, <2>5, <2>6 DEF IInv
<1>6. CASE Fetch(r)
  <2>1. /\ cache' = [q \in Outputs |-> IF q \in Line(r) THEN mem[q] ELSE cache[q]]
        /\ UNCHANGED <<mem, dirty, spoilt>>
    BY <1>6 DEF Fetch, hwVars
  <2>2. /\ cache' \in [Outputs -> Area \union {Absent}]
        /\ \A q \in Outputs : cache[q] # Absent => cache'[q] # Absent
    <3>1. \A q \in Outputs : mem[q] \in Area /\ mem[q] # Absent
      BY NotAbsent DEF IInv, TypeOK, HwTypeOK, Outputs, Regions
    <3> QED
      BY <2>1, <3>1 DEF IInv, TypeOK
  <2>3. TypeOK'
    BY <1>4, <2>1, <2>2 DEF IInv, TypeOK, HwTypeOK
  <2>4. CipherKept'
    BY <1>1, <2>1 DEF IInv, CipherKept, Outputs
  <2>5. PrintsCiphertext' /\ Uncached' /\ DataTyped'
    BY <1>1, <1>2, <2>1 DEF IInv, PrintsCiphertext, Uncached, DataTyped
  <2> QED
    BY <1>3, <2>3, <2>4, <2>5 DEF IInv
<1> QED
  BY <1>5, <1>6

LEMMA StutterInv ==
  ASSUME IInv, UNCHANGED vars
  PROVE  IInv'
<1>1. UNCHANGED <<ap_start, ap_done, reg, mem, kernel, perms, t_perms, seed, program, seed0,
                  test_data, stage, phase, cipher, result, restarted, overlapped, stale,
                  layout, cache, dirty, spoilt>>
  BY DEF vars, hwVars, busVars, kernelVars, appVars, cacheVars
<1>2. TypeOK' /\ DataTyped'
  BY <1>1 DEF IInv, TypeOK, HwTypeOK, DataTyped
<1>3. Turns'
  <2>1. Calls' = Calls /\ Finished' = Finished
    BY <1>1, CallsKept DEF Finished
  <2> QED
    BY <1>1, <2>1 DEF IInv, Turns, BeforeItsCall
<1>4. CipherKept' /\ PrintsCiphertext' /\ Uncached'
  BY <1>1 DEF IInv, CipherKept, PrintsCiphertext, Uncached
<1> QED
  BY <1>2, <1>3, <1>4 DEF IInv

\* The app, started again, is where it may find the call that it left behind.
LEMMA StopInv ==
  ASSUME IInv, Stop
  PROVE  IInv'
<1>1. /\ program = "app" /\ result = None
      /\ stage' = 0 /\ phase' = "start" /\ cipher' = None /\ stale' = {}
      /\ restarted' = TRUE /\ overlapped' = FALSE
      /\ UNCHANGED <<ap_start, ap_done, reg, mem, kernel, perms, t_perms, seed, program, seed0,
                     test_data, result, layout, cache, dirty, spoilt>>
  BY DEF Stop, hwVars, busVars, kernelVars, cacheVars
<1>2. TypeOK'
  <2>1. HwTypeOK'
    BY <1>1 DEF IInv, TypeOK, HwTypeOK
  <2>2. /\ stage' \in 0..7 /\ phase' \in {"start", "done", "drain"}
        /\ restarted' \in BOOLEAN /\ overlapped' \in BOOLEAN
    <3>1. 0 \in 0..7
      OBVIOUS
    <3> QED
      BY <1>1, <3>1, Zenon
  <2>3. /\ program' \in Programs /\ layout' \in Layouts
        /\ cipher' \in Area \union {None} /\ result' \in [cipher : Area, text : Area] \union {None}
        /\ cache' \in [Outputs -> Area \union {Absent}]
        /\ spoilt' \subseteq Outputs /\ stale' \subseteq Outputs
    BY <1>1 DEF IInv, TypeOK
  <2>4. dirty' \subseteq {r \in Outputs : cache'[r] # Absent}
    BY <1>1 DEF IInv, TypeOK
  <2> HIDE DEF HwTypeOK
  <2> QED
    BY <2>1, <2>2, <2>3, <2>4 DEF TypeOK
<1>3. Turns'
  <2>1. BeforeItsCall'
    BY <1>1 DEF BeforeItsCall
  <2> QED
    BY <1>1, <2>1 DEF IInv, TypeOK, HwTypeOK, Turns
<1> QED
  BY <1>1, <1>2, <1>3 DEF IInv, CipherKept, PrintsCiphertext, Uncached, DataTyped

LEMMA StepInv ==
  ASSUME IInv, [Next]_vars
  PROVE  IInv'
  BY KernelInv, ProgramInv, ContinueInv, CacheInv, StopInv, StutterInv DEF Next, Program

\* The conjuncts of IInv hold in every reachable state.
THEOREM Invariant == Spec => []IInv
  BY InitInv, StepInv, PTL DEF Spec

\* Every variable keeps its type, and no program runs past its last call.
THEOREM TypeCorrect == Spec => []TypeOK
<1>1. IInv => TypeOK
  BY DEF IInv
<1> QED
  BY <1>1, Invariant, PTL

\* The firmware prints the ciphertext that the kernel wrote, unless a write-back of the
\* cache destroyed it in memory.
THEOREM CiphertextPrinted == Spec => []PrintsCiphertext
<1>1. IInv => PrintsCiphertext
  BY DEF IInv
<1> QED
  BY <1>1, Invariant, PTL

\* No program goes on, starts a call or overwrites the tables while a call is in progress,
\* but for the app before its first call, which does not wait for a call left behind.
THEOREM CommandsApart == Spec => CommandsDoNotOverlap
<1> DEFINE Early == program = "app" /\ phase = "start" /\ stage < 2
           Kept == UNCHANGED <<stage, phase, reg, mem["PERMS"]>>
<1>1. ASSUME IInv, [Next]_vars, ap_start \/ kernel # Idle, ~Stop, ~Early
      PROVE  Kept
  <2>1. ap_start /\ phase = "done" /\ ~ap_done /\ stage \in DOMAIN Calls
    BY <1>1 DEF IInv, Turns, BeforeItsCall
  <2>2. stage # 0
    BY <1>1, <2>1, CallTypes DEF IInv, TypeOK, HwTypeOK
  <2>3. CASE Program
    <3>1. PrintResult
      BY <2>1, <2>2, <2>3
      DEF Program, CopyIn, AwaitReady, StartCall, AwaitDone, AwaitDrain, Returned, qpp_done
    <3> QED
      BY <3>1 DEF PrintResult, hwVars, busVars
  <2>4. CASE KernelRuns
    <3>1. UNCHANGED <<stage, phase>>
      BY <2>4 DEF KernelRuns, appVars
    <3>2. CASE CipherBlock
      <4>1. reg.dst # "PERMS" /\ mem \in [Regions -> Area] /\ reg.dst \in Regions
        BY <1>1 DEF IInv, TypeOK, HwTypeOK, Turns, Regions
      <4> QED
        BY <3>1, <3>2, <4>1 DEF CipherBlock, busVars, Regions
    <3>3. CASE KernelBegin \/ LoadPerms \/ LoadTPerms \/ LoadSeed \/ CipherReturn
      BY <3>1, <3>3
      DEF KernelBegin, LoadPerms, LoadTPerms, LoadSeed, CipherReturn, Return, busVars
    <3> QED
      BY <2>4, <3>2, <3>3 DEF KernelRuns, Kernel
  <2>5. CASE \E r \in Outputs : Evict(r) \/ Fetch(r)
    <3>1. PICK r \in Outputs : Evict(r) \/ Fetch(r)
      BY <2>5
    <3>2. CASE Evict(r)
      <4>1. WriteBack(Line(r)) /\ UNCHANGED <<stage, phase, reg>>
        BY <3>2 DEF Evict, busVars, appVars
      <4>2. \A q \in Regions \ (Line(r) \intersect dirty) : mem'[q] = mem[q]
        BY <1>1, <4>1, LineTypes, WrittenBack DEF IInv
      <4> QED
        BY <4>1, <4>2, LineTypes DEF Outputs, Regions
    <3>3. CASE Fetch(r)
      BY <3>3 DEF Fetch, hwVars, busVars, appVars
    <3> QED
      BY <3>1, <3>2, <3>3
  <2>6. CASE UNCHANGED vars
    BY <2>6 DEF vars, hwVars, busVars, appVars
  <2> QED
    BY <1>1, <2>3, <2>4, <2>5, <2>6 DEF Next
<1>2. IInv /\ [Next]_vars => [ap_start \/ kernel # Idle =>
                               \/ Stop
                               \/ Early
                               \/ Kept]_vars
  BY <1>1
<1> HIDE DEF Early, Kept
<1>3. Spec => [][ap_start \/ kernel # Idle =>
                   \/ Stop
                   \/ Early
                   \/ Kept]_vars
  BY <1>2, Invariant, PTL DEF Spec
<1> QED
  BY <1>3 DEF CommandsDoNotOverlap, Early, Kept

-----------------------------------------------------------------------------
(* The text: a mask of zeros, and the two tables                           *)

\* 0 is its own successor.
LEMMA ZeroIsFixed == prng(ZeroBlock) = ZeroBlock
<1> DEFINE on == {i \in Taps : Bit(ZeroBlock, i) = 1}
           feedback == Cardinality(on) % 2
           shifted(i) == IF i = BUS_WIDTH - 1 THEN feedback ELSE Bit(ZeroBlock, i + 1)
           low(j) == (BUS_WIDTH - n) - (n * j)
<1>1. \A i \in 0..31 : Bit(ZeroBlock, i) = 0
  <2> SUFFICES ASSUME NEW i \in 0..31
               PROVE  Bit(ZeroBlock, i) = 0
    OBVIOUS
  <2>1. (31 - i) \div 2 \in Lanes
    BY Shapes
  <2>2. ZeroBlock[(31 - i) \div 2] = 0
    BY <2>1 DEF ZeroBlock
  <2>3. Bit(ZeroBlock, i) = IF i % 2 = 0 THEN ZeroBlock[(31 - i) \div 2] % 2
                                         ELSE ZeroBlock[(31 - i) \div 2] \div 2
    BY DEF Bit, BUS_WIDTH, n
  <2> QED
    BY <2>2, <2>3
<1>2. feedback = 0
  <2>1. on = {}
    BY <1>1 DEF Taps
  <2>2. Cardinality({}) = 0
    BY FS_EmptySet
  <2> HIDE DEF on
  <2> QED
    BY <2>1, <2>2
<1>3. ASSUME NEW j \in Lanes
      PROVE  2 * shifted(low(j) + 1) + shifted(low(j)) = 0
  <2>1. low(j) + 1 \in 0..31 /\ low(j) \in 0..31
    BY Shapes DEF BUS_WIDTH, n
  <2>2. \A i \in 0..31 : shifted(i) = 0
    <3> HIDE DEF feedback
    <3> QED
      BY <1>1, <1>2 DEF BUS_WIDTH
  <2> HIDE DEF shifted, low
  <2> QED
    BY <2>1, <2>2
<1>4. prng(ZeroBlock) = [j \in Lanes |-> 2 * shifted(low(j) + 1) + shifted(low(j))]
  BY DEF prng
<1> HIDE DEF shifted, low
<1> QED
  BY <1>3, <1>4 DEF ZeroBlock

\* The first matrix of a table is in the first four words of its first block.
LEMMA FirstMatrix ==
  ASSUME NEW b \in Area
  PROVE  /\ LoadTables(b)[0][0] = b[0][0] /\ LoadTables(b)[0][1] = b[0][1]
         /\ LoadTables(b)[0][2] = b[0][2] /\ LoadTables(b)[0][3] = b[0][3]
<1>1. LoadTables(b) = [i \in 0..4 |-> [j \in 0..3 |->
                         b[((4 * i) + j) \div 16][((4 * i) + j) % 16]]]
  BY Shapes DEF LoadTables, mat_size, BUS_WIDTH, n
<1>2. \A j \in 0..3 : ((4 * 0) + j) \div 16 = 0 /\ ((4 * 0) + j) % 16 = j
  OBVIOUS
<1>3. \A j \in 0..3 : LoadTables(b)[0][j] = b[0][j]
  BY <1>1, <1>2
<1> QED
  BY <1>3

\* The first words of a block written in hexadecimal.
LEMMA FirstWords ==
  ASSUME NEW blocks, Len(blocks) \in Nat \ {0},
         NEW p \in 0..15, NEW q \in 0..15, blocks[1][1] = p, blocks[1][2] = q
  PROVE  /\ AreaOf(blocks)[0][0] = p \div 4 /\ AreaOf(blocks)[0][1] = p % 4
         /\ AreaOf(blocks)[0][2] = q \div 4 /\ AreaOf(blocks)[0][3] = q % 4
<1>1. AreaOf(blocks)[0] = FromHex(blocks[1])
  BY Shapes DEF AreaOf
<1>2. /\ 0 \in Lanes /\ 1 \in Lanes /\ 2 \in Lanes /\ 3 \in Lanes
      /\ (0 \div 2) + 1 = 1 /\ (1 \div 2) + 1 = 1 /\ (2 \div 2) + 1 = 2 /\ (3 \div 2) + 1 = 2
      /\ 0 % 2 = 0 /\ 1 % 2 = 1 /\ 2 % 2 = 0 /\ 3 % 2 = 1
  BY Shapes
<1>3. \A j \in Lanes : (j \div 2) + 1 = 1 =>
         FromHex(blocks[1])[j] = IF j % 2 = 0 THEN p \div 4 ELSE p % 4
  BY DEF FromHex
<1>4. \A j \in Lanes : (j \div 2) + 1 = 2 =>
         FromHex(blocks[1])[j] = IF j % 2 = 0 THEN q \div 4 ELSE q % 4
  BY DEF FromHex
<1>5. FromHex(blocks[1])[0] = p \div 4 /\ FromHex(blocks[1])[1] = p % 4
  BY <1>2, <1>3
<1>6. FromHex(blocks[1])[2] = q \div 4 /\ FromHex(blocks[1])[3] = q % 4
  <2>1. /\ 2 \in Lanes /\ (2 \div 2) + 1 = 2 /\ 2 % 2 = 0
        /\ 3 \in Lanes /\ (3 \div 2) + 1 = 2 /\ 3 % 2 = 1
    BY <1>2
  <2>2. FromHex(blocks[1])[2] = IF 2 % 2 = 0 THEN q \div 4 ELSE q % 4
    BY <1>4, <2>1
  <2>3. FromHex(blocks[1])[3] = IF 3 % 2 = 0 THEN q \div 4 ELSE q % 4
    BY <1>4, <2>1
  <2> QED
    BY <2>2, <2>3
<1> QED
  BY <1>1, <1>5, <1>6

\* The first matrices of the two tables undo each other, whichever way round they are.
LEMMA DemoTables ==
  /\ LoadTables(Perms) \in Tables
  /\ LoadTables(TPerms) \in Tables
  /\ IsInverseOf(LoadTables(TPerms)[0], LoadTables(Perms)[0])
<1> DEFINE p == LoadTables(test_perms)
           t == LoadTables(test_t_perms)
<1>1. p \in Tables /\ t \in Tables
  BY ArrayTypes, LoadedTables
<1>2. p[0][0] = 1 /\ p[0][1] = 2 /\ p[0][2] = 0 /\ p[0][3] = 3
  <2> DEFINE blocks == << <<6, 3, 9, 3, 7, 8, 3, 9>>, <<3, 6, 0, 0, 0, 0, 0, 0>> >>
  <2>1. Len(blocks) \in Nat \ {0} /\ blocks[1][1] = 6 /\ blocks[1][2] = 3
    OBVIOUS
  <2>2. test_perms = AreaOf(blocks)
    BY DEF test_perms
  <2> HIDE DEF blocks
  <2>3. /\ test_perms[0][0] = 6 \div 4 /\ test_perms[0][1] = 6 % 4
        /\ test_perms[0][2] = 3 \div 4 /\ test_perms[0][3] = 3 % 4
    BY <2>1, <2>2, FirstWords, 6 \in 0..15, 3 \in 0..15
  <2> QED
    BY <2>3, ArrayTypes, FirstMatrix
<1>3. t[0][0] = 2 /\ t[0][1] = 0 /\ t[0][2] = 1 /\ t[0][3] = 3
  <2> DEFINE blocks == << <<8, 7, 9, 3, 12, 9, 3, 9>>, <<2, 13, 0, 0, 0, 0, 0, 0>> >>
  <2>1. Len(blocks) \in Nat \ {0} /\ blocks[1][1] = 8 /\ blocks[1][2] = 7
    OBVIOUS
  <2>2. test_t_perms = AreaOf(blocks)
    BY DEF test_t_perms
  <2> HIDE DEF blocks
  <2>3. /\ test_t_perms[0][0] = 8 \div 4 /\ test_t_perms[0][1] = 8 % 4
        /\ test_t_perms[0][2] = 7 \div 4 /\ test_t_perms[0][3] = 7 % 4
    BY <2>1, <2>2, FirstWords, 8 \in 0..15, 7 \in 0..15
  <2> QED
    BY <2>3, ArrayTypes, FirstMatrix
<1> HIDE DEF p, t
<1>4. p[0] \in Matrix /\ t[0] \in Matrix
  BY <1>1, Shapes DEF Tables
<1>5. IsInverseOf(t[0], p[0]) /\ IsInverseOf(p[0], t[0])
  <2>1. \A w \in Word : w = 0 \/ w = 1 \/ w = 2 \/ w = 3
    BY Shapes
  <2>2. \A w \in Word : t[0][p[0][w]] = w
    BY <1>2, <1>3, <2>1
  <2>3. \A w \in Word : p[0][t[0][w]] = w
    BY <1>2, <1>3, <2>1
  <2> QED
    BY <1>4, <2>2, <2>3 DEF IsInverseOf
<1>6. \/ LoadTables(Perms) = p /\ LoadTables(TPerms) = t
      \/ LoadTables(Perms) = t /\ LoadTables(TPerms) = p
  BY DEF Perms, TPerms, firmware_perms, firmware_t_perms, p, t
<1> QED
  BY <1>1, <1>5, <1>6

\* What the kernel encrypts and decrypts with masks of zeros is as it was.
LEMMA PlainBlock ==
  ASSUME NEW b \in Block
  PROVE  DecryptBlock(LoadTables(TPerms), EncryptBlock(LoadTables(Perms), b, ZeroBlock),
                      ZeroBlock) = b
<1> DEFINE p == LoadTables(Perms)
           t == LoadTables(TPerms)
<1>1. p \in Tables /\ t \in Tables /\ ZeroBlock \in Block
  BY DemoTables, ZeroShapes
<1>2. \A j \in Lanes : IsInverseOf(t[ZeroBlock[j]], p[ZeroBlock[j]])
  BY DemoTables DEF ZeroBlock
<1> HIDE DEF p, t
<1>3. DecryptBlock(t, EncryptBlock(p, b, ZeroBlock), ZeroBlock) = b
  BY <1>1, <1>2, BlockRoundTrip
<1> QED
  BY <1>3 DEF p, t

-----------------------------------------------------------------------------
(* The text: the steps of the program                                      *)

LEMMA FourCalls ==
  /\ program \in {"app", "firmware"} => Len(Calls) = 4
  /\ program' \in {"app", "firmware"} => Len(Calls') = 4
<1>1. CASE program = "app" \/ program = "firmware"
  BY <1>1 DEF Calls
<1>2. CASE program' = "app" \/ program' = "firmware"
  BY <1>2 DEF Calls
<1> QED
  BY <1>1, <1>2

LEMMA Ended ==
  ASSUME TypeOK, TypeOK', program \in {"app", "firmware"}, program' = program
  PROVE  /\ Finished <=> stage = 5
         /\ Finished' <=> stage' = 5
<1>1. Len(Calls) = 4 /\ Len(Calls') = 4
  BY FourCalls
<1> QED
  BY <1>1 DEF Finished

\* The call that runs, or that the program waits for.
LEMMA CurrentCall ==
  ASSUME IInv, phase # "start", program # "bench", ~overlapped
  PROVE  /\ stage \in {1, 2, 3, 4}
         /\ stage = 1 => reg.control = "LD_PERMS" /\ reg.src = "PERMS"
         /\ stage = 2 => reg = Cipher("ENCRYPT", "SRC", "DST")
         /\ stage = 3 => /\ reg.control = "LD_T_PERMS"
                         /\ reg.src = IF program = "app" THEN "PERMS" ELSE "T_PERMS"
         /\ stage = 4 => reg = Cipher("DECRYPT", "DST", IF program = "app" THEN "SRC" ELSE "OUT")
<1>1. /\ stage \in DOMAIN Calls /\ reg = Calls[stage]
      /\ reg \in Registers /\ program \in {"app", "firmware"}
  BY DEF IInv, TypeOK, HwTypeOK, Turns, Programs
<1>2. DOMAIN Calls = 1..4
  BY <1>1, CallTypes DEF Programs
<1>3. stage \in {1, 2, 3, 4}
  BY <1>1, <1>2
<1>4. \A control, src : /\ Load(control, src).control = control
                        /\ Load(control, src).src = src
  BY <1>1 DEF Load, Registers
<1>5. stage = 1 => reg = Load("LD_PERMS", "PERMS")
  BY <1>1, CallsInOrder
<1>6. stage = 3 => reg = Load("LD_T_PERMS", IF program = "app" THEN "PERMS" ELSE "T_PERMS")
  BY <1>1, CallsInOrder
<1>7. stage = 2 => reg = Cipher("ENCRYPT", "SRC", "DST")
  BY <1>1, CallsInOrder
<1>8. stage = 4 => reg = Cipher("DECRYPT", "DST", IF program = "app" THEN "SRC" ELSE "OUT")
  BY <1>1, CallsInOrder
<1>9. /\ stage = 1 => reg.control = "LD_PERMS" /\ reg.src = "PERMS"
      /\ stage = 3 => /\ reg.control = "LD_T_PERMS"
                      /\ reg.src = IF program = "app" THEN "PERMS" ELSE "T_PERMS"
  BY <1>4, <1>5, <1>6
<1> QED
  BY <1>3, <1>7, <1>8, <1>9

\* A step of the program moves no call on.
LEMMA Frame ==
  ASSUME PlainKept, UNCHANGED <<program, test_data, seed, perms, t_perms>>,
         Unspoilt' => Unspoilt,
         Progress(2)' = Progress(2), Progress(4)' = Progress(4),
         Over(1)' => Over(1), Over(3)' => Over(3),
         Unspoilt' => mem'["DST"] = mem["DST"] /\ mem'["OUT"] = mem["OUT"],
         Unspoilt' /\ Arguments => Arguments',
         Unspoilt' /\ TextSeen => TextSeen'
  PROVE  PlainKept'
<1>1. Perms' = Perms /\ TPerms' = TPerms
  BY DEF Perms, TPerms
<1> SUFFICES ASSUME Unspoilt'
             PROVE  /\ seed' = ZeroBlock
                    /\ Arguments' /\ Loaded' /\ CipherDone' /\ TextDone' /\ TextSeen'
  BY DEF PlainKept
<1>2. /\ seed = ZeroBlock
      /\ Arguments /\ Loaded /\ CipherDone /\ TextDone /\ TextSeen
  BY DEF PlainKept
<1>3. Loaded'
  BY <1>1, <1>2 DEF Loaded
<1>4. CipherDone'
  BY <1>1, <1>2 DEF CipherDone
<1>5. TextDone'
  BY <1>2 DEF TextDone
<1> QED
  BY <1>2, <1>3, <1>4, <1>5

LEMMA PlainInit ==
  ASSUME Init
  PROVE  PlainKept /\ PrintsPlainText
<1>1. PrintsPlainText
  BY DEF Init, PrintsPlainText
<1> SUFFICES ASSUME Unspoilt
             PROVE  /\ seed = ZeroBlock
                    /\ Arguments /\ Loaded /\ CipherDone /\ TextDone /\ TextSeen
  BY <1>1 DEF PlainKept
<1>2. program \in {"app", "firmware"} /\ stage = 0 /\ phase = "start"
  BY DEF Init, Unspoilt, Programs
<1>3. seed = ZeroBlock
  BY DEF Init, HwInit, Unspoilt
<1>4. program = "firmware" =>
        /\ mem["SRC"] = test_data /\ mem["PERMS"] = firmware_perms
        /\ mem["T_PERMS"] = firmware_t_perms /\ mem["OUT"] = ZeroArea
  BY DEF Init, InitialMemory, ZeroMemory, Regions
<1>5. Arguments
  BY <1>2, <1>4 DEF Arguments, Perms, TPerms
<1>6. Loaded
  BY <1>2 DEF Loaded, Over
<1>7. Progress(2) = 0 /\ Progress(4) = 0
  BY <1>2 DEF Progress
<1>8. CipherDone
  BY <1>7 DEF CipherDone
<1>9. TextDone
  BY <1>4, <1>7 DEF TextDone, ZeroArea
<1>10. TextSeen
  BY <1>2, FourCalls DEF TextSeen, Finished
<1> QED
  BY <1>3, <1>5, <1>6, <1>8, <1>9, <1>10

LEMMA PlainProgram ==
  ASSUME PInv, IInv', AwaitReady \/ StartCall \/ AwaitDone
  PROVE  PlainKept' /\ PrintsPlainText'
<1>1. /\ UNCHANGED <<program, seed0, test_data, kernel, perms, t_perms, seed, result, stale,
                     layout, cache, dirty, spoilt>>
      /\ ~overlapped' => ~overlapped
      /\ program = "app" => stage' = stage
  <2>1. CASE AwaitReady
    BY <2>1 DEF AwaitReady, kernelVars, cacheVars
  <2>2. CASE StartCall
    <3>1. overlapped' = (overlapped \/ ap_start) /\ overlapped \in BOOLEAN
      BY <2>2 DEF StartCall, GoAhead, PInv, IInv, TypeOK
    <3>2. ~overlapped' => ~overlapped
      BY <3>1
    <3> QED
      BY <2>2, <3>2 DEF StartCall, kernelVars, cacheVars
  <2>3. CASE AwaitDone
    BY <2>3 DEF AwaitDone, kernelVars, cacheVars
  <2> QED
    BY <2>1, <2>2, <2>3
<1>2. PrintsPlainText' /\ (Unspoilt' => Unspoilt)
  <2>1. PrintsPlainText'
    BY <1>1 DEF PInv, PrintsPlainText
  <2>2. Unspoilt' => Unspoilt
    BY <1>1 DEF Unspoilt
  <2> QED
    BY <2>1, <2>2
<1> SUFFICES ASSUME Unspoilt, Unspoilt'
             PROVE  PlainKept'
  BY <1>2 DEF PlainKept
<1>3. /\ program \in {"app", "firmware"} /\ program' = program
      /\ TypeOK /\ TypeOK' /\ stage \in Nat /\ mem \in [Regions -> Area]
      /\ phase \in {"start", "done", "drain"} /\ ap_start \in BOOLEAN
      /\ kernel # Idle => ap_start
      /\ ap_start => phase = "done" /\ ~ap_done
  BY <1>1 DEF PInv, IInv, Turns, BeforeItsCall, TypeOK, HwTypeOK, Unspoilt, Programs
<1>4. stage \in DOMAIN Calls => stage \in 1..4
  <2>1. DOMAIN Calls = 1..4
    BY <1>3, CallTypes DEF TypeOK, HwTypeOK
  <2> QED
    BY <2>1
<1>5. CASE AwaitReady
  <2>1. /\ program = "firmware" /\ stage = 0 /\ stage' = 1 /\ UNCHANGED <<phase, mem>>
    BY <1>5 DEF AwaitReady
  <2>2. Progress(2)' = Progress(2) /\ Progress(4)' = Progress(4)
    BY <2>1 DEF Progress
  <2>3. phase = "start"
    <3>1. stage \notin DOMAIN Calls
      BY <1>4, <2>1
    <3> QED
      BY <2>1, <3>1 DEF PInv, IInv, Turns
  <2>4. ~Over(1)' /\ ~Over(3)'
    BY <2>1, <2>3 DEF Over
  <2>5. Arguments => Arguments'
    BY <1>1, <2>1 DEF Arguments, Perms, TPerms
  <2>6. TextSeen'
    BY <1>3, <2>1, Ended DEF TextSeen
  <2> QED
    BY <1>1, <1>2, <2>1, <2>2, <2>4, <2>5, <2>6, Frame DEF PInv
<1>6. CASE StartCall \/ AwaitDone
  <2>1. /\ UNCHANGED <<mem, stage>>
        /\ stage \in DOMAIN Calls
        /\ ~ap_start
        /\ \/ phase = "start" /\ ap_start' = TRUE
           \/ phase # "start" /\ phase' # "start" /\ ap_start' = ap_start
    BY <1>3, <1>6
    DEF StartCall, AwaitDone, Start, qpp_done, PInv, IInv, Turns
  <2>2. stage \in 1..4 /\ kernel = Idle
    BY <1>3, <1>4, <2>1
  <2>3. Progress(2)' = Progress(2) /\ Progress(4)' = Progress(4)
    BY <1>1, <2>1, <2>2 DEF Progress, Idle
  <2>4. (Over(1)' => Over(1)) /\ (Over(3)' => Over(3))
    BY <2>1 DEF Over
  <2>5. Arguments => Arguments'
    BY <1>1, <2>1 DEF Arguments, Perms, TPerms
  <2>6. TextSeen'
    BY <1>3, <2>1, <2>2, Ended DEF TextSeen
  <2> QED
    BY <1>1, <1>2, <2>1, <2>3, <2>4, <2>5, <2>6, Frame DEF PInv
<1> QED
  BY <1>5, <1>6

\* With its copies the app begins: the kernel is idle unless it overlaps a call.
LEMMA PlainCopy ==
  ASSUME PInv, IInv', CopyIn
  PROVE  PlainKept' /\ PrintsPlainText'
<1>1. /\ program = "app" /\ stage = 0 /\ stage' = 1 /\ seed0' = seed
      /\ mem' = [mem EXCEPT !["PERMS"] = test_perms, !["SRC"] = test_data]
      /\ UNCHANGED <<program, test_data, kernel, seed, phase, result>>
  BY DEF CopyIn, kernelVars
<1>2. program \in Programs /\ reg \in Registers /\ mem \in [Regions -> Area]
  BY DEF PInv, IInv, TypeOK, HwTypeOK
<1>3. phase = "start" /\ result = None
  <2>1. 0 \notin DOMAIN Calls /\ ~Finished
    BY <1>1, <1>2, CallTypes DEF Finished
  <2> QED
    BY <1>1, <2>1 DEF PInv, IInv, Turns
<1>4. PrintsPlainText'
  BY <1>1, <1>3 DEF PrintsPlainText
<1> SUFFICES ASSUME Unspoilt'
             PROVE  /\ seed' = ZeroBlock
                    /\ Arguments' /\ Loaded' /\ CipherDone' /\ TextDone' /\ TextSeen'
  BY <1>4 DEF PlainKept
<1>5. seed' = ZeroBlock
  BY <1>1 DEF Unspoilt
<1>6. Arguments'
  BY <1>1, <1>2 DEF Arguments, Perms, Regions
<1>7. Loaded'
  BY <1>1, <1>3 DEF Loaded, Over
<1>8. CipherDone'
  <2>1. Progress(2)' = 0
    BY <1>1 DEF Progress
  <2> QED
    BY <2>1 DEF CipherDone
<1>9. TextDone' /\ TextSeen'
  BY <1>1, FourCalls DEF TextDone, TextSeen, Finished
<1> QED
  BY <1>5, <1>6, <1>7, <1>8, <1>9

\* An app that is started again has yet to begin.
LEMMA PlainStop ==
  ASSUME PInv, Stop
  PROVE  PlainKept' /\ PrintsPlainText'
<1>1. program' = "app" /\ stage' = 0 /\ result' = None
  BY DEF Stop
<1> QED
  BY <1>1 DEF PlainKept, PrintsPlainText, Unspoilt

\* A write-back that spoils nothing changes nothing.
LEMMA Harmless ==
  ASSUME TypeOK, NEW lines \in SUBSET Outputs, NEW noticed, lines \subseteq noticed,
         WriteBack(lines), spoilt' = spoilt \union {q \in noticed : mem'[q] # mem[q]},
         spoilt' = {}
  PROVE  mem' = mem /\ spoilt = {}
<1>1. \A r \in Regions : mem'[r] = mem[r]
  BY WrittenBack
<1>2. mem \in [Regions -> Area] /\ mem' \in [Regions -> Area]
  BY WrittenBack DEF TypeOK, HwTypeOK
<1> QED
  BY <1>1, <1>2

LEMMA PlainPrint ==
  ASSUME PInv, IInv', PrintResult
  PROVE  PlainKept' /\ PrintsPlainText'
<1>1. /\ UNCHANGED <<ap_start, mem, kernel, perms, t_perms, seed, program, seed0, test_data,
                     stage, phase, overlapped, stale, cache, spoilt>>
      /\ Finished
      /\ result' = [cipher |-> Read("DST"),
                    text |-> Read(IF program = "app" THEN "SRC" ELSE "OUT")]
  BY DEF PrintResult, hwVars, busVars, kernelVars, cacheVars
<1> SUFFICES ASSUME Unspoilt
             PROVE  PlainKept' /\ PrintsPlainText'
  <2>1. program = "app" => stage # 0
    BY <1>1, FourCalls DEF Finished
  <2> QED
    BY <1>1, <2>1 DEF PlainKept, PrintsPlainText, Unspoilt
<1>2. /\ program \in {"app", "firmware"} /\ TypeOK /\ TypeOK'
      /\ mem \in [Regions -> Area]
  BY DEF PInv, IInv, TypeOK, HwTypeOK, Unspoilt, Programs
<1>3. stage = 5 /\ Finished'
  BY <1>1, <1>2, Ended
<1>4. Unspoilt' /\ (Arguments => Arguments')
  BY <1>1 DEF Unspoilt, Arguments, Perms, TPerms
<1>5. /\ Progress(2)' = Progress(2) /\ Progress(4)' = Progress(4)
      /\ Over(1)' = Over(1) /\ Over(3)' = Over(3)
  BY <1>1 DEF Progress, Over
<1>6. TextSeen => TextSeen'
  BY <1>1 DEF TextSeen, Read
<1>7. PlainKept'
  BY <1>1, <1>4, <1>5, <1>6, Frame DEF PInv
<1>8. ASSUME "OUT" \notin stale
      PROVE  result'.text = test_data
  <2>1. CASE program = "app"
    BY <1>1, <1>3, <2>1 DEF PInv, PlainKept, Arguments, Read, Outputs
  <2>2. CASE program = "firmware"
    <3>1. Read("OUT") = mem["OUT"]
      BY <1>1, <1>8 DEF PInv, PlainKept, TextSeen
    <3>2. Progress(4) = Blocks
      BY <1>3 DEF Progress
    <3>3. TextDone
      BY DEF PInv, PlainKept
    <3>4. \A a \in Addresses : mem["OUT"][a] = test_data[a]
      <4> SUFFICES ASSUME NEW a \in Addresses
                   PROVE  mem["OUT"][a] = test_data[a]
        OBVIOUS
      <4>1. a < Blocks => a \in 0..(Blocks - 1)
        BY Shapes
      <4>2. a >= Blocks => mem["OUT"][a] = ZeroBlock /\ test_data[a] = ZeroBlock
        BY <2>2, <3>3 DEF TextDone, PInv, IInv, DataTyped
      <4> QED
        BY <2>2, <3>2, <3>3, <4>1, <4>2, Shapes DEF TextDone
    <3>5. mem["OUT"] \in Area /\ test_data \in Area
      BY <1>2 DEF PInv, IInv, DataTyped, Regions
    <3>6. mem["OUT"] = test_data
      BY <3>4, <3>5 DEF Area
    <3> QED
      BY <1>1, <2>2, <3>1, <3>6
  <2> QED
    BY <1>2, <2>1, <2>2
<1>9. PrintsPlainText'
  BY <1>1, <1>8 DEF PrintsPlainText
<1> QED
  BY <1>7, <1>9

\* A call that is over counts as it did when the program waited for it.
LEMMA PlainContinue ==
  ASSUME PInv, IInv', AwaitDrain \/ Returned
  PROVE  PlainKept' /\ PrintsPlainText'
<1>1. /\ Continue /\ phase # "start" /\ ~ap_start
      /\ UNCHANGED <<ap_start, kernel, perms, t_perms, seed>>
  BY DEF AwaitDrain, Returned, qpp_ready, busVars, kernelVars
<1>2. /\ stage' = stage + 1 /\ phase' = "start"
      /\ stale' = {r \in Outputs : Read(r) # mem[r]}
      /\ UNCHANGED <<program, seed0, test_data, result, overlapped>>
  BY <1>1 DEF Continue
<1>3. result' = None
  <2>1. result = None
    BY <1>1 DEF PInv, IInv, Turns
  <2> QED
    BY <1>2, <2>1
<1>4. PrintsPlainText'
  BY <1>3 DEF PrintsPlainText
<1> SUFFICES ASSUME Unspoilt'
             PROVE  PlainKept'
  BY <1>4 DEF PlainKept
<1>5. /\ program \in {"app", "firmware"} /\ program # "bench" /\ program' = program
      /\ TypeOK /\ TypeOK' /\ mem \in [Regions -> Area]
      /\ IInv /\ kernel = Idle /\ reg = Calls[stage] /\ spoilt' = {} /\ seed0 = ZeroBlock
      /\ ~overlapped
  BY <1>1, <1>2 DEF PInv, IInv, Turns, TypeOK, HwTypeOK, Unspoilt, Programs
<1>6. /\ stage \in {1, 2, 3, 4}
      /\ Calls[stage].control = "ENCRYPT" <=> stage = 2
  <2>1. \A control, src, dst : Cipher(control, src, dst).control = control
    BY DEF Cipher
  <2> QED
    BY <1>1, <1>5, <2>1, CurrentCall
<1>7. /\ mem' = IF stage = 2 /\ program = "app" THEN [mem EXCEPT !["PERMS"] = test_t_perms]
                ELSE mem
      /\ spoilt = {}
      /\ stage # 2 => cache' = cache
  <2>1. CASE stage = 2 /\ program = "firmware"
    <3> DEFINE first == Line("DST")
               back == IF layout.aligned THEN {} ELSE first
    <3>1. /\ WriteBack(back)
          /\ spoilt' = spoilt \union {q \in first : mem'[q] # mem[q]}
      BY <1>1, <1>6, <2>1 DEF Continue, InvalidateRange
    <3>2. back \in SUBSET Outputs /\ back \subseteq first
      BY LineTypes DEF Outputs
    <3> HIDE DEF first, back
    <3>3. mem' = mem /\ spoilt = {}
      BY <1>5, <3>1, <3>2, Harmless
    <3> QED
      BY <2>1, <3>3
  <2>2. CASE stage = 2 /\ program = "app"
    BY <1>1, <1>5, <1>6, <2>2 DEF Continue
  <2>3. CASE stage # 2
    BY <1>1, <1>5, <1>6, <2>3 DEF Continue
  <2> QED
    BY <1>5, <2>1, <2>2, <2>3
<1>8. Unspoilt /\ (Unspoilt' => Unspoilt)
  BY <1>5, <1>6, <1>7 DEF Unspoilt
<1>9. /\ Progress(2)' = Progress(2) /\ Progress(4)' = Progress(4)
      /\ Over(1)' => Over(1)
      /\ Over(3)' => Over(3)
  BY <1>1, <1>2, <1>5, <1>6 DEF Progress, Over
<1>10. mem'["DST"] = mem["DST"] /\ mem'["OUT"] = mem["OUT"]
  BY <1>5, <1>7 DEF Regions
<1>11. Arguments => Arguments'
  <2>1. Perms' = Perms /\ TPerms' = TPerms
    BY <1>2 DEF Perms, TPerms
  <2>2. CASE program = "app"
    BY <1>2, <1>5, <1>6, <1>7, <2>2 DEF Arguments, TPerms, Regions
  <2>3. CASE program = "firmware"
    BY <1>2, <1>6, <1>7, <2>1, <2>3 DEF Arguments
  <2> QED
    BY <1>5, <2>2, <2>3
<1>12. TextSeen'
  <2> SUFFICES ASSUME Finished', "OUT" \notin stale'
               PROVE  Read("OUT")' = mem'["OUT"]
    BY DEF TextSeen
  <2>1. stage' = 5
    BY <1>5, Ended
  <2>2. mem' = mem /\ cache' = cache
    BY <1>2, <1>6, <1>7, <2>1
  <2>3. Read("OUT") = mem["OUT"]
    BY <1>2 DEF Outputs
  <2> QED
    BY <2>2, <2>3 DEF Read
<1> QED
  BY <1>1, <1>2, <1>8, <1>9, <1>10, <1>11, <1>12, Frame DEF PInv

LEMMA PlainCache ==
  ASSUME PInv, IInv', NEW r \in Outputs, Evict(r) \/ Fetch(r)
  PROVE  PlainKept' /\ PrintsPlainText'
<1>1. UNCHANGED <<ap_start, kernel, perms, t_perms, seed, program, seed0, test_data, stage,
                  phase, result, overlapped, stale, reg>>
  BY DEF Evict, Fetch, hwVars, busVars, kernelVars, appVars
<1>2. spoilt \subseteq spoilt'
  BY DEF Evict, Fetch
<1>3. PrintsPlainText'
  BY <1>1, <1>2 DEF PInv, PrintsPlainText
<1> SUFFICES ASSUME Unspoilt'
             PROVE  PlainKept'
  BY <1>3 DEF PlainKept
<1>4. /\ program \in {"app", "firmware"} /\ program' = program /\ TypeOK /\ TypeOK'
      /\ spoilt' = {} /\ cache \in [Outputs -> Area \union {Absent}]
  BY <1>1 DEF PInv, IInv, TypeOK, Unspoilt, Programs
<1>5. /\ mem' = mem /\ spoilt = {}
      /\ \/ cache'["OUT"] \in {cache["OUT"], Absent}
         \/ cache'["OUT"] = mem["OUT"]
  <2>1. CASE Evict(r)
    <3>1. /\ WriteBack(Line(r)) /\ Drop(Line(r))
          /\ spoilt' = spoilt \union {q \in Line(r) : mem'[q] # mem[q]}
      BY <2>1 DEF Evict
    <3>2. Line(r) \in SUBSET Outputs
      BY LineTypes
    <3>3. cache'["OUT"] \in {cache["OUT"], Absent}
      BY <3>1 DEF Drop, Outputs
    <3> QED
      BY <1>4, <3>1, <3>2, <3>3, Harmless
  <2>2. CASE Fetch(r)
    BY <1>4, <2>2 DEF Fetch, hwVars, Outputs
  <2> QED
    BY <2>1, <2>2
<1>6. Unspoilt' => Unspoilt
  BY <1>1, <1>5 DEF Unspoilt
<1>7. /\ Progress(2)' = Progress(2) /\ Progress(4)' = Progress(4)
      /\ Over(1)' => Over(1)
      /\ Over(3)' => Over(3)
  BY <1>1 DEF Progress, Over
<1>8. Arguments => Arguments'
  BY <1>1, <1>5 DEF Arguments, Perms, TPerms
<1>9. TextSeen => TextSeen'
  <2>1. Finished' <=> Finished
    BY <1>1, <1>4, Ended
  <2> QED
    BY <1>1, <1>5, <2>1 DEF TextSeen, Read, Outputs
<1> QED
  BY <1>1, <1>5, <1>6, <1>7, <1>8, <1>9, Frame DEF PInv

LEMMA PlainStutter ==
  ASSUME PInv, IInv', UNCHANGED vars
  PROVE  PlainKept' /\ PrintsPlainText'
<1>1. UNCHANGED <<ap_start, mem, kernel, perms, t_perms, seed, program, seed0, test_data,
                  stage, phase, result, overlapped, stale, cache, spoilt, reg>>
  BY DEF vars, hwVars, busVars, kernelVars, appVars, cacheVars
<1>2. PrintsPlainText'
  BY <1>1 DEF PInv, PrintsPlainText
<1>3. Unspoilt' => Unspoilt
  BY <1>1 DEF Unspoilt
<1>4. /\ Progress(2)' = Progress(2) /\ Progress(4)' = Progress(4)
      /\ Over(1)' => Over(1)
      /\ Over(3)' => Over(3)
  BY <1>1 DEF Progress, Over
<1>5. Arguments => Arguments'
  BY <1>1 DEF Arguments, Perms, TPerms
<1>6. TextSeen => TextSeen'
  <2>1. Finished' <=> Finished
    BY <1>1, CallsKept DEF Finished
  <2> QED
    BY <1>1, <2>1 DEF TextSeen, Read
<1> QED
  BY <1>1, <1>2, <1>3, <1>4, <1>5, <1>6, Frame DEF PInv

-----------------------------------------------------------------------------
(* The text: the steps of the kernel                                       *)

\* The program has set the registers, and waits.
LEMMA PlainKernel ==
  ASSUME PInv, IInv', KernelRuns
  PROVE  PlainKept' /\ PrintsPlainText'
<1>1. /\ UNCHANGED <<program, seed0, test_data, stage, phase, cipher, result, restarted,
                     overlapped, stale>>
      /\ UNCHANGED <<layout, cache, dirty, spoilt>>
      /\ Kernel /\ reg' = reg
  BY DEF KernelRuns, appVars, cacheVars, Kernel, KernelBegin, LoadPerms, LoadTPerms,
         LoadSeed, CipherBlock, CipherReturn, Return, busVars
<1>2. PrintsPlainText' /\ (Unspoilt' <=> Unspoilt)
  BY <1>1 DEF PInv, PrintsPlainText, Unspoilt
<1> SUFFICES ASSUME Unspoilt
             PROVE  PlainKept'
  BY <1>2 DEF PlainKept
<1>3. /\ program \in {"app", "firmware"} /\ program # "bench" /\ TypeOK /\ TypeOK' /\ IInv
      /\ mem \in [Regions -> Area] /\ test_data \in Area
      /\ kernel \in 0..Blocks \union {Idle} /\ ~overlapped /\ ~BeforeItsCall
  BY DEF PInv, IInv, DataTyped, TypeOK, HwTypeOK, Unspoilt, Programs, BeforeItsCall
<1>4. ap_start /\ phase = "done"
  <2>1. kernel # Idle \/ ap_start
    BY <1>1, <1>3, Shapes
    DEF Kernel, KernelBegin, LoadPerms, LoadTPerms, LoadSeed, CipherBlock, CipherReturn, Idle,
        IInv, Turns, TypeOK, HwTypeOK
  <2> QED
    BY <1>3, <2>1 DEF IInv, Turns
<1>5. stage \in {1, 2, 3, 4} /\ ~Finished' /\ TextSeen'
  <2>1. stage \in {1, 2, 3, 4}
    BY <1>3, <1>4, CurrentCall
  <2>2. ~Finished'
    BY <1>1, <1>3, <2>1, Ended
  <2> QED
    BY <2>1, <2>2 DEF TextSeen
<1>6. /\ seed = ZeroBlock
      /\ Arguments /\ Loaded /\ CipherDone /\ TextDone
  BY DEF PInv, PlainKept
<1>7. Perms' = Perms /\ TPerms' = TPerms
  BY <1>1 DEF Perms, TPerms
<1>8. \A st \in 1..4 : /\ stage # st => /\ Progress(st)' = Progress(st)
                                        /\ Over(st)' <=> Over(st)
                       /\ stage = st => ~Over(st)
  BY <1>1, <1>4, <1>5 DEF Progress, Over
<1>9. CASE KernelBegin
  <2>1. /\ UNCHANGED <<mem, perms, t_perms, seed, ap_start>> /\ kernel = Idle /\ kernel' = 0
        /\ 0 # Idle
    BY <1>9, Shapes DEF KernelBegin, busVars, Idle
  <2>2. Progress(2)' = Progress(2) /\ Progress(4)' = Progress(4)
    BY <1>1, <1>4, <2>1 DEF Progress
  <2>3. (Over(1)' => Over(1)) /\ (Over(3)' => Over(3))
    BY <1>1, <2>1 DEF Over
  <2>4. Arguments'
    BY <1>1, <1>6, <1>7, <2>1 DEF Arguments
  <2> QED
    BY <1>1, <1>2, <1>5, <2>1, <2>2, <2>3, <2>4, Frame DEF PInv
<1>10. CASE LoadPerms
  <2>1. reg.control = "LD_PERMS" /\ perms' = LoadTables(mem[reg.src])
    BY <1>10 DEF LoadPerms
  <2>2. UNCHANGED <<mem, t_perms, seed>>
    BY <1>10 DEF LoadPerms
  <2>3. stage = 1 /\ reg.src = "PERMS"
    BY <1>3, <1>4, <2>1, CurrentCall DEF Cipher
  <2>4. perms' = LoadTables(Perms)
    BY <1>6, <2>1, <2>3 DEF Arguments
  <2>5. /\ Progress(2)' = Progress(2) /\ Progress(4)' = Progress(4)
        /\ Over(3)' => Over(3)
    BY <1>8, <2>3
  <2>6. Loaded'
    BY <1>6, <1>7, <2>2, <2>4, <2>5 DEF Loaded
  <2>7. Arguments' /\ CipherDone' /\ TextDone'
    BY <1>1, <1>6, <1>7, <2>2, <2>5 DEF Arguments, CipherDone, TextDone
  <2> QED
    BY <1>5, <1>6, <2>2, <2>6, <2>7 DEF PlainKept
<1>11. CASE LoadTPerms
  <2>1. reg.control = "LD_T_PERMS" /\ t_perms' = LoadTables(mem[reg.src])
    BY <1>11 DEF LoadTPerms
  <2>2. UNCHANGED <<mem, perms, seed>>
    BY <1>11 DEF LoadTPerms
  <2>3. stage = 3 /\ reg.src = IF program = "app" THEN "PERMS" ELSE "T_PERMS"
    BY <1>3, <1>4, <2>1, CurrentCall DEF Cipher
  <2>4. t_perms' = LoadTables(TPerms)
    BY <1>6, <2>1, <2>3 DEF Arguments
  <2>5. /\ Progress(2)' = Progress(2) /\ Progress(4)' = Progress(4)
        /\ Over(1)' => Over(1)
    BY <1>8, <2>3
  <2>6. Loaded'
    BY <1>6, <1>7, <2>2, <2>4, <2>5 DEF Loaded
  <2>7. Arguments' /\ CipherDone' /\ TextDone'
    BY <1>1, <1>6, <1>7, <2>2, <2>5 DEF Arguments, CipherDone, TextDone
  <2> QED
    BY <1>5, <1>6, <2>2, <2>6, <2>7 DEF PlainKept
<1>12. CASE LoadSeed
  BY <1>3, <1>4, <1>12, CurrentCall DEF LoadSeed, Cipher
<1>13. CASE CipherReturn
  <2>1. /\ kernel = reg.size /\ kernel' = Idle /\ ap_start' = FALSE
        /\ reg.control \in {"ENCRYPT", "DECRYPT"}
        /\ UNCHANGED <<mem, perms, t_perms, seed>>
    BY <1>13 DEF CipherReturn, Return
  <2>2. stage \in {2, 4} /\ kernel = Blocks
    BY <1>3, <1>4, <2>1, CurrentCall DEF Cipher
  <2>3. Progress(2)' = Progress(2) /\ Progress(4)' = Progress(4)
    BY <1>1, <1>4, <2>1, <2>2, Shapes DEF Progress, Idle
  <2>4. (Over(1)' => Over(1)) /\ (Over(3)' => Over(3))
    BY <1>8, <2>2
  <2>5. Arguments'
    BY <1>1, <1>6, <1>7, <2>1 DEF Arguments
  <2> QED
    BY <1>1, <1>2, <1>5, <2>1, <2>3, <2>4, <2>5, Frame DEF PInv
<1>14. CASE CipherBlock
  <2>1. /\ reg.control \in {"ENCRYPT", "DECRYPT"} /\ kernel < reg.size
        /\ seed' = prng(seed) /\ kernel' = kernel + 1
        /\ mem' = [mem EXCEPT ![reg.dst][kernel] =
                     IF reg.control = "ENCRYPT"
                     THEN EncryptBlock(perms, mem[reg.src][kernel], seed')
                     ELSE DecryptBlock(t_perms, mem[reg.src][kernel], seed')]
        /\ UNCHANGED <<ap_start, perms, t_perms>>
    BY <1>14 DEF CipherBlock, busVars
  <2>2. seed' = ZeroBlock
    BY <1>6, <2>1, ZeroIsFixed
  <2>3. /\ stage \in {2, 4}
        /\ stage = 2 => reg = Cipher("ENCRYPT", "SRC", "DST")
        /\ stage = 4 => reg = Cipher("DECRYPT", "DST", IF program = "app" THEN "SRC" ELSE "OUT")
    BY <1>3, <1>4, <2>1, CurrentCall DEF Cipher
  <2>4. reg.size = Blocks
    BY <2>3 DEF Cipher
  <2>5. /\ kernel \in 0..(Blocks - 1) /\ kernel \in Addresses /\ kernel # Idle
        /\ kernel' # Idle /\ Blocks \in Nat
    BY <1>3, <2>1, <2>4, Shapes DEF Idle
  <2>6. (Over(1)' => Over(1)) /\ (Over(3)' => Over(3))
    BY <1>8, <2>3
  <2>7. Loaded'
    BY <1>6, <1>7, <2>1, <2>6 DEF Loaded
  <2>8. /\ stage = 2 => Progress(2) = kernel /\ Progress(2)' = kernel + 1
        /\ stage = 4 => Progress(4) = kernel /\ Progress(4)' = kernel + 1
    BY <1>1, <1>4, <2>1, <2>3, <2>5 DEF Progress
  <2>9. CASE stage = 2
    <3>1. perms = LoadTables(Perms)
      BY <1>6, <2>9 DEF Loaded, Over
    <3>2. mem["SRC"] = test_data
      BY <1>6, <2>9 DEF Arguments
    <3> DEFINE new == EncryptBlock(LoadTables(Perms), test_data[kernel], ZeroBlock)
    <3>3. reg.control = "ENCRYPT" /\ reg.src = "SRC" /\ reg.dst = "DST"
      BY <2>3, <2>9 DEF Cipher
    <3>4. mem' = [mem EXCEPT !["DST"][kernel] = new]
      BY <2>1, <2>2, <3>1, <3>2, <3>3
    <3> HIDE DEF new
    <3>5. \A r \in Regions \ {"DST"} : mem'[r] = mem[r]
      BY <1>3, <3>4
    <3>6. /\ mem'["DST"][kernel] = new
          /\ \A i \in Addresses \ {kernel} : mem'["DST"][i] = mem["DST"][i]
      <4>1. mem["DST"] \in [Addresses -> Block] /\ "DST" \in Regions
        BY <1>3 DEF Regions, Area
      <4>2. mem'["DST"] = [mem["DST"] EXCEPT ![kernel] = new]
        BY <1>3, <3>4, <4>1
      <4> QED
        BY <2>5, <4>1, <4>2
    <3>7. Progress(2) = kernel /\ Progress(2)' = kernel + 1 /\ Progress(4)' = Progress(4)
      BY <1>8, <2>8, <2>9
    <3>8. CipherDone'
      <4>1. ASSUME NEW i \in 0..kernel
            PROVE  mem'["DST"][i] =
                     EncryptBlock(LoadTables(Perms), test_data[i], ZeroBlock)
        <5>1. i = kernel \/ (i \in 0..(kernel - 1) /\ i \in 0..(Blocks - 1) /\ i # kernel)
          BY <2>5
        <5>2. i \in 0..(Blocks - 1) => i \in Addresses
          BY Shapes
        <5>3. CASE i = kernel
          BY <3>6, <5>3 DEF new
        <5>4. CASE i \in 0..(kernel - 1) /\ i \in 0..(Blocks - 1) /\ i # kernel
          BY <1>6, <3>6, <3>7, <5>2, <5>4 DEF CipherDone
        <5> QED
          BY <5>1, <5>3, <5>4
      <4>2. (kernel + 1) - 1 = kernel
        BY <2>5
      <4> QED
        BY <1>1, <1>7, <3>7, <4>1, <4>2 DEF CipherDone
    <3>9. Arguments'
      BY <1>1, <1>6, <1>7, <3>5 DEF Arguments, Regions
    <3>10. TextDone'
      BY <1>1, <1>6, <3>5, <3>7 DEF TextDone, Regions
    <3> QED
      BY <1>5, <2>2, <2>7, <3>8, <3>9, <3>10 DEF PlainKept
  <2>10. CASE stage = 4
    <3> DEFINE dst == IF program = "app" THEN "SRC" ELSE "OUT"
    <3>1. t_perms = LoadTables(TPerms)
      BY <1>6, <2>10 DEF Loaded, Over
    <3>2. mem["DST"][kernel] =
            EncryptBlock(LoadTables(Perms), test_data[kernel], ZeroBlock)
      <4>1. Progress(2) = Blocks
        BY <2>10 DEF Progress
      <4> QED
        BY <1>6, <2>5, <4>1 DEF CipherDone
    <3>3. DecryptBlock(t_perms, mem["DST"][kernel], ZeroBlock) = test_data[kernel]
      <4>1. test_data[kernel] \in Block
        BY <1>3, <2>5 DEF Area
      <4> QED
        BY <3>1, <3>2, <4>1, PlainBlock
    <3>4. reg.control = "DECRYPT" /\ reg.src = "DST" /\ reg.dst = dst
      BY <2>3, <2>10 DEF Cipher
    <3>5. mem' = [mem EXCEPT ![dst][kernel] = test_data[kernel]]
      BY <2>1, <2>2, <3>3, <3>4
    <3>6. Progress(4) = kernel /\ Progress(4)' = kernel + 1 /\ Progress(2)' = Progress(2)
      BY <1>8, <2>8, <2>10
    <3>7. mem'["DST"] = mem["DST"]
      BY <1>3, <3>5 DEF Regions
    <3>8. CipherDone'
      BY <1>1, <1>6, <1>7, <3>6, <3>7 DEF CipherDone
    <3>9. CASE program = "app"
      <4>1. mem["SRC"] = test_data
        BY <1>6, <2>10 DEF Arguments
      <4>2. mem' = mem
        <5>1. mem["SRC"] \in [Addresses -> Block] /\ "SRC" \in Regions
          BY <1>3 DEF Regions, Area
        <5>2. mem' = [mem EXCEPT !["SRC"] = [mem["SRC"] EXCEPT ![kernel] = test_data[kernel]]]
          BY <3>5, <3>9
        <5>3. [mem["SRC"] EXCEPT ![kernel] = test_data[kernel]] = mem["SRC"]
          BY <2>5, <4>1, <5>1
        <5> QED
          BY <1>3, <5>2, <5>3
      <4>3. Arguments'
        BY <1>1, <1>6, <1>7, <4>2 DEF Arguments
      <4>4. TextDone'
        BY <1>1, <3>9 DEF TextDone
      <4> QED
        BY <1>5, <2>2, <2>7, <3>8, <4>3, <4>4 DEF PlainKept
    <3>10. CASE program = "firmware"
      <4>1. mem' = [mem EXCEPT !["OUT"][kernel] = test_data[kernel]]
        BY <3>5, <3>10
      <4>2. \A r \in Regions \ {"OUT"} : mem'[r] = mem[r]
        BY <1>3, <4>1
      <4>3. /\ mem'["OUT"][kernel] = test_data[kernel]
            /\ \A a \in Addresses \ {kernel} : mem'["OUT"][a] = mem["OUT"][a]
        BY <1>3, <2>5, <4>1 DEF Regions, Area
      <4>4. Arguments'
        BY <1>1, <1>6, <1>7, <4>2 DEF Arguments, Regions
      <4>5. ASSUME NEW i \in 0..kernel
            PROVE  mem'["OUT"][i] = test_data[i]
        <5>1. i = kernel \/ (i \in 0..(kernel - 1) /\ i \in 0..(Blocks - 1) /\ i # kernel)
          BY <2>5
        <5>2. i \in 0..(Blocks - 1) => i \in Addresses
          BY Shapes
        <5>3. CASE i \in 0..(kernel - 1) /\ i \in 0..(Blocks - 1) /\ i # kernel
          BY <1>6, <3>6, <3>10, <4>3, <5>2, <5>3 DEF TextDone
        <5> QED
          BY <4>3, <5>1, <5>3
      <4>6. ASSUME NEW a \in Addresses, a >= Blocks
            PROVE  mem'["OUT"][a] = ZeroBlock
        <5>1. a # kernel
          BY <2>5, <4>6, Shapes
        <5> QED
          BY <1>6, <3>10, <4>3, <4>6, <5>1 DEF TextDone
      <4>7. TextDone'
        <5>1. (kernel + 1) - 1 = kernel
          BY <2>5
        <5> QED
          BY <1>1, <3>6, <4>5, <4>6, <5>1 DEF TextDone
      <4> QED
        BY <1>5, <2>2, <2>7, <3>8, <4>4, <4>7 DEF PlainKept
    <3> QED
      BY <1>3, <3>9, <3>10
  <2> QED
    BY <2>3, <2>9, <2>10
<1> QED
  BY <1>1, <1>9, <1>10, <1>11, <1>12, <1>13, <1>14 DEF Kernel

LEMMA PlainStep ==
  ASSUME PInv, [Next]_vars
  PROVE  PInv'
<1>1. IInv'
  BY StepInv DEF PInv
<1>2. PlainKept' /\ PrintsPlainText'
  BY <1>1, PlainKernel, PlainCopy, PlainProgram, PlainPrint, PlainContinue, PlainCache,
     PlainStop, PlainStutter
  DEF Next, Program
<1> QED
  BY <1>1, <1>2 DEF PInv

\* The app and the firmware print the text that they encrypted, whatever its length and
\* its words, if four things hold: the shift register held 0 when the program started, the
\* app did not go ahead during a call left behind, no write-back spoilt what the kernel
\* wrote, and the cache held no old copy of the text.
THEOREM PlainTextPrinted == Spec => []PrintsPlainText
<1>1. Init => PInv
  BY InitInv, PlainInit DEF PInv
<1>2. PInv /\ [Next]_vars => PInv'
  BY PlainStep
<1>3. PInv => PrintsPlainText
  BY DEF PInv
<1> QED
  BY <1>1, <1>2, <1>3, PTL DEF Spec

-----------------------------------------------------------------------------
(* The bench                                                               *)

\* The masks of the bench: its seed, and what the shift register makes of it.
BenchMask(i) ==
  CASE i = 0 -> test_seed[0]
    [] i = 1 -> prng(test_seed[0])
    [] i = 2 -> prng(prng(test_seed[0]))
    [] i = 3 -> prng(prng(prng(test_seed[0])))

\* The three blocks of the bench, while it runs.
Benched == program = "bench" /\ Blocks = 3

\* The bench keeps its arguments, and what the calls have loaded.
BenchLoaded ==
  /\ mem["SRC"] = bench_data /\ mem["SEED"] = test_seed
  /\ mem["PERMS"] = test_perms /\ mem["T_PERMS"] = test_t_perms
  /\ Over(1) => perms = LoadTables(test_perms)
  /\ Over(3) => t_perms = LoadTables(test_t_perms)

\* From either loading of the seed on the shift register has moved once for each block.
BenchSeed ==
  /\ Over(2) /\ ~Over(5) => seed = BenchMask(Progress(4))
  /\ Over(5) => seed = BenchMask(Progress(6))

\* What the two cipher calls have done so far.
BenchCipher ==
  /\ \A i \in 0..(Progress(4) - 1) : mem["DST"][i] = test_result[i]
  /\ stage > 4 => cipher = mem["DST"]

BenchText ==
  /\ \A i \in 0..(Progress(6) - 1) : mem["OUT"][i] = bench_data[i]
  /\ result # None => result.text = mem["OUT"]

BenchKept == Benched => BenchLoaded /\ BenchSeed /\ BenchCipher /\ BenchText

-----------------------------------------------------------------------------
(* The bench: its masks and its ciphertext, word by word                   *)

\* The sixteen words of a block, one by one.
IsRow(b, words) == \A j \in Lanes : b[j] = words[j + 1]

LEMMA RowWords ==
  ASSUME NEW b, NEW words
  PROVE  IsRow(b, words) <=>
           /\ b[0] = words[1] /\ b[1] = words[2] /\ b[2] = words[3] /\ b[3] = words[4]
           /\ b[4] = words[5] /\ b[5] = words[6] /\ b[6] = words[7] /\ b[7] = words[8]
           /\ b[8] = words[9] /\ b[9] = words[10] /\ b[10] = words[11] /\ b[11] = words[12]
           /\ b[12] = words[13] /\ b[13] = words[14] /\ b[14] = words[15]
           /\ b[15] = words[16]
<1>1. \A j \in Lanes :
        \/ j = 0 \/ j = 1 \/ j = 2 \/ j = 3 \/ j = 4 \/ j = 5 \/ j = 6 \/ j = 7
        \/ j = 8 \/ j = 9 \/ j = 10 \/ j = 11 \/ j = 12 \/ j = 13 \/ j = 14 \/ j = 15
  BY Shapes
<1>2. \A j \in 0..15 : j \in Lanes
  BY Shapes
<1> QED
  BY <1>1, <1>2 DEF IsRow

LEMMA BenchRows ==
  ASSUME Blocks = 3
  PROVE  /\ Addresses = 0..2
         /\ IsRow(test_seed[0], <<3, 3, 0, 0, 3, 3, 0, 0, 3, 3, 0, 0, 3, 3, 0, 0>>)
         /\ IsRow(test_perms[0], <<1, 2, 0, 3, 2, 1, 0, 3, 1, 3, 2, 0, 0, 3, 2, 1>>)
         /\ IsRow(test_t_perms[0], <<2, 0, 1, 3, 2, 1, 0, 3, 3, 0, 2, 1, 0, 3, 2, 1>>)
         /\ IsRow(bench_data[0], <<1, 0, 2, 0, 1, 2, 1, 1, 1, 2, 3, 0, 1, 2, 3, 0>>)
         /\ IsRow(bench_data[1], <<1, 2, 3, 3, 0, 0, 0, 0, 0, 2, 0, 0, 1, 1, 1, 3>>)
         /\ IsRow(bench_data[2], <<1, 2, 3, 3, 1, 3, 0, 2, 1, 2, 3, 0, 1, 2, 1, 0>>)
         /\ IsRow(test_result[0], <<2, 1, 1, 1, 2, 3, 0, 2, 2, 3, 3, 1, 2, 3, 3, 1>>)
         /\ IsRow(test_result[1], <<0, 3, 0, 3, 1, 1, 1, 1, 1, 3, 1, 1, 2, 2, 2, 3>>)
         /\ IsRow(test_result[2], <<2, 3, 0, 3, 2, 0, 1, 1, 2, 3, 0, 2, 2, 3, 2, 2>>)
<1>1. Addresses = 0..2
  BY DEF Addresses
<1>2. /\ test_seed[0] = FromHex(<<15, 0, 15, 0, 15, 0, 15, 0>>)
      /\ test_perms[0] = FromHex(<<6, 3, 9, 3, 7, 8, 3, 9>>)
      /\ test_t_perms[0] = FromHex(<<8, 7, 9, 3, 12, 9, 3, 9>>)
  BY <1>1 DEF test_seed, test_perms, test_t_perms, AreaOf
<1>3. /\ bench_data[0] = FromHex(<<4, 8, 6, 5, 6, 12, 6, 12>>)
      /\ bench_data[1] = FromHex(<<6, 15, 0, 0, 2, 0, 5, 7>>)
      /\ bench_data[2] = FromHex(<<6, 15, 7, 2, 6, 12, 6, 4>>)
  BY <1>1 DEF bench_data, AreaOf
<1>4. /\ test_result[0] = FromHex(<<9, 5, 11, 2, 11, 13, 11, 13>>)
      /\ test_result[1] = FromHex(<<3, 3, 5, 5, 7, 5, 10, 11>>)
      /\ test_result[2] = FromHex(<<11, 3, 8, 5, 11, 2, 11, 10>>)
  BY <1>1 DEF test_result, AreaOf
<1>5. IsRow(FromHex(<<15, 0, 15, 0, 15, 0, 15, 0>>),
            <<3, 3, 0, 0, 3, 3, 0, 0, 3, 3, 0, 0, 3, 3, 0, 0>>)
  BY Shapes DEF FromHex, IsRow
<1>6. IsRow(FromHex(<<6, 3, 9, 3, 7, 8, 3, 9>>),
            <<1, 2, 0, 3, 2, 1, 0, 3, 1, 3, 2, 0, 0, 3, 2, 1>>)
  BY Shapes DEF FromHex, IsRow
<1>7. IsRow(FromHex(<<8, 7, 9, 3, 12, 9, 3, 9>>),
            <<2, 0, 1, 3, 2, 1, 0, 3, 3, 0, 2, 1, 0, 3, 2, 1>>)
  BY Shapes DEF FromHex, IsRow
<1>8. IsRow(FromHex(<<4, 8, 6, 5, 6, 12, 6, 12>>),
            <<1, 0, 2, 0, 1, 2, 1, 1, 1, 2, 3, 0, 1, 2, 3, 0>>)
  BY Shapes DEF FromHex, IsRow
<1>9. IsRow(FromHex(<<6, 15, 0, 0, 2, 0, 5, 7>>),
            <<1, 2, 3, 3, 0, 0, 0, 0, 0, 2, 0, 0, 1, 1, 1, 3>>)
  BY Shapes DEF FromHex, IsRow
<1>10. IsRow(FromHex(<<6, 15, 7, 2, 6, 12, 6, 4>>),
            <<1, 2, 3, 3, 1, 3, 0, 2, 1, 2, 3, 0, 1, 2, 1, 0>>)
  BY Shapes DEF FromHex, IsRow
<1>11. IsRow(FromHex(<<9, 5, 11, 2, 11, 13, 11, 13>>),
            <<2, 1, 1, 1, 2, 3, 0, 2, 2, 3, 3, 1, 2, 3, 3, 1>>)
  BY Shapes DEF FromHex, IsRow
<1>12. IsRow(FromHex(<<3, 3, 5, 5, 7, 5, 10, 11>>),
            <<0, 3, 0, 3, 1, 1, 1, 1, 1, 3, 1, 1, 2, 2, 2, 3>>)
  BY Shapes DEF FromHex, IsRow
<1>13. IsRow(FromHex(<<11, 3, 8, 5, 11, 2, 11, 10>>),
            <<2, 3, 0, 3, 2, 0, 1, 1, 2, 3, 0, 2, 2, 3, 2, 2>>)
  BY Shapes DEF FromHex, IsRow
<1> QED
  BY <1>1, <1>2, <1>3, <1>4, <1>5, <1>6, <1>7, <1>8, <1>9, <1>10, <1>11, <1>12, <1>13

\* A step of the shift register: every bit moves one place to the right, and what is fed
\* back enters on the left.
LEMMA PrngRow ==
  ASSUME NEW s \in Block, NEW f \in {0, 1},
         Cardinality({i \in Taps : Bit(s, i) = 1}) % 2 = f
  PROVE  /\ prng(s)[0] = 2 * f + (s[0] \div 2)
         /\ \A j \in 1..15 : prng(s)[j] = 2 * (s[j - 1] % 2) + (s[j] \div 2)
<1> DEFINE shifted(i) == IF i = BUS_WIDTH - 1 THEN f ELSE Bit(s, i + 1)
           low(j) == (BUS_WIDTH - n) - (n * j)
<1>1. prng(s) = [j \in Lanes |-> 2 * shifted(low(j) + 1) + shifted(low(j))]
  BY DEF prng
<1>2. \A j \in 0..15 : Bit(s, (30 - (2 * j)) + 1) = s[j] \div 2
  BY DEF Bit, BUS_WIDTH, n
<1>3. \A j \in 1..15 : Bit(s, (30 - (2 * j)) + 2) = s[j - 1] % 2
  BY DEF Bit, BUS_WIDTH, n
<1>4. /\ \A j \in 0..15 : shifted(low(j)) = s[j] \div 2
      /\ \A j \in 1..15 : shifted(low(j) + 1) = s[j - 1] % 2
      /\ shifted(low(0) + 1) = f
  BY <1>2, <1>3 DEF BUS_WIDTH, n
<1> HIDE DEF shifted, low
<1> QED
  BY <1>1, <1>4, Shapes

\* What the bits at the taps of a row are.
LEMMA Tapped ==
  ASSUME NEW s
  PROVE  /\ Bit(s, 0) = s[15] % 2 /\ Bit(s, 10) = s[10] % 2
         /\ Bit(s, 30) = s[0] % 2 /\ Bit(s, 31) = s[0] \div 2
  BY DEF Bit, BUS_WIDTH, n

LEMMA Pair ==
  ASSUME NEW a, NEW b, a # b
  PROVE  Cardinality({a} \union {b}) = 2
<1>1. IsFiniteSet({a}) /\ Cardinality({a}) = 1
  BY FS_Singleton
<1>2. b \notin {a}
  OBVIOUS
<1>3. Cardinality({a} \union {b}) = Cardinality({a}) + 1
  BY <1>1, <1>2, FS_AddElement
<1> QED
  BY <1>1, <1>3

\* The masks of the three blocks.
LEMMA MaskRows ==
  ASSUME Blocks = 3
  PROVE  /\ IsRow(BenchMask(1), <<1, 3, 2, 0, 1, 3, 2, 0, 1, 3, 2, 0, 1, 3, 2, 0>>)
         /\ IsRow(BenchMask(2), <<2, 3, 3, 0, 0, 3, 3, 0, 0, 3, 3, 0, 0, 3, 3, 0>>)
         /\ IsRow(BenchMask(3), <<1, 1, 3, 2, 0, 1, 3, 2, 0, 1, 3, 2, 0, 1, 3, 2>>)
         /\ \A i \in 0..3 : BenchMask(i) \in Block
         /\ \A i \in 0..2 : BenchMask(i + 1) = prng(BenchMask(i))
<1>1. \A i \in 0..2 : BenchMask(i + 1) = prng(BenchMask(i))
  <2>1. /\ BenchMask(1) = prng(BenchMask(0)) /\ BenchMask(2) = prng(BenchMask(1))
        /\ BenchMask(3) = prng(BenchMask(2))
    BY DEF BenchMask
  <2>2. \A i \in 0..2 : i = 0 \/ i = 1 \/ i = 2
    OBVIOUS
  <2> QED
    BY <2>1, <2>2
<1>2. BenchMask(0) = test_seed[0] /\ test_seed[0] \in Block
  BY ArrayTypes, Shapes DEF BenchMask, Area
<1>3. \A i \in 0..3 : BenchMask(i) \in Block
  <2>1. BenchMask(1) \in Block
    BY <1>1, <1>2, PrngBlock
  <2>2. BenchMask(2) \in Block
    BY <1>1, <2>1, PrngBlock
  <2>3. BenchMask(3) \in Block
    BY <1>1, <2>2, PrngBlock
  <2>4. \A i \in 0..3 : i = 0 \/ i = 1 \/ i = 2 \/ i = 3
    OBVIOUS
  <2> QED
    BY <1>2, <2>1, <2>2, <2>3, <2>4
<1>4. ASSUME NEW s \in Block, NEW t, NEW f \in {0, 1},
             Cardinality({i \in Taps : Bit(s, i) = 1}) % 2 = f,
             NEW v, NEW w, IsRow(s, v), t = prng(s),
             /\ w[1] = 2 * f + (v[1] \div 2)
             /\ \A j \in 1..15 : w[j + 1] = 2 * (v[j] % 2) + (v[j + 1] \div 2)
      PROVE  IsRow(t, w)
  <2>1. t[0] = w[1]
    BY <1>4, PrngRow, Shapes DEF IsRow
  <2>2. ASSUME NEW j \in 1..15
        PROVE  t[j] = w[j + 1]
    <3>1. s[j - 1] = v[j] /\ s[j] = v[j + 1]
      BY <1>4, Shapes DEF IsRow
    <3>2. t[j] = 2 * (s[j - 1] % 2) + (s[j] \div 2)
      BY <1>4, PrngRow
    <3> QED
      BY <1>4, <3>1, <3>2
  <2> QED
    BY <2>1, <2>2, Shapes DEF IsRow
<1>5. IsRow(BenchMask(0), <<3, 3, 0, 0, 3, 3, 0, 0, 3, 3, 0, 0, 3, 3, 0, 0>>)
  BY <1>2, BenchRows
<1>6. IsRow(BenchMask(1), <<1, 3, 2, 0, 1, 3, 2, 0, 1, 3, 2, 0, 1, 3, 2, 0>>)
  <2> DEFINE s == BenchMask(0)
  <2>1. /\ Bit(s, 0) = 0 /\ Bit(s, 10) = 0 /\ Bit(s, 30) = 1 /\ Bit(s, 31) = 1
    BY <1>5, RowWords, Tapped
  <2>2. {i \in Taps : Bit(s, i) = 1} = {30} \union {31}
    BY <2>1 DEF Taps
  <2>3. Cardinality({30} \union {31}) = 2
    <3>1. 30 # 31
      OBVIOUS
    <3> QED
      BY <3>1, Pair, Zenon
  <2>4. Cardinality({i \in Taps : Bit(s, i) = 1}) % 2 = 0
    BY <2>2, <2>3
  <2> DEFINE v == <<3, 3, 0, 0, 3, 3, 0, 0, 3, 3, 0, 0, 3, 3, 0, 0>>
             w == <<1, 3, 2, 0, 1, 3, 2, 0, 1, 3, 2, 0, 1, 3, 2, 0>>
  <2>5. w[1] = 2 * 0 + (v[1] \div 2)
    OBVIOUS
  <2>6. \A j \in 1..15 : w[j + 1] = 2 * (v[j] % 2) + (v[j + 1] \div 2)
    OBVIOUS
  <2>7. IsRow(s, v) /\ BenchMask(1) = prng(s) /\ s \in Block
    BY <1>1, <1>3, <1>5
  <2> HIDE DEF s, v, w
  <2>8. IsRow(BenchMask(1), w)
    BY <1>4, <2>4, <2>5, <2>6, <2>7
  <2> QED
    BY <2>8 DEF w
<1>7. IsRow(BenchMask(2), <<2, 3, 3, 0, 0, 3, 3, 0, 0, 3, 3, 0, 0, 3, 3, 0>>)
  <2> DEFINE s == BenchMask(1)
  <2>1. /\ Bit(s, 0) = 0 /\ Bit(s, 10) = 0 /\ Bit(s, 30) = 1 /\ Bit(s, 31) = 0
    BY <1>6, RowWords, Tapped
  <2>2. {i \in Taps : Bit(s, i) = 1} = {30}
    BY <2>1 DEF Taps
  <2>3. Cardinality({30}) = 1
    BY FS_Singleton
  <2>4. Cardinality({i \in Taps : Bit(s, i) = 1}) % 2 = 1
    BY <2>2, <2>3
  <2> DEFINE v == <<1, 3, 2, 0, 1, 3, 2, 0, 1, 3, 2, 0, 1, 3, 2, 0>>
             w == <<2, 3, 3, 0, 0, 3, 3, 0, 0, 3, 3, 0, 0, 3, 3, 0>>
  <2>5. w[1] = 2 * 1 + (v[1] \div 2)
    OBVIOUS
  <2>6. \A j \in 1..15 : w[j + 1] = 2 * (v[j] % 2) + (v[j + 1] \div 2)
    OBVIOUS
  <2>7. IsRow(s, v) /\ BenchMask(2) = prng(s) /\ s \in Block
    BY <1>1, <1>3, <1>6
  <2> HIDE DEF s, v, w
  <2>8. IsRow(BenchMask(2), w)
    BY <1>4, <2>4, <2>5, <2>6, <2>7
  <2> QED
    BY <2>8 DEF w
<1>8. IsRow(BenchMask(3), <<1, 1, 3, 2, 0, 1, 3, 2, 0, 1, 3, 2, 0, 1, 3, 2>>)
  <2> DEFINE s == BenchMask(2)
  <2>1. /\ Bit(s, 0) = 0 /\ Bit(s, 10) = 1 /\ Bit(s, 30) = 0 /\ Bit(s, 31) = 1
    BY <1>7, RowWords, Tapped
  <2>2. {i \in Taps : Bit(s, i) = 1} = {10} \union {31}
    BY <2>1 DEF Taps
  <2>3. Cardinality({10} \union {31}) = 2
    <3>1. 10 # 31
      OBVIOUS
    <3> QED
      BY <3>1, Pair, Zenon
  <2>4. Cardinality({i \in Taps : Bit(s, i) = 1}) % 2 = 0
    BY <2>2, <2>3
  <2> DEFINE v == <<2, 3, 3, 0, 0, 3, 3, 0, 0, 3, 3, 0, 0, 3, 3, 0>>
             w == <<1, 1, 3, 2, 0, 1, 3, 2, 0, 1, 3, 2, 0, 1, 3, 2>>
  <2>5. w[1] = 2 * 0 + (v[1] \div 2)
    OBVIOUS
  <2>6. \A j \in 1..15 : w[j + 1] = 2 * (v[j] % 2) + (v[j + 1] \div 2)
    OBVIOUS
  <2>7. IsRow(s, v) /\ BenchMask(3) = prng(s) /\ s \in Block
    BY <1>1, <1>3, <1>7
  <2> HIDE DEF s, v, w
  <2>8. IsRow(BenchMask(3), w)
    BY <1>4, <2>4, <2>5, <2>6, <2>7
  <2> QED
    BY <2>8 DEF w
<1> QED
  BY <1>1, <1>3, <1>6, <1>7, <1>8

\* The first four matrices of a table are its first block.
LEMMA FirstBlock ==
  ASSUME NEW b \in Area, NEW i \in 0..3, NEW j \in 0..3
  PROVE  LoadTables(b)[i][j] = b[0][4 * i + j]
<1>1. (4 * i) + j \in 0..15
  OBVIOUS
<1>2. ((4 * i) + j) \div 16 = 0 /\ ((4 * i) + j) % 16 = (4 * i) + j
  BY <1>1
<1>3. LoadTables(b)[i][j] = b[((4 * i) + j) \div 16][((4 * i) + j) % 16]
  BY Shapes DEF LoadTables, mat_size, BUS_WIDTH, n
<1> QED
  BY <1>2, <1>3

\* The matrices of the bench that the words of a mask select, and their inverses.
LEMMA BenchTables ==
  ASSUME Blocks = 3, NEW p, p = LoadTables(test_perms), NEW t, t = LoadTables(test_t_perms)
  PROVE  /\ p \in Tables /\ t \in Tables
         /\ p[0][0] = 1 /\ p[0][1] = 2 /\ p[0][2] = 0 /\ p[0][3] = 3
         /\ p[1][0] = 2 /\ p[1][1] = 1 /\ p[1][2] = 0 /\ p[1][3] = 3
         /\ p[2][0] = 1 /\ p[2][1] = 3 /\ p[2][2] = 2 /\ p[2][3] = 0
         /\ p[3][0] = 0 /\ p[3][1] = 3 /\ p[3][2] = 2 /\ p[3][3] = 1
         /\ \A x \in Word : IsInverseOf(t[x], p[x])
<1>1. p \in Tables /\ t \in Tables
  BY ArrayTypes, LoadedTables
<1>2. \A i \in 0..3, j \in 0..3 :
        p[i][j] = test_perms[0][4 * i + j] /\ t[i][j] = test_t_perms[0][4 * i + j]
  BY ArrayTypes, FirstBlock
<1>3. /\ IsRow(test_perms[0], <<1, 2, 0, 3, 2, 1, 0, 3, 1, 3, 2, 0, 0, 3, 2, 1>>)
      /\ IsRow(test_t_perms[0], <<2, 0, 1, 3, 2, 1, 0, 3, 3, 0, 2, 1, 0, 3, 2, 1>>)
  BY BenchRows
<1>4. /\ p[0][0] = 1 /\ p[0][1] = 2 /\ p[0][2] = 0 /\ p[0][3] = 3
      /\ p[1][0] = 2 /\ p[1][1] = 1 /\ p[1][2] = 0 /\ p[1][3] = 3
      /\ p[2][0] = 1 /\ p[2][1] = 3 /\ p[2][2] = 2 /\ p[2][3] = 0
      /\ p[3][0] = 0 /\ p[3][1] = 3 /\ p[3][2] = 2 /\ p[3][3] = 1
  BY <1>2, <1>3, RowWords
<1>5. /\ t[0][0] = 2 /\ t[0][1] = 0 /\ t[0][2] = 1 /\ t[0][3] = 3
      /\ t[1][0] = 2 /\ t[1][1] = 1 /\ t[1][2] = 0 /\ t[1][3] = 3
      /\ t[2][0] = 3 /\ t[2][1] = 0 /\ t[2][2] = 2 /\ t[2][3] = 1
      /\ t[3][0] = 0 /\ t[3][1] = 3 /\ t[3][2] = 2 /\ t[3][3] = 1
  BY <1>2, <1>3, RowWords
<1>6. ASSUME NEW x \in Word
      PROVE  IsInverseOf(t[x], p[x])
  <2>1. x = 0 \/ x = 1 \/ x = 2 \/ x = 3
    BY Shapes
  <2>2. p[x] \in Matrix /\ t[x] \in Matrix
    BY <1>1, Shapes DEF Tables
  <2>3. \A w \in Word : w = 0 \/ w = 1 \/ w = 2 \/ w = 3
    BY Shapes
  <2>4. \A w \in Word : t[x][p[x][w]] = w
    BY <1>4, <1>5, <2>1, <2>3
  <2> QED
    BY <2>2, <2>4 DEF IsInverseOf
<1> QED
  BY <1>1, <1>4, <1>6

\* What the bench makes of a word and a word of a mask.
LEMMA BenchWords ==
  ASSUME Blocks = 3, NEW p, p = LoadTables(test_perms)
  PROVE
         /\ encrypt_word(p, 0, 0) = 1 /\ encrypt_word(p, 1, 0) = 2
         /\ encrypt_word(p, 2, 0) = 0 /\ encrypt_word(p, 3, 0) = 3
         /\ encrypt_word(p, 0, 1) = 1 /\ encrypt_word(p, 1, 1) = 2
         /\ encrypt_word(p, 2, 1) = 3 /\ encrypt_word(p, 3, 1) = 0
         /\ encrypt_word(p, 0, 2) = 2 /\ encrypt_word(p, 1, 2) = 0
         /\ encrypt_word(p, 2, 2) = 1 /\ encrypt_word(p, 3, 2) = 3
         /\ encrypt_word(p, 0, 3) = 1 /\ encrypt_word(p, 1, 3) = 2
         /\ encrypt_word(p, 2, 3) = 3 /\ encrypt_word(p, 3, 3) = 0
<1>1. /\ p[0][0] = 1 /\ p[0][1] = 2 /\ p[0][2] = 0 /\ p[0][3] = 3
      /\ p[1][0] = 2 /\ p[1][1] = 1 /\ p[1][2] = 0 /\ p[1][3] = 3
      /\ p[2][0] = 1 /\ p[2][1] = 3 /\ p[2][2] = 2 /\ p[2][3] = 0
      /\ p[3][0] = 0 /\ p[3][1] = 3 /\ p[3][2] = 2 /\ p[3][3] = 1
  BY BenchTables
<1> QED
  BY <1>1 DEF encrypt_word, Xor, M

\* The ciphertext that the bench expects is the one the kernel makes, and its inverse
\* matrices turn that into the text again.
LEMMA BenchBlocks ==
  ASSUME Blocks = 3, NEW i \in 0..2
  PROVE  /\ EncryptBlock(LoadTables(test_perms), bench_data[i], BenchMask(i + 1)) = test_result[i]
         /\ DecryptBlock(LoadTables(test_t_perms), test_result[i], BenchMask(i + 1)) = bench_data[i]
<1> DEFINE p == LoadTables(test_perms)
           t == LoadTables(test_t_perms)
<1>1. /\ p \in Tables /\ t \in Tables /\ \A x \in Word : IsInverseOf(t[x], p[x])
  BY BenchTables
<1>2. bench_data[i] \in Block /\ test_result[i] \in Block /\ BenchMask(i + 1) \in Block
  <2>1. test_result \in Area
    <3> DEFINE blocks == << <<9, 5, 11, 2, 11, 13, 11, 13>>, <<3, 3, 5, 5, 7, 5, 10, 11>>,
                            <<11, 3, 8, 5, 11, 2, 11, 10>> >>
    <3>1. Len(blocks) = 3
      OBVIOUS
    <3>2. \A d \in 1..8 : blocks[1][d] \in 0..15
      OBVIOUS
    <3>3. \A d \in 1..8 : blocks[2][d] \in 0..15
      OBVIOUS
    <3>4. \A d \in 1..8 : blocks[3][d] \in 0..15
      OBVIOUS
    <3>5. test_result = AreaOf(blocks)
      BY DEF test_result
    <3> HIDE DEF blocks
    <3>6. \A k \in 1..Len(blocks) : k = 1 \/ k = 2 \/ k = 3
      BY <3>1
    <3>7. Len(blocks) \in Nat
      BY <3>1
    <3>8. \A k \in 1..Len(blocks) : \A d \in 1..8 : blocks[k][d] \in 0..15
      BY <3>2, <3>3, <3>4, <3>6
    <3>9. AreaOf(blocks) \in Area
      BY <3>7, <3>8, HexArea
    <3> QED
      BY <3>5, <3>9
  <2>2. i \in Addresses /\ i + 1 \in 0..3
    BY BenchRows
  <2> QED
    BY <2>1, <2>2, ArrayTypes, MaskRows DEF Area
<1>3. \A j \in Lanes : encrypt_word(p, bench_data[i][j], BenchMask(i + 1)[j]) = test_result[i][j]
  <2> DEFINE Made(b, rn, c) == \A j \in Lanes : encrypt_word(p, b[j], rn[j]) = c[j]
  <2>1. ASSUME NEW b, NEW rn, NEW c,
               /\ encrypt_word(p, b[0], rn[0]) = c[0] /\ encrypt_word(p, b[1], rn[1]) = c[1]
               /\ encrypt_word(p, b[2], rn[2]) = c[2] /\ encrypt_word(p, b[3], rn[3]) = c[3]
               /\ encrypt_word(p, b[4], rn[4]) = c[4] /\ encrypt_word(p, b[5], rn[5]) = c[5]
               /\ encrypt_word(p, b[6], rn[6]) = c[6] /\ encrypt_word(p, b[7], rn[7]) = c[7]
               /\ encrypt_word(p, b[8], rn[8]) = c[8] /\ encrypt_word(p, b[9], rn[9]) = c[9]
               /\ encrypt_word(p, b[10], rn[10]) = c[10]
               /\ encrypt_word(p, b[11], rn[11]) = c[11]
               /\ encrypt_word(p, b[12], rn[12]) = c[12]
               /\ encrypt_word(p, b[13], rn[13]) = c[13]
               /\ encrypt_word(p, b[14], rn[14]) = c[14]
               /\ encrypt_word(p, b[15], rn[15]) = c[15]
        PROVE  Made(b, rn, c)
    <3>1. \A j \in Lanes :
            \/ j = 0 \/ j = 1 \/ j = 2 \/ j = 3 \/ j = 4 \/ j = 5 \/ j = 6 \/ j = 7
            \/ j = 8 \/ j = 9 \/ j = 10 \/ j = 11 \/ j = 12 \/ j = 13 \/ j = 14 \/ j = 15
      BY Shapes
    <3> QED
      BY <2>1, <3>1
  <2> HIDE DEF Made, p
  <2>2. Made(bench_data[0], BenchMask(1), test_result[0])
    BY <2>1, BenchRows, MaskRows, BenchWords, RowWords DEF p
  <2>3. Made(bench_data[1], BenchMask(2), test_result[1])
    BY <2>1, BenchRows, MaskRows, BenchWords, RowWords DEF p
  <2>4. Made(bench_data[2], BenchMask(3), test_result[2])
    BY <2>1, BenchRows, MaskRows, BenchWords, RowWords DEF p
  <2> QED
    BY <2>2, <2>3, <2>4 DEF Made
<1>4. EncryptBlock(p, bench_data[i], BenchMask(i + 1)) = test_result[i]
  BY <1>2, <1>3 DEF EncryptBlock, Block
<1>5. DecryptBlock(t, EncryptBlock(p, bench_data[i], BenchMask(i + 1)), BenchMask(i + 1))
        = bench_data[i]
  <2>1. \A j \in Lanes : IsInverseOf(t[BenchMask(i + 1)[j]], p[BenchMask(i + 1)[j]])
    BY <1>1, <1>2 DEF Block
  <2> HIDE DEF p, t
  <2> QED
    BY <1>1, <1>2, <2>1, BlockRoundTrip
<1> QED
  BY <1>4, <1>5

-----------------------------------------------------------------------------
(* The bench: its steps                                                    *)

LEMMA BenchEnd ==
  ASSUME program = "bench"
  PROVE  Finished <=> stage = 7
<1>1. Len(Calls) = 6
  BY DEF Calls
<1> QED
  BY <1>1 DEF Finished

\* The call that runs, or that the bench waits for.
LEMMA BenchCall ==
  ASSUME IInv, phase # "start", program = "bench"
  PROVE  /\ stage \in {1, 2, 3, 4, 5, 6}
         /\ stage = 1 => reg.control = "LD_PERMS" /\ reg.src = "PERMS"
         /\ stage \in {2, 5} => reg.control = "LD_SEED" /\ reg.src = "SEED"
         /\ stage = 3 => reg.control = "LD_T_PERMS" /\ reg.src = "T_PERMS"
         /\ stage = 4 => reg = Cipher("ENCRYPT", "SRC", "DST")
         /\ stage = 6 => reg = Cipher("DECRYPT", "DST", "OUT")
<1>1. stage \in DOMAIN Calls /\ reg = Calls[stage] /\ reg \in Registers
  BY DEF IInv, TypeOK, HwTypeOK, Turns
<1>2. DOMAIN Calls = 1..6
  BY <1>1, CallTypes DEF Programs
<1>3. stage \in {1, 2, 3, 4, 5, 6}
  BY <1>1, <1>2
<1>4. Calls = << Load("LD_PERMS", "PERMS"), LoadSeedCall, Load("LD_T_PERMS", "T_PERMS"),
                 Cipher("ENCRYPT", "SRC", "DST"), LoadSeedCall, Cipher("DECRYPT", "DST", "OUT") >>
  BY DEF Calls
<1>5. \A control, src : /\ Load(control, src).control = control
                        /\ Load(control, src).src = src
  BY <1>1 DEF Load, Registers
<1>6. LoadSeedCall.control = "LD_SEED" /\ LoadSeedCall.src = "SEED"
  BY <1>1 DEF LoadSeedCall, Registers
<1>7. /\ stage = 1 => reg = Load("LD_PERMS", "PERMS")
      /\ stage \in {2, 5} => reg = LoadSeedCall
      /\ stage = 3 => reg = Load("LD_T_PERMS", "T_PERMS")
      /\ stage = 4 => reg = Cipher("ENCRYPT", "SRC", "DST")
      /\ stage = 6 => reg = Cipher("DECRYPT", "DST", "OUT")
  BY <1>1, <1>4
<1> QED
  BY <1>3, <1>5, <1>6, <1>7

\* A step that changes nothing that the kernel has loaded or written.
LEMMA BenchFrame ==
  ASSUME BenchKept, UNCHANGED <<program, mem, seed, perms, t_perms>>,
         Progress(4)' = Progress(4), Progress(6)' = Progress(6),
         Over(1)' => Over(1), Over(3)' => Over(3), Over(5)' <=> Over(5), Over(2)' => Over(2),
         Benched => \/ stage' > 4 => stage > 4 /\ cipher' = cipher
                    \/ cipher' = mem["DST"],
         Benched => \/ result' = result
                    \/ result' = None
                    \/ result'.text = mem["OUT"]
  PROVE  BenchKept'
<1> SUFFICES ASSUME Benched
             PROVE  BenchLoaded' /\ BenchSeed' /\ BenchCipher' /\ BenchText'
  BY DEF BenchKept, Benched
<1>1. BenchLoaded /\ BenchSeed /\ BenchCipher /\ BenchText
  BY DEF BenchKept
<1>2. BenchLoaded'
  BY <1>1 DEF BenchLoaded
<1>3. BenchSeed'
  BY <1>1 DEF BenchSeed, BenchMask, test_seed
<1>4. BenchCipher'
  BY <1>1 DEF BenchCipher
<1>5. BenchText'
  BY <1>1 DEF BenchText
<1> QED
  BY <1>2, <1>3, <1>4, <1>5

LEMMA BenchInit ==
  ASSUME Init
  PROVE  BenchKept
<1> SUFFICES ASSUME Benched
             PROVE  BenchLoaded /\ BenchSeed /\ BenchCipher /\ BenchText
  BY DEF BenchKept
<1>1. stage = 1 /\ phase = "start" /\ result = None /\ program = "bench"
  BY DEF Init, Benched
<1>2. ~Over(1) /\ ~Over(2) /\ ~Over(3) /\ ~Over(5) /\ Progress(4) = 0 /\ Progress(6) = 0
  BY <1>1 DEF Over, Progress
<1>3. /\ mem["SRC"] = bench_data /\ mem["SEED"] = test_seed
      /\ mem["PERMS"] = test_perms /\ mem["T_PERMS"] = test_t_perms
  BY <1>1 DEF Init, InitialMemory, ZeroMemory, Regions
<1>4. BenchLoaded
  BY <1>2, <1>3 DEF BenchLoaded
<1>5. BenchSeed /\ BenchCipher /\ BenchText
  BY <1>1, <1>2 DEF BenchSeed, BenchCipher, BenchText
<1> QED
  BY <1>4, <1>5

\* The steps of the bench itself, and of the cache.
LEMMA BenchProgram ==
  ASSUME IInv, BenchKept, Program
  PROVE  BenchKept'
<1> SUFFICES ASSUME Benched
             PROVE  BenchKept'
  BY DEF BenchKept, Benched, Program, CopyIn, AwaitReady, StartCall, AwaitDone, AwaitDrain,
         Returned, Continue, PrintResult
<1>1. /\ program = "bench" /\ Blocks = 3
      /\ stage \in 0..7 /\ mem \in [Regions -> Area]
      /\ kernel # Idle => ap_start
      /\ ap_start => phase = "done"
      /\ ap_start \in BOOLEAN
  BY DEF IInv, Turns, BeforeItsCall, TypeOK, HwTypeOK, Benched
<1>2. CASE StartCall
  <2>1. /\ stage \in DOMAIN Calls /\ phase = "start" /\ phase' = "done" /\ ap_start'
        /\ UNCHANGED <<program, mem, kernel, seed, perms, t_perms, stage, cipher, result>>
    BY <1>2 DEF StartCall, Start, kernelVars
  <2>2. kernel = Idle
    BY <1>1, <2>1
  <2>3. \A st \in 1..6 : Progress(st)' = Progress(st) /\ (Over(st)' <=> Over(st))
    BY <1>1, <2>1, <2>2 DEF Progress, Over, Idle
  <2> QED
    BY <2>1, <2>3, BenchFrame
<1>3. CASE AwaitDrain \/ Returned
  <2>1. /\ Continue /\ phase # "start" /\ ~ap_start
        /\ UNCHANGED <<ap_start, kernel, seed, perms, t_perms>>
    BY <1>3 DEF AwaitDrain, Returned, qpp_ready, kernelVars, busVars
  <2>2. /\ stage' = stage + 1 /\ phase' = "start" /\ UNCHANGED <<program, mem, result>>
        /\ cipher' = IF Calls[stage].control = "ENCRYPT" THEN mem["DST"] ELSE cipher
    BY <1>1, <2>1 DEF Continue
  <2>3. stage \in {1, 2, 3, 4, 5, 6} /\ kernel = Idle
    BY <1>1, <2>1, BenchCall
  <2>4. stage = 4 => Calls[stage].control = "ENCRYPT"
    BY <1>1, <2>1, BenchCall DEF IInv, Turns, Cipher
  <2>5. stage' > 4 => \/ cipher' = mem["DST"]
                      \/ stage > 4 /\ cipher' = cipher
    BY <2>2, <2>3, <2>4
  <2>6. \A st \in 1..6 : Progress(st)' = Progress(st) /\ (Over(st)' <=> Over(st))
    BY <2>1, <2>2, <2>3 DEF Progress, Over
  <2> QED
    BY <2>1, <2>2, <2>5, <2>6, BenchFrame
<1>4. CASE PrintResult
  <2>1. /\ result' = [cipher |-> Read("DST"), text |-> Read("OUT")]
        /\ UNCHANGED <<program, mem, kernel, seed, perms, t_perms, stage, cipher, phase, ap_start>>
    BY <1>1, <1>4 DEF PrintResult, hwVars, busVars, kernelVars
  <2>2. Read("OUT") = mem["OUT"]
    BY <1>1 DEF Read, IInv, Uncached
  <2>3. \A st \in 1..6 : Progress(st)' = Progress(st) /\ (Over(st)' <=> Over(st))
    BY <2>1 DEF Progress, Over
  <2> QED
    BY <2>1, <2>2, <2>3, BenchFrame
<1>5. ~CopyIn /\ ~AwaitReady /\ ~AwaitDone
  BY <1>1 DEF CopyIn, AwaitReady, AwaitDone
<1> QED
  BY <1>2, <1>3, <1>4, <1>5 DEF Program

LEMMA BenchElsewhere ==
  ASSUME IInv, BenchKept,
         Stop \/ UNCHANGED vars \/ \E r \in Outputs : Evict(r) \/ Fetch(r)
  PROVE  BenchKept'
<1> SUFFICES ASSUME Benched
             PROVE  BenchKept'
  BY DEF BenchKept, Benched, Stop, Evict, Fetch, appVars, vars
<1>1. program = "bench"
  BY DEF Benched
<1>2. ~Stop /\ \A r \in Outputs : ~Evict(r) /\ ~Fetch(r)
  BY <1>1 DEF IInv, Uncached, Stop, Evict, Fetch
<1>3. /\ UNCHANGED <<program, mem, kernel, seed, perms, t_perms, stage, cipher, phase,
                     ap_start, result>>
  BY <1>2 DEF vars, hwVars, busVars, kernelVars, appVars
<1>4. \A st \in 1..6 : Progress(st)' = Progress(st) /\ (Over(st)' <=> Over(st))
  BY <1>3 DEF Progress, Over
<1> QED
  BY <1>3, <1>4, BenchFrame

LEMMA BenchKernel ==
  ASSUME IInv, BenchKept, KernelRuns
  PROVE  BenchKept'
<1>1. /\ UNCHANGED <<program, stage, phase, cipher, result>>
      /\ Kernel /\ reg' = reg
  BY DEF KernelRuns, appVars, Kernel, KernelBegin, LoadPerms, LoadTPerms,
         LoadSeed, CipherBlock, CipherReturn, Return, busVars
<1> SUFFICES ASSUME Benched
             PROVE  BenchKept'
  BY <1>1 DEF BenchKept, Benched
<1>2. /\ program = "bench" /\ Blocks = 3
      /\ mem \in [Regions -> Area] /\ kernel \in 0..3 \union {4} /\ Idle = 4
      /\ stage \in Nat /\ reg \in Registers /\ ap_start \in BOOLEAN
  BY DEF IInv, TypeOK, HwTypeOK, Benched, Idle
<1>3. ap_start /\ phase = "done"
  <2>1. kernel # Idle \/ ap_start
    BY <1>1, <1>2
    DEF Kernel, KernelBegin, LoadPerms, LoadTPerms, LoadSeed, CipherBlock, CipherReturn,
        IInv, Turns
  <2> QED
    BY <1>2, <2>1 DEF IInv, Turns, BeforeItsCall
<1>4. stage \in {1, 2, 3, 4, 5, 6} /\ result = None
  <2>1. stage \in {1, 2, 3, 4, 5, 6}
    BY <1>2, <1>3, BenchCall
  <2>2. result = None
    BY <1>3 DEF IInv, Turns
  <2> QED
    BY <2>1, <2>2
<1>5. BenchLoaded /\ BenchSeed /\ BenchCipher /\ BenchText
  BY DEF BenchKept
<1>6. \A st \in 1..6 : /\ stage # st => /\ Progress(st)' = Progress(st)
                                        /\ Over(st)' <=> Over(st)
                       /\ stage < st => ~Over(st) /\ Progress(st) = 0
                       /\ stage > st => Over(st) /\ Progress(st) = 3
                       /\ stage = st => ~Over(st)
  <2> SUFFICES ASSUME NEW st \in 1..6
               PROVE  /\ stage # st => /\ Progress(st)' = Progress(st)
                                       /\ Over(st)' <=> Over(st)
                      /\ stage < st => ~Over(st) /\ Progress(st) = 0
                      /\ stage > st => Over(st) /\ Progress(st) = 3
                      /\ stage = st => ~Over(st)
    OBVIOUS
  <2>1. CASE stage < st
    BY <1>1, <1>2, <2>1 DEF Progress, Over
  <2>2. CASE stage > st
    BY <1>1, <1>2, <2>2 DEF Progress, Over
  <2>3. CASE stage = st
    BY <1>3, <2>3 DEF Over
  <2> QED
    BY <1>4, <2>1, <2>2, <2>3
<1>7. CASE KernelBegin
  <2>1. /\ UNCHANGED <<mem, perms, t_perms, seed, ap_start>> /\ kernel = Idle /\ kernel' = 0
    BY <1>7 DEF KernelBegin, busVars
  <2>2. \A st \in 1..6 : Progress(st)' = Progress(st) /\ (Over(st)' <=> Over(st))
    BY <1>1, <1>2, <1>3, <2>1 DEF Progress, Over
  <2> QED
    BY <1>1, <2>1, <2>2, BenchFrame
<1>8. CASE CipherReturn
  <2>1. /\ kernel = reg.size /\ kernel' = Idle /\ ap_start' = FALSE
        /\ reg.control \in {"ENCRYPT", "DECRYPT"}
        /\ UNCHANGED <<mem, perms, t_perms, seed>>
    BY <1>8 DEF CipherReturn, Return
  <2>2. stage \in {4, 6} /\ kernel = 3
    BY <1>2, <1>3, <2>1, BenchCall DEF Cipher
  <2>3. Progress(4)' = Progress(4) /\ Progress(6)' = Progress(6)
    BY <1>1, <1>2, <1>3, <2>1, <2>2 DEF Progress
  <2>4. (Over(1)' <=> Over(1)) /\ (Over(2)' <=> Over(2)) /\ (Over(3)' <=> Over(3))
        /\ (Over(5)' <=> Over(5))
    BY <1>6, <2>2
  <2> QED
    BY <1>1, <2>1, <2>3, <2>4, BenchFrame
<1>9. CASE LoadPerms
  <2>1. reg.control = "LD_PERMS" /\ perms' = LoadTables(mem[reg.src])
    BY <1>9 DEF LoadPerms
  <2>2. UNCHANGED <<mem, t_perms, seed>>
    BY <1>9 DEF LoadPerms
  <2>3. stage = 1 /\ reg.src = "PERMS"
    BY <1>2, <1>3, <2>1, BenchCall DEF Cipher
  <2>4. /\ perms' = LoadTables(test_perms)
        /\ Progress(4)' = Progress(4) /\ Progress(6)' = Progress(6)
        /\ ~Over(2)' /\ ~Over(3)' /\ ~Over(5)'
    BY <1>5, <1>6, <2>1, <2>3 DEF BenchLoaded
  <2>5. BenchLoaded' /\ BenchSeed'
    BY <1>5, <2>2, <2>4 DEF BenchLoaded, BenchSeed
  <2>6. BenchCipher' /\ BenchText'
    BY <1>1, <1>5, <2>2, <2>4 DEF BenchCipher, BenchText
  <2> QED
    BY <2>5, <2>6 DEF BenchKept
<1>10. CASE LoadTPerms
  <2>1. reg.control = "LD_T_PERMS" /\ t_perms' = LoadTables(mem[reg.src])
    BY <1>10 DEF LoadTPerms
  <2>2. UNCHANGED <<mem, perms, seed>>
    BY <1>10 DEF LoadTPerms
  <2>3. stage = 3 /\ reg.src = "T_PERMS"
    BY <1>2, <1>3, <2>1, BenchCall DEF Cipher
  <2>4. /\ t_perms' = LoadTables(test_t_perms)
        /\ Progress(4)' = Progress(4) /\ Progress(6)' = Progress(6)
        /\ Over(1)' <=> Over(1)
        /\ Over(2)' <=> Over(2)
        /\ Over(5)' <=> Over(5)
        /\ ~Over(5)
    BY <1>5, <1>6, <2>1, <2>3 DEF BenchLoaded
  <2>5. BenchLoaded' /\ BenchSeed'
    BY <1>5, <2>2, <2>4 DEF BenchLoaded, BenchSeed, BenchMask, test_seed
  <2>6. BenchCipher' /\ BenchText'
    BY <1>1, <1>5, <2>2, <2>4 DEF BenchCipher, BenchText
  <2> QED
    BY <2>5, <2>6 DEF BenchKept
<1>11. CASE LoadSeed
  <2>1. /\ reg.control = "LD_SEED" /\ seed' = mem[reg.src][0]
        /\ ap_start' = FALSE /\ kernel' = Idle
    BY <1>11 DEF LoadSeed, Return
  <2>2. UNCHANGED <<mem, perms, t_perms>>
    BY <1>11 DEF LoadSeed
  <2>3. stage \in {2, 5} /\ reg.src = "SEED"
    BY <1>2, <1>3, <2>1, BenchCall DEF Cipher
  <2>4. seed' = BenchMask(0)
    BY <1>5, <2>1, <2>3 DEF BenchLoaded, BenchMask
  <2>5. /\ Progress(4)' = Progress(4) /\ Progress(6)' = Progress(6)
        /\ Over(1)' <=> Over(1)
        /\ Over(3)' <=> Over(3)
        /\ stage = 2 => Progress(4) = 0 /\ ~Over(5)'
        /\ stage = 5 => Progress(6) = 0 /\ Over(5)'
    <3>1. stage = 5 => Over(5)'
      BY <1>1, <1>3, <2>1 DEF Over
    <3>2. 1 \in 1..6 /\ 3 \in 1..6 /\ 4 \in 1..6 /\ 5 \in 1..6 /\ 6 \in 1..6
      OBVIOUS
    <3>3. CASE stage = 2
      BY <1>6, <3>2, <3>3
    <3>4. CASE stage = 5
      BY <1>6, <3>1, <3>2, <3>4
    <3> QED
      BY <2>3, <3>3, <3>4
  <2>6. BenchSeed'
    <3>1. \A i : BenchMask(i)' = BenchMask(i)
      BY DEF BenchMask, test_seed
    <3>2. CASE stage = 2
      BY <2>4, <2>5, <3>1, <3>2 DEF BenchSeed
    <3>3. CASE stage = 5
      BY <2>4, <2>5, <3>1, <3>3 DEF BenchSeed
    <3> QED
      BY <2>3, <3>2, <3>3
  <2>7. BenchLoaded'
    BY <1>5, <2>2, <2>5 DEF BenchLoaded
  <2>8. BenchCipher' /\ BenchText'
    BY <1>1, <1>5, <2>2, <2>5 DEF BenchCipher, BenchText
  <2> QED
    BY <2>6, <2>7, <2>8 DEF BenchKept
<1>12. CASE CipherBlock
  <2>1. /\ reg.control \in {"ENCRYPT", "DECRYPT"} /\ kernel < reg.size
        /\ seed' = prng(seed) /\ kernel' = kernel + 1
        /\ mem' = [mem EXCEPT ![reg.dst][kernel] =
                     IF reg.control = "ENCRYPT"
                     THEN EncryptBlock(perms, mem[reg.src][kernel], seed')
                     ELSE DecryptBlock(t_perms, mem[reg.src][kernel], seed')]
        /\ UNCHANGED <<ap_start, perms, t_perms>>
    BY <1>12 DEF CipherBlock, busVars
  <2>2. /\ stage \in {4, 6}
        /\ stage = 4 => reg = Cipher("ENCRYPT", "SRC", "DST")
        /\ stage = 6 => reg = Cipher("DECRYPT", "DST", "OUT")
    BY <1>2, <1>3, <2>1, BenchCall DEF Cipher
  <2>3. kernel \in 0..2 /\ kernel # Idle /\ kernel' # Idle
    <3>1. reg.size = 3
      BY <1>2, <2>2 DEF Cipher
    <3> QED
      BY <1>2, <2>1, <3>1
  <2>4. /\ \A st \in {1, 2, 3, 5} : Over(st)' <=> Over(st)
        /\ Over(1) /\ Over(2) /\ Over(3)
        /\ stage = 4 => /\ Progress(4) = kernel /\ Progress(4)' = kernel + 1
                        /\ Progress(6)' = Progress(6) /\ ~Over(5)
        /\ stage = 6 => /\ Progress(6) = kernel /\ Progress(6)' = kernel + 1
                        /\ Progress(4)' = Progress(4) /\ Progress(4) = 3 /\ Over(5)
    <3>1. stage = 4 => Progress(4) = kernel /\ Progress(4)' = kernel + 1
      BY <1>1, <2>1, <2>3 DEF Progress
    <3>2. stage = 6 => Progress(6) = kernel /\ Progress(6)' = kernel + 1
      BY <1>1, <2>1, <2>3 DEF Progress
    <3>3. \A st \in {1, 2, 3, 5} : st \in 1..6 /\ st # stage
      BY <2>2
    <3>4. CASE stage = 4
      BY <1>6, <3>1, <3>3, <3>4
    <3>5. CASE stage = 6
      BY <1>6, <3>2, <3>3, <3>5
    <3> QED
      BY <2>2, <3>4, <3>5
  <2>5. seed' = BenchMask(kernel + 1)
    <3>1. seed = BenchMask(kernel)
      BY <1>5, <2>2, <2>4 DEF BenchSeed
    <3> QED
      BY <1>2, <2>1, <2>3, <3>1, MaskRows
  <2>6. BenchSeed'
    <3>1. \A i : BenchMask(i)' = BenchMask(i)
      BY DEF BenchMask, test_seed
    <3> QED
      BY <2>2, <2>4, <2>5, <3>1 DEF BenchSeed
  <2>7. perms = LoadTables(test_perms) /\ t_perms = LoadTables(test_t_perms)
    BY <1>5, <2>4 DEF BenchLoaded
  <2>8. Addresses = 0..2
    BY <1>2, BenchRows
  <2>9. CASE stage = 4
    <3>1. reg.control = "ENCRYPT" /\ reg.src = "SRC" /\ reg.dst = "DST"
      BY <2>2, <2>9 DEF Cipher
    <3>2. EncryptBlock(perms, mem["SRC"][kernel], seed') = test_result[kernel]
      BY <1>2, <1>5, <2>3, <2>5, <2>7, BenchBlocks DEF BenchLoaded
    <3>3. mem' = [mem EXCEPT !["DST"][kernel] = test_result[kernel]]
      BY <2>1, <3>1, <3>2
    <3>4. /\ \A r \in Regions \ {"DST"} : mem'[r] = mem[r]
          /\ mem'["DST"][kernel] = test_result[kernel]
          /\ \A i \in 0..2 : i # kernel => mem'["DST"][i] = mem["DST"][i]
      BY <1>2, <2>3, <2>8, <3>3 DEF Regions, Area
    <3>5. BenchLoaded'
      BY <1>5, <2>1, <2>4, <3>4 DEF BenchLoaded, Regions
    <3>6. BenchCipher'
      <4>1. \A i \in 0..kernel : mem'["DST"][i] = test_result[i]
        BY <1>5, <2>3, <2>4, <2>9, <3>4 DEF BenchCipher
      <4> QED
        BY <1>1, <2>3, <2>4, <2>9, <4>1 DEF BenchCipher
    <3>7. BenchText'
      BY <1>1, <1>4, <1>5, <2>4, <2>9, <3>4 DEF BenchText, Regions
    <3> QED
      BY <2>6, <3>5, <3>6, <3>7 DEF BenchKept
  <2>10. CASE stage = 6
    <3>1. reg.control = "DECRYPT" /\ reg.src = "DST" /\ reg.dst = "OUT"
      BY <2>2, <2>10 DEF Cipher
    <3>2. mem["DST"][kernel] = test_result[kernel]
      BY <1>5, <2>3, <2>4, <2>10 DEF BenchCipher
    <3>3. DecryptBlock(t_perms, mem["DST"][kernel], seed') = bench_data[kernel]
      BY <1>2, <2>3, <2>5, <2>7, <3>2, BenchBlocks
    <3>4. mem' = [mem EXCEPT !["OUT"][kernel] = bench_data[kernel]]
      BY <2>1, <3>1, <3>3
    <3>5. /\ \A r \in Regions \ {"OUT"} : mem'[r] = mem[r]
          /\ mem'["OUT"][kernel] = bench_data[kernel]
          /\ \A i \in 0..2 : i # kernel => mem'["OUT"][i] = mem["OUT"][i]
      BY <1>2, <2>3, <2>8, <3>4 DEF Regions, Area
    <3>6. BenchLoaded'
      BY <1>5, <2>1, <2>4, <3>5 DEF BenchLoaded, Regions
    <3>7. BenchText'
      <4>1. \A i \in 0..kernel : mem'["OUT"][i] = bench_data[i]
        BY <1>5, <2>3, <2>4, <2>10, <3>5 DEF BenchText
      <4> QED
        BY <1>1, <1>4, <2>3, <2>4, <2>10, <4>1 DEF BenchText
    <3>8. BenchCipher'
      BY <1>1, <1>5, <2>4, <2>10, <3>5 DEF BenchCipher, Regions
    <3> QED
      BY <2>6, <3>6, <3>7, <3>8 DEF BenchKept
  <2> QED
    BY <2>2, <2>9, <2>10
<1> QED
  BY <1>1, <1>7, <1>8, <1>9, <1>10, <1>11, <1>12 DEF Kernel

\* When the bench has its result, both calls are over.
LEMMA BenchResult ==
  ASSUME IInv, BenchKept, Blocks = 3
  PROVE  BenchPasses
<1> SUFFICES ASSUME program = "bench", result # None
             PROVE  cipher = test_result /\ result.text = bench_data
  BY DEF BenchPasses
<1>1. stage = 7
  BY BenchEnd DEF IInv, Turns
<1>2. BenchCipher /\ BenchText /\ Progress(4) = 3 /\ Progress(6) = 3
  BY <1>1 DEF BenchKept, Benched, Progress
<1>3. cipher = mem["DST"] /\ result.text = mem["OUT"]
  BY <1>1, <1>2 DEF BenchCipher, BenchText
<1>4. /\ \A i \in 0..2 : mem["DST"][i] = test_result[i]
      /\ \A i \in 0..2 : mem["OUT"][i] = bench_data[i]
  BY <1>2 DEF BenchCipher, BenchText
<1>5. /\ mem["DST"] \in Area /\ mem["OUT"] \in Area /\ bench_data \in Area
      /\ DOMAIN test_result = Addresses /\ Addresses = 0..2
      /\ test_result = [a \in Addresses |-> test_result[a]]
  BY ArrayTypes, BenchRows DEF IInv, TypeOK, HwTypeOK, Regions, test_result, AreaOf
<1>6. mem["DST"] = test_result /\ mem["OUT"] = bench_data
  BY <1>4, <1>5 DEF Area
<1> QED
  BY <1>3, <1>6

\* The test bench of the kernel, whose text is three blocks long, finds the ciphertext and
\* the text that it expects, whatever the shift register held before it loaded its seed.
THEOREM BenchSucceeds ==
  ASSUME Blocks = 3
  PROVE  Spec => []BenchPasses
<1>1. Init => IInv /\ BenchKept
  BY InitInv, BenchInit
<1>2. IInv /\ BenchKept /\ [Next]_vars => (IInv /\ BenchKept)'
  BY StepInv, BenchProgram, BenchKernel, BenchElsewhere DEF Next
<1>3. IInv /\ BenchKept => BenchPasses
  BY BenchResult
<1> QED
  BY <1>1, <1>2, <1>3, PTL DEF Spec

=============================================================================
