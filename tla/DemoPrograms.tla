---------------------------- MODULE DemoPrograms ----------------------------
(***************************************************************************)
(* The three programs that run the kernel on a text of their own:          *)
(*   "app"       Linux/app/main.c, on regions that are not cached          *)
(*   "firmware"  Vitis/firmware/.../helloworld.c, on arrays of its own,    *)
(*               which the processor reads through a write-back cache      *)
(*   "bench"     HLS/qpp_2_5/qpp_test.cpp, which calls the kernel as a     *)
(*               function                                                  *)
(* Each loads tables, encrypts, decrypts and prints, with the calls in an  *)
(* order of its own.  The kernel reads and writes memory past the cache:   *)
(* it hangs on a port of the memory controller that is not coherent.       *)
(* The app may find the kernel busy with a call that a program left        *)
(* behind: with a seed that NodeE-HLS was loading when it was stopped, or  *)
(* with any call of its own, as it may be stopped anywhere and started     *)
(* again.                                                                  *)
(***************************************************************************)
EXTENDS QPPHardware

CONSTANTS Seeds,  \* what the shift register may hold when a program starts
          Data    \* texts for the app and the firmware

ASSUME InputsAssumption ==
  /\ Seeds \subseteq Block
  /\ \A text \in Data : /\ text \in Area
                        /\ \A a \in Addresses : a >= Blocks => text[a] = ZeroBlock

PERM_LEN == 2

\* Blocks written in hexadecimal: one digit is two words.
FromHex(digits) ==
  [j \in Lanes |-> LET digit == digits[(j \div 2) + 1]
                   IN  IF j % 2 = 0 THEN digit \div 4 ELSE digit % 4]

AreaOf(blocks) ==
  [a \in Addresses |-> IF a < Len(blocks) THEN FromHex(blocks[a + 1]) ELSE ZeroBlock]

\* The tables of the app and of the bench; the firmware has them the other way round.
test_perms == AreaOf(<< <<6, 3, 9, 3, 7, 8, 3, 9>>, <<3, 6, 0, 0, 0, 0, 0, 0>> >>)
test_t_perms == AreaOf(<< <<8, 7, 9, 3, 12, 9, 3, 9>>, <<2, 13, 0, 0, 0, 0, 0, 0>> >>)
firmware_perms == test_t_perms
firmware_t_perms == test_perms

\* The seed, the text and the expected ciphertext of the bench.
test_seed == AreaOf(<< <<15, 0, 15, 0, 15, 0, 15, 0>> >>)
bench_data == AreaOf(<< <<4, 8, 6, 5, 6, 12, 6, 12>>, <<6, 15, 0, 0, 2, 0, 5, 7>>,
                        <<6, 15, 7, 2, 6, 12, 6, 4>> >>)
test_result == AreaOf(<< <<9, 5, 11, 2, 11, 13, 11, 13>>, <<3, 3, 5, 5, 7, 5, 10, 11>>,
                         <<11, 3, 8, 5, 11, 2, 11, 10>> >>)

Programs == {"app", "firmware", "bench"}

\* b_out and m_out of the firmware, the only memory in which the processor's copy and
\* the kernel's can differ: the processor never writes to the arrays the kernel reads.
Outputs == {"DST", "OUT"}
Absent == <<>>

\* Where the linker may put the two arrays: in one line of the cache or in two, b_out at
\* the start of a line or not, m_out (if it has a line of its own) among the 400 bytes
\* behind the start of b_out or not.
Layouts == [together : BOOLEAN, aligned : BOOLEAN, behind : BOOLEAN]

VARIABLES
  program,    \* which program it is
  seed0,      \* the shift register when the program started, the app with its copies
  test_data,  \* the text
  stage,      \* the number of the call that comes or runs, or one more than there are
  phase,      \* "start", then "done" and "drain", the two loops that wait
  cipher,     \* history: what the encryption left in DST
  result,     \* the ciphertext and the text that the program printed or checked
  restarted,  \* bound: the app is stopped and started again once
  overlapped, \* history: the app went ahead while a call left behind was running
  layout,     \* the layout of the firmware
  cache,      \* the copies of b_out and m_out in the cache
  dirty,      \* those that differ from memory by writes of the processor
  spoilt,     \* history: arrays that a write-back has changed in memory
  stale       \* history: copies that were out of date when the last call returned

cacheVars == <<layout, cache, dirty, spoilt>>
appVars == <<program, seed0, test_data, stage, phase, cipher, result, restarted,
             overlapped, stale>>
vars == <<hwVars, appVars, cacheVars>>

None == <<>>

-----------------------------------------------------------------------------
(* The calls                                                               *)

Load(control, src) == [reg EXCEPT !.control = control, !.size = PERM_LEN, !.src = src]
LoadSeedCall == [reg EXCEPT !.control = "LD_SEED", !.size = 1, !.src = "SEED"]
Cipher(control, src, dst) ==
  [control |-> control, size |-> Blocks, src |-> src, dst |-> dst]

Calls ==
  CASE program = "app" ->
         << Load("LD_PERMS", "PERMS"), Cipher("ENCRYPT", "SRC", "DST"),
            Load("LD_T_PERMS", "PERMS"), Cipher("DECRYPT", "DST", "SRC") >>
    [] program = "firmware" ->
         << Load("LD_PERMS", "PERMS"), Cipher("ENCRYPT", "SRC", "DST"),
            Load("LD_T_PERMS", "T_PERMS"), Cipher("DECRYPT", "DST", "OUT") >>
    [] program = "bench" ->
         << Load("LD_PERMS", "PERMS"), LoadSeedCall, Load("LD_T_PERMS", "T_PERMS"),
            Cipher("ENCRYPT", "SRC", "DST"), LoadSeedCall, Cipher("DECRYPT", "DST", "OUT") >>

Finished == stage = Len(Calls) + 1

-----------------------------------------------------------------------------
(* The cache (external)                                                    *)

Line(r) == IF layout.together THEN Outputs ELSE {r}

\* The lines of a set of arrays are written back where they are dirty, and dropped.
WriteBack(lines) ==
  mem' = [r \in Regions |-> IF r \in lines \intersect dirty THEN cache[r] ELSE mem[r]]

Drop(lines) ==
  /\ cache' = [r \in Outputs |-> IF r \in lines THEN Absent ELSE cache[r]]
  /\ dirty' = dirty \ lines

Evict(r) ==
  /\ cache[r] # Absent
  /\ WriteBack(Line(r))
  /\ Drop(Line(r))
  /\ spoilt' = spoilt \union {q \in Line(r) : mem'[q] # mem[q]}
  /\ UNCHANGED <<busVars, kernelVars, appVars, layout>>

\* The processor may fetch a line at any time, without being told to.
Fetch(r) ==
  /\ program = "firmware"
  /\ cache[r] = Absent
  /\ cache' = [q \in Outputs |-> IF q \in Line(r) THEN mem[q] ELSE cache[q]]
  /\ UNCHANGED <<hwVars, appVars, layout, dirty, spoilt>>

\* What the processor sees.
Read(r) == IF r \in Outputs /\ cache[r] # Absent THEN cache[r] ELSE mem[r]

\* Faulty: nothing is invalidated.
InvalidateNothing == UNCHANGED <<mem, cache, dirty, spoilt>>

\* Xil_DCacheInvalidateRange(b_out, 400).  A line that the range covers in part is
\* written back first.
InvalidateRange ==
  LET first == Line("DST")
  IN  /\ WriteBack(IF layout.aligned THEN {} ELSE first)
      /\ Drop(first \union (IF layout.behind THEN {"OUT"} ELSE {}))
      /\ spoilt' = spoilt \union {q \in first : mem'[q] # mem[q]}

-----------------------------------------------------------------------------

\* The arrays of the firmware and of the bench are initialized; the regions of the app
\* are filled by CopyIn, but for the seed that NodeE-HLS wrote.
InitialMemory ==
  CASE program = "app" -> [ZeroMemory EXCEPT !["SEED"] = test_seed]
    [] program = "firmware" ->
         [ZeroMemory EXCEPT !["SRC"] = test_data, !["PERMS"] = firmware_perms,
                            !["T_PERMS"] = firmware_t_perms]
    [] program = "bench" ->
         [ZeroMemory EXCEPT !["SRC"] = test_data, !["PERMS"] = test_perms,
                            !["T_PERMS"] = test_t_perms, !["SEED"] = test_seed]

\* NodeE-HLS has been stopped while the kernel loaded its first seed.
SeedCallLeft ==
  /\ ap_start = TRUE
  /\ ap_done = FALSE
  /\ kernel \in {Idle, 0}
  /\ reg = [CipherRegisters EXCEPT !.control = "LD_SEED", !.size = 1, !.src = "SEED"]

\* The zeros that the start-up code of the firmware wrote to b_out and m_out may still be
\* in the cache.  The firmware is booted together with the device, and the bench runs the
\* kernel as a function of its own process: both find no call.
Init ==
  /\ program \in Programs
  /\ seed0 \in Seeds
  /\ HwInit(seed0)
  /\ \/ NoCall
     \/ program = "app" /\ SeedCallLeft
  /\ test_data \in IF program = "bench" THEN {bench_data} ELSE Data
  /\ mem = InitialMemory
  /\ stage = IF program = "bench" THEN 1 ELSE 0
  /\ phase = "start"
  /\ cipher = None
  /\ result = None
  /\ restarted = FALSE
  /\ overlapped = FALSE
  /\ layout \in IF program = "firmware" THEN Layouts
                ELSE [together : {FALSE}, aligned : {TRUE}, behind : {FALSE}]
  /\ dirty \in IF program = "firmware" THEN {s \in SUBSET Outputs : \A r \in s : Line(r) \subseteq s}
               ELSE {{}}
  /\ cache = [r \in Outputs |-> IF r \in dirty THEN ZeroArea ELSE Absent]
  /\ spoilt = {}
  /\ stale = {}

\* A call left behind that the app has not waited for.
GoAhead == overlapped' = (overlapped \/ ap_start)

\* The copies of the app before its first call.  "while(!qpp_ready);" tests the address
\* of a function, and does not wait.
CopyIn ==
  /\ program = "app"
  /\ stage = 0
  /\ mem' = [mem EXCEPT !["PERMS"] = test_perms, !["SRC"] = test_data]
  /\ stage' = 1
  /\ seed0' = seed
  /\ GoAhead
  /\ UNCHANGED <<busVars, kernelVars, program, test_data, phase, cipher, result>>
  /\ UNCHANGED <<restarted, stale>>
  /\ UNCHANGED cacheVars

\* The firmware prints its text, and waits until it can start the kernel.
AwaitReady ==
  /\ program = "firmware"
  /\ stage = 0
  /\ qpp_ready
  /\ stage' = 1
  /\ UNCHANGED <<ap_start, reg, mem, kernelVars>>
  /\ UNCHANGED <<program, seed0, test_data, phase, cipher, result, restarted, overlapped, stale>>
  /\ UNCHANGED cacheVars

\* Faulty: nothing waits for the call.
StartWithoutWaiting ==
  /\ phase = "start"
  /\ stage \in DOMAIN Calls
  /\ Start(Calls[stage])
  /\ stage' = stage + 1
  /\ GoAhead
  /\ UNCHANGED <<mem, kernelVars, program, seed0, test_data, phase, cipher, result>>
  /\ UNCHANGED <<restarted, stale>>
  /\ UNCHANGED cacheVars

StartCall ==
  /\ phase = "start"
  /\ stage \in DOMAIN Calls
  /\ Start(Calls[stage])
  /\ phase' = "done"
  /\ GoAhead
  /\ UNCHANGED <<mem, kernelVars, program, seed0, test_data, stage, cipher, result>>
  /\ UNCHANGED <<restarted, stale>>
  /\ UNCHANGED cacheVars

AwaitDone ==
  /\ program # "bench"
  /\ phase = "done"
  /\ qpp_done
  /\ phase' = "drain"
  /\ UNCHANGED <<ap_start, reg, mem, kernelVars>>
  /\ UNCHANGED <<program, seed0, test_data, stage, cipher, result, restarted, overlapped, stale>>
  /\ UNCHANGED cacheVars

\* What follows a call.  After the encryption the app overwrites its tables and the
\* firmware invalidates a part of the cache; the bench looks at the ciphertext.
Continue ==
  LET encrypted == Calls[stage].control = "ENCRYPT"
  IN  /\ stage' = stage + 1
      /\ phase' = "start"
      /\ cipher' = IF encrypted THEN mem["DST"] ELSE cipher
      /\ stale' = {r \in Outputs : Read(r) # mem[r]}
      /\ \/ /\ encrypted /\ program = "app"
            /\ mem' = [mem EXCEPT !["PERMS"] = test_t_perms]
            /\ UNCHANGED <<cache, dirty, spoilt>>
         \/ /\ encrypted /\ program = "firmware"
            /\ InvalidateRange
         \/ /\ ~encrypted \/ program = "bench"
            /\ UNCHANGED <<mem, cache, dirty, spoilt>>
      /\ UNCHANGED <<program, seed0, test_data, result, restarted, overlapped, layout>>

AwaitDrain ==
  /\ phase = "drain"
  /\ qpp_ready
  /\ Continue
  /\ UNCHANGED <<ap_start, reg, kernelVars>>

\* qpp(...) returns to the bench.
Returned ==
  /\ program = "bench"
  /\ phase = "done"
  /\ ~ap_start
  /\ Continue
  /\ UNCHANGED <<busVars, kernelVars>>

\* The app prints SRC, the firmware b_out and m_out; the bench checks the text.
PrintResult ==
  /\ Finished
  /\ result = None
  /\ result' = [cipher |-> Read("DST"), text |-> Read(IF program = "app" THEN "SRC" ELSE "OUT")]
  /\ UNCHANGED <<hwVars, program, seed0, test_data, stage, phase, cipher, restarted>>
  /\ UNCHANGED <<overlapped, stale>>
  /\ UNCHANGED cacheVars

\* The app is stopped, by a signal or by its user, wherever it is, and started again.  The
\* kernel goes on with its call, and keeps its tables and the shift register.
Stop ==
  /\ program = "app"
  /\ ~restarted
  /\ stage # 0
  /\ result = None
  /\ restarted' = TRUE
  /\ overlapped' = FALSE
  /\ stage' = 0
  /\ phase' = "start"
  /\ cipher' = None
  /\ stale' = {}
  /\ UNCHANGED <<hwVars, program, seed0, test_data, result>>
  /\ UNCHANGED cacheVars

Program ==
  CopyIn \/ AwaitReady \/ StartCall \/ AwaitDone \/ AwaitDrain \/ Returned \/ PrintResult

KernelRuns == Kernel /\ UNCHANGED appVars /\ UNCHANGED cacheVars

Next ==
  \/ Program
  \/ KernelRuns
  \/ Stop
  \/ \E r \in Outputs : Evict(r) \/ Fetch(r)

Spec == Init /\ [][Next]_vars /\ WF_vars(Program) /\ WF_vars(KernelRuns)

-----------------------------------------------------------------------------
(* Properties                                                              *)

TypeOK ==
  /\ HwTypeOK
  /\ program \in Programs
  /\ stage \in 0..7
  /\ phase \in {"start", "done", "drain"}
  /\ cipher \in Area \union {None}
  /\ result \in [cipher : Area, text : Area] \union {None}
  /\ restarted \in BOOLEAN
  /\ overlapped \in BOOLEAN
  /\ layout \in Layouts
  /\ cache \in [Outputs -> Area \union {Absent}]
  /\ dirty \subseteq {r \in Outputs : cache[r] # Absent}
  /\ spoilt \subseteq Outputs
  /\ stale \subseteq Outputs

\* The app and the firmware print the text that was encrypted, if the shift register held
\* 0, as after the configuration of the device: 0 is its own successor, so that both
\* directions use one mask although no seed is loaded between them.  The app does so
\* unless it went ahead while a call left behind was running: the register may then change
\* under it, and its tables not be loaded.  The firmware does so unless a write-back
\* destroyed what the kernel had written, or m_out, which it does not invalidate, was out
\* of date in the cache when the decryption was over.
PrintsPlainText ==
  /\ result # None
  /\ program # "bench" /\ seed0 = ZeroBlock
  /\ ~overlapped
  /\ spoilt = {} /\ "OUT" \notin stale
  => result.text = test_data

\* The firmware prints the ciphertext that the kernel wrote, whatever the cache fetched
\* of b_out before and after the invalidation, unless a write-back destroyed it.
PrintsCiphertext ==
  program = "firmware" /\ result # None /\ "DST" \notin spoilt => result.cipher = cipher

\* Both checks of the bench succeed, with whatever the shift register held before.
BenchPasses ==
  program = "bench" /\ result # None => cipher = test_result /\ result.text = bench_data

\* While a call is in progress the program neither goes on, nor starts another call, nor
\* overwrites its tables.  Only an app that finds a call left behind may do so, until it
\* has started its first call: "while(!qpp_ready);" does not wait for that call.  Every
\* later call has the kernel to itself.
CommandsDoNotOverlap ==
  [][ap_start \/ kernel # Idle =>
       \/ Stop
       \/ program = "app" /\ phase = "start" /\ stage < 2
       \/ UNCHANGED <<stage, phase, reg, mem["PERMS"]>>]_vars

\* Each program ends: neither an ap_done left by another program nor a call left behind
\* keeps it waiting, and the ap_done of its own call is not cleared before it is seen.
Terminates == <>(result # None)

=============================================================================
