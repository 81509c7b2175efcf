----------------------------- MODULE QPPHardware -----------------------------
(***************************************************************************)
(* The kernel as a device: the control interface that Vivado HLS gives to  *)
(* a function with s_axilite ports, the memory regions it shares with the  *)
(* processor, the tables and the shift register it keeps from one call to  *)
(* the next, and the call itself, block by block.  A program on the        *)
(* processor drives it through the register helpers below, while it runs.  *)
(***************************************************************************)
EXTENDS QPPKernel, Sequences

CONSTANTS Blocks     \* blocks of a text: block_size / 4

ASSUME BlocksAssumption == Blocks \in Nat \ {0}

\* The commands, and the places in memory that a program gives the kernel: the four
\* regions that Linux reserves, and for programs that use arrays of their own one for the
\* inverse tables and one for the decrypted text.
Commands == {"LD_PERMS", "LD_T_PERMS", "LD_SEED", "ENCRYPT", "DECRYPT"}
Regions == {"SRC", "DST", "SEED", "PERMS", "T_PERMS", "OUT"}

\* The blocks of a region that any program touches: a text, or two blocks of tables.
Addresses == 0..(IF Blocks > 2 THEN Blocks - 1 ELSE 1)
Area == [Addresses -> Block]
ZeroArea == [a \in Addresses |-> ZeroBlock]
ZeroMemory == [r \in Regions |-> ZeroArea]

Idle == Blocks + 1

VARIABLES
  ap_start,  \* bit 0 of CTRL_REG
  ap_done,   \* bit 1 of CTRL_REG
  reg,       \* CONTROL_REG, SIZE_REG, SRC_REG and DST_REG
  mem,       \* the regions
  kernel,    \* the number of blocks the running call has done, or Idle
  perms,     \* the static variables of qpp_hls.cpp
  t_perms,
  seed

busVars == <<ap_start, ap_done, reg>>
kernelVars == <<kernel, perms, t_perms, seed>>
hwVars == <<busVars, mem, kernelVars>>

Registers == [control : Commands, size : Nat, src : Regions, dst : Regions]

HwTypeOK ==
  /\ ap_start \in BOOLEAN
  /\ ap_done \in BOOLEAN
  /\ reg \in Registers
  /\ mem \in [Regions -> Area]
  /\ kernel \in 0..Blocks \union {Idle}
  /\ perms \in Tables
  /\ t_perms \in Tables
  /\ seed \in Block

ZeroTables == [i \in 0..(M - 1) |-> [w \in Word |-> 0]]

\* The registers as encrypt sets them.
CipherRegisters == [control |-> "ENCRYPT", size |-> Blocks, src |-> "SRC", dst |-> "DST"]

\* A program starts after the configuration of the device, with s0 = 0, or after another
\* program, which left s0 in the shift register and may have ended without reading the
\* ap_done of its last call.
HwInit(s0) ==
  /\ ap_done \in BOOLEAN
  /\ perms = ZeroTables
  /\ t_perms = ZeroTables
  /\ seed = s0

\* No call is in progress, so that the registers mean nothing.
NoCall ==
  /\ ap_start = FALSE
  /\ kernel = Idle
  /\ reg = CipherRegisters

-----------------------------------------------------------------------------
(* The control interface (external), and the helpers that use it           *)

\* Reading CTRL_REG clears ap_done.
ReadCtrl == ap_done' = FALSE

\* qpp_ready and qpp_done.  Either one reads the whole register.
qpp_done == ap_done /\ ReadCtrl
qpp_ready == ~ap_start /\ ReadCtrl

\* qpp_set_control, qpp_set_size, qpp_set_src, qpp_set_dst, qpp_start.  A call in progress
\* has taken over its arguments, and with its return ap_start is cleared: what is set and
\* started meanwhile is lost, and reg stays what it is for that call.
Start(registers) ==
  /\ reg' = IF kernel = Idle THEN registers ELSE reg
  /\ ap_start' = TRUE
  /\ ReadCtrl

-----------------------------------------------------------------------------
(* The call: qpp(b_in, b_out, size, control)                               *)

KernelBegin ==
  /\ ap_start
  /\ kernel = Idle
  /\ kernel' = 0
  /\ UNCHANGED <<busVars, mem, perms, t_perms, seed>>

\* The call returns: the interface takes back ap_start and raises ap_done.
Return ==
  /\ kernel' = Idle
  /\ ap_start' = FALSE
  /\ ap_done' = TRUE
  /\ UNCHANGED reg

LoadPerms ==
  /\ kernel = 0
  /\ reg.control = "LD_PERMS"
  /\ perms' = LoadTables(mem[reg.src])
  /\ Return
  /\ UNCHANGED <<mem, t_perms, seed>>

LoadTPerms ==
  /\ kernel = 0
  /\ reg.control = "LD_T_PERMS"
  /\ t_perms' = LoadTables(mem[reg.src])
  /\ Return
  /\ UNCHANGED <<mem, perms, seed>>

LoadSeed ==
  /\ kernel = 0
  /\ reg.control = "LD_SEED"
  /\ seed' = mem[reg.src][0]
  /\ Return
  /\ UNCHANGED <<mem, perms, t_perms>>

\* One turn of the loop of encrypt_block or of decrypt_block.
CipherBlock ==
  /\ reg.control \in {"ENCRYPT", "DECRYPT"}
  /\ kernel < reg.size
  /\ seed' = prng(seed)
  /\ mem' = [mem EXCEPT ![reg.dst][kernel] =
               IF reg.control = "ENCRYPT"
               THEN EncryptBlock(perms, mem[reg.src][kernel], seed')
               ELSE DecryptBlock(t_perms, mem[reg.src][kernel], seed')]
  /\ kernel' = kernel + 1
  /\ UNCHANGED <<busVars, perms, t_perms>>

CipherReturn ==
  /\ reg.control \in {"ENCRYPT", "DECRYPT"}
  /\ kernel = reg.size
  /\ Return
  /\ UNCHANGED <<mem, perms, t_perms, seed>>

Kernel ==
  \/ KernelBegin \/ LoadPerms \/ LoadTPerms \/ LoadSeed
  \/ CipherBlock \/ CipherReturn

=============================================================================
