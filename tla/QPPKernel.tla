------------------------------ MODULE QPPKernel ------------------------------
(***************************************************************************)
(* The functions of the FPGA kernel, HLS/qpp_2_5/qpp_hls.cpp: a block is a *)
(* row of n-bit words, lane 0 the most significant; each word of a text is *)
(* masked with a word of the pseudo-random block and permuted by the       *)
(* matrix that the same word selects.                                      *)
(***************************************************************************)
EXTENDS Words, FiniteSets

M == 5
BUS_WIDTH == 32

\* Faulty: one bit is left out.
MistakenTaps == {0, 10, 31}

\* The bits of the shift register that are fed back.
Taps == {0, 10, 30, 31}

Lanes == 0..(BUS_WIDTH \div n - 1)
Block == [Lanes -> Word]
ZeroBlock == [j \in Lanes |-> 0]
Tables == [0..(M - 1) -> Matrix]

\* Bit i of a block, bit 0 the least significant.
Bit(b, i) ==
  LET word == b[((BUS_WIDTH - 1) - i) \div n]
  IN  IF i % n = 0 THEN word % 2 ELSE word \div 2

\* The shift register: the register moves right, the feedback enters on the left.
prng(seed) ==
  LET feedback == Cardinality({i \in Taps : Bit(seed, i) = 1}) % 2
      shifted(i) == IF i = BUS_WIDTH - 1 THEN feedback ELSE Bit(seed, i + 1)
      low(j) == (BUS_WIDTH - n) - (n * j)
  IN  [j \in Lanes |-> 2 * shifted(low(j) + 1) + shifted(low(j))]

\* Faulty: the mask is added.
UnmaskBySum(t_perms, word, x) == t_perms[x % M][word] + x

encrypt_word(perms, word, x) == perms[x % M][Xor(word, x)]
decrypt_word(t_perms, word, x) == Xor(t_perms[x % M][word], x)

\* One turn of the loops of encrypt_block and decrypt_block; rn = prng().
EncryptBlock(perms, block, rn) ==
  [j \in Lanes |-> encrypt_word(perms, block[j], rn[j])]
DecryptBlock(t_perms, block, rn) ==
  [j \in Lanes |-> decrypt_word(t_perms, block[j], rn[j])]

\* load_perms and load_t_perms: the words of b_in, in order, are the elements of
\* the matrices, in order.  "size" is not used.
LoadTables(b_in) ==
  LET perBlock == BUS_WIDTH \div n
      element(i, j) == (mat_size * i) + j
  IN  [i \in 0..(M - 1) |->
        [j \in Word |-> b_in[element(i, j) \div perBlock][element(i, j) % perBlock]]]

=============================================================================
