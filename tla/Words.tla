-------------------------------- MODULE Words --------------------------------
(***************************************************************************)
(* The n-bit words both ciphers work on, n = 2 in Constants.h and          *)
(* qpp_hls.h, and the permutations of them ("matrices") that are the key.  *)
(***************************************************************************)
EXTENDS Naturals

n == 2
mat_size == 4                \* dim in the kernel: 1 << n
Word == 0..(mat_size - 1)
Matrix == [Word -> Word]

\* a ^ b, bit by bit
Xor(a, b) == (((a % 2) + (b % 2)) % 2) + 2 * (((a \div 2) + (b \div 2)) % 2)

IsPermutation(f) ==
  /\ f \in Matrix
  /\ \A v, w \in Word : f[v] = f[w] => v = w

IsInverseOf(g, f) ==
  /\ f \in Matrix
  /\ g \in Matrix
  /\ \A w \in Word : g[f[w]] = w

\* The body of the inner loop of generateMatrix.
Swap(f, i, j) == [f EXCEPT ![i] = f[j], ![j] = f[i]]

\* The inner loop: pick[i] is the value of random() % (i + 1) for i = 3, 2, 1.
Picks == {pick \in [1..(mat_size - 1) -> Word] : \A i \in 1..(mat_size - 1) : pick[i] <= i}
Shuffle(f, pick) == Swap(Swap(Swap(f, 3, pick[3]), 2, pick[2]), 1, pick[1])

\* The matrix the shuffles start with; each goes on from the one before.
Reference == [w \in Word |-> w]

\* temp[pmat_list[i][row]] = row, for every row
InvMatrix(f) == [col \in Word |-> CHOOSE row \in Word : f[row] = col]

=============================================================================
