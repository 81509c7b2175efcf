----------------------------- MODULE WordsProofs -----------------------------
(***************************************************************************)
(* Facts about the words and the matrices that both ciphers rest on.       *)
(***************************************************************************)
EXTENDS Words, TLAPS

LEMMA WordIs == Word = {0, 1, 2, 3}
  BY DEF Word, mat_size

\* The exclusive or of two words is a word, and a mask applied twice is no mask.
LEMMA XorWord ==
  ASSUME NEW a \in Word, NEW b \in Word
  PROVE  /\ Xor(a, b) \in Word
         /\ Xor(Xor(a, b), b) = a
<1>1. a \in {0, 1, 2, 3} /\ b \in {0, 1, 2, 3}
  BY WordIs
<1> QED
  BY <1>1, WordIs DEF Xor

\* Exchanging two elements of a permutation gives a permutation.
LEMMA SwapPermutes ==
  ASSUME NEW f, IsPermutation(f), NEW i \in Word, NEW j \in Word
  PROVE  IsPermutation(Swap(f, i, j))
  BY DEF IsPermutation, Matrix, Swap

\* One run of the inner loop of generateMatrix keeps a permutation a permutation.
LEMMA ShufflePermutes ==
  ASSUME NEW f, IsPermutation(f), NEW pick \in Picks
  PROVE  IsPermutation(Shuffle(f, pick))
<1>1. /\ {1, 2, 3} \subseteq Word
      /\ pick[1] \in Word /\ pick[2] \in Word /\ pick[3] \in Word
  BY WordIs DEF Picks, mat_size
<1> DEFINE g == Swap(f, 3, pick[3])
           h == Swap(g, 2, pick[2])
<1>2. IsPermutation(g)
  BY <1>1, SwapPermutes
<1>3. IsPermutation(h)
  <2> HIDE DEF g
  <2> QED
    BY <1>1, <1>2, SwapPermutes
<1>4. IsPermutation(Swap(h, 1, pick[1]))
  <2> HIDE DEF h
  <2> QED
    BY <1>1, <1>3, SwapPermutes
<1> QED
  BY <1>4 DEF Shuffle

LEMMA ReferencePermutes == IsPermutation(Reference)
  BY DEF IsPermutation, Matrix, Reference

\* A permutation of the four words takes every word as a value.
LEMMA PermutationIsOnto ==
  ASSUME NEW f, IsPermutation(f), NEW col \in Word
  PROVE  \E row \in Word : f[row] = col
<1>1. /\ f[0] \in {0, 1, 2, 3} /\ f[1] \in {0, 1, 2, 3}
      /\ f[2] \in {0, 1, 2, 3} /\ f[3] \in {0, 1, 2, 3}
      /\ f[0] # f[1] /\ f[0] # f[2] /\ f[0] # f[3]
      /\ f[1] # f[2] /\ f[1] # f[3] /\ f[2] # f[3]
  BY WordIs DEF IsPermutation, Matrix
<1>2. col \in {0, 1, 2, 3}
  BY WordIs
<1>3. col = f[0] \/ col = f[1] \/ col = f[2] \/ col = f[3]
  BY <1>1, <1>2
<1> QED
  BY <1>3, WordIs

\* What generateInvMatrix computes undoes the matrix it is computed from, and is
\* undone by it.
LEMMA InvMatrixInverts ==
  ASSUME NEW f, IsPermutation(f)
  PROVE  /\ InvMatrix(f) \in Matrix
         /\ IsInverseOf(InvMatrix(f), f)
<1>1. ASSUME NEW col \in Word
      PROVE  /\ InvMatrix(f)[col] \in Word
             /\ f[InvMatrix(f)[col]] = col
  BY <1>1, PermutationIsOnto DEF InvMatrix
<1>2. InvMatrix(f) \in Matrix
  <2>1. InvMatrix(f) = [col \in Word |-> InvMatrix(f)[col]]
    BY DEF InvMatrix
  <2> QED
    BY <1>1, <2>1, Zenon DEF Matrix
<1>3. ASSUME NEW w \in Word
      PROVE  InvMatrix(f)[f[w]] = w
  <2>1. f[w] \in Word
    BY DEF IsPermutation, Matrix
  <2>2. f[InvMatrix(f)[f[w]]] = f[w] /\ InvMatrix(f)[f[w]] \in Word
    BY <1>1, <2>1
  <2> QED
    BY <2>2 DEF IsPermutation
<1> QED
  BY <1>2, <1>3 DEF IsInverseOf, IsPermutation

=============================================================================
