------------------------------ MODULE QPPProofs ------------------------------
(***************************************************************************)
(* Proofs about the software cipher QPP, for every number of matrices,     *)
(* every size of the buffers and every text.                               *)
(***************************************************************************)
EXTENDS QPP, WordsProofs, WellFoundedInduction, NaturalsInduction

-----------------------------------------------------------------------------
(* The key                                                                 *)

\* Every matrix drawn is a permutation: if there were one that is not, the first such
\* matrix would be a shuffle of a permutation.
LEMMA MatricesPermute ==
  ASSUME NEW matrices \in generateMatrix
  PROVE  \A k \in 0..(M - 1) : IsPermutation(matrices[k])
<1> DEFINE Bad == {k \in 0..(M - 1) : ~IsPermutation(matrices[k])}
           Less == OpToRel(<, Nat)
<1>1. SUFFICES ASSUME Bad # {}
               PROVE  FALSE
  OBVIOUS
<1>2. IsWellFoundedOn(Less, Nat)
  BY NatLessThanWellFounded
<1>3. Bad \subseteq Nat
  BY SizeAssumption
<1>4. PICK k \in Bad : \A l \in Bad : ~(<<l, k>> \in Less)
  <2> HIDE DEF Bad, Less
  <2> QED
    BY <1>1, <1>2, <1>3, WFMin
<1>5. \A l \in Bad : ~(l < k)
  BY <1>3, <1>4 DEF OpToRel
<1>6. k \in 0..(M - 1) /\ ~IsPermutation(matrices[k])
  OBVIOUS
<1>7. PICK pick \in Draws :
        matrices[k] = Shuffle(IF k = 0 THEN Reference ELSE matrices[k - 1], pick)
  BY <1>6 DEF generateMatrix
<1>8. pick \in Picks
  BY <1>7, InputAssumption
<1>9. CASE k = 0
  BY <1>6, <1>7, <1>8, <1>9, ReferencePermutes, ShufflePermutes
<1>10. CASE k # 0
  <2>1. k - 1 \in 0..(M - 1) /\ k - 1 < k
    BY <1>6, <1>10, SizeAssumption
  <2>2. IsPermutation(matrices[k - 1])
    BY <1>5, <2>1
  <2> QED
    BY <1>6, <1>7, <1>8, <1>10, <2>2, ShufflePermutes
<1> QED
  BY <1>9, <1>10

-----------------------------------------------------------------------------
(* The inductive invariant                                                 *)

\* The word at place w of a ciphertext of a text whose word at w is "word".
CipherWord(word, w) == pmat_list[DispatchIndex(w)][Xor(word, seed[w])]

\* As far as its text reaches, each ciphertext is made of its text, word by word, by
\* the key of the object, which never changes.
MadeByKey ==
  \A c \in made : \A w \in 0..(Len(c.text) - 1) :
    c.cipher[w] = CipherWord(c.text[w + 1], w)

IInv == TypeOK /\ MatricesInvert /\ MadeByKey /\ RoundTrip

LEMMA DispatchInRange ==
  ASSUME TypeOK, NEW w \in Places
  PROVE  DispatchIndex(w) \in 0..(M - 1)
<1>1. w % block_size \in 0..(block_size - 1)
  BY SizeAssumption DEF Places, Size
<1> QED
  BY <1>1 DEF TypeOK, DispatchIndex

LEMMA InitInv == Init => IInv
<1> SUFFICES ASSUME Init
             PROVE  IInv
  OBVIOUS
<1>1. \A k \in 0..(M - 1) : IsPermutation(pmat_list[k])
  BY MatricesPermute DEF Init
<1>2. \A k \in 0..(M - 1) : inv_pmat_list[k] = InvMatrix(pmat_list[k])
  BY DEF Init, generateInvMatrix
<1>3. MatricesInvert
  BY <1>1, <1>2, InvMatrixInverts DEF MatricesInvert
<1>4. inv_pmat_list \in [0..(M - 1) -> Matrix]
  <2>1. \A k \in 0..(M - 1) : InvMatrix(pmat_list[k]) \in Matrix
    BY <1>1, InvMatrixInverts
  <2> QED
    BY <2>1 DEF Init, generateInvMatrix
<1>5. pmat_list \in [0..(M - 1) -> Matrix]
  BY DEF Init, generateMatrix
<1>6. 0 \in Word /\ 0 \in 0..Size /\ 0 \in 0..MaxCalls
  BY WordIs, SizeAssumption DEF Size
<1>7. TypeOK
  BY <1>4, <1>5, <1>6, InputAssumption DEF Init, TypeOK, Buffer
<1> QED
  BY <1>3, <1>7 DEF IInv, Init, MadeByKey, RoundTrip

\* What one call of encrypt puts in the two buffers.
LEMMA EncryptWords ==
  ASSUME IInv, NEW text \in Texts, Encrypt(text)
  PROVE  /\ bit_rep_plain_text' \in Buffer
         /\ bit_rep_cipher_text' \in Buffer
         /\ \A w \in 0..(Len(text) - 1) :
              bit_rep_cipher_text'[w] = CipherWord(text[w + 1], w)
<1>1. text \in Seq(Word) /\ Len(text) \in Nat /\ Len(text) <= Size
  BY InputAssumption
<1>2. Overwrite(bit_rep_plain_text, text) \in Buffer
  <2>1. ASSUME NEW w \in Places
        PROVE  Overwrite(bit_rep_plain_text, text)[w] \in Word
    <3>1. w \in Nat
      BY DEF Places
    <3>2. w < Len(text) => text[w + 1] \in Word
      BY <1>1, <3>1
    <3>3. bit_rep_plain_text[w] \in Word
      BY DEF IInv, TypeOK, Buffer
    <3> QED
      BY <3>2, <3>3 DEF Overwrite
  <2> QED
    BY <2>1 DEF Overwrite, Buffer
<1>3. bit_rep_plain_text' = XorBuffer(Overwrite(bit_rep_plain_text, text), seed)
      /\ bit_rep_cipher_text' = Permuted(bit_rep_plain_text')
  BY DEF Encrypt
<1>4. bit_rep_plain_text' \in Buffer
  <2>1. ASSUME NEW a \in Buffer, NEW b \in Buffer
        PROVE  XorBuffer(a, b) \in Buffer
    BY XorWord DEF XorBuffer, Buffer
  <2> QED
    BY <1>2, <1>3, <2>1 DEF IInv, TypeOK
<1>5. ASSUME NEW w \in Places
      PROVE  bit_rep_cipher_text'[w] \in Word
  <2>1. pmat_list[DispatchIndex(w)] \in Matrix
    BY DispatchInRange DEF IInv, TypeOK
  <2>2. bit_rep_plain_text'[w] \in Word
    BY <1>4 DEF Buffer
  <2> QED
    BY <1>3, <2>1, <2>2 DEF Permuted, Matrix
<1>6. bit_rep_cipher_text' \in Buffer
  BY <1>3, <1>5 DEF Permuted, Buffer
<1>7. ASSUME NEW w \in 0..(Len(text) - 1)
      PROVE  bit_rep_cipher_text'[w] = CipherWord(text[w + 1], w)
  <2>1. w \in Places /\ w < Len(text)
    BY <1>1, SizeAssumption DEF Places, Size
  <2>2. bit_rep_plain_text'[w] = Xor(text[w + 1], seed[w])
    BY <1>3, <2>1 DEF XorBuffer, Overwrite
  <2> QED
    BY <1>3, <2>1, <2>2 DEF Permuted, CipherWord
<1> QED
  BY <1>4, <1>6, <1>7

\* What one call of decrypt returns for a ciphertext made by this object.
LEMMA DecryptWords ==
  ASSUME IInv, NEW c \in made, Decrypt(c)
  PROVE  /\ bit_rep_plain_text' \in Buffer
         /\ answer'.text = c.text
<1>1. /\ c.text \in Seq(Word) /\ Len(c.text) \in Nat /\ Len(c.text) <= Size
      /\ c.cipher \in Buffer
  BY DEF IInv, TypeOK
<1>2. /\ bit_rep_plain_text' = XorBuffer(Restored(c.cipher), seed)
      /\ answer'.text = Prefix(bit_rep_plain_text', Len(c.text))
  BY DEF Decrypt
<1>3. ASSUME NEW w \in Places
      PROVE  Restored(c.cipher)[w] \in Word
  <2>1. inv_pmat_list[DispatchIndex(w)] \in Matrix
    BY DispatchInRange DEF IInv, TypeOK
  <2> QED
    BY <1>1, <2>1 DEF Restored, Matrix, Buffer
<1>4. bit_rep_plain_text' \in Buffer
  BY <1>2, <1>3, XorWord DEF XorBuffer, Buffer, IInv, TypeOK
<1>5. ASSUME NEW i \in 1..Len(c.text)
      PROVE  bit_rep_plain_text'[i - 1] = c.text[i]
  <2> DEFINE w == i - 1
             k == DispatchIndex(w)
  <2>1. w \in Places /\ w \in 0..(Len(c.text) - 1) /\ w + 1 = i
    BY <1>1, SizeAssumption DEF Places, Size
  <2>2. c.text[i] \in Word /\ seed[w] \in Word
    BY <1>1, <2>1 DEF IInv, TypeOK, Buffer
  <2>3. k \in 0..(M - 1)
    BY <2>1, DispatchInRange DEF IInv
  <2>4. c.cipher[w] = pmat_list[k][Xor(c.text[i], seed[w])]
    BY <2>1 DEF IInv, MadeByKey, CipherWord
  <2>5. Xor(c.text[i], seed[w]) \in Word
    BY <2>2, XorWord
  <2>6. inv_pmat_list[k][c.cipher[w]] = Xor(c.text[i], seed[w])
    BY <2>3, <2>4, <2>5 DEF IInv, MatricesInvert, IsInverseOf
  <2>7. bit_rep_plain_text'[w] = Xor(Xor(c.text[i], seed[w]), seed[w])
    BY <1>2, <2>1, <2>6 DEF XorBuffer, Restored
  <2> QED
    BY <2>2, <2>7, XorWord
<1>6. answer'.text = c.text
  <2>1. answer'.text = [i \in 1..Len(c.text) |-> bit_rep_plain_text'[i - 1]]
    BY <1>2 DEF Prefix
  <2>2. c.text = [i \in 1..Len(c.text) |-> c.text[i]]
    BY <1>1
  <2>3. [i \in 1..Len(c.text) |-> bit_rep_plain_text'[i - 1]] =
        [i \in 1..Len(c.text) |-> c.text[i]]
    BY <1>5, Zenon
  <2> QED
    BY <2>1, <2>2, <2>3
<1> QED
  BY <1>4, <1>6

LEMMA StepInv == IInv /\ [Next]_vars => IInv'
<1> SUFFICES ASSUME IInv, [Next]_vars
             PROVE  IInv'
  OBVIOUS
<1>1. ASSUME NEW text \in Texts, Encrypt(text)
      PROVE  IInv'
  <2> DEFINE new == [text |-> text, cipher |-> bit_rep_cipher_text']
  <2>1. /\ UNCHANGED keyVars
        /\ made' = made \union {new}
        /\ answer' = answer
        /\ calls' = calls + 1 /\ calls < MaxCalls
        /\ text_size' = Len(text)
    BY <1>1 DEF Encrypt
  <2>2. text \in Seq(Word) /\ Len(text) \in 0..Size
    BY InputAssumption, SizeAssumption DEF Size
  <2>3. TypeOK'
    <3>1. calls' \in 0..MaxCalls
      BY <2>1, SizeAssumption DEF IInv, TypeOK
    <3> QED
      BY <1>1, <2>1, <2>2, <3>1, EncryptWords DEF IInv, TypeOK, keyVars
  <2>4. MatricesInvert'
    BY <2>1 DEF IInv, MatricesInvert, keyVars
  <2>5. MadeByKey'
    BY <1>1, <2>1, EncryptWords DEF IInv, MadeByKey, CipherWord, DispatchIndex, keyVars
  <2>6. RoundTrip'
    BY <2>1 DEF IInv, RoundTrip
  <2> QED
    BY <2>3, <2>4, <2>5, <2>6 DEF IInv
<1>2. ASSUME NEW c \in made, Decrypt(c)
      PROVE  IInv'
  <2>1. /\ UNCHANGED <<keyVars, made>>
        /\ answer'.of = c
        /\ calls' = calls + 1 /\ calls < MaxCalls
        /\ text_size' = Len(c.text)
        /\ bit_rep_cipher_text' = c.cipher
    BY <1>2 DEF Decrypt
  <2>2. c.text \in Seq(Word) /\ Len(c.text) \in 0..Size /\ c.cipher \in Buffer
    BY SizeAssumption DEF IInv, TypeOK, Size
  <2>3. TypeOK'
    <3>1. calls' \in 0..MaxCalls
      BY <2>1, SizeAssumption DEF IInv, TypeOK
    <3> QED
      BY <1>2, <2>1, <2>2, <3>1, DecryptWords DEF IInv, TypeOK, keyVars
  <2>4. MatricesInvert'
    BY <2>1 DEF IInv, MatricesInvert, keyVars
  <2>5. MadeByKey'
    BY <2>1 DEF IInv, MadeByKey, CipherWord, DispatchIndex, keyVars
  <2>6. RoundTrip'
    BY <1>2, <2>1, DecryptWords DEF RoundTrip
  <2> QED
    BY <2>3, <2>4, <2>5, <2>6 DEF IInv
<1>3. CASE UNCHANGED vars
  BY <1>3 DEF vars, keyVars, IInv, TypeOK, MatricesInvert, MadeByKey, CipherWord,
              DispatchIndex, RoundTrip
<1> QED
  BY <1>1, <1>2, <1>3 DEF Next

LEMMA Invariance == Spec => []IInv
  BY InitInv, StepInv, PTL DEF Spec

-----------------------------------------------------------------------------
(* Theorems                                                                *)

\* The buffers keep their size, and every index into the matrices and into the
\* dispatch sequence is in range.
THEOREM TypeCorrectness == Spec => []TypeOK
<1>1. IInv => TypeOK
  BY DEF IInv
<1> QED
  BY <1>1, Invariance, PTL

\* For every draw of random(), the matrices of the key are permutations, and the
\* inverse matrices undo them.
THEOREM MatricesAlwaysInvert == Spec => []MatricesInvert
<1>1. IInv => MatricesInvert
  BY DEF IInv
<1> QED
  BY <1>1, Invariance, PTL

\* decrypt undoes encrypt: every ciphertext of this object is decrypted to its text,
\* whatever calls of either kind were made in between.
THEOREM DecryptUndoesEncrypt == Spec => []RoundTrip
<1>1. IInv => RoundTrip
  BY DEF IInv
<1> QED
  BY <1>1, Invariance, PTL

\* Under one key, texts of one length and their ciphertexts correspond one to one.
THEOREM CipherIsAlwaysFunction == Spec => []CipherIsFunction
<1>1. ASSUME IInv, NEW c1 \in made, NEW c2 \in made, Len(c1.text) = Len(c2.text)
      PROVE  c1.text = c2.text <=>
               Prefix(c1.cipher, Len(c1.text)) = Prefix(c2.cipher, Len(c2.text))
  <2> DEFINE size == Len(c1.text)
  <2>1. /\ c1.text \in Seq(Word) /\ c2.text \in Seq(Word)
        /\ size \in Nat /\ size <= Size
    BY <1>1 DEF IInv, TypeOK
  <2>2. ASSUME NEW i \in 1..size
        PROVE  c1.text[i] = c2.text[i] <=> c1.cipher[i - 1] = c2.cipher[i - 1]
    <3> DEFINE w == i - 1
               k == DispatchIndex(w)
    <3>1. w \in Places /\ w \in 0..(size - 1) /\ w + 1 = i
      BY <2>1, SizeAssumption DEF Places, Size
    <3>2. c1.text[i] \in Word /\ c2.text[i] \in Word /\ seed[w] \in Word
      BY <1>1, <2>1, <3>1 DEF IInv, TypeOK, Buffer
    <3>3. k \in 0..(M - 1)
      BY <1>1, <3>1, DispatchInRange DEF IInv
    <3>4. /\ c1.cipher[w] = pmat_list[k][Xor(c1.text[i], seed[w])]
          /\ c2.cipher[w] = pmat_list[k][Xor(c2.text[i], seed[w])]
      BY <1>1, <3>1 DEF IInv, MadeByKey, CipherWord
    <3>5. Xor(c1.text[i], seed[w]) \in Word /\ Xor(c2.text[i], seed[w]) \in Word
      BY <3>2, XorWord
    <3>6. c1.cipher[w] = c2.cipher[w] => Xor(c1.text[i], seed[w]) = Xor(c2.text[i], seed[w])
      BY <1>1, <3>3, <3>4, <3>5 DEF IInv, MatricesInvert, IsPermutation
    <3>7. /\ Xor(Xor(c1.text[i], seed[w]), seed[w]) = c1.text[i]
          /\ Xor(Xor(c2.text[i], seed[w]), seed[w]) = c2.text[i]
      BY <3>2, XorWord
    <3>8. c1.text[i] = c2.text[i] => c1.cipher[w] = c2.cipher[w]
      BY <3>4
    <3>9. c1.cipher[w] = c2.cipher[w] => c1.text[i] = c2.text[i]
      BY <3>6, <3>7
    <3> QED
      BY <3>8, <3>9
  <2>3. c1.text = c2.text <=> \A i \in 1..size : c1.text[i] = c2.text[i]
    BY <1>1, <2>1
  <2>4. Prefix(c1.cipher, size) = Prefix(c2.cipher, size)
          <=> \A i \in 1..size : c1.cipher[i - 1] = c2.cipher[i - 1]
    <3>1. ASSUME Prefix(c1.cipher, size) = Prefix(c2.cipher, size), NEW i \in 1..size
          PROVE  c1.cipher[i - 1] = c2.cipher[i - 1]
      <4>1. /\ Prefix(c1.cipher, size)[i] = c1.cipher[i - 1]
            /\ Prefix(c2.cipher, size)[i] = c2.cipher[i - 1]
        BY DEF Prefix
      <4> QED
        BY <3>1, <4>1
    <3>2. ASSUME \A i \in 1..size : c1.cipher[i - 1] = c2.cipher[i - 1]
          PROVE  Prefix(c1.cipher, size) = Prefix(c2.cipher, size)
      BY <3>2, Zenon DEF Prefix
    <3> QED
      BY <3>1, <3>2
  <2> QED
    BY <1>1, <2>2, <2>3, <2>4
<1>2. IInv => CipherIsFunction
  BY <1>1 DEF CipherIsFunction
<1> QED
  BY <1>2, Invariance, PTL

=============================================================================
