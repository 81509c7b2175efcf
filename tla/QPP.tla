--------------------------------- MODULE QPP ---------------------------------
(***************************************************************************)
(* The class QPP (Linux/NodeE-CPP/src/QPP.cpp), the cipher in software, as *)
(* the consumer thread of NodeE-CPP uses it: constructed by a handshake,   *)
(* then called with setPlainText and encrypt for ENCRYPT, setCipherText    *)
(* and decrypt for DECRYPT.  The two text buffers live as long as the      *)
(* object: what one call leaves in them, the next one finds.               *)
(*                                                                         *)
(* A byte is four words, so that a buffer of block_size bytes is a row of  *)
(* words, word 4i + j being bits 7 - 2j and 6 - 2j of byte i.              *)
(***************************************************************************)
EXTENDS Words, Sequences, FiniteSets

CONSTANTS
  M,           \* number of matrices (Constants.h: 5)
  block_size,  \* bytes of a buffer (Constants.h: 1024)
  Seeds,       \* payloads of SET_SEED, as rows of words
  Draws,       \* values of random() that one matrix is shuffled with
  Texts,       \* payloads of ENCRYPT, as sequences of words
  MaxCalls     \* bound: calls of encrypt and decrypt on one object

Size == 4 * block_size
Places == 0..(Size - 1)
Buffer == [Places -> Word]

ASSUME SizeAssumption ==
  /\ M \in Nat \ {0}
  /\ block_size \in Nat \ {0}
  /\ MaxCalls \in Nat

ASSUME InputAssumption ==
  /\ Seeds \subseteq Buffer
  /\ Draws \subseteq Picks
  /\ \A t \in Texts : t \in Seq(Word) /\ Len(t) <= Size

VARIABLES
  seed,               \* the members of the object
  pmat_list,
  inv_pmat_list,
  dispatch_sequence,
  bit_rep_plain_text,
  bit_rep_cipher_text,
  text_size,          \* in words here
  made,               \* history: every [text, cipher] that encrypt has returned
  answer,             \* the last ciphertext decrypted, and what decrypt returned
  calls               \* number of calls of encrypt and decrypt

keyVars == <<seed, pmat_list, inv_pmat_list, dispatch_sequence>>
vars == <<keyVars, bit_rep_plain_text, bit_rep_cipher_text, text_size, made, answer, calls>>

None == <<>>

\* Faulty: the last word of the sequence is not copied.
OverwriteShort(buffer, from) ==
  [w \in Places |-> IF w + 1 < Len(from) THEN from[w + 1] ELSE buffer[w]]

\* memcpy of the sequence "from" to the start of a buffer: the rest stays.
Overwrite(buffer, from) ==
  [w \in Places |-> IF w < Len(from) THEN from[w + 1] ELSE buffer[w]]

\* The first size words of a buffer, as the sequence that is sent.
Prefix(buffer, size) == [i \in 1..size |-> buffer[i - 1]]

XorBuffer(a, b) == [w \in Places |-> Xor(a[w], b[w])]

\* The matrix for word w of a buffer.
DispatchIndex(w) == dispatch_sequence[w % block_size]

\* The loop of encrypt, and the loop of decrypt, over all bytes and their words.  The
\* copy of the class in NodeE-HLS, which nothing calls, reduces the index of decrypt
\* modulo M: that is the faulty form.
Permuted(plain) == [w \in Places |-> pmat_list[DispatchIndex(w)][plain[w]]]
RestoredModM(cipher) == [w \in Places |-> inv_pmat_list[DispatchIndex(w % M)][cipher[w]]]
Restored(cipher) == [w \in Places |-> inv_pmat_list[DispatchIndex(w)][cipher[w]]]

-----------------------------------------------------------------------------

\* generateMatrix: each matrix is shuffled from the one before it.
generateMatrix ==
  {matrices \in [0..(M - 1) -> Matrix] :
     \A k \in 0..(M - 1) : \E pick \in Draws :
       matrices[k] = Shuffle(IF k = 0 THEN Reference ELSE matrices[k - 1], pick)}

\* Faulty: the last matrix is left out; the matrices are not inverted.
InvMatrixButLast(matrices) == [k \in 0..(M - 2) |-> InvMatrix(matrices[k])]
NotInverted(matrices) == matrices

generateInvMatrix(matrices) == [k \in 0..(M - 1) |-> InvMatrix(matrices[k])]

\* new QPP(in_seed).  The draws come from srand(seed[0]) and srand(seed[1]), which
\* are not modelled: any draw is possible.
Init ==
  /\ seed \in Seeds
  /\ pmat_list \in generateMatrix
  /\ inv_pmat_list = generateInvMatrix(pmat_list)
  /\ dispatch_sequence \in [0..(block_size - 1) -> 0..(M - 1)]
  /\ bit_rep_plain_text = [w \in Places |-> 0]
  /\ bit_rep_cipher_text = [w \in Places |-> 0]
  /\ text_size = 0
  /\ made = {}
  /\ answer = None
  /\ calls = 0

\* setPlainText(text, size) and encrypt(): the text is masked in place, and the whole
\* of the cipher buffer is returned.
Encrypt(text) ==
  /\ calls < MaxCalls
  /\ calls' = calls + 1
  /\ text_size' = Len(text)
  /\ bit_rep_plain_text' = XorBuffer(Overwrite(bit_rep_plain_text, text), seed)
  /\ bit_rep_cipher_text' = Permuted(bit_rep_plain_text')
  /\ made' = made \union {[text |-> text, cipher |-> bit_rep_cipher_text']}
  /\ UNCHANGED <<keyVars, answer>>

\* setCipherText(cipher, size) and decrypt() of a ciphertext returned before: the
\* first text_size words of the plain buffer are returned.
Decrypt(c) ==
  /\ calls < MaxCalls
  /\ calls' = calls + 1
  /\ text_size' = Len(c.text)
  /\ bit_rep_cipher_text' = c.cipher
  /\ bit_rep_plain_text' = XorBuffer(Restored(c.cipher), seed)
  /\ answer' = [of |-> c, text |-> Prefix(bit_rep_plain_text', text_size')]
  /\ UNCHANGED <<keyVars, made>>

Next ==
  \/ \E text \in Texts : Encrypt(text)
  \/ \E c \in made : Decrypt(c)

Spec == Init /\ [][Next]_vars

-----------------------------------------------------------------------------
(* Properties                                                              *)

TypeOK ==
  /\ seed \in Buffer
  /\ pmat_list \in [0..(M - 1) -> Matrix]
  /\ inv_pmat_list \in [0..(M - 1) -> Matrix]
  /\ dispatch_sequence \in [0..(block_size - 1) -> 0..(M - 1)]
  /\ bit_rep_plain_text \in Buffer
  /\ bit_rep_cipher_text \in Buffer
  /\ text_size \in 0..Size
  /\ \A c \in made : c.text \in Seq(Word) /\ Len(c.text) <= Size /\ c.cipher \in Buffer
  /\ calls \in 0..MaxCalls

\* generateMatrix yields permutations, whatever is drawn, and generateInvMatrix their
\* inverses.
MatricesInvert ==
  \A k \in 0..(M - 1) :
    /\ IsPermutation(pmat_list[k])
    /\ IsInverseOf(inv_pmat_list[k], pmat_list[k])

\* A ciphertext is decrypted to the text it was made of, whatever calls came between,
\* and whatever they left in the buffers.
RoundTrip == answer # None => answer.text = answer.of.text

\* Two texts of one length are the same if and only if encrypt turns them into the
\* same words, as far as the texts reach: what another text has left in the buffers
\* makes no difference.  So a reply depends on the seed and the text only, which is
\* how NodeE represents it.
CipherIsFunction ==
  \A c1, c2 \in made :
    Len(c1.text) = Len(c2.text) =>
      (c1.text = c2.text <=>
         Prefix(c1.cipher, Len(c1.text)) = Prefix(c2.cipher, Len(c2.text)))

=============================================================================
