------------------------------- MODULE MCQPPHLS -------------------------------
(***************************************************************************)
(* Instances of QPPHLS for TLC.                                            *)
(***************************************************************************)
EXTENDS QPPHLS, TLC

\* The shuffles of one run of generateMatrix, each going on from the one before.
Drawn(p0, p1, p2, p3, p4) ==
  LET pick == <<p0, p1, p2, p3, p4>>
      m[k \in 0..(M - 1)] == Shuffle(IF k = 0 THEN Reference ELSE m[k - 1], pick[k + 1])
  IN  m

\* The seed of the kernel's own test bench, 0xF0F0F0F0, and another one.
K1 == [bytes |-> <<240, 240, 240, 240>>,
       pmat |-> Drawn(<<0, 0, 1>>, <<1, 0, 2>>, <<0, 2, 3>>, <<1, 1, 0>>, <<0, 1, 3>>)]
K2 == [bytes |-> <<7, 90, 0, 129>>,
       pmat |-> Drawn(<<1, 2, 0>>, <<0, 0, 0>>, <<0, 1, 2>>, <<1, 2, 1>>, <<0, 2, 2>>)]
TwoKeys == {K1, K2}
OneKey == {K1}

\* A short text, whose block is padded, and one that fills both blocks.
TwoTexts == {<<72, 101, 108>>, <<255, 0, 27, 228, 1, 2, 3, 4>>}
OneText == {<<72, 101, 108>>}

=============================================================================
