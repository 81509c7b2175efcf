-------------------------------- MODULE MCQPP --------------------------------
(***************************************************************************)
(* Instances of QPP for TLC.                                               *)
(***************************************************************************)
EXTENDS QPP

Row(words) == [w \in Places |-> words[(w % Len(words)) + 1]]
TwoSeeds == {Row(<<0, 3, 1, 2>>), Row(<<2, 2, 1, 0, 3>>)}
SomeDraws == {p \in Picks : p[1] + p[2] # 2}
TextsOfTwoSizes == {<<1, 0, 2, 0>>, <<3, 2, 1, 0, 0, 1, 2, 3, 3, 3, 3, 1>>, <<1, 1, 2, 0>>}

=============================================================================
