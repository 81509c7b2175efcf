------------------------------- MODULE MCNodeE -------------------------------
(***************************************************************************)
(* Instances of NodeE for TLC.                                             *)
(***************************************************************************)
EXTENDS NodeE, TLC

\* Seeds are interchangeable in the safety runs, and so are texts.
Symmetry == Permutations(Seeds) \union Permutations(Texts)

=============================================================================
