--------------------------- MODULE MCDemoPrograms ---------------------------
(***************************************************************************)
(* Instances of DemoPrograms for TLC.                                      *)
(***************************************************************************)
EXTENDS DemoPrograms

\* The reset value, the seed of the kernel's test bench, and a third one.
ThreeSeeds == {ZeroBlock,
               FromHex(<<15, 0, 15, 0, 15, 0, 15, 0>>),
               FromHex(<<0, 3, 0, 3, 0, 3, 0, 3>>)}

\* "Hello World", and a text in which every word occurs.
TwoTexts == {
  [a \in Addresses |->
     CASE a = 0 -> FromHex(<<4, 3, 6, 5, 6, 12, 6, 12>>)
       [] a = 1 -> FromHex(<<6, 15, 0, 0, 2, 0, 5, 7>>)
       [] a = 2 -> FromHex(<<6, 15, 7, 2, 6, 12, 6, 4>>)],
  [a \in Addresses |-> FromHex(<<1, 11, 0, 15, 5, 10, 14, 4>>)]}

=============================================================================
