------------------------------ MODULE MCTxRing ------------------------------
(* Instances of TxRing: a ring of two frames, which three of them overfill. *)
EXTENDS TxRing, TLC

CONSTANTS c1, c2, l1, l2, l3, l4, h1

OneCpu == {c1}
TwoCpus == {c1, c2}
Low4 == {l1, l2, l3, l4}
Low3High1 == {l1, l2, l3, h1}
Low3 == {l1, l2, l3}
Status1 == {l1}
Alike == Permutations({c1, c2}) \cup Permutations({l2, l3})
StatusBoth == {l1, h1}
=============================================================================
