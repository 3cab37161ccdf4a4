--------------------------- MODULE MCAccessPoint ---------------------------
(* AccessPoint with a beacon whose TIM has to grow, one whose TIM is longer  *)
(* than the firmware's, and one that fits only as long as it does not grow.  *)
(* Nothing tells the peers apart.                                            *)
EXTENDS AccessPoint, TLC
ThreeBeacons == {[pvm |-> 1, tail |-> <<21>>], [pvm |-> 3, tail |-> <<24, 25>>],
                 [pvm |-> 1, tail |-> <<26, 27, 28, 29, 30>>]}
AnyPeer == Permutations(Peers)
=============================================================================
