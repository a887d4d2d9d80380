-------------------------- MODULE MCConnectionQueue --------------------------
(* Small instances of ConnectionQueue for TLC.                             *)
EXTENDS ConnectionQueue, TLC

(* No operation of the queue compares descriptors by their value, so any   *)
(* permutation of them maps behaviours to behaviours.                      *)
Symmetry == Permutations(Fds)
=============================================================================
