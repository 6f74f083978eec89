------------------------------- MODULE MCCni -------------------------------
(***************************************************************************)
(* Cni with three pods that compete for two addresses.                     *)
(***************************************************************************)
EXTENDS Cni, TLC

CONSTANTS p1, p2, p3

Symmetry == Permutations(Pods)
=============================================================================
