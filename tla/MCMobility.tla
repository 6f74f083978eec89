---------------------------- MODULE MCMobility -----------------------------
(***************************************************************************)
(* A station at one of two nodes that moves to the other and back.         *)
(***************************************************************************)
EXTENDS Mobility, TLC
CONSTANTS p1, p2
MCNodeOf == (p1 :> 1) @@ (p2 :> 2)
=============================================================================
