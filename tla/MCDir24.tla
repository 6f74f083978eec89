------------------------------ MODULE MCDir24 ------------------------------
(***************************************************************************)
(* Dir24 on a 3-bit address space: four blocks of two addresses.           *)
(***************************************************************************)
EXTENDS Dir24

\* A short route given with host bits set, both halves of block 0 and one each
\* of blocks 1 and 2: three blocks compete for the groups.
MCRoutes == { << <<1, 0>>, 1 >>, << <<0, 0>>, 3 >>, << <<0, 1>>, 3 >>,
              << <<1, 0>>, 3 >>, << <<2, 0>>, 3 >> }
=============================================================================
