--------------------------- MODULE MCDir24Readers ---------------------------
(***************************************************************************)
(* Dir24Readers with two blocks of two addresses and one packet in flight: *)
(* lookups do not affect one another, so one shows all there is to see.    *)
(***************************************************************************)
EXTENDS Dir24Readers

\* Two blocks that take groups from one another, and a default route for what
\* they do not cover.
MCRoutes == { << <<0, 0>>, 0 >>, << <<0, 0>>, 2 >>, << <<1, 0>>, 2 >> }

MCDsts == {<<0, 0>>, <<0, 1>>}
=============================================================================
