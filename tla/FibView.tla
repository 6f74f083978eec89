------------------------------ MODULE FibView ------------------------------
(***************************************************************************)
(* What the IPv4 FIB promises a packet, whatever engine implements it: a   *)
(* set of routes `rib', and for each address the word the datapath would   *)
(* resolve right now.  While an update is being programmed each address    *)
(* moves, at a moment of its own, straight from its old word to the word   *)
(* the new routes give it; it never shows a third one.                     *)
(***************************************************************************)
EXTENDS Fib4

VARIABLES rib,    \* the routes user space has asked for
          slot,   \* slot[a]: the word a lookup of a finds outside DEFAULT4
          dflt,   \* the word of the default route
          busy    \* an update is in progress

vars == <<rib, slot, dflt, busy>>

Converged ==
    /\ \A a \in Addr : IsBestWord(slot[a], rib, a, 1)
    /\ dflt = IF rib[<< <<0, 0>>, 0 >>] = NoEntry
              THEN ZeroWord
              ELSE fibw_entry(rib[<< <<0, 0>>, 0 >>])

Init ==
    /\ rib = [p \in Prefix |-> NoEntry]
    /\ slot = [a \in Addr |-> ZeroWord]
    /\ dflt = ZeroWord
    /\ busy = FALSE

\* The routes change; the tables have not followed yet.
Change ==
    /\ rib' \in Rib
    /\ busy' = TRUE
    /\ UNCHANGED <<slot, dflt>>

\* Some addresses are reprogrammed.
Move ==
    /\ busy
    /\ slot' \in [Addr -> Word]
    /\ dflt' \in Word
    /\ \A a \in Addr : slot'[a] = slot[a] \/ IsBestWord(slot'[a], rib, a, 1)
    /\ busy' \in BOOLEAN
    /\ ~busy' => Converged'
    /\ UNCHANGED rib

Next == Change \/ Move

Spec == Init /\ [][Next]_vars
=============================================================================
