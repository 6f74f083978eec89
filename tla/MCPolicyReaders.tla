--------------------------- MODULE MCPolicyReaders ---------------------------
(***************************************************************************)
(* PolicyReaders with two endpoints and one packet in flight.              *)
(***************************************************************************)
EXTENDS PolicyReaders

S(identity, proto, port) ==
    [dir |-> "ingress", identity |-> identity, proto |-> proto, port |-> port]
Allow(slot) == [slot |-> slot, verdict |-> "allow"]
Deny(slot) == [slot |-> slot, verdict |-> "deny"]
Ingress(rules, audit) ==
    [enforce |-> TRUE, enforceEgress |-> FALSE, audit |-> audit, rules |-> rules]

\* Rules of the shapes the datapath probes, denies above and below allows, an
\* egress rule that is skipped and one that is enforced.
Egress(slot) == [slot EXCEPT !.dir = "egress"]
MCRequests ==
    { Ingress(<<Allow(S(7, 6, 0)), Deny(S(0, 6, 80)), Deny(Egress(S(8, 0, 0)))>>, FALSE),
      [Ingress(<<Deny(S(7, 6, 80)), Allow(S(0, 6, 0)), Allow(Egress(S(8, 0, 0)))>>, TRUE)
         EXCEPT !.enforceEgress = TRUE] }

MCPackets == [ep : {1}, dir : {"ingress", "egress"}, identity : {7, 8},
              proto : {6}, port : {80, 0}]

\* The instance is one the proof about verdicts speaks of.
ASSUME InstanceAssumption == \A req \in Requests : Shaped(req)
=============================================================================
