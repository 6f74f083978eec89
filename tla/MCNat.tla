------------------------------- MODULE MCNat -------------------------------
(***************************************************************************)
(* Nat on a node with a client pod, backend pods and a backend of its own. *)
(***************************************************************************)
EXTENDS Nat, TLC

CpuSymmetry == Permutations(Cpus)

E(addr, port) == [addr |-> addr, port |-> port]
To(src, dst) == [src |-> src, dst |-> dst]
AddReq(vip, id, bs, aff) ==
    [vip |-> vip, id |-> id, backends |-> bs, affinity |-> aff]

V == E("v", 80)
W == E("w", 80)
B1 == E("b1", 80)
B6 == E("b6", 80)
N1 == E("node", 80)
X == E("x", 80)

\* A service that grows, shrinks and goes, and a neighbour in the same maps.
RaceRequests == { AddReq(V, 1, <<B1>>, FALSE), AddReq(V, 1, <<N1, B1>>, TRUE) }
MCRequests == RaceRequests \cup { AddReq(W, 2, <<X>>, FALSE) }

\* One service flow, for two packets at a time.
RaceFlows == { To(E("c", 1), V) }

\* A flow of each kind: to a service, masqueraded, into a pod (IPv6).
MCFlows == { To(E("c", 1), V), To(E("c", 2), X), To(E("h6", 2), B6) }

MCServers == {B1, B6, N1, X}
MCClients == {E("h", 1), E("h6", 2), E("c", 1), E("c", 2)}
MCEnds == {V, W} \cup MCServers \cup MCClients \cup {E("node", 1), E("node", 2)}

\* The instances are among those the theorems are about.
ASSUME InstanceAssumption == OwnIds /\ Topology
=============================================================================
