------------------------------- MODULE Bridge ------------------------------
(***************************************************************************)
(* Ethernet bridging in one bridge domain: l2_switch and flood of the TC   *)
(* stage and l2_evpn_xdp of the XDP stage (cradle-ebpf/src/main.rs), as    *)
(* functions of a node's tables t.  The overlays that carry a frame to     *)
(* another node are those of Tunnels and Srv6.                             *)
(*                                                                         *)
(* Tables, beside those of a routing node: members (L2_MEMBERS with        *)
(* L2_COUNT, dense), fdb (FDB), esDf (ES_DF), portEs (PORT_ES), portEtree  *)
(* (PORT_ETREE), slotEs (SLOT_ES), replSid (REPL_SID), nhg (ES_NHG with    *)
(* ES_NHG_MEMBER), vlanVni (VLAN_VNI, 0: unbound).                         *)
(***************************************************************************)
EXTENDS Tunnels

CONSTANTS Bum,       \* the all-ones MAC, the one group address of the model
          Reserved,  \* a link-local control MAC (STP, LLDP)
          Bd         \* the bridge domain

Host == 0   \* where a frame for the host stack goes, among the ports

\* An FDB entry.  kind: local (learned), static, srv6, vxlan, mpls or es; oif
\* the port, the underlay next hop or the segment id.
Entry(kind, oif, addr, label, leaf) ==
    [kind |-> kind, oif |-> oif, addr |-> addr, label |-> label, leaf |-> leaf]
Learned(port) == Entry("local", port, None, 0, FALSE)
Remote(e) == e.kind \in {"srv6", "vxlan", "mpls", "es"}

\* es_df_flags, es_non_df, es_blocked, es_peer_port, etree_leaf.
DfFlags(t, port) == IF Get(t.esDf, port) = None THEN {} ELSE t.esDf[port]
NonDf(t, port) == "nondf" \in DfFlags(t, port)
Blocked(t, port) == "block" \in DfFlags(t, port)
PeerPort(t, port, es) == Get(t.portEs, port) # None /\ t.portEs[port] \in es
Leaf(t, port) == port \in t.portEtree

\* The segment a frame entered through, as id + 1 (0: none).
InEs(t, port) == IF Get(t.portEs, port) = None THEN 0 ELSE t.portEs[port] + 1

\* The SLOT_ES row of a flood member lets the frame take it: a leaf slot is
\* for leaves, a segment's slot for that segment, a plain one for the rest.
AffinityOk(t, port, inEs, fromLeaf) ==
    LET r == Get(t.slotEs, port)
    IN  r # None =>
          IF r.etree = "leaf" THEN fromLeaf
          ELSE /\ ~(fromLeaf /\ r.etree = "root")
               /\ IF r.only # 0 THEN r.only = inEs ELSE inEs = 0 \/ inEs - 1 \notin r.skip

\* flood: the members that get a copy.  over: the frame came by the overlay,
\* with the segment bits es.
Flood(t, iif, over, es) ==
    LET fromLeaf == ~over /\ Leaf(t, iif)
        remoteLeaf == over /\ LeafBit \in es
        takes(port) == /\ AffinityOk(t, port, InEs(t, iif), fromLeaf)
                       /\ port # iif
                       /\ ~(over /\ Get(t.replSid, port) # None)
                       /\ ~NonDf(t, port)
                       /\ ~((fromLeaf \/ remoteLeaf) /\ Leaf(t, port))
                       /\ ~PeerPort(t, port, es)
    IN  SelectSeq(t.members, takes)

\* The source is learned, whatever entry there was.
Learn(t, iif, src) == [t EXCEPT !.fdb = Including(@, Row(src, Learned(iif)))]

\* l2_switch after learning: the ports the frame goes out of.
L2Switch(t, iif, dst, over, es) ==
    LET e == Get(t.fdb, dst)
        leafToLeaf == /\ Leaf(t, e.oif)
                      /\ IF over THEN LeafBit \in es ELSE Leaf(t, iif)
    IN  IF dst = Reserved THEN <<Host>>
        ELSE IF ~over /\ Blocked(t, iif) THEN <<>>
        ELSE IF dst = Bum \/ e = None THEN Flood(t, iif, over, es)
        ELSE IF Remote(e) THEN Flood(t, iif, over, es)
        ELSE IF e.oif = iif \/ leafToLeaf \/ Blocked(t, e.oif) THEN <<>>
        ELSE <<e.oif>>

\* l2_evpn_bum_tunnel: the domain's only BUM tunnel, if it has one.
BumTunnel(t) ==
    LET e == Get(t.fdb, Bum) IN IF e # None /\ Remote(e) THEN e ELSE None

\* Mistake: a single-active segment is spread by flow too.
EsNhgMemberByFlow(t, id, hash) ==
    LET g == Get(t.nhg, id)
    IN  IF g = None \/ g.members = <<>> THEN None ELSE g.members[(hash % Len(g.members)) + 1]

\* es_nhg_member: the primary of a single-active segment, else by the flow.
EsNhgMember(t, id, hash) ==
    LET g == Get(t.nhg, id)
    IN  IF g = None \/ g.members = <<>> THEN None
        ELSE IF g.sa THEN g.members[1] ELSE g.members[(hash % Len(g.members)) + 1]

\* The target a remote entry stands for, as l2_overlay_encap takes it; None
\* for a segment without a group or a VXLAN entry without a VNI.
EncapTarget(t, e, hash) ==
    CASE e.kind = "es" -> EsNhgMember(t, e.oif, hash)
      [] e.kind = "vxlan" /\ t.vlanVni = 0 -> None
      [] OTHER -> [kind |-> e.kind, addr |-> e.addr, extra |-> 0,
                   aux |-> IF e.kind = "vxlan" THEN t.vlanVni ELSE e.label]

\* l2_evpn_xdp, for a frame that is no replication slot's: t after learning.
EvpnXdp(t, iif, f, hash) ==
    LET known == Get(t.fdb, f.dst)
        e == IF f.dst = Bum \/ known = None THEN BumTunnel(t) ELSE known
    IN  IF f.dst = Reserved THEN Keep(<<f>>)
        ELSE IF Blocked(t, iif) THEN Drop
        ELSE IF e = None \/ ~Remote(e) THEN Keep(<<f>>)
        ELSE IF f.dst # Bum /\ known # None /\ e.leaf /\ Leaf(t, iif) THEN Drop
        ELSE IF EncapTarget(t, e, hash) = None THEN Keep(<<f>>)
        ELSE L2OverlayEncap(t, <<f>>, EncapTarget(t, e, hash), IF e.kind = "es" THEN 0 ELSE e.oif)

\* The XDP stage of the node a tunnelled frame arrives at.
Decap(t, hs) ==
    LET h == Outer(hs)
    IN  IF h.k = "mpls" THEN MplsXdp(t, hs)
        ELSE IF hs[2].k = "vxlan" THEN IF h.k = "ip4" THEN VxlanXdp(t, hs) ELSE Vxlan6Xdp(t, hs)
        ELSE Srv6Xdp(t, hs)
=============================================================================
