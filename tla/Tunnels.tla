------------------------------ MODULE Tunnels ------------------------------
(***************************************************************************)
(* MPLS label operations (try_mpls_xdp, mpls_forward, mpls_push), GTP-U    *)
(* and VXLAN termination and imposition, and the Ethernet overlays         *)
(* (l2_overlay_encap), as functions of a node's tables t and a header      *)
(* stack hs.                                                               *)
(*                                                                         *)
(* A next hop is [to, neigh, fl, labels, pipe, backup]: the neighbour (None*)
(* for an oif of 0), whether its MAC is known, the encapsulation it asks   *)
(* for, its label stack, the pipe TTL model, and its backup (0: none).     *)
(***************************************************************************)
EXTENDS Srv6

\* A label stack entry whose ILM is a pop without a next hop: the label
\* underneath is this node's too, and the loop of try_mpls_xdp takes it.
OwnLabel(t, h) ==
    /\ h.k = "mpls" /\ h.ttl > 1 /\ ~h.s
    /\ LET ent == Get(t.ilm, h.label)
           nh == Get(t.nh, ent.nh)
       IN  /\ ent # None /\ ent.op \in {"swap", "pop"}
           /\ nh # None /\ nh.labels = <<>> /\ nh.to = None

\* The label the loop ends at; it pops at most MaxLabels + 1 of its own.
OwnPopped(t, hs) ==
    LET own == {i \in 1..Len(hs) : \A j \in 1..i : j <= MaxLabels + 1 /\ OwnLabel(t, hs[j])}
    IN  SubSeq(hs, Cardinality(own) + 1, Len(hs))

\* pop_decap_local: to the FIB of the ILM's VRF; uniform copies the label's
\* TTL into the IP header.
PopDecapLocal(hs, ent) ==
    LET in == DecapHead(hs)
        ttl == IF ent.uniform THEN Outer(hs).ttl ELSE Outer(in).hop
    IN  IF ~IsIp(Outer(in).k) THEN Drop
        ELSE Pass(SetOuter(in, "hop", ttl), IF ent.vrf = 0 THEN NoMeta ELSE Meta("plain", ent.vrf))

\* pop_and_forward: penultimate-hop pop.
PopForward(hs, ent, nh) ==
    LET in == DecapHead(hs)
        ttl == IF ent.uniform THEN Outer(hs).ttl - 1 ELSE Outer(in).hop
    IN  IF ~Resolved(nh) THEN Keep(hs)
        ELSE IF ~Outer(hs).s THEN Send(in, nh.to)
        ELSE IF ~IsIp(Outer(in).k) THEN Drop
        ELSE Send(SetOuter(in, "hop", ttl), nh.to)

\* Mistake: every entry may be the bottom.
ImposeEachBottom(labels, s, ttl) == [i \in 1..Len(labels) |-> Lse(labels[i], s, ttl)]

\* The entries imposed for a label stack: only the innermost may be the
\* bottom of stack.
Impose(labels, s, ttl) ==
    [i \in 1..Len(labels) |-> Lse(labels[i], s /\ i = Len(labels), ttl)]

\* grow_swap.
GrowSwap(hs, nh) ==
    IF Len(nh.labels) > MaxLabels \/ ~Resolved(nh) THEN Keep(hs)
    ELSE Send(Impose(nh.labels, Outer(hs).s, Outer(hs).ttl - 1) \o Tail(hs), nh.to)

\* pop_decap_l2: the service label, and at most one more under it, which must
\* be an ESI label or a leaf label of this node.
PopDecapL2(t, hs, bd) ==
    LET esi == hs[2]
        bits == IF Get(t.esiLabel, esi.label) # None THEN {t.esiLabel[esi.label]} ELSE {LeafBit}
    IN  IF Outer(hs).s THEN Pass(DecapHead(hs), Meta("l2", bd))
        ELSE IF ~esi.s \/ (Get(t.esiLabel, esi.label) = None /\ esi.label \notin t.leafLabels)
             THEN Drop
        ELSE Pass(Tail(Tail(hs)), MetaEs("l2", bd, bits))

\* pop_decap_xc: an E-Line's label; the frame goes raw to the circuit.
PopDecapXc(t, hs, ent) ==
    LET oif == Circuit(t, ent.vrf, ent.op = "xcvlan", hs[2])
    IN  IF ~Outer(hs).s THEN Drop
        ELSE IF oif = 0 THEN Keep(hs)
        ELSE Pass(DecapHead(hs), Meta("dx2", oif))

\* One label in try_mpls_xdp, after this node's own pops.
MplsOp(t, hs) ==
    LET h == Outer(hs)
        ent == Get(t.ilm, h.label)
        nh == Get(t.nh, ent.nh)
    IN  IF h.k # "mpls" \/ h.ttl <= 1 \/ ent = None THEN Keep(hs)
        ELSE IF ent.op = "popl2" THEN PopDecapL2(t, hs, ent.vrf)
        ELSE IF ent.op \in {"xc", "xcvlan"} THEN PopDecapXc(t, hs, ent)
        ELSE IF nh = None THEN Keep(hs)
        ELSE IF ent.op = "popl3" /\ h.s THEN PopDecapLocal(hs, ent)
        ELSE IF ent.op \in {"swap", "pop"} /\ nh.labels = <<>> /\ nh.to # None
             THEN PopForward(hs, ent, nh)
        ELSE IF ent.op \in {"swap", "pop"} /\ nh.labels = <<>> /\ h.s THEN PopDecapLocal(hs, ent)
        ELSE IF ent.op = "swap" /\ Len(nh.labels) > 1 THEN GrowSwap(hs, nh)
        ELSE Keep(hs)
\* try_mpls_xdp: a packet that took all of the loop's turns goes to the stack.
MplsXdp(t, hs) ==
    LET rest == OwnPopped(t, hs)
    IN  IF Len(hs) - Len(rest) > MaxLabels THEN Keep(rest) ELSE MplsOp(t, rest)

\* l2_xmit: out of the next hop's port, or to the host.
Xmit(hs, nh) == IF Resolved(nh) THEN Send(hs, nh.to) ELSE Keep(hs)

\* mpls_forward, the TC stage: a single-label swap in place.
MplsForward(t, hs) ==
    LET h == Outer(hs)
        ent == Get(t.ilm, h.label)
        nh == Get(t.nh, ent.nh)
    IN  IF h.ttl <= 1 \/ ent = None THEN Keep(hs)
        ELSE IF nh = None \/ ent.op # "swap" \/ Len(nh.labels) # 1 THEN Keep(hs)
        ELSE Xmit(<<Lse(nh.labels[1], h.s, h.ttl - 1)>> \o Tail(hs), nh)

\* mpls_push: the IP TTL is copied into the labels or hidden under 255.
MplsPush(hs, nh) ==
    IF Len(nh.labels) > MaxLabels THEN Keep(hs)
    ELSE Xmit(Impose(nh.labels, TRUE, IF nh.pipe THEN PipeTtl ELSE Outer(hs).hop) \o hs, nh)

----------------------------------------------------------------------------
\* A G-PDU (`ok': of an accepted shape) for a PDR is taken out of its tunnel.
GtpDecap(hs, pdr) ==
    IF ~hs[2].ok \/ pdr = None THEN Keep(hs)
    ELSE IF Len(hs) = 2 \/ ~IsIp(hs[3].k) THEN Drop
    ELSE Pass(Tail(Tail(hs)), Meta("gtp", pdr))
\* try_gtp_xdp, try_gtp6_xdp: the PDR of the ingress port's VRF.
GtpXdp(t, vrf, hs) == GtpDecap(hs, Get(t.pdr, <<vrf, Outer(hs).da, hs[2].teid>>))
Gtp6Xdp(t, vrf, hs) == GtpDecap(hs, Get(t.pdr6, <<vrf, Outer(hs).da, hs[2].teid>>))
\* A frame for this VTEP: the VNI names a circuit, a VRF or a bridge domain.
\* An L3VNI's inner Ethernet header is ignored.
VxlanDecap(t, hs, vtep) ==
    LET in == Tail(Tail(hs))
        info == Get(t.vni, hs[2].vni)
        oif == Circuit(t, info.v, info.kind = "elinev", Outer(in))
    IN  IF Outer(hs).da # vtep \/ info = None THEN Keep(hs)
        ELSE IF info.kind \in {"eline", "elinev"}
             THEN IF oif = 0 THEN Keep(hs) ELSE Pass(in, Meta("dx2", oif))
        ELSE IF info.kind = "l3" THEN Pass(Tail(in), Meta("plain", info.v))
        ELSE Pass(in, MetaEs("l2", info.v, VtepBdBits(t, Outer(hs).sa, info.v)))
\* try_vxlan_xdp, try_vxlan6_xdp.
VxlanXdp(t, hs) == VxlanDecap(t, hs, t.vtep)
Vxlan6Xdp(t, hs) == VxlanDecap(t, hs, t.vtep6)
\* gtp_encap, gtp6_encap and vxlan_l3_encap; the inner TTL is left alone.
GtpEncap(t, hs, id, nh) ==
    LET enc == Get(t.gtp, id)
    IN  IF enc = None THEN Keep(hs)
        ELSE Xmit(<<Ip("ip4", enc.sa, enc.da, EncapHop), Gtp(enc.teid)>> \o hs, nh)
Gtp6Encap(t, hs, id, nh) ==
    LET enc == Get(t.gtp6, id)
    IN  IF enc = None THEN Keep(hs)
        ELSE Xmit(<<Ip("ip6", enc.sa, enc.da, EncapHop), Gtp(enc.teid)>> \o hs, nh)
VxlanL3Encap(t, hs, id, nh) ==
    LET enc == Get(t.vxlan, id)
    IN  IF enc = None \/ Get(t.vni, enc.vni) = None \/ t.vtep = None THEN Keep(hs)
        ELSE Xmit(<<Ip("ip4", t.vtep, enc.da, EncapHop), Vxlan(enc.vni),
                    Eth(enc.rmac, t.vni[enc.vni].rmac, 0)>> \o hs, nh)
----------------------------------------------------------------------------
\* fib4_lookup / fib6_lookup of a VRF: [vrf, pfx, fl, nh].
Fib(t, vrf, a) == Lpm({r \in t.fib : r.vrf = vrf}, a)

\* The underlay next hop of an overlay target: given, or by the FIB, where
\* only a plain route will do (overlay_fib_nexthop_id and its SRv6 twin).
UnderlayNh(t, addr, id) ==
    LET r == Fib(t, 0, addr)
    IN  IF id # 0 THEN Get(t.nh, id)
        ELSE IF r = None \/ r.fl # "plain" THEN None
        ELSE Get(t.nh, r.nh)

\* The overlays of an Ethernet frame, for a target [kind, addr, aux, extra]:
\* aux the VNI or service label, extra the ESI or leaf label under it (0: none).
\* l2_srv6_encap.
L2Srv6Encap(t, hs, tgt, nh) ==
    IF ~Resolved(nh) THEN Keep(hs)
    ELSE Send(<<Ip("ip6", t.src, tgt.addr, EncapHop)>> \o hs, nh.to)
\* l2_vxlan6_encap, l2_vxlan_encap: the family is the target's.
L2Vxlan6Encap(t, hs, tgt, nh) ==
    IF ~Resolved(nh) \/ t.vtep6 = None THEN Keep(hs)
    ELSE Send(<<Ip("ip6", t.vtep6, tgt.addr, EncapHop), Vxlan(tgt.aux)>> \o hs, nh.to)
L2VxlanEncap(t, hs, tgt, nh) ==
    IF ~IsV4Mapped(tgt.addr) THEN L2Vxlan6Encap(t, hs, tgt, nh)
    ELSE IF ~Resolved(nh) \/ t.vtep = None THEN Keep(hs)
    ELSE Send(<<Ip("ip4", t.vtep, tgt.addr, EncapHop), Vxlan(tgt.aux)>> \o hs, nh.to)
\* l2_mpls_encap: the transport labels, the service label, the extra label.
L2MplsEncap(hs, tgt, nh) ==
    LET svc == Lse(tgt.aux, tgt.extra = 0, PipeTtl)
        esi == IF tgt.extra = 0 THEN <<>> ELSE <<Lse(tgt.extra, TRUE, PipeTtl)>>
    IN  IF ~Resolved(nh) \/ Len(nh.labels) > MaxLabels THEN Keep(hs)
        ELSE Send(Impose(nh.labels, FALSE, PipeTtl) \o <<svc>> \o esi \o hs, nh.to)
\* l2_overlay_encap.
L2OverlayEncap(t, hs, tgt, id) ==
    LET nh == UnderlayNh(t, tgt.addr, id)
    IN  CASE tgt.kind = "mpls" -> L2MplsEncap(hs, tgt, nh)
          [] tgt.kind = "vxlan" -> L2VxlanEncap(t, hs, tgt, nh)
          [] OTHER -> L2Srv6Encap(t, hs, tgt, nh)
=============================================================================
