------------------------------- MODULE Fabric ------------------------------
(***************************************************************************)
(* A network of cradle nodes: each packet passes the XDP stage and then    *)
(* the TC stage of every node it reaches (try_xdp, try_main, l3_forward in *)
(* cradle-ebpf/src/main.rs), and travels to the neighbour it was sent to.  *)
(* Links fail while packets are on their way; a node learns of it when the *)
(* control plane puts the port into LINK_DOWN.                             *)
(*                                                                         *)
(* The tables are those of a scenario: what each node holds, the packet a  *)
(* customer sends, and what the operator means to happen to it.            *)
(***************************************************************************)
EXTENDS Tunnels

CONSTANTS Nodes,      \* the nodes that run cradle; other neighbours are hosts
          Scenarios,  \* the networks and packets to explore
          MaxHash     \* flow hashes are 0..MaxHash

VARIABLES scn,      \* the scenario
          flight,   \* packets on their way, each before a stage of a node
          done,     \* what became of the packets
          cut,      \* failed links <<node, neighbour>>
          linkDown  \* LINK_DOWN of every node: the ports known to be down

vars == <<scn, flight, done, cut, linkDown>>

\* A scenario: tbl, the tables of every node; node, iif and hs, the packet and
\* where it enters; links, those that may fail; paths, the sequences of
\* segment endpoints asked for; out, the deliveries [at, hs] that are right;
\* sure, those that must happen.

\* A packet before a stage.  `log' is history: the nodes that acted on it as
\* the endpoint of a segment.
At(node, iif, hs, log) ==
    [node |-> node, iif |-> iif, stage |-> "xdp", hs |-> hs, meta |-> NoMeta,
     log |-> log]

Init == /\ scn \in Scenarios
        /\ flight = {At(scn.node, scn.iif, scn.hs, <<>>)}
        /\ done = {}
        /\ cut = {}
        /\ linkDown = [n \in Nodes |-> {}]

----------------------------------------------------------------------------
PortVrf(t, iif) == IF Get(t.ports, iif) = None THEN 0 ELSE t.ports[iif]

\* try_udp4_xdp, and the IPv6 part of try_xdp: by the UDP port.
Udp4Xdp(t, iif, hs) ==
    CASE Proto(hs) = "gtp" -> GtpXdp(t, PortVrf(t, iif), hs)
      [] Proto(hs) = "vxlan" -> VxlanXdp(t, hs)
      [] OTHER -> Keep(hs)
Ip6Xdp(t, iif, hs) ==
    CASE ~HasSrh(hs) /\ Proto(hs) = "gtp" -> Gtp6Xdp(t, PortVrf(t, iif), hs)
      [] ~HasSrh(hs) /\ Proto(hs) = "vxlan" -> Vxlan6Xdp(t, hs)
      [] OTHER -> Srv6Xdp(t, hs)
\* try_xdp behind its L2 dispatch: by EtherType.
XdpL3(t, iif, hs) ==
    CASE Outer(hs).k = "mpls" -> MplsXdp(t, hs)
      [] Outer(hs).k = "ip4" -> Udp4Xdp(t, iif, hs)
      [] Outer(hs).k = "ip6" -> Ip6Xdp(t, iif, hs)
      [] OTHER -> Keep(hs)
\* cradle_xdp_l3, xdp_l3_forward_v4 (--ebpf-mode xdp-only, no TC program):
\* plain IPv4 by a plain route of the global table, all else to the kernel.
XdpOnly(t, hs) ==
    LET r == Fib(t, 0, Outer(hs).da)
        nh == Get(t.nh, r.nh)
    IN  IF Outer(hs).k # "ip4" THEN Keep(hs)
        ELSE IF r = None \/ r.fl # "plain" THEN Keep(hs)
        ELSE IF ~Resolved(nh) \/ nh.fl # "plain" \/ nh.labels # <<>> THEN Keep(hs)
        ELSE IF Outer(hs).hop <= 1 THEN Keep(hs)
        ELSE Send(SetOuter(hs, "hop", Outer(hs).hop - 1), nh.to)

\* try_xdp: a frame from an attachment circuit is tunnelled whatever it is, a
\* tagged one by its VLAN's E-Line first.
Xdp(t, iif, hs) ==
    LET vlan == IF Outer(hs).k = "eth" THEN Get(t.xvlan, <<iif, Outer(hs).vid>>) ELSE None
        tgt == IF vlan # None THEN vlan ELSE Get(t.xconnect, iif)
    IN  IF t.mode = "xdp-only" THEN XdpOnly(t, hs)
        ELSE IF tgt # None THEN L2OverlayEncap(t, hs, tgt, 0) ELSE XdpL3(t, iif, hs)

----------------------------------------------------------------------------
\* Mistake: the backup is never taken.
ResolveNhPrimaryOnly(t, down, id) == [id |-> id, nh |-> Get(t.nh, id)]

\* resolve_nh: the id matters, the encapsulation tables are keyed by it.
ResolveNh(t, down, id) ==
    LET nh == Get(t.nh, id)
        use == IF nh # None /\ nh.backup # 0 /\ nh.to \in down THEN nh.backup ELSE id
    IN  [id |-> use, nh |-> Get(t.nh, use)]

\* srv6_encap: H.Insert into an IPv6 packet, or H.Encaps; a second layer is
\* stacked when the new destination is itself an H.Encaps route.
Srv6Encap(t, down, hs, id, nh) ==
    LET enc == Get(t.encap, id)
        one == Hencap(t, hs, enc.segs)
        r == Fib(t, 0, enc.segs[1])
        nh2 == ResolveNh(t, down, r.nh)
        enc2 == Get(t.encap, nh2.id)
        stacks == /\ r # None /\ r.fl = "plain"
                  /\ nh2.nh # None /\ nh2.nh.fl = "srv6"
                  /\ Bindable(enc2) /\ ~enc2.insert
    IN  IF ~Bindable(enc) THEN Keep(hs)
        ELSE IF enc.insert /\ (Outer(hs).k # "ip6" \/ Outer(hs).hop <= 1) THEN Keep(hs)
        ELSE IF enc.insert THEN Xmit(Hinsert(hs, enc.segs), nh)
        ELSE IF stacks THEN Xmit(Hencap(t, one, enc2.segs), nh2.nh)
        ELSE Xmit(one, nh)

\* The VRF of the lookup (tc_meta_vrf): the one the XDP stage left, where 0
\* is the port's.
LookupVrf(t, iif, meta) ==
    IF meta.magic \in {"plain", "srv6", "gtp"} /\ meta.v # 0 THEN meta.v ELSE PortVrf(t, iif)

\* ecmp_member: the member the flow's hash selects.
NextHopId(t, r, hash) ==
    IF r.fl # "ecmp" THEN r.nh
    ELSE IF Get(t.group, r.nh) = None \/ t.group[r.nh] = <<>> THEN 0
    ELSE t.group[r.nh][(hash % Len(t.group[r.nh])) + 1]

\* l3_forward_v4, l3_forward_v6 after the lookup: by what the next hop asks.
\* A packet taken out of one mobile or SRv6 tunnel is not put into the other.
Forward(t, down, hs, meta, rnh) ==
    LET nh == rnh.nh
        hop == Outer(hs).hop
    IN  IF nh = None THEN Keep(hs)
        ELSE IF nh.fl = "srv6" /\ meta.magic = "gtp" THEN Drop
        ELSE IF nh.fl = "srv6" THEN IF hop <= 1 THEN Keep(hs) ELSE Srv6Encap(t, down, hs, rnh.id, nh)
        ELSE IF nh.fl \in {"gtp", "gtp6"} /\ meta.magic = "srv6" THEN Drop
        ELSE IF nh.fl = "gtp" THEN GtpEncap(t, hs, rnh.id, nh)
        ELSE IF nh.fl = "gtp6" THEN Gtp6Encap(t, hs, rnh.id, nh)
        ELSE IF nh.fl = "vxlan" THEN VxlanL3Encap(t, hs, rnh.id, nh)
        ELSE IF hop <= 1 THEN Keep(hs)
        ELSE IF nh.labels # <<>> THEN MplsPush(hs, nh)
        ELSE Send(SetOuter(hs, "hop", hop - 1), nh.to)

\* l3_forward.
L3Forward(t, down, iif, hs, meta, hash) ==
    LET h == Outer(hs)
        dx == ResolveNh(t, down, meta.v).nh
        r == Fib(t, LookupVrf(t, iif, meta), h.da)
    IN  IF h.k = "mpls" THEN MplsForward(t, hs)
        ELSE IF ~IsIp(h.k) THEN Keep(hs)
        ELSE IF meta.magic = "dx" THEN (IF dx = None THEN Keep(hs) ELSE Xmit(hs, dx))
        ELSE IF h.k = "ip6" /\ LocalSid(t, hs) # None THEN Keep(hs)
        ELSE IF r = None \/ r.fl = "local" THEN Keep(hs)
        ELSE IF r.fl = "blackhole" THEN Drop
        ELSE Forward(t, down, hs, meta, ResolveNh(t, down, NextHopId(t, r, hash)))

\* try_main for an L3 port: a circuit's frame goes out as it is.
Tc(t, down, iif, hs, meta, hash) ==
    IF t.mode = "xdp-only" THEN Keep(hs)
    ELSE IF meta.magic = "dx2" THEN Send(hs, meta.v)
    ELSE IF Get(t.ports, iif) = None THEN Keep(hs)
    ELSE L3Forward(t, down, iif, hs, meta, hash)

\* srv6_replicate, repl_clone_remote: one copy for each branch that resolves,
\* none without state or hops.
Replicas(t, down, hs) ==
    LET seg == Get(t.replSeg, Outer(hs).da)
        hop == Outer(hs).hop
        copy(b) == SetOuter(SetOuter(hs, "hop", hop - 1), "da", b.sid)
        nh(b) == IF b.nh # 0 THEN ResolveNh(t, down, b.nh).nh
                 ELSE LET r == Fib(t, 0, b.sid)
                      IN IF r = None \/ r.fl # "plain" THEN None ELSE ResolveNh(t, down, r.nh).nh
    IN  IF seg = None \/ hop <= 1 \/ hop < seg.threshold THEN {}
        ELSE {Send(copy(b), IF b.local # 0 THEN b.local ELSE nh(b).to) :
                b \in {c \in seg.branches : c.local # 0 \/ Resolved(nh(c))}}

----------------------------------------------------------------------------
Finish(p, how, hs) ==
    [node |-> p.node, how |-> how, hs |-> hs, log |-> p.log]

\* Where a sent packet is next: at a node, at a host, or lost on a cut link,
\* which is a waste once the node knows of it.
Travel(p, v) ==
    IF <<p.node, v.to>> \in cut
    THEN <<{}, {Finish(p, IF v.to \in linkDown[p.node] THEN "wasted" ELSE "lost", v.hs)}>>
    ELSE IF v.to \in Nodes THEN <<{At(v.to, p.node, v.hs, p.log)}, {}>>
    ELSE <<{}, {[Finish(p, "out", v.hs) EXCEPT !.node = v.to]}>>

Step(p, ways) ==
    /\ flight' = (flight \ {p}) \cup UNION {w[1] : w \in ways}
    /\ done' = done \cup UNION {w[2] : w \in ways}
    /\ UNCHANGED <<scn, cut, linkDown>>

\* The log of a packet the XDP stage was a segment endpoint of.
Logged(p, v) ==
    IF Outer(p.hs).k = "ip6" /\ LocalSid(scn.tbl[p.node], p.hs) # None /\ v # Keep(p.hs)
    THEN [p EXCEPT !.log = Append(@, p.node)] ELSE p

XdpStage(p) ==
    LET v == Xdp(scn.tbl[p.node], p.iif, p.hs)
        q == Logged(p, v)
    IN  /\ p.stage = "xdp"
        /\ Step(p, {CASE v.do = "pass" ->
                         <<{[q EXCEPT !.stage = "tc", !.hs = v.hs, !.meta = v.meta]}, {}>>
                      [] v.do = "drop" -> <<{}, {Finish(q, "drop", p.hs)}>>
                      [] v.do = "send" -> Travel(q, v)})

TcStage(p) ==
    /\ p.stage = "tc" /\ p.meta.magic # "repl"
    /\ \E v \in {Tc(scn.tbl[p.node], linkDown[p.node], p.iif, p.hs, p.meta, hash) :
                    hash \in 0..MaxHash} :
         Step(p, {CASE v.do = "pass" -> <<{}, {Finish(p, "punt", v.hs)}>>
                    [] v.do = "drop" -> <<{}, {Finish(p, "drop", p.hs)}>>
                    [] v.do = "send" -> Travel(p, v)})

Replicate(p) ==
    /\ p.stage = "tc" /\ p.meta.magic = "repl"
    /\ Step(p, {Travel(p, v) : v \in Replicas(scn.tbl[p.node], linkDown[p.node], p.hs)})

\* A link fails; its end learns of it (set_link_down).
Cut(l) == /\ l \in scn.links \ cut
          /\ cut' = cut \cup {l}
          /\ UNCHANGED <<scn, flight, done, linkDown>>
Notice(l) == /\ l \in cut /\ l[2] \notin linkDown[l[1]]
             /\ linkDown' = [linkDown EXCEPT ![l[1]] = @ \cup {l[2]}]
             /\ UNCHANGED <<scn, flight, done, cut>>

Over == flight = {} /\ UNCHANGED vars

Next == \/ \E p \in flight : XdpStage(p) \/ TcStage(p) \/ Replicate(p)
        \/ \E l \in scn.links : Cut(l) \/ Notice(l)
        \/ Over

\* A packet on its way is processed: weak fairness of the three stages, with
\* what enables one of them, a packet in flight, written out.
Processed == []<>(flight = {}) \/ []<><<flight' # flight>>_flight

Spec == Init /\ [][Next]_vars /\ Processed

----------------------------------------------------------------------------
\* A segment list is walked in the order it was given: the endpoints a packet
\* has passed are the first ones of a path the operator asked for, be it
\* written as an SRH, as uSID carriers or as REPLACE-C-SID containers.
SegmentsInOrder ==
    \A p \in flight \cup done : \E path \in scn.paths : IsPrefix(p.log, path)

\* What leaves the fabric is what the customer sent, at the customer's other
\* site and nowhere else (the VRFs hold the same addresses), after all of the
\* segments, with exactly one TTL.  Pipe and SRv6 tunnels cost one hop, End.DX4
\* none (no node charges the packet), a uniform LSP one for every node that
\* swaps or pops the label whose pop exposes the IP packet: pop_and_forward and
\* the loop of try_mpls_xdp do not carry a TTL over to a label underneath.
DeliveredAsSent ==
    \A p \in done : p.how = "out" =>
        /\ [at |-> p.node, hs |-> p.hs] \in scn.out
        /\ p.log \in scn.paths

\* No header stack is malformed on the wire: exactly the innermost label is
\* marked bottom of stack, and Segments Left stays within the list.
WellFormed ==
    \A p \in flight : \A i \in 1..Len(p.hs) :
        LET h == p.hs[i] IN
        /\ h.k = "mpls" => /\ i < Len(p.hs) /\ h.ttl > 0
                           /\ h.s <=> p.hs[i + 1].k # "mpls"
        /\ IsIp(h.k) => \A j \in 1..Len(h.srh) : h.srh[j].sl \in 0..Len(h.srh[j].list)

\* A packet that can reach its destination is not lost to the fabric's own
\* machinery: it is punted, dropped or looped nowhere, and a node that knows a
\* link to be down sends it over the backup.  Only a link that is cut and that
\* its node does not yet know to be (not in LINK_DOWN) may lose it.
Arrives == <>(flight = {} /\ \A some \in scn.sure : \E p \in done :
                 \/ p.how = "out" /\ [at |-> p.node, hs |-> p.hs] \in some
                 \/ p.how = "lost")

----------------------------------------------------------------------------
(***************************************************************************)
(* What the stacks rely on: what enters the fabric, and where.             *)
(***************************************************************************)
IsSeq(s) == s \in Seq(Range(s))

\* A header with the fields the stages read; its SRHs point into their lists.
WholeSrh(r) == {"list", "sl"} \subseteq DOMAIN r /\ IsSeq(r.list) /\ r.sl \in 0..Len(r.list)
WholeHeader(h) ==
    /\ "k" \in DOMAIN h
    /\ h.k = "mpls" => {"ttl", "s"} \subseteq DOMAIN h /\ h.ttl \in Nat \ {0} /\ h.s \in BOOLEAN
    /\ IsIp(h.k) => /\ {"hop", "srh"} \subseteq DOMAIN h /\ h.hop \in Int
                    /\ IsSeq(h.srh) /\ \A j \in 1..Len(h.srh) : WholeSrh(h.srh[j])

\* Header g may follow h; a label, a VXLAN header or a frame's header carries
\* something.
MayFollow(h, g) == /\ h.k = "mpls" => (h.s <=> g.k # "mpls")
                   /\ h.k = "vxlan" => g.k = "eth"
Whole(hs) ==
    /\ IsSeq(hs) /\ hs # <<>>
    /\ \A i \in 1..Len(hs) : WholeHeader(hs[i])
    /\ \A i \in 1..Len(hs) - 1 : MayFollow(hs[i], hs[i + 1])
    /\ hs[Len(hs)].k \notin {"mpls", "vxlan", "eth"}

\* The packet is whole; the circuits of E-Lines lead to customers, who send
\* frames; label stacks and segment lists are lists.
Wired(s) ==
    /\ s.node \in Nodes /\ Whole(s.hs)
    /\ s.iif \in DOMAIN s.tbl[s.node].xconnect => Outer(s.hs).k = "eth"
    /\ \A n \in Nodes :
          /\ DOMAIN s.tbl[n].xconnect \cap Nodes = {}
          /\ \A i \in DOMAIN s.tbl[n].nh : IsSeq(s.tbl[n].nh[i].labels)
          /\ \A i \in DOMAIN s.tbl[n].encap : IsSeq(s.tbl[n].encap[i].segs)

ASSUME ScenarioAssumption == \A s \in Scenarios : Wired(s)
=============================================================================
