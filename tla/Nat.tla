-------------------------------- MODULE Nat --------------------------------
(***************************************************************************)
(* Packets through the L4 stages of the datapath of one node (try_main,    *)
(* l4_nat_v4/v6, masq_v4, pct_track, the egress check of l3_forward, and   *)
(* cradle_egress) while services change.  A packet takes no lock; every    *)
(* step below is one access to a shared map.                               *)
(*                                                                         *)
(* CT records a translated flow as two rows, one for each direction, by    *)
(* two inserts; AFFINITY the slot of a client; PCT the flows whose replies *)
(* pass network policy.  CT is an LRU map: when it is full, an insert      *)
(* evicts a row nobody asked to remove.  PCT, an LRU map as well, is taken *)
(* to be large enough: an answer it forgets is judged by the rules alone.  *)
(*                                                                         *)
(* Clients open the flows of Flows and may send any of their packets       *)
(* again; whoever received a packet of a flow may answer it.  A pod sends  *)
(* through its veth (cradle_tc of an endpoint port), an outside host       *)
(* through the uplink (cradle_tc), the node itself through neither; what   *)
(* leaves towards a pod or a host passes cradle_egress of that port.       *)
(* Routes and rules do not change here (see Dir24 and Policy).             *)
(***************************************************************************)
EXTENDS Services

CONSTANTS Cpus,             \* packets in flight, one per CPU
          Pods,             \* addresses of local pods
          Node,             \* the node's own address
          Flows,            \* what clients open: [src, dst] of their packets
          Servers,          \* ends that answer
          Ip6,              \* addresses that are IPv6
          NonMasq,          \* addresses NON_MASQ covers
          MasqOn,           \* MASQ_CFG names the node
          EnforcedIn, EnforcedOut,   \* pods with ingress, egress enforcement
          AllowIn, AllowOut,         \* <<pod, peer address>> that a rule allows
          CtSize            \* capacity of CT (65536)

Tuple == [src : Ends, dst : Ends]
Rev(t) == [src |-> t.dst, dst |-> t.src]
Addrs == {e.addr : e \in Ends}
Hosts == (Addrs \ {v.addr : v \in Vips}) \ (Pods \cup {Node})

ASSUME EndsAssumption ==
    \A e \in Ends : e = [addr |-> e.addr, port |-> e.port]
                    /\ [addr |-> Node, port |-> e.port] \in Ends
ASSUME FlowsAssumption == Flows \subseteq Tuple
ASSUME CtAssumption == CtSize \in Nat \ {0}

\* A row of CT: which side of the packet is rewritten, and to what.
CtEntry == [flag : {"dnat", "snat"}, rev : Ends]

VARIABLES ct,         \* CT, CT6: tuple -> row
          evicted,    \* history: keys evicted from CT and not inserted since
          affinity,   \* AFFINITY: (svc_id, client) -> slot
          pct,        \* PCT, PCT6: recorded tuples
          rcvd,       \* requests servers have received: [t, flow]
          pkt         \* pkt[c]: the packet on CPU c

pvars == <<ct, evicted, affinity, pct, rcvd>>
nvars == <<svars, pvars, pkt>>

NoSlot == MaxSlots
NoTuple == [src |-> NoEnd, dst |-> NoEnd]
NoPkt == [pc |-> "idle", t |-> NoTuple, flow |-> NoTuple, reply |-> FALSE,
          from |-> "none", info |-> NoService, slot |-> NoSlot, flag |-> "dnat",
          be |-> NoEnd, seen |-> {}, steady |-> TRUE, hole |-> FALSE,
          excused |-> FALSE]

NInit ==
    /\ SInit
    /\ ct = [k \in {} |-> NoEnd]
    /\ evicted = {}
    /\ affinity = [a \in Ids \X Addrs |-> NoSlot]
    /\ pct = {} /\ rcvd = {}
    /\ pkt = [c \in Cpus |-> NoPkt]

Range(s) == {s[i] : i \in DOMAIN s}

-----------------------------------------------------------------------------
(***************************************************************************)
(* Translation.                                                            *)
(***************************************************************************)
\* dnat and snat rewrite one side of a packet.
Rewrite(t, e) == IF e.flag = "dnat" THEN [t EXCEPT !.dst = e.rev]
                                    ELSE [t EXCEPT !.src = e.rev]

\* The two rows of a new flow: what its packets become, and, under the tuple
\* of the answer, how to undo it.
Forward(p) == [flag |-> p.flag, rev |-> p.be]
BackKeySame(p) == Rewrite(p.t, Forward(p))   \* mistake: not reversed
BackKey(p) == Rev(Rewrite(p.t, Forward(p)))
BackToServer(p) ==   \* mistake: undone with the destination, whatever was done
    [flag |-> IF p.flag = "dnat" THEN "snat" ELSE "dnat", rev |-> p.t.dst]
Back(p) == IF p.flag = "dnat" THEN [flag |-> "snat", rev |-> p.t.dst]
                              ELSE [flag |-> "dnat", rev |-> p.t.src]

\* A packet that has yet to insert the row under key k.
Pending(k) == \E c \in Cpus : pkt[c].pc = "back" /\ BackKey(pkt[c]) = k

\* A client port is in use for two flows that CT cannot tell apart: one
\* client end towards two services, or two pods that masquerade as one.
Collides(f, g) ==
    /\ f # g
    /\ \/ f.src = g.src
       \/ /\ f.dst = g.dst /\ f.dst \notin Vips
          /\ {f.src.addr, g.src.addr} \subseteq Pods /\ f.src.port = g.src.port
Alone(f) == \A g \in Flows : ~Collides(f, g)

CtInsert(k, e) ==
    \E out \in IF k \in DOMAIN ct \/ Cardinality(DOMAIN ct) < CtSize
               THEN {{}} ELSE {{v} : v \in DOMAIN ct} :
        /\ ct' = [x \in (DOMAIN ct \ out) \cup {k} |-> IF x = k THEN e ELSE ct[x]]
        /\ evicted' = (evicted \cup out) \ {k}

-----------------------------------------------------------------------------
(***************************************************************************)
(* Policy: PCT lets answers pass; else a rule has to allow the peer.       *)
(***************************************************************************)
Denied(allow, ep, peer, t) == Rev(t) \notin pct /\ <<ep, peer>> \notin allow

-----------------------------------------------------------------------------
(***************************************************************************)
(* cradle_tc: the ingress hook of a pod's veth or of the uplink.           *)
(***************************************************************************)
Step(c, p) == pkt' = [pkt EXCEPT ![c] = p]

Arrive(c, t, flow, reply) ==
    /\ pkt[c].pc \in {"idle", "delivered", "dropped", "lost"}
    /\ Step(c, [NoPkt EXCEPT
          !.pc = IF t.src.addr = Node THEN "out"
                 ELSE IF t.src.addr \in Pods THEN "track" ELSE "ct",
          !.t = t, !.flow = flow, !.reply = reply, !.from = t.src.addr])
    /\ UNCHANGED <<svars, pvars>>

Send(c) == \E f \in Flows : Arrive(c, f, f, FALSE)
Answer(c) == \E x \in rcvd : Arrive(c, Rev(x.t), x.flow, TRUE)

\* pct_track (PCT_POD_INITIATED), before any translation.
Track(c) ==
    /\ pkt[c].pc = "track"
    /\ pct' = pct \cup {pkt[c].t}
    /\ Step(c, [pkt[c] EXCEPT !.pc = "ct"])
    /\ UNCHANGED <<svars, ct, evicted, affinity, rcvd>>

\* An answer that finds no row because it was evicted or is not there yet.
Excuse(p) == p.excused \/ (p.reply /\ (p.t \in evicted \/ Pending(p.t)))

\* l4_nat: a flow with a row is translated as recorded, ...
CtLookup(c) ==
    LET p == pkt[c]
    IN  /\ p.pc = "ct"
        /\ IF p.t \in DOMAIN ct
           THEN Step(c, [p EXCEPT !.pc = "policy", !.t = Rewrite(p.t, ct[p.t])])
           ELSE Step(c, [p EXCEPT !.pc = "svc", !.excused = Excuse(p)])
        /\ UNCHANGED <<svars, pvars>>

\* masq_v4: a pod's packet to the outside takes the node's address and
\* keeps its port.
Masquerades(p) ==
    /\ p.from \in Pods /\ MasqOn
    /\ p.t.dst.addr \notin NonMasq \cup Ip6

\* The slots l4_nat_v4 and l4_nat_v6 choose from; only the former knows
\* affinity.
Affine(p) == p.info.affinity /\ p.t.src.addr \notin Ip6
FreshSlots(p) == 0 .. (p.info.count - 1)

\* history: the backends the service was asked to have while it is looked
\* up, and whether nothing happened to it meanwhile.
SeenNow(v) == Range(want[v]) \cup
                (IF call.op = "add" /\ call.vip = v THEN Range(call.was) ELSE {})
SteadyNow(v) == v \notin failed /\ (call.op # "none" => call.vip # v)

\* ... a new one is looked up in SERVICES, ...
SvcLookup(c) ==
    LET p == pkt[c]
        v == p.t.dst
        found == [p EXCEPT !.info = services[v], !.seen = SeenNow(v),
                           !.steady = SteadyNow(v)]
    IN  /\ p.pc = "svc"
        /\ \/ /\ v \notin Installed /\ ~Masquerades(p)
              /\ Step(c, [p EXCEPT !.pc = "policy"])
           \/ /\ v \notin Installed /\ Masquerades(p)
              /\ Step(c, [p EXCEPT !.pc = "forward", !.flag = "snat",
                                   !.be = [addr |-> Node, port |-> p.t.src.port]])
           \/ /\ v \in Installed /\ services[v].count = 0
              /\ Step(c, [p EXCEPT !.pc = "policy"])
           \/ /\ v \in Installed /\ services[v].count # 0
              /\ IF Affine(found)
                 THEN Step(c, [found EXCEPT !.pc = "sticky"])
                 ELSE \E s \in FreshSlots(found) :
                        Step(c, [found EXCEPT !.pc = "backend", !.slot = s])
        /\ UNCHANGED <<svars, pvars>>

\* ... a client with a slot that is in range gets it again, ...
AffinityLookup(c) ==
    LET p == pkt[c]
        slot == affinity[<<p.info.id, p.t.src.addr>>]
    IN  /\ p.pc = "sticky"
        /\ \E s \in IF slot < p.info.count THEN {slot} ELSE FreshSlots(p) :
              Step(c, [p EXCEPT !.pc = "stick", !.slot = s])
        /\ UNCHANGED <<svars, pvars>>

AffinityRecord(c) ==
    LET p == pkt[c]
    IN  /\ p.pc = "stick"
        /\ affinity' = [affinity EXCEPT ![<<p.info.id, p.t.src.addr>>] = p.slot]
        /\ Step(c, [p EXCEPT !.pc = "backend"])
        /\ UNCHANGED <<svars, ct, evicted, pct, rcvd>>

Looked(p) == [p EXCEPT !.info = NoService, !.slot = NoSlot]

\* ... the backend is read (a slot without a row leaves the packet as it
\* is), ...
BackendLookup(c) ==
    LET p == pkt[c]
        be == backends[<<p.info.id, p.slot>>]
    IN  /\ p.pc = "backend"
        /\ Step(c, IF be = NoEnd
                   THEN [Looked(p) EXCEPT !.pc = "policy", !.seen = {}, !.hole = TRUE]
                   ELSE [Looked(p) EXCEPT !.pc = "forward", !.flag = "dnat", !.be = be])
        /\ UNCHANGED <<svars, pvars>>

\* ... and the flow recorded, first the packet's own direction, then the
\* answer's.
InsertForward(c) ==
    /\ pkt[c].pc = "forward"
    /\ CtInsert(pkt[c].t, Forward(pkt[c]))
    /\ Step(c, [pkt[c] EXCEPT !.pc = "back", !.seen = {}, !.steady = TRUE])
    /\ UNCHANGED <<svars, affinity, pct, rcvd>>

InsertBack(c) ==
    LET p == pkt[c]
    IN  /\ p.pc = "back"
        /\ CtInsert(BackKey(p), Back(p))
        /\ Step(c, [p EXCEPT !.pc = "policy", !.t = Rewrite(p.t, Forward(p)),
                             !.be = NoEnd, !.flag = "dnat"])
        /\ UNCHANGED <<svars, affinity, pct, rcvd>>

\* Whoever listens at the destination has it; nobody listens at a VIP.
Deliver(c, p) ==
    /\ Step(c, [p EXCEPT !.pc = "delivered"])
    /\ rcvd' = IF ~p.reply /\ p.t.dst \in Servers
               THEN rcvd \cup {[t |-> p.t, flow |-> p.flow]} ELSE rcvd

\* l3_forward: egress policy of the sending pod on the translated packet,
\* then the route.
EgressPolicy(c) ==
    LET p == pkt[c]
    IN  /\ p.pc = "policy"
        /\ IF p.from \in EnforcedOut /\ Denied(AllowOut, p.from, p.t.dst.addr, p.t)
           THEN Step(c, [p EXCEPT !.pc = "dropped"]) /\ UNCHANGED rcvd
           ELSE IF p.t.dst.addr = Node
           THEN Deliver(c, p)
           ELSE /\ Step(c, [p EXCEPT !.pc = IF p.t.dst.addr \in Pods \cup Hosts
                                            THEN "out" ELSE "lost"])
                /\ UNCHANGED rcvd
        /\ UNCHANGED <<svars, ct, evicted, affinity, pct>>

-----------------------------------------------------------------------------
(***************************************************************************)
(* cradle_egress: the egress hook of a pod's veth or of the uplink.        *)
(***************************************************************************)
\* Mistake: the node's own answers are left alone.
ReverseSnatMissing(c) ==
    /\ pkt[c].pc = "out"
    /\ Step(c, [pkt[c] EXCEPT !.pc = "admit"])
    /\ UNCHANGED <<svars, pvars>>

\* egress_reverse_snat, for answers of the node's own stack; IPv4 only.
ReverseSnat(c) ==
    LET p == pkt[c]
        hit == /\ p.t \in DOMAIN ct /\ ct[p.t].flag = "snat"
               /\ p.t.src.addr \notin Ip6
    IN  /\ p.pc = "out"
        /\ Step(c, [p EXCEPT
              !.pc = "admit",
              !.t = IF hit THEN Rewrite(p.t, ct[p.t]) ELSE p.t,
              !.excused = IF p.from = Node /\ ~hit THEN Excuse(p) ELSE @])
        /\ UNCHANGED <<svars, pvars>>

\* ingress_policy: the verdict of the receiving pod, ...
IngressPolicy(c) ==
    LET p == pkt[c]
        ep == p.t.dst.addr
    IN  /\ p.pc = "admit"
        /\ IF ep \in EnforcedIn /\ Denied(AllowIn, ep, p.t.src.addr, p.t)
           THEN Step(c, [p EXCEPT !.pc = "dropped"]) /\ UNCHANGED rcvd
           ELSE IF ep \in EnforcedOut
           THEN Step(c, [p EXCEPT !.pc = "record"]) /\ UNCHANGED rcvd
           ELSE Deliver(c, p)
        /\ UNCHANGED <<svars, ct, evicted, affinity, pct>>

\* ... and the record of the admitted flow (PCT_INBOUND).
RecordInbound(c) ==
    /\ pkt[c].pc = "record"
    /\ pct' = pct \cup {pkt[c].t}
    /\ Deliver(c, pkt[c])
    /\ UNCHANGED <<svars, ct, evicted, affinity>>

\* A client's slot is given up: AFFINITY_TIMEOUT_NS without a new flow, or
\* the LRU took it.
AffinityExpire ==
    /\ \E a \in DOMAIN affinity :
          affinity[a] # NoSlot /\ affinity' = [affinity EXCEPT ![a] = NoSlot]
    /\ UNCHANGED <<svars, ct, evicted, pct, rcvd, pkt>>

\* A step of user space, noted by the packets that are looking at the
\* service.
ControlStep ==
    /\ SNext
    /\ pkt' = [c \in Cpus |->
         IF pkt[c].pc \notin {"sticky", "stick", "backend"} THEN pkt[c]
         ELSE [pkt[c] EXCEPT
                 !.seen = @ \cup Range(want'[pkt[c].t.dst]),
                 !.steady = @ /\ (call'.op # "none" => call'.vip # pkt[c].t.dst)]]
    /\ UNCHANGED pvars

PacketStep(c) ==
    \/ Send(c) \/ Answer(c) \/ Track(c) \/ CtLookup(c) \/ SvcLookup(c)
    \/ AffinityLookup(c) \/ AffinityRecord(c) \/ BackendLookup(c)
    \/ InsertForward(c) \/ InsertBack(c) \/ EgressPolicy(c)
    \/ ReverseSnat(c) \/ IngressPolicy(c) \/ RecordInbound(c)

NNext == ControlStep \/ AffinityExpire \/ \E c \in Cpus : PacketStep(c)
NSpec == NInit /\ [][NNext]_nvars

-----------------------------------------------------------------------------
(***************************************************************************)
(* Properties.                                                             *)
(***************************************************************************)
\* Types.
Stages == {"idle", "track", "ct", "svc", "sticky", "stick", "backend", "forward",
           "back", "policy", "out", "admit", "record", "delivered", "dropped", "lost"}
Pkt == [pc : Stages,
        t : Tuple \cup {NoTuple}, flow : Flows \cup {NoTuple}, reply : BOOLEAN,
        from : Addrs \cup {"none"}, info : ServiceInfo \cup {NoService},
        slot : 0 .. MaxSlots, flag : {"dnat", "snat"}, be : Ends \cup {NoEnd},
        seen : SUBSET Ends, steady : BOOLEAN, hole : BOOLEAN, excused : BOOLEAN]

NatTypeOK ==
    /\ ServicesTypeOK
    /\ ct \in [DOMAIN ct -> CtEntry] /\ DOMAIN ct \subseteq Tuple
    /\ evicted \subseteq Tuple /\ evicted \cap DOMAIN ct = {}
    /\ affinity \in [Ids \X Addrs -> 0 .. MaxSlots]
    /\ pct \subseteq Tuple
    /\ rcvd \subseteq [t : Tuple, flow : Flows]
    /\ pkt \in [Cpus -> Pkt]
    /\ \A c \in Cpus : pkt[c].pc # "idle" => pkt[c].t \in Tuple

\* A new flow to a VIP goes to a backend its service was asked to have while
\* the packet looked it up, whatever the control plane does between the
\* packet's loads; it finds a slot without a backend only if a call for the
\* VIP was under way or had failed.
PicksOwnBackend ==
    \A c \in Cpus : LET p == pkt[c] IN
        /\ p.pc = "forward" /\ p.flag = "dnat" => p.be \in p.seen
        /\ p.hole => ~p.steady

\* The row of a flow has the row of its answers, which undoes it: unless
\* that one was evicted or is about to be inserted, or the client's port is
\* in use for two flows that CT cannot tell apart.
Paired ==
    \A k \in DOMAIN ct \cap Flows :
        LET back == Rev(Rewrite(k, ct[k]))
        IN  \/ back \in evicted \/ Pending(back) \/ ~Alone(k)
            \/ back \in DOMAIN ct /\ Rewrite(back, ct[back]) = Rev(k)

\* What a client receives in answer to a flow has its own address and port
\* as destination and the one it addressed, VIP or outside host, as source
\* ("Reverse: backend->client rewrites the source back to the VIP").
RepliesRestored ==
    \A c \in Cpus : LET p == pkt[c] IN
        p.pc = "delivered" /\ p.reply /\ ~p.excused /\ Alone(p.flow)
            => p.t = Rev(p.flow)

\* "the pod's replies bypass its egress rules", "replies bypass the pod's
\* ingress rules" (policy.md): network policy drops no answer to a packet it
\* admitted, for flows that no service of this node translates or that a pod
\* of this node opened.  (An outside client's flow through a service is
\* recorded behind the translation and its answer looked up in front of it.)
RepliesPass ==
    \A c \in Cpus : LET p == pkt[c] IN
        p.pc = "dropped" /\ p.reply
            => \/ p.excused \/ ~Alone(p.flow)
               \/ p.flow.dst \in Vips /\ p.flow.src.addr \notin Pods

-----------------------------------------------------------------------------
(***************************************************************************)
(* What the answers rely on: the ends of Flows, and the configuration.     *)
(***************************************************************************)
BackendEnds == UNION {Range(r.backends) : r \in Requests}
ClientEnds == {f.src : f \in Flows}
ServerEnds == {f.dst : f \in Flows} \cup Vips \cup BackendEnds
NodeEnd(f) == [addr |-> Node, port |-> f.src.port]
MasqEnds == {NodeEnd(f) : f \in {g \in Flows : g.src.addr \in Pods}}

\* Clients use ports of their own, on the node too; no service is another's
\* backend.
EndsApart ==
    /\ (ClientEnds \cup MasqEnds) \cap ServerEnds = {}
    /\ ClientEnds \cap MasqEnds = {}
    /\ BackendEnds \cap Vips = {}

\* NON_MASQ has the pods, the services and the fabric, clients included.
ClusterKept ==
    MasqOn => Pods \cup {Node} \cup {e.addr : e \in Vips \cup ClientEnds}
                \subseteq NonMasq \cup Ip6

\* Policy is enforced on pods; the node's own address is IPv4.
PolicyOnPods == EnforcedIn \cup EnforcedOut \subseteq Pods /\ Node \notin Pods \cup Ip6

Topology == EndsApart /\ ClusterKept /\ PolicyOnPods
=============================================================================
