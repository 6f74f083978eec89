------------------------------ MODULE Overlay ------------------------------
(***************************************************************************)
(* Several EVPN nodes and the customers attached to them.  The control     *)
(* plane calls each node's gRPC service (Cradle in cradle/src/control.rs)  *)
(* in whatever order its routes arrive; calls of one node run concurrently *)
(* where the code releases its locks.  What a frame then meets is a        *)
(* function of the nodes' tables: Copies.                                  *)
(***************************************************************************)
EXTENDS Segments

CONSTANTS Nodes,      \* the EVPN nodes; a node is its own underlay neighbour
          Scenarios,  \* the networks and the calls to explore
          MaxHash     \* flow hashes are 0..MaxHash

ASSUME NoneAssumption == /\ None \notin [idx : Nat, group : {None}]
                         /\ None # SlotRow(0, {}, "root")

VARIABLES scn,    \* the scenario
          setup,  \* the calls still to be made one after another
          todo,   \* the calls still to be made in any order
          busy,   \* calls under way
          pe      \* the nodes [t, c]

vars == <<scn, setup, todo, busy, pe>>

\* A scenario: pe, the nodes at the start; setup and todo, the calls, each
\* with its node n; ces, the customers: mac, at (the <<node, port>> it is
\* attached to), from (those it sends through), leaf; sends, the pairs of
\* customers whose unicast is looked at.
Init == /\ scn \in Scenarios
        /\ setup = scn.setup /\ todo = scn.todo
        /\ busy = {} /\ pe = scn.pe

----------------------------------------------------------------------------
\* Making a call: the next of the setup, or any of the others once that is
\* done.
Taken(k) ==
    \/ setup # <<>> /\ busy = {} /\ k = Head(setup) /\ setup' = Tail(setup) /\ UNCHANGED todo
    \/ setup = <<>> /\ k \in todo /\ todo' = todo \ {k} /\ UNCHANGED setup

Put(k, node) == pe' = [pe EXCEPT ![k.n] = node]
N(k) == pe[k.n]

\* A call that is one critical section.
Atomic(k, op, node) ==
    /\ k.op = op
    /\ Taken(k)
    /\ Put(k, node)
    /\ UNCHANGED <<scn, busy>>

\* A call of several: a record of the call, the section it is at, and what it
\* carries from one to the next.
At(k, pc, idx, more) == [k |-> k, pc |-> pc, idx |-> idx, more |-> more]
Begin(k, b) == Taken(k) /\ busy' = busy \cup {b} /\ UNCHANGED scn
Refuse(k) == Taken(k) /\ UNCHANGED <<scn, busy, pe>>
GoOn(b, to) == busy' = (busy \ {b}) \cup {to} /\ UNCHANGED <<scn, setup, todo>>
Finish(b) == busy' = busy \ {b} /\ UNCHANGED <<scn, setup, todo>>

\* repl_slots is locked from the first to the last section of an addition.
SlotsLocked(n) == \E b \in busy : b.k.n = n /\ b.k.op = "addslot"

SlotKey(k) == <<k.addr, k.slot>>

\* add_repl_slot_auto and its flavours (add_repl_slot_auto_keyed): the check
\* against a BUM sentinel, then the slot's target, its restrictions, and last
\* its place in the flood list.  VXLAN needs the domain's VNI.
AddSlot(k) ==
    /\ k.op = "addslot" /\ ~SlotsLocked(k.n)
    /\ IF \/ SlotKey(k) \in DOMAIN N(k).c.slots \/ HasSentinel(N(k).t)
          \/ k.target.kind = "vxlan" /\ N(k).t.vlanVni = 0
       THEN Refuse(k)
       ELSE /\ Put(k, [N(k) EXCEPT !.c.next = @ + 2])
            /\ Begin(k, At(k, "program", N(k).c.next,
                           IF k.target.kind = "vxlan" THEN N(k).t.vlanVni ELSE k.target.aux))
\* Mistake: the slot joins the domain in the section that programs it.
AddSlotProgramJoins(b) ==
    /\ b.k.op = "addslot" /\ b.pc = "program"
    /\ LET n == ReplTargetAdd(N(b.k), b.idx, b.idx + 1, [b.k.target EXCEPT !.aux = b.more])
       IN  Put(b.k, [n EXCEPT !.t = L2MemberAdd(@, b.idx)])
    /\ GoOn(b, [b EXCEPT !.pc = "restrict"])
AddSlotProgram(b) ==
    /\ b.k.op = "addslot" /\ b.pc = "program"
    /\ Put(b.k, ReplTargetAdd(N(b.k), b.idx, b.idx + 1, [b.k.target EXCEPT !.aux = b.more]))
    /\ GoOn(b, [b EXCEPT !.pc = "restrict"])

\* The registry entry of a slot that joins.
Registered(n, k, idx) ==
    [n EXCEPT !.t = L2MemberAdd(@, idx),
              !.c.slots = Including(@, Row(SlotKey(k), [idx |-> idx, group |-> k.group]))]
Restricted(n, k, idx) ==
    IF k.group # None THEN SlotEsBind(n, k.group, idx, k.role)
    ELSE IF k.addr \in n.c.remotes
         THEN [n EXCEPT !.t = SlotEsSet(@, Row(idx, SlotRow(0, {}, "root")))] ELSE n

\* No segment id is free, or SLOT_ES is full: the slot has its target and may
\* have a row, and is in no registry.
Restricts(n, k, idx) ==
    IF k.group # None THEN SlotEsBinds(n, k.group, idx, k.role)
    ELSE k.addr \in n.c.remotes => SlotEsFits(n.t, Row(idx, SlotRow(0, {}, "root")))

AddSlotRestrict(b) ==
    /\ b.k.op = "addslot" /\ b.pc = "restrict"
    /\ Put(b.k, Restricted(N(b.k), b.k, b.idx))
    /\ IF Restricts(N(b.k), b.k, b.idx) THEN GoOn(b, [b EXCEPT !.pc = "join"]) ELSE Finish(b)
AddSlotJoin(b) ==
    /\ b.k.op = "addslot" /\ b.pc = "join"
    /\ Put(b.k, Registered(N(b.k), b.k, b.idx))
    /\ Finish(b)

\* del_repl_slot_auto: out of the registry, out of the flood list, then the
\* restrictions and, if they went, the target.
DelSlot(k) ==
    /\ k.op = "delslot" /\ ~SlotsLocked(k.n)
    /\ LET s == Get(N(k).c.slots, SlotKey(k))
       IN  IF s = None THEN Refuse(k)
           ELSE /\ Put(k, [N(k) EXCEPT !.c.slots = Without(@, {SlotKey(k)})])
                /\ Begin(k, At(k, "leave", s.idx, s.group))
DelSlotLeave(b) ==
    /\ b.k.op = "delslot" /\ b.pc = "leave"
    /\ Put(b.k, [N(b.k) EXCEPT !.t = L2MemberRemove(@, b.idx)])
    /\ GoOn(b, [b EXCEPT !.pc = IF b.more # None THEN "unbind" ELSE "clear"])
DelSlotUnbind(b) ==
    /\ b.k.op = "delslot" /\ b.pc = "unbind"
    /\ Put(b.k, SlotEsUnbind(N(b.k), b.more, b.idx))
    /\ IF SlotEsUnbinds(N(b.k), b.more, b.idx) THEN GoOn(b, [b EXCEPT !.pc = "clear"]) ELSE Finish(b)
DelSlotClear(b) ==
    /\ b.k.op = "delslot" /\ b.pc = "clear"
    /\ LET t == IF b.more = None THEN SlotEsSet(N(b.k).t, Row(b.idx, SlotRow(0, {}, "none")))
                ELSE N(b.k).t
       IN  Put(b.k, [N(b.k) EXCEPT !.t = [t EXCEPT !.replSid = Without(@, {b.idx, b.idx + 1})]])
    /\ Finish(b)

\* add_repl_slot and its flavours: the ends are devices, the flood end may be
\* a member already; then the restrictions.
AddStaticSlot(k) ==
    /\ k.op = "staticslot"
    /\ LET a == N(k).c.dev[k.flood]
           b == N(k).c.dev[k.encap]
       IN  IF \/ a = 0 \/ b = 0
              \/ a \in Range(N(k).t.members) /\ HasSentinel(N(k).t)
           THEN Refuse(k)
           ELSE /\ Put(k, ReplTargetAdd(N(k), a, b, k.target))
                /\ IF k.group = None THEN Taken(k) /\ UNCHANGED <<scn, busy>>
                   ELSE Begin(k, At(k, "bind", a, 0))
StaticSlotBind(b) ==
    /\ b.k.op = "staticslot"
    /\ Put(b.k, SlotEsBind(N(b.k), b.k.group, b.idx, b.k.role))
    /\ Finish(b)

\* set_etree_remote: the mark in etree_remotes, then the slot as it is found,
\* then the decap mark and the slot's row (program_etree_remote).  A full map
\* ends it there and the mark in etree_remotes is undone.
SetMember(s, a, in) == IF in THEN s \cup {a} ELSE s \ {a}
MarkRemote(k) ==
    /\ k.op = "remote"
    /\ IF (k.addr \in N(k).c.remotes) = k.on THEN Refuse(k)
       ELSE /\ Put(k, [N(k) EXCEPT !.c.remotes = SetMember(@, k.addr, k.on)])
            /\ Begin(k, At(k, "find", 0, 0))
\* Mistake: the slot is looked for while one is being made.
MarkRemoteFindEarly(b) ==
    /\ b.k.op = "remote" /\ b.pc = "find"
    /\ LET s == Get(N(b.k).c.slots, <<b.k.addr, "">>)
       IN  GoOn(b, [b EXCEPT !.pc = "program",
                             !.idx = IF s = None THEN 0 ELSE IF s.group # None THEN 0 ELSE s.idx])
    /\ UNCHANGED pe
MarkRemoteFind(b) ==
    /\ b.k.op = "remote" /\ b.pc = "find" /\ ~SlotsLocked(b.k.n)
    /\ LET s == Get(N(b.k).c.slots, <<b.k.addr, "">>)
       IN  GoOn(b, [b EXCEPT !.pc = "program",
                             !.idx = IF s = None THEN 0 ELSE IF s.group # None THEN 0 ELSE s.idx])
    /\ UNCHANGED pe
MarkRemoteProgram(b) ==
    /\ b.k.op = "remote" /\ b.pc = "program"
    /\ LET t == N(b.k).t
           marks == SetMember(t.vtepEtree, <<b.k.addr, Bd>>, b.k.on)
           room == marks \subseteq t.vtepEtree \/ Cardinality(marks) <= t.cap.vtepEtree
           marked == IF room THEN [t EXCEPT !.vtepEtree = marks] ELSE t
           row == Row(b.idx, SlotRow(0, {}, IF b.k.on THEN "root" ELSE "none"))
           slot == room /\ b.idx # 0
       IN  /\ Put(b.k, [N(b.k) EXCEPT !.t = IF slot THEN SlotEsSet(marked, row) ELSE marked])
           /\ IF room /\ (slot => SlotEsFits(marked, row)) THEN Finish(b)
              ELSE GoOn(b, [b EXCEPT !.pc = "undo"])
MarkRemoteUndo(b) ==
    /\ b.k.op = "remote" /\ b.pc = "undo"
    /\ Put(b.k, [N(b.k) EXCEPT !.c.remotes = SetMember(@, b.k.addr, ~b.k.on)])
    /\ Finish(b)

\* add_fdb_remote_es: the segment's id is read under one lock and used under
\* another.
AddFdbEs(k) ==
    LET c == EsEntry(N(k).c, k.esi)
    IN  /\ k.op = "fdbes"
        /\ IF c = None THEN Refuse(k)
           ELSE /\ Put(k, [N(k) EXCEPT !.c = c])
                /\ Begin(k, At(k, "add", c.es[k.esi].id, 0))
AddFdbEsAdd(b) ==
    /\ b.k.op = "fdbes"
    /\ Put(b.k, FdbOverlayAdd(N(b.k), b.k.mac, Entry("es", b.idx, None, 0, b.k.leaf)))
    /\ Finish(b)

Call(k) ==
    \/ Atomic(k, "segment", SetSegment(N(k), k)) \/ Atomic(k, "delsegment", DelSegment(N(k), k))
    \/ Atomic(k, "role", SetRole(N(k), k))       \/ Atomic(k, "peers", SetPeers(N(k), k))
    \/ Atomic(k, "nhg", SetNhg(N(k), k))
    \/ Atomic(k, "device", Device(N(k), k))
    \/ Atomic(k, "port", SetPort(N(k), k))       \/ Atomic(k, "domain", SetL2Domain(N(k), k))
    \/ Atomic(k, "etree", SetEtreeRole(N(k), k)) \/ Atomic(k, "rootonly", SetRootOnly(N(k), k))
    \/ Atomic(k, "leaflabel", SetLeafLabel(N(k), k))
    \/ Atomic(k, "leafarg", SetLeafArg(N(k), k))
    \/ Atomic(k, "fdb", AddFdbRemote(N(k), k))   \/ Atomic(k, "fdblocal", AddFdbLocal(N(k), k))
    \/ Atomic(k, "delfdb", DelFdbRemote(N(k), k))
    \/ AddSlot(k) \/ DelSlot(k) \/ AddStaticSlot(k) \/ MarkRemote(k) \/ AddFdbEs(k)

GoesOn(b) ==
    \/ AddSlotProgram(b) \/ AddSlotRestrict(b) \/ AddSlotJoin(b)
    \/ DelSlotLeave(b) \/ DelSlotUnbind(b) \/ DelSlotClear(b)
    \/ StaticSlotBind(b) \/ AddFdbEsAdd(b)
    \/ MarkRemoteFind(b) \/ MarkRemoteProgram(b) \/ MarkRemoteUndo(b)

Settled == setup = <<>> /\ todo = {} /\ busy = {}
Over == Settled /\ UNCHANGED vars

Next == \/ \E k \in todo \cup Range(setup) : Call(k)
        \/ \E b \in busy : GoesOn(b)
        \/ Over
Spec == Init /\ [][Next]_vars

----------------------------------------------------------------------------
\* The customers a frame reaches, and the way each copy went.

\* The far end of a slot is behind its flood end, and encapsulates (try_xdp).
Sent(t, port, f) == L2OverlayEncap(t, <<f>>, t.replSid[port], 0)

\* The copies on the customer ports of the node that a packet arrives at.
Arriving(v) ==
    LET t == pe[v.to].t
        in == Decap(t, v.hs)
        f == Outer(in.hs)
        ports == L2Switch(t, -1, f.dst, TRUE, in.meta.es)
    IN  IF v.do # "send" \/ in.meta.magic # "l2" THEN {}
        ELSE {<<v.to, ports[i]>> : i \in DOMAIN ports}

\* All copies of frame f that enters node n by port p: the way of each, ending
\* in <<node, port>>.
Copies(n, p, f, hash) ==
    LET t == Learn(pe[n].t, p, f.src)
        x == EvpnXdp(t, p, f, hash)
        ports == L2Switch(t, p, f.dst, FALSE, {})
        here == {i \in DOMAIN ports : Get(t.replSid, ports[i]) = None}
    IN  IF x.do # "pass" THEN {<<0, c>> : c \in Arriving(x)}
        ELSE {<<i, <<n, ports[i]>>>> : i \in here}
             \cup UNION {{<<i, c>> : c \in Arriving(Sent(t, ports[i], f))} :
                         i \in DOMAIN ports \ here}

\* The port of customer x at one of its attachments.
PortOf(at) == pe[at[1]].c.dev[at[2]]
Ces == DOMAIN scn.ces
To(x, copies) ==
    {c \in copies : \E at \in scn.ces[x].at : c[2] = <<at[1], PortOf(at)>>}

\* What customer x sends to mac.
FrameOf(x, mac) == Eth(mac, scn.ces[x].mac, 0)
Apart(x, y) == x # y /\ ~(scn.ces[x].leaf /\ scn.ces[y].leaf)

\* A customer y of a segment for which the node that a broadcast enters is not
\* the forwarder, while the node that is takes all that comes from there for
\* the segment's own (VTEP_ES).
Withheld(at, y) ==
    \E here, there \in scn.ces[y].at :
        /\ here[1] = at[1] /\ NonDf(pe[at[1]].t, PortOf(here))
        /\ there[1] # at[1]
        /\ PeerPort(pe[there[1]].t, PortOf(there), VtepEs(pe[there[1]].t, pe[at[1]].t.src))

\* Once the control plane has told every node everything, in whatever order, a
\* broadcast reaches every other customer exactly once, by whichever node it
\* enters: none is duplicated, none comes back to its own segment, no leaf hears
\* a leaf, and none is lost between the filters but one.  Over VXLAN and SRv6 a
\* broadcast that enters at a node that is not the forwarder of y's segment
\* never reaches y: flood withholds it there (es_non_df), and at the forwarder
\* as well (es_peer_port), for which "that peer PE already delivered the frame".
BroadcastOnce ==
    Settled => \A x, y \in Ces : \A at \in scn.ces[x].from :
        Cardinality(To(y, Copies(at[1], PortOf(at), FrameOf(x, Bum), 0)))
            = IF Apart(x, y) /\ ~Withheld(at, y) THEN 1 ELSE 0

\* And a frame to a known station reaches that customer exactly once, by
\* whichever member of its segment's group the flow is hashed to, and no one
\* else.
UnicastOnce ==
    Settled => \A s \in scn.sends : \A at \in scn.ces[s[1]].from : \A h \in 0..MaxHash :
        LET copies == Copies(at[1], PortOf(at), FrameOf(s[1], scn.ces[s[2]].mac), h)
        IN  \A y \in Ces : Cardinality(To(y, copies))
                = IF y = s[2] /\ Apart(s[1], y) THEN 1 ELSE 0

\* A node that has been told that a remote node wants no leaf's frames sends it
\* none, however slots come and go: the mark is on the slot before the slot is
\* in the flood list.  (The mark's own call, and the slot's removal, are over.)
LeavesKeptIn ==
    \A n \in Nodes : \A i \in DOMAIN pe[n].t.members :
        LET port == pe[n].t.members[i]
            target == Get(pe[n].t.replSid, port)
            marked == /\ target # None /\ target.kind = "vxlan"
                      /\ target.addr \in pe[n].c.remotes
                      /\ \A b \in busy : b.k.n = n => b.k.op \notin {"remote", "delslot"}
        IN  marked => ~AffinityOk(pe[n].t, port, 0, TRUE)

\* A segment's id is its own, and a row of PORT_ES, VTEP_ES, ES_NHG, ESI_LABEL or
\* ES_DF is remembered by the segment it is about, which takes it out when it
\* is deleted: it does not pass to the next segment that is given the id,
\* whatever calls failed, shared a port or came too late.  The exception is what
\* an es_render that finds ES_DF, PORT_ES or VTEP_ES full has put in: those
\* rows nobody takes out.  (SLOT_ES rows and FDB entries hold ids too, and keep a
\* freed one: this says nothing of them.)
IdsInUse ==
    \A n \in Nodes :
        LET t == pe[n].t
            c == pe[n].c
            ids == {c.es[e].id : e \in DOMAIN c.es}
        IN  /\ \A e, f \in DOMAIN c.es : c.es[e].id = c.es[f].id => e = f
            /\ \A i \in DOMAIN t.portEs \ c.lostPorts : \E e \in DOMAIN c.es :
                  c.es[e].id = t.portEs[i] /\ i \in c.es[e].portRows
            /\ \A a \in DOMAIN t.vtepEs \ c.lostPeers : \A id \in t.vtepEs[a] :
                  \E e \in DOMAIN c.es : c.es[e].id = id /\ a \in c.es[e].peerRows
            /\ DOMAIN t.nhg \subseteq ids /\ Range(t.esiLabel) \subseteq ids
            /\ \A i \in DOMAIN t.esDf \ c.lostPorts : \E e \in DOMAIN c.es : i \in c.es[e].dfRows

\* PORT_ETREE has the rows that etree_render remembers and no other, and a port
\* that set_port has put in PORTS is a leaf of the datapath exactly if it has the
\* role: whether the role or the port came first, and however often the device
\* is made again with another ifindex.  A port whose call found PORT_ETREE full
\* is not marked.
LeafRows ==
    \A n \in Nodes :
        LET t == pe[n].t
            c == pe[n].c
        IN  /\ t.portEtree = Range(c.etreeRows)
            /\ \A p \in DOMAIN c.dev : c.dev[p] \in DOMAIN t.ports =>
                  (c.dev[p] \in t.portEtree <=> p \in c.leaves \ c.unmarked)

\* A call for the leaf-only mark of a node, to be made while slots come and go.
MarkAsked(n, addr) == \E k \in scn.todo : k.op = "remote" /\ k.on /\ k.n = n /\ k.addr = addr

\* Once the calls are over, a SLOT_ES row is that of a slot that still has its
\* target, but for the root-only row that a mark writes for a slot it has found
\* and that is gone when it gets there.  The row of a slot over VXLAN is there if
\* its node is marked and only then, in whatever order the mark, its removal and
\* the slot came, or if a mark that has been undone was seen by the slot.
SlotRowsOwned ==
    Settled => \A n \in Nodes :
        LET t == pe[n].t
            c == pe[n].c
            root(i) == Get(t.slotEs, i) = SlotRow(0, {}, "root")
            overrun == \E k \in scn.todo : k.op = "delslot" /\ k.n = n /\ MarkAsked(n, k.addr)
        IN  /\ \A i \in DOMAIN t.slotEs \ DOMAIN t.replSid : root(i) /\ overrun
            /\ \A key \in DOMAIN c.slots :
                  LET s == c.slots[key]
                      marked == key[1] \in c.remotes
                  IN  s.group = None =>
                        /\ marked => root(s.idx)
                        /\ root(s.idx) => marked \/ MarkAsked(n, key[1])

----------------------------------------------------------------------------
(***************************************************************************)
(* What the marks rely on: how calls are made.                             *)
(***************************************************************************)
IsFcn(f) == f = [x \in DOMAIN f |-> f[x]]

\* A node of which nothing has been asked: no member, no slot, no mark, and
\* devices with indexes below the next one.
Unused(node) ==
    LET t == node.t
        c == node.c
    IN  /\ node = [t |-> t, c |-> c] /\ IsFcn(t) /\ IsFcn(c) /\ IsFcn(c.dev)
        /\ {"members", "slotEs", "replSid"} \subseteq DOMAIN t
        /\ {"slots", "remotes", "groups", "next", "dev"} \subseteq DOMAIN c
        /\ t.members = <<>> /\ c.remotes = {}
        /\ DOMAIN t.replSid = {} /\ DOMAIN c.slots = {} /\ DOMAIN c.groups = {}
        /\ c.next \in Nat \ {0} /\ IsFiniteSet(DOMAIN c.dev)
        /\ \A p \in DOMAIN c.dev : c.dev[p] \in 0..c.next - 1

\* A call as gRPC makes it: ports have names, a slot over VXLAN is keyed by its
\* VTEP and in no group (add_repl_slot_auto_vxlan), other slots are in one.  A
\* slot on devices of the operator is not over VXLAN: marks do not reach it.
IsTarget(a) == a = [kind |-> a.kind, extra |-> a.extra, addr |-> a.addr, aux |-> a.aux]
CallMade(k, names) ==
    /\ k.op = "addslot" => /\ IsTarget(k.target)
                           /\ k.group = None <=> k.target.kind = "vxlan"
                           /\ k.group = None => k.slot = "" /\ k.addr = k.target.addr
    /\ k.op = "staticslot" => /\ IsTarget(k.target) /\ k.target.kind # "vxlan"
                              /\ {k.flood, k.encap} \subseteq names
    /\ k.op = "domain" => k.ports \subseteq names
    /\ k.op \in {"device", "port", "etree"} => k.port \in names
    /\ k.op = "remote" => k.on \in BOOLEAN

\* Marks of one remote node are set and removed one after another: a mark of
\* the setup is over before the calls of todo begin.
MarksApart(s) ==
    /\ \A k, l \in s.todo :
          k.op = "remote" /\ l.op = "remote" /\ k.n = l.n /\ k.addr = l.addr => k = l
    /\ s.setup # <<>> => s.setup[Len(s.setup)].op # "remote"

Orderly(s) ==
    /\ s.setup \in Seq(Range(s.setup))
    /\ IsFcn(s.pe) /\ DOMAIN s.pe = Nodes /\ \A n \in Nodes : Unused(s.pe[n])
    /\ \A k \in s.todo \cup Range(s.setup) :
          k.n \in Nodes /\ CallMade(k, DOMAIN s.pe[k.n].c.dev)
    /\ MarksApart(s)

\* A node that has no segment and no leaf, and whose devices have indexes of
\* their own.
Bare(node) ==
    LET t == node.t
        c == node.c
    IN  /\ {"nhg", "esDf", "portEs", "vtepEs", "esiLabel", "portEtree", "ports"} \subseteq DOMAIN t
        /\ {"es", "vtepBits", "lostPorts", "lostPeers", "leaves", "etreeRows", "unmarked"}
              \subseteq DOMAIN c
        /\ IsFcn(c.es) /\ DOMAIN c.es = {} /\ DOMAIN c.vtepBits = {}
        /\ DOMAIN t.nhg = {} /\ DOMAIN t.esDf = {} /\ DOMAIN t.portEs = {}
        /\ DOMAIN t.vtepEs = {} /\ DOMAIN t.esiLabel = {} /\ DOMAIN t.ports = {}
        /\ t.portEtree = {} /\ c.leaves = {} /\ DOMAIN c.etreeRows = {}
        /\ c.lostPorts = {} /\ c.lostPeers = {} /\ c.unmarked = {}
        /\ \A p, q \in DOMAIN c.dev : c.dev[p] = c.dev[q] /\ c.dev[p] # 0 => p = q
FromBare(s) == Orderly(s) /\ \A n \in Nodes : Bare(s.pe[n])

=============================================================================
