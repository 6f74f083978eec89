------------------------------ MODULE Segments -----------------------------
(***************************************************************************)
(* The control state of a multihoming EVPN node and how it is rendered     *)
(* into the tables of Bridge: Ethernet Segments, E-Tree roles, replication *)
(* slots and their groups, overlay FDB entries (cradle/src/control.rs and  *)
(* dataplane.rs).                                                          *)
(*                                                                         *)
(* A node is [t, c]: its tables and its control state.  c has dev (the     *)
(* ifindex of every port name, 0: no such device), next (the next ifindex),*)
(* es and vtepBits (EsTable), leaves and etreeRows (EtreeTable), remotes   *)
(* (etree_remotes), groups (slot_groups), slots (repl_slots), and leafLabel*)
(* and leafArg; and, as history, what calls that found a map full left:    *)
(* lostPorts and lostPeers (keys of rows that no segment remembers) and    *)
(* unmarked (leaves without a row).  An operator is what one critical      *)
(* section does to a node; None stands for an error before any of it.      *)
(*                                                                         *)
(* A map is full when it has t.cap of this domain's rows: the other domains*)
(* of the node have the rest.  REPL_SID, L2_MEMBERS, FDB, ES_NHG_MEMBER and*)
(* the leaf labels and arguments always have room.                         *)
(***************************************************************************)
EXTENDS Bridge

CONSTANT MaxEsId   \* MAX_ES_ID (62): segment ids are 0..MaxEsId
ASSUME IdsAssumption == MaxEsId \in Nat

\* EsState: what the control plane said of a segment (ports, role, peers, the
\* aliasing group, the ESI label), and the rows it has in the tables.
NewEs(id) == [id |-> id, ports |-> {}, role |-> None, peers |-> {}, nhg |-> None, label |-> 0,
              dfRows |-> {}, portRows |-> {}, peerRows |-> {}, nhgRow |-> FALSE, labelRow |-> 0]

Without(f, keys) == [k \in DOMAIN f \ keys |-> f[k]]

\* Rows go into a map one after another, in some order, until one that is new
\* finds it full.
Fits(f, keys, room) == keys \subseteq DOMAIN f \/ Cardinality(DOMAIN f \cup keys) <= room
Inserted(f, keys, room) ==
    IF Fits(f, keys, room) THEN keys
    ELSE keys \cap CHOOSE s \in SUBSET keys : Cardinality(DOMAIN f \cup s) = room
Fill(f, rows, room) == Including(f, [k \in Inserted(f, DOMAIN rows, room) |-> rows[k]])

FreeIds(c) == {i \in 0..MaxEsId : \A e \in DOMAIN c.es : c.es[e].id # i}

\* es_entry: the segment, with the lowest free id if it is new.
EsEntry(c, esi) ==
    LET free == FreeIds(c)
    IN  IF esi \in DOMAIN c.es THEN c
        ELSE IF free = {} THEN None
        ELSE [c EXCEPT !.es = Including(@, Row(esi, NewEs(CHOOSE i \in free : \A j \in free : i <= j)))]

\* Mistake: a group that is no longer wanted stays.
NhgOfKept(t, st) ==
    IF st.nhg = None THEN t.nhg
    ELSE Including(t.nhg, Row(st.id, [sa |-> st.nhg.sa, members |-> st.nhg.members]))

\* es_nhg_set of the segment's group: none without members.
NhgOf(t, st) ==
    LET target(m) == IF m.kind = "vxlan" THEN [m EXCEPT !.aux = t.vlanVni] ELSE m
    IN  IF st.nhg = None
        THEN IF st.nhgRow THEN Without(t.nhg, {st.id}) ELSE t.nhg
        ELSE Including(t.nhg, Row(st.id,
                 [sa |-> st.nhg.sa,
                  members |-> [i \in 1..Len(st.nhg.members) |-> target(st.nhg.members[i])]]))

\* vtep_bits and VTEP_ES: the segment's bit is taken from the peers it had; an
\* empty bitmap is no row.
Dropped(bits, st) ==
    LET left(a) == bits[a] \ IF a \in st.peerRows THEN {st.id} ELSE {}
    IN  [a \in {b \in DOMAIN bits : left(b) # {}} |-> left(a)]
\* And given to those it has.
Given(bits, st) ==
    [a \in st.peers |-> (IF a \in DOMAIN bits THEN bits[a] ELSE {}) \cup {st.id}]

\* Every port exists, a VXLAN member has a VNI to use, and ES_NHG takes the
\* group (it does when the segment has one already).
Renderable(n, st) ==
    /\ \A p \in st.ports : n.c.dev[p] # 0
    /\ st.nhg # None => /\ Fits(n.t.nhg, {st.id}, n.t.cap.nhg)
                        /\ \A i \in 1..Len(st.nhg.members) :
                              st.nhg.members[i].kind = "vxlan" => n.t.vlanVni # 0

\* ES_DF rows of a segment that does not forward.
Standbys(n, st) ==
    LET standby == st.role # None /\ ~st.role.df
        flags == IF st.role.sa THEN {"nondf", "block"} ELSE {"nondf"}
    IN  [i \in IF standby THEN {n.c.dev[p] : p \in st.ports} ELSE {} |-> flags]

\* ESI_LABEL: the old label's row goes, and the new one is put in if it fits.
LabelFits(n, st) == st.label = 0 \/ Fits(Without(n.t.esiLabel, {st.labelRow}), {st.label}, n.t.cap.esiLabel)
LabelsOf(n, st) ==
    LET labels == Without(n.t.esiLabel, {st.labelRow})
    IN  IF st.labelRow = st.label THEN n.t.esiLabel
        ELSE IF st.label = 0 \/ ~LabelFits(n, st) THEN labels
        ELSE Including(labels, Row(st.label, st.id))

\* es_render: the rows the segment remembers are taken out and what they should
\* be is put in, ES_DF, PORT_ES, VTEP_ES, ESI_LABEL.  An error before leaves the
\* tables as they were.  One that a full map makes ends it there: the rows
\* that are in stay, and the segment remembers none of them.
EsRender(n, esi) ==
    LET st == n.c.es[esi]
        cap == n.t.cap
        idx == {n.c.dev[p] : p \in st.ports}
        dfs == Standbys(n, st)
        df == Without(n.t.esDf, st.dfRows)
        port == Without(n.t.portEs, st.portRows)
        peer == Dropped(n.t.vtepEs, st)
        bits == Dropped(n.c.vtepBits, st)
        given == Given(bits, st)
        dfFit == Fits(df, DOMAIN dfs, cap.esDf)
        portFit == dfFit /\ Fits(port, idx, cap.portEs)
        done == portFit /\ Fits(peer, st.peers, cap.vtepEs)
        in == Inserted(peer, st.peers, cap.vtepEs)
        tried == st.peers \cap (in \cup {CHOOSE a \in st.peers \ (in \cup DOMAIN peer) : TRUE})
        su == [st EXCEPT !.dfRows = IF done THEN DOMAIN dfs ELSE {},
                         !.portRows = IF done THEN idx ELSE {},
                         !.peerRows = IF done THEN st.peers ELSE {}, !.nhgRow = st.nhg # None,
                         !.labelRow = IF done /\ LabelFits(n, st) THEN st.label ELSE st.labelRow]
    IN  IF ~Renderable(n, st) THEN n
        ELSE [t |-> [n.t EXCEPT
                       !.nhg = NhgOf(n.t, st), !.esDf = Fill(df, dfs, cap.esDf),
                       !.portEs = IF dfFit THEN Fill(port, [i \in idx |-> st.id], cap.portEs) ELSE port,
                       !.vtepEs = IF portFit THEN Fill(peer, given, cap.vtepEs) ELSE peer,
                       !.esiLabel = IF done THEN LabelsOf(n, st) ELSE @],
              c |-> [n.c EXCEPT
                       !.es[esi] = su,
                       !.vtepBits = IF done THEN Including(bits, given)
                                    ELSE IF portFit THEN Including(bits, [a \in tried |-> given[a]])
                                    ELSE bits,
                       !.lostPorts = IF done THEN @ ELSE @ \cup idx,
                       !.lostPeers = IF done THEN @ ELSE @ \cup st.peers]]

\* A call that sets one thing of a segment and renders it.
WithEs(n, esi, change(_)) ==
    LET c == EsEntry(n.c, esi)
    IN  IF c = None THEN n
        ELSE EsRender([n EXCEPT !.c = [c EXCEPT !.es[esi] = change(@)]], esi)

\* set_ethernet_segment, set_es_role, set_es_peers, set_es_nhg.
SetSegment(n, k) == WithEs(n, k.esi, LAMBDA st : [st EXCEPT !.ports = k.ports, !.label = k.label])
SetRole(n, k) == WithEs(n, k.esi, LAMBDA st : [st EXCEPT !.role = [df |-> k.df, sa |-> k.sa]])
SetPeers(n, k) == WithEs(n, k.esi, LAMBDA st : [st EXCEPT !.peers = k.peers])
SetNhg(n, k) ==
    WithEs(n, k.esi, LAMBDA st : [st EXCEPT !.nhg =
        IF k.members = <<>> THEN None ELSE [sa |-> k.sa, members |-> k.members]])

\* del_ethernet_segment: its rows go and its id is free; SLOT_ES rows and FDB
\* entries that hold the id are left.
DelSegment(n, k) ==
    LET st == n.c.es[k.esi]
        cleared == [st EXCEPT !.ports = {}, !.role = None, !.peers = {}, !.nhg = None, !.label = 0]
    IN  IF k.esi \notin DOMAIN n.c.es THEN n
        ELSE [EsRender([n EXCEPT !.c.es[k.esi] = cleared], k.esi)
              EXCEPT !.c.es = Without(@, {k.esi})]

----------------------------------------------------------------------------
\* PORT_ETREE takes the port.
EtreeFits(t, want) ==
    want \in t.portEtree \/ Cardinality(t.portEtree \cup {want}) <= t.cap.portEtree

\* Mistake: the row under the ifindex that the port had stays.
EtreeRenderStale(n, port) ==
    LET want == IF port \in n.c.leaves THEN n.c.dev[port] ELSE 0
        rows == Without(n.c.etreeRows, {port})
    IN  [n EXCEPT !.t.portEtree = @ \cup ({want} \ {0}),
                  !.c.etreeRows = IF want = 0 THEN rows ELSE Including(rows, Row(port, want))]

\* etree_render: a leaf whose device exists has its row under the ifindex.  The
\* row it had is gone when the map is full.
EtreeRender(n, port) ==
    LET want == IF port \in n.c.leaves THEN n.c.dev[port] ELSE 0
        have == IF port \in DOMAIN n.c.etreeRows THEN n.c.etreeRows[port] ELSE 0
        rows == Without(n.c.etreeRows, {port})
        m == [n EXCEPT !.t.portEtree = @ \ {have}, !.c.etreeRows = rows,
                       !.c.unmarked = @ \ {port}]
    IN  IF want = have THEN [n EXCEPT !.c.unmarked = @ \ {port}]
        ELSE IF want = 0 THEN m
        ELSE IF ~EtreeFits(m.t, want) THEN [m EXCEPT !.c.unmarked = @ \cup {port}]
        ELSE [m EXCEPT !.t.portEtree = @ \cup {want}, !.c.etreeRows = Including(@, Row(port, want))]

\* The kernel makes a device of that name (again), with an ifindex of its own.
Device(n, k) == [n EXCEPT !.c.dev[k.port] = n.c.next, !.c.next = @ + 1]

\* set_etree_role; set_port: the role first, and without it no row in PORTS; the
\* domain's members as set_l2_domain says.
SetEtreeRole(n, k) ==
    EtreeRender([n EXCEPT !.c.leaves = IF k.leaf THEN @ \cup {k.port} ELSE @ \ {k.port}], k.port)
SetPort(n, k) ==
    LET m == EtreeRender(n, k.port)
    IN  IF n.c.dev[k.port] = 0 THEN n
        ELSE IF k.port \in m.c.unmarked THEN m
        ELSE [m EXCEPT !.t.ports = Including(@, Row(n.c.dev[k.port], "l2"))]
SetL2Domain(n, k) ==
    LET static == SetToSeq({n.c.dev[p] : p \in {q \in k.ports : n.c.dev[q] # 0}})
    IN  IF \E p \in k.ports : n.c.dev[p] = 0 THEN n ELSE [n EXCEPT !.t.members = static]

\* set_etree_leaf_label, set_etree_leaf_arg.
SetLeafLabel(n, k) ==
    [n EXCEPT !.t.leafLabels = (@ \ {n.c.leafLabel}) \cup ({k.label} \ {0}),
              !.c.leafLabel = k.label]
SetLeafArg(n, k) ==
    [n EXCEPT !.t.leafArgs = (@ \ {n.c.leafArg}) \cup ({k.arg} \ {0}), !.c.leafArg = k.arg]

----------------------------------------------------------------------------
\* SlotGroup: the slots toward one (node, BUM label): 0 is no slot.
NewGroup == [plain |-> 0, es |-> <<>>, leaf |-> 0, rootOnly |-> FALSE]
GroupOf(c, key) == IF Get(c.groups, key) = None THEN NewGroup ELSE c.groups[key]
SetGroup(c, key, g) ==
    [c EXCEPT !.groups = IF g = NewGroup THEN Without(@, {key}) ELSE Including(@, Row(key, g))]

SlotRow(only, skip, etree) == [only |-> only, skip |-> skip, etree |-> etree]

\* slot_es_set: an all-zero row is no row.
RealRows(rows) == {i \in DOMAIN rows : rows[i] # SlotRow(0, {}, "none")}
RowsLeft(t, rows) == Without(t.slotEs, DOMAIN rows \ RealRows(rows))
SlotEsSet(t, rows) ==
    [t EXCEPT !.slotEs = Fill(RowsLeft(t, rows), [i \in RealRows(rows) |-> rows[i]], t.cap.slotEs)]
SlotEsFits(t, rows) == Fits(RowsLeft(t, rows), RealRows(rows), t.cap.slotEs)

\* Mistake: the plain slot serves the segments that have slots of their own.
SlotGroupRowsNoSkip(c, g) ==
    LET root == IF g.leaf # 0 \/ g.rootOnly THEN "root" ELSE "none"
        id(i) == c.es[CHOOSE e \in DOMAIN g.es : g.es[e] = i].id
    IN  [i \in Range(g.es) \cup ({g.plain, g.leaf} \ {0}) |->
            IF i \in Range(g.es) THEN SlotRow(id(i) + 1, {}, root)
            ELSE IF i = g.plain THEN SlotRow(0, {}, root)
            ELSE SlotRow(0, {}, "leaf")]

\* slot_group_rows: what each slot of a group serves.  A segment slot's own
\* segment, the plain slot what is left; leaves have their slot or, in a
\* root-only group, nothing.
SlotGroupRows(c, g) ==
    LET root == IF g.leaf # 0 \/ g.rootOnly THEN "root" ELSE "none"
        id(i) == c.es[CHOOSE e \in DOMAIN g.es : g.es[e] = i].id
    IN  [i \in Range(g.es) \cup ({g.plain, g.leaf} \ {0}) |->
            IF i \in Range(g.es) THEN SlotRow(id(i) + 1, {}, root)
            ELSE IF i = g.plain THEN SlotRow(0, {c.es[e].id : e \in DOMAIN g.es}, root)
            ELSE SlotRow(0, {}, "leaf")]

\* The segments of a group are made one by one (es_entry), a deleted one again,
\* until all are there or no id is free.
GroupSegments(c, g) ==
    LET new == DOMAIN g.es \ DOMAIN c.es
        free == FreeIds(c)
        lowest(h) == \A e \in DOMAIN h : \A i \in free : i < h[e] => i \in Range(h)
        ids == CHOOSE h \in UNION {[made -> free] : made \in SUBSET new} :
                   IsInjective(h) /\ lowest(h) /\ (DOMAIN h = new \/ Range(h) = free)
    IN  [c EXCEPT !.es = Including(@, [e \in DOMAIN ids |-> NewEs(ids[e])])]
AllMade(c, g) == DOMAIN g.es \subseteq DOMAIN c.es

\* A group becomes g and its rows are written, after that of `gone' is removed.
\* No segment id is free: an error that leaves the rows alone.  SLOT_ES is full:
\* an error with some of them written.
NoRows(gone) == [i \in gone |-> SlotRow(0, {}, "none")]
RenderGroup(n, key, g, gone) ==
    LET c == GroupSegments(n.c, g)
    IN  IF ~AllMade(c, g) THEN [n EXCEPT !.c = SetGroup(c, key, g)]
        ELSE [c |-> SetGroup(c, key, g),
              t |-> SlotEsSet(SlotEsSet(n.t, NoRows(gone)), SlotGroupRows(c, g))]
GroupRenders(n, g, gone) ==
    LET c == GroupSegments(n.c, g)
    IN  AllMade(c, g) /\ SlotEsFits(SlotEsSet(n.t, NoRows(gone)), SlotGroupRows(c, g))

\* The group that a slot has joined, and that it has left.
Joined(g, idx, role) == CASE role = "plain" -> [g EXCEPT !.plain = idx]
                          [] role = "leaf" -> [g EXCEPT !.leaf = idx]
                          [] OTHER -> [g EXCEPT !.es = Including(@, Row(role, idx))]
Left(g, idx) == [plain |-> IF g.plain = idx THEN 0 ELSE g.plain,
                 leaf |-> IF g.leaf = idx THEN 0 ELSE g.leaf,
                 es |-> Without(g.es, {e \in DOMAIN g.es : g.es[e] = idx}),
                 rootOnly |-> g.rootOnly]

\* slot_es_bind, slot_es_unbind, and whether they succeed; set_etree_root_only.
SlotEsBind(n, key, idx, role) == RenderGroup(n, key, Joined(GroupOf(n.c, key), idx, role), {})
SlotEsBinds(n, key, idx, role) == GroupRenders(n, Joined(GroupOf(n.c, key), idx, role), {})
SlotEsUnbind(n, key, idx) ==
    IF key \notin DOMAIN n.c.groups THEN n
    ELSE RenderGroup(n, key, Left(GroupOf(n.c, key), idx), {idx})
SlotEsUnbinds(n, key, idx) ==
    key \in DOMAIN n.c.groups => GroupRenders(n, Left(GroupOf(n.c, key), idx), {idx})
SetRootOnly(n, k) ==
    LET g == GroupOf(n.c, k.key)
        c == GroupSegments(n.c, g)
    IN  IF g.rootOnly = k.on THEN n
        ELSE IF ~AllMade(c, g) THEN [n EXCEPT !.c = c]
        ELSE RenderGroup(n, k.key, [g EXCEPT !.rootOnly = k.on], {})

----------------------------------------------------------------------------
\* bd_has_bum_sentinel, bd_has_repl_slot.
HasSentinel(t) == BumTunnel(t) # None
HasSlot(t) == \E i \in 1..Len(t.members) : Get(t.replSid, t.members[i]) # None

\* fdb_overlay_add (add_fdb_remote and its VXLAN and MPLS flavours): refused
\* for a sentinel where there are slots.
FdbOverlayAdd(n, mac, e) ==
    IF mac = Bum /\ HasSlot(n.t) THEN n ELSE [n EXCEPT !.t.fdb = Including(@, Row(mac, e))]
AddFdbRemote(n, k) == FdbOverlayAdd(n, k.mac, Entry(k.kind, k.nh, k.addr, k.label, k.leaf))

\* fdb_local_add (add_fdb_local), fdb_remote_del (del_fdb_remote): a learned
\* entry is no longer the one to remove.
AddFdbLocal(n, k) ==
    IF n.c.dev[k.port] = 0 THEN n
    ELSE [n EXCEPT !.t.fdb =
             Including(@, Row(k.mac, Entry("static", n.c.dev[k.port], None, 0, FALSE)))]
DelFdbRemote(n, k) ==
    IF Get(n.t.fdb, k.mac) = None THEN n
    ELSE IF n.t.fdb[k.mac].kind = "local" THEN n
    ELSE [n EXCEPT !.t.fdb = Without(@, {k.mac})]

\* repl_target_add: both ends of a slot.
ReplTargetAdd(n, a, b, target) ==
    [n EXCEPT !.t.replSid = Including(@, [i \in {a, b} |-> target])]
\* l2_member_add, l2_member_remove: a domain lists a port once.
L2MemberAdd(t, idx) ==
    IF idx \in Range(t.members) THEN t ELSE [t EXCEPT !.members = Append(@, idx)]
L2MemberRemove(t, idx) ==
    LET i == CHOOSE j \in DOMAIN t.members : t.members[j] = idx
    IN  IF idx \in Range(t.members) THEN [t EXCEPT !.members = RemoveAt(@, i)] ELSE t
=============================================================================
