--------------------------- MODULE OverlayProofs ---------------------------
(***************************************************************************)
(* For any nodes and any calls made in an orderly way:                     *)
(*                                                                         *)
(* The marks of set_etree_remote hold: a node that has been told that a    *)
(* remote node has only leaves floods no leaf's frame to it, however slots *)
(* and marks come and go (Inv, LeavesKeptIn).                              *)
(*                                                                         *)
(* Every row of an Ethernet Segment is remembered by the segment whose id  *)
(* it has, which will take it out, and every leaf's row is under the       *)
(* device that the leaf has (RowsInv, on top of Inv; IdsInUse, LeafRows).  *)
(***************************************************************************)
EXTENDS Overlay, FiniteSetTheorems, SequenceTheorems, TLAPS

Calls(s) == s.todo \cup Range(s.setup)

\* The calls under way at a node: all, those of slots, those that add one,
\* those that mark a remote node.
Here(n) == {b \in busy : b.k.n = n}
Slotting(B) == {b \in B : b.k.op \in {"addslot", "delslot"}}
Adding(B) == {b \in B : b.k.op = "addslot"}
Marking(B) == {b \in B : b.k.op = "remote"}

----------------------------------------------------------------------------
(***************************************************************************)
(* The inductive invariant: of a node x with the calls B under way.        *)
(***************************************************************************)

\* The calls still to be made and under way are the scenario's, and marks of
\* one remote node are not made at the same time.
CallsSound ==
    /\ scn \in Scenarios /\ todo \subseteq scn.todo
    /\ setup \in Seq(Range(scn.setup))
    /\ setup # <<>> => setup[Len(setup)] = scn.setup[Len(scn.setup)]
    /\ \A b \in busy : b = At(b.k, b.pc, b.idx, b.more) /\ b.k \in Calls(scn)
    /\ setup = <<>> => \A b \in busy, k \in todo :
          b.k.op = "remote" /\ k.op = "remote" => b.k.n # k.n \/ b.k.addr # k.addr

\* The fields of a node that marks and slots are about.
Shape(x) ==
    /\ x = [t |-> x.t, c |-> x.c]
    /\ IsFcn(x.t) /\ {"members", "slotEs", "replSid"} \subseteq DOMAIN x.t
    /\ IsFcn(x.c) /\ {"slots", "remotes", "groups", "next", "dev"} \subseteq DOMAIN x.c

IsGroup(g) == g = [plain |-> g.plain, es |-> g.es, leaf |-> g.leaf, rootOnly |-> g.rootOnly]
GroupIdx(g) == {g.plain, g.leaf} \cup Range(g.es)
PortsTyped(x, names) ==
    /\ x.c.next \in Nat \ {0}
    /\ IsFcn(x.c.dev) /\ DOMAIN x.c.dev = names /\ IsFiniteSet(names)
    /\ x.t.members \in Seq(Nat) /\ IsInjective(x.t.members)
    /\ \A key \in DOMAIN x.c.groups : IsGroup(x.c.groups[key])
    /\ \A key \in DOMAIN x.c.slots :
          x.c.slots[key] = [idx |-> x.c.slots[key].idx, group |-> x.c.slots[key].group]

\* The rows that groups write, or are about to.
AllIdx(x) == UNION {GroupIdx(x.c.groups[key]) : key \in DOMAIN x.c.groups}
BindIdx(B) == {b.idx : b \in {a \in B : a.k.op = "staticslot"}}
GroupRows(x, B) == AllIdx(x) \cup BindIdx(B)

\* Indexes are given out in order; those of a slot are a pair.
Low(x, B) ==
    LET below == 0..x.c.next - 1
    IN  /\ Range(x.c.dev) \subseteq below /\ Range(x.t.members) \subseteq below
        /\ DOMAIN x.t.replSid \subseteq below /\ GroupRows(x, B) \subseteq below
        /\ \A key \in DOMAIN x.c.slots : x.c.slots[key].idx \in 1..x.c.next - 2
        /\ \A b \in Slotting(B) : b.idx \in 1..x.c.next - 2
        /\ \A b \in Marking(B) : b.pc = "program" => b.idx \in below

\* Two slots have no index in common, no device has one of theirs, and no
\* group writes the row of a slot that is in none.
Clear(i, j) == i # j /\ i # j + 1 /\ j # i + 1
NoDevice(x, i) == i \notin Range(x.c.dev) /\ i + 1 \notin Range(x.c.dev)
PortsApart(x, B) ==
    LET slots == x.c.slots
    IN  /\ \A k, l \in DOMAIN slots : k # l => Clear(slots[k].idx, slots[l].idx)
        /\ \A b \in Slotting(B), k \in DOMAIN slots : Clear(b.idx, slots[k].idx)
        /\ \A a, b \in Slotting(B) : a # b => Clear(a.idx, b.idx)
        /\ \A k \in DOMAIN slots : NoDevice(x, slots[k].idx)
        /\ \A b \in Slotting(B) : NoDevice(x, b.idx)
        /\ \A k \in DOMAIN slots : slots[k].group = None => slots[k].idx \notin GroupRows(x, B)
        /\ \A b \in Adding(B) : b.k.group = None => b.idx \notin GroupRows(x, B)

\* A VXLAN slot in the flood list is registered under its VTEP, or being
\* removed.
OverVxlan(x, p) == p \in DOMAIN x.t.replSid /\ x.t.replSid[p].kind = "vxlan"
SlotOf(x, a, p) == /\ <<a, "">> \in DOMAIN x.c.slots
                   /\ x.c.slots[<<a, "">>] = [idx |-> p, group |-> None]
Leaving(B, p) == \E b \in Slotting(B) : b.k.op = "delslot" /\ b.pc = "leave" /\ b.idx = p
SlotsListed(x, B) ==
    /\ \A p \in Range(x.c.dev) : ~OverVxlan(x, p)
    /\ \A p \in Range(x.t.members) :
          OverVxlan(x, p) => SlotOf(x, x.t.replSid[p].addr, p) \/ Leaving(B, p)

\* What an addition of a slot has done: it has the lock.
AddingSound(x, B) ==
    /\ \A a, b \in Adding(B) : a = b
    /\ \A b \in Adding(B) :
          /\ SlotKey(b.k) \notin DOMAIN x.c.slots
          /\ b.pc = "program" => /\ b.idx \notin Range(x.t.members)
                                 /\ b.idx + 1 \notin Range(x.t.members)
          /\ b.pc # "program" => /\ b.idx \in DOMAIN x.t.replSid
                                 /\ x.t.replSid[b.idx].kind = b.k.target.kind
                                 /\ x.t.replSid[b.idx].addr = b.k.target.addr

\* The row of a slot toward a marked node is there, or the mark's call is
\* about to write it or to be undone; that call writes no other slot's row.
RootsOnly(x, p) == p \in DOMAIN x.t.slotEs /\ x.t.slotEs[p] = SlotRow(0, {}, "root")
Finding(B, a) == \E m \in Marking(B) : m.k.addr = a /\ m.pc = "find"
Writing(B, a, p) ==
    \E m \in Marking(B) : m.k.addr = a /\ ((m.pc = "program" /\ m.idx = p) \/ m.pc = "undo")
RowsMarked(x, B) ==
    /\ \A a \in x.c.remotes : LET p == x.c.slots[<<a, "">>].idx IN
          SlotOf(x, a, p) => RootsOnly(x, p) \/ Finding(B, a) \/ Writing(B, a, p)
    /\ \A b \in Adding(B) : b.pc = "join" /\ b.k.group = None /\ b.k.addr \in x.c.remotes =>
          RootsOnly(x, b.idx) \/ Finding(B, b.k.addr)
MarksSound(x, B) ==
    /\ \A a, b \in Marking(B) : a.k.addr = b.k.addr => a = b
    /\ \A b \in Marking(B) :
          /\ (b.k.addr \in x.c.remotes) = b.k.on /\ (b.pc = "undo" => b.k.on)
          /\ b.pc = "program" /\ b.idx # 0 =>
                /\ \A key \in DOMAIN x.c.slots : x.c.slots[key].idx = b.idx => key = <<b.k.addr, "">>
                /\ \A a \in Adding(B) : a.idx # b.idx

Sound(x, B, names) ==
    /\ Shape(x) /\ PortsTyped(x, names) /\ Low(x, B) /\ PortsApart(x, B)
    /\ SlotsListed(x, B) /\ AddingSound(x, B) /\ RowsMarked(x, B) /\ MarksSound(x, B)
Names(n) == DOMAIN scn.pe[n].c.dev
Inv == /\ CallsSound /\ IsFcn(pe) /\ DOMAIN pe = Nodes
       /\ \A n \in Nodes : Sound(pe[n], Here(n), Names(n))

----------------------------------------------------------------------------
(***************************************************************************)
(* What the operators of Segments leave alone.                             *)
(***************************************************************************)
Same(x, y) ==
    /\ y.t.members = x.t.members /\ y.t.slotEs = x.t.slotEs /\ y.t.replSid = x.t.replSid
    /\ y.c.slots = x.c.slots /\ y.c.remotes = x.c.remotes /\ y.c.groups = x.c.groups
    /\ y.c.next = x.c.next /\ y.c.dev = x.c.dev
Kept(x, y) == Shape(y) /\ Same(x, y)

LEMMA EsEntryKept ==
    ASSUME NEW x, Shape(x), NEW esi, NEW c, c = EsEntry(x.c, esi), c # None
    PROVE  Kept(x, [x EXCEPT !.c = c])
<1>1. c = x.c \/ \E v : c = [x.c EXCEPT !.es = v]
  BY DEF EsEntry
<1>2. IsFcn(c) /\ DOMAIN c = DOMAIN x.c
  BY <1>1 DEF Shape, IsFcn
<1>3. /\ c.slots = x.c.slots /\ c.remotes = x.c.remotes /\ c.groups = x.c.groups
      /\ c.next = x.c.next /\ c.dev = x.c.dev
  BY <1>1 DEF Shape, IsFcn
<1> QED
  BY <1>2, <1>3 DEF Shape, Kept, Same

\* What es_render writes: tables, the segments, and what it leaves behind.
RenderedTables(t, a, b, c, d, e) ==
    [t EXCEPT !.nhg = a, !.esDf = b, !.portEs = c, !.vtepEs = d, !.esiLabel = e]
RenderedControl(c, f, g, h, i) ==
    [c EXCEPT !.es = f, !.vtepBits = g, !.lostPorts = h, !.lostPeers = i]
RenderedAs(x, esi, y, idx, dfs, df, port, peer, bits, given, dfFit, portFit, done, tried, su) ==
    LET st == x.c.es[esi]
        cap == x.t.cap
    IN  /\ idx = {x.c.dev[p] : p \in st.ports} /\ dfs = Standbys(x, st)
        /\ df = Without(x.t.esDf, st.dfRows) /\ port = Without(x.t.portEs, st.portRows)
        /\ peer = Dropped(x.t.vtepEs, st) /\ bits = Dropped(x.c.vtepBits, st)
        /\ given = Given(bits, st) /\ tried \subseteq st.peers
        /\ dfFit = Fits(df, DOMAIN dfs, cap.esDf) /\ portFit = (dfFit /\ Fits(port, idx, cap.portEs))
        /\ done = (portFit /\ Fits(peer, st.peers, cap.vtepEs))
        /\ su = [st EXCEPT !.dfRows = IF done THEN DOMAIN dfs ELSE {},
                           !.portRows = IF done THEN idx ELSE {},
                           !.peerRows = IF done THEN st.peers ELSE {}, !.nhgRow = st.nhg # None,
                           !.labelRow = IF done /\ LabelFits(x, st) THEN st.label ELSE st.labelRow]
        /\ y.t = RenderedTables(x.t, NhgOf(x.t, st), Fill(df, dfs, cap.esDf),
                      IF dfFit THEN Fill(port, [i \in idx |-> st.id], cap.portEs) ELSE port,
                      IF portFit THEN Fill(peer, given, cap.vtepEs) ELSE peer,
                      IF done THEN LabelsOf(x, st) ELSE x.t.esiLabel)
        /\ y.c = RenderedControl(x.c, [x.c.es EXCEPT ![esi] = su],
                      IF done THEN Including(bits, given)
                      ELSE IF portFit THEN Including(bits, [a \in tried |-> given[a]]) ELSE bits,
                      IF done THEN x.c.lostPorts ELSE x.c.lostPorts \cup idx,
                      IF done THEN x.c.lostPeers ELSE x.c.lostPeers \cup st.peers)

LEMMA EsRenderForm ==
    ASSUME NEW x, NEW esi, Renderable(x, x.c.es[esi]), NEW y, y = EsRender(x, esi)
    PROVE  /\ y = [t |-> y.t, c |-> y.c]
           /\ \E idx, dfs, df, port, peer, bits, given, dfFit, portFit, done, tried, su :
                 RenderedAs(x, esi, y, idx, dfs, df, port, peer, bits, given, dfFit, portFit,
                            done, tried, su)
<1> DEFINE st == x.c.es[esi]
           cap == x.t.cap
           idx == {x.c.dev[p] : p \in st.ports}
           dfs == Standbys(x, st)
           df == Without(x.t.esDf, st.dfRows)
           port == Without(x.t.portEs, st.portRows)
           peer == Dropped(x.t.vtepEs, st)
           bits == Dropped(x.c.vtepBits, st)
           given == Given(bits, st)
           dfFit == Fits(df, DOMAIN dfs, cap.esDf)
           portFit == dfFit /\ Fits(port, idx, cap.portEs)
           done == portFit /\ Fits(peer, st.peers, cap.vtepEs)
           in == Inserted(peer, st.peers, cap.vtepEs)
           tried == st.peers \cap (in \cup {CHOOSE a \in st.peers \ (in \cup DOMAIN peer) : TRUE})
           su == [st EXCEPT !.dfRows = IF done THEN DOMAIN dfs ELSE {},
                            !.portRows = IF done THEN idx ELSE {},
                            !.peerRows = IF done THEN st.peers ELSE {}, !.nhgRow = st.nhg # None,
                            !.labelRow = IF done /\ LabelFits(x, st) THEN st.label ELSE st.labelRow]
           t == RenderedTables(x.t, NhgOf(x.t, st), Fill(df, dfs, cap.esDf),
                      IF dfFit THEN Fill(port, [i \in idx |-> st.id], cap.portEs) ELSE port,
                      IF portFit THEN Fill(peer, given, cap.vtepEs) ELSE peer,
                      IF done THEN LabelsOf(x, st) ELSE x.t.esiLabel)
           c == RenderedControl(x.c, [x.c.es EXCEPT ![esi] = su],
                      IF done THEN Including(bits, given)
                      ELSE IF portFit THEN Including(bits, [a \in tried |-> given[a]]) ELSE bits,
                      IF done THEN x.c.lostPorts ELSE x.c.lostPorts \cup idx,
                      IF done THEN x.c.lostPeers ELSE x.c.lostPeers \cup st.peers)
<1>1. y = [t |-> t, c |-> c]
  BY DEF EsRender, RenderedTables, RenderedControl
<1>2. y.t = t /\ y.c = c /\ y = [t |-> y.t, c |-> y.c]
  <2> HIDE DEF t, c
  <2> QED
    BY <1>1
<1>3. tried \subseteq st.peers
  OBVIOUS
<1>4. RenderedAs(x, esi, y, idx, dfs, df, port, peer, bits, given, dfFit, portFit, done, tried, su)
  <2> HIDE DEF tried
  <2> QED
    BY <1>2, <1>3, Zenon DEF RenderedAs
<1> HIDE DEF idx, dfs, df, port, peer, bits, given, dfFit, portFit, done, tried, su, t, c
<1> QED
  BY <1>2, <1>4

LEMMA EsRenderKept ==
    ASSUME NEW x, Shape(x), NEW esi
    PROVE  Kept(x, EsRender(x, esi))
<1> DEFINE y == EsRender(x, esi)
<1> SUFFICES Kept(x, y)
  OBVIOUS
<1>1. CASE ~Renderable(x, x.c.es[esi])
  BY <1>1 DEF Kept, Same, EsRender
<1>2. CASE Renderable(x, x.c.es[esi])
  <2>0. /\ y = [t |-> y.t, c |-> y.c]
        /\ \E idx, dfs, df, port, peer, bits, given, dfFit, portFit, done, tried, su :
              RenderedAs(x, esi, y, idx, dfs, df, port, peer, bits, given, dfFit, portFit,
                         done, tried, su)
    BY <1>2, EsRenderForm
  <2> HIDE DEF y
  <2>1. /\ \E a, b, c, d, e : y.t = RenderedTables(x.t, a, b, c, d, e)
        /\ \E f, g, h, i : y.c = RenderedControl(x.c, f, g, h, i)
    <3>1. PICK idx, dfs, df, port, peer, bits, given, dfFit, portFit, done, tried, su :
              RenderedAs(x, esi, y, idx, dfs, df, port, peer, bits, given, dfFit, portFit,
                         done, tried, su)
      BY <2>0
    <3>2. y.t = RenderedTables(x.t, NhgOf(x.t, x.c.es[esi]), Fill(df, dfs, x.t.cap.esDf),
                      IF dfFit THEN Fill(port, [i \in idx |-> x.c.es[esi].id], x.t.cap.portEs) ELSE port,
                      IF portFit THEN Fill(peer, given, x.t.cap.vtepEs) ELSE peer,
                      IF done THEN LabelsOf(x, x.c.es[esi]) ELSE x.t.esiLabel)
      BY <3>1, Zenon DEF RenderedAs
    <3>3. y.c = RenderedControl(x.c, [x.c.es EXCEPT ![esi] = su],
                      IF done THEN Including(bits, given)
                      ELSE IF portFit THEN Including(bits, [a \in tried |-> given[a]]) ELSE bits,
                      IF done THEN x.c.lostPorts ELSE x.c.lostPorts \cup idx,
                      IF done THEN x.c.lostPeers ELSE x.c.lostPeers \cup x.c.es[esi].peers)
      BY <3>1, Zenon DEF RenderedAs
    <3> QED
      BY <3>2, <3>3, Zenon
  <2>2. PICK a, b, c, d, e : y.t = RenderedTables(x.t, a, b, c, d, e)
    BY <2>1
  <2>3. PICK f, g, h, i : y.c = RenderedControl(x.c, f, g, h, i)
    BY <2>1
  <2>4. IsFcn(y.t) /\ DOMAIN y.t = DOMAIN x.t
    BY <2>2 DEF Shape, IsFcn, RenderedTables
  <2>5. IsFcn(y.c) /\ DOMAIN y.c = DOMAIN x.c
    BY <2>3 DEF Shape, IsFcn, RenderedControl
  <2>6. y.t.members = x.t.members /\ y.t.slotEs = x.t.slotEs /\ y.t.replSid = x.t.replSid
    BY <2>2 DEF Shape, RenderedTables
  <2>7. /\ y.c.slots = x.c.slots /\ y.c.remotes = x.c.remotes /\ y.c.groups = x.c.groups
        /\ y.c.next = x.c.next /\ y.c.dev = x.c.dev
    BY <2>3 DEF Shape, RenderedControl
  <2> QED
    BY <2>0, <2>4, <2>5, <2>6, <2>7 DEF Shape, Kept, Same
<1> QED
  BY <1>1, <1>2

LEMMA KeptSelf == ASSUME NEW x, Shape(x) PROVE Kept(x, x)
BY DEF Kept, Same

LEMMA KeptTwice == ASSUME NEW x, NEW y, NEW z, Kept(x, y), Kept(y, z) PROVE Kept(x, z)
BY DEF Kept, Same

LEMMA SegmentKept ==
    ASSUME NEW x, Shape(x), NEW esi, NEW v
    PROVE  Kept(x, [x EXCEPT !.c.es[esi] = v])
BY DEF Shape, Kept, Same, IsFcn

LEMMA SegmentsKept ==
    ASSUME NEW x, Shape(x), NEW v
    PROVE  Kept(x, [x EXCEPT !.c.es = v])
BY DEF Shape, Kept, Same, IsFcn

\* A call that changes one thing of a segment and renders it.
LEMMA WithEsKept ==
    ASSUME NEW x, Shape(x), NEW esi, NEW c, c = EsEntry(x.c, esi), c # None, NEW v
    PROVE  Kept(x, EsRender([x EXCEPT !.c = [c EXCEPT !.es[esi] = v]], esi))
<1> DEFINE y == [x EXCEPT !.c = c]
           z == [x EXCEPT !.c = [c EXCEPT !.es[esi] = v]]
<1>1. Kept(x, y)
  BY EsEntryKept
<1>2. z = [y EXCEPT !.c.es[esi] = v]
  BY DEF Shape
<1>3. Kept(y, z)
  BY <1>1, <1>2, SegmentKept DEF Kept
<1>4. Kept(z, EsRender(z, esi))
  BY <1>3, EsRenderKept DEF Kept
<1> QED
  BY <1>1, <1>3, <1>4, KeptTwice

LEMMA SegmentCallsKept ==
    ASSUME NEW x, Shape(x), NEW k
    PROVE  /\ Kept(x, SetSegment(x, k)) /\ Kept(x, SetRole(x, k))
           /\ Kept(x, SetPeers(x, k)) /\ Kept(x, SetNhg(x, k))
<1>1. Kept(x, SetSegment(x, k))
  BY WithEsKept, KeptSelf DEF SetSegment, WithEs
<1>2. Kept(x, SetRole(x, k))
  BY WithEsKept, KeptSelf DEF SetRole, WithEs
<1>3. Kept(x, SetPeers(x, k))
  BY WithEsKept, KeptSelf DEF SetPeers, WithEs
<1>4. Kept(x, SetNhg(x, k))
  BY WithEsKept, KeptSelf DEF SetNhg, WithEs
<1> QED
  BY <1>1, <1>2, <1>3, <1>4

LEMMA DelSegmentKept ==
    ASSUME NEW x, Shape(x), NEW k
    PROVE  Kept(x, DelSegment(x, k))
<1> SUFFICES ASSUME k.esi \in DOMAIN x.c.es PROVE Kept(x, DelSegment(x, k))
  BY KeptSelf DEF DelSegment
<1>1. \E v : DelSegment(x, k) =
         [EsRender([x EXCEPT !.c.es[k.esi] = v], k.esi) EXCEPT !.c.es = Without(@, {k.esi})]
  BY DEF DelSegment
<1>2. PICK v : DelSegment(x, k) =
         [EsRender([x EXCEPT !.c.es[k.esi] = v], k.esi) EXCEPT !.c.es = Without(@, {k.esi})]
  BY <1>1
<1> DEFINE y == [x EXCEPT !.c.es[k.esi] = v]
           z == EsRender(y, k.esi)
<1>3. Kept(x, y) /\ Shape(y)
  BY SegmentKept DEF Kept
<1>4. Kept(y, z) /\ Shape(z)
  BY <1>3, EsRenderKept DEF Kept
<1> HIDE DEF y, z
<1>5. Kept(z, [z EXCEPT !.c.es = Without(@, {k.esi})])
  BY <1>4, SegmentsKept
<1> QED
  BY <1>2, <1>3, <1>4, <1>5, KeptTwice DEF y, z

\* E-Tree roles, labels and arguments, FDB entries.
Marked(x, marks, rows, un) ==
    [t |-> [x.t EXCEPT !.portEtree = marks],
     c |-> [[x.c EXCEPT !.etreeRows = rows] EXCEPT !.unmarked = un]]
Etreed(x, a, b, c) == [x EXCEPT !.t.portEtree = a, !.c.etreeRows = b, !.c.unmarked = c]
Forgotten(x, a) == [x EXCEPT !.c.unmarked = a]
Rerowed(x, a, b) == [x EXCEPT !.t.portEtree = a, !.c.etreeRows = b]
LEMMA MarkedForm ==
    ASSUME NEW x, Shape(x), NEW a, NEW b, NEW c
    PROVE  Etreed(x, a, b, c) = Marked(x, a, b, c)
<1> DEFINE u == [x EXCEPT !.t.portEtree = a]
           v == [u EXCEPT !.c.etreeRows = b]
           w == [v EXCEPT !.c.unmarked = c]
<1>2. u = [t |-> [x.t EXCEPT !.portEtree = a], c |-> x.c]
  BY DEF Shape
<1> HIDE DEF u
<1>3. v = [t |-> u.t, c |-> [u.c EXCEPT !.etreeRows = b]]
  BY <1>2
<1> HIDE DEF v
<1>4. w = [t |-> v.t, c |-> [v.c EXCEPT !.unmarked = c]]
  BY <1>3
<1> HIDE DEF w
<1>5. w = Marked(x, a, b, c)
  BY <1>2, <1>3, <1>4 DEF Marked
<1> QED
  BY <1>5 DEF u, v, w, Etreed

\* A leaf's mark once more, and the rows of one.
LEMMA MarkedForgotten ==
    ASSUME NEW x, Shape(x), NEW a, NEW b, NEW c, NEW f
    PROVE  Forgotten(Marked(x, a, b, c), f) = Marked(x, a, b, f)
<1> DEFINE T == [x.t EXCEPT !.portEtree = a]
           C == [[x.c EXCEPT !.etreeRows = b] EXCEPT !.unmarked = c]
           m == [t |-> T, c |-> C]
<1>1. [C EXCEPT !.unmarked = f] = [[x.c EXCEPT !.etreeRows = b] EXCEPT !.unmarked = f]
  BY DEF Shape, IsFcn
<1> HIDE DEF T, C
<1>2. [m EXCEPT !.c.unmarked = f] = [t |-> T, c |-> [C EXCEPT !.unmarked = f]]
  OBVIOUS
<1>3. [m EXCEPT !.c.unmarked = f] = Marked(x, a, b, f)
  BY <1>1, <1>2 DEF T, Marked
<1> QED
  BY <1>3 DEF m, T, C, Marked, Forgotten

LEMMA MarkedRerowed ==
    ASSUME NEW x, Shape(x), NEW a, NEW b, NEW c, NEW d, NEW e
    PROVE  Rerowed(Marked(x, a, b, c), d, e) = Marked(x, d, e, c)
<1> DEFINE T == [x.t EXCEPT !.portEtree = a]
           C == [[x.c EXCEPT !.etreeRows = b] EXCEPT !.unmarked = c]
           m == [t |-> T, c |-> C]
           u == [m EXCEPT !.t.portEtree = d]
<1>1. /\ [C EXCEPT !.etreeRows = e] = [[x.c EXCEPT !.etreeRows = e] EXCEPT !.unmarked = c]
      /\ [T EXCEPT !.portEtree = d] = [x.t EXCEPT !.portEtree = d]
  BY DEF Shape, IsFcn
<1> HIDE DEF T, C
<1>2. u = [t |-> [T EXCEPT !.portEtree = d], c |-> C]
  OBVIOUS
<1> HIDE DEF u
<1>3. [u EXCEPT !.c.etreeRows = e] = [t |-> [T EXCEPT !.portEtree = d], c |-> [C EXCEPT !.etreeRows = e]]
  BY <1>2
<1>4. [u EXCEPT !.c.etreeRows = e] = Marked(x, d, e, c)
  BY <1>1, <1>3 DEF Marked
<1> QED
  BY <1>4 DEF m, T, C, u, Marked, Rerowed

LEMMA EtreeRenderForm ==
    ASSUME NEW x, Shape(x), NEW port, NEW y, y = EtreeRender(x, port)
    PROVE  LET want == IF port \in x.c.leaves THEN x.c.dev[port] ELSE 0
               have == IF port \in DOMAIN x.c.etreeRows THEN x.c.etreeRows[port] ELSE 0
               rows == Without(x.c.etreeRows, {port})
               marks == x.t.portEtree \ {have}
               un == x.c.unmarked \ {port}
               m == Marked(x, marks, rows, un)
           IN  \/ want = have /\ y = Forgotten(x, un)
               \/ want # have /\ want = 0 /\ y = m
               \/ want # have /\ want # 0 /\ y = Marked(x, marks, rows, m.c.unmarked \cup {port})
               \/ /\ want # have /\ want # 0
                  /\ y = Marked(x, m.t.portEtree \cup {want},
                                Including(m.c.etreeRows, Row(port, want)), un)
<1> DEFINE want == IF port \in x.c.leaves THEN x.c.dev[port] ELSE 0
           have == IF port \in DOMAIN x.c.etreeRows THEN x.c.etreeRows[port] ELSE 0
           rows == Without(x.c.etreeRows, {port})
           marks == x.t.portEtree \ {have}
           un == x.c.unmarked \ {port}
           n == Etreed(x, marks, rows, un)
           m == Marked(x, marks, rows, un)
<1>1. \/ want = have /\ y = Forgotten(x, un)
      \/ want # have /\ want = 0 /\ y = n
      \/ want # have /\ want # 0 /\ y = Forgotten(n, n.c.unmarked \cup {port})
      \/ /\ want # have /\ want # 0
         /\ y = Rerowed(n, n.t.portEtree \cup {want}, Including(n.c.etreeRows, Row(port, want)))
  BY DEF EtreeRender, Etreed, Forgotten, Rerowed
<1> HIDE DEF want, have, rows, marks, un
<1>2. n = m
  BY MarkedForm, Zenon
<1>3. \A d, e : Forgotten(m, d) = Marked(x, marks, rows, d) /\ Rerowed(m, d, e) = Marked(x, d, e, un)
  <2> TAKE d, e
  <2>1. Forgotten(m, d) = Marked(x, marks, rows, d)
    BY MarkedForgotten DEF m
  <2>2. Rerowed(m, d, e) = Marked(x, d, e, un)
    BY MarkedRerowed DEF m
  <2> QED
    BY <2>1, <2>2
<1> HIDE DEF n, m
<1>4. \/ want = have /\ y = Forgotten(x, un)
      \/ want # have /\ want = 0 /\ y = m
      \/ want # have /\ want # 0 /\ y = Marked(x, marks, rows, m.c.unmarked \cup {port})
      \/ /\ want # have /\ want # 0
         /\ y = Marked(x, m.t.portEtree \cup {want},
                       Including(m.c.etreeRows, Row(port, want)), un)
  BY <1>1, <1>2, <1>3, Zenon
<1> QED
  BY <1>4, Zenon DEF want, have, rows, marks, un, m

LEMMA EtreeRenderKept ==
    ASSUME NEW x, Shape(x), NEW port
    PROVE  Kept(x, EtreeRender(x, port))
<1>1. ASSUME NEW c PROVE Kept(x, Forgotten(x, c))
  BY DEF Shape, Kept, Same, IsFcn, Forgotten
<1>2. ASSUME NEW a, NEW b, NEW c PROVE Kept(x, Marked(x, a, b, c))
  <2> DEFINE y == Marked(x, a, b, c)
  <2>1. /\ y = [t |-> y.t, c |-> y.c] /\ y.t = [x.t EXCEPT !.portEtree = a]
        /\ y.c = [[x.c EXCEPT !.etreeRows = b] EXCEPT !.unmarked = c]
    BY DEF Marked
  <2> HIDE DEF y
  <2>2. /\ IsFcn(y.t) /\ DOMAIN y.t = DOMAIN x.t
        /\ y.t.members = x.t.members /\ y.t.slotEs = x.t.slotEs /\ y.t.replSid = x.t.replSid
    BY <2>1 DEF Shape, IsFcn
  <2>3. /\ IsFcn(y.c) /\ DOMAIN y.c = DOMAIN x.c
        /\ y.c.slots = x.c.slots /\ y.c.remotes = x.c.remotes /\ y.c.groups = x.c.groups
        /\ y.c.next = x.c.next /\ y.c.dev = x.c.dev
    BY <2>1 DEF Shape, IsFcn
  <2> QED
    BY <2>1, <2>2, <2>3 DEF Shape, Kept, Same, y
<1> DEFINE want == IF port \in x.c.leaves THEN x.c.dev[port] ELSE 0
           have == IF port \in DOMAIN x.c.etreeRows THEN x.c.etreeRows[port] ELSE 0
           rows == Without(x.c.etreeRows, {port})
           marks == x.t.portEtree \ {have}
           un == x.c.unmarked \ {port}
           m == Marked(x, marks, rows, un)
           y == EtreeRender(x, port)
<1>3. \/ y = Forgotten(x, un) \/ y = m
      \/ y = Marked(x, marks, rows, m.c.unmarked \cup {port})
      \/ y = Marked(x, m.t.portEtree \cup {want}, Including(m.c.etreeRows, Row(port, want)), un)
  <2> HIDE DEF y
  <2>1. y = EtreeRender(x, port)
    BY DEF y
  <2> QED
    BY <2>1, EtreeRenderForm, Zenon
<1> HIDE DEF want, have, rows, marks, un, y
<1> QED
  BY <1>1, <1>2, <1>3, Zenon DEF y

LEMMA EtreeCallsKept ==
    ASSUME NEW x, Shape(x), NEW k
    PROVE  /\ Kept(x, SetEtreeRole(x, k))
           /\ Kept(x, SetLeafLabel(x, k)) /\ Kept(x, SetLeafArg(x, k))
<1>1. Kept(x, SetEtreeRole(x, k))
  <2> DEFINE y == [x EXCEPT !.c.leaves = IF k.leaf THEN @ \cup {k.port} ELSE @ \ {k.port}]
  <2>1. \A v : Kept(x, [x EXCEPT !.c.leaves = v])
    BY DEF Shape, Kept, Same, IsFcn
  <2>2. Kept(x, y)
    BY <2>1
  <2> QED
    BY <2>2, EtreeRenderKept, KeptTwice DEF SetEtreeRole, Kept
<1>2. Kept(x, SetLeafLabel(x, k))
  <2>1. \A v : Kept(x, [x EXCEPT !.t.leafLabels = v])
    BY DEF Shape, Kept, Same, IsFcn
  <2>2. \A y : Shape(y) => \A v : Kept(y, [y EXCEPT !.c.leafLabel = v])
    BY DEF Shape, Kept, Same, IsFcn
  <2> DEFINE y == [x EXCEPT !.t.leafLabels = (@ \ {x.c.leafLabel}) \cup ({k.label} \ {0})]
  <2>3. SetLeafLabel(x, k) = [y EXCEPT !.c.leafLabel = k.label]
    BY DEF SetLeafLabel
  <2>4. Kept(x, y)
    BY <2>1
  <2> HIDE DEF y
  <2>5. Kept(y, [y EXCEPT !.c.leafLabel = k.label])
    BY <2>2, <2>4 DEF Kept
  <2> QED
    BY <2>3, <2>4, <2>5, KeptTwice
<1>3. Kept(x, SetLeafArg(x, k))
  <2>1. \A v : Kept(x, [x EXCEPT !.t.leafArgs = v])
    BY DEF Shape, Kept, Same, IsFcn
  <2>2. \A y : Shape(y) => \A v : Kept(y, [y EXCEPT !.c.leafArg = v])
    BY DEF Shape, Kept, Same, IsFcn
  <2> DEFINE y == [x EXCEPT !.t.leafArgs = (@ \ {x.c.leafArg}) \cup ({k.arg} \ {0})]
  <2>3. SetLeafArg(x, k) = [y EXCEPT !.c.leafArg = k.arg]
    BY DEF SetLeafArg
  <2>4. Kept(x, y)
    BY <2>1
  <2> HIDE DEF y
  <2>5. Kept(y, [y EXCEPT !.c.leafArg = k.arg])
    BY <2>2, <2>4 DEF Kept
  <2> QED
    BY <2>3, <2>4, <2>5, KeptTwice
<1> QED
  BY <1>1, <1>2, <1>3

LEMMA SetPortKept ==
    ASSUME NEW x, Shape(x), NEW k
    PROVE  Kept(x, SetPort(x, k))
<1> DEFINE m == EtreeRender(x, k.port)
<1>1. Kept(x, m) /\ Shape(m)
  BY EtreeRenderKept DEF Kept
<1>2. \/ SetPort(x, k) = x \/ SetPort(x, k) = m
      \/ SetPort(x, k) = [m EXCEPT !.t.ports = Including(m.t.ports, Row(x.c.dev[k.port], "l2"))]
  BY DEF SetPort
<1> HIDE DEF m
<1>3. \A v : Kept(m, [m EXCEPT !.t.ports = v])
  BY <1>1 DEF Shape, Kept, Same, IsFcn
<1> QED
  BY <1>1, <1>2, <1>3, KeptSelf, KeptTwice

LEMMA FdbCallsKept ==
    ASSUME NEW x, Shape(x), NEW k, NEW mac, NEW e
    PROVE  /\ Kept(x, FdbOverlayAdd(x, mac, e)) /\ Kept(x, AddFdbRemote(x, k))
           /\ Kept(x, AddFdbLocal(x, k)) /\ Kept(x, DelFdbRemote(x, k))
<1>1. \A m, f : Kept(x, FdbOverlayAdd(x, m, f))
  BY KeptSelf DEF FdbOverlayAdd, Shape, Kept, Same, IsFcn
<1>2. Kept(x, AddFdbLocal(x, k))
  BY KeptSelf DEF AddFdbLocal, Shape, Kept, Same, IsFcn
<1>3. Kept(x, DelFdbRemote(x, k))
  BY KeptSelf DEF DelFdbRemote, Shape, Kept, Same, IsFcn
<1> QED
  BY <1>1, <1>2, <1>3 DEF AddFdbRemote

----------------------------------------------------------------------------
(***************************************************************************)
(* What the others change.                                                 *)
(***************************************************************************)

\* Rows that are put into a map are the ones given, as far as there is room, and
\* no other is touched.
LEMMA FillRows ==
    ASSUME NEW f, NEW rows, NEW room, NEW g, g = Fill(f, rows, room)
    PROVE  /\ DOMAIN g \subseteq DOMAIN f \cup DOMAIN rows /\ DOMAIN f \subseteq DOMAIN g
           /\ \A k \in DOMAIN g : \/ k \in DOMAIN rows /\ g[k] = rows[k]
                                  \/ k \in DOMAIN f /\ g[k] = f[k]
           /\ Fits(f, DOMAIN rows, room) => \A k \in DOMAIN rows : k \in DOMAIN g /\ g[k] = rows[k]
           /\ \A k \in DOMAIN f \ DOMAIN rows : g[k] = f[k]
<1> DEFINE in == Inserted(f, DOMAIN rows, room)
<1>1. in \subseteq DOMAIN rows /\ (Fits(f, DOMAIN rows, room) => in = DOMAIN rows)
  BY DEF Inserted
<1>2. g = Including(f, [k \in in |-> rows[k]])
  BY DEF Fill
<1> HIDE DEF in
<1>3. /\ DOMAIN g = DOMAIN f \cup in /\ \A k \in in : g[k] = rows[k]
      /\ \A k \in DOMAIN f \ in : g[k] = f[k]
  BY <1>2 DEF Including
<1>4. ASSUME NEW k \in DOMAIN g
      PROVE  \/ k \in DOMAIN rows /\ g[k] = rows[k]
             \/ k \in DOMAIN f /\ g[k] = f[k]
  <2>1. CASE k \in in
    <3>1. k \in DOMAIN rows
      BY <1>1, <2>1
    <3>2. g[k] = rows[k]
      BY <1>3, <2>1
    <3> QED
      BY <3>1, <3>2
  <2>2. CASE k \notin in
    BY <1>3, <2>2
  <2> QED
    BY <2>1, <2>2
<1>5. ASSUME Fits(f, DOMAIN rows, room)
      PROVE  \A k \in DOMAIN rows : k \in DOMAIN g /\ g[k] = rows[k]
  BY <1>1, <1>3, <1>5
<1>6. /\ DOMAIN g \subseteq DOMAIN f \cup DOMAIN rows /\ DOMAIN f \subseteq DOMAIN g
      /\ \A k \in DOMAIN f \ DOMAIN rows : g[k] = f[k]
  BY <1>1, <1>3
<1>7. \A k \in DOMAIN g : \/ k \in DOMAIN rows /\ g[k] = rows[k]
                          \/ k \in DOMAIN f /\ g[k] = f[k]
  BY <1>4, Zenon
<1>8. Fits(f, DOMAIN rows, room) => \A k \in DOMAIN rows : k \in DOMAIN g /\ g[k] = rows[k]
  BY <1>5, Zenon
<1> QED
  BY <1>6, <1>7, <1>8, Zenon

\* slot_es_set writes the rows it is given and no other.
LEMMA SlotEsSetRows ==
    ASSUME NEW x, Shape(x), NEW rows, NEW y, y = [x EXCEPT !.t = SlotEsSet(x.t, rows)]
    PROVE  /\ Shape(y) /\ y.t = SlotEsSet(x.t, rows) /\ y.c = x.c
           /\ y.t.members = x.t.members /\ y.t.replSid = x.t.replSid
           /\ \A p : p \notin DOMAIN rows /\ RootsOnly(x, p) => RootsOnly(y, p)
           /\ SlotEsFits(x.t, rows) =>
                 \A p \in DOMAIN rows : rows[p] = SlotRow(0, {}, "root") => RootsOnly(y, p)
<1> DEFINE real == RealRows(rows)
           old == RowsLeft(x.t, rows)
           new == [i \in real |-> rows[i]]
           v == Fill(old, new, x.t.cap.slotEs)
<1>1. /\ y.t = [x.t EXCEPT !.slotEs = v] /\ y.c = x.c
      /\ y = [t |-> y.t, c |-> y.c] /\ y.t = SlotEsSet(x.t, rows)
  BY DEF Shape, SlotEsSet
<1>4. /\ \A p \in DOMAIN old \ real : p \in DOMAIN v /\ v[p] = old[p]
      /\ SlotEsFits(x.t, rows) => \A p \in real : p \in DOMAIN v /\ v[p] = rows[p]
  <2>1. DOMAIN new = real
    OBVIOUS
  <2> HIDE DEF real, old
  <2>2. \A p \in real : new[p] = rows[p]
    OBVIOUS
  <2>3. SlotEsFits(x.t, rows) <=> Fits(old, DOMAIN new, x.t.cap.slotEs)
    BY <2>1 DEF SlotEsFits, real, old
  <2> HIDE DEF new
  <2> QED
    BY <2>1, <2>2, <2>3, FillRows
<1>5. /\ DOMAIN x.t.slotEs \ DOMAIN rows \subseteq DOMAIN old \ real
      /\ \A p \in DOMAIN old : old[p] = x.t.slotEs[p]
  BY DEF RowsLeft, RealRows, Without
<1> HIDE DEF v, old
<1>2. y.t.slotEs = v
  BY <1>1 DEF Shape, IsFcn
<1>3. /\ Shape(y) /\ y.t.members = x.t.members /\ y.t.replSid = x.t.replSid
  BY <1>1 DEF Shape, IsFcn
<1>6. ASSUME NEW p, p \notin DOMAIN rows, RootsOnly(x, p) PROVE RootsOnly(y, p)
  BY <1>2, <1>4, <1>5, <1>6 DEF RootsOnly
<1>7. ASSUME SlotEsFits(x.t, rows), NEW p \in DOMAIN rows, rows[p] = SlotRow(0, {}, "root")
      PROVE  RootsOnly(y, p)
  <2>1. SlotRow(0, {}, "root") # SlotRow(0, {}, "none")
    BY DEF SlotRow
  <2>2. p \in real
    BY <1>7, <2>1 DEF RealRows
  <2> QED
    BY <1>2, <1>4, <1>7, <2>2 DEF RootsOnly
<1> QED
  BY <1>1, <1>3, <1>6, <1>7

\* The slots of a group are written, and the group is kept.
Regrouped(x, y, i) ==
    /\ Shape(y) /\ \A key \in DOMAIN y.c.groups : IsGroup(y.c.groups[key])
    /\ y.t.members = x.t.members /\ y.t.replSid = x.t.replSid
    /\ y.c.slots = x.c.slots /\ y.c.remotes = x.c.remotes
    /\ y.c.next = x.c.next /\ y.c.dev = x.c.dev
    /\ AllIdx(y) \subseteq AllIdx(x) \cup {0, i}
    /\ \A p : p \notin AllIdx(x) \cup {0, i} /\ RootsOnly(x, p) => RootsOnly(y, p)

LEMMA GroupRowsDomain ==
    ASSUME NEW c, NEW g
    PROVE  DOMAIN SlotGroupRows(c, g) \subseteq GroupIdx(g)
BY DEF SlotGroupRows, GroupIdx, Including

LEMMA SetGroupGroups ==
    ASSUME NEW c, IsFcn(c), {"slots", "remotes", "groups", "next", "dev"} \subseteq DOMAIN c,
           NEW key, NEW g, IsGroup(g), \A k \in DOMAIN c.groups : IsGroup(c.groups[k]),
           NEW d, d = SetGroup(c, key, g)
    PROVE  /\ IsFcn(d) /\ DOMAIN d = DOMAIN c
           /\ d.slots = c.slots /\ d.remotes = c.remotes /\ d.next = c.next /\ d.dev = c.dev
           /\ \A k \in DOMAIN d.groups :
                 /\ IsGroup(d.groups[k])
                 /\ d.groups[k] = g \/ (k \in DOMAIN c.groups /\ d.groups[k] = c.groups[k])
<1> DEFINE G == IF g = NewGroup THEN Without(c.groups, {key}) ELSE Including(c.groups, Row(key, g))
<1>1. d = [c EXCEPT !.groups = G]
  BY DEF SetGroup
<1>2. \A k \in DOMAIN G : G[k] = g \/ (k \in DOMAIN c.groups /\ G[k] = c.groups[k])
  BY DEF Without, Including, Row
<1> HIDE DEF G
<1>3. d.groups = G
  BY <1>1 DEF IsFcn
<1>4. /\ IsFcn(d) /\ DOMAIN d = DOMAIN c
      /\ d.slots = c.slots /\ d.remotes = c.remotes /\ d.next = c.next /\ d.dev = c.dev
  BY <1>1 DEF IsFcn
<1>5. \A k \in DOMAIN d.groups : IsGroup(d.groups[k])
  BY <1>2, <1>3
<1> QED
  BY <1>2, <1>3, <1>4, <1>5

LEMMA GroupSegmentsKept ==
    ASSUME NEW c, IsFcn(c), {"slots", "remotes", "groups", "next", "dev"} \subseteq DOMAIN c,
           NEW g, NEW d, d = GroupSegments(c, g)
    PROVE  /\ IsFcn(d) /\ DOMAIN d = DOMAIN c /\ d.slots = c.slots /\ d.remotes = c.remotes
           /\ d.next = c.next /\ d.dev = c.dev /\ d.groups = c.groups
<1>1. \E v : d = [c EXCEPT !.es = v]
  BY DEF GroupSegments
<1> QED
  BY <1>1 DEF IsFcn

LEMMA RenderGroupRows ==
    ASSUME NEW x, Shape(x), \A k \in DOMAIN x.c.groups : IsGroup(x.c.groups[k]),
           NEW key, NEW g, IsGroup(g), NEW i, GroupIdx(g) \subseteq AllIdx(x) \cup {0, i},
           NEW gone, gone \subseteq {i}
    PROVE  Regrouped(x, RenderGroup(x, key, g, gone), i)
<1> DEFINE y == RenderGroup(x, key, g, gone)
           c == GroupSegments(x.c, g)
           rows == SlotGroupRows(c, g)
           none == NoRows(gone)
<1>1. IsFcn(x.c) /\ {"slots", "remotes", "groups", "next", "dev"} \subseteq DOMAIN x.c
  BY DEF Shape
<1>2. /\ IsFcn(c) /\ DOMAIN c = DOMAIN x.c /\ c.slots = x.c.slots /\ c.remotes = x.c.remotes
      /\ c.next = x.c.next /\ c.dev = x.c.dev /\ c.groups = x.c.groups
  BY <1>1, GroupSegmentsKept
<1>3. y.c = SetGroup(c, key, g)
  BY DEF RenderGroup, Shape
<1>4. /\ IsFcn(y.c) /\ DOMAIN y.c = DOMAIN x.c
      /\ y.c.slots = x.c.slots /\ y.c.remotes = x.c.remotes
      /\ y.c.next = x.c.next /\ y.c.dev = x.c.dev
      /\ \A k \in DOMAIN y.c.groups :
            /\ IsGroup(y.c.groups[k])
            /\ y.c.groups[k] = g \/ (k \in DOMAIN x.c.groups /\ y.c.groups[k] = x.c.groups[k])
  <2> HIDE DEF c, y
  <2> QED
    BY <1>1, <1>2, <1>3, SetGroupGroups
<1>5. AllIdx(y) \subseteq AllIdx(x) \cup {0, i}
  <2> HIDE DEF y
  <2> QED
    BY <1>4 DEF AllIdx
<1>6. y = [t |-> y.t, c |-> y.c]
  BY DEF RenderGroup, Shape
<1>7. /\ IsFcn(y.t) /\ DOMAIN y.t = DOMAIN x.t
      /\ y.t.members = x.t.members /\ y.t.replSid = x.t.replSid
      /\ \A p : p \notin AllIdx(x) \cup {0, i} /\ RootsOnly(x, p) => RootsOnly(y, p)
  <2>1. CASE ~AllMade(c, g)
    <3>1. y.t = x.t
      BY <2>1 DEF RenderGroup, Shape
    <3> QED
      BY <3>1 DEF Shape, RootsOnly
  <2>2. CASE AllMade(c, g)
    <3> DEFINE u == [x EXCEPT !.t = SlotEsSet(x.t, none)]
               v == [u EXCEPT !.t = SlotEsSet(u.t, rows)]
    <3>1. /\ Shape(u) /\ u.t = SlotEsSet(x.t, none) /\ u.t.members = x.t.members
          /\ u.t.replSid = x.t.replSid
          /\ \A p : p \notin DOMAIN none /\ RootsOnly(x, p) => RootsOnly(u, p)
      BY SlotEsSetRows
    <3>2. /\ Shape(v) /\ v.t = SlotEsSet(u.t, rows) /\ v.t.members = u.t.members
          /\ v.t.replSid = u.t.replSid
          /\ \A p : p \notin DOMAIN rows /\ RootsOnly(u, p) => RootsOnly(v, p)
      <4> HIDE DEF u, rows
      <4> QED
        BY <3>1, SlotEsSetRows
    <3>3. DOMAIN none \subseteq {i} /\ DOMAIN rows \subseteq AllIdx(x) \cup {0, i}
      BY GroupRowsDomain DEF NoRows
    <3>4. y.t = v.t
      BY <2>2, <3>1, <3>2 DEF RenderGroup
    <3>5. DOMAIN v.t = DOMAIN x.t
      BY <3>1, <3>2 DEF Shape, SlotEsSet, IsFcn
    <3> HIDE DEF u, v, rows, none, y
    <3> QED
      BY <3>1, <3>2, <3>3, <3>4, <3>5 DEF Shape, RootsOnly
  <2> QED
    BY <2>1, <2>2
<1> HIDE DEF y
<1>8. Shape(y)
  BY <1>4, <1>6, <1>7 DEF Shape
<1> QED
  BY <1>4, <1>5, <1>7, <1>8 DEF Regrouped, y

\* slot_es_bind, slot_es_unbind, set_etree_root_only.
LEMMA GroupOfIdx ==
    ASSUME NEW x, \A k \in DOMAIN x.c.groups : IsGroup(x.c.groups[k]), NEW key
    PROVE  IsGroup(GroupOf(x.c, key)) /\ GroupIdx(GroupOf(x.c, key)) \subseteq AllIdx(x) \cup {0}
<1>1. CASE Get(x.c.groups, key) = None
  <2>1. GroupOf(x.c, key) = NewGroup
    BY <1>1 DEF GroupOf
  <2>2. IsGroup(NewGroup) /\ GroupIdx(NewGroup) \subseteq {0}
    BY DEF NewGroup, IsGroup, GroupIdx, Range
  <2> QED
    BY <2>1, <2>2
<1>2. CASE Get(x.c.groups, key) # None
  BY <1>2 DEF Get, GroupOf, AllIdx
<1> QED
  BY <1>1, <1>2

LEMMA BindRegroups ==
    ASSUME NEW x, Shape(x), \A k \in DOMAIN x.c.groups : IsGroup(x.c.groups[k]),
           NEW key, NEW i, NEW role
    PROVE  Regrouped(x, SlotEsBind(x, key, i, role), i)
<1> DEFINE g == GroupOf(x.c, key)
           h == Joined(g, i, role)
<1>1. IsGroup(g) /\ GroupIdx(g) \subseteq AllIdx(x) \cup {0}
  BY GroupOfIdx
<1>2. SlotEsBind(x, key, i, role) = RenderGroup(x, key, h, {})
  BY DEF SlotEsBind
<1> HIDE DEF g
<1>3. IsGroup(h) /\ GroupIdx(h) \subseteq GroupIdx(g) \cup {i}
  <2>1. CASE role = "plain"
    <3>1. h = [plain |-> i, es |-> g.es, leaf |-> g.leaf, rootOnly |-> g.rootOnly]
      BY <1>1, <2>1 DEF IsGroup, Joined
    <3> QED
      BY <3>1 DEF IsGroup, GroupIdx
  <2>2. CASE role = "leaf"
    <3>1. h = [plain |-> g.plain, es |-> g.es, leaf |-> i, rootOnly |-> g.rootOnly]
      BY <1>1, <2>2 DEF IsGroup, Joined
    <3> QED
      BY <3>1 DEF IsGroup, GroupIdx
  <2>3. CASE role # "plain" /\ role # "leaf"
    <3>1. h = [plain |-> g.plain, es |-> Including(g.es, Row(role, i)), leaf |-> g.leaf,
               rootOnly |-> g.rootOnly]
      BY <1>1, <2>3 DEF IsGroup, Joined
    <3>2. Range(Including(g.es, Row(role, i))) \subseteq Range(g.es) \cup {i}
      BY DEF Including, Row, Range
    <3> QED
      BY <3>1, <3>2 DEF IsGroup, GroupIdx
  <2> QED
    BY <2>1, <2>2, <2>3
<1> HIDE DEF h
<1> QED
  BY <1>1, <1>2, <1>3, RenderGroupRows

LEMMA UnbindRegroups ==
    ASSUME NEW x, Shape(x), \A k \in DOMAIN x.c.groups : IsGroup(x.c.groups[k]),
           NEW key, NEW i
    PROVE  Regrouped(x, SlotEsUnbind(x, key, i), i)
<1> DEFINE g == GroupOf(x.c, key)
           h == Left(g, i)
<1>1. IsGroup(g) /\ GroupIdx(g) \subseteq AllIdx(x) \cup {0}
  BY GroupOfIdx
<1>2. IsGroup(h) /\ GroupIdx(h) \subseteq GroupIdx(g) \cup {0}
  <2>1. Range(h.es) \subseteq Range(g.es)
    BY DEF Without, Range, Left
  <2> QED
    BY <2>1 DEF IsGroup, GroupIdx, Left
<1>3. \/ SlotEsUnbind(x, key, i) = x
      \/ SlotEsUnbind(x, key, i) = RenderGroup(x, key, h, {i})
  BY DEF SlotEsUnbind
<1>4. Regrouped(x, x, i)
  BY DEF Regrouped
<1> HIDE DEF g, h
<1> QED
  BY <1>1, <1>2, <1>3, <1>4, RenderGroupRows

LEMMA RootOnlyRegroups ==
    ASSUME NEW x, Shape(x), \A k \in DOMAIN x.c.groups : IsGroup(x.c.groups[k]), NEW k
    PROVE  Regrouped(x, SetRootOnly(x, k), 0)
<1> DEFINE g == GroupOf(x.c, k.key)
           h == [g EXCEPT !.rootOnly = k.on]
           c == GroupSegments(x.c, g)
           y == [x EXCEPT !.c = c]
<1>1. IsGroup(g) /\ GroupIdx(g) \subseteq AllIdx(x) \cup {0}
  BY GroupOfIdx
<1>2. h = [plain |-> g.plain, es |-> g.es, leaf |-> g.leaf, rootOnly |-> k.on]
  BY <1>1 DEF IsGroup
<1>3. \/ SetRootOnly(x, k) = x \/ SetRootOnly(x, k) = y
      \/ SetRootOnly(x, k) = RenderGroup(x, k.key, h, {})
  BY DEF SetRootOnly
<1>4. Regrouped(x, x, 0)
  BY DEF Regrouped
<1>5. Regrouped(x, y, 0)
  <2>1. /\ IsFcn(c) /\ DOMAIN c = DOMAIN x.c /\ c.slots = x.c.slots /\ c.remotes = x.c.remotes
        /\ c.next = x.c.next /\ c.dev = x.c.dev /\ c.groups = x.c.groups
    BY GroupSegmentsKept DEF Shape
  <2> HIDE DEF c
  <2>2. y.t = x.t /\ y.c = c /\ y = [t |-> y.t, c |-> y.c]
    BY DEF Shape
  <2> HIDE DEF y
  <2> QED
    BY <2>1, <2>2 DEF Regrouped, Shape, AllIdx, RootsOnly
<1> HIDE DEF g, h, y
<1>6. IsGroup(h) /\ GroupIdx(h) = GroupIdx(g)
  BY <1>2 DEF IsGroup, GroupIdx
<1> QED
  BY <1>1, <1>3, <1>4, <1>5, <1>6, RenderGroupRows

----------------------------------------------------------------------------
(***************************************************************************)
(* Each step of a call keeps its node sound: first what it does to the     *)
(* node, then what it does to the calls under way.                         *)
(***************************************************************************)
LEMMA SlotOfFields ==
    ASSUME NEW x, NEW a, NEW p, SlotOf(x, a, p)
    PROVE  /\ <<a, "">> \in DOMAIN x.c.slots
           /\ x.c.slots[<<a, "">>].idx = p /\ x.c.slots[<<a, "">>].group = None
<1> DEFINE s == x.c.slots[<<a, "">>]
<1>1. <<a, "">> \in DOMAIN x.c.slots /\ s = [idx |-> p, group |-> None]
  BY DEF SlotOf
<1> HIDE DEF s
<1>2. s.idx = p /\ s.group = None
  BY <1>1
<1> QED
  BY <1>1, <1>2 DEF s

LEMMA KeptSound ==
    ASSUME NEW x, NEW y, NEW B, NEW names, Sound(x, B, names), Kept(x, y)
    PROVE  Sound(y, B, names)
<1>1. Shape(y) /\ PortsTyped(y, names)
  BY DEF Sound, Kept, Same, PortsTyped
<1>2. Low(y, B)
  BY DEF Sound, Kept, Same, Low, GroupRows, AllIdx
<1>3. PortsApart(y, B)
  BY DEF Sound, Kept, Same, PortsApart, GroupRows, AllIdx, NoDevice
<1>4. SlotsListed(y, B)
  BY DEF Sound, Kept, Same, SlotsListed, OverVxlan, SlotOf
<1>5. AddingSound(y, B)
  BY DEF Sound, Kept, Same, AddingSound
<1>6. RowsMarked(y, B) /\ MarksSound(y, B)
  BY DEF Sound, Kept, Same, RowsMarked, MarksSound, RootsOnly, SlotOf
<1> QED
  BY <1>1, <1>2, <1>3, <1>4, <1>5, <1>6 DEF Sound

\* Calls about neither slots nor marks; a group's row that is written.
LEMMA AlikeSound ==
    ASSUME NEW x, NEW B, NEW C, NEW names, Sound(x, B, names),
           Slotting(C) = Slotting(B), Marking(C) = Marking(B),
           GroupRows(x, C) \subseteq GroupRows(x, B)
    PROVE  Sound(x, C, names)
<1>1. Adding(C) = Adding(B)
  <2>1. \A D : Adding(D) = {b \in Slotting(D) : b.k.op = "addslot"}
    BY DEF Adding, Slotting
  <2> QED
    BY <2>1
<1>2. Low(x, C) /\ PortsApart(x, C)
  BY <1>1 DEF Sound, Low, PortsApart
<1>3. SlotsListed(x, C) /\ AddingSound(x, C)
  BY <1>1 DEF Sound, SlotsListed, AddingSound, Leaving
<1>4. RowsMarked(x, C)
  <2>1. \A a : Finding(B, a) => Finding(C, a)
    BY DEF Finding
  <2>2. \A a, p : Writing(B, a, p) => Writing(C, a, p)
    BY DEF Writing
  <2> QED
    BY <1>1, <2>1, <2>2 DEF Sound, RowsMarked
<1>5. MarksSound(x, C)
  BY <1>1 DEF Sound, MarksSound
<1> QED
  BY <1>2, <1>3, <1>4, <1>5 DEF Sound

\* The row of a device is about to be written.
LEMMA BindBegun ==
    ASSUME NEW x, NEW B, NEW names, Sound(x, B, names),
           NEW b, b.k.op = "staticslot", b.idx \in Range(x.c.dev)
    PROVE  Sound(x, B \cup {b}, names)
<1> DEFINE C == B \cup {b}
<1>1. /\ Slotting(C) = Slotting(B) /\ Marking(C) = Marking(B) /\ Adding(C) = Adding(B)
      /\ GroupRows(x, C) = GroupRows(x, B) \cup {b.idx}
  <2>1. Slotting(C) = Slotting(B) /\ Marking(C) = Marking(B) /\ Adding(C) = Adding(B)
    BY DEF Slotting, Marking, Adding
  <2>2. {a \in C : a.k.op = "staticslot"} = {a \in B : a.k.op = "staticslot"} \cup {b}
    OBVIOUS
  <2>3. GroupRows(x, C) = GroupRows(x, B) \cup {b.idx}
    <3>1. BindIdx(C) = BindIdx(B) \cup {b.idx}
      BY <2>2 DEF BindIdx
    <3> QED
      BY <3>1 DEF GroupRows
  <2> QED
    BY <2>1, <2>3
<1> HIDE DEF C
<1>2. Low(x, C)
  BY <1>1 DEF Sound, Low
<1>3. PortsApart(x, C)
  <2>1. \A i : NoDevice(x, i) => i # b.idx
    BY DEF NoDevice
  <2>2. Adding(B) \subseteq Slotting(B)
    BY DEF Adding, Slotting
  <2> QED
    BY <1>1, <2>1, <2>2 DEF Sound, PortsApart
<1>4. SlotsListed(x, C) /\ AddingSound(x, C)
  BY <1>1 DEF Sound, SlotsListed, AddingSound, Leaving
<1>5. RowsMarked(x, C)
  <2>1. \A a : Finding(B, a) => Finding(C, a)
    BY <1>1 DEF Finding
  <2>2. \A a, p : Writing(B, a, p) => Writing(C, a, p)
    BY <1>1 DEF Writing
  <2> QED
    BY <1>1, <2>1, <2>2 DEF Sound, RowsMarked
<1>6. MarksSound(x, C)
  BY <1>1 DEF Sound, MarksSound
<1> QED
  BY <1>2, <1>3, <1>4, <1>5, <1>6 DEF Sound, C

\* slot_es_bind and the like, where i is not the row of a slot in no group.
LEMMA RegroupedSound ==
    ASSUME NEW x, NEW y, NEW B, NEW names, Sound(x, B, names), NEW i, Regrouped(x, y, i),
           i \in 0..x.c.next - 1,
           \A key \in DOMAIN x.c.slots : x.c.slots[key].group = None => x.c.slots[key].idx # i,
           \A b \in Adding(B) : b.k.group = None => b.idx # i
    PROVE  Sound(y, B, names)
<1>1. /\ y.t.members = x.t.members /\ y.t.replSid = x.t.replSid
      /\ y.c.slots = x.c.slots /\ y.c.remotes = x.c.remotes
      /\ y.c.next = x.c.next /\ y.c.dev = x.c.dev
  BY DEF Regrouped
<1>2. GroupRows(y, B) \subseteq GroupRows(x, B) \cup {0, i}
  BY DEF Regrouped, GroupRows
<1>3. \A p : p \notin GroupRows(x, B) \cup {0, i} /\ RootsOnly(x, p) => RootsOnly(y, p)
  BY DEF Regrouped, GroupRows
<1>4. x.c.next \in Nat \ {0}
  BY DEF Sound, PortsTyped
<1>5. Shape(y) /\ PortsTyped(y, names)
  BY <1>1 DEF Sound, Regrouped, PortsTyped
<1>6. Low(y, B)
  <2>1. 0 \in 0..x.c.next - 1
    BY <1>4
  <2> QED
    BY <1>1, <1>2, <2>1 DEF Sound, Low
<1>7. Adding(B) \subseteq Slotting(B)
  BY DEF Adding, Slotting
<1>8. /\ \A key \in DOMAIN x.c.slots : x.c.slots[key].idx # 0
      /\ \A b \in Slotting(B) : b.idx # 0
  BY <1>4 DEF Sound, Low
<1>9. PortsApart(y, B)
  BY <1>1, <1>2, <1>7, <1>8 DEF Sound, PortsApart, NoDevice
<1>10. SlotsListed(y, B)
  BY <1>1 DEF Sound, SlotsListed, OverVxlan, SlotOf
<1>11. AddingSound(y, B) /\ MarksSound(y, B)
  <2>1. AddingSound(x, B) /\ MarksSound(x, B)
    BY DEF Sound
  <2>2. AddingSound(y, B)
    BY ONLY <1>1, <2>1 DEF AddingSound
  <2>3. MarksSound(y, B)
    BY ONLY <1>1, <2>1 DEF MarksSound
  <2> QED
    BY <2>2, <2>3
<1>12. \A key \in DOMAIN x.c.slots : x.c.slots[key].group = None =>
          x.c.slots[key].idx \notin GroupRows(x, B) \cup {0, i}
  BY <1>8 DEF Sound, PortsApart
<1>13. \A b \in Adding(B) : b.k.group = None => b.idx \notin GroupRows(x, B) \cup {0, i}
  BY <1>7, <1>8 DEF Sound, PortsApart
<1>14. RowsMarked(y, B)
  <2>1. ASSUME NEW a \in x.c.remotes, NEW p, p = x.c.slots[<<a, "">>].idx, SlotOf(x, a, p)
        PROVE  RootsOnly(y, p) \/ Finding(B, a) \/ Writing(B, a, p)
    <3>1. <<a, "">> \in DOMAIN x.c.slots /\ x.c.slots[<<a, "">>].group = None
      BY <2>1, SlotOfFields
    <3>2. RootsOnly(x, p) \/ Finding(B, a) \/ Writing(B, a, p)
      BY <2>1 DEF Sound, RowsMarked
    <3> QED
      BY <1>3, <1>12, <2>1, <3>1, <3>2
  <2>2. ASSUME NEW b \in Adding(B), b.pc = "join", b.k.group = None, b.k.addr \in x.c.remotes
        PROVE  RootsOnly(y, b.idx) \/ Finding(B, b.k.addr)
    <3>1. RootsOnly(x, b.idx) \/ Finding(B, b.k.addr)
      BY <2>2 DEF Sound, RowsMarked
    <3> QED
      BY <1>3, <1>13, <2>2, <3>1
  <2> QED
    BY <1>1, <2>1, <2>2 DEF RowsMarked, SlotOf
<1> QED
  BY <1>5, <1>6, <1>9, <1>10, <1>11, <1>14 DEF Sound

\* set_port: the device has a new index.
LEMMA PortSound ==
    ASSUME NEW x, NEW y, NEW B, NEW names, Sound(x, B, names), NEW port \in names,
           Shape(y), y.t = x.t, y.c.slots = x.c.slots, y.c.remotes = x.c.remotes,
           y.c.groups = x.c.groups, y.c.next = x.c.next + 1,
           y.c.dev = [x.c.dev EXCEPT ![port] = x.c.next]
    PROVE  Sound(y, B, names)
<1>1. x.c.next \in Nat \ {0} /\ IsFcn(x.c.dev) /\ DOMAIN x.c.dev = names
  BY DEF Sound, PortsTyped
<1>2. Range(y.c.dev) \subseteq Range(x.c.dev) \cup {x.c.next}
  BY <1>1 DEF IsFcn, Range
<1>3. PortsTyped(y, names)
  <2>1. IsFcn(y.c.dev) /\ DOMAIN y.c.dev = names
    BY <1>1 DEF IsFcn
  <2>2. y.c.next \in Nat \ {0}
    BY <1>1
  <2> QED
    BY <2>1, <2>2 DEF Sound, PortsTyped
<1>4. GroupRows(y, B) = GroupRows(x, B)
  BY DEF GroupRows, AllIdx
<1>5. 0..x.c.next - 1 \subseteq 0..y.c.next - 1 /\ 1..x.c.next - 2 \subseteq 1..y.c.next - 2
  BY <1>1
<1>6. Low(y, B)
  <2>1. x.c.next \in 0..y.c.next - 1
    BY <1>1
  <2> QED
    BY <1>2, <1>4, <1>5, <2>1 DEF Sound, Low
<1>7. \A i \in 1..x.c.next - 2 : NoDevice(x, i) => NoDevice(y, i)
  <2>1. \A i \in 1..x.c.next - 2 : i # x.c.next /\ i + 1 # x.c.next
    BY <1>1
  <2> QED
    BY <1>2, <2>1 DEF NoDevice
<1>8. PortsApart(y, B)
  <2>1. \A key \in DOMAIN x.c.slots : NoDevice(y, x.c.slots[key].idx)
    BY <1>7 DEF Sound, Low, PortsApart
  <2>2. \A b \in Slotting(B) : NoDevice(y, b.idx)
    BY <1>7 DEF Sound, Low, PortsApart
  <2> QED
    BY <1>4, <2>1, <2>2 DEF Sound, PortsApart
<1>9. SlotsListed(y, B)
  <2>1. \A p : OverVxlan(y, p) <=> OverVxlan(x, p)
    BY DEF OverVxlan
  <2>2. ~OverVxlan(x, x.c.next)
    BY <1>1 DEF Sound, Low, OverVxlan
  <2> QED
    BY <1>2, <2>1, <2>2 DEF Sound, SlotsListed, SlotOf
<1>10. AddingSound(y, B)
  BY DEF Sound, AddingSound
<1>11. RowsMarked(y, B) /\ MarksSound(y, B)
  BY DEF Sound, RowsMarked, MarksSound, RootsOnly, SlotOf
<1> QED
  BY <1>3, <1>6, <1>8, <1>9, <1>10, <1>11 DEF Sound

\* set_l2_domain: the members are the devices that the call names.
LEMMA SetToSeqProperties ==
    ASSUME NEW n \in Nat, NEW S \in SUBSET (0..n)
    PROVE  /\ SetToSeq(S) \in Seq(Nat) /\ IsInjective(SetToSeq(S))
           /\ Range(SetToSeq(S)) \subseteq S
<1>1. IsFiniteSet(0..n)
  BY FS_Interval
<1>2. IsFiniteSet(S)
  BY <1>1, FS_Subset
<1>3. Cardinality(S) \in Nat /\ ExistsBijection(1..Cardinality(S), S)
  BY <1>2, FS_CardinalityType
<1>4. \E f \in [1..Cardinality(S) -> S] : IsInjective(f)
  BY <1>3 DEF ExistsBijection, Bijection, Injection
<1>5. SetToSeq(S) \in [1..Cardinality(S) -> S] /\ IsInjective(SetToSeq(S))
  BY <1>4, Zenon DEF SetToSeq
<1>6. S \subseteq Nat
  OBVIOUS
<1> QED
  BY <1>3, <1>5, <1>6 DEF Range

LEMMA DomainSound ==
    ASSUME NEW x, NEW y, NEW B, NEW names, Sound(x, B, names),
           Shape(y), y.c = x.c, y.t.slotEs = x.t.slotEs, y.t.replSid = x.t.replSid,
           y.t.members \in Seq(Nat), IsInjective(y.t.members),
           Range(y.t.members) \subseteq Range(x.c.dev)
    PROVE  Sound(y, B, names)
<1>1. GroupRows(y, B) = GroupRows(x, B)
  BY DEF GroupRows, AllIdx
<1>2. PortsTyped(y, names)
  BY DEF Sound, PortsTyped
<1>3. Low(y, B)
  BY <1>1 DEF Sound, Low
<1>4. PortsApart(y, B)
  BY <1>1 DEF Sound, PortsApart, NoDevice
<1>5. SlotsListed(y, B)
  BY DEF Sound, SlotsListed, OverVxlan
<1>6. AddingSound(y, B)
  <2>1. \A b \in Adding(B) : NoDevice(x, b.idx)
    BY DEF Sound, PortsApart, Adding, Slotting
  <2> QED
    BY <2>1 DEF Sound, AddingSound, NoDevice
<1>7. RowsMarked(y, B) /\ MarksSound(y, B)
  BY DEF Sound, RowsMarked, MarksSound, RootsOnly, SlotOf
<1> QED
  BY <1>2, <1>3, <1>4, <1>5, <1>6, <1>7 DEF Sound

\* add_repl_slot_auto begins: the pair of indexes is new.
LEMMA AddBegun ==
    ASSUME NEW x, NEW y, NEW B, NEW names, Sound(x, B, names),
           Shape(y), y.t = x.t, y.c.slots = x.c.slots, y.c.remotes = x.c.remotes,
           y.c.groups = x.c.groups, y.c.dev = x.c.dev, y.c.next = x.c.next + 2,
           NEW b, b.k.op = "addslot", b.pc = "program", b.idx = x.c.next,
           Adding(B) = {}, SlotKey(b.k) \notin DOMAIN x.c.slots
    PROVE  Sound(y, B \cup {b}, names)
<1> DEFINE C == B \cup {b}
<1>1. /\ Slotting(C) = Slotting(B) \cup {b} /\ Adding(C) = {b} /\ Marking(C) = Marking(B)
      /\ BindIdx(C) = BindIdx(B)
  <2>1. {a \in C : a.k.op = "staticslot"} = {a \in B : a.k.op = "staticslot"}
    OBVIOUS
  <2> QED
    BY <2>1 DEF Slotting, Adding, Marking, BindIdx
<1> HIDE DEF C
<1>2. x.c.next \in Nat \ {0}
  BY DEF Sound, PortsTyped
<1>3. GroupRows(y, C) = GroupRows(x, B)
  BY <1>1 DEF GroupRows, AllIdx
<1>4. PortsTyped(y, names)
  <2>1. y.c.next \in Nat \ {0}
    BY <1>2
  <2> QED
    BY <2>1 DEF Sound, PortsTyped
<1>5. 0..x.c.next - 1 \subseteq 0..y.c.next - 1 /\ 1..x.c.next - 2 \subseteq 1..y.c.next - 2
  BY <1>2
<1>6. Low(y, C)
  <2>1. b.idx \in 1..y.c.next - 2
    BY <1>2
  <2> QED
    BY <1>1, <1>3, <1>5, <2>1 DEF Sound, Low
<1>7. PortsApart(y, C)
  <2>1. \A j \in 1..x.c.next - 2 : Clear(b.idx, j) /\ Clear(j, b.idx)
    BY <1>2 DEF Clear
  <2>2. NoDevice(y, b.idx)
    BY <1>2 DEF Sound, Low, NoDevice
  <2>3. b.idx \notin GroupRows(x, B)
    BY <1>2 DEF Sound, Low
  <2>4. /\ \A k, l \in DOMAIN x.c.slots : k # l => Clear(x.c.slots[k].idx, x.c.slots[l].idx)
        /\ \A k \in DOMAIN x.c.slots : NoDevice(y, x.c.slots[k].idx)
        /\ \A a \in Slotting(B) : NoDevice(y, a.idx)
    BY DEF Sound, PortsApart, NoDevice
  <2>5. \A a \in Slotting(C), k \in DOMAIN x.c.slots : Clear(a.idx, x.c.slots[k].idx)
    BY <1>1, <2>1 DEF Sound, PortsApart, Low
  <2>6. \A a, c \in Slotting(C) : a # c => Clear(a.idx, c.idx)
    BY <1>1, <2>1 DEF Sound, PortsApart, Low
  <2> QED
    BY <1>1, <1>3, <2>2, <2>3, <2>4, <2>5, <2>6 DEF Sound, PortsApart
<1>8. SlotsListed(y, C)
  <2>1. \A p : OverVxlan(y, p) <=> OverVxlan(x, p)
    BY DEF OverVxlan
  <2>2. \A p : Leaving(B, p) => Leaving(C, p)
    BY <1>1 DEF Leaving
  <2> QED
    BY <2>1, <2>2 DEF Sound, SlotsListed, SlotOf
<1>9. AddingSound(y, C)
  <2>1. b.idx \notin Range(x.t.members) /\ b.idx + 1 \notin Range(x.t.members)
    BY <1>2 DEF Sound, Low
  <2> QED
    BY <1>1, <2>1 DEF AddingSound
<1>10. RowsMarked(y, C)
  <2>1. \A a : Finding(B, a) => Finding(C, a)
    BY <1>1 DEF Finding
  <2>2. \A a, p : Writing(B, a, p) => Writing(C, a, p)
    BY <1>1 DEF Writing
  <2> QED
    BY <1>1, <2>1, <2>2 DEF Sound, RowsMarked, SlotOf, RootsOnly
<1>11. MarksSound(y, C)
  <2>1. \A m \in Marking(B) : m.pc = "program" => b.idx # m.idx
    BY <1>2 DEF Sound, Low
  <2> QED
    BY <1>1, <2>1 DEF Sound, MarksSound
<1> QED
  BY <1>4, <1>6, <1>7, <1>8, <1>9, <1>10, <1>11 DEF Sound, C

\* A call about a slot goes on to its next section.
LEMMA MovedSound ==
    ASSUME NEW x, NEW B, NEW names, Sound(x, B, names),
           NEW b \in Slotting(B), NEW to, to.k = b.k, to.idx = b.idx,
           b.k.op = "addslot" =>
              /\ to.pc # "program" /\ b.idx \in DOMAIN x.t.replSid
              /\ x.t.replSid[b.idx].kind = b.k.target.kind
              /\ x.t.replSid[b.idx].addr = b.k.target.addr
              /\ to.pc = "join" /\ b.k.group = None /\ b.k.addr \in x.c.remotes
                 => RootsOnly(x, b.idx),
           b.pc = "leave" => b.idx \notin Range(x.t.members)
    PROVE  Sound(x, (B \ {b}) \cup {to}, names)
<1> DEFINE C == (B \ {b}) \cup {to}
<1>1. /\ Slotting(C) = (Slotting(B) \ {b}) \cup {to} /\ Marking(C) = Marking(B)
      /\ Adding(C) \subseteq (Adding(B) \ {b}) \cup {to}
      /\ to \in Adding(C) => b \in Adding(B)
      /\ BindIdx(C) = BindIdx(B)
  <2>1. {a \in C : a.k.op = "staticslot"} = {a \in B : a.k.op = "staticslot"}
    BY DEF Slotting
  <2> QED
    BY <2>1 DEF Slotting, Adding, Marking, BindIdx
<1> HIDE DEF C
<1>2. GroupRows(x, C) = GroupRows(x, B)
  BY <1>1 DEF GroupRows
<1>3. Low(x, C)
  BY <1>1, <1>2 DEF Sound, Low
<1>4. PortsApart(x, C)
  <2>1. \A a, c \in Slotting(C) : a # c => Clear(a.idx, c.idx)
    BY <1>1 DEF Sound, PortsApart
  <2>2. /\ \A a \in Slotting(C), k \in DOMAIN x.c.slots : Clear(a.idx, x.c.slots[k].idx)
        /\ \A a \in Slotting(C) : NoDevice(x, a.idx)
    BY <1>1 DEF Sound, PortsApart
  <2>3. \A a \in Adding(C) : a.k.group = None => a.idx \notin GroupRows(x, C)
    BY <1>1, <1>2 DEF Sound, PortsApart
  <2> QED
    BY <1>2, <2>1, <2>2, <2>3 DEF Sound, PortsApart
<1>5. SlotsListed(x, C)
  <2>1. ASSUME NEW p \in Range(x.t.members), Leaving(B, p) PROVE Leaving(C, p)
    BY <1>1, <2>1 DEF Leaving
  <2> QED
    BY <2>1 DEF Sound, SlotsListed
<1>6. AddingSound(x, C)
  BY <1>1 DEF Sound, AddingSound, Adding
<1>7. RowsMarked(x, C)
  <2>1. \A a : Finding(B, a) => Finding(C, a)
    BY <1>1 DEF Finding
  <2>2. \A a, p : Writing(B, a, p) => Writing(C, a, p)
    BY <1>1 DEF Writing
  <2> QED
    BY <1>1, <2>1, <2>2 DEF Sound, RowsMarked, Adding
<1>8. MarksSound(x, C)
  BY <1>1 DEF Sound, MarksSound
<1> QED
  BY <1>3, <1>4, <1>5, <1>6, <1>7, <1>8 DEF Sound, C

\* repl_target_add of indexes i and j; no device and no member is one of a
\* VXLAN slot.
Targeted(x, y, i, j, target) ==
    /\ Shape(y) /\ y.c = x.c /\ y.t.members = x.t.members /\ y.t.slotEs = x.t.slotEs
    /\ y.t.replSid = Including(x.t.replSid, [p \in {i, j} |-> target])
Targetable(x, B, i, j, target) ==
    /\ {i, j} \subseteq 0..x.c.next - 1
    /\ \A p \in {i, j} : p \in Range(x.c.dev) \cup Range(x.t.members) => target.kind # "vxlan"
    /\ \A b \in Adding(B) : b.pc # "program" => b.idx \notin {i, j}

LEMMA ReplTargetAdded ==
    ASSUME NEW x, Shape(x), NEW i, NEW j, NEW target
    PROVE  Targeted(x, ReplTargetAdd(x, i, j, target), i, j, target)
<1>1. \A v : LET u == [x EXCEPT !.t.replSid = v]
             IN  /\ Shape(u) /\ u.c = x.c /\ u.t.members = x.t.members
                 /\ u.t.slotEs = x.t.slotEs /\ u.t.replSid = v
  BY DEF Shape, IsFcn
<1> QED
  BY <1>1 DEF ReplTargetAdd, Targeted

LEMMA TargetSound ==
    ASSUME NEW x, NEW y, NEW B, NEW names, Sound(x, B, names), NEW i, NEW j, NEW target,
           Targetable(x, B, i, j, target), Targeted(x, y, i, j, target)
    PROVE  /\ Sound(y, B, names)
           /\ i \in DOMAIN y.t.replSid /\ y.t.replSid[i] = target
<1> USE DEF Targeted, Targetable
<1>1. /\ DOMAIN y.t.replSid = DOMAIN x.t.replSid \cup {i, j}
      /\ \A p \in {i, j} : y.t.replSid[p] = target
      /\ \A p \in DOMAIN x.t.replSid \ {i, j} : y.t.replSid[p] = x.t.replSid[p]
  BY DEF Including
<1>2. GroupRows(y, B) = GroupRows(x, B)
  BY DEF GroupRows, AllIdx
<1>3. PortsTyped(y, names)
  BY DEF Sound, PortsTyped
<1>4. Low(y, B)
  BY <1>1, <1>2 DEF Sound, Low
<1>5. PortsApart(y, B)
  BY <1>2 DEF Sound, PortsApart, NoDevice
<1>6. SlotsListed(y, B)
  <2>1. \A p \in Range(x.c.dev) \cup Range(x.t.members) : OverVxlan(y, p) =>
           OverVxlan(x, p) /\ y.t.replSid[p] = x.t.replSid[p]
    BY <1>1 DEF OverVxlan
  <2> QED
    BY <2>1 DEF Sound, SlotsListed, SlotOf
<1>7. AddingSound(y, B)
  BY <1>1 DEF Sound, AddingSound
<1>8. RowsMarked(y, B) /\ MarksSound(y, B)
  BY DEF Sound, RowsMarked, MarksSound, RootsOnly, SlotOf
<1> QED
  BY <1>1, <1>3, <1>4, <1>5, <1>6, <1>7, <1>8 DEF Sound

\* The rows of indexes that are no registered slot's, nor one's that is about
\* to join.
LEMMA RowSound ==
    ASSUME NEW x, NEW y, NEW B, NEW names, Sound(x, B, names), NEW i,
           Shape(y), y.c = x.c, y.t.members = x.t.members, y.t.replSid = x.t.replSid,
           \A p : p # i /\ RootsOnly(x, p) => RootsOnly(y, p),
           \A key \in DOMAIN x.c.slots : x.c.slots[key].idx # i,
           \A b \in Adding(B) : b.pc = "join" => b.idx # i
    PROVE  Sound(y, B, names)
<1>1. GroupRows(y, B) = GroupRows(x, B)
  BY DEF GroupRows, AllIdx
<1>2. PortsTyped(y, names) /\ Low(y, B)
  BY <1>1 DEF Sound, PortsTyped, Low
<1>3. PortsApart(y, B)
  BY <1>1 DEF Sound, PortsApart, NoDevice
<1>4. SlotsListed(y, B)
  BY DEF Sound, SlotsListed, OverVxlan, SlotOf
<1>5. AddingSound(y, B) /\ MarksSound(y, B)
  BY DEF Sound, AddingSound, MarksSound
<1>6. RowsMarked(y, B)
  <2>1. ASSUME NEW a \in x.c.remotes, NEW p, p = x.c.slots[<<a, "">>].idx, SlotOf(x, a, p)
        PROVE  RootsOnly(y, p) \/ Finding(B, a) \/ Writing(B, a, p)
    <3>1. p # i
      BY <2>1, SlotOfFields
    <3>2. RootsOnly(x, p) \/ Finding(B, a) \/ Writing(B, a, p)
      BY <2>1 DEF Sound, RowsMarked
    <3> QED
      BY <3>1, <3>2
  <2> QED
    BY <2>1 DEF Sound, RowsMarked, SlotOf
<1> QED
  BY <1>2, <1>3, <1>4, <1>5, <1>6 DEF Sound

\* The targets of indexes that no addition is about to use go.
LEMMA UntargetSound ==
    ASSUME NEW x, NEW y, NEW B, NEW names, Sound(x, B, names), NEW S,
           Shape(y), y.c = x.c, y.t.members = x.t.members, y.t.slotEs = x.t.slotEs,
           y.t.replSid = Without(x.t.replSid, S),
           \A b \in Adding(B) : b.idx \notin S
    PROVE  Sound(y, B, names)
<1>1. /\ DOMAIN y.t.replSid = DOMAIN x.t.replSid \ S
      /\ \A p \in DOMAIN y.t.replSid : y.t.replSid[p] = x.t.replSid[p]
  BY DEF Without
<1>2. GroupRows(y, B) = GroupRows(x, B)
  BY DEF GroupRows, AllIdx
<1>3. PortsTyped(y, names) /\ Low(y, B)
  BY <1>1, <1>2 DEF Sound, PortsTyped, Low
<1>4. PortsApart(y, B)
  BY <1>2 DEF Sound, PortsApart, NoDevice
<1>5. SlotsListed(y, B)
  BY <1>1 DEF Sound, SlotsListed, OverVxlan, SlotOf
<1>6. AddingSound(y, B)
  BY <1>1 DEF Sound, AddingSound
<1>7. RowsMarked(y, B) /\ MarksSound(y, B)
  BY DEF Sound, RowsMarked, MarksSound, RootsOnly, SlotOf
<1> QED
  BY <1>3, <1>4, <1>5, <1>6, <1>7 DEF Sound

\* del_repl_slot_auto is over, or add_repl_slot_auto has failed.
LEMMA RemovedSound ==
    ASSUME NEW x, NEW B, NEW names, Sound(x, B, names), NEW b \in B,
           b.k.op \in {"addslot", "delslot"}, b.k.op = "addslot" \/ b.pc # "leave"
    PROVE  Sound(x, B \ {b}, names)
<1> DEFINE C == B \ {b}
<1>1. /\ Slotting(C) = Slotting(B) \ {b} /\ Marking(C) = Marking(B)
      /\ Adding(C) = Adding(B) \ {b} /\ BindIdx(C) = BindIdx(B)
  <2>1. {a \in C : a.k.op = "staticslot"} = {a \in B : a.k.op = "staticslot"}
    OBVIOUS
  <2> QED
    BY <2>1 DEF Slotting, Adding, Marking, BindIdx
<1> HIDE DEF C
<1>2. GroupRows(x, C) = GroupRows(x, B)
  BY <1>1 DEF GroupRows
<1>3. Low(x, C) /\ PortsApart(x, C)
  BY <1>1, <1>2 DEF Sound, Low, PortsApart
<1>4. SlotsListed(x, C)
  <2>1. \A p : Leaving(B, p) => Leaving(C, p)
    BY <1>1 DEF Leaving
  <2> QED
    BY <2>1 DEF Sound, SlotsListed
<1>5. AddingSound(x, C)
  BY <1>1 DEF Sound, AddingSound
<1>6. RowsMarked(x, C)
  <2>1. \A a : Finding(B, a) => Finding(C, a)
    BY <1>1 DEF Finding
  <2>2. \A a, p : Writing(B, a, p) => Writing(C, a, p)
    BY <1>1 DEF Writing
  <2> QED
    BY <1>1, <2>1, <2>2 DEF Sound, RowsMarked
<1>7. MarksSound(x, C)
  BY <1>1 DEF Sound, MarksSound
<1> QED
  BY <1>3, <1>4, <1>5, <1>6, <1>7 DEF Sound, C

\* add_repl_slot_auto ends: the slot is a member and registered.
LEMMA JoinSound ==
    ASSUME NEW x, NEW y, NEW B, NEW names, Sound(x, B, names),
           NEW b \in Adding(B), b.pc = "join", CallMade(b.k, names),
           Shape(y), y.t.slotEs = x.t.slotEs, y.t.replSid = x.t.replSid,
           y.t.members \in Seq(Nat), IsInjective(y.t.members),
           Range(y.t.members) \subseteq Range(x.t.members) \cup {b.idx},
           y.c.remotes = x.c.remotes, y.c.groups = x.c.groups, y.c.dev = x.c.dev,
           y.c.next = x.c.next,
           y.c.slots = Including(x.c.slots, Row(SlotKey(b.k), [idx |-> b.idx, group |-> b.k.group]))
    PROVE  Sound(y, B \ {b}, names)
<1> DEFINE C == B \ {b}
           key == SlotKey(b.k)
           new == [idx |-> b.idx, group |-> b.k.group]
<1>1. /\ b \in Slotting(B) /\ Slotting(C) = Slotting(B) \ {b} /\ Marking(C) = Marking(B)
      /\ Adding(C) = {} /\ BindIdx(C) = BindIdx(B)
  <2>1. {a \in C : a.k.op = "staticslot"} = {a \in B : a.k.op = "staticslot"}
    BY DEF Adding
  <2>2. Adding(B) = {b}
    BY DEF Sound, AddingSound
  <2>3. Adding(C) = {}
    BY <2>2 DEF Adding
  <2> QED
    BY <2>1, <2>3 DEF Slotting, Adding, Marking, BindIdx
<1> HIDE DEF C
<1>2. /\ DOMAIN y.c.slots = DOMAIN x.c.slots \cup {key} /\ y.c.slots[key] = new
      /\ key \notin DOMAIN x.c.slots
      /\ \A k \in DOMAIN x.c.slots : y.c.slots[k] = x.c.slots[k]
  <2>1. key \notin DOMAIN x.c.slots
    BY DEF Sound, AddingSound
  <2> QED
    BY <2>1 DEF Including, Row
<1>3. new.idx = b.idx /\ new.group = b.k.group
  OBVIOUS
<1> HIDE DEF key, new
<1>4. GroupRows(y, C) = GroupRows(x, B)
  BY <1>1 DEF GroupRows, AllIdx
<1>5. PortsTyped(y, names)
  <2>1. new = [idx |-> new.idx, group |-> new.group]
    BY DEF new
  <2> QED
    BY <1>2, <2>1 DEF Sound, PortsTyped
<1>6. x.c.next \in Nat \ {0}
  BY DEF Sound, PortsTyped
<1>7. Low(y, C)
  <2>1. b.idx \in 1..x.c.next - 2
    BY <1>1 DEF Sound, Low
  <2>2. b.idx \in 0..x.c.next - 1
    BY <1>6, <2>1
  <2> QED
    BY <1>1, <1>2, <1>3, <1>4, <2>1, <2>2 DEF Sound, Low
<1>8. PortsApart(y, C)
  <2>1. \A k \in DOMAIN x.c.slots : Clear(b.idx, x.c.slots[k].idx) /\ Clear(x.c.slots[k].idx, b.idx)
    BY <1>1 DEF Sound, PortsApart, Clear
  <2>2. \A k, l \in DOMAIN y.c.slots : k # l => Clear(y.c.slots[k].idx, y.c.slots[l].idx)
    BY <1>2, <1>3, <2>1 DEF Sound, PortsApart
  <2>3. \A a \in Slotting(C), k \in DOMAIN y.c.slots : Clear(a.idx, y.c.slots[k].idx)
    BY <1>1, <1>2, <1>3 DEF Sound, PortsApart
  <2>4. /\ \A a, c \in Slotting(C) : a # c => Clear(a.idx, c.idx)
        /\ \A a \in Slotting(C) : NoDevice(y, a.idx)
    BY <1>1 DEF Sound, PortsApart, NoDevice
  <2>5. \A k \in DOMAIN y.c.slots : NoDevice(y, y.c.slots[k].idx)
    BY <1>1, <1>2, <1>3 DEF Sound, PortsApart, NoDevice
  <2>6. \A k \in DOMAIN y.c.slots : y.c.slots[k].group = None =>
           y.c.slots[k].idx \notin GroupRows(y, C)
    BY <1>1, <1>2, <1>3, <1>4 DEF Sound, PortsApart
  <2> QED
    BY <1>1, <2>2, <2>3, <2>4, <2>5, <2>6 DEF PortsApart
<1>9. SlotsListed(y, C)
  <2>1. \A p : OverVxlan(y, p) <=> OverVxlan(x, p)
    BY DEF OverVxlan
  <2>2. \A a, p : SlotOf(x, a, p) => SlotOf(y, a, p)
    BY <1>2 DEF SlotOf
  <2>3. \A p : Leaving(B, p) => Leaving(C, p)
    BY <1>1 DEF Leaving, Adding
  <2>4. OverVxlan(x, b.idx) => SlotOf(y, x.t.replSid[b.idx].addr, b.idx)
    <3>1. /\ x.t.replSid[b.idx].kind = b.k.target.kind
          /\ x.t.replSid[b.idx].addr = b.k.target.addr
      BY DEF Sound, AddingSound
    <3>2. b.k.target.kind = "vxlan" => b.k.group = None /\ key = <<b.k.target.addr, "">>
      BY DEF CallMade, SlotKey, key, Adding
    <3> QED
      BY <1>2, <3>1, <3>2 DEF OverVxlan, SlotOf, new
  <2> QED
    BY <2>1, <2>2, <2>3, <2>4 DEF Sound, SlotsListed
<1>10. AddingSound(y, C)
  BY <1>1 DEF AddingSound
<1>11. RowsMarked(y, C)
  <2>1. \A a : Finding(B, a) => Finding(C, a)
    BY <1>1 DEF Finding
  <2>2. \A a, p : Writing(B, a, p) => Writing(C, a, p)
    BY <1>1 DEF Writing
  <2>3. ASSUME NEW a \in x.c.remotes, NEW p, p = y.c.slots[<<a, "">>].idx, SlotOf(y, a, p)
        PROVE  RootsOnly(x, p) \/ Finding(B, a) \/ Writing(B, a, p)
    <3>1. CASE <<a, "">> = key
      <4>1. p = b.idx /\ b.k.group = None /\ a = b.k.addr
        <5>1. y.c.slots[<<a, "">>].group = None
          BY <2>3, SlotOfFields
        <5>2. a = b.k.addr
          BY <3>1 DEF key, SlotKey
        <5> QED
          BY <1>2, <1>3, <2>3, <3>1, <5>1, <5>2
      <4> QED
        BY <4>1 DEF Sound, RowsMarked
    <3>2. CASE <<a, "">> # key
      <4>1. SlotOf(x, a, p) /\ p = x.c.slots[<<a, "">>].idx
        BY <1>2, <2>3, <3>2 DEF SlotOf
      <4> QED
        BY <4>1 DEF Sound, RowsMarked
    <3> QED
      BY <3>1, <3>2
  <2>4. \A p : RootsOnly(x, p) => RootsOnly(y, p)
    BY DEF RootsOnly
  <2> QED
    BY <1>1, <2>1, <2>2, <2>3, <2>4 DEF RowsMarked
<1>12. MarksSound(y, C)
  <2>1. ASSUME NEW m \in Marking(B), m.pc = "program", m.idx # 0, NEW k \in DOMAIN y.c.slots,
               y.c.slots[k].idx = m.idx
        PROVE  k = <<m.k.addr, "">>
    <3>1. b.idx # m.idx
      BY <2>1 DEF Sound, MarksSound
    <3>2. k \in DOMAIN x.c.slots /\ x.c.slots[k].idx = m.idx
      BY <1>2, <1>3, <2>1, <3>1
    <3> QED
      BY <2>1, <3>2 DEF Sound, MarksSound
  <2>2. /\ \A m \in Marking(B) : (m.k.addr \in x.c.remotes) = m.k.on /\ (m.pc = "undo" => m.k.on)
        /\ \A a, m \in Marking(B) : a.k.addr = m.k.addr => a = m
    BY DEF Sound, MarksSound
  <2> QED
    BY <1>1, <2>1, <2>2 DEF MarksSound
<1> QED
  BY <1>5, <1>7, <1>8, <1>9, <1>10, <1>11, <1>12 DEF Sound, C

\* del_repl_slot_auto begins: the slot is out of the registry.
LEMMA DelBegun ==
    ASSUME NEW x, NEW y, NEW B, NEW names, Sound(x, B, names),
           NEW key \in DOMAIN x.c.slots,
           Shape(y), y.t = x.t, y.c.remotes = x.c.remotes, y.c.groups = x.c.groups,
           y.c.dev = x.c.dev, y.c.next = x.c.next, y.c.slots = Without(x.c.slots, {key}),
           NEW b, b.k.op = "delslot", b.pc = "leave", b.idx = x.c.slots[key].idx
    PROVE  Sound(y, B \cup {b}, names)
<1> DEFINE C == B \cup {b}
<1>1. /\ Slotting(C) = Slotting(B) \cup {b} /\ Adding(C) = Adding(B) /\ Marking(C) = Marking(B)
      /\ BindIdx(C) = BindIdx(B)
  <2>1. {a \in C : a.k.op = "staticslot"} = {a \in B : a.k.op = "staticslot"}
    OBVIOUS
  <2> QED
    BY <2>1 DEF Slotting, Adding, Marking, BindIdx
<1> HIDE DEF C
<1>2. /\ DOMAIN y.c.slots = DOMAIN x.c.slots \ {key}
      /\ \A k \in DOMAIN y.c.slots : y.c.slots[k] = x.c.slots[k]
  BY DEF Without
<1>3. GroupRows(y, C) = GroupRows(x, B)
  BY <1>1 DEF GroupRows, AllIdx
<1>4. PortsTyped(y, names)
  BY <1>2 DEF Sound, PortsTyped
<1>5. Low(y, C)
  BY <1>1, <1>2, <1>3 DEF Sound, Low
<1>6. PortsApart(y, C)
  <2>1. \A a \in Slotting(B) : Clear(a.idx, b.idx) /\ Clear(b.idx, a.idx)
    BY DEF Sound, PortsApart, Clear
  <2>2. \A a, c \in Slotting(C) : a # c => Clear(a.idx, c.idx)
    BY <1>1, <2>1 DEF Sound, PortsApart
  <2>3. \A a \in Slotting(C), k \in DOMAIN y.c.slots : Clear(a.idx, y.c.slots[k].idx)
    BY <1>1, <1>2 DEF Sound, PortsApart
  <2>4. \A a \in Slotting(C) : NoDevice(y, a.idx)
    BY <1>1 DEF Sound, PortsApart, NoDevice
  <2>5. /\ \A k, l \in DOMAIN y.c.slots : k # l => Clear(y.c.slots[k].idx, y.c.slots[l].idx)
        /\ \A k \in DOMAIN y.c.slots : NoDevice(y, y.c.slots[k].idx)
    BY <1>2 DEF Sound, PortsApart, NoDevice
  <2> QED
    BY <1>1, <1>2, <1>3, <2>2, <2>3, <2>4, <2>5 DEF Sound, PortsApart
<1>7. SlotsListed(y, C)
  <2>1. \A p : OverVxlan(y, p) <=> OverVxlan(x, p)
    BY DEF OverVxlan
  <2>2. \A p : Leaving(B, p) => Leaving(C, p)
    BY <1>1 DEF Leaving
  <2>3. Leaving(C, b.idx)
    BY <1>1 DEF Leaving
  <2>4. ASSUME NEW a, NEW p, SlotOf(x, a, p) PROVE SlotOf(y, a, p) \/ Leaving(C, p)
    <3>1. CASE <<a, "">> = key
      <4>1. x.c.slots[<<a, "">>].idx = p
        BY <2>4, SlotOfFields, ZenonT(30)
      <4> QED
        BY <2>3, <3>1, <4>1
    <3>2. CASE <<a, "">> # key
      BY <1>2, <2>4, <3>2 DEF SlotOf
    <3> QED
      BY <3>1, <3>2
  <2> QED
    BY <2>1, <2>2, <2>4 DEF Sound, SlotsListed
<1>8. AddingSound(y, C)
  BY <1>1, <1>2 DEF Sound, AddingSound
<1>9. RowsMarked(y, C)
  <2>1. \A a : Finding(B, a) => Finding(C, a)
    BY <1>1 DEF Finding
  <2>2. \A a, p : Writing(B, a, p) => Writing(C, a, p)
    BY <1>1 DEF Writing
  <2>3. ASSUME NEW a \in x.c.remotes, NEW p, p = y.c.slots[<<a, "">>].idx, SlotOf(y, a, p)
        PROVE  RootsOnly(x, p) \/ Finding(B, a) \/ Writing(B, a, p)
    <3>1. SlotOf(x, a, p) /\ p = x.c.slots[<<a, "">>].idx
      BY <1>2, <2>3 DEF SlotOf
    <3> QED
      BY <3>1 DEF Sound, RowsMarked
  <2>4. \A p : RootsOnly(x, p) => RootsOnly(y, p)
    BY DEF RootsOnly
  <2> QED
    BY <1>1, <2>1, <2>2, <2>3, <2>4 DEF Sound, RowsMarked
<1>10. MarksSound(y, C)
  <2>1. ASSUME NEW m \in Marking(B), m.pc = "program", m.idx # 0, NEW k \in DOMAIN y.c.slots,
               y.c.slots[k].idx = m.idx
        PROVE  k = <<m.k.addr, "">>
    <3>1. k \in DOMAIN x.c.slots /\ x.c.slots[k].idx = m.idx
      BY <1>2, <2>1
    <3> QED
      BY <2>1, <3>1 DEF Sound, MarksSound
  <2>2. \A m \in Marking(B) :
           /\ (m.k.addr \in x.c.remotes) = m.k.on /\ (m.pc = "undo" => m.k.on)
           /\ m.pc = "program" /\ m.idx # 0 => \A a \in Adding(B) : a.idx # m.idx
    BY DEF Sound, MarksSound
  <2>3. \A a, m \in Marking(B) : a.k.addr = m.k.addr => a = m
    BY DEF Sound, MarksSound
  <2> QED
    BY <1>1, <2>1, <2>2, <2>3 DEF MarksSound
<1> QED
  BY <1>4, <1>5, <1>6, <1>7, <1>8, <1>9, <1>10 DEF Sound, C

\* l2_member_remove.
LEMMA FewerMembersSound ==
    ASSUME NEW x, NEW y, NEW B, NEW names, Sound(x, B, names),
           Shape(y), y.c = x.c, y.t.slotEs = x.t.slotEs, y.t.replSid = x.t.replSid,
           y.t.members \in Seq(Nat), IsInjective(y.t.members),
           Range(y.t.members) \subseteq Range(x.t.members)
    PROVE  Sound(y, B, names)
<1>1. GroupRows(y, B) = GroupRows(x, B)
  BY DEF GroupRows, AllIdx
<1>2. PortsTyped(y, names)
  BY DEF Sound, PortsTyped
<1>3. Low(y, B)
  BY <1>1 DEF Sound, Low
<1>4. PortsApart(y, B)
  BY <1>1 DEF Sound, PortsApart, NoDevice
<1>5. SlotsListed(y, B)
  BY DEF Sound, SlotsListed, OverVxlan, SlotOf
<1>6. AddingSound(y, B)
  BY DEF Sound, AddingSound
<1>7. RowsMarked(y, B) /\ MarksSound(y, B)
  BY DEF Sound, RowsMarked, MarksSound, RootsOnly, SlotOf
<1> QED
  BY <1>2, <1>3, <1>4, <1>5, <1>6, <1>7 DEF Sound

LEMMA RemoveAtProperties ==
    ASSUME NEW s \in Seq(Nat), IsInjective(s), NEW i \in 1..Len(s), NEW r, r = RemoveAt(s, i)
    PROVE  r \in Seq(Nat) /\ IsInjective(r) /\ Range(r) \subseteq Range(s) \ {s[i]}
<1> DEFINE a == SubSeq(s, 1, i - 1)
           c == SubSeq(s, i + 1, Len(s))
           d(j) == IF j < i THEN j ELSE j + 1
<1>1. /\ a \in Seq(Nat) /\ Len(a) = i - 1 /\ \A j \in 1..i - 1 : a[j] = s[j]
  OBVIOUS
<1>2. /\ c \in Seq(Nat) /\ Len(c) = Len(s) - i /\ \A j \in 1..Len(s) - i : c[j] = s[i + j]
  OBVIOUS
<1>3. r = a \o c
  BY DEF RemoveAt
<1> HIDE DEF a, c
<1>4. r \in Seq(Nat)
  BY <1>1, <1>2, <1>3, ConcatProperties
<1>5. Len(r) = Len(a) + Len(c)
  BY <1>1, <1>2, <1>3, ConcatProperties
<1>6. Len(s) \in Nat /\ i \in Nat
  OBVIOUS
<1>7. Len(r) = Len(s) - 1
  BY <1>1, <1>2, <1>5, <1>6
<1>8. \A j \in 1..Len(r) : d(j) \in 1..Len(s) /\ d(j) # i
  BY <1>6, <1>7
<1>9. \A j, l \in 1..Len(r) : d(j) = d(l) => j = l
  BY <1>6, <1>7
<1>10. \A j \in 1..Len(r) : r[j] = s[d(j)]
  <2> SUFFICES ASSUME NEW j \in 1..Len(r) PROVE r[j] = s[d(j)]
    OBVIOUS
  <2>1. r[j] = IF j <= Len(a) THEN a[j] ELSE c[j - Len(a)]
    <3>1. j \in 1..Len(a) + Len(c)
      BY <1>5
    <3>2. \A q \in 1..Len(a) + Len(c) : (a \o c)[q] = IF q <= Len(a) THEN a[q] ELSE c[q - Len(a)]
      BY <1>1, <1>2, ConcatProperties, Zenon
    <3> QED
      BY <1>3, <3>1, <3>2
  <2>2. CASE j < i
    BY <1>1, <1>6, <2>1, <2>2
  <2>3. CASE ~(j < i)
    <3>1. j - (i - 1) \in 1..Len(s) - i /\ i + (j - (i - 1)) = j + 1 /\ ~(j <= Len(a))
      BY <1>1, <1>6, <1>7, <2>3
    <3> QED
      BY <1>1, <1>2, <2>1, <2>3, <3>1
  <2> QED
    BY <2>2, <2>3
<1> HIDE DEF d
<1>11. DOMAIN r = 1..Len(r) /\ DOMAIN s = 1..Len(s)
  BY <1>4
<1>12. IsInjective(r)
  BY <1>8, <1>9, <1>10, <1>11 DEF IsInjective
<1>13. Range(r) \subseteq Range(s) \ {s[i]}
  BY <1>8, <1>10, <1>11, SMTT(30) DEF IsInjective, Range
<1> QED
  BY <1>4, <1>12, <1>13

WithoutMember(x, y, idx) ==
    /\ Shape(y) /\ y.c = x.c /\ y.t.slotEs = x.t.slotEs /\ y.t.replSid = x.t.replSid
    /\ y.t.members \in Seq(Nat) /\ IsInjective(y.t.members)
    /\ Range(y.t.members) \subseteq Range(x.t.members) \ {idx}

LEMMA MembersLeft ==
    ASSUME NEW x, Shape(x), x.t.members \in Seq(Nat), IsInjective(x.t.members), NEW idx
    PROVE  WithoutMember(x, [x EXCEPT !.t = L2MemberRemove(x.t, idx)], idx)
<1> DEFINE y == [x EXCEPT !.t = L2MemberRemove(x.t, idx)]
           m == x.t.members
           i == CHOOSE j \in DOMAIN m : m[j] = idx
           r == RemoveAt(m, i)
<1>1. y = [t |-> L2MemberRemove(x.t, idx), c |-> x.c]
  BY DEF Shape
<1> HIDE DEF y
<1>2. ASSUME idx \notin Range(m) PROVE WithoutMember(x, y, idx)
  BY <1>1, <1>2 DEF L2MemberRemove, Shape, WithoutMember
<1>3. ASSUME idx \in Range(m) PROVE WithoutMember(x, y, idx)
  <2>1. y.t = [x.t EXCEPT !.members = r] /\ y.c = x.c /\ y = [t |-> y.t, c |-> y.c]
    BY <1>1, <1>3 DEF L2MemberRemove
  <2>2. i \in DOMAIN m /\ m[i] = idx
    BY <1>3 DEF Range
  <2>3. r \in Seq(Nat) /\ IsInjective(r) /\ Range(r) \subseteq Range(m) \ {idx}
    <3>1. m \in Seq(Nat) /\ IsInjective(m) /\ i \in 1..Len(m)
      BY <2>2
    <3> HIDE DEF i, m
    <3> QED
      BY <2>2, <3>1, RemoveAtProperties
  <2> HIDE DEF r, i
  <2>4. /\ Shape(y) /\ y.t.members = r /\ y.t.slotEs = x.t.slotEs /\ y.t.replSid = x.t.replSid
    BY <2>1 DEF Shape, IsFcn
  <2> QED
    BY <2>1, <2>3, <2>4 DEF WithoutMember
<1> QED
  BY <1>2, <1>3 DEF y

WithMember(t, u, idx) ==
    /\ IsFcn(u) /\ DOMAIN u = DOMAIN t /\ u.slotEs = t.slotEs /\ u.replSid = t.replSid
    /\ u.members \in Seq(Nat) /\ IsInjective(u.members)
    /\ Range(u.members) \subseteq Range(t.members) \cup {idx}

LEMMA AppendProps ==
    ASSUME NEW m \in Seq(Nat), IsInjective(m), NEW idx \in Nat, idx \notin Range(m),
           NEW r, r = Append(m, idx)
    PROVE  r \in Seq(Nat) /\ IsInjective(r) /\ Range(r) \subseteq Range(m) \cup {idx}
<1>1. /\ r \in Seq(Nat) /\ Len(r) = Len(m) + 1
      /\ \A j \in 1..Len(r) : r[j] = IF j <= Len(m) THEN m[j] ELSE idx
  OBVIOUS
<1>2. Len(m) \in Nat /\ DOMAIN m = 1..Len(m) /\ DOMAIN r = 1..Len(r)
  BY <1>1
<1>3. \A j \in DOMAIN r : \/ j \in DOMAIN m /\ r[j] = m[j]
                          \/ j = Len(r) /\ r[j] = idx
  <2> TAKE j \in DOMAIN r
  <2>1. j \in 1..Len(m) + 1 /\ r[j] = IF j <= Len(m) THEN m[j] ELSE idx
    BY <1>1, <1>2
  <2>2. CASE j <= Len(m)
    BY <1>2, <2>1, <2>2
  <2>3. CASE ~(j <= Len(m))
    BY <1>1, <1>2, <2>1, <2>3
  <2> QED
    BY <2>2, <2>3
<1>4. \A j \in DOMAIN m : m[j] # idx
  BY DEF Range
<1>5. IsInjective(r)
  BY <1>3, <1>4 DEF IsInjective
<1>6. Range(r) \subseteq Range(m) \cup {idx}
  BY <1>3 DEF Range
<1> QED
  BY <1>1, <1>5, <1>6

LEMMA MembersJoined ==
    ASSUME NEW x, Shape(x), x.t.members \in Seq(Nat), IsInjective(x.t.members), NEW idx \in Nat
    PROVE  WithMember(x.t, L2MemberAdd(x.t, idx), idx)
<1> DEFINE t == x.t
           u == L2MemberAdd(t, idx)
           m == t.members
           r == Append(m, idx)
<1>1. IsFcn(t) /\ {"members", "slotEs", "replSid"} \subseteq DOMAIN t
  BY DEF Shape
<1>2. ASSUME idx \in Range(m) PROVE WithMember(t, u, idx)
  BY <1>1, <1>2 DEF L2MemberAdd, WithMember
<1>3. ASSUME idx \notin Range(m) PROVE WithMember(t, u, idx)
  <2>1. u = [t EXCEPT !.members = r]
    BY <1>3 DEF L2MemberAdd
  <2>2. r \in Seq(Nat) /\ IsInjective(r) /\ Range(r) \subseteq Range(m) \cup {idx}
    <3>1. m \in Seq(Nat) /\ IsInjective(m) /\ r = Append(m, idx)
      OBVIOUS
    <3> HIDE DEF m, r
    <3> QED
      BY <1>3, <3>1, AppendProps
  <2> HIDE DEF r
  <2>3. /\ IsFcn(u) /\ DOMAIN u = DOMAIN t /\ u.slotEs = t.slotEs /\ u.replSid = t.replSid
        /\ u.members = r
    BY <1>1, <2>1 DEF IsFcn
  <2> HIDE DEF u
  <2> QED
    BY <2>2, <2>3 DEF WithMember
<1> QED
  BY <1>2, <1>3

\* set_etree_remote begins: the mark is in etree_remotes, or out of it.
LEMMA MarkBegun ==
    ASSUME NEW x, NEW y, NEW B, NEW names, Sound(x, B, names),
           Shape(y), y.t = x.t, y.c.slots = x.c.slots, y.c.groups = x.c.groups,
           y.c.dev = x.c.dev, y.c.next = x.c.next,
           NEW b, b.k.op = "remote", b.pc = "find", (b.k.addr \in y.c.remotes) = b.k.on,
           \A a : a # b.k.addr => (a \in y.c.remotes <=> a \in x.c.remotes),
           \A m \in Marking(B) : m.k.addr # b.k.addr
    PROVE  Sound(y, B \cup {b}, names)
<1> DEFINE C == B \cup {b}
<1>1. /\ Slotting(C) = Slotting(B) /\ Adding(C) = Adding(B) /\ Marking(C) = Marking(B) \cup {b}
      /\ BindIdx(C) = BindIdx(B)
  <2>1. {a \in C : a.k.op = "staticslot"} = {a \in B : a.k.op = "staticslot"}
    OBVIOUS
  <2> QED
    BY <2>1 DEF Slotting, Adding, Marking, BindIdx
<1> HIDE DEF C
<1>2. GroupRows(y, C) = GroupRows(x, B)
  BY <1>1 DEF GroupRows, AllIdx
<1>3. PortsTyped(y, names)
  BY DEF Sound, PortsTyped
<1>4. Low(y, C)
  BY <1>1, <1>2 DEF Sound, Low
<1>5. PortsApart(y, C)
  BY <1>1, <1>2 DEF Sound, PortsApart, NoDevice
<1>6. SlotsListed(y, C)
  <2>1. \A p : OverVxlan(y, p) <=> OverVxlan(x, p)
    BY DEF OverVxlan
  <2>2. \A p : Leaving(B, p) => Leaving(C, p)
    BY <1>1 DEF Leaving
  <2> QED
    BY <2>1, <2>2 DEF Sound, SlotsListed, SlotOf
<1>7. AddingSound(y, C)
  BY <1>1 DEF Sound, AddingSound
<1>8. RowsMarked(y, C)
  <2>1. \A a : Finding(B, a) => Finding(C, a)
    BY <1>1 DEF Finding
  <2>2. \A a, p : Writing(B, a, p) => Writing(C, a, p)
    BY <1>1 DEF Writing
  <2>3. Finding(C, b.k.addr)
    BY <1>1 DEF Finding
  <2>4. \A p : RootsOnly(x, p) => RootsOnly(y, p)
    BY DEF RootsOnly
  <2>5. \A a, p : SlotOf(y, a, p) => SlotOf(x, a, p)
    BY DEF SlotOf
  <2>6. ASSUME NEW a \in y.c.remotes, NEW p, p = y.c.slots[<<a, "">>].idx, SlotOf(y, a, p)
        PROVE  RootsOnly(y, p) \/ Finding(C, a) \/ Writing(C, a, p)
    <3>1. CASE a = b.k.addr
      BY <2>3, <3>1
    <3>2. CASE a # b.k.addr
      <4>1. a \in x.c.remotes /\ p = x.c.slots[<<a, "">>].idx /\ SlotOf(x, a, p)
        BY <2>5, <2>6, <3>2
      <4> QED
        BY <2>1, <2>2, <2>4, <4>1 DEF Sound, RowsMarked
    <3> QED
      BY <3>1, <3>2
  <2>7. ASSUME NEW a \in Adding(B), a.pc = "join", a.k.group = None, a.k.addr \in y.c.remotes
        PROVE  RootsOnly(y, a.idx) \/ Finding(C, a.k.addr)
    <3>1. CASE a.k.addr = b.k.addr
      BY <2>3, <3>1
    <3>2. CASE a.k.addr # b.k.addr
      BY <2>1, <2>4, <2>7, <3>2 DEF Sound, RowsMarked
    <3> QED
      BY <3>1, <3>2
  <2> QED
    BY <1>1, <2>6, <2>7 DEF RowsMarked
<1>9. MarksSound(y, C)
  <2>1. \A m \in Marking(B) : (m.k.addr \in y.c.remotes) = (m.k.addr \in x.c.remotes)
    OBVIOUS
  <2>2. \A m \in Marking(B) : (m.k.addr \in y.c.remotes) = m.k.on /\ (m.pc = "undo" => m.k.on)
    BY <2>1, Zenon DEF Sound, MarksSound
  <2>4. \A a, m \in Marking(C) : a.k.addr = m.k.addr => a = m
    BY <1>1 DEF Sound, MarksSound
  <2>3. \A m \in Marking(B) : m.pc = "program" /\ m.idx # 0 =>
              /\ \A key \in DOMAIN x.c.slots : x.c.slots[key].idx = m.idx => key = <<m.k.addr, "">>
              /\ \A a \in Adding(B) : a.idx # m.idx
    BY DEF Sound, MarksSound
  <2> QED
    BY <1>1, <2>2, <2>3, <2>4 DEF MarksSound
<1> QED
  BY <1>3, <1>4, <1>5, <1>6, <1>7, <1>8, <1>9 DEF Sound, C

\* It has found the slot, or that there is none that it marks.
SlotFound(x, a, i) ==
    \/ <<a, "">> \in DOMAIN x.c.slots /\ i = x.c.slots[<<a, "">>].idx
    \/ i = 0 /\ \A p : ~SlotOf(x, a, p)

LEMMA MarkFound ==
    ASSUME NEW x, NEW B, NEW names, Sound(x, B, names), Adding(B) = {},
           NEW b \in Marking(B), b.pc = "find",
           NEW to, to.k = b.k, to.pc = "program", SlotFound(x, b.k.addr, to.idx)
    PROVE  Sound(x, (B \ {b}) \cup {to}, names)
<1> DEFINE C == (B \ {b}) \cup {to}
           key == <<b.k.addr, "">>
<1>1. /\ Slotting(C) = Slotting(B) /\ Adding(C) = {} /\ BindIdx(C) = BindIdx(B)
      /\ Marking(C) = (Marking(B) \ {b}) \cup {to}
  <2>1. {a \in C : a.k.op = "staticslot"} = {a \in B : a.k.op = "staticslot"}
    BY DEF Marking
  <2> QED
    BY <2>1 DEF Slotting, Adding, Marking, BindIdx
<1> HIDE DEF C
<1>2. GroupRows(x, C) = GroupRows(x, B)
  BY <1>1 DEF GroupRows
<1>3. x.c.next \in Nat \ {0}
  BY DEF Sound, PortsTyped
<1>4. Low(x, C)
  <2>1. to.idx \in 0..x.c.next - 1
    <3>1. 0 \in 0..x.c.next - 1
      BY <1>3
    <3>2. \A i \in 1..x.c.next - 2 : i \in 0..x.c.next - 1
      BY <1>3
    <3> QED
      BY <3>1, <3>2 DEF Sound, Low, SlotFound
  <2> QED
    BY <1>1, <1>2, <2>1 DEF Sound, Low
<1>5. PortsApart(x, C)
  BY <1>1, <1>2 DEF Sound, PortsApart
<1>6. SlotsListed(x, C) /\ AddingSound(x, C)
  BY <1>1 DEF Sound, SlotsListed, AddingSound, Leaving
<1>7. RowsMarked(x, C)
  <2>1. ASSUME NEW a \in x.c.remotes, NEW p, p = x.c.slots[<<a, "">>].idx, SlotOf(x, a, p)
        PROVE  RootsOnly(x, p) \/ Finding(C, a) \/ Writing(C, a, p)
    <3>1. CASE a = b.k.addr
      BY <1>1, <2>1, <3>1 DEF Writing, SlotFound
    <3>2. CASE a # b.k.addr
      <4>1. RootsOnly(x, p) \/ Finding(B, a) \/ Writing(B, a, p)
        BY <2>1 DEF Sound, RowsMarked
      <4>2. Finding(B, a) => Finding(C, a)
        BY <1>1, <3>2 DEF Finding
      <4>3. Writing(B, a, p) => Writing(C, a, p)
        BY <1>1, <3>2 DEF Writing
      <4> QED
        BY <4>1, <4>2, <4>3
    <3> QED
      BY <3>1, <3>2
  <2> QED
    BY <1>1, <2>1 DEF RowsMarked
<1>8. MarksSound(x, C)
  <2>1. ASSUME NEW k \in DOMAIN x.c.slots, to.idx # 0, x.c.slots[k].idx = to.idx
        PROVE  k = key
    <3>1. key \in DOMAIN x.c.slots /\ x.c.slots[k].idx = x.c.slots[key].idx
      BY <2>1 DEF SlotFound
    <3> HIDE DEF key
    <3> QED
      BY <2>1, <3>1 DEF Sound, PortsApart, Clear
  <2>2. (to.k.addr \in x.c.remotes) = to.k.on
    BY DEF Sound, MarksSound
  <2>3. \A a, m \in Marking(C) : a.k.addr = m.k.addr => a = m
    <3>1. /\ \A a, m \in Marking(B) : a.k.addr = m.k.addr => a = m
          /\ \A a \in Marking(B) \ {b} : a.k.addr # to.k.addr
      BY DEF Sound, MarksSound
    <3>2. \A a \in Marking(C) : a = to \/ a \in Marking(B) \ {b}
      BY <1>1
    <3> QED
      BY <3>1, <3>2
  <2> QED
    BY <1>1, <2>1, <2>2, <2>3 DEF Sound, MarksSound
<1> QED
  BY <1>4, <1>5, <1>6, <1>7, <1>8 DEF Sound, C

\* It writes the slot's row, and is over.
LEMMA MarkWritten ==
    ASSUME NEW x, NEW y, NEW B, NEW names, Sound(x, B, names),
           NEW b \in Marking(B), b.pc = "program", b.k.on \in BOOLEAN,
           Shape(y), y.c = x.c, y.t.members = x.t.members, y.t.replSid = x.t.replSid,
           \A p : p # b.idx \/ b.idx = 0 => (RootsOnly(x, p) => RootsOnly(y, p)),
           b.idx # 0 /\ b.k.on => RootsOnly(y, b.idx)
    PROVE  Sound(y, B \ {b}, names)
<1> DEFINE C == B \ {b}
<1>1. /\ Slotting(C) = Slotting(B) /\ Adding(C) = Adding(B) /\ BindIdx(C) = BindIdx(B)
      /\ Marking(C) = Marking(B) \ {b}
  <2>1. {a \in C : a.k.op = "staticslot"} = {a \in B : a.k.op = "staticslot"}
    BY DEF Marking
  <2> QED
    BY <2>1 DEF Slotting, Adding, Marking, BindIdx
<1> HIDE DEF C
<1>2. GroupRows(y, C) = GroupRows(x, B)
  BY <1>1 DEF GroupRows, AllIdx
<1>3. PortsTyped(y, names) /\ Low(y, C)
  BY <1>1, <1>2 DEF Sound, PortsTyped, Low
<1>4. PortsApart(y, C)
  BY <1>1, <1>2 DEF Sound, PortsApart, NoDevice
<1>5. SlotsListed(y, C)
  <2>1. \A p : Leaving(B, p) => Leaving(C, p)
    BY <1>1 DEF Leaving
  <2> QED
    BY <2>1 DEF Sound, SlotsListed, OverVxlan, SlotOf
<1>6. AddingSound(y, C)
  BY <1>1 DEF Sound, AddingSound
<1>7. \A a : Finding(B, a) => Finding(C, a)
  BY <1>1 DEF Finding
<1>8. RowsMarked(y, C)
  <2>1. ASSUME NEW a \in x.c.remotes, NEW p, p = x.c.slots[<<a, "">>].idx, SlotOf(x, a, p)
        PROVE  RootsOnly(y, p) \/ Finding(C, a) \/ Writing(C, a, p)
    <3>1. p # 0 /\ <<a, "">> \in DOMAIN x.c.slots
      <4>1. <<a, "">> \in DOMAIN x.c.slots
        BY <2>1, SlotOfFields
      <4>2. p \in 1..x.c.next - 2 /\ x.c.next \in Nat
        BY <2>1, <4>1 DEF Sound, Low, PortsTyped
      <4>3. p # 0
        BY <4>2
      <4> QED
        BY <4>1, <4>3
    <3>2. CASE p = b.idx
      <4>1. <<a, "">> = <<b.k.addr, "">>
        BY <2>1, <3>1, <3>2 DEF Sound, MarksSound
      <4>2. a = b.k.addr
        BY <4>1
      <4>3. b.k.on
        BY <4>2 DEF Sound, MarksSound
      <4> QED
        BY <3>1, <3>2, <4>3
    <3>3. CASE p # b.idx
      <4>1. RootsOnly(x, p) \/ Finding(B, a) \/ Writing(B, a, p)
        BY <2>1 DEF Sound, RowsMarked
      <4>2. Writing(B, a, p) => Writing(C, a, p)
        BY <1>1, <3>3 DEF Writing
      <4> QED
        BY <1>7, <3>3, <4>1, <4>2
    <3> QED
      BY <3>2, <3>3
  <2>2. ASSUME NEW a \in Adding(B), a.pc = "join", a.k.group = None, a.k.addr \in x.c.remotes
        PROVE  RootsOnly(y, a.idx) \/ Finding(C, a.k.addr)
    <3>1. a.idx # b.idx \/ b.idx = 0
      BY DEF Sound, MarksSound
    <3>2. RootsOnly(x, a.idx) \/ Finding(B, a.k.addr)
      BY <2>2 DEF Sound, RowsMarked
    <3> QED
      BY <1>7, <3>1, <3>2
  <2> QED
    BY <1>1, <2>1, <2>2 DEF RowsMarked, SlotOf
<1>9. MarksSound(y, C)
  BY <1>1 DEF Sound, MarksSound
<1> QED
  BY <1>3, <1>4, <1>5, <1>6, <1>8, <1>9 DEF Sound, C

\* A map is full: the mark is about to be undone.
LEMMA MarkFailed ==
    ASSUME NEW x, NEW y, NEW B, NEW names, Sound(x, B, names),
           NEW b \in Marking(B), b.pc = "program", b.k.on \in BOOLEAN,
           Shape(y), y.c = x.c, y.t.members = x.t.members, y.t.replSid = x.t.replSid,
           \A p : p # b.idx \/ b.idx = 0 => (RootsOnly(x, p) => RootsOnly(y, p)),
           NEW to, to.k = b.k, to.pc = "undo", b.k.on
    PROVE  Sound(y, (B \ {b}) \cup {to}, names)
<1> DEFINE C == (B \ {b}) \cup {to}
<1>1. /\ Slotting(C) = Slotting(B) /\ Adding(C) = Adding(B) /\ BindIdx(C) = BindIdx(B)
      /\ Marking(C) = (Marking(B) \ {b}) \cup {to}
  <2>1. {a \in C : a.k.op = "staticslot"} = {a \in B : a.k.op = "staticslot"}
    BY DEF Marking
  <2> QED
    BY <2>1 DEF Slotting, Adding, Marking, BindIdx
<1> HIDE DEF C
<1>2. GroupRows(y, C) = GroupRows(x, B)
  BY <1>1 DEF GroupRows, AllIdx
<1>3. PortsTyped(y, names) /\ Low(y, C)
  BY <1>1, <1>2 DEF Sound, PortsTyped, Low
<1>4. PortsApart(y, C)
  BY <1>1, <1>2 DEF Sound, PortsApart, NoDevice
<1>5. SlotsListed(y, C)
  <2>1. \A p : Leaving(B, p) => Leaving(C, p)
    BY <1>1 DEF Leaving
  <2> QED
    BY <2>1 DEF Sound, SlotsListed, OverVxlan, SlotOf
<1>6. AddingSound(y, C)
  BY <1>1 DEF Sound, AddingSound
<1>7. \A a : Finding(B, a) => Finding(C, a)
  BY <1>1 DEF Finding
<1>8. RowsMarked(y, C)
  <2>1. ASSUME NEW a \in x.c.remotes, NEW p, p = x.c.slots[<<a, "">>].idx, SlotOf(x, a, p)
        PROVE  RootsOnly(y, p) \/ Finding(C, a) \/ Writing(C, a, p)
    <3>1. p # 0 /\ <<a, "">> \in DOMAIN x.c.slots
      <4>1. <<a, "">> \in DOMAIN x.c.slots
        BY <2>1, SlotOfFields
      <4>2. p \in 1..x.c.next - 2 /\ x.c.next \in Nat
        BY <2>1, <4>1 DEF Sound, Low, PortsTyped
      <4>3. p # 0
        BY <4>2
      <4> QED
        BY <4>1, <4>3
    <3>2. CASE p = b.idx
      <4>1. <<a, "">> = <<b.k.addr, "">>
        BY <2>1, <3>1, <3>2 DEF Sound, MarksSound
      <4>2. a = b.k.addr
        BY <4>1
      <4>3. Writing(C, a, p)
        BY <1>1, <4>2 DEF Writing
      <4> QED
        BY <4>3
    <3>3. CASE p # b.idx
      <4>1. RootsOnly(x, p) \/ Finding(B, a) \/ Writing(B, a, p)
        BY <2>1 DEF Sound, RowsMarked
      <4>2. Writing(B, a, p) => Writing(C, a, p)
        BY <1>1, <3>3 DEF Writing
      <4> QED
        BY <1>7, <3>3, <4>1, <4>2
    <3> QED
      BY <3>2, <3>3
  <2>2. ASSUME NEW a \in Adding(B), a.pc = "join", a.k.group = None, a.k.addr \in x.c.remotes
        PROVE  RootsOnly(y, a.idx) \/ Finding(C, a.k.addr)
    <3>1. a.idx # b.idx \/ b.idx = 0
      BY DEF Sound, MarksSound
    <3>2. RootsOnly(x, a.idx) \/ Finding(B, a.k.addr)
      BY <2>2 DEF Sound, RowsMarked
    <3> QED
      BY <1>7, <3>1, <3>2
  <2> QED
    BY <1>1, <2>1, <2>2 DEF RowsMarked, SlotOf
<1>9. MarksSound(y, C)
  <2>1. (to.k.addr \in y.c.remotes) = to.k.on
    BY DEF Sound, MarksSound
  <2>2. \A a, m \in Marking(C) : a.k.addr = m.k.addr => a = m
    <3>1. /\ \A a, m \in Marking(B) : a.k.addr = m.k.addr => a = m
          /\ \A a \in Marking(B) \ {b} : a.k.addr # to.k.addr
      BY DEF Sound, MarksSound
    <3>2. \A a \in Marking(C) : a = to \/ a \in Marking(B) \ {b}
      BY <1>1
    <3> QED
      BY <3>1, <3>2
  <2> QED
    BY <1>1, <2>1, <2>2 DEF Sound, MarksSound
<1> QED
  BY <1>3, <1>4, <1>5, <1>6, <1>8, <1>9 DEF Sound, C

\* And is undone.
LEMMA MarkUndone ==
    ASSUME NEW x, NEW y, NEW B, NEW names, Sound(x, B, names),
           NEW b \in Marking(B), b.pc = "undo", b.k.on \in BOOLEAN,
           Shape(y), y.t = x.t, y.c.slots = x.c.slots, y.c.groups = x.c.groups,
           y.c.dev = x.c.dev, y.c.next = x.c.next,
           y.c.remotes = SetMember(x.c.remotes, b.k.addr, ~b.k.on)
    PROVE  Sound(y, B \ {b}, names)
<1> DEFINE C == B \ {b}
<1>1. /\ Slotting(C) = Slotting(B) /\ Adding(C) = Adding(B) /\ BindIdx(C) = BindIdx(B)
      /\ Marking(C) = Marking(B) \ {b}
  <2>1. {a \in C : a.k.op = "staticslot"} = {a \in B : a.k.op = "staticslot"}
    BY DEF Marking
  <2> QED
    BY <2>1 DEF Slotting, Adding, Marking, BindIdx
<1> HIDE DEF C
<1>2. GroupRows(y, C) = GroupRows(x, B)
  BY <1>1 DEF GroupRows, AllIdx
<1>3. PortsTyped(y, names) /\ Low(y, C)
  BY <1>1, <1>2 DEF Sound, PortsTyped, Low
<1>4. PortsApart(y, C)
  BY <1>1, <1>2 DEF Sound, PortsApart, NoDevice
<1>5. SlotsListed(y, C)
  <2>1. \A p : Leaving(B, p) => Leaving(C, p)
    BY <1>1 DEF Leaving
  <2> QED
    BY <2>1 DEF Sound, SlotsListed, OverVxlan, SlotOf
<1>6. AddingSound(y, C)
  BY <1>1 DEF Sound, AddingSound
<1>7. y.c.remotes = x.c.remotes \ {b.k.addr}
  <2>1. b.k.on
    BY DEF Sound, MarksSound
  <2> QED
    BY <2>1 DEF SetMember
<1>8. ASSUME NEW a, a # b.k.addr
      PROVE  (Finding(B, a) => Finding(C, a)) /\ \A p : Writing(B, a, p) => Writing(C, a, p)
  BY <1>1, <1>8 DEF Finding, Writing
<1>9. RowsMarked(y, C)
  <2>1. \A p : RootsOnly(x, p) => RootsOnly(y, p)
    BY DEF RootsOnly
  <2>2. ASSUME NEW a \in y.c.remotes, NEW p, p = y.c.slots[<<a, "">>].idx, SlotOf(y, a, p)
        PROVE  RootsOnly(y, p) \/ Finding(C, a) \/ Writing(C, a, p)
    <3>1. /\ a \in x.c.remotes /\ a # b.k.addr /\ p = x.c.slots[<<a, "">>].idx
          /\ SlotOf(x, a, p)
      BY <1>7, <2>2 DEF SlotOf
    <3>2. RootsOnly(x, p) \/ Finding(B, a) \/ Writing(B, a, p)
      BY <3>1 DEF Sound, RowsMarked
    <3> QED
      BY <1>8, <2>1, <3>1, <3>2
  <2>3. ASSUME NEW a \in Adding(B), a.pc = "join", a.k.group = None, a.k.addr \in y.c.remotes
        PROVE  RootsOnly(y, a.idx) \/ Finding(C, a.k.addr)
    <3>1. a.k.addr \in x.c.remotes /\ a.k.addr # b.k.addr
      BY <1>7, <2>3
    <3>2. RootsOnly(x, a.idx) \/ Finding(B, a.k.addr)
      BY <2>3, <3>1 DEF Sound, RowsMarked
    <3> QED
      BY <1>8, <2>1, <3>1, <3>2
  <2> QED
    BY <1>1, <2>2, <2>3 DEF RowsMarked
<1>10. MarksSound(y, C)
  <2>1. \A m \in Marking(C) : m.k.addr # b.k.addr
    BY <1>1 DEF Sound, MarksSound
  <2>2. \A m \in Marking(C) : (m.k.addr \in y.c.remotes) = (m.k.addr \in x.c.remotes)
    BY <1>7, <2>1
  <2>3. \A m \in Marking(C) : (m.k.addr \in y.c.remotes) = m.k.on /\ (m.pc = "undo" => m.k.on)
    BY <1>1, <2>2, Zenon DEF Sound, MarksSound
  <2>4. \A m \in Marking(C) : m.pc = "program" /\ m.idx # 0 =>
              /\ \A key \in DOMAIN x.c.slots : x.c.slots[key].idx = m.idx => key = <<m.k.addr, "">>
              /\ \A a \in Adding(B) : a.idx # m.idx
    BY <1>1 DEF Sound, MarksSound
  <2>5. \A a, m \in Marking(C) : a.k.addr = m.k.addr => a = m
    BY <1>1 DEF Sound, MarksSound
  <2> QED
    BY <1>1, <2>3, <2>4, <2>5 DEF MarksSound
<1> QED
  BY <1>3, <1>4, <1>5, <1>6, <1>9, <1>10 DEF Sound, C

----------------------------------------------------------------------------
(***************************************************************************)
(* The calls under way, and the node that a step is about.                 *)
(***************************************************************************)
LEMMA CallsKnown ==
    ASSUME \A s \in Scenarios : Orderly(s), CallsSound, NEW k \in Calls(scn)
    PROVE  k.n \in Nodes /\ CallMade(k, Names(k.n))
BY DEF CallsSound, Orderly, Calls, Names

LEMMA TailLast ==
    ASSUME NEW S, NEW s \in Seq(S), s # <<>>
    PROVE  /\ Head(s) \in S /\ Tail(s) \in Seq(S)
           /\ Tail(s) # <<>> => Tail(s)[Len(Tail(s))] = s[Len(s)]
           /\ Tail(s) = <<>> => Head(s) = s[Len(s)]
<1>1. Len(s) \in Nat \ {0}
  OBVIOUS
<1>2. Head(s) \in S /\ Tail(s) \in Seq(S) /\ Len(Tail(s)) = Len(s) - 1 /\ Head(s) = s[1]
  BY <1>1
<1>3. \A i \in 1..Len(s) - 1 : Tail(s)[i] = s[i + 1]
  BY <1>1
<1>4. ASSUME Tail(s) # <<>> PROVE Tail(s)[Len(Tail(s))] = s[Len(s)]
  <2>1. Len(s) - 1 \in 1..Len(s) - 1
    BY <1>1, <1>2, <1>4
  <2>2. Tail(s)[Len(s) - 1] = s[(Len(s) - 1) + 1]
    BY <1>3, <2>1
  <2>3. (Len(s) - 1) + 1 = Len(s)
    BY <1>1
  <2>4. Len(Tail(s)) = Len(s) - 1
    BY <1>2
  <2> QED
    BY <2>2, <2>3, <2>4, Zenon
<1>5. ASSUME Tail(s) = <<>> PROVE Head(s) = s[Len(s)]
  <2>1. Len(Tail(s)) = 0
    BY <1>2, <1>5, EmptySeq, Zenon
  <2>2. Len(s) - 1 = 0
    BY <1>2, <2>1, Zenon
  <2>3. Len(s) = 1
    BY <1>1, <2>2
  <2> QED
    BY <1>2, <2>3
<1> QED
  BY <1>2, <1>4, <1>5

\* A call is made.  One that marks a remote node is then the only one to.
LEMMA CallsTaken ==
    ASSUME \A s \in Scenarios : Orderly(s), CallsSound, NEW k, Taken(k), scn' = scn,
           \A b \in busy' : b \in busy \/ (b.k = k /\ b = At(b.k, b.pc, b.idx, b.more))
    PROVE  /\ CallsSound' /\ k \in Calls(scn)
           /\ k.op = "remote" => \A m \in Marking(Here(k.n)) : m.k.addr # k.addr
<1>1. MarksApart(scn) /\ scn \in Scenarios
  BY DEF CallsSound, Orderly
<1>2. CASE setup # <<>> /\ busy = {} /\ k = Head(setup) /\ setup' = Tail(setup) /\ UNCHANGED todo
  <2>1. /\ k \in Range(scn.setup) /\ setup' \in Seq(Range(scn.setup))
        /\ setup' # <<>> => setup'[Len(setup')] = scn.setup[Len(scn.setup)]
        /\ setup' = <<>> => k = scn.setup[Len(scn.setup)]
    BY <1>2, TailLast DEF CallsSound
  <2>2. scn.setup # <<>>
    BY <2>1 DEF Range
  <2>3. setup' = <<>> => k.op # "remote"
    BY <1>1, <2>1, <2>2 DEF MarksApart
  <2>4. \A b \in busy' : b.k = k /\ b = At(b.k, b.pc, b.idx, b.more)
    BY <1>2
  <2>5. CallsSound'
    BY <1>2, <2>1, <2>3, <2>4 DEF CallsSound, Calls
  <2> QED
    BY <1>2, <2>1, <2>5 DEF Calls, Marking, Here
<1>3. CASE setup = <<>> /\ k \in todo /\ todo' = todo \ {k} /\ UNCHANGED setup
  <2>1. k \in scn.todo /\ todo' \subseteq scn.todo
    BY <1>3 DEF CallsSound
  <2>2. \A b \in busy : b = At(b.k, b.pc, b.idx, b.more) /\ b.k \in Calls(scn)
    BY DEF CallsSound
  <2>3. \A b \in busy', l \in todo' :
           b.k.op = "remote" /\ l.op = "remote" => b.k.n # l.n \/ b.k.addr # l.addr
    BY <1>1, <1>3, <2>1 DEF CallsSound, MarksApart
  <2>4. CallsSound'
    BY <1>3, <2>1, <2>2, <2>3 DEF CallsSound, Calls
  <2>5. k.op = "remote" => \A m \in Marking(Here(k.n)) : m.k.addr # k.addr
    BY <1>3 DEF CallsSound, Marking, Here
  <2> QED
    BY <2>1, <2>4, <2>5 DEF Calls
<1> QED
  BY <1>2, <1>3 DEF Taken

LEMMA CallsGoOn ==
    ASSUME CallsSound, NEW b \in busy, UNCHANGED <<scn, setup, todo>>,
           \A a \in busy' : a \in busy \/ (a.k = b.k /\ a = At(a.k, a.pc, a.idx, a.more))
    PROVE  CallsSound' /\ b.k \in Calls(scn)
BY DEF CallsSound, Calls

\* Only the node of the call changes.
LEMMA NodeChanged ==
    ASSUME Inv, NEW n \in Nodes, NEW node, pe' = [pe EXCEPT ![n] = node], scn' = scn,
           CallsSound', Sound(node, Here(n)', Names(n)),
           \A m \in Nodes \ {n} : Here(m)' = Here(m)
    PROVE  Inv'
<1>1. IsFcn(pe) /\ DOMAIN pe = Nodes
  BY DEF Inv
<1>2. IsFcn(pe)' /\ (DOMAIN pe)' = Nodes
  BY <1>1 DEF IsFcn
<1>3. \A m \in Nodes : Names(m)' = Names(m)
  BY DEF Names
<1>4. pe'[n] = node /\ \A m \in Nodes \ {n} : pe'[m] = pe[m]
  BY <1>1
<1>5. \A m \in Nodes : Sound(pe'[m], Here(m)', Names(m)')
  <2> TAKE m \in Nodes
  <2>1. CASE m = n
    BY <1>3, <1>4, <2>1
  <2>2. CASE m # n
    BY <1>3, <1>4, <2>2 DEF Inv
  <2> QED
    BY <2>1, <2>2
<1> QED
  BY <1>2, <1>5 DEF Inv

\* A call that is one section, that begins, that goes on, that ends.
LEMMA HereSame ==
    ASSUME UNCHANGED busy PROVE \A m \in Nodes : Here(m)' = Here(m)
BY DEF Here

LEMMA HereBegun ==
    ASSUME NEW b, busy' = busy \cup {b}
    PROVE  /\ Here(b.k.n)' = Here(b.k.n) \cup {b}
           /\ \A m \in Nodes \ {b.k.n} : Here(m)' = Here(m)
BY DEF Here

LEMMA HereGoesOn ==
    ASSUME NEW b \in busy, NEW to, to.k = b.k, busy' = (busy \ {b}) \cup {to}
    PROVE  /\ Here(b.k.n)' = (Here(b.k.n) \ {b}) \cup {to} /\ b \in Here(b.k.n)
           /\ \A m \in Nodes \ {b.k.n} : Here(m)' = Here(m)
BY DEF Here

LEMMA HereFinished ==
    ASSUME NEW b \in busy, busy' = busy \ {b}
    PROVE  /\ Here(b.k.n)' = Here(b.k.n) \ {b} /\ b \in Here(b.k.n)
           /\ \A m \in Nodes \ {b.k.n} : Here(m)' = Here(m)
BY DEF Here

LEMMA TakenKnown ==
    ASSUME \A s \in Scenarios : Orderly(s), Inv, NEW k, Taken(k)
    PROVE  /\ k.n \in Nodes /\ CallMade(k, Names(k.n))
           /\ Sound(N(k), Here(k.n), Names(k.n))
<1>1. CallsSound
  BY DEF Inv
<1>2. k \in Calls(scn)
  <2>1. CASE setup # <<>> /\ k = Head(setup)
    BY <1>1, <2>1, TailLast DEF CallsSound, Calls
  <2>2. CASE k \in todo
    BY <1>1, <2>2 DEF CallsSound, Calls
  <2> QED
    BY <2>1, <2>2 DEF Taken
<1>3. k.n \in Nodes /\ CallMade(k, Names(k.n))
  BY <1>1, <1>2, CallsKnown
<1> QED
  BY <1>3 DEF Inv, N

LEMMA BusyKnown ==
    ASSUME \A s \in Scenarios : Orderly(s), Inv, NEW b \in busy
    PROVE  /\ b.k.n \in Nodes /\ CallMade(b.k, Names(b.k.n)) /\ b \in Here(b.k.n)
           /\ b = At(b.k, b.pc, b.idx, b.more)
           /\ Sound(N(b.k), Here(b.k.n), Names(b.k.n))
<1>1. CallsSound
  BY DEF Inv
<1>2. b.k \in Calls(scn) /\ b = At(b.k, b.pc, b.idx, b.more)
  BY <1>1 DEF CallsSound
<1>3. b.k.n \in Nodes /\ CallMade(b.k, Names(b.k.n))
  BY <1>1, <1>2, CallsKnown
<1> QED
  BY <1>2, <1>3 DEF Inv, N, Here

LEMMA AtomicSound ==
    ASSUME \A s \in Scenarios : Orderly(s), Inv, NEW k, NEW node, Taken(k), Put(k, node),
           UNCHANGED <<scn, busy>>, Sound(node, Here(k.n), Names(k.n))
    PROVE  Inv'
<1>1. CallsSound'
  BY CallsTaken DEF Inv
<1>2. k.n \in Nodes
  BY TakenKnown
<1>3. \A m \in Nodes : Here(m)' = Here(m)
  BY HereSame
<1> QED
  BY <1>1, <1>2, <1>3, NodeChanged DEF Put

LEMMA RefuseSound ==
    ASSUME \A s \in Scenarios : Orderly(s), Inv, NEW k, Refuse(k)
    PROVE  Inv'
<1>1. CallsSound'
  BY CallsTaken DEF Inv, Refuse
<1>2. \A m \in Nodes : Here(m)' = Here(m) /\ Names(m)' = Names(m)
  BY HereSame DEF Refuse, Names
<1> QED
  BY <1>1, <1>2 DEF Inv, Refuse

LEMMA BeginSound ==
    ASSUME \A s \in Scenarios : Orderly(s), Inv, NEW k, NEW node, NEW b, Begin(k, b), Put(k, node),
           b.k = k, b = At(b.k, b.pc, b.idx, b.more),
           Sound(node, Here(k.n) \cup {b}, Names(k.n))
    PROVE  Inv'
<1>1. CallsSound'
  BY CallsTaken DEF Inv, Begin
<1>2. k.n \in Nodes
  BY TakenKnown DEF Begin
<1>3. Here(k.n)' = Here(k.n) \cup {b} /\ \A m \in Nodes \ {k.n} : Here(m)' = Here(m)
  BY HereBegun DEF Begin
<1> QED
  BY <1>1, <1>2, <1>3, NodeChanged DEF Put, Begin

LEMMA GoOnSound ==
    ASSUME \A s \in Scenarios : Orderly(s), Inv, NEW b \in busy, NEW node, NEW to, GoOn(b, to),
           Put(b.k, node), to.k = b.k, to = At(to.k, to.pc, to.idx, to.more),
           Sound(node, (Here(b.k.n) \ {b}) \cup {to}, Names(b.k.n))
    PROVE  Inv'
<1>1. CallsSound'
  BY CallsGoOn DEF Inv, GoOn
<1>2. b.k.n \in Nodes
  BY BusyKnown
<1>3. /\ Here(b.k.n)' = (Here(b.k.n) \ {b}) \cup {to}
      /\ \A m \in Nodes \ {b.k.n} : Here(m)' = Here(m)
  BY HereGoesOn DEF GoOn
<1> QED
  BY <1>1, <1>2, <1>3, NodeChanged DEF Put, GoOn

LEMMA FinishSound ==
    ASSUME \A s \in Scenarios : Orderly(s), Inv, NEW b \in busy, NEW node, Finish(b),
           Put(b.k, node), Sound(node, Here(b.k.n) \ {b}, Names(b.k.n))
    PROVE  Inv'
<1>1. CallsSound'
  BY CallsGoOn DEF Inv, Finish
<1>2. b.k.n \in Nodes
  BY BusyKnown
<1>3. /\ Here(b.k.n)' = Here(b.k.n) \ {b}
      /\ \A m \in Nodes \ {b.k.n} : Here(m)' = Here(m)
  BY HereFinished DEF Finish
<1> QED
  BY <1>1, <1>2, <1>3, NodeChanged DEF Put, Finish

----------------------------------------------------------------------------
(***************************************************************************)
(* Every step keeps the invariant: the calls of one section.               *)
(***************************************************************************)
LEMMA AtomicKept ==
    ASSUME \A s \in Scenarios : Orderly(s), Inv, NEW k, NEW op, NEW node,
           Atomic(k, op, node), Kept(N(k), node)
    PROVE  Inv'
<1>1. Sound(N(k), Here(k.n), Names(k.n))
  BY TakenKnown DEF Atomic
<1>2. Sound(node, Here(k.n), Names(k.n))
  BY <1>1, KeptSound
<1> QED
  BY <1>2, AtomicSound DEF Atomic

LEMMA KeptStep ==
    ASSUME \A s \in Scenarios : Orderly(s), Inv, NEW k,
           \/ Atomic(k, "segment", SetSegment(N(k), k)) \/ Atomic(k, "delsegment", DelSegment(N(k), k))
           \/ Atomic(k, "role", SetRole(N(k), k)) \/ Atomic(k, "peers", SetPeers(N(k), k))
           \/ Atomic(k, "nhg", SetNhg(N(k), k)) \/ Atomic(k, "etree", SetEtreeRole(N(k), k))
           \/ Atomic(k, "port", SetPort(N(k), k))
           \/ Atomic(k, "leaflabel", SetLeafLabel(N(k), k))
           \/ Atomic(k, "leafarg", SetLeafArg(N(k), k))
           \/ Atomic(k, "fdb", AddFdbRemote(N(k), k)) \/ Atomic(k, "fdblocal", AddFdbLocal(N(k), k))
           \/ Atomic(k, "delfdb", DelFdbRemote(N(k), k))
    PROVE  Inv'
<1>1. Shape(N(k))
  BY TakenKnown DEF Atomic, Sound
<1>2. /\ Kept(N(k), SetSegment(N(k), k)) /\ Kept(N(k), SetRole(N(k), k))
      /\ Kept(N(k), SetPeers(N(k), k)) /\ Kept(N(k), SetNhg(N(k), k))
      /\ Kept(N(k), DelSegment(N(k), k))
  BY <1>1, SegmentCallsKept, DelSegmentKept
<1>3. /\ Kept(N(k), SetEtreeRole(N(k), k)) /\ Kept(N(k), SetPort(N(k), k))
      /\ Kept(N(k), SetLeafLabel(N(k), k)) /\ Kept(N(k), SetLeafArg(N(k), k))
      /\ Kept(N(k), AddFdbRemote(N(k), k)) /\ Kept(N(k), AddFdbLocal(N(k), k))
      /\ Kept(N(k), DelFdbRemote(N(k), k))
  BY <1>1, EtreeCallsKept, SetPortKept, FdbCallsKept
<1> QED
  BY <1>2, <1>3, AtomicKept

LEMMA DeviceStep ==
    ASSUME \A s \in Scenarios : Orderly(s), Inv, NEW k, Atomic(k, "device", Device(N(k), k))
    PROVE  Inv'
<1> DEFINE x == N(k)
           B == Here(k.n)
           names == Names(k.n)
           y == [x EXCEPT !.c.dev[k.port] = x.c.next, !.c.next = @ + 1]
<1>1. Sound(x, B, names) /\ k.port \in names
  BY TakenKnown DEF Atomic, CallMade
<1>2. Device(x, k) = y
  BY DEF Device
<1> HIDE DEF x, B, names
<1>3. Shape(x) /\ IsFcn(x.c.dev) /\ DOMAIN x.c.dev = names
  BY <1>1 DEF Sound, PortsTyped
<1>4. /\ Shape(y) /\ y.t = x.t /\ y.c.slots = x.c.slots /\ y.c.remotes = x.c.remotes
      /\ y.c.groups = x.c.groups /\ y.c.next = x.c.next + 1
      /\ y.c.dev = [x.c.dev EXCEPT ![k.port] = x.c.next]
  <2> DEFINE w == [x EXCEPT !.c.dev[k.port] = x.c.next]
  <2>1. y = [w EXCEPT !.c.next = @ + 1]
    OBVIOUS
  <2>2. w = [t |-> x.t, c |-> [x.c EXCEPT !.dev = [x.c.dev EXCEPT ![k.port] = x.c.next]]]
    BY <1>3 DEF Shape
  <2> HIDE DEF w
  <2>3. /\ Shape(w) /\ w.t = x.t /\ w.c.slots = x.c.slots /\ w.c.remotes = x.c.remotes
        /\ w.c.groups = x.c.groups /\ w.c.next = x.c.next
        /\ w.c.dev = [x.c.dev EXCEPT ![k.port] = x.c.next]
    BY <1>3, <2>2 DEF Shape, IsFcn
  <2>4. \A v : LET u == [w EXCEPT !.c.next = v]
               IN  /\ Shape(u) /\ u.t = w.t /\ u.c.slots = w.c.slots /\ u.c.remotes = w.c.remotes
                   /\ u.c.groups = w.c.groups /\ u.c.next = v /\ u.c.dev = w.c.dev
    BY <2>3 DEF Shape, IsFcn
  <2>5. y = [w EXCEPT !.c.next = w.c.next + 1]
    BY <2>1
  <2> HIDE DEF y
  <2> QED
    BY <2>3, <2>4, <2>5
<1> HIDE DEF y
<1>6. Sound(y, B, names)
  BY <1>1, <1>4, PortSound
<1> QED
  BY <1>2, <1>6, AtomicSound DEF Atomic, x, B, names

LEMMA DomainStep ==
    ASSUME \A s \in Scenarios : Orderly(s), Inv, NEW k, Atomic(k, "domain", SetL2Domain(N(k), k))
    PROVE  Inv'
<1> DEFINE x == N(k)
           B == Here(k.n)
           names == Names(k.n)
           S == {x.c.dev[p] : p \in {q \in k.ports : x.c.dev[q] # 0}}
           y == [x EXCEPT !.t.members = SetToSeq(S)]
<1>1. Sound(x, B, names) /\ k.ports \subseteq names
  BY TakenKnown DEF Atomic, CallMade
<1>2. SetL2Domain(x, k) = x \/ SetL2Domain(x, k) = y
  BY DEF SetL2Domain
<1> HIDE DEF x, B, names
<1>3. S \subseteq Range(x.c.dev) /\ Range(x.c.dev) \subseteq 0..x.c.next - 1 /\ x.c.next - 1 \in Nat
  BY <1>1 DEF Sound, Low, PortsTyped, Range
<1> HIDE DEF S
<1>4. /\ SetToSeq(S) \in Seq(Nat) /\ IsInjective(SetToSeq(S)) /\ Range(SetToSeq(S)) \subseteq S
  BY <1>3, SetToSeqProperties
<1>5. /\ Shape(y) /\ y.c = x.c /\ y.t.slotEs = x.t.slotEs /\ y.t.replSid = x.t.replSid
      /\ y.t.members = SetToSeq(S)
  <2>1. \A v : LET u == [x EXCEPT !.t.members = v]
               IN  /\ Shape(u) /\ u.c = x.c /\ u.t.slotEs = x.t.slotEs /\ u.t.replSid = x.t.replSid
                   /\ u.t.members = v
    BY <1>1 DEF Sound, Shape, IsFcn
  <2> QED
    BY <2>1
<1> HIDE DEF y
<1>6. Sound(y, B, names)
  BY <1>1, <1>3, <1>4, <1>5, DomainSound
<1>7. Sound(SetL2Domain(x, k), B, names)
  BY <1>1, <1>2, <1>6
<1> QED
  BY <1>7, AtomicSound DEF Atomic, x, B, names

LEMMA RootOnlyStep ==
    ASSUME \A s \in Scenarios : Orderly(s), Inv, NEW k, Atomic(k, "rootonly", SetRootOnly(N(k), k))
    PROVE  Inv'
<1> DEFINE x == N(k)
           B == Here(k.n)
           names == Names(k.n)
<1>1. Sound(x, B, names)
  BY TakenKnown DEF Atomic
<1> HIDE DEF x, B, names
<1>2. Regrouped(x, SetRootOnly(x, k), 0)
  BY <1>1, RootOnlyRegroups DEF Sound, PortsTyped
<1>3. 0 \in 0..x.c.next - 1
  BY <1>1 DEF Sound, PortsTyped
<1>4. /\ \A key \in DOMAIN x.c.slots : x.c.slots[key].idx # 0
      /\ \A b \in Slotting(B) : b.idx # 0
  BY <1>1 DEF Sound, Low, PortsTyped
<1>5. \A b \in Adding(B) : b.idx # 0
  BY <1>4 DEF Adding, Slotting
<1>6. Sound(SetRootOnly(x, k), B, names)
  BY <1>1, <1>2, <1>3, <1>4, <1>5, RegroupedSound
<1> QED
  BY <1>6, AtomicSound DEF Atomic, x, B, names

----------------------------------------------------------------------------
(***************************************************************************)
(* The sections of the calls that add and remove slots.                    *)
(***************************************************************************)
LEMMA Unlocked ==
    ASSUME NEW n, ~SlotsLocked(n)
    PROVE  Adding(Here(n)) = {}
BY DEF SlotsLocked, Adding, Here

LEMMA AddSlotStep ==
    ASSUME \A s \in Scenarios : Orderly(s), Inv, NEW k, AddSlot(k)
    PROVE  Inv'
<1> DEFINE x == N(k)
           B == Here(k.n)
           names == Names(k.n)
           b == At(k, "program", x.c.next,
                   IF k.target.kind = "vxlan" THEN x.t.vlanVni ELSE k.target.aux)
           y == [x EXCEPT !.c.next = @ + 2]
<1>1. CASE Refuse(k)
  BY <1>1, RefuseSound
<1>2. CASE Put(k, y) /\ Begin(k, b) /\ SlotKey(k) \notin DOMAIN x.c.slots
  <2>1. Sound(x, B, names) /\ Adding(B) = {}
    BY <1>2, TakenKnown, Unlocked DEF Begin, AddSlot
  <2>2. b.k = k /\ b.pc = "program" /\ b.idx = x.c.next /\ b = At(b.k, b.pc, b.idx, b.more)
    BY DEF At
  <2>3. k.op = "addslot"
    BY DEF AddSlot
  <2> HIDE DEF x, B, names, b
  <2>4. /\ Shape(y) /\ y.t = x.t /\ y.c.slots = x.c.slots /\ y.c.remotes = x.c.remotes
        /\ y.c.groups = x.c.groups /\ y.c.dev = x.c.dev /\ y.c.next = x.c.next + 2
    <3>1. \A v : LET u == [x EXCEPT !.c.next = v]
                 IN  /\ Shape(u) /\ u.t = x.t /\ u.c.slots = x.c.slots /\ u.c.remotes = x.c.remotes
                     /\ u.c.groups = x.c.groups /\ u.c.next = v /\ u.c.dev = x.c.dev
      BY <2>1 DEF Sound, Shape, IsFcn
    <3>2. y = [x EXCEPT !.c.next = x.c.next + 2]
      OBVIOUS
    <3> QED
      BY <3>1, <3>2
  <2> HIDE DEF y
  <2>5. SlotKey(b.k) \notin DOMAIN x.c.slots /\ b.k.op = "addslot"
    BY <1>2, <2>2, <2>3
  <2>6. Sound(y, B \cup {b}, names)
    BY <2>1, <2>2, <2>4, <2>5, AddBegun
  <2> QED
    BY <1>2, <2>2, <2>6, BeginSound DEF B, names
<1> QED
  BY <1>1, <1>2 DEF AddSlot

LEMMA AddSlotProgramStep ==
    ASSUME \A s \in Scenarios : Orderly(s), Inv, NEW b \in busy, AddSlotProgram(b)
    PROVE  Inv'
<1> DEFINE x == N(b.k)
           B == Here(b.k.n)
           names == Names(b.k.n)
           target == [b.k.target EXCEPT !.aux = b.more]
           y == ReplTargetAdd(x, b.idx, b.idx + 1, target)
           to == [b EXCEPT !.pc = "restrict"]
<1>1. /\ Sound(x, B, names) /\ b \in B /\ CallMade(b.k, names)
      /\ b = At(b.k, b.pc, b.idx, b.more)
  BY BusyKnown
<1>2. b.k.op = "addslot" /\ b.pc = "program" /\ Put(b.k, y) /\ GoOn(b, to)
  BY DEF AddSlotProgram
<1>3. to.k = b.k /\ to.idx = b.idx /\ to.pc = "restrict" /\ to = At(to.k, to.pc, to.idx, to.more)
  BY <1>1 DEF At
<1> HIDE DEF x, B, names, to
<1>4. b \in Slotting(B) /\ Adding(B) = {b}
  BY <1>1, <1>2 DEF Sound, AddingSound, Adding, Slotting
<1>5. target.kind = b.k.target.kind /\ target.addr = b.k.target.addr
  BY <1>1, <1>2 DEF CallMade, IsTarget
<1> HIDE DEF target
<1>6. Targeted(x, y, b.idx, b.idx + 1, target)
  BY <1>1, ReplTargetAdded DEF Sound
<1> HIDE DEF y
<1>7. b.idx \in 1..x.c.next - 2 /\ x.c.next \in Nat
  BY <1>1, <1>4 DEF Sound, Low, PortsTyped
<1>8. {b.idx, b.idx + 1} \subseteq 0..x.c.next - 1
  BY <1>7
<1>9. Targetable(x, B, b.idx, b.idx + 1, target)
  <2>1. \A p \in {b.idx, b.idx + 1} : p \notin Range(x.c.dev) \cup Range(x.t.members)
    BY <1>1, <1>2, <1>4 DEF Sound, PortsApart, NoDevice, AddingSound
  <2> QED
    BY <1>2, <1>4, <1>8, <2>1 DEF Targetable
<1>10. /\ Sound(y, B, names) /\ b.idx \in DOMAIN y.t.replSid /\ y.t.replSid[b.idx] = target
  BY <1>1, <1>6, <1>9, TargetSound
<1>11. Sound(y, (B \ {b}) \cup {to}, names)
  BY <1>2, <1>3, <1>4, <1>5, <1>10, MovedSound
<1> QED
  BY <1>2, <1>3, <1>11, GoOnSound DEF B, names

LEMMA AddSlotRestrictStep ==
    ASSUME \A s \in Scenarios : Orderly(s), Inv, NEW b \in busy, AddSlotRestrict(b)
    PROVE  Inv'
<1> DEFINE x == N(b.k)
           B == Here(b.k.n)
           names == Names(b.k.n)
           y == Restricted(x, b.k, b.idx)
           to == [b EXCEPT !.pc = "join"]
           row == Row(b.idx, SlotRow(0, {}, "root"))
           ok == Restricts(x, b.k, b.idx)
<1>1. /\ Sound(x, B, names) /\ b \in B /\ b = At(b.k, b.pc, b.idx, b.more)
  BY BusyKnown
<1>2. /\ b.k.op = "addslot" /\ b.pc = "restrict" /\ Put(b.k, y)
      /\ ok => GoOn(b, to)
      /\ ~ok => Finish(b)
  BY DEF AddSlotRestrict
<1>3. to.k = b.k /\ to.idx = b.idx /\ to.pc = "join" /\ to = At(to.k, to.pc, to.idx, to.more)
  BY <1>1 DEF At
<1> HIDE DEF x, B, names, to
<1>4. b \in Slotting(B) /\ Adding(B) = {b}
  BY <1>1, <1>2 DEF Sound, AddingSound, Adding, Slotting
<1>5. /\ b.idx \in DOMAIN x.t.replSid
      /\ x.t.replSid[b.idx].kind = b.k.target.kind
      /\ x.t.replSid[b.idx].addr = b.k.target.addr
  BY <1>1, <1>2, <1>4 DEF Sound, AddingSound
<1>6. \A key \in DOMAIN x.c.slots : x.c.slots[key].idx # b.idx
  BY <1>1, <1>4 DEF Sound, PortsApart, Clear
<1>7. b.idx \in 1..x.c.next - 2 /\ x.c.next \in Nat
  BY <1>1, <1>4 DEF Sound, Low, PortsTyped
<1>8. b.idx \in 0..x.c.next - 1
  BY <1>7
<1>9. Shape(x) /\ \A key \in DOMAIN x.c.groups : IsGroup(x.c.groups[key])
  BY <1>1 DEF Sound, PortsTyped
<1>10. /\ Sound(y, B, names) /\ y.t.replSid = x.t.replSid
       /\ ok /\ b.k.group = None /\ b.k.addr \in y.c.remotes => RootsOnly(y, b.idx)
  <2>1. CASE b.k.group # None
    <3>1. y = SlotEsBind(x, b.k.group, b.idx, b.k.role)
      BY <2>1 DEF Restricted
    <3> HIDE DEF y
    <3>2. Regrouped(x, y, b.idx)
      BY <1>9, <3>1, BindRegroups
    <3>3. Sound(y, B, names)
      BY <1>1, <1>4, <1>6, <1>8, <2>1, <3>2, RegroupedSound
    <3> QED
      BY <2>1, <3>2, <3>3 DEF Regrouped
  <2>2. CASE b.k.group = None /\ b.k.addr \in x.c.remotes
    <3>1. y = [x EXCEPT !.t = SlotEsSet(x.t, row)]
      BY <2>2 DEF Restricted
    <3> HIDE DEF y
    <3>2. DOMAIN row = {b.idx} /\ row[b.idx] = SlotRow(0, {}, "root")
      BY DEF Row
    <3>5. ok => SlotEsFits(x.t, row)
      BY <2>2 DEF Restricts
    <3> HIDE DEF row
    <3>3. /\ Shape(y) /\ y.c = x.c /\ y.t.members = x.t.members /\ y.t.replSid = x.t.replSid
          /\ \A p : p # b.idx /\ RootsOnly(x, p) => RootsOnly(y, p)
          /\ ok => RootsOnly(y, b.idx)
      BY <1>9, <3>1, <3>2, <3>5, SlotEsSetRows
    <3>4. Sound(y, B, names)
      BY <1>1, <1>2, <1>4, <1>6, <3>3, RowSound
    <3> QED
      BY <3>3, <3>4
  <2>3. CASE b.k.group = None /\ b.k.addr \notin x.c.remotes
    <3>1. y = x
      BY <2>3 DEF Restricted
    <3> QED
      BY <1>1, <2>3, <3>1
  <2> QED
    BY <2>1, <2>2, <2>3
<1> HIDE DEF y
<1>11. CASE ok
  <2>1. Sound(y, (B \ {b}) \cup {to}, names)
    BY <1>2, <1>3, <1>4, <1>5, <1>10, <1>11, MovedSound
  <2> QED
    BY <1>2, <1>3, <1>11, <2>1, GoOnSound DEF B, names
<1>12. CASE ~ok
  <2>1. Sound(y, B \ {b}, names)
    BY <1>1, <1>2, <1>10, RemovedSound
  <2> QED
    BY <1>2, <1>12, <2>1, FinishSound DEF B, names
<1> QED
  BY <1>11, <1>12

LEMMA AddSlotJoinStep ==
    ASSUME \A s \in Scenarios : Orderly(s), Inv, NEW b \in busy, AddSlotJoin(b)
    PROVE  Inv'
<1> DEFINE x == N(b.k)
           B == Here(b.k.n)
           names == Names(b.k.n)
           y == Registered(x, b.k, b.idx)
           slots == Including(x.c.slots, Row(SlotKey(b.k), [idx |-> b.idx, group |-> b.k.group]))
           t == L2MemberAdd(x.t, b.idx)
<1>1. Sound(x, B, names) /\ b \in B /\ CallMade(b.k, names)
  BY BusyKnown
<1>2. b.k.op = "addslot" /\ b.pc = "join" /\ Put(b.k, y) /\ Finish(b)
  BY DEF AddSlotJoin
<1> HIDE DEF x, B, names
<1>3. b \in Slotting(B) /\ b \in Adding(B)
  BY <1>1, <1>2 DEF Adding, Slotting
<1>4. b.idx \in Nat
  BY <1>1, <1>3 DEF Sound, Low, PortsTyped
<1>5. Shape(x) /\ x.t.members \in Seq(Nat) /\ IsInjective(x.t.members)
  BY <1>1 DEF Sound, PortsTyped
<1>6. /\ IsFcn(t) /\ DOMAIN t = DOMAIN x.t /\ t.slotEs = x.t.slotEs /\ t.replSid = x.t.replSid
      /\ t.members \in Seq(Nat) /\ IsInjective(t.members)
      /\ Range(t.members) \subseteq Range(x.t.members) \cup {b.idx}
  <2>1. WithMember(x.t, t, b.idx)
    BY <1>4, <1>5, MembersJoined
  <2> HIDE DEF t
  <2> QED
    BY <2>1 DEF WithMember
<1>7. y = [t |-> t, c |-> [x.c EXCEPT !.slots = slots]]
  <2>1. y = [[x EXCEPT !.t = t] EXCEPT !.c.slots =
                Including(@, Row(SlotKey(b.k), [idx |-> b.idx, group |-> b.k.group]))]
    BY DEF Registered
  <2>2. [x EXCEPT !.t = t] = [t |-> t, c |-> x.c]
    BY <1>5 DEF Shape
  <2> QED
    BY <2>1, <2>2
<1> HIDE DEF y, t, slots
<1>8. /\ Shape(y) /\ y.t = t /\ y.c.slots = slots /\ y.c.remotes = x.c.remotes
      /\ y.c.groups = x.c.groups /\ y.c.dev = x.c.dev /\ y.c.next = x.c.next
  BY <1>5, <1>6, <1>7 DEF Shape, IsFcn
<1>9. Sound(y, B \ {b}, names)
  BY <1>1, <1>2, <1>3, <1>6, <1>8, JoinSound DEF slots
<1> QED
  BY <1>2, <1>9, FinishSound DEF B, names

LEMMA DelSlotStep ==
    ASSUME \A s \in Scenarios : Orderly(s), Inv, NEW k, DelSlot(k)
    PROVE  Inv'
<1> DEFINE x == N(k)
           B == Here(k.n)
           names == Names(k.n)
           key == SlotKey(k)
           s == Get(x.c.slots, key)
           b == At(k, "leave", s.idx, s.group)
           y == [x EXCEPT !.c.slots = Without(@, {key})]
<1>1. CASE Refuse(k)
  BY <1>1, RefuseSound
<1>2. CASE s # None /\ Put(k, y) /\ Begin(k, b)
  <2>1. Sound(x, B, names) /\ k.op = "delslot"
    BY <1>2, TakenKnown DEF Begin, DelSlot
  <2>2. key \in DOMAIN x.c.slots /\ s = x.c.slots[key]
    BY <1>2 DEF Get
  <2>3. b.k = k /\ b.pc = "leave" /\ b.idx = s.idx /\ b = At(b.k, b.pc, b.idx, b.more)
    BY DEF At
  <2> HIDE DEF x, B, names, b, s, key
  <2>4. /\ Shape(y) /\ y.t = x.t /\ y.c.slots = Without(x.c.slots, {key})
        /\ y.c.remotes = x.c.remotes /\ y.c.groups = x.c.groups /\ y.c.dev = x.c.dev
        /\ y.c.next = x.c.next
    <3>1. \A v : LET u == [x EXCEPT !.c.slots = v]
                 IN  /\ Shape(u) /\ u.t = x.t /\ u.c.slots = v /\ u.c.remotes = x.c.remotes
                     /\ u.c.groups = x.c.groups /\ u.c.next = x.c.next /\ u.c.dev = x.c.dev
      BY <2>1 DEF Sound, Shape, IsFcn
    <3>2. y = [x EXCEPT !.c.slots = Without(x.c.slots, {key})]
      OBVIOUS
    <3> QED
      BY <3>1, <3>2
  <2> HIDE DEF y
  <2>5. b.k.op = "delslot" /\ b.idx = x.c.slots[key].idx
    BY <2>1, <2>2, <2>3
  <2>6. Sound(y, B \cup {b}, names)
    BY <2>1, <2>2, <2>3, <2>4, <2>5, DelBegun
  <2> QED
    BY <1>2, <2>3, <2>6, BeginSound DEF B, names
<1> QED
  BY <1>1, <1>2 DEF DelSlot

LEMMA DelSlotLeaveStep ==
    ASSUME \A s \in Scenarios : Orderly(s), Inv, NEW b \in busy, DelSlotLeave(b)
    PROVE  Inv'
<1> DEFINE x == N(b.k)
           B == Here(b.k.n)
           names == Names(b.k.n)
           y == [x EXCEPT !.t = L2MemberRemove(@, b.idx)]
           to == [b EXCEPT !.pc = IF b.more # None THEN "unbind" ELSE "clear"]
<1>1. Sound(x, B, names) /\ b \in B /\ b = At(b.k, b.pc, b.idx, b.more)
  BY BusyKnown
<1>2. b.k.op = "delslot" /\ b.pc = "leave" /\ Put(b.k, y) /\ GoOn(b, to)
  BY DEF DelSlotLeave
<1>3. to.k = b.k /\ to.idx = b.idx /\ to = At(to.k, to.pc, to.idx, to.more)
  BY <1>1 DEF At
<1>4. y = [x EXCEPT !.t = L2MemberRemove(x.t, b.idx)]
  OBVIOUS
<1> HIDE DEF x, B, names, to, y
<1>5. b \in Slotting(B)
  BY <1>1, <1>2 DEF Slotting
<1>6. /\ Shape(y) /\ y.c = x.c /\ y.t.slotEs = x.t.slotEs /\ y.t.replSid = x.t.replSid
      /\ y.t.members \in Seq(Nat) /\ IsInjective(y.t.members)
      /\ Range(y.t.members) \subseteq Range(x.t.members) \ {b.idx}
  <2>1. Shape(x) /\ x.t.members \in Seq(Nat) /\ IsInjective(x.t.members)
    BY <1>1 DEF Sound, PortsTyped
  <2> QED
    BY <1>4, <2>1, MembersLeft DEF WithoutMember
<1>7. Sound(y, B, names)
  BY <1>1, <1>6, FewerMembersSound
<1>8. Sound(y, (B \ {b}) \cup {to}, names)
  BY <1>2, <1>3, <1>5, <1>6, <1>7, MovedSound
<1> QED
  BY <1>2, <1>3, <1>8, GoOnSound DEF B, names

LEMMA DelSlotUnbindStep ==
    ASSUME \A s \in Scenarios : Orderly(s), Inv, NEW b \in busy, DelSlotUnbind(b)
    PROVE  Inv'
<1> DEFINE x == N(b.k)
           B == Here(b.k.n)
           names == Names(b.k.n)
           y == SlotEsUnbind(x, b.more, b.idx)
           to == [b EXCEPT !.pc = "clear"]
           ok == SlotEsUnbinds(x, b.more, b.idx)
<1>1. Sound(x, B, names) /\ b \in B /\ b = At(b.k, b.pc, b.idx, b.more)
  BY BusyKnown
<1>2. /\ b.k.op = "delslot" /\ b.pc = "unbind" /\ Put(b.k, y)
      /\ ok => GoOn(b, to)
      /\ ~ok => Finish(b)
  BY DEF DelSlotUnbind
<1>3. to.k = b.k /\ to.idx = b.idx /\ to = At(to.k, to.pc, to.idx, to.more)
  BY <1>1 DEF At
<1> HIDE DEF x, B, names, to, ok
<1>4. b \in Slotting(B)
  BY <1>1, <1>2 DEF Slotting
<1>5. Shape(x) /\ \A key \in DOMAIN x.c.groups : IsGroup(x.c.groups[key])
  BY <1>1 DEF Sound, PortsTyped
<1>6. Regrouped(x, y, b.idx)
  BY <1>5, UnbindRegroups
<1> HIDE DEF y
<1>7. b.idx \in 1..x.c.next - 2 /\ x.c.next \in Nat
  BY <1>1, <1>4 DEF Sound, Low, PortsTyped
<1>8. b.idx \in 0..x.c.next - 1
  BY <1>7
<1>9. /\ \A key \in DOMAIN x.c.slots : x.c.slots[key].idx # b.idx
      /\ \A a \in Adding(B) : a.idx # b.idx
  BY <1>1, <1>2, <1>4 DEF Sound, PortsApart, Clear, Adding, Slotting
<1>10. Sound(y, B, names)
  BY <1>1, <1>6, <1>8, <1>9, RegroupedSound
<1>11. CASE ok
  <2>1. Sound(y, (B \ {b}) \cup {to}, names)
    BY <1>2, <1>3, <1>4, <1>10, MovedSound
  <2> QED
    BY <1>2, <1>3, <1>11, <2>1, GoOnSound DEF B, names
<1>12. CASE ~ok
  <2>1. Sound(y, B \ {b}, names)
    BY <1>1, <1>2, <1>10, RemovedSound
  <2> QED
    BY <1>2, <1>12, <2>1, FinishSound DEF B, names
<1> QED
  BY <1>11, <1>12

LEMMA DelSlotClearStep ==
    ASSUME \A s \in Scenarios : Orderly(s), Inv, NEW b \in busy, DelSlotClear(b)
    PROVE  Inv'
<1> DEFINE x == N(b.k)
           B == Here(b.k.n)
           names == Names(b.k.n)
           row == Row(b.idx, SlotRow(0, {}, "none"))
           t == IF b.more = None THEN SlotEsSet(x.t, row) ELSE x.t
           u == [x EXCEPT !.t = t]
           S == {b.idx, b.idx + 1}
           y == [x EXCEPT !.t = [t EXCEPT !.replSid = Without(@, S)]]
<1>1. Sound(x, B, names) /\ b \in B
  BY BusyKnown
<1>2. b.k.op = "delslot" /\ b.pc = "clear" /\ Put(b.k, y) /\ Finish(b)
  BY DEF DelSlotClear
<1>3. DOMAIN row = {b.idx}
  BY DEF Row
<1> HIDE DEF x, B, names, row
<1>4. b \in Slotting(B)
  BY <1>1, <1>2 DEF Slotting
<1>5. Shape(x)
  BY <1>1 DEF Sound
<1>6. /\ \A key \in DOMAIN x.c.slots : x.c.slots[key].idx # b.idx
      /\ \A a \in Adding(B) : a.idx \notin S
  BY <1>1, <1>2, <1>4 DEF Sound, PortsApart, Clear, Adding, Slotting
<1> HIDE DEF S
<1>7. /\ Shape(u) /\ u.t = t /\ u.c = x.c /\ u.t.members = x.t.members /\ u.t.replSid = x.t.replSid
      /\ \A p : p # b.idx /\ RootsOnly(x, p) => RootsOnly(u, p)
  <2>1. CASE b.more = None
    <3>1. u = [x EXCEPT !.t = SlotEsSet(x.t, row)] /\ t = SlotEsSet(x.t, row)
      BY <2>1
    <3> HIDE DEF u, t
    <3> QED
      BY <1>3, <1>5, <3>1, SlotEsSetRows
  <2>2. CASE b.more # None
    <3>1. u = x /\ t = x.t
      BY <1>5, <2>2 DEF Shape
    <3> HIDE DEF u, t
    <3> QED
      BY <1>5, <3>1
  <2> QED
    BY <2>1, <2>2
<1>8. y = [u EXCEPT !.t.replSid = Without(u.t.replSid, S)]
  <2>1. u = [t |-> t, c |-> x.c] /\ y = [t |-> [t EXCEPT !.replSid = Without(@, S)], c |-> x.c]
    BY <1>5 DEF Shape
  <2> HIDE DEF u, t, y
  <2> QED
    BY <2>1
<1> HIDE DEF u, t, y
<1>9. Sound(u, B, names)
  <2>1. \A a \in Adding(B) : a.idx # b.idx
    BY <1>6 DEF S
  <2> QED
    BY <1>1, <1>6, <1>7, <2>1, RowSound
<1>10. /\ Shape(y) /\ y.c = u.c /\ y.t.members = u.t.members /\ y.t.slotEs = u.t.slotEs
       /\ y.t.replSid = Without(u.t.replSid, S)
  <2>1. \A v : LET w == [u EXCEPT !.t.replSid = v]
               IN  /\ Shape(w) /\ w.c = u.c /\ w.t.members = u.t.members
                   /\ w.t.slotEs = u.t.slotEs /\ w.t.replSid = v
    BY <1>7 DEF Shape, IsFcn
  <2> QED
    BY <1>8, <2>1
<1>11. Sound(y, B, names)
  BY <1>6, <1>9, <1>10, UntargetSound
<1>12. Sound(y, B \ {b}, names)
  BY <1>1, <1>2, <1>11, RemovedSound
<1> QED
  BY <1>2, <1>12, FinishSound DEF B, names

LEMMA AddStaticSlotStep ==
    ASSUME \A s \in Scenarios : Orderly(s), Inv, NEW k, AddStaticSlot(k)
    PROVE  Inv'
<1> DEFINE x == N(k)
           B == Here(k.n)
           names == Names(k.n)
           i == x.c.dev[k.flood]
           j == x.c.dev[k.encap]
           y == ReplTargetAdd(x, i, j, k.target)
           b == At(k, "bind", i, 0)
<1>1. CASE Refuse(k)
  BY <1>1, RefuseSound
<1>2. CASE /\ Put(k, y)
           /\ \/ Taken(k) /\ UNCHANGED <<scn, busy>>
              \/ Begin(k, b)
  <2>1. Sound(x, B, names) /\ CallMade(k, names)
    BY <1>2, TakenKnown DEF Begin
  <2>2. k.op = "staticslot"
    BY DEF AddStaticSlot
  <2>3. b.k = k /\ b.idx = i /\ b = At(b.k, b.pc, b.idx, b.more)
    BY DEF At
  <2> HIDE DEF x, B, names, b
  <2>4. k.target.kind # "vxlan" /\ k.flood \in names /\ k.encap \in names
    BY <2>1, <2>2 DEF CallMade
  <2>5. i \in Range(x.c.dev) /\ j \in Range(x.c.dev)
    BY <2>1, <2>4 DEF Sound, PortsTyped, Range
  <2> HIDE DEF i, j
  <2>6. Targeted(x, y, i, j, k.target)
    BY <2>1, ReplTargetAdded DEF Sound
  <2>7. Targetable(x, B, i, j, k.target)
    <3>1. {i, j} \subseteq 0..x.c.next - 1
      BY <2>1, <2>5 DEF Sound, Low
    <3>2. \A a \in Adding(B) : a.idx \notin {i, j}
      BY <2>1, <2>5 DEF Sound, PortsApart, NoDevice, Adding, Slotting
    <3> QED
      BY <2>4, <3>1, <3>2 DEF Targetable
  <2> HIDE DEF y
  <2>8. Sound(y, B, names)
    BY <2>1, <2>6, <2>7, TargetSound
  <2>9. Sound(y, B \cup {b}, names)
    <3>1. b.idx \in Range(y.c.dev) /\ b.k.op = "staticslot"
      BY <2>2, <2>3, <2>5, <2>6 DEF Targeted
    <3> QED
      BY <2>8, <3>1, BindBegun
  <2>10. CASE Taken(k) /\ UNCHANGED <<scn, busy>>
    BY <1>2, <2>8, <2>10, AtomicSound DEF B, names
  <2>11. CASE Begin(k, b)
    BY <1>2, <2>3, <2>9, <2>11, BeginSound DEF B, names
  <2> QED
    BY <1>2, <2>10, <2>11
<1> QED
  BY <1>1, <1>2 DEF AddStaticSlot

LEMMA StaticSlotBindStep ==
    ASSUME \A s \in Scenarios : Orderly(s), Inv, NEW b \in busy, StaticSlotBind(b)
    PROVE  Inv'
<1> DEFINE x == N(b.k)
           B == Here(b.k.n)
           C == B \ {b}
           names == Names(b.k.n)
           y == SlotEsBind(x, b.k.group, b.idx, b.k.role)
<1>1. Sound(x, B, names) /\ b \in B
  BY BusyKnown
<1>2. b.k.op = "staticslot" /\ Put(b.k, y) /\ Finish(b)
  BY DEF StaticSlotBind
<1> HIDE DEF x, B, names
<1>3. Shape(x) /\ \A key \in DOMAIN x.c.groups : IsGroup(x.c.groups[key])
  BY <1>1 DEF Sound, PortsTyped
<1>4. Regrouped(x, y, b.idx)
  BY <1>3, BindRegroups
<1> HIDE DEF y
<1>5. b.idx \in GroupRows(x, B)
  BY <1>1, <1>2 DEF GroupRows, BindIdx
<1>6. b.idx \in 0..x.c.next - 1
  BY <1>1, <1>5 DEF Sound, Low
<1>7. /\ \A key \in DOMAIN x.c.slots : x.c.slots[key].group = None => x.c.slots[key].idx # b.idx
      /\ \A a \in Adding(B) : a.k.group = None => a.idx # b.idx
  BY <1>1, <1>5 DEF Sound, PortsApart
<1>8. Sound(y, B, names)
  BY <1>1, <1>4, <1>6, <1>7, RegroupedSound
<1>9. Slotting(C) = Slotting(B) /\ Marking(C) = Marking(B)
  BY <1>2 DEF Slotting, Marking
<1>10. GroupRows(y, C) \subseteq GroupRows(y, B)
  BY DEF GroupRows, BindIdx
<1> HIDE DEF C
<1>11. Sound(y, C, names)
  BY <1>8, <1>9, <1>10, AlikeSound
<1> QED
  BY <1>2, <1>11, FinishSound DEF B, names, C

----------------------------------------------------------------------------
(***************************************************************************)
(* Marks, and FDB entries of segments.                                     *)
(***************************************************************************)
LEMMA MarkRemoteStep ==
    ASSUME \A s \in Scenarios : Orderly(s), Inv, NEW k, MarkRemote(k)
    PROVE  Inv'
<1> DEFINE x == N(k)
           B == Here(k.n)
           names == Names(k.n)
           b == At(k, "find", 0, 0)
           R == SetMember(x.c.remotes, k.addr, k.on)
           y == [x EXCEPT !.c.remotes = R]
<1>1. CASE Refuse(k)
  BY <1>1, RefuseSound
<1>2. CASE Put(k, y) /\ Begin(k, b)
  <2>1. Sound(x, B, names) /\ CallMade(k, names) /\ k.op = "remote"
    BY <1>2, TakenKnown DEF Begin, MarkRemote
  <2>2. b.k = k /\ b.pc = "find" /\ b = At(b.k, b.pc, b.idx, b.more)
    BY DEF At
  <2>3. \A m \in Marking(B) : m.k.addr # k.addr
    <3>1. \A a \in busy' : a \in busy \/ (a.k = k /\ a = At(a.k, a.pc, a.idx, a.more))
      BY <1>2, <2>2 DEF Begin
    <3> QED
      BY <1>2, <2>1, <3>1, CallsTaken DEF Begin, Inv
  <2>4. k.on \in BOOLEAN
    BY <2>1 DEF CallMade
  <2> HIDE DEF x, B, names, b
  <2>5. /\ (k.addr \in R) = k.on
        /\ \A a : a # k.addr => (a \in R <=> a \in x.c.remotes)
    BY <2>4 DEF SetMember
  <2>6. y = [x EXCEPT !.c.remotes = R]
    OBVIOUS
  <2> HIDE DEF y, R
  <2>7. /\ Shape(y) /\ y.t = x.t /\ y.c.slots = x.c.slots /\ y.c.groups = x.c.groups
        /\ y.c.dev = x.c.dev /\ y.c.next = x.c.next /\ y.c.remotes = R
    BY <2>1, <2>6 DEF Sound, Shape, IsFcn
  <2>8. Sound(y, B \cup {b}, names)
    BY <2>1, <2>2, <2>3, <2>5, <2>7, MarkBegun
  <2> QED
    BY <1>2, <2>2, <2>8, BeginSound DEF B, names
<1> QED
  BY <1>1, <1>2 DEF MarkRemote

LEMMA MarkRemoteFindStep ==
    ASSUME \A s \in Scenarios : Orderly(s), Inv, NEW b \in busy, MarkRemoteFind(b)
    PROVE  Inv'
<1> DEFINE x == N(b.k)
           B == Here(b.k.n)
           names == Names(b.k.n)
           s == Get(x.c.slots, <<b.k.addr, "">>)
           i == IF s = None THEN 0 ELSE IF s.group # None THEN 0 ELSE s.idx
           to == [b EXCEPT !.pc = "program", !.idx = i]
<1>1. /\ Sound(x, B, names) /\ b \in B /\ b = At(b.k, b.pc, b.idx, b.more) /\ b.k.n \in Nodes
  BY BusyKnown
<1>2. b.k.op = "remote" /\ b.pc = "find" /\ ~SlotsLocked(b.k.n) /\ GoOn(b, to) /\ UNCHANGED pe
  BY DEF MarkRemoteFind
<1>3. /\ to.k = b.k /\ to.idx = i /\ to.pc = "program" /\ to = At(to.k, to.pc, to.idx, to.more)
  <2> HIDE DEF i
  <2>1. to = At(b.k, "program", i, b.more)
    <3> DEFINE a == [b EXCEPT !.pc = "program"]
    <3>1. to = [a EXCEPT !.idx = i]
      OBVIOUS
    <3>2. a = At(b.k, "program", b.idx, b.more)
      BY <1>1 DEF At
    <3> HIDE DEF a, to
    <3> QED
      BY <3>1, <3>2 DEF At
  <2> HIDE DEF to
  <2> QED
    BY <2>1 DEF At
<1>4. Put(b.k, x)
  BY <1>1, <1>2 DEF Put, Inv, IsFcn, N
<1>5. Adding(B) = {}
  BY <1>2, Unlocked
<1> HIDE DEF x, B, names, to
<1>6. b \in Marking(B)
  BY <1>1, <1>2 DEF Marking
<1>7. SlotFound(x, b.k.addr, i)
  <2> DEFINE key == <<b.k.addr, "">>
  <2>1. CASE key \in DOMAIN x.c.slots /\ x.c.slots[key].group = None
    <3>1. s = x.c.slots[key]
      BY <2>1 DEF Get
    <3>2. x.c.slots[key] = [idx |-> x.c.slots[key].idx, group |-> x.c.slots[key].group]
      BY <1>1, <2>1 DEF Sound, PortsTyped
    <3> DEFINE f == x.c.slots[key]
    <3> HIDE DEF key
    <3>3. f.idx \in 1..x.c.next - 2 /\ x.c.next \in Nat
      BY <1>1, <2>1 DEF Sound, Low, PortsTyped
    <3>4. f = [idx |-> f.idx, group |-> None] /\ f.idx \in Nat
      <4>1. f = [idx |-> f.idx, group |-> f.group] /\ f.group = None
        BY <2>1, <3>2
      <4> HIDE DEF f
      <4> QED
        BY <3>3, <4>1
    <3> HIDE DEF f
    <3>5. f \in [idx : Nat, group : {None}]
      BY <3>4
    <3>6. f # None
      BY <3>5, NoneAssumption
    <3> QED
      BY <2>1, <3>1, <3>6 DEF SlotFound, f, key
  <2>2. CASE ~(key \in DOMAIN x.c.slots /\ x.c.slots[key].group = None)
    <3>1. \A p : ~SlotOf(x, b.k.addr, p)
      BY <2>2, SlotOfFields
    <3>2. i = 0
      BY <2>2 DEF Get
    <3> QED
      BY <3>1, <3>2 DEF SlotFound
  <2> QED
    BY <2>1, <2>2
<1> HIDE DEF i
<1>8. Sound(x, (B \ {b}) \cup {to}, names)
  BY <1>1, <1>2, <1>3, <1>5, <1>6, <1>7, MarkFound
<1> QED
  BY <1>2, <1>3, <1>4, <1>8, GoOnSound DEF B, names

LEMMA MarkRemoteProgramStep ==
    ASSUME \A s \in Scenarios : Orderly(s), Inv, NEW b \in busy, MarkRemoteProgram(b)
    PROVE  Inv'
<1> DEFINE x == N(b.k)
           B == Here(b.k.n)
           names == Names(b.k.n)
           marks == SetMember(x.t.vtepEtree, <<b.k.addr, Bd>>, b.k.on)
           room == marks \subseteq x.t.vtepEtree \/ Cardinality(marks) <= x.t.cap.vtepEtree
           marked == IF room THEN [x.t EXCEPT !.vtepEtree = marks] ELSE x.t
           row == Row(b.idx, SlotRow(0, {}, IF b.k.on THEN "root" ELSE "none"))
           slot == room /\ b.idx # 0
           u == [x EXCEPT !.t = marked]
           y == [x EXCEPT !.t = IF slot THEN SlotEsSet(marked, row) ELSE marked]
           ok == room /\ (slot => SlotEsFits(marked, row))
           to == [b EXCEPT !.pc = "undo"]
<1>1. /\ Sound(x, B, names) /\ b \in B /\ CallMade(b.k, names)
      /\ b = At(b.k, b.pc, b.idx, b.more)
  BY BusyKnown
<1>2. /\ b.k.op = "remote" /\ b.pc = "program" /\ Put(b.k, y)
      /\ ok => Finish(b)
      /\ ~ok => GoOn(b, to)
  BY DEF MarkRemoteProgram
<1>3. b \in Marking(B) /\ b.k.on \in BOOLEAN
  BY <1>1, <1>2 DEF Marking, CallMade
<1>10. to.k = b.k /\ to.pc = "undo" /\ to = At(to.k, to.pc, to.idx, to.more)
  BY <1>1 DEF At
<1>11. b.k.on \/ ok
  <2>1. SUFFICES ASSUME ~b.k.on PROVE ok
    OBVIOUS
  <2>2. room
    BY <2>1 DEF SetMember
  <2>3. RealRows(row) = {}
    BY <2>1 DEF RealRows, Row
  <2>4. SlotEsFits(marked, row)
    BY <2>3 DEF SlotEsFits, Fits
  <2> QED
    BY <2>2, <2>4
<1> HIDE DEF x, B, names, to
<1>4. Kept(x, u) /\ u.t = marked /\ u.c = x.c
  <2>1. \A v : LET w == [x EXCEPT !.t = [x.t EXCEPT !.vtepEtree = v]]
               IN  Kept(x, w) /\ w.t = [x.t EXCEPT !.vtepEtree = v] /\ w.c = x.c
    BY <1>1 DEF Sound, Kept, Same, Shape, IsFcn
  <2>2. LET w == [x EXCEPT !.t = x.t] IN Kept(x, w) /\ w.t = x.t /\ w.c = x.c
    BY <1>1 DEF Sound, Kept, Same, Shape, IsFcn
  <2> HIDE DEF room, marks
  <2> QED
    BY <2>1, <2>2
<1>5. y = IF slot THEN [u EXCEPT !.t = SlotEsSet(u.t, row)] ELSE u
  <2> HIDE DEF room, marked, row
  <2> QED
    BY <1>1, <1>4 DEF Sound, Shape
<1>6. DOMAIN row = {b.idx} /\ (b.k.on => row[b.idx] = SlotRow(0, {}, "root"))
  BY DEF Row
<1>12. slot => b.idx # 0
  OBVIOUS
<1>13. ok /\ b.idx # 0 => slot /\ SlotEsFits(u.t, row)
  BY <1>4
<1> HIDE DEF u, y, marked, row, slot, ok
<1>7. /\ Shape(u) /\ u.t.members = x.t.members /\ u.t.replSid = x.t.replSid
      /\ \A p : RootsOnly(x, p) => RootsOnly(u, p)
  BY <1>4 DEF Kept, Same, RootsOnly
<1>8. /\ Shape(y) /\ y.c = u.c /\ y.t.members = u.t.members /\ y.t.replSid = u.t.replSid
      /\ \A p : p # b.idx \/ b.idx = 0 => (RootsOnly(u, p) => RootsOnly(y, p))
      /\ ok /\ b.idx # 0 /\ b.k.on => RootsOnly(y, b.idx)
  <2>1. CASE ~slot
    BY <1>5, <1>7, <1>13, <2>1
  <2>2. CASE slot
    <3>1. y = [u EXCEPT !.t = SlotEsSet(u.t, row)]
      BY <1>5, <2>2
    <3> QED
      BY <1>6, <1>7, <1>12, <1>13, <2>2, <3>1, SlotEsSetRows
  <2> QED
    BY <2>1, <2>2
<1>14. CASE ok
  <2>1. Sound(y, B \ {b}, names)
    BY <1>1, <1>2, <1>3, <1>4, <1>7, <1>8, <1>14, MarkWritten
  <2> QED
    BY <1>2, <1>14, <2>1, FinishSound DEF B, names
<1>15. CASE ~ok
  <2>1. Sound(y, (B \ {b}) \cup {to}, names)
    BY <1>1, <1>2, <1>3, <1>4, <1>7, <1>8, <1>10, <1>11, <1>15, MarkFailed
  <2> QED
    BY <1>2, <1>10, <1>15, <2>1, GoOnSound DEF B, names
<1> QED
  BY <1>14, <1>15

LEMMA MarkRemoteUndoStep ==
    ASSUME \A s \in Scenarios : Orderly(s), Inv, NEW b \in busy, MarkRemoteUndo(b)
    PROVE  Inv'
<1> DEFINE x == N(b.k)
           B == Here(b.k.n)
           names == Names(b.k.n)
           R == SetMember(x.c.remotes, b.k.addr, ~b.k.on)
           y == [x EXCEPT !.c.remotes = R]
<1>1. Sound(x, B, names) /\ b \in B /\ CallMade(b.k, names)
  BY BusyKnown
<1>2. b.k.op = "remote" /\ b.pc = "undo" /\ Put(b.k, y) /\ Finish(b)
  BY DEF MarkRemoteUndo
<1>3. b \in Marking(B) /\ b.k.on \in BOOLEAN
  BY <1>1, <1>2 DEF Marking, CallMade
<1> HIDE DEF x, B, names, R
<1>4. /\ Shape(y) /\ y.t = x.t /\ y.c.slots = x.c.slots /\ y.c.groups = x.c.groups
      /\ y.c.dev = x.c.dev /\ y.c.next = x.c.next /\ y.c.remotes = R
  BY <1>1 DEF Sound, Shape, IsFcn
<1> HIDE DEF y
<1>5. Sound(y, B \ {b}, names)
  BY <1>1, <1>2, <1>3, <1>4, MarkUndone DEF R
<1> QED
  BY <1>2, <1>5, FinishSound DEF B, names

LEMMA AddFdbEsStep ==
    ASSUME \A s \in Scenarios : Orderly(s), Inv, NEW k, AddFdbEs(k)
    PROVE  Inv'
<1> DEFINE x == N(k)
           B == Here(k.n)
           names == Names(k.n)
           c == EsEntry(x.c, k.esi)
           b == At(k, "add", c.es[k.esi].id, 0)
           y == [x EXCEPT !.c = c]
<1>1. CASE Refuse(k)
  BY <1>1, RefuseSound
<1>2. CASE c # None /\ Put(k, y) /\ Begin(k, b)
  <2>1. Sound(x, B, names) /\ k.op = "fdbes"
    BY <1>2, TakenKnown DEF Begin, AddFdbEs
  <2>2. b.k = k /\ b = At(b.k, b.pc, b.idx, b.more)
    BY DEF At
  <2>3. Kept(x, y)
    BY <1>2, <2>1, EsEntryKept DEF Sound
  <2> HIDE DEF x, B, names, b, y
  <2>4. Sound(y, B, names)
    BY <2>1, <2>3, KeptSound
  <2>5. /\ Slotting(B \cup {b}) = Slotting(B) /\ Marking(B \cup {b}) = Marking(B)
        /\ GroupRows(y, B \cup {b}) \subseteq GroupRows(y, B)
    BY <2>1, <2>2 DEF Slotting, Marking, GroupRows, BindIdx
  <2>6. Sound(y, B \cup {b}, names)
    BY <2>4, <2>5, AlikeSound
  <2> QED
    BY <1>2, <2>2, <2>6, BeginSound DEF B, names
<1> QED
  BY <1>1, <1>2 DEF AddFdbEs

LEMMA AddFdbEsAddStep ==
    ASSUME \A s \in Scenarios : Orderly(s), Inv, NEW b \in busy, AddFdbEsAdd(b)
    PROVE  Inv'
<1> DEFINE x == N(b.k)
           B == Here(b.k.n)
           C == B \ {b}
           names == Names(b.k.n)
           y == FdbOverlayAdd(x, b.k.mac, Entry("es", b.idx, None, 0, b.k.leaf))
<1>1. Sound(x, B, names)
  BY BusyKnown
<1>2. b.k.op = "fdbes" /\ Put(b.k, y) /\ Finish(b)
  BY DEF AddFdbEsAdd
<1>3. Kept(x, y)
  BY <1>1, FdbCallsKept DEF Sound
<1> HIDE DEF x, B, names, y
<1>4. Sound(y, B, names)
  BY <1>1, <1>3, KeptSound
<1>5. /\ Slotting(C) = Slotting(B) /\ Marking(C) = Marking(B)
      /\ GroupRows(y, C) \subseteq GroupRows(y, B)
  BY <1>2 DEF Slotting, Marking, GroupRows, BindIdx
<1> HIDE DEF C
<1>6. Sound(y, C, names)
  BY <1>4, <1>5, AlikeSound
<1> QED
  BY <1>2, <1>6, FinishSound DEF B, names, C

----------------------------------------------------------------------------
(***************************************************************************)
(* The invariant, and what it says of the marks.                           *)
(***************************************************************************)
LEMMA InitSound ==
    ASSUME \A s \in Scenarios : Orderly(s), Init
    PROVE  Inv
<1>1. Orderly(scn) /\ scn \in Scenarios /\ setup = scn.setup /\ todo = scn.todo
      /\ busy = {} /\ pe = scn.pe
  BY DEF Init
<1>2. CallsSound
  BY <1>1 DEF CallsSound, Orderly
<1>3. IsFcn(pe) /\ DOMAIN pe = Nodes
  BY <1>1 DEF Orderly
<1>4. ASSUME NEW n \in Nodes PROVE Sound(pe[n], Here(n), Names(n))
  <2> DEFINE x == pe[n]
             B == Here(n)
             names == Names(n)
  <2>1. Unused(x) /\ B = {} /\ names = DOMAIN x.c.dev
    BY <1>1 DEF Orderly, Here, Names
  <2> HIDE DEF x, B, names
  <2>2. /\ x.t.members = <<>> /\ x.c.remotes = {} /\ DOMAIN x.t.replSid = {}
        /\ DOMAIN x.c.slots = {} /\ DOMAIN x.c.groups = {}
        /\ x.c.next \in Nat \ {0} /\ IsFiniteSet(names) /\ IsFcn(x.c.dev)
        /\ \A p \in DOMAIN x.c.dev : x.c.dev[p] \in 0..x.c.next - 1
    BY <2>1 DEF Unused
  <2>3. Shape(x)
    BY <2>1 DEF Unused, Shape
  <2>4. Range(x.t.members) = {} /\ x.t.members \in Seq(Nat) /\ IsInjective(x.t.members)
    BY <2>2 DEF Range, IsInjective
  <2>5. PortsTyped(x, names)
    BY <2>1, <2>2, <2>4 DEF PortsTyped
  <2>6. /\ Slotting(B) = {} /\ Adding(B) = {} /\ Marking(B) = {} /\ GroupRows(x, B) = {}
    BY <2>1, <2>2 DEF Slotting, Adding, Marking, GroupRows, AllIdx, BindIdx
  <2>7. Low(x, B)
    BY <2>2, <2>4, <2>6 DEF Low, Range
  <2>8. PortsApart(x, B) /\ AddingSound(x, B) /\ MarksSound(x, B) /\ RowsMarked(x, B)
    BY <2>2, <2>6 DEF PortsApart, AddingSound, MarksSound, RowsMarked
  <2>9. SlotsListed(x, B)
    BY <2>2, <2>4 DEF SlotsListed, OverVxlan
  <2> QED
    BY <2>3, <2>5, <2>7, <2>8, <2>9 DEF Sound, x, B, names
<1> QED
  BY <1>2, <1>3, <1>4 DEF Inv

LEMMA NextSound ==
    ASSUME \A s \in Scenarios : Orderly(s), Inv, [Next]_vars
    PROVE  Inv'
<1>1. ASSUME NEW k, Call(k) PROVE Inv'
  BY <1>1, KeptStep, DeviceStep, DomainStep, RootOnlyStep, AddSlotStep, DelSlotStep,
     AddStaticSlotStep, MarkRemoteStep, AddFdbEsStep DEF Call
<1>2. ASSUME NEW b \in busy, GoesOn(b) PROVE Inv'
  BY <1>2, AddSlotProgramStep, AddSlotRestrictStep, AddSlotJoinStep, DelSlotLeaveStep,
     DelSlotUnbindStep, DelSlotClearStep, StaticSlotBindStep, AddFdbEsAddStep,
     MarkRemoteFindStep, MarkRemoteProgramStep, MarkRemoteUndoStep DEF GoesOn
<1>3. CASE UNCHANGED vars
  BY <1>3 DEF vars, Inv, CallsSound, Names, Here
<1> QED
  BY <1>1, <1>2, <1>3 DEF Next, Over

LEMMA InvKeepsLeavesIn ==
    ASSUME Inv
    PROVE  LeavesKeptIn
<1> SUFFICES ASSUME NEW n \in Nodes, NEW i \in DOMAIN pe[n].t.members,
                    NEW port, port = pe[n].t.members[i],
                    NEW target, target = Get(pe[n].t.replSid, port),
                    target # None, target.kind = "vxlan", target.addr \in pe[n].c.remotes,
                    \A b \in busy : b.k.n = n => b.k.op \notin {"remote", "delslot"}
             PROVE  ~AffinityOk(pe[n].t, port, 0, TRUE)
  BY DEF LeavesKeptIn
<1> DEFINE x == pe[n]
           B == Here(n)
<1>1. Sound(x, B, Names(n))
  BY DEF Inv
<1>2. port \in Range(x.t.members)
  BY DEF Range
<1>3. port \in DOMAIN x.t.replSid /\ x.t.replSid[port] = target
  BY DEF Get
<1>4. Marking(B) = {} /\ \A b \in Slotting(B) : b.k.op # "delslot"
  BY DEF Marking, Slotting, Here
<1> HIDE DEF x, B
<1>5. SlotOf(x, target.addr, port)
  BY <1>1, <1>2, <1>3, <1>4 DEF Sound, SlotsListed, OverVxlan, Leaving
<1>6. target.addr \in x.c.remotes
  BY DEF x
<1>7. \A a : ~Finding(B, a) /\ \A p : ~Writing(B, a, p)
  BY <1>4 DEF Finding, Writing
<1>8. RootsOnly(x, port)
  <2>1. ASSUME NEW a \in x.c.remotes, NEW p, SlotOf(x, a, p) PROVE RootsOnly(x, p)
    <3>1. p = x.c.slots[<<a, "">>].idx
      BY <2>1, SlotOfFields
    <3> QED
      BY <1>1, <1>7, <2>1, <3>1 DEF Sound, RowsMarked
  <2> QED
    BY <1>5, <1>6, <2>1
<1>9. Get(x.t.slotEs, port) = SlotRow(0, {}, "root")
  BY <1>8 DEF RootsOnly, Get
<1>10. ~AffinityOk(x.t, port, 0, TRUE)
  BY <1>9, NoneAssumption DEF AffinityOk, SlotRow
<1> QED
  BY <1>10 DEF x

\* Wherever calls are made as the control plane makes them, for any nodes and
\* any number of calls: a VXLAN slot in a flood list whose remote node is
\* marked (set_etree_remote) has the roots-only row, whether the mark or the
\* slot came first and however both come and go.
THEOREM LeafFramesKept ==
    ASSUME \A s \in Scenarios : Orderly(s)
    PROVE  Spec => []LeavesKeptIn
<1>1. Init => Inv
  BY InitSound
<1>2. Inv /\ [Next]_vars => Inv'
  BY NextSound
<1>3. Inv => LeavesKeptIn
  BY InvKeepsLeavesIn
<1> QED
  BY <1>1, <1>2, <1>3, PTL DEF Spec

----------------------------------------------------------------------------
(***************************************************************************)
(* Ids of segments: which are free, and which a new segment is given.      *)
(***************************************************************************)
LEMMA LeastNatural ==
    ASSUME NEW S, S \subseteq Nat, S # {}
    PROVE  \E i \in S : \A j \in S : i <= j
<1> DEFINE R == OpToRel(<, Nat)
<1>1. IsWellFoundedOn(R, Nat)
  BY NatLessThanWellFounded
<1>2. \A i, j \in Nat : <<i, j>> \in R <=> i < j
  BY DEF OpToRel
<1> HIDE DEF R
<1>3. PICK i \in S : \A j \in S : ~(<<j, i>> \in R)
  BY <1>1, WFMin
<1>4. \A j \in S : j \in Nat
  OBVIOUS
<1>5. \A j \in S : ~(j < i)
  BY <1>2, <1>3, <1>4
<1>6. \A j \in S : i <= j
  BY <1>3, <1>4, <1>5
<1> QED
  BY <1>3, <1>6

LEMMA FreeIdsNatural ==
    ASSUME NEW c
    PROVE  FreeIds(c) \subseteq Nat /\ IsFiniteSet(FreeIds(c))
<1>1. FreeIds(c) \subseteq 0..MaxEsId
  BY DEF FreeIds
<1>2. IsFiniteSet(0..MaxEsId)
  BY IdsAssumption, FS_Interval
<1> QED
  BY <1>1, <1>2, FS_Subset, IdsAssumption

\* Segments made from the lowest free ids up, for as long as there are any: such
\* an assignment exists, for one that leaves the fewest ids free is one.
Lowest(h, free) == \A e \in DOMAIN h : \A i \in free : i < h[e] => i \in Range(h)
Assignments(new, free) ==
    {h \in UNION {[made -> free] : made \in SUBSET new} : IsInjective(h) /\ Lowest(h, free)}
LEMMA AssignmentExtended ==
    ASSUME NEW new, NEW free, free \subseteq Nat, IsFiniteSet(free),
           NEW h \in Assignments(new, free), DOMAIN h # new, Range(h) # free
    PROVE  \E g \in Assignments(new, free) :
              Cardinality(free \ Range(g)) < Cardinality(free \ Range(h))
<1>1. PICK made \in SUBSET new : h \in [made -> free]
  BY DEF Assignments
<1>2. IsInjective(h) /\ Lowest(h, free) /\ DOMAIN h = made /\ Range(h) \subseteq free
  BY <1>1 DEF Assignments, Range
<1>3. PICK e \in new : e \notin made
  BY <1>1, <1>2
<1> DEFINE left == free \ Range(h)
<1>4. left # {} /\ left \subseteq Nat
  BY <1>2
<1>5. PICK i \in left : \A j \in left : i <= j
  <2> HIDE DEF left
  <2> QED
    BY <1>4, LeastNatural
<1> DEFINE g == [f \in made \cup {e} |-> IF f = e THEN i ELSE h[f]]
<1>6. g \in [made \cup {e} -> free] /\ made \cup {e} \in SUBSET new
  BY <1>1, <1>3, <1>5
<1>7. Range(g) = Range(h) \cup {i}
  <2>1. \A f \in made : g[f] = h[f]
    BY <1>3
  <2>2. g[e] = i /\ DOMAIN g = made \cup {e}
    OBVIOUS
  <2> HIDE DEF g
  <2> QED
    BY <1>2, <2>1, <2>2 DEF Range
<1>8. IsInjective(g)
  <2>1. \A f \in made : h[f] # i
    BY <1>2, <1>5 DEF Range
  <2> QED
    BY <1>2, <2>1 DEF IsInjective
<1>9. Lowest(g, free)
  <2> SUFFICES ASSUME NEW f \in made \cup {e}, NEW j \in free, j < g[f] PROVE j \in Range(g)
    BY DEF Lowest
  <2>1. CASE f = e
    <3>1. j < i /\ i \in Nat /\ j \in Nat
      BY <2>1, <1>4, <1>5
    <3>2. j \notin left
      BY <1>5, <3>1
    <3> QED
      BY <1>7, <3>2
  <2>2. CASE f # e
    BY <1>2, <1>7, <2>2 DEF Lowest
  <2> QED
    BY <2>1, <2>2
<1>10. g \in Assignments(new, free)
  BY <1>6, <1>8, <1>9 DEF Assignments
<1>11. free \ Range(g) = left \ {i}
  BY <1>7
<1>12. Cardinality(left \ {i}) < Cardinality(left)
  <2>1. IsFiniteSet(left)
    BY FS_Subset
  <2> HIDE DEF left
  <2>2. Cardinality(left) \in Nat /\ Cardinality(left \ {i}) = Cardinality(left) - 1
    BY <2>1, <1>5, FS_RemoveElement, FS_CardinalityType
  <2> QED
    BY <2>2
<1> QED
  BY <1>10, <1>11, <1>12

LEMMA AssignmentExists ==
    ASSUME NEW new, NEW free, free \subseteq Nat, IsFiniteSet(free)
    PROVE  \E h \in Assignments(new, free) : DOMAIN h = new \/ Range(h) = free
<1> DEFINE sizes == {Cardinality(free \ Range(h)) : h \in Assignments(new, free)}
           none == [e \in {} |-> 0]
<1>1. none \in Assignments(new, free)
  <2>1. none \in [{} -> free] /\ {} \in SUBSET new
    OBVIOUS
  <2> QED
    BY <2>1 DEF Assignments, IsInjective, Lowest
<1>2. sizes # {}
  BY <1>1
<1>3. sizes \subseteq Nat
  <2>1. ASSUME NEW h PROVE Cardinality(free \ Range(h)) \in Nat
    BY FS_Subset, FS_CardinalityType
  <2> QED
    BY <2>1
<1>4. PICK n \in sizes : \A m \in sizes : n <= m
  <2> HIDE DEF sizes
  <2> QED
    BY <1>2, <1>3, LeastNatural
<1>5. PICK h \in Assignments(new, free) : n = Cardinality(free \ Range(h))
  BY <1>4
<1>6. CASE DOMAIN h # new /\ Range(h) # free
  <2>1. PICK g \in Assignments(new, free) :
           Cardinality(free \ Range(g)) < Cardinality(free \ Range(h))
    BY <1>6, AssignmentExtended
  <2>2. Cardinality(free \ Range(g)) \in sizes
    OBVIOUS
  <2> DEFINE m == Cardinality(free \ Range(g))
  <2>3. m \in sizes /\ m < n
    BY <1>5, <2>1, <2>2
  <2> HIDE DEF sizes, m
  <2>4. n <= m /\ n \in Nat /\ m \in Nat
    BY <1>3, <1>4, <2>3
  <2> QED
    BY <2>3, <2>4
<1> QED
  BY <1>5, <1>6

----------------------------------------------------------------------------
(***************************************************************************)
(* The rows of segments: every row of the tables is remembered by the      *)
(* segment whose id it has, which takes it out when it is rendered again.  *)
(***************************************************************************)
IsEs(st) ==
    st = [id |-> st.id, ports |-> st.ports, role |-> st.role, peers |-> st.peers, nhg |-> st.nhg,
          label |-> st.label, dfRows |-> st.dfRows, portRows |-> st.portRows,
          peerRows |-> st.peerRows, nhgRow |-> st.nhgRow, labelRow |-> st.labelRow]
SegmentsTyped(es) ==
    /\ IsFcn(es) /\ \A e \in DOMAIN es : IsEs(es[e])
    /\ \A e, f \in DOMAIN es : es[e].id = es[f].id => e = f

PortsTraced(es, portEs, lost) ==
    \A i \in DOMAIN portEs \ lost : \E e \in DOMAIN es : es[e].id = portEs[i] /\ i \in es[e].portRows
StandbysTraced(es, esDf, lost) ==
    \A i \in DOMAIN esDf \ lost : \E e \in DOMAIN es : i \in es[e].dfRows
PeersTraced(es, bits, lost) ==
    \A a \in DOMAIN bits \ lost : \A id \in bits[a] :
        \E e \in DOMAIN es : es[e].id = id /\ a \in es[e].peerRows
GroupsTraced(es, nhg) ==
    \A id \in DOMAIN nhg : \E e \in DOMAIN es : es[e].id = id /\ es[e].nhgRow = TRUE
LabelsTraced(es, esiLabel) ==
    \A l \in DOMAIN esiLabel :
        /\ l # 0
        /\ \E e \in DOMAIN es : es[e].id = esiLabel[l] /\ es[e].labelRow = l
Traced(es, t, c) ==
    /\ PortsTraced(es, t.portEs, c.lostPorts) /\ StandbysTraced(es, t.esDf, c.lostPorts)
    /\ PeersTraced(es, t.vtepEs, c.lostPeers) /\ PeersTraced(es, c.vtepBits, c.lostPeers)
    /\ GroupsTraced(es, t.nhg) /\ LabelsTraced(es, t.esiLabel)

SegmentFields(x) ==
    /\ {"nhg", "esDf", "portEs", "vtepEs", "esiLabel", "portEtree", "ports"} \subseteq DOMAIN x.t
    /\ {"es", "vtepBits", "lostPorts", "lostPeers", "leaves", "etreeRows", "unmarked"}
          \subseteq DOMAIN x.c
SegmentsSound(x) == /\ Shape(x) /\ SegmentFields(x)
                    /\ SegmentsTyped(x.c.es) /\ Traced(x.c.es, x.t, x.c)

LeavesSame(x, y) == /\ y.t.portEtree = x.t.portEtree /\ y.t.ports = x.t.ports
                    /\ y.c.dev = x.c.dev /\ y.c.leaves = x.c.leaves
                    /\ y.c.etreeRows = x.c.etreeRows /\ y.c.unmarked = x.c.unmarked
                    /\ y.c.next = x.c.next
LostSame(c, d) ==
    d.vtepBits = c.vtepBits /\ d.lostPorts = c.lostPorts /\ d.lostPeers = c.lostPeers

\* More segments: those that were there are as they were.
Grown(es, more) == /\ SegmentsTyped(more) /\ DOMAIN es \subseteq DOMAIN more
                   /\ \A e \in DOMAIN es : more[e] = es[e]

LEMMA NewEsTyped == \A i : IsEs(NewEs(i)) /\ NewEs(i).id = i
BY DEF NewEs, IsEs

LEMMA EsEntryGrows ==
    ASSUME NEW c, IsFcn(c), "es" \in DOMAIN c, SegmentsTyped(c.es), NEW esi,
           EsEntry(c, esi) # None
    PROVE  Grown(c.es, EsEntry(c, esi).es) /\ esi \in DOMAIN EsEntry(c, esi).es
<1>1. CASE esi \in DOMAIN c.es
  BY <1>1 DEF EsEntry, Grown
<1>2. CASE esi \notin DOMAIN c.es
  <2> DEFINE free == FreeIds(c)
             i == CHOOSE j \in free : \A l \in free : j <= l
             more == Including(c.es, Row(esi, NewEs(i)))
  <2>1. free # {} /\ EsEntry(c, esi) = [c EXCEPT !.es = more]
    BY <1>2 DEF EsEntry
  <2>2. i \in free
    BY <2>1, FreeIdsNatural, LeastNatural
  <2>3. \A e \in DOMAIN c.es : c.es[e].id # i
    <3> HIDE DEF i
    <3> QED
      BY <2>2 DEF FreeIds
  <2>4. EsEntry(c, esi).es = more
    <3> HIDE DEF more
    <3> QED
      BY <2>1
  <2> HIDE DEF i
  <2>5. /\ IsFcn(more) /\ DOMAIN more = DOMAIN c.es \cup {esi} /\ more[esi] = NewEs(i)
        /\ \A e \in DOMAIN c.es : more[e] = c.es[e]
    BY <1>2 DEF Including, Row, IsFcn
  <2> HIDE DEF more
  <2>6. \A e \in DOMAIN more : IsEs(more[e])
    BY <2>5, NewEsTyped DEF SegmentsTyped
  <2>7. \A e, f \in DOMAIN more : more[e].id = more[f].id => e = f
    BY <1>2, <2>3, <2>5, NewEsTyped DEF SegmentsTyped
  <2> QED
    BY <2>4, <2>5, <2>6, <2>7 DEF Grown, SegmentsTyped
<1> QED
  BY <1>1, <1>2

LEMMA GroupSegmentsGrow ==
    ASSUME NEW c, IsFcn(c), "es" \in DOMAIN c, SegmentsTyped(c.es), NEW g
    PROVE  Grown(c.es, GroupSegments(c, g).es)
<1> DEFINE new == DOMAIN g.es \ DOMAIN c.es
           free == FreeIds(c)
           fits(h) == /\ IsInjective(h)
                      /\ \A e \in DOMAIN h : \A i \in free : i < h[e] => i \in Range(h)
                      /\ DOMAIN h = new \/ Range(h) = free
           all == UNION {[made -> free] : made \in SUBSET new}
           ids == CHOOSE h \in all : fits(h)
           more == Including(c.es, [e \in DOMAIN ids |-> NewEs(ids[e])])
<1>1. GroupSegments(c, g) = [c EXCEPT !.es = more]
  BY DEF GroupSegments
<1>2. \E h \in all : fits(h)
  <2>1. PICK h \in Assignments(new, free) : DOMAIN h = new \/ Range(h) = free
    BY FreeIdsNatural, AssignmentExists
  <2> QED
    BY <2>1 DEF Assignments, Lowest
<1>3. ids \in all /\ fits(ids)
  <2> HIDE DEF all, fits
  <2> QED
    BY <1>2
<1>4. GroupSegments(c, g).es = more
  <2> HIDE DEF more
  <2> QED
    BY <1>1
<1> HIDE DEF ids
<1>5. DOMAIN ids \subseteq new /\ \A e \in DOMAIN ids : ids[e] \in free
  BY <1>3
<1>6. \A e, f \in DOMAIN ids : ids[e] = ids[f] => e = f
  BY <1>3 DEF IsInjective
<1>7. \A e \in DOMAIN ids, f \in DOMAIN c.es : e # f /\ ids[e] # c.es[f].id
  BY <1>5 DEF FreeIds
<1>8. /\ IsFcn(more) /\ DOMAIN more = DOMAIN c.es \cup DOMAIN ids
      /\ \A e \in DOMAIN ids : more[e] = NewEs(ids[e])
      /\ \A e \in DOMAIN c.es : more[e] = c.es[e]
  BY <1>7 DEF Including, IsFcn
<1> HIDE DEF more
<1>9. \A e \in DOMAIN more : IsEs(more[e])
  BY <1>8, NewEsTyped DEF SegmentsTyped
<1>10. \A e, f \in DOMAIN more : more[e].id = more[f].id => e = f
  <2>1. \A e \in DOMAIN ids : more[e].id = ids[e]
    BY <1>8, NewEsTyped
  <2>2. \A e, f \in DOMAIN c.es : c.es[e].id = c.es[f].id => e = f
    BY DEF SegmentsTyped
  <2> QED
    BY <1>6, <1>7, <1>8, <2>1, <2>2
<1> QED
  BY <1>4, <1>8, <1>9, <1>10 DEF Grown, SegmentsTyped

LEMMA GrownTraced ==
    ASSUME NEW es, NEW more, Grown(es, more), NEW t, NEW c, Traced(es, t, c),
           NEW d, LostSame(c, d)
    PROVE  Traced(more, t, d)
<1>1. PortsTraced(more, t.portEs, d.lostPorts) /\ StandbysTraced(more, t.esDf, d.lostPorts)
  BY DEF Grown, Traced, PortsTraced, StandbysTraced, LostSame
<1>2. PeersTraced(more, t.vtepEs, d.lostPeers) /\ GroupsTraced(more, t.nhg)
  BY DEF Grown, Traced, PeersTraced, GroupsTraced, LostSame
<1>3. PeersTraced(more, d.vtepBits, d.lostPeers)
  BY DEF Grown, Traced, PeersTraced, LostSame
<1>4. LabelsTraced(more, t.esiLabel)
  BY DEF Grown, Traced, LabelsTraced
<1> QED
  BY <1>1, <1>2, <1>3, <1>4 DEF Traced

\* A segment is told something: its rows stay as they are.
SameRows(st, su) ==
    /\ IsEs(su) /\ su.id = st.id /\ su.dfRows = st.dfRows /\ su.portRows = st.portRows
    /\ su.peerRows = st.peerRows /\ su.nhgRow = st.nhgRow /\ su.labelRow = st.labelRow
LEMMA ToldTyped ==
    ASSUME NEW es, SegmentsTyped(es), NEW esi \in DOMAIN es, NEW su, IsEs(su), su.id = es[esi].id,
           NEW new, new = [es EXCEPT ![esi] = su]
    PROVE  /\ SegmentsTyped(new) /\ DOMAIN new = DOMAIN es /\ new[esi] = su
           /\ \A e \in DOMAIN es \ {esi} : new[e] = es[e]
<1>1. /\ IsFcn(new) /\ DOMAIN new = DOMAIN es /\ new[esi] = su
      /\ \A e \in DOMAIN es \ {esi} : new[e] = es[e]
  BY DEF SegmentsTyped, IsFcn
<1>2. \A e \in DOMAIN new : IsEs(new[e]) /\ new[e].id = es[e].id
  BY <1>1 DEF SegmentsTyped
<1> QED
  BY <1>1, <1>2 DEF SegmentsTyped

LEMMA ToldTraced ==
    ASSUME NEW es, SegmentsTyped(es), NEW esi \in DOMAIN es, NEW su, SameRows(es[esi], su),
           NEW t, NEW c, Traced(es, t, c), NEW d, LostSame(c, d),
           NEW new, new = [es EXCEPT ![esi] = su]
    PROVE  SegmentsTyped(new) /\ Traced(new, t, d)
<1>1. /\ SegmentsTyped(new) /\ DOMAIN new = DOMAIN es /\ new[esi] = su
      /\ \A e \in DOMAIN es \ {esi} : new[e] = es[e]
  BY ToldTyped DEF SameRows
<1>2. \A e \in DOMAIN es :
         /\ e \in DOMAIN new /\ new[e].id = es[e].id /\ new[e].dfRows = es[e].dfRows
         /\ new[e].portRows = es[e].portRows /\ new[e].peerRows = es[e].peerRows
         /\ new[e].nhgRow = es[e].nhgRow /\ new[e].labelRow = es[e].labelRow
  BY <1>1 DEF SameRows
<1>3. PortsTraced(new, t.portEs, d.lostPorts) /\ StandbysTraced(new, t.esDf, d.lostPorts)
  BY <1>2 DEF Traced, PortsTraced, StandbysTraced, LostSame
<1>4. PeersTraced(new, t.vtepEs, d.lostPeers) /\ GroupsTraced(new, t.nhg)
  BY <1>2 DEF Traced, PeersTraced, GroupsTraced, LostSame
<1>5. PeersTraced(new, d.vtepBits, d.lostPeers)
  BY <1>2 DEF Traced, PeersTraced, LostSame
<1>6. LabelsTraced(new, t.esiLabel)
  BY <1>2 DEF Traced, LabelsTraced
<1> QED
  BY <1>1, <1>3, <1>4, <1>5, <1>6 DEF Traced

\* es_render: the rows the segment had go, and those it is given it remembers, or
\* they are lost.  A row that stays is another segment's.
PortsFrom(portEs, st, su, new, lost) ==
    \A i \in DOMAIN new \ lost : \/ i \in su.portRows /\ new[i] = st.id
                                 \/ i \in DOMAIN portEs \ st.portRows /\ new[i] = portEs[i]
StandbysFrom(esDf, st, su, new, lost) ==
    \A i \in DOMAIN new \ lost : i \in su.dfRows \/ i \in DOMAIN esDf \ st.dfRows
PeersFrom(vtepEs, bits, st, su, new, lost) ==
    \A a \in DOMAIN new \ lost : \A id \in new[a] :
        \/ a \in su.peerRows /\ id = st.id
        \/ /\ ~(a \in st.peerRows /\ id = st.id)
           /\ \/ a \in DOMAIN vtepEs /\ id \in vtepEs[a]
              \/ a \in DOMAIN bits /\ id \in bits[a]
LabelsFrom(labels, st, su, new) ==
    \A l \in DOMAIN new : \/ l # 0 /\ l = su.labelRow /\ new[l] = st.id
                          \/ /\ l \in DOMAIN labels /\ new[l] = labels[l]
                             /\ l = st.labelRow => su.labelRow = l

LEMMA PortsRendered ==
    ASSUME NEW es, NEW esi \in DOMAIN es, NEW new, DOMAIN new = DOMAIN es,
           \A e \in DOMAIN es \ {esi} : new[e] = es[e], new[esi].id = es[esi].id,
           NEW portEs, NEW lost, PortsTraced(es, portEs, lost),
           NEW rows, NEW more, lost \subseteq more, PortsFrom(portEs, es[esi], new[esi], rows, more)
    PROVE  PortsTraced(new, rows, more)
<1> SUFFICES ASSUME NEW i \in DOMAIN rows \ more
             PROVE  \E e \in DOMAIN new : new[e].id = rows[i] /\ i \in new[e].portRows
  BY DEF PortsTraced
<1>1. CASE i \in new[esi].portRows /\ rows[i] = es[esi].id
  BY <1>1
<1>2. CASE i \in DOMAIN portEs \ es[esi].portRows /\ rows[i] = portEs[i]
  <2>1. PICK e \in DOMAIN es : es[e].id = portEs[i] /\ i \in es[e].portRows
    BY <1>2 DEF PortsTraced
  <2> QED
    BY <1>2, <2>1
<1> QED
  BY <1>1, <1>2 DEF PortsFrom

LEMMA StandbysRendered ==
    ASSUME NEW es, NEW esi \in DOMAIN es, NEW new, DOMAIN new = DOMAIN es,
           \A e \in DOMAIN es \ {esi} : new[e] = es[e],
           NEW esDf, NEW lost, StandbysTraced(es, esDf, lost),
           NEW rows, NEW more, lost \subseteq more, StandbysFrom(esDf, es[esi], new[esi], rows, more)
    PROVE  StandbysTraced(new, rows, more)
<1> SUFFICES ASSUME NEW i \in DOMAIN rows \ more PROVE \E e \in DOMAIN new : i \in new[e].dfRows
  BY DEF StandbysTraced
<1>1. CASE i \in new[esi].dfRows
  BY <1>1
<1>2. CASE i \in DOMAIN esDf \ es[esi].dfRows
  <2>1. PICK e \in DOMAIN es : i \in es[e].dfRows
    BY <1>2 DEF StandbysTraced
  <2> QED
    BY <1>2, <2>1
<1> QED
  BY <1>1, <1>2 DEF StandbysFrom

LEMMA PeersRendered ==
    ASSUME NEW es, NEW esi \in DOMAIN es, NEW new, DOMAIN new = DOMAIN es,
           \A e \in DOMAIN es \ {esi} : new[e] = es[e], new[esi].id = es[esi].id,
           NEW vtepEs, NEW bits, NEW lost,
           PeersTraced(es, vtepEs, lost), PeersTraced(es, bits, lost),
           NEW rows, NEW more, lost \subseteq more,
           PeersFrom(vtepEs, bits, es[esi], new[esi], rows, more)
    PROVE  PeersTraced(new, rows, more)
<1> SUFFICES ASSUME NEW a \in DOMAIN rows \ more, NEW id \in rows[a]
             PROVE  \E e \in DOMAIN new : new[e].id = id /\ a \in new[e].peerRows
  BY DEF PeersTraced
<1>1. CASE a \in new[esi].peerRows /\ id = es[esi].id
  BY <1>1
<1>2. CASE /\ ~(a \in es[esi].peerRows /\ id = es[esi].id)
           /\ \/ a \in DOMAIN vtepEs /\ id \in vtepEs[a]
              \/ a \in DOMAIN bits /\ id \in bits[a]
  <2>1. PICK e \in DOMAIN es : es[e].id = id /\ a \in es[e].peerRows
    BY <1>2 DEF PeersTraced
  <2>2. e # esi
    BY <1>2, <2>1
  <2> QED
    BY <2>1, <2>2
<1> QED
  BY <1>1, <1>2 DEF PeersFrom

LEMMA GroupsRendered ==
    ASSUME NEW es, SegmentsTyped(es), NEW esi \in DOMAIN es, NEW new, DOMAIN new = DOMAIN es,
           \A e \in DOMAIN es \ {esi} : new[e] = es[e],
           NEW t, GroupsTraced(es, t.nhg),
           new[esi].id = es[esi].id, new[esi].nhgRow = (es[esi].nhg # None)
    PROVE  GroupsTraced(new, NhgOf(t, es[esi]))
<1> DEFINE st == es[esi]
           rows == NhgOf(t, st)
<1>1. /\ st.nhg = None => DOMAIN rows \subseteq DOMAIN t.nhg \ IF st.nhgRow = TRUE THEN {st.id} ELSE {}
      /\ st.nhg # None => DOMAIN rows = DOMAIN t.nhg \cup {st.id}
  BY DEF NhgOf, Without, Including, Row
<1> HIDE DEF rows
<1> SUFFICES ASSUME NEW id \in DOMAIN rows
             PROVE  \E e \in DOMAIN new : new[e].id = id /\ new[e].nhgRow = TRUE
  BY DEF GroupsTraced, rows
<1>2. CASE st.nhg # None /\ id = st.id
  BY <1>2
<1>3. CASE ~(st.nhg # None /\ id = st.id)
  <2>1. id \in DOMAIN t.nhg /\ ~(id = st.id /\ st.nhgRow = TRUE)
    BY <1>1, <1>3
  <2>2. PICK e \in DOMAIN es : es[e].id = id /\ es[e].nhgRow = TRUE
    BY <2>1 DEF GroupsTraced
  <2>3. e # esi
    BY <2>1, <2>2
  <2> QED
    BY <2>2, <2>3
<1> QED
  BY <1>2, <1>3

LEMMA LabelsRendered ==
    ASSUME NEW es, NEW esi \in DOMAIN es, NEW new, DOMAIN new = DOMAIN es,
           \A e \in DOMAIN es \ {esi} : new[e] = es[e], new[esi].id = es[esi].id,
           NEW labels, LabelsTraced(es, labels),
           NEW rows, LabelsFrom(labels, es[esi], new[esi], rows)
    PROVE  LabelsTraced(new, rows)
<1> SUFFICES ASSUME NEW l \in DOMAIN rows
             PROVE  l # 0 /\ \E e \in DOMAIN new : new[e].id = rows[l] /\ new[e].labelRow = l
  BY DEF LabelsTraced
<1>1. CASE l # 0 /\ l = new[esi].labelRow /\ rows[l] = es[esi].id
  BY <1>1
<1>2. CASE /\ l \in DOMAIN labels /\ rows[l] = labels[l]
           /\ l = es[esi].labelRow => new[esi].labelRow = l
  <2>1. l # 0 /\ \E e \in DOMAIN es : es[e].id = labels[l] /\ es[e].labelRow = l
    BY <1>2 DEF LabelsTraced
  <2>2. PICK e \in DOMAIN es : es[e].id = labels[l] /\ es[e].labelRow = l
    BY <2>1
  <2>3. new[e].id = rows[l] /\ new[e].labelRow = l
    <3>1. CASE e = esi
      BY <1>2, <2>2, <3>1
    <3>2. CASE e # esi
      BY <1>2, <2>2, <3>2
    <3> QED
      BY <3>1, <3>2
  <2> QED
    BY <2>1, <2>3
<1> QED
  BY <1>1, <1>2 DEF LabelsFrom

\* What it puts into each table.
LEMMA StandbysPut ==
    ASSUME NEW esDf, NEW out, NEW rows, NEW room, NEW new, new = Fill(Without(esDf, out), rows, room)
    PROVE  DOMAIN new \subseteq (DOMAIN esDf \ out) \cup DOMAIN rows
<1> DEFINE old == Without(esDf, out)
<1>1. DOMAIN old = DOMAIN esDf \ out
  BY DEF Without
<1> HIDE DEF old
<1> QED
  BY <1>1, FillRows DEF old

LEMMA PeersDropped ==
    ASSUME NEW bits, NEW st, NEW new, new = Dropped(bits, st)
    PROVE  \A a \in DOMAIN new : /\ a \in DOMAIN bits
                                 /\ \A id \in new[a] : id \in bits[a] /\ ~(a \in st.peerRows /\ id = st.id)
<1> DEFINE left(a) == bits[a] \ IF a \in st.peerRows THEN {st.id} ELSE {}
<1>1. \A a \in DOMAIN new : a \in DOMAIN bits /\ new[a] = left(a)
  BY DEF Dropped
<1>2. \A a : \A id \in left(a) : id \in bits[a] /\ ~(a \in st.peerRows /\ id = st.id)
  OBVIOUS
<1> HIDE DEF left
<1> QED
  BY <1>1, <1>2

LEMMA PeersGiven ==
    ASSUME NEW bits, NEW st, NEW new, new = Given(bits, st)
    PROVE  /\ DOMAIN new = st.peers
           /\ \A a \in st.peers : \A id \in new[a] : id = st.id \/ (a \in DOMAIN bits /\ id \in bits[a])
BY DEF Given

LEMMA IncludingRows ==
    ASSUME NEW f, NEW rows, NEW g, g = Including(f, rows)
    PROVE  \A k \in DOMAIN g : \/ k \in DOMAIN rows /\ g[k] = rows[k]
                               \/ k \in DOMAIN f /\ g[k] = f[k]
BY DEF Including

\* The tables and the segments that es_render leaves, when it comes to that.
Rendered(x, esi, y, su) ==
    LET st == x.c.es[esi]
        told == st.ports # {} \/ st.role # None \/ st.peers # {} \/ st.label # 0
    IN  /\ IsEs(su) /\ su.id = st.id /\ su.nhgRow = (st.nhg # None)
        /\ y.c.es = [x.c.es EXCEPT ![esi] = su] /\ y.t.nhg = NhgOf(x.t, st)
        /\ x.c.lostPorts \subseteq y.c.lostPorts /\ x.c.lostPeers \subseteq y.c.lostPeers
        /\ PortsFrom(x.t.portEs, st, su, y.t.portEs, y.c.lostPorts)
        /\ StandbysFrom(x.t.esDf, st, su, y.t.esDf, y.c.lostPorts)
        /\ PeersFrom(x.t.vtepEs, x.c.vtepBits, st, su, y.t.vtepEs, y.c.lostPeers)
        /\ PeersFrom(x.t.vtepEs, x.c.vtepBits, st, su, y.c.vtepBits, y.c.lostPeers)
        /\ LabelsFrom(x.t.esiLabel, st, su, y.t.esiLabel)
        /\ ~told => /\ su.portRows = {} /\ su.dfRows = {} /\ su.peerRows = {}
                    /\ su.labelRow = 0
        /\ DOMAIN y.t = DOMAIN x.t /\ DOMAIN y.c = DOMAIN x.c /\ LeavesSame(x, y)

SetRows(st, df, idx, peers, r, label) ==
    [st EXCEPT !.dfRows = df, !.portRows = idx, !.peerRows = peers, !.nhgRow = r, !.labelRow = label]
LEMMA RowsSet ==
    ASSUME NEW st, IsEs(st), NEW df, NEW idx, NEW peers, NEW r, NEW label,
           NEW su, su = SetRows(st, df, idx, peers, r, label)
    PROVE  /\ IsEs(su) /\ su.id = st.id /\ su.dfRows = df /\ su.portRows = idx
           /\ su.peerRows = peers /\ su.nhgRow = r /\ su.labelRow = label
<1>1. PICK i, a, b, c, d, e, f, g, h, j, l :
         st = [id |-> i, ports |-> a, role |-> b, peers |-> c, nhg |-> d, label |-> e, dfRows |-> f,
               portRows |-> g, peerRows |-> h, nhgRow |-> j, labelRow |-> l]
  BY Zenon DEF IsEs
<1>2. su = [id |-> i, ports |-> a, role |-> b, peers |-> c, nhg |-> d, label |-> e, dfRows |-> df,
            portRows |-> idx, peerRows |-> peers, nhgRow |-> r, labelRow |-> label]
  BY <1>1 DEF SetRows
<1> QED
  BY <1>1, <1>2 DEF IsEs

LEMMA LabelsPut ==
    ASSUME NEW x, NEW st, NEW done, NEW su,
           su.labelRow = IF done /\ LabelFits(x, st) THEN st.label ELSE st.labelRow,
           NEW new, new = IF done THEN LabelsOf(x, st) ELSE x.t.esiLabel
    PROVE  LabelsFrom(x.t.esiLabel, st, su, new)
<1> DEFINE labels == Without(x.t.esiLabel, {st.labelRow})
           more == Including(labels, Row(st.label, st.id))
<1>1. /\ DOMAIN labels = DOMAIN x.t.esiLabel \ {st.labelRow}
      /\ \A l \in DOMAIN labels : labels[l] = x.t.esiLabel[l]
  BY DEF Without
<1> HIDE DEF labels
<1>2. /\ DOMAIN more = DOMAIN labels \cup {st.label} /\ more[st.label] = st.id
      /\ \A l \in DOMAIN labels \ {st.label} : more[l] = labels[l]
  BY DEF Including, Row
<1> HIDE DEF more
<1>3. CASE ~done
  BY <1>3 DEF LabelsFrom
<1>4. CASE done
  <2>1. \/ st.labelRow = st.label /\ new = x.t.esiLabel
        \/ st.labelRow # st.label /\ new = labels
        \/ st.label # 0 /\ LabelFits(x, st) /\ new = more
    BY <1>4 DEF LabelsOf, labels, more
  <2>2. CASE st.labelRow = st.label /\ new = x.t.esiLabel
    <3>1. su.labelRow = st.labelRow
      BY <2>2
    <3> QED
      BY <2>2, <3>1 DEF LabelsFrom
  <2>3. CASE new = labels
    BY <1>1, <2>3 DEF LabelsFrom
  <2>4. CASE st.label # 0 /\ LabelFits(x, st) /\ new = more
    <3>1. su.labelRow = st.label
      BY <1>4, <2>4
    <3> QED
      BY <1>1, <1>2, <2>4, <3>1 DEF LabelsFrom
  <2> QED
    BY <2>1, <2>2, <2>3, <2>4
<1> QED
  BY <1>3, <1>4

LEMMA EsRenderParts ==
    ASSUME NEW x, SegmentsSound(x), NEW esi \in DOMAIN x.c.es,
           NEW st, st = x.c.es[esi], Renderable(x, st), NEW y, y = EsRender(x, esi)
    PROVE  \E su : Rendered(x, esi, y, su)
<1>1. PICK idx, dfs, df, port, peer, bits, given, dfFit, portFit, done, tried, su :
         RenderedAs(x, esi, y, idx, dfs, df, port, peer, bits, given, dfFit, portFit,
                    done, tried, su)
  BY EsRenderForm
<1> DEFINE cap == x.t.cap
           ps == IF dfFit THEN Fill(port, [i \in idx |-> st.id], cap.portEs) ELSE port
           vs == IF portFit THEN Fill(peer, given, cap.vtepEs) ELSE peer
           ls == IF done THEN LabelsOf(x, st) ELSE x.t.esiLabel
           bs == IF done THEN Including(bits, given)
                 ELSE IF portFit THEN Including(bits, [a \in tried |-> given[a]]) ELSE bits
           lp == IF done THEN x.c.lostPorts ELSE x.c.lostPorts \cup idx
           lq == IF done THEN x.c.lostPeers ELSE x.c.lostPeers \cup st.peers
           es == [x.c.es EXCEPT ![esi] = su]
<1>2. /\ idx = {x.c.dev[p] : p \in st.ports} /\ dfs = Standbys(x, st)
      /\ df = Without(x.t.esDf, st.dfRows) /\ port = Without(x.t.portEs, st.portRows)
      /\ peer = Dropped(x.t.vtepEs, st) /\ bits = Dropped(x.c.vtepBits, st)
      /\ given = Given(bits, st) /\ tried \subseteq st.peers
      /\ dfFit = Fits(df, DOMAIN dfs, cap.esDf) /\ portFit = (dfFit /\ Fits(port, idx, cap.portEs))
      /\ done = (portFit /\ Fits(peer, st.peers, cap.vtepEs))
  BY <1>1, Zenon DEF RenderedAs
<1>3. /\ y.t = RenderedTables(x.t, NhgOf(x.t, st), Fill(df, dfs, cap.esDf), ps, vs, ls)
      /\ y.c = RenderedControl(x.c, es, bs, lp, lq)
  BY <1>1, Zenon DEF RenderedAs
<1>4. PICK r : r = (st.nhg # None)
  OBVIOUS
<1>5. PICK d1, d2, d3, d5 :
         /\ d1 = IF done THEN DOMAIN dfs ELSE {}
         /\ d2 = IF done THEN idx ELSE {}
         /\ d3 = IF done THEN st.peers ELSE {}
         /\ d5 = IF done /\ LabelFits(x, st) THEN st.label ELSE st.labelRow
         /\ su = SetRows(st, d1, d2, d3, r, d5)
  BY <1>1, <1>4, Zenon DEF RenderedAs, SetRows
<1>6. IsEs(st)
  BY DEF SegmentsSound, SegmentsTyped
<1>7. /\ IsEs(su) /\ su.id = st.id /\ su.dfRows = d1 /\ su.portRows = d2 /\ su.peerRows = d3
      /\ su.nhgRow = r /\ su.labelRow = d5
  <2>1. su = SetRows(st, d1, d2, d3, r, d5)
    BY <1>5
  <2> QED
    BY <1>6, <2>1, RowsSet
<1> HIDE DEF ps, vs, ls, bs, lp, lq, es
<1>8. /\ y.t.nhg = NhgOf(x.t, st) /\ y.t.esDf = Fill(df, dfs, cap.esDf) /\ y.t.portEs = ps
      /\ y.t.vtepEs = vs /\ y.t.esiLabel = ls
      /\ DOMAIN y.t = DOMAIN x.t /\ y.t.portEtree = x.t.portEtree /\ y.t.ports = x.t.ports
  <2>1. {"nhg", "esDf", "portEs", "vtepEs", "esiLabel", "portEtree", "ports"} \subseteq DOMAIN x.t
    BY DEF SegmentsSound, SegmentFields
  <2> HIDE DEF cap
  <2> QED
    BY <1>3, <2>1 DEF RenderedTables
<1>9. /\ y.c.es = es /\ y.c.vtepBits = bs /\ y.c.lostPorts = lp /\ y.c.lostPeers = lq
      /\ DOMAIN y.c = DOMAIN x.c /\ y.c.leaves = x.c.leaves /\ y.c.etreeRows = x.c.etreeRows
      /\ y.c.unmarked = x.c.unmarked /\ y.c.dev = x.c.dev /\ y.c.next = x.c.next
  <2>1. {"es", "vtepBits", "lostPorts", "lostPeers", "leaves", "etreeRows", "unmarked", "dev", "next"}
           \subseteq DOMAIN x.c
    BY DEF SegmentsSound, SegmentFields, Shape
  <2> QED
    BY <1>3, <2>1 DEF RenderedControl
<1>10. /\ x.c.lostPorts \subseteq lp /\ x.c.lostPeers \subseteq lq
       /\ done => su.portRows = idx /\ su.dfRows = DOMAIN dfs /\ su.peerRows = st.peers
       /\ ~done => idx \subseteq lp /\ st.peers \subseteq lq
  <2>1. CASE done
    <3>1. lp = x.c.lostPorts /\ lq = x.c.lostPeers /\ d1 = DOMAIN dfs /\ d2 = idx /\ d3 = st.peers
      BY <1>5, <2>1 DEF lp, lq
    <3> QED
      BY <1>7, <2>1, <3>1
  <2>2. CASE ~done
    <3>1. lp = x.c.lostPorts \cup idx /\ lq = x.c.lostPeers \cup st.peers
      BY <2>2 DEF lp, lq
    <3> QED
      BY <2>2, <3>1
  <2> QED
    BY <2>1, <2>2
<1>11. PortsFrom(x.t.portEs, st, su, ps, lp)
  <2>1. \A i \in DOMAIN ps : \/ i \in idx /\ ps[i] = st.id
                             \/ i \in DOMAIN x.t.portEs \ st.portRows /\ ps[i] = x.t.portEs[i]
    <3>1. /\ DOMAIN port = DOMAIN x.t.portEs \ st.portRows
          /\ \A i \in DOMAIN port : port[i] = x.t.portEs[i]
      BY <1>2 DEF Without
    <3>2. PICK rows : rows = [i \in idx |-> st.id]
      OBVIOUS
    <3>3. DOMAIN rows = idx /\ \A i \in idx : rows[i] = st.id
      BY <3>2
    <3>4. ps = port \/ ps = Fill(port, rows, cap.portEs)
      BY <3>2, Zenon DEF ps
    <3>5. CASE ps = port
      BY <3>1, <3>5
    <3>6. CASE ps = Fill(port, rows, cap.portEs)
      <4>1. PICK room : ps = Fill(port, rows, room)
        BY <3>6
      <4>2. \A i \in DOMAIN ps : (i \in DOMAIN rows /\ ps[i] = rows[i]) \/ (i \in DOMAIN port /\ ps[i] = port[i])
        BY <4>1, FillRows
      <4> QED
        BY <3>1, <3>3, <4>2
    <3> QED
      BY <3>4, <3>5, <3>6
  <2> QED
    BY <1>10, <2>1 DEF PortsFrom
<1>12. DOMAIN dfs \subseteq idx /\ (st.ports = {} => idx = {})
  <2>1. DOMAIN Standbys(x, st) = IF st.role # None /\ ~st.role.df THEN {x.c.dev[p] : p \in st.ports} ELSE {}
    BY DEF Standbys
  <2> QED
    BY <1>2, <2>1
<1>13. StandbysFrom(x.t.esDf, st, su, y.t.esDf, lp)
  <2>1. DOMAIN y.t.esDf \subseteq (DOMAIN x.t.esDf \ st.dfRows) \cup DOMAIN dfs
    <3>1. y.t.esDf = Fill(Without(x.t.esDf, st.dfRows), dfs, cap.esDf)
      BY <1>2, <1>8
    <3> HIDE DEF cap
    <3> QED
      BY <3>1, StandbysPut
  <2> QED
    BY <1>10, <1>12, <2>1 DEF StandbysFrom
<1> DEFINE from(a, id) == /\ ~(a \in st.peerRows /\ id = st.id)
                          /\ \/ a \in DOMAIN x.t.vtepEs /\ id \in x.t.vtepEs[a]
                             \/ a \in DOMAIN x.c.vtepBits /\ id \in x.c.vtepBits[a]
<1>14. /\ \A a \in DOMAIN peer : \A id \in peer[a] : from(a, id)
       /\ \A a \in DOMAIN bits : \A id \in bits[a] : from(a, id)
  BY <1>2, PeersDropped
<1>15. /\ DOMAIN given = st.peers
       /\ \A a \in st.peers : \A id \in given[a] : id = st.id \/ from(a, id)
  <2>1. /\ DOMAIN given = st.peers
        /\ \A a \in st.peers : \A id \in given[a] : id = st.id \/ (a \in DOMAIN bits /\ id \in bits[a])
    BY <1>2, PeersGiven
  <2> HIDE DEF from
  <2> QED
    BY <1>14, <2>1
<1> HIDE DEF from
<1>16. \A a \in DOMAIN vs : \A id \in vs[a] : from(a, id) \/ (a \in st.peers /\ id = st.id)
  <2>1. CASE portFit
    <3>1. vs = Fill(peer, given, cap.vtepEs)
      BY <2>1 DEF vs
    <3>2. \A a \in DOMAIN vs : (a \in DOMAIN given /\ vs[a] = given[a]) \/ (a \in DOMAIN peer /\ vs[a] = peer[a])
      <4> HIDE DEF cap
      <4> QED
        BY <3>1, FillRows
    <3> QED
      BY <1>14, <1>15, <3>2
  <2>2. CASE ~portFit
    BY <1>14, <2>2 DEF vs
  <2> QED
    BY <2>1, <2>2
<1>17. \A a \in DOMAIN bs : \A id \in bs[a] : from(a, id) \/ (a \in st.peers /\ id = st.id)
  <2> DEFINE part == [a \in tried |-> given[a]]
  <2>1. DOMAIN part = tried /\ \A a \in tried : part[a] = given[a]
    OBVIOUS
  <2> HIDE DEF part
  <2>2. \/ bs = bits \/ bs = Including(bits, given) \/ bs = Including(bits, part)
    BY DEF bs, part
  <2>3. CASE bs = bits
    BY <1>14, <2>3
  <2>4. CASE bs = Including(bits, given)
    <3>1. \A a \in DOMAIN bs : (a \in DOMAIN given /\ bs[a] = given[a]) \/ (a \in DOMAIN bits /\ bs[a] = bits[a])
      BY <2>4, IncludingRows
    <3> QED
      BY <1>14, <1>15, <3>1
  <2>5. CASE bs = Including(bits, part)
    <3>1. \A a \in DOMAIN bs : (a \in DOMAIN part /\ bs[a] = part[a]) \/ (a \in DOMAIN bits /\ bs[a] = bits[a])
      BY <2>5, IncludingRows
    <3>2. \A a \in DOMAIN part : a \in st.peers /\ part[a] = given[a]
      BY <1>2, <2>1
    <3> QED
      BY <1>14, <1>15, <3>1, <3>2
  <2> QED
    BY <2>2, <2>3, <2>4, <2>5
<1>18. /\ PeersFrom(x.t.vtepEs, x.c.vtepBits, st, su, vs, lq)
       /\ PeersFrom(x.t.vtepEs, x.c.vtepBits, st, su, bs, lq)
  <2>1. PeersFrom(x.t.vtepEs, x.c.vtepBits, st, su, vs, lq)
    BY <1>10, <1>16 DEF PeersFrom, from
  <2>2. PeersFrom(x.t.vtepEs, x.c.vtepBits, st, su, bs, lq)
    BY <1>10, <1>17 DEF PeersFrom, from
  <2> QED
    BY <2>1, <2>2
<1>19. LabelsFrom(x.t.esiLabel, st, su, ls)
  BY <1>5, <1>7, LabelsPut, Zenon DEF ls
<1>20. ASSUME st.ports = {}, st.role = None, st.peers = {}, st.label = 0
       PROVE  su.portRows = {} /\ su.dfRows = {} /\ su.peerRows = {} /\ su.labelRow = 0
  <2>1. idx = {} /\ DOMAIN dfs = {}
    BY <1>12, <1>20
  <2>2. \A f, room : Fits(f, {}, room)
    BY DEF Fits
  <2>3. dfFit
    BY <1>2, <2>1, <2>2, Zenon
  <2>4. portFit
    BY <1>2, <2>1, <2>2, <2>3, Zenon
  <2>5. done
    BY <1>2, <1>20, <2>2, <2>4, Zenon
  <2>6. LabelFits(x, st)
    BY <1>20 DEF LabelFits
  <2> QED
    BY <1>5, <1>7, <1>10, <1>20, <2>1, <2>5, <2>6
<1>21. Rendered(x, esi, y, su)
  <2>1. /\ IsEs(su) /\ su.id = st.id /\ su.nhgRow = (st.nhg # None)
    BY <1>4, <1>7, Zenon
  <2>2. y.c.es = [x.c.es EXCEPT ![esi] = su] /\ LeavesSame(x, y)
    BY <1>8, <1>9 DEF es, LeavesSame
  <2> QED
    BY <1>8, <1>9, <1>10, <1>11, <1>13, <1>18, <1>19, <1>20, <2>1, <2>2, Zenon DEF Rendered
<1> QED
  BY <1>21

LEMMA EsRenderSound ==
    ASSUME NEW x, SegmentsSound(x), NEW esi \in DOMAIN x.c.es, NEW y, y = EsRender(x, esi)
    PROVE  SegmentsSound(y) /\ LeavesSame(x, y)
<1> DEFINE st == x.c.es[esi]
           es == x.c.es
           new == y.c.es
<1>1. CASE ~Renderable(x, st)
  BY <1>1 DEF EsRender, LeavesSame
<1>2. CASE Renderable(x, st)
  <2>1. PICK su : Rendered(x, esi, y, su)
    BY <1>2, EsRenderParts
  <2>2. /\ SegmentsTyped(new) /\ DOMAIN new = DOMAIN es /\ new[esi] = su
        /\ \A e \in DOMAIN es \ {esi} : new[e] = es[e] /\ new[esi].id = es[esi].id
    BY <2>1, ToldTyped DEF SegmentsSound, Rendered
  <2>3. /\ SegmentsTyped(es) /\ Traced(es, x.t, x.c) /\ esi \in DOMAIN es
        /\ new[esi].id = es[esi].id /\ new[esi].nhgRow = (es[esi].nhg # None)
        /\ x.c.lostPorts \subseteq y.c.lostPorts /\ x.c.lostPeers \subseteq y.c.lostPeers
    BY <2>1, <2>2 DEF SegmentsSound, Rendered
  <2>4. /\ PortsFrom(x.t.portEs, es[esi], new[esi], y.t.portEs, y.c.lostPorts)
        /\ StandbysFrom(x.t.esDf, es[esi], new[esi], y.t.esDf, y.c.lostPorts)
        /\ PeersFrom(x.t.vtepEs, x.c.vtepBits, es[esi], new[esi], y.t.vtepEs, y.c.lostPeers)
        /\ PeersFrom(x.t.vtepEs, x.c.vtepBits, es[esi], new[esi], y.c.vtepBits, y.c.lostPeers)
        /\ LabelsFrom(x.t.esiLabel, es[esi], new[esi], y.t.esiLabel)
        /\ y.t.nhg = NhgOf(x.t, es[esi])
    BY <2>1, <2>2 DEF Rendered
  <2> HIDE DEF es, new
  <2>5. PortsTraced(new, y.t.portEs, y.c.lostPorts)
    BY <2>2, <2>3, <2>4, PortsRendered DEF Traced
  <2>6. StandbysTraced(new, y.t.esDf, y.c.lostPorts)
    BY <2>2, <2>3, <2>4, StandbysRendered DEF Traced
  <2>7. PeersTraced(new, y.t.vtepEs, y.c.lostPeers) /\ PeersTraced(new, y.c.vtepBits, y.c.lostPeers)
    BY <2>2, <2>3, <2>4, PeersRendered DEF Traced
  <2>8. GroupsTraced(new, y.t.nhg)
    BY <2>2, <2>3, <2>4, GroupsRendered DEF Traced
  <2>9. LabelsTraced(new, y.t.esiLabel)
    BY <2>2, <2>3, <2>4, LabelsRendered DEF Traced
  <2>10. Shape(y) /\ SegmentFields(y) /\ LeavesSame(x, y)
    <3>1. Kept(x, EsRender(x, esi))
      BY EsRenderKept DEF SegmentsSound
    <3>2. Shape(y)
      BY <3>1 DEF Kept
    <3> QED
      BY <2>1, <3>2 DEF SegmentsSound, SegmentFields, Rendered
  <2> QED
    BY <2>2, <2>5, <2>6, <2>7, <2>8, <2>9, <2>10 DEF SegmentsSound, Traced, new
<1> QED
  BY <1>1, <1>2

\* A call that changes one thing of a segment, made if it is new.
LEMMA ToldSound ==
    ASSUME NEW x, SegmentsSound(x), NEW esi \in DOMAIN x.c.es, NEW su, SameRows(x.c.es[esi], su),
           NEW y, y.t = x.t, Shape(y), y.c = [x.c EXCEPT !.es[esi] = su]
    PROVE  SegmentsSound(y) /\ LeavesSame(x, y) /\ DOMAIN y.c.es = DOMAIN x.c.es /\ y.c.es[esi] = su
<1>1. /\ y.c.es = [x.c.es EXCEPT ![esi] = su] /\ DOMAIN y.c = DOMAIN x.c /\ LostSame(x.c, y.c)
      /\ y.c.leaves = x.c.leaves /\ y.c.etreeRows = x.c.etreeRows /\ y.c.dev = x.c.dev
      /\ y.c.unmarked = x.c.unmarked /\ y.c.next = x.c.next
  <2>1. {"es", "vtepBits", "lostPorts", "lostPeers", "leaves", "etreeRows", "unmarked", "dev", "next"}
           \subseteq DOMAIN x.c
    BY DEF SegmentsSound, SegmentFields, Shape
  <2> QED
    BY <2>1 DEF LostSame
<1>2. SegmentsTyped(y.c.es) /\ Traced(y.c.es, x.t, y.c)
  BY <1>1, ToldTraced DEF SegmentsSound
<1>3. SegmentFields(y)
  BY <1>1 DEF SegmentsSound, SegmentFields
<1> QED
  BY <1>1, <1>2, <1>3 DEF SegmentsSound, LeavesSame

LEMMA EsEntrySound ==
    ASSUME NEW x, SegmentsSound(x), NEW esi, NEW c, c = EsEntry(x.c, esi), c # None,
           NEW y, y = [x EXCEPT !.c = c]
    PROVE  SegmentsSound(y) /\ LeavesSame(x, y) /\ y.t = x.t /\ y.c = c /\ esi \in DOMAIN c.es
<1>1. Shape(x) /\ SegmentFields(x) /\ SegmentsTyped(x.c.es) /\ Traced(x.c.es, x.t, x.c)
  BY DEF SegmentsSound
<1>2. y.t = x.t /\ y.c = c
  BY <1>1 DEF Shape
<1>3. Shape(y)
  BY <1>1, EsEntryKept DEF Kept
<1>4. Grown(x.c.es, c.es) /\ esi \in DOMAIN c.es
  BY <1>1, EsEntryGrows DEF Shape, SegmentFields
<1>5. c = x.c \/ \E v : c = [x.c EXCEPT !.es = v]
  BY DEF EsEntry
<1>6. /\ DOMAIN c = DOMAIN x.c /\ c.leaves = x.c.leaves /\ c.etreeRows = x.c.etreeRows
      /\ c.dev = x.c.dev /\ c.unmarked = x.c.unmarked /\ c.next = x.c.next /\ LostSame(x.c, c)
  <2>1. {"es", "vtepBits", "lostPorts", "lostPeers", "leaves", "etreeRows", "unmarked", "dev", "next"}
           \subseteq DOMAIN x.c
    BY <1>1 DEF SegmentFields, Shape
  <2> QED
    BY <1>5, <2>1 DEF LostSame
<1>7. SegmentsTyped(c.es) /\ Traced(c.es, x.t, c)
  BY <1>1, <1>4, <1>6, GrownTraced DEF Grown
<1> QED
  BY <1>1, <1>2, <1>3, <1>4, <1>6, <1>7 DEF SegmentsSound, SegmentFields, LeavesSame

LEMMA WithEsSound ==
    ASSUME NEW x, SegmentsSound(x), NEW esi, NEW c, c = EsEntry(x.c, esi), c # None,
           NEW su, SameRows(c.es[esi], su),
           NEW y, y = EsRender([x EXCEPT !.c = [c EXCEPT !.es[esi] = su]], esi)
    PROVE  SegmentsSound(y) /\ LeavesSame(x, y)
<1> DEFINE u == [x EXCEPT !.c = c]
           v == [x EXCEPT !.c = [c EXCEPT !.es[esi] = su]]
<1>1. SegmentsSound(u) /\ LeavesSame(x, u) /\ u.t = x.t /\ u.c = c /\ esi \in DOMAIN c.es
  BY EsEntrySound
<1>2. Shape(x)
  BY DEF SegmentsSound
<1>3. v.t = x.t /\ v.c = [c EXCEPT !.es[esi] = su]
  BY <1>2 DEF Shape
<1>4. v = [u EXCEPT !.c.es[esi] = su]
  BY <1>2 DEF Shape
<1>5. Shape(v)
  BY <1>1, <1>4, SegmentKept DEF Kept, SegmentsSound
<1> HIDE DEF u, v
<1>6. SegmentsSound(v) /\ LeavesSame(u, v) /\ DOMAIN v.c.es = DOMAIN c.es
  BY <1>1, <1>3, <1>5, ToldSound
<1>7. SegmentsSound(y) /\ LeavesSame(v, y)
  BY <1>1, <1>6, EsRenderSound DEF v
<1> QED
  BY <1>1, <1>6, <1>7 DEF LeavesSame

\* What a call tells is none of the rows.
ToldPorts(st, a, b) == [st EXCEPT !.ports = a, !.label = b]
ToldRole(st, a) == [st EXCEPT !.role = a]
ToldPeers(st, a) == [st EXCEPT !.peers = a]
ToldNhg(st, a) == [st EXCEPT !.nhg = a]
ToldNothing(st) ==
    [st EXCEPT !.ports = {}, !.role = None, !.peers = {}, !.nhg = None, !.label = 0]
LEMMA ToldRows ==
    ASSUME NEW st, IsEs(st), NEW a, NEW b
    PROVE  /\ SameRows(st, ToldPorts(st, a, b)) /\ SameRows(st, ToldRole(st, a))
           /\ SameRows(st, ToldPeers(st, a)) /\ SameRows(st, ToldNhg(st, a))
           /\ SameRows(st, ToldNothing(st))
<1>1. PICK i, p, o, q, n, l, d1, d2, d3, d4, d5 :
         st = [id |-> i, ports |-> p, role |-> o, peers |-> q, nhg |-> n, label |-> l,
               dfRows |-> d1, portRows |-> d2, peerRows |-> d3, nhgRow |-> d4, labelRow |-> d5]
  BY Zenon DEF IsEs
<1> DEFINE R(v, w, y, x, z) ==
             [id |-> i, ports |-> v, role |-> w, peers |-> y, nhg |-> x, label |-> z,
              dfRows |-> d1, portRows |-> d2, peerRows |-> d3, nhgRow |-> d4, labelRow |-> d5]
<1>2. ASSUME NEW v, NEW w, NEW y, NEW x, NEW z, NEW su, su = R(v, w, y, x, z)
      PROVE  SameRows(st, su)
  BY <1>1, <1>2 DEF SameRows, IsEs
<1>3. ToldPorts(st, a, b) = R(a, o, q, n, b)
  <2>1. PICK su : su = ToldPorts(st, a, b)
    OBVIOUS
  <2>2. su = R(a, o, q, n, b)
    BY <1>1, <2>1 DEF ToldPorts
  <2> QED
    BY <2>1, <2>2
<1>4. ToldRole(st, a) = R(p, a, q, n, l)
  BY <1>1 DEF ToldRole
<1>5. ToldPeers(st, a) = R(p, o, a, n, l)
  BY <1>1 DEF ToldPeers
<1>6. ToldNhg(st, a) = R(p, o, q, a, l)
  BY <1>1 DEF ToldNhg
<1>7. ToldNothing(st) = R({}, None, {}, None, 0)
  <2>1. PICK su : su = ToldNothing(st)
    OBVIOUS
  <2>2. su = R({}, None, {}, None, 0)
    BY <1>1, <2>1 DEF ToldNothing
  <2> QED
    BY <2>1, <2>2
<1> HIDE DEF R
<1> QED
  BY <1>2, <1>3, <1>4, <1>5, <1>6, <1>7

LEMMA SegmentCallsSound ==
    ASSUME NEW x, SegmentsSound(x), NEW k
    PROVE  /\ SegmentsSound(SetSegment(x, k)) /\ LeavesSame(x, SetSegment(x, k))
           /\ SegmentsSound(SetRole(x, k)) /\ LeavesSame(x, SetRole(x, k))
           /\ SegmentsSound(SetPeers(x, k)) /\ LeavesSame(x, SetPeers(x, k))
           /\ SegmentsSound(SetNhg(x, k)) /\ LeavesSame(x, SetNhg(x, k))
<1> DEFINE c == EsEntry(x.c, k.esi)
           st == c.es[k.esi]
           told(su) == EsRender([x EXCEPT !.c = [c EXCEPT !.es[k.esi] = su]], k.esi)
           nhg == IF k.members = <<>> THEN None ELSE [sa |-> k.sa, members |-> k.members]
<1>1. LeavesSame(x, x)
  BY DEF LeavesSame
<1>2. CASE c = None
  BY <1>1, <1>2 DEF SetSegment, SetRole, SetPeers, SetNhg, WithEs
<1>3. CASE c # None
  <2>1. /\ SetSegment(x, k) = told(ToldPorts(st, k.ports, k.label))
        /\ SetRole(x, k) = told(ToldRole(st, [df |-> k.df, sa |-> k.sa]))
        /\ SetPeers(x, k) = told(ToldPeers(st, k.peers))
        /\ SetNhg(x, k) = told(ToldNhg(st, nhg))
    BY <1>3 DEF SetSegment, SetRole, SetPeers, SetNhg, WithEs, ToldPorts, ToldRole, ToldPeers, ToldNhg
  <2>2. IsEs(st)
    <3>1. IsFcn(x.c) /\ "es" \in DOMAIN x.c /\ SegmentsTyped(x.c.es)
      BY DEF SegmentsSound, Shape, SegmentFields
    <3> QED
      BY <1>3, <3>1, EsEntryGrows DEF Grown, SegmentsTyped
  <2>3. ASSUME NEW su, SameRows(st, su) PROVE SegmentsSound(told(su)) /\ LeavesSame(x, told(su))
    <3> HIDE DEF c
    <3>1. c = EsEntry(x.c, k.esi)
      BY DEF c
    <3> QED
      BY <1>3, <2>3, <3>1, WithEsSound
  <2> HIDE DEF c, st, told, nhg
  <2> QED
    BY <2>1, <2>2, <2>3, ToldRows
<1> QED
  BY <1>2, <1>3

\* del_ethernet_segment: a segment that is told nothing has no row left, and goes.
LEMMA ToldNothingFields ==
    ASSUME NEW st, IsEs(st), NEW su, su = ToldNothing(st)
    PROVE  su.ports = {} /\ su.role = None /\ su.peers = {} /\ su.nhg = None /\ su.label = 0
<1>1. PICK i, p, o, q, n, l, d1, d2, d3, d4, d5 :
         st = [id |-> i, ports |-> p, role |-> o, peers |-> q, nhg |-> n, label |-> l,
               dfRows |-> d1, portRows |-> d2, peerRows |-> d3, nhgRow |-> d4, labelRow |-> d5]
  BY Zenon DEF IsEs
<1> QED
  BY <1>1 DEF ToldNothing

LEMMA RowlessGone ==
    ASSUME NEW es, SegmentsTyped(es), NEW t, NEW c, Traced(es, t, c), NEW d, LostSame(c, d),
           NEW esi \in DOMAIN es,
           es[esi].portRows = {}, es[esi].dfRows = {}, es[esi].peerRows = {},
           es[esi].nhgRow = FALSE, es[esi].labelRow = 0
    PROVE  SegmentsTyped(Without(es, {esi})) /\ Traced(Without(es, {esi}), t, d)
<1> DEFINE left == Without(es, {esi})
<1>1. /\ IsFcn(left) /\ DOMAIN left = DOMAIN es \ {esi}
      /\ \A e \in DOMAIN left : left[e] = es[e]
  BY DEF Without, IsFcn
<1> HIDE DEF left
<1>2. SegmentsTyped(left)
  BY <1>1 DEF SegmentsTyped
<1>3. PortsTraced(left, t.portEs, d.lostPorts) /\ StandbysTraced(left, t.esDf, d.lostPorts)
  BY <1>1 DEF Traced, PortsTraced, StandbysTraced, LostSame
<1>4. PeersTraced(left, t.vtepEs, d.lostPeers) /\ PeersTraced(left, d.vtepBits, d.lostPeers)
  BY <1>1 DEF Traced, PeersTraced, LostSame
<1>5. GroupsTraced(left, t.nhg)
  BY <1>1 DEF Traced, GroupsTraced
<1>6. LabelsTraced(left, t.esiLabel)
  BY <1>1 DEF Traced, LabelsTraced
<1> QED
  BY <1>2, <1>3, <1>4, <1>5, <1>6 DEF Traced, left

LEMMA DelSegmentSound ==
    ASSUME NEW x, SegmentsSound(x), NEW k
    PROVE  SegmentsSound(DelSegment(x, k)) /\ LeavesSame(x, DelSegment(x, k))
<1>1. CASE k.esi \notin DOMAIN x.c.es
  BY <1>1 DEF DelSegment, LeavesSame
<1>2. CASE k.esi \in DOMAIN x.c.es
  <2> DEFINE esi == k.esi
             st == x.c.es[esi]
             su == ToldNothing(st)
             u == [x EXCEPT !.c.es[esi] = su]
             z == EsRender(u, esi)
             y == [z EXCEPT !.c.es = Without(@, {esi})]
  <2>1. DelSegment(x, k) = y
    BY <1>2 DEF DelSegment, ToldNothing
  <2>2. IsEs(st) /\ Shape(x) /\ esi \in DOMAIN x.c.es
    BY <1>2 DEF SegmentsSound, SegmentsTyped
  <2>3. SameRows(st, su)
    BY <2>2, ToldRows
  <2>4. su.ports = {} /\ su.role = None /\ su.peers = {} /\ su.nhg = None /\ su.label = 0
    BY <2>2, ToldNothingFields
  <2> HIDE DEF su, esi
  <2>5. u.t = x.t /\ u.c = [x.c EXCEPT !.es[esi] = su] /\ Shape(u)
    <3>1. Shape(u)
      BY <2>2, SegmentKept DEF Kept
    <3> QED
      BY <2>2, <3>1 DEF Shape
  <2> HIDE DEF u
  <2>6. /\ SegmentsSound(u) /\ LeavesSame(x, u) /\ DOMAIN u.c.es = DOMAIN x.c.es
        /\ u.c.es[esi] = su
    BY <2>2, <2>3, <2>5, ToldSound
  <2>7. SegmentsSound(z) /\ LeavesSame(u, z)
    BY <2>2, <2>6, EsRenderSound
  <2>8. Renderable(u, su)
    BY <2>4 DEF Renderable
  <2>9. \E sv : Rendered(u, esi, z, sv)
    <3> DEFINE w == u.c.es[esi]
    <3>1. Renderable(u, w) /\ esi \in DOMAIN u.c.es
      BY <2>2, <2>6, <2>8
    <3> HIDE DEF w, z
    <3> QED
      BY <2>6, <3>1, EsRenderParts DEF w, z
  <2>10. PICK sv : Rendered(u, esi, z, sv)
    BY <2>9
  <2>11. /\ sv.portRows = {} /\ sv.dfRows = {} /\ sv.peerRows = {} /\ sv.labelRow = 0
         /\ sv.nhgRow = FALSE
    <3>1. sv.portRows = {} /\ sv.dfRows = {} /\ sv.peerRows = {} /\ sv.labelRow = 0
      BY <2>4, <2>6, <2>10 DEF Rendered
    <3>2. sv.nhgRow = (su.nhg # None)
      BY <2>6, <2>10, Zenon DEF Rendered
    <3>3. (su.nhg # None) = FALSE
      BY <2>4
    <3> QED
      BY <3>1, <3>2, <3>3
  <2> HIDE DEF z
  <2>12. DOMAIN z.c.es = DOMAIN x.c.es /\ z.c.es[esi] = sv
    BY <2>2, <2>6, <2>10 DEF Rendered
  <2>13. ASSUME NEW d, LostSame(z.c, d)
         PROVE  /\ SegmentsTyped(Without(z.c.es, {esi})) /\ Traced(Without(z.c.es, {esi}), z.t, d)
    BY <2>2, <2>7, <2>11, <2>12, <2>13, RowlessGone DEF SegmentsSound
  <2>14. \A v : LET w == [z EXCEPT !.c.es = v]
                IN  /\ Shape(w) /\ w.t = z.t /\ w.c.es = v /\ SegmentFields(w) /\ LeavesSame(z, w)
                    /\ LostSame(z.c, w.c)
    <3>1. Shape(z) /\ SegmentFields(z)
      BY <2>7 DEF SegmentsSound
    <3>2. \A v : Shape([z EXCEPT !.c.es = v])
      BY <3>1, SegmentsKept DEF Kept
    <3>3. \A v : LET w == [z EXCEPT !.c.es = v]
                 IN  w.t = z.t /\ w.c = [z.c EXCEPT !.es = v]
      BY <3>1 DEF Shape
    <3>4. {"es", "vtepBits", "lostPorts", "lostPeers", "leaves", "etreeRows", "unmarked", "dev", "next"}
             \subseteq DOMAIN z.c
      BY <3>1 DEF SegmentFields, Shape
    <3> QED
      BY <3>1, <3>2, <3>3, <3>4 DEF SegmentFields, LeavesSame, LostSame
  <2>15. SegmentsSound(y) /\ LeavesSame(z, y)
    <3> DEFINE v == Without(z.c.es, {esi})
               w == [z EXCEPT !.c.es = v]
    <3>1. y = w
      OBVIOUS
    <3>2. /\ Shape(w) /\ w.t = z.t /\ w.c.es = v /\ SegmentFields(w) /\ LeavesSame(z, w)
          /\ LostSame(z.c, w.c)
      BY <2>14
    <3> HIDE DEF w
    <3> QED
      BY <2>13, <3>1, <3>2 DEF SegmentsSound
  <2> QED
    BY <2>1, <2>6, <2>7, <2>15 DEF LeavesSame
<1> QED
  BY <1>1, <1>2

----------------------------------------------------------------------------
(***************************************************************************)
(* Calls that are not about segments: slots make them, others leave them.  *)
(***************************************************************************)
SegmentsSame(x, y) ==
    /\ Shape(y) /\ SegmentFields(y) /\ y.c.es = x.c.es /\ LostSame(x.c, y.c)
    /\ y.t.nhg = x.t.nhg /\ y.t.esDf = x.t.esDf /\ y.t.portEs = x.t.portEs
    /\ y.t.vtepEs = x.t.vtepEs /\ y.t.esiLabel = x.t.esiLabel
Aside(x, y) == SegmentsSame(x, y) /\ LeavesSame(x, y)

LEMMA AsideSound ==
    ASSUME NEW x, SegmentsSound(x), NEW y, Aside(x, y)
    PROVE  SegmentsSound(y) /\ LeavesSame(x, y)
BY DEF Aside, SegmentsSame, SegmentsSound, Traced, LostSame

LEMMA AsideTwice ==
    ASSUME NEW x, NEW y, NEW z, Aside(x, y), Aside(y, z)
    PROVE  Aside(x, z)
BY DEF Aside, SegmentsSame, LeavesSame, LostSame

\* The fields that other calls write.
LEMMA TablesAside ==
    ASSUME NEW x, Shape(x), SegmentFields(x)
    PROVE  /\ \A v : Aside(x, [x EXCEPT !.t.leafLabels = v])
           /\ \A v : Aside(x, [x EXCEPT !.t.leafArgs = v])
           /\ \A v : Aside(x, [x EXCEPT !.t.fdb = v])
           /\ \A v : Aside(x, [x EXCEPT !.t.replSid = v])
           /\ \A v : Aside(x, [x EXCEPT !.t = [x.t EXCEPT !.members = v]])
           /\ \A v : Aside(x, [x EXCEPT !.t = [x.t EXCEPT !.slotEs = v]])
           /\ \A v : Aside(x, [x EXCEPT !.t = [x.t EXCEPT !.vtepEtree = v]])
           /\ \A v : Aside(x, [x EXCEPT !.t = [x.t EXCEPT !.replSid = v]])
           /\ Aside(x, x)
BY DEF Shape, SegmentFields, Aside, SegmentsSame, LeavesSame, LostSame, IsFcn

LEMMA ControlsAside ==
    ASSUME NEW x, Shape(x), SegmentFields(x)
    PROVE  /\ \A v : Aside(x, [x EXCEPT !.c.leafLabel = v])
           /\ \A v : Aside(x, [x EXCEPT !.c.leafArg = v])
           /\ \A v : Aside(x, [x EXCEPT !.c.slots = v])
           /\ \A v : Aside(x, [x EXCEPT !.c.remotes = v])
BY DEF Shape, SegmentFields, Aside, SegmentsSame, LeavesSame, LostSame, IsFcn

LEMMA PlainCallsAside ==
    ASSUME NEW x, Shape(x), SegmentFields(x), NEW k
    PROVE  /\ Aside(x, SetLeafLabel(x, k)) /\ Aside(x, SetLeafArg(x, k))
           /\ \A m, e : Aside(x, FdbOverlayAdd(x, m, e))
           /\ Aside(x, AddFdbRemote(x, k)) /\ Aside(x, AddFdbLocal(x, k))
           /\ Aside(x, DelFdbRemote(x, k)) /\ Aside(x, SetL2Domain(x, k))
           /\ \A a, b, target : Aside(x, ReplTargetAdd(x, a, b, target))
<1>1. Aside(x, SetLeafLabel(x, k))
  <2> DEFINE v == (x.t.leafLabels \ {x.c.leafLabel}) \cup ({k.label} \ {0})
             y == [x EXCEPT !.t.leafLabels = v]
  <2>1. SetLeafLabel(x, k) = [y EXCEPT !.c.leafLabel = k.label]
    BY DEF SetLeafLabel
  <2> HIDE DEF v
  <2>2. Aside(x, y)
    BY TablesAside
  <2> HIDE DEF y
  <2>3. Aside(y, [y EXCEPT !.c.leafLabel = k.label])
    BY <2>2, ControlsAside DEF Aside, SegmentsSame
  <2> QED
    BY <2>1, <2>2, <2>3, AsideTwice
<1>2. Aside(x, SetLeafArg(x, k))
  <2> DEFINE v == (x.t.leafArgs \ {x.c.leafArg}) \cup ({k.arg} \ {0})
             y == [x EXCEPT !.t.leafArgs = v]
  <2>1. SetLeafArg(x, k) = [y EXCEPT !.c.leafArg = k.arg]
    BY DEF SetLeafArg
  <2> HIDE DEF v
  <2>2. Aside(x, y)
    BY TablesAside
  <2> HIDE DEF y
  <2>3. Aside(y, [y EXCEPT !.c.leafArg = k.arg])
    BY <2>2, ControlsAside DEF Aside, SegmentsSame
  <2> QED
    BY <2>1, <2>2, <2>3, AsideTwice
<1>3. \A m, e : Aside(x, FdbOverlayAdd(x, m, e))
  BY TablesAside DEF FdbOverlayAdd
<1>4. Aside(x, AddFdbLocal(x, k)) /\ Aside(x, DelFdbRemote(x, k))
  BY TablesAside DEF AddFdbLocal, DelFdbRemote
<1>5. Aside(x, SetL2Domain(x, k))
  <2>1. \A v : Aside(x, [x EXCEPT !.t.members = v])
    BY DEF Shape, SegmentFields, Aside, SegmentsSame, LeavesSame, LostSame, IsFcn
  <2> QED
    BY <2>1, TablesAside DEF SetL2Domain
<1>6. \A a, b, target : Aside(x, ReplTargetAdd(x, a, b, target))
  BY TablesAside DEF ReplTargetAdd
<1> QED
  BY <1>1, <1>2, <1>3, <1>4, <1>5, <1>6 DEF AddFdbRemote

LEMMA SlotTablesAside ==
    ASSUME NEW x, Shape(x), SegmentFields(x), NEW idx, NEW rows
    PROVE  /\ Aside(x, [x EXCEPT !.t = L2MemberAdd(x.t, idx)])
           /\ Aside(x, [x EXCEPT !.t = L2MemberRemove(x.t, idx)])
           /\ Aside(x, [x EXCEPT !.t = SlotEsSet(x.t, rows)])
<1>1. [x EXCEPT !.t = x.t] = x
  BY DEF Shape
<1>2. \/ L2MemberAdd(x.t, idx) = x.t
      \/ \E v : L2MemberAdd(x.t, idx) = [x.t EXCEPT !.members = v]
  BY DEF L2MemberAdd
<1>3. \/ L2MemberRemove(x.t, idx) = x.t
      \/ \E v : L2MemberRemove(x.t, idx) = [x.t EXCEPT !.members = v]
  BY DEF L2MemberRemove
<1>4. \E v : SlotEsSet(x.t, rows) = [x.t EXCEPT !.slotEs = v]
  BY DEF SlotEsSet
<1>5. Aside(x, x) /\ \A v : Aside(x, [x EXCEPT !.t = [x.t EXCEPT !.members = v]])
  BY TablesAside
<1>6. \A v : Aside(x, [x EXCEPT !.t = [x.t EXCEPT !.slotEs = v]])
  BY TablesAside
<1>7. Aside(x, [x EXCEPT !.t = L2MemberAdd(x.t, idx)])
  <2> DEFINE u == L2MemberAdd(x.t, idx)
  <2> HIDE DEF u
  <2>1. CASE u = x.t
    BY <1>1, <1>5, <2>1 DEF u
  <2>2. CASE \E v : u = [x.t EXCEPT !.members = v]
    BY <1>5, <2>2 DEF u
  <2> QED
    BY <1>2, <2>1, <2>2 DEF u
<1>8. Aside(x, [x EXCEPT !.t = L2MemberRemove(x.t, idx)])
  <2> DEFINE u == L2MemberRemove(x.t, idx)
  <2> HIDE DEF u
  <2>1. CASE u = x.t
    BY <1>1, <1>5, <2>1 DEF u
  <2>2. CASE \E v : u = [x.t EXCEPT !.members = v]
    BY <1>5, <2>2 DEF u
  <2> QED
    BY <1>3, <2>1, <2>2 DEF u
<1>9. Aside(x, [x EXCEPT !.t = SlotEsSet(x.t, rows)])
  BY <1>4, <1>6
<1> QED
  BY <1>7, <1>8, <1>9

\* A group's segments are made, and its slots written.
Steady(x, y) == SegmentsSound(y) /\ LeavesSame(x, y)
LEMMA SteadyTwice ==
    ASSUME NEW x, NEW y, NEW z, Steady(x, y), Steady(y, z)
    PROVE  Steady(x, z)
BY DEF Steady, LeavesSame

LEMMA GroupMadeSound ==
    ASSUME NEW x, SegmentsSound(x), NEW g, NEW y, y = [x EXCEPT !.c = GroupSegments(x.c, g)]
    PROVE  Steady(x, y)
<1> DEFINE c == GroupSegments(x.c, g)
<1>1. /\ Shape(x) /\ SegmentFields(x) /\ SegmentsTyped(x.c.es) /\ Traced(x.c.es, x.t, x.c)
      /\ IsFcn(x.c) /\ "es" \in DOMAIN x.c
      /\ {"slots", "remotes", "groups", "next", "dev"} \subseteq DOMAIN x.c
  BY DEF SegmentsSound, Shape, SegmentFields
<1>2. IsFcn(c) /\ DOMAIN c = DOMAIN x.c /\ c.dev = x.c.dev
  BY <1>1, GroupSegmentsKept
<1>3. /\ c.leaves = x.c.leaves /\ c.etreeRows = x.c.etreeRows /\ c.unmarked = x.c.unmarked
      /\ c.next = x.c.next /\ LostSame(x.c, c)
  <2>1. \E v : c = [x.c EXCEPT !.es = v]
    BY DEF GroupSegments
  <2> HIDE DEF c
  <2> QED
    BY <1>1, <2>1 DEF SegmentFields, LostSame
<1>4. Grown(x.c.es, c.es)
  BY <1>1, GroupSegmentsGrow
<1> HIDE DEF c
<1>5. y.t = x.t /\ y.c = c /\ y = [t |-> y.t, c |-> y.c]
  BY <1>1 DEF Shape, c
<1>6. SegmentsTyped(y.c.es) /\ Traced(y.c.es, y.t, y.c)
  BY <1>1, <1>3, <1>4, <1>5, GrownTraced DEF Grown
<1>7. Shape(y) /\ SegmentFields(y)
  BY <1>1, <1>2, <1>5 DEF Shape, SegmentFields
<1> QED
  BY <1>2, <1>3, <1>5, <1>6, <1>7 DEF Steady, SegmentsSound, LeavesSame

LEMMA GroupSetAside ==
    ASSUME NEW x, Shape(x), SegmentFields(x), NEW key, NEW g, NEW y,
           y = [x EXCEPT !.c = SetGroup(x.c, key, g)]
    PROVE  Aside(x, y)
<1>1. PICK v : SetGroup(x.c, key, g) = [x.c EXCEPT !.groups = v]
  BY DEF SetGroup
<1>2. y.t = x.t /\ y.c = [x.c EXCEPT !.groups = v] /\ y = [t |-> y.t, c |-> y.c]
  BY <1>1 DEF Shape
<1> QED
  BY <1>2 DEF Shape, SegmentFields, Aside, SegmentsSame, LeavesSame, LostSame, IsFcn

LEMMA RenderGroupSound ==
    ASSUME NEW x, SegmentsSound(x), NEW key, NEW g, NEW gone
    PROVE  Steady(x, RenderGroup(x, key, g, gone))
<1> DEFINE c == GroupSegments(x.c, g)
           none == NoRows(gone)
           rows == SlotGroupRows(c, g)
           u == [x EXCEPT !.c = c]
           v == [u EXCEPT !.c = SetGroup(u.c, key, g)]
           w == [v EXCEPT !.t = SlotEsSet(v.t, none)]
           y == [w EXCEPT !.t = SlotEsSet(w.t, rows)]
<1>1. Shape(x) /\ SegmentFields(x)
  BY DEF SegmentsSound
<1>2. RenderGroup(x, key, g, gone) = IF ~AllMade(c, g) THEN v ELSE y
  BY <1>1 DEF RenderGroup, Shape
<1> HIDE DEF c, none, rows
<1>3. Steady(x, u)
  BY GroupMadeSound DEF c
<1> HIDE DEF u
<1>4. Steady(u, v)
  BY <1>3, GroupSetAside, AsideSound DEF Steady, SegmentsSound
<1> HIDE DEF v
<1>5. Steady(v, w)
  BY <1>4, SlotTablesAside, AsideSound DEF Steady, SegmentsSound
<1> HIDE DEF w
<1>6. Steady(w, y)
  BY <1>5, SlotTablesAside, AsideSound DEF Steady, SegmentsSound
<1> HIDE DEF y
<1> QED
  BY <1>2, <1>3, <1>4, <1>5, <1>6, SteadyTwice

LEMMA GroupCallsSound ==
    ASSUME NEW x, SegmentsSound(x), NEW key, NEW idx, NEW role, NEW k
    PROVE  /\ Steady(x, SlotEsBind(x, key, idx, role)) /\ Steady(x, SlotEsUnbind(x, key, idx))
           /\ Steady(x, SetRootOnly(x, k))
<1>1. Steady(x, x)
  BY DEF Steady, LeavesSame
<1>2. Steady(x, SlotEsBind(x, key, idx, role))
  BY RenderGroupSound DEF SlotEsBind
<1>3. Steady(x, SlotEsUnbind(x, key, idx))
  BY <1>1, RenderGroupSound DEF SlotEsUnbind
<1>4. Steady(x, SetRootOnly(x, k))
  BY <1>1, GroupMadeSound, RenderGroupSound DEF SetRootOnly
<1> QED
  BY <1>2, <1>3, <1>4

LEMMA SlotCallsSound ==
    ASSUME NEW x, SegmentsSound(x), NEW k, NEW idx
    PROVE  Steady(x, Registered(x, k, idx)) /\ Steady(x, Restricted(x, k, idx))
<1>1. Steady(x, x)
  BY DEF Steady, LeavesSame
<1>2. Steady(x, Registered(x, k, idx))
  <2> DEFINE u == [x EXCEPT !.t = L2MemberAdd(x.t, idx)]
             v == Including(x.c.slots, Row(SlotKey(k), [idx |-> idx, group |-> k.group]))
             y == [u EXCEPT !.c.slots = v]
  <2>1. Registered(x, k, idx) = y
    BY DEF Registered, SegmentsSound, Shape
  <2> HIDE DEF v
  <2>2. Aside(x, u)
    BY SlotTablesAside DEF SegmentsSound
  <2> HIDE DEF u
  <2>3. Aside(u, y)
    BY <2>2, ControlsAside DEF Aside, SegmentsSame
  <2> QED
    BY <2>1, <2>2, <2>3, AsideTwice, AsideSound DEF Steady
<1>3. Steady(x, Restricted(x, k, idx))
  <2> DEFINE u == [x EXCEPT !.t = SlotEsSet(x.t, Row(idx, SlotRow(0, {}, "root")))]
  <2>1. Steady(x, u)
    BY SlotTablesAside, AsideSound DEF SegmentsSound, Steady
  <2> QED
    BY <1>1, <2>1, GroupCallsSound DEF Restricted
<1> QED
  BY <1>2, <1>3

----------------------------------------------------------------------------
(***************************************************************************)
(* Leaves: a leaf's row is under the device that the port has.             *)
(***************************************************************************)
DevicesApart(dev) == \A p, q \in DOMAIN dev : dev[p] = dev[q] /\ dev[p] # 0 => p = q
\* Indexes are used once; a row has the index its port has or had.
IndexesOnce(c, ports) ==
    /\ c.next \in Nat \ {0} /\ IsFcn(c.dev) /\ DevicesApart(c.dev)
    /\ \A p \in DOMAIN c.dev : c.dev[p] \in Nat /\ c.dev[p] < c.next
    /\ \A i \in DOMAIN ports : i \in Nat /\ i # 0 /\ i < c.next
RowsOnce(dev, rows, next) ==
    /\ \A p \in DOMAIN rows : rows[p] \in Nat /\ rows[p] # 0 /\ rows[p] < next
    /\ \A p, q \in DOMAIN rows : rows[p] = rows[q] => p = q
    /\ \A p \in DOMAIN rows, q \in DOMAIN dev : rows[p] = dev[q] => p = q
LeavesTyped(x) ==
    /\ IndexesOnce(x.c, x.t.ports) /\ RowsOnce(x.c.dev, x.c.etreeRows, x.c.next)
    /\ x.t.portEtree = Range(x.c.etreeRows)
RowExact(c, p) ==
    (p \in DOMAIN c.etreeRows /\ c.etreeRows[p] = c.dev[p]) <=> p \in c.leaves \ c.unmarked
LeavesBut(x, port) ==
    /\ LeavesTyped(x)
    /\ \A p \in DOMAIN x.c.dev \ {port} : x.c.dev[p] \in DOMAIN x.t.ports => RowExact(x.c, p)
LeavesSound(x) ==
    /\ LeavesTyped(x)
    /\ \A p \in DOMAIN x.c.dev : x.c.dev[p] \in DOMAIN x.t.ports => RowExact(x.c, p)

\* etree_render writes PORT_ETREE and the rows, and nothing else.
EtreeSame(x, y) ==
    /\ SegmentsSame(x, y) /\ y.c.dev = x.c.dev /\ y.c.leaves = x.c.leaves /\ y.c.next = x.c.next
    /\ y.t.ports = x.t.ports
LEMMA MarkedSame ==
    ASSUME NEW x, Shape(x), SegmentFields(x), NEW a, NEW b, NEW c, NEW y, y = Marked(x, a, b, c)
    PROVE  /\ EtreeSame(x, y) /\ y.t.portEtree = a /\ y.c.etreeRows = b /\ y.c.unmarked = c
<1>1. /\ y = [t |-> y.t, c |-> y.c] /\ y.t = [x.t EXCEPT !.portEtree = a]
      /\ y.c = [[x.c EXCEPT !.etreeRows = b] EXCEPT !.unmarked = c]
  BY DEF Marked
<1>2. /\ DOMAIN y.t = DOMAIN x.t /\ IsFcn(y.t) /\ y.t.portEtree = a /\ y.t.ports = x.t.ports
      /\ y.t.nhg = x.t.nhg /\ y.t.esDf = x.t.esDf /\ y.t.portEs = x.t.portEs
      /\ y.t.vtepEs = x.t.vtepEs /\ y.t.esiLabel = x.t.esiLabel
  BY <1>1 DEF Shape, SegmentFields, IsFcn
<1>3. /\ DOMAIN y.c = DOMAIN x.c /\ IsFcn(y.c) /\ y.c.etreeRows = b /\ y.c.unmarked = c
      /\ y.c.es = x.c.es /\ y.c.dev = x.c.dev /\ y.c.leaves = x.c.leaves /\ y.c.next = x.c.next
      /\ LostSame(x.c, y.c)
  BY <1>1 DEF Shape, SegmentFields, IsFcn, LostSame
<1> QED
  BY <1>1, <1>2, <1>3 DEF Shape, SegmentFields, SegmentsSame, EtreeSame

LEMMA ForgottenSame ==
    ASSUME NEW x, Shape(x), SegmentFields(x), NEW c, NEW y, y = Forgotten(x, c)
    PROVE  /\ EtreeSame(x, y) /\ y.t.portEtree = x.t.portEtree /\ y.c.etreeRows = x.c.etreeRows
           /\ y.c.unmarked = c
<1>1. y = [t |-> x.t, c |-> [x.c EXCEPT !.unmarked = c]]
  BY DEF Forgotten, Shape
<1> QED
  BY <1>1 DEF Shape, SegmentFields, IsFcn, LostSame, SegmentsSame, EtreeSame

\* What it comes to: the row that the port had is gone, and it has one under its
\* device if it is a leaf and the map has room.
Rerendered(x, port, y) ==
    LET rows == Without(x.c.etreeRows, {port})
        want == IF port \in x.c.leaves THEN x.c.dev[port] ELSE 0
        have == IF port \in DOMAIN x.c.etreeRows THEN x.c.etreeRows[port] ELSE 0
        un == x.c.unmarked \ {port}
    IN  \/ /\ want = have /\ y.c.unmarked = un
           /\ y.t.portEtree = x.t.portEtree /\ y.c.etreeRows = x.c.etreeRows
        \/ /\ want # have /\ want = 0 /\ y.c.unmarked = un
           /\ y.t.portEtree = x.t.portEtree \ {have} /\ y.c.etreeRows = rows
        \/ /\ want # have /\ want # 0 /\ y.c.unmarked = un \cup {port}
           /\ y.t.portEtree = x.t.portEtree \ {have} /\ y.c.etreeRows = rows
        \/ /\ want # have /\ want # 0 /\ y.c.unmarked = un
           /\ y.t.portEtree = (x.t.portEtree \ {have}) \cup {want}
           /\ y.c.etreeRows = Including(rows, Row(port, want))

LEMMA EtreeRenderSame ==
    ASSUME NEW x, Shape(x), SegmentFields(x), NEW port, NEW y, y = EtreeRender(x, port)
    PROVE  EtreeSame(x, y) /\ Rerendered(x, port, y)
<1> DEFINE want == IF port \in x.c.leaves THEN x.c.dev[port] ELSE 0
           have == IF port \in DOMAIN x.c.etreeRows THEN x.c.etreeRows[port] ELSE 0
           rows == Without(x.c.etreeRows, {port})
           marks == x.t.portEtree \ {have}
           un == x.c.unmarked \ {port}
           m == Marked(x, marks, rows, un)
<1>1. \/ want = have /\ y = Forgotten(x, un)
      \/ want # have /\ want = 0 /\ y = m
      \/ want # have /\ want # 0 /\ y = Marked(x, marks, rows, m.c.unmarked \cup {port})
      \/ /\ want # have /\ want # 0
         /\ y = Marked(x, m.t.portEtree \cup {want},
                       Including(m.c.etreeRows, Row(port, want)), un)
  BY EtreeRenderForm, Zenon
<1> HIDE DEF want, have, rows, marks, un
<1>2. m.c.unmarked = un /\ m.t.portEtree = marks /\ m.c.etreeRows = rows
  BY MarkedSame
<1> HIDE DEF m
<1>3. CASE want = have /\ y = Forgotten(x, un)
  <2>1. /\ EtreeSame(x, y) /\ y.t.portEtree = x.t.portEtree /\ y.c.etreeRows = x.c.etreeRows
        /\ y.c.unmarked = un
    BY <1>3, ForgottenSame
  <2> QED
    BY <1>3, <2>1, Zenon DEF Rerendered, want, have, un
<1>4. CASE want # have /\ want = 0 /\ y = m
  <2>1. EtreeSame(x, y) /\ y.t.portEtree = marks /\ y.c.etreeRows = rows /\ y.c.unmarked = un
    BY <1>4, MarkedSame DEF m
  <2> QED
    BY <1>4, <2>1, Zenon DEF Rerendered, want, have, rows, marks, un
<1>5. CASE want # have /\ want # 0 /\ y = Marked(x, marks, rows, m.c.unmarked \cup {port})
  <2>1. /\ EtreeSame(x, y) /\ y.t.portEtree = marks /\ y.c.etreeRows = rows
        /\ y.c.unmarked = un \cup {port}
    BY <1>2, <1>5, MarkedSame
  <2> QED
    BY <1>5, <2>1, Zenon DEF Rerendered, want, have, rows, marks, un
<1>6. CASE /\ want # have /\ want # 0
           /\ y = Marked(x, m.t.portEtree \cup {want},
                         Including(m.c.etreeRows, Row(port, want)), un)
  <2>1. /\ EtreeSame(x, y) /\ y.t.portEtree = marks \cup {want}
        /\ y.c.etreeRows = Including(rows, Row(port, want)) /\ y.c.unmarked = un
    BY <1>2, <1>6, MarkedSame
  <2> QED
    BY <1>6, <2>1, Zenon DEF Rerendered, want, have, rows, marks, un
<1> QED
  BY <1>1, <1>3, <1>4, <1>5, <1>6

LEMMA EtreeRenderSound ==
    ASSUME NEW x, Shape(x), SegmentFields(x), NEW port, LeavesBut(x, port), port \in DOMAIN x.c.dev,
           NEW y, y = EtreeRender(x, port)
    PROVE  /\ EtreeSame(x, y) /\ LeavesSound(y)
           /\ x.c.dev[port] # 0 => RowExact(y.c, port)
<1> DEFINE c == x.c
           old == c.etreeRows
           want == IF port \in c.leaves THEN c.dev[port] ELSE 0
           have == IF port \in DOMAIN old THEN old[port] ELSE 0
           rows == Without(old, {port})
           un == c.unmarked \ {port}
           more == Including(rows, Row(port, want))
<1>1. EtreeSame(x, y)
  BY EtreeRenderSame
<1>2. \/ /\ want = have /\ y.c.unmarked = un
         /\ y.t.portEtree = x.t.portEtree /\ y.c.etreeRows = old
      \/ /\ want # have /\ want = 0 /\ y.c.unmarked = un
         /\ y.t.portEtree = x.t.portEtree \ {have} /\ y.c.etreeRows = rows
      \/ /\ want # have /\ want # 0 /\ y.c.unmarked = un \cup {port}
         /\ y.t.portEtree = x.t.portEtree \ {have} /\ y.c.etreeRows = rows
      \/ /\ want # have /\ want # 0 /\ y.c.unmarked = un
         /\ y.t.portEtree = (x.t.portEtree \ {have}) \cup {want} /\ y.c.etreeRows = more
  <2>1. Rerendered(x, port, y)
    BY EtreeRenderSame
  <2> QED
    BY <2>1, Zenon DEF Rerendered
<1>3. /\ IndexesOnce(c, x.t.ports) /\ RowsOnce(c.dev, old, c.next) /\ x.t.portEtree = Range(old)
      /\ \A p \in DOMAIN c.dev \ {port} : c.dev[p] \in DOMAIN x.t.ports => RowExact(c, p)
  BY DEF LeavesBut, LeavesTyped
<1>4. /\ DOMAIN rows = DOMAIN old \ {port} /\ \A p \in DOMAIN rows : rows[p] = old[p]
  BY DEF Without
<1>5. /\ want \in Nat /\ want < c.next /\ (want # 0 => port \in c.leaves /\ want = c.dev[port])
      /\ (port \in c.leaves /\ c.dev[port] # 0 => want # 0)
      /\ (port \in DOMAIN old => have = old[port]) /\ (port \notin DOMAIN old => have = 0)
  BY <1>3 DEF IndexesOnce
<1> HIDE DEF rows, want, have, old
<1>6. /\ DOMAIN more = DOMAIN rows \cup {port} /\ more[port] = want
      /\ \A p \in DOMAIN rows : more[p] = rows[p]
  BY <1>4 DEF Including, Row
<1> HIDE DEF more
<1>7. Range(rows) = Range(old) \ {have}
  <2>1. \A p \in DOMAIN old : p # port => old[p] # have
    BY <1>3, <1>5 DEF RowsOnce
  <2> QED
    BY <1>4, <1>5, <2>1 DEF Range
<1>8. RowsOnce(c.dev, rows, c.next)
  BY <1>3, <1>4 DEF RowsOnce
<1>9. want # 0 => RowsOnce(c.dev, more, c.next) /\ Range(more) = Range(rows) \cup {want}
  <2> HAVE want # 0
  <2>1. \A p \in DOMAIN rows : p # port /\ rows[p] # want
    BY <1>3, <1>4, <1>5 DEF RowsOnce
  <2>2. \A p \in DOMAIN c.dev : want = c.dev[p] => p = port
    BY <1>3, <1>5 DEF IndexesOnce, DevicesApart
  <2>3. Range(more) = Range(rows) \cup {want}
    BY <1>6, <2>1 DEF Range
  <2>4. \A p \in DOMAIN more : more[p] \in Nat /\ more[p] # 0 /\ more[p] < c.next
    BY <1>5, <1>6, <1>8 DEF RowsOnce
  <2>5. \A p, q \in DOMAIN more : more[p] = more[q] => p = q
    BY <1>6, <1>8, <2>1 DEF RowsOnce
  <2>6. \A p \in DOMAIN more, q \in DOMAIN c.dev : more[p] = c.dev[q] => p = q
    BY <1>6, <1>8, <2>1, <2>2 DEF RowsOnce
  <2> QED
    BY <2>3, <2>4, <2>5, <2>6 DEF RowsOnce
<1>10. /\ RowsOnce(c.dev, y.c.etreeRows, c.next) /\ y.t.portEtree = Range(y.c.etreeRows)
       /\ \A p : p # port => /\ p \in DOMAIN y.c.etreeRows <=> p \in DOMAIN old
                             /\ p \in DOMAIN old => y.c.etreeRows[p] = old[p]
  <2> DEFINE new == y.c.etreeRows
  <2>1. CASE new = old /\ y.t.portEtree = x.t.portEtree
    BY <1>3, <2>1
  <2>2. CASE new = rows /\ y.t.portEtree = x.t.portEtree \ {have}
    BY <1>3, <1>4, <1>7, <1>8, <2>2
  <2>3. CASE want # 0 /\ new = more /\ y.t.portEtree = (x.t.portEtree \ {have}) \cup {want}
    BY <1>3, <1>4, <1>6, <1>7, <1>9, <2>3
  <2> QED
    BY <1>2, <2>1, <2>2, <2>3
<1>11. /\ y.c.dev = c.dev /\ y.c.leaves = c.leaves /\ y.c.next = c.next /\ y.t.ports = x.t.ports
  BY <1>1 DEF EtreeSame
<1>12. LeavesTyped(y)
  BY <1>3, <1>10, <1>11 DEF LeavesTyped, IndexesOnce
<1>13. c.dev[port] # 0 => RowExact(y.c, port)
  <2> HAVE c.dev[port] # 0
  <2>1. port \in DOMAIN old => old[port] # 0
    BY <1>3 DEF RowsOnce
  <2>2. port \notin DOMAIN rows
    BY <1>4
  <2>3. CASE want = have /\ y.c.unmarked = un /\ y.c.etreeRows = old
    BY <1>5, <1>11, <2>1, <2>3 DEF RowExact
  <2>4. CASE want = 0 /\ y.c.unmarked = un /\ y.c.etreeRows = rows
    BY <1>5, <1>11, <2>2, <2>4 DEF RowExact
  <2>5. CASE y.c.unmarked = un \cup {port} /\ y.c.etreeRows = rows
    BY <2>2, <2>5 DEF RowExact
  <2>6. CASE want # 0 /\ y.c.unmarked = un /\ y.c.etreeRows = more
    BY <1>5, <1>6, <1>11, <2>6 DEF RowExact
  <2> QED
    BY <1>2, <2>3, <2>4, <2>5, <2>6
<1>14. ASSUME NEW p \in DOMAIN c.dev, p # port, RowExact(c, p) PROVE RowExact(y.c, p)
  <2>1. p \in y.c.unmarked <=> p \in c.unmarked
    BY <1>2, <1>14
  <2> QED
    BY <1>10, <1>11, <1>14, <2>1 DEF RowExact, old
<1>15. ASSUME NEW p \in DOMAIN y.c.dev, y.c.dev[p] \in DOMAIN y.t.ports PROVE RowExact(y.c, p)
  <2>1. CASE p # port
    BY <1>3, <1>11, <1>14, <1>15, <2>1
  <2>2. CASE p = port
    <3>1. c.dev[port] # 0
      BY <1>3, <1>11, <1>15, <2>2 DEF IndexesOnce
    <3> QED
      BY <1>13, <2>2, <3>1
  <2> QED
    BY <2>1, <2>2
<1> QED
  BY <1>1, <1>12, <1>13, <1>15 DEF LeavesSound

LEMMA SameSound ==
    ASSUME NEW x, SegmentsSound(x), NEW y, SegmentsSame(x, y)
    PROVE  SegmentsSound(y)
BY DEF SegmentsSame, SegmentsSound, Traced, LostSame

\* set_etree_role, set_port.
LEMMA RoleSound ==
    ASSUME NEW x, SegmentsSound(x), LeavesSound(x), NEW k, k.port \in DOMAIN x.c.dev
    PROVE  SegmentsSound(SetEtreeRole(x, k)) /\ LeavesSound(SetEtreeRole(x, k))
<1> DEFINE leaves == IF k.leaf THEN x.c.leaves \cup {k.port} ELSE x.c.leaves \ {k.port}
           u == [x EXCEPT !.c.leaves = leaves]
           y == EtreeRender(u, k.port)
<1>1. SetEtreeRole(x, k) = y
  BY DEF SetEtreeRole
<1>2. Shape(x) /\ SegmentFields(x)
  BY DEF SegmentsSound
<1>3. \A p : p # k.port => (p \in leaves <=> p \in x.c.leaves)
  OBVIOUS
<1> HIDE DEF leaves
<1>4. u.t = x.t /\ u.c = [x.c EXCEPT !.leaves = leaves] /\ u = [t |-> u.t, c |-> u.c]
  BY <1>2 DEF Shape
<1> HIDE DEF u
<1>5. /\ SegmentsSame(x, u) /\ u.c.dev = x.c.dev /\ u.c.leaves = leaves
      /\ u.c.etreeRows = x.c.etreeRows /\ u.c.unmarked = x.c.unmarked /\ u.c.next = x.c.next
  BY <1>2, <1>4 DEF Shape, SegmentFields, IsFcn, SegmentsSame, LostSame
<1>6. SegmentsSound(u)
  BY <1>5, SameSound
<1>7. LeavesBut(u, k.port)
  <2>1. LeavesTyped(u)
    BY <1>4, <1>5 DEF LeavesSound, LeavesTyped, IndexesOnce
  <2>2. ASSUME NEW p \in DOMAIN x.c.dev, p # k.port, RowExact(x.c, p) PROVE RowExact(u.c, p)
    BY <1>3, <1>5, <2>2 DEF RowExact
  <2> QED
    BY <1>4, <1>5, <2>1, <2>2 DEF LeavesBut, LeavesSound
<1>8. EtreeSame(u, y) /\ LeavesSound(y)
  BY <1>5, <1>6, <1>7, EtreeRenderSound DEF SegmentsSound
<1>9. SegmentsSound(y)
  BY <1>6, <1>8, SameSound DEF EtreeSame
<1> QED
  BY <1>1, <1>8, <1>9

LEMMA PortSetSound ==
    ASSUME NEW x, SegmentsSound(x), LeavesSound(x), NEW k, k.port \in DOMAIN x.c.dev
    PROVE  SegmentsSound(SetPort(x, k)) /\ LeavesSound(SetPort(x, k))
<1> DEFINE port == k.port
           i == x.c.dev[port]
           m == EtreeRender(x, port)
           ports == Including(m.t.ports, Row(i, "l2"))
           y == [m EXCEPT !.t.ports = ports]
<1>1. SetPort(x, k) = IF i = 0 THEN x ELSE IF port \in m.c.unmarked THEN m ELSE y
  BY DEF SetPort
<1>2. EtreeSame(x, m) /\ LeavesSound(m) /\ (i # 0 => RowExact(m.c, port))
  BY EtreeRenderSound DEF SegmentsSound, LeavesSound, LeavesBut
<1>3. SegmentsSound(m) /\ Shape(m) /\ SegmentFields(m)
  BY <1>2, SameSound DEF EtreeSame, SegmentsSound
<1>4. m.c.dev = x.c.dev /\ m.c.next = x.c.next /\ i \in Nat /\ i < m.c.next
  BY <1>2 DEF EtreeSame, LeavesSound, LeavesTyped, IndexesOnce
<1> HIDE DEF m
<1>5. DOMAIN ports = DOMAIN m.t.ports \cup {i}
  BY DEF Including, Row
<1> HIDE DEF ports
<1>6. y = [t |-> [m.t EXCEPT !.ports = ports], c |-> m.c]
  BY <1>3 DEF Shape
<1> HIDE DEF y
<1>7. SegmentsSame(m, y) /\ y.c = m.c /\ y.t.ports = ports /\ y.t.portEtree = m.t.portEtree
  BY <1>3, <1>6 DEF Shape, SegmentFields, IsFcn, SegmentsSame, LostSame
<1>8. ASSUME i # 0 PROVE LeavesSound(y)
  <2>1. \A j \in DOMAIN ports : j \in Nat /\ j # 0 /\ j < m.c.next
    BY <1>2, <1>4, <1>5, <1>8 DEF LeavesSound, LeavesTyped, IndexesOnce
  <2>2. LeavesTyped(y)
    BY <1>2, <1>7, <2>1 DEF LeavesSound, LeavesTyped, IndexesOnce
  <2>3. \A p \in DOMAIN m.c.dev : m.c.dev[p] = i => p = port
    BY <1>2, <1>4, <1>8 DEF LeavesSound, LeavesTyped, IndexesOnce, DevicesApart
  <2> QED
    BY <1>2, <1>5, <1>7, <1>8, <2>2, <2>3 DEF LeavesSound
<1>9. SegmentsSound(y)
  BY <1>3, <1>7, SameSound
<1> QED
  BY <1>1, <1>2, <1>3, <1>8, <1>9

\* A device comes back: its index is in no row, and in PORTS only when set_port
\* has put it there.
LEMMA DeviceSound ==
    ASSUME NEW x, SegmentsSound(x), LeavesSound(x), NEW k, k.port \in DOMAIN x.c.dev
    PROVE  SegmentsSound(Device(x, k)) /\ LeavesSound(Device(x, k))
<1> DEFINE i == x.c.next
           port == k.port
           dev == [x.c.dev EXCEPT ![port] = i]
           w == [x EXCEPT !.c.dev[port] = i]
           y == [w EXCEPT !.c.next = w.c.next + 1]
<1>1. Shape(x) /\ SegmentFields(x)
  BY DEF SegmentsSound
<1>2. Device(x, k) = y
  BY DEF Device
<1>3. w = [t |-> x.t, c |-> [x.c EXCEPT !.dev = dev]]
  BY <1>1 DEF Shape
<1> HIDE DEF w, dev
<1>4. /\ SegmentsSame(x, w) /\ w.t = x.t /\ w.c.dev = dev /\ w.c.leaves = x.c.leaves
      /\ w.c.etreeRows = x.c.etreeRows /\ w.c.unmarked = x.c.unmarked /\ w.c.next = i
  BY <1>1, <1>3 DEF Shape, SegmentFields, SegmentsSame, LostSame, IsFcn
<1>5. \A v : LET u == [w EXCEPT !.c.next = v]
             IN  /\ SegmentsSame(w, u) /\ u.t = w.t /\ u.c.dev = w.c.dev /\ u.c.leaves = w.c.leaves
                 /\ u.c.etreeRows = w.c.etreeRows /\ u.c.unmarked = w.c.unmarked /\ u.c.next = v
  BY <1>4 DEF Shape, SegmentFields, SegmentsSame, LostSame, IsFcn
<1>6. /\ SegmentsSame(w, y) /\ y.t = x.t /\ y.c.dev = dev /\ y.c.leaves = x.c.leaves
      /\ y.c.etreeRows = x.c.etreeRows /\ y.c.unmarked = x.c.unmarked /\ y.c.next = i + 1
  BY <1>4, <1>5
<1> HIDE DEF y
<1>7. SegmentsSound(y)
  BY <1>4, <1>6, SameSound
<1>8. IndexesOnce(x.c, x.t.ports) /\ RowsOnce(x.c.dev, x.c.etreeRows, i)
  BY DEF LeavesSound, LeavesTyped
<1>9. /\ DOMAIN dev = DOMAIN x.c.dev /\ dev[port] = i /\ IsFcn(dev)
      /\ \A p \in DOMAIN dev \ {port} : dev[p] = x.c.dev[p]
  BY <1>8 DEF dev, IndexesOnce, IsFcn
<1>10. i \in Nat \ {0} /\ i < i + 1
  BY <1>8 DEF IndexesOnce
<1>11. IndexesOnce(y.c, y.t.ports)
  <2>1. \A p \in DOMAIN dev : dev[p] \in Nat /\ dev[p] < i + 1
    BY <1>8, <1>9, <1>10 DEF IndexesOnce
  <2>2. \A p \in DOMAIN dev \ {port} : dev[p] # i
    BY <1>8, <1>9, <1>10 DEF IndexesOnce
  <2>3. DevicesApart(dev)
    BY <1>8, <1>9, <2>2 DEF IndexesOnce, DevicesApart
  <2>4. \A j \in DOMAIN x.t.ports : j \in Nat /\ j # 0 /\ j < i + 1
    BY <1>8, <1>10 DEF IndexesOnce
  <2> QED
    BY <1>6, <1>9, <1>10, <2>1, <2>3, <2>4 DEF IndexesOnce
<1>12. RowsOnce(dev, x.c.etreeRows, i + 1)
  <2>1. \A p \in DOMAIN x.c.etreeRows :
           /\ x.c.etreeRows[p] \in Nat /\ x.c.etreeRows[p] # 0
           /\ x.c.etreeRows[p] < i + 1 /\ x.c.etreeRows[p] # i
    BY <1>8, <1>10 DEF RowsOnce
  <2>2. \A p \in DOMAIN x.c.etreeRows, q \in DOMAIN dev : x.c.etreeRows[p] = dev[q] => p = q
    BY <1>8, <1>9, <2>1 DEF RowsOnce
  <2> QED
    BY <1>8, <2>1, <2>2 DEF RowsOnce
<1>13. LeavesTyped(y)
  BY <1>6, <1>11, <1>12 DEF LeavesTyped, LeavesSound
<1>14. ASSUME NEW p \in DOMAIN dev, dev[p] \in DOMAIN x.t.ports PROVE RowExact(y.c, p)
  <2>1. p # port
    BY <1>8, <1>9, <1>10, <1>14 DEF IndexesOnce
  <2>2. RowExact(x.c, p)
    BY <1>9, <1>14, <2>1 DEF LeavesSound
  <2> QED
    BY <1>6, <1>9, <2>1, <2>2 DEF RowExact
<1>15. LeavesSound(y)
  BY <1>6, <1>13, <1>14 DEF LeavesSound
<1> QED
  BY <1>2, <1>7, <1>15

----------------------------------------------------------------------------
(***************************************************************************)
(* Every step keeps the rows of segments and leaves.                       *)
(***************************************************************************)
RowsInv == \A n \in Nodes : SegmentsSound(pe[n]) /\ LeavesSound(pe[n])

LEMMA NodeRendered ==
    ASSUME Inv, RowsInv, NEW n \in Nodes, NEW node, pe' = [pe EXCEPT ![n] = node],
           SegmentsSound(node), LeavesSound(node)
    PROVE  RowsInv'
<1>1. DOMAIN pe = Nodes
  BY DEF Inv
<1>2. pe'[n] = node /\ \A m \in Nodes \ {n} : pe'[m] = pe[m]
  BY <1>1
<1> QED
  BY <1>2 DEF RowsInv

LEMMA NodeSteady ==
    ASSUME Inv, RowsInv, NEW k, k.n \in Nodes, NEW node, Put(k, node), Steady(N(k), node)
    PROVE  RowsInv'
<1>1. LeavesSound(N(k))
  BY DEF RowsInv, N
<1>2. LeavesSound(node)
  <2> DEFINE x == N(k)
  <2>1. LeavesTyped(node)
    BY <1>1 DEF Steady, LeavesSame, LeavesSound, LeavesTyped, IndexesOnce
  <2>2. ASSUME NEW p, RowExact(x.c, p) PROVE RowExact(node.c, p)
    BY <2>2 DEF Steady, LeavesSame, RowExact
  <2> QED
    BY <1>1, <2>1, <2>2 DEF Steady, LeavesSame, LeavesSound
<1> QED
  BY <1>2, NodeRendered DEF Put, Steady

LEMMA SteadyCalls ==
    ASSUME \A s \in Scenarios : Orderly(s), Inv, RowsInv, NEW k,
           \/ Atomic(k, "segment", SetSegment(N(k), k)) \/ Atomic(k, "delsegment", DelSegment(N(k), k))
           \/ Atomic(k, "role", SetRole(N(k), k)) \/ Atomic(k, "peers", SetPeers(N(k), k))
           \/ Atomic(k, "nhg", SetNhg(N(k), k)) \/ Atomic(k, "domain", SetL2Domain(N(k), k))
           \/ Atomic(k, "rootonly", SetRootOnly(N(k), k))
           \/ Atomic(k, "leaflabel", SetLeafLabel(N(k), k))
           \/ Atomic(k, "leafarg", SetLeafArg(N(k), k))
           \/ Atomic(k, "fdb", AddFdbRemote(N(k), k)) \/ Atomic(k, "fdblocal", AddFdbLocal(N(k), k))
           \/ Atomic(k, "delfdb", DelFdbRemote(N(k), k))
    PROVE  RowsInv'
<1> DEFINE x == N(k)
<1>1. k.n \in Nodes
  BY TakenKnown DEF Atomic
<1>2. SegmentsSound(x)
  BY <1>1 DEF RowsInv, N
<1> HIDE DEF x
<1>3. /\ Steady(x, SetSegment(x, k)) /\ Steady(x, SetRole(x, k)) /\ Steady(x, SetPeers(x, k))
      /\ Steady(x, SetNhg(x, k)) /\ Steady(x, DelSegment(x, k))
  BY <1>2, SegmentCallsSound, DelSegmentSound DEF Steady
<1>4. Steady(x, SetRootOnly(x, k))
  BY <1>2, GroupCallsSound
<1>5. /\ Steady(x, SetL2Domain(x, k)) /\ Steady(x, SetLeafLabel(x, k))
      /\ Steady(x, SetLeafArg(x, k)) /\ Steady(x, AddFdbRemote(x, k))
      /\ Steady(x, AddFdbLocal(x, k)) /\ Steady(x, DelFdbRemote(x, k))
  <2>1. Shape(x) /\ SegmentFields(x)
    BY <1>2 DEF SegmentsSound
  <2> QED
    BY <1>2, <2>1, PlainCallsAside, AsideSound DEF Steady
<1>6. ASSUME NEW op, NEW node, Atomic(k, op, node), Steady(x, node) PROVE RowsInv'
  BY <1>1, <1>6, NodeSteady DEF Atomic, x
<1> QED
  BY <1>3, <1>4, <1>5, <1>6 DEF x

LEMMA LeafCalls ==
    ASSUME \A s \in Scenarios : Orderly(s), Inv, RowsInv, NEW k,
           \/ Atomic(k, "device", Device(N(k), k)) \/ Atomic(k, "port", SetPort(N(k), k))
           \/ Atomic(k, "etree", SetEtreeRole(N(k), k))
    PROVE  RowsInv'
<1> DEFINE x == N(k)
<1>1. k.n \in Nodes /\ k.port \in Names(k.n) /\ Sound(x, Here(k.n), Names(k.n))
  BY TakenKnown DEF Atomic, CallMade
<1>2. SegmentsSound(x) /\ LeavesSound(x)
  BY <1>1 DEF RowsInv, N
<1> HIDE DEF x
<1>3. k.port \in DOMAIN x.c.dev
  BY <1>1 DEF Sound, PortsTyped
<1>4. /\ SegmentsSound(SetPort(x, k)) /\ LeavesSound(SetPort(x, k))
      /\ SegmentsSound(SetEtreeRole(x, k)) /\ LeavesSound(SetEtreeRole(x, k))
      /\ SegmentsSound(Device(x, k)) /\ LeavesSound(Device(x, k))
  BY <1>2, <1>3, PortSetSound, RoleSound, DeviceSound
<1> QED
  BY <1>1, <1>4, NodeRendered DEF Atomic, Put, x

\* Two indexes are taken for a slot.
LEMMA IndexesTaken ==
    ASSUME NEW x, SegmentsSound(x), LeavesSound(x),
           NEW y, y = [x EXCEPT !.c.next = x.c.next + 2]
    PROVE  SegmentsSound(y) /\ LeavesSound(y)
<1>1. Shape(x) /\ SegmentFields(x)
  BY DEF SegmentsSound
<1>2. \A v : LET u == [x EXCEPT !.c.next = v]
             IN  /\ SegmentsSame(x, u) /\ u.t = x.t /\ u.c.dev = x.c.dev /\ u.c.leaves = x.c.leaves
                 /\ u.c.etreeRows = x.c.etreeRows /\ u.c.unmarked = x.c.unmarked /\ u.c.next = v
  BY <1>1 DEF Shape, SegmentFields, SegmentsSame, LostSame, IsFcn
<1>3. /\ SegmentsSame(x, y) /\ y.t = x.t /\ y.c.dev = x.c.dev /\ y.c.leaves = x.c.leaves
      /\ y.c.etreeRows = x.c.etreeRows /\ y.c.unmarked = x.c.unmarked /\ y.c.next = x.c.next + 2
  BY <1>2
<1>4. IndexesOnce(x.c, x.t.ports) /\ RowsOnce(x.c.dev, x.c.etreeRows, x.c.next)
  BY DEF LeavesSound, LeavesTyped
<1>5. x.c.next \in Nat
  BY <1>4 DEF IndexesOnce
<1>6. IndexesOnce(y.c, y.t.ports)
  BY <1>3, <1>4, <1>5 DEF IndexesOnce
<1>7. RowsOnce(y.c.dev, y.c.etreeRows, y.c.next)
  BY <1>3, <1>4, <1>5 DEF RowsOnce
<1>8. ASSUME NEW p, RowExact(x.c, p) PROVE RowExact(y.c, p)
  BY <1>3, <1>8 DEF RowExact
<1>9. LeavesSound(y)
  BY <1>3, <1>6, <1>7, <1>8 DEF LeavesSound, LeavesTyped
<1> QED
  BY <1>3, <1>9, SameSound

LEMMA SlotCallsBegin ==
    ASSUME \A s \in Scenarios : Orderly(s), Inv, RowsInv, NEW k,
           AddSlot(k) \/ DelSlot(k) \/ AddStaticSlot(k) \/ MarkRemote(k) \/ AddFdbEs(k)
    PROVE  RowsInv'
<1> DEFINE x == N(k)
<1>1. k.n \in Nodes
  BY TakenKnown DEF AddSlot, DelSlot, AddStaticSlot, MarkRemote, AddFdbEs, Refuse, Begin
<1>2. SegmentsSound(x) /\ Shape(x) /\ SegmentFields(x)
  BY <1>1 DEF RowsInv, N, SegmentsSound
<1>3. ASSUME Refuse(k) PROVE RowsInv'
  BY <1>3 DEF Refuse, RowsInv
<1>4. ASSUME NEW node, Put(k, node), Aside(x, node) PROVE RowsInv'
  BY <1>1, <1>2, <1>4, AsideSound, NodeSteady DEF Steady
<1>5. CASE AddSlot(k)
  <2> DEFINE y == [x EXCEPT !.c.next = x.c.next + 2]
  <2>1. Refuse(k) \/ Put(k, y)
    BY <1>5 DEF AddSlot
  <2>2. SegmentsSound(y) /\ LeavesSound(y)
    <3>1. LeavesSound(x)
      BY <1>1 DEF RowsInv, N
    <3> QED
      BY <1>2, <3>1, IndexesTaken
  <2> HIDE DEF y
  <2> QED
    BY <1>1, <1>3, <2>1, <2>2, NodeRendered DEF Put
<1>6. CASE DelSlot(k)
  <2>1. Refuse(k) \/ \E v : Put(k, [x EXCEPT !.c.slots = v])
    BY <1>6 DEF DelSlot
  <2> QED
    BY <1>2, <1>3, <1>4, <2>1, ControlsAside
<1>7. CASE AddStaticSlot(k)
  <2>1. Refuse(k) \/ \E a, b, target : Put(k, ReplTargetAdd(x, a, b, target))
    BY <1>7 DEF AddStaticSlot
  <2> QED
    BY <1>2, <1>3, <1>4, <2>1, PlainCallsAside
<1>8. CASE MarkRemote(k)
  <2>1. Refuse(k) \/ \E v : Put(k, [x EXCEPT !.c.remotes = v])
    BY <1>8 DEF MarkRemote
  <2> QED
    BY <1>2, <1>3, <1>4, <2>1, ControlsAside
<1>9. CASE AddFdbEs(k)
  <2> DEFINE c == EsEntry(x.c, k.esi)
             y == [x EXCEPT !.c = c]
  <2>1. Refuse(k) \/ (c # None /\ Put(k, y))
    BY <1>9 DEF AddFdbEs
  <2>2. CASE c # None /\ Put(k, y)
    <3>1. Steady(x, y)
      BY <1>2, <2>2, EsEntrySound DEF Steady
    <3> QED
      BY <1>1, <2>2, <3>1, NodeSteady
  <2> QED
    BY <1>3, <2>1, <2>2
<1> QED
  BY <1>5, <1>6, <1>7, <1>8, <1>9

LEMMA SlotCallsGoOn ==
    ASSUME \A s \in Scenarios : Orderly(s), Inv, RowsInv, NEW b \in busy, GoesOn(b)
    PROVE  RowsInv'
<1> DEFINE k == b.k
           x == N(k)
<1>1. k.n \in Nodes
  BY BusyKnown
<1>2. SegmentsSound(x) /\ Shape(x) /\ SegmentFields(x)
  BY <1>1 DEF RowsInv, N, SegmentsSound
<1>3. ASSUME NEW node, Put(k, node), Aside(x, node) PROVE RowsInv'
  BY <1>1, <1>2, <1>3, AsideSound, NodeSteady DEF Steady
<1>4. ASSUME NEW node, Put(k, node), Steady(x, node) PROVE RowsInv'
  BY <1>1, <1>4, NodeSteady
<1>5. CASE AddSlotProgram(b)
  BY <1>2, <1>3, <1>5, PlainCallsAside DEF AddSlotProgram
<1>6. CASE AddSlotRestrict(b) \/ AddSlotJoin(b)
  BY <1>2, <1>4, <1>6, SlotCallsSound DEF AddSlotRestrict, AddSlotJoin
<1>7. CASE DelSlotUnbind(b) \/ StaticSlotBind(b)
  BY <1>2, <1>4, <1>7, GroupCallsSound DEF DelSlotUnbind, StaticSlotBind
<1>8. CASE AddFdbEsAdd(b)
  BY <1>2, <1>3, <1>8, PlainCallsAside DEF AddFdbEsAdd
<1>9. CASE DelSlotLeave(b)
  BY <1>2, <1>3, <1>9, SlotTablesAside DEF DelSlotLeave
<1>10. CASE DelSlotClear(b)
  <2> DEFINE rows == Row(b.idx, SlotRow(0, {}, "none"))
             u == IF b.more = None THEN [x EXCEPT !.t = SlotEsSet(x.t, rows)] ELSE x
             v == Without(u.t.replSid, {b.idx, b.idx + 1})
             y == [u EXCEPT !.t = [u.t EXCEPT !.replSid = v]]
  <2>1. Put(k, y)
    BY <1>2, <1>10 DEF DelSlotClear, Shape
  <2> HIDE DEF v, rows
  <2>2. Aside(x, u)
    BY <1>2, SlotTablesAside, TablesAside
  <2> HIDE DEF u
  <2>3. Aside(u, y)
    BY <2>2, TablesAside DEF Aside, SegmentsSame
  <2> QED
    BY <1>3, <2>1, <2>2, <2>3, AsideTwice
<1>11. CASE MarkRemoteFind(b)
  BY <1>11 DEF MarkRemoteFind, RowsInv
<1>12. CASE MarkRemoteProgram(b)
  <2> DEFINE t == x.t
             marks == SetMember(t.vtepEtree, <<b.k.addr, Bd>>, b.k.on)
             room == marks \subseteq t.vtepEtree \/ Cardinality(marks) <= t.cap.vtepEtree
             marked == IF room THEN [t EXCEPT !.vtepEtree = marks] ELSE t
             row == Row(b.idx, SlotRow(0, {}, IF b.k.on THEN "root" ELSE "none"))
             slot == room /\ b.idx # 0
             u == [x EXCEPT !.t = marked]
             y == [x EXCEPT !.t = IF slot THEN SlotEsSet(marked, row) ELSE marked]
  <2>1. Put(k, y)
    BY <1>12 DEF MarkRemoteProgram
  <2>2. u.t = marked /\ x = [x EXCEPT !.t = x.t]
    BY <1>2 DEF Shape
  <2>3. Aside(x, u)
    <3>1. CASE room
      <4>1. u = [x EXCEPT !.t = [x.t EXCEPT !.vtepEtree = marks]]
        BY <3>1
      <4> HIDE DEF marks, u
      <4> QED
        BY <1>2, <4>1, TablesAside
    <3>2. CASE ~room
      BY <1>2, <2>2, <3>2, TablesAside
    <3> QED
      BY <3>1, <3>2
  <2>4. y = [u EXCEPT !.t = SlotEsSet(u.t, row)] \/ y = u
    <3> HIDE DEF marked, row, slot
    <3> QED
      BY <1>2, <2>2 DEF Shape
  <2> HIDE DEF u, y, row
  <2>5. Aside(u, y)
    <3>1. Shape(u) /\ SegmentFields(u)
      BY <2>3 DEF Aside, SegmentsSame
    <3>2. Aside(u, u) /\ Aside(u, [u EXCEPT !.t = SlotEsSet(u.t, row)])
      BY <3>1, SlotTablesAside, TablesAside
    <3> QED
      BY <2>4, <3>2
  <2> QED
    BY <1>3, <2>1, <2>3, <2>5, AsideTwice
<1>13. CASE MarkRemoteUndo(b)
  <2>1. \E v : Put(k, [x EXCEPT !.c.remotes = v])
    BY <1>13 DEF MarkRemoteUndo
  <2> QED
    BY <1>2, <1>3, <2>1, ControlsAside
<1> QED
  BY <1>5, <1>6, <1>7, <1>8, <1>9, <1>10, <1>11, <1>12, <1>13 DEF GoesOn

LEMMA NextRows ==
    ASSUME \A s \in Scenarios : Orderly(s), Inv, RowsInv, [Next]_vars
    PROVE  RowsInv'
<1>1. ASSUME NEW k, Call(k) PROVE RowsInv'
  BY <1>1, SteadyCalls, LeafCalls, SlotCallsBegin DEF Call
<1>2. ASSUME NEW b \in busy, GoesOn(b) PROVE RowsInv'
  BY <1>2, SlotCallsGoOn
<1>3. CASE UNCHANGED vars
  BY <1>3 DEF vars, RowsInv
<1> QED
  BY <1>1, <1>2, <1>3 DEF Next, Over

LEMMA InitRows ==
    ASSUME \A s \in Scenarios : FromBare(s), Init
    PROVE  RowsInv
<1> SUFFICES ASSUME NEW n \in Nodes PROVE SegmentsSound(pe[n]) /\ LeavesSound(pe[n])
  BY DEF RowsInv
<1> DEFINE x == pe[n]
<1>1. Unused(x) /\ Bare(x)
  BY DEF Init, FromBare, Orderly
<1> HIDE DEF x
<1>2. Shape(x) /\ SegmentFields(x)
  BY <1>1 DEF Unused, Bare, Shape, SegmentFields
<1>3. SegmentsTyped(x.c.es)
  BY <1>1 DEF Bare, SegmentsTyped, IsFcn
<1>4. Traced(x.c.es, x.t, x.c)
  BY <1>1 DEF Bare, Traced, PortsTraced, StandbysTraced, PeersTraced, GroupsTraced, LabelsTraced
<1>5. LeavesSound(x)
  <2>1. IndexesOnce(x.c, x.t.ports)
    BY <1>1 DEF Unused, Bare, IndexesOnce, DevicesApart
  <2>2. RowsOnce(x.c.dev, x.c.etreeRows, x.c.next) /\ x.t.portEtree = Range(x.c.etreeRows)
    BY <1>1 DEF Bare, RowsOnce, Range
  <2>3. DOMAIN x.t.ports = {}
    BY <1>1 DEF Bare
  <2> QED
    BY <2>1, <2>2, <2>3 DEF LeavesSound, LeavesTyped
<1> QED
  BY <1>2, <1>3, <1>4, <1>5 DEF SegmentsSound, x

LEMMA RowsInvIds ==
    ASSUME RowsInv
    PROVE  IdsInUse
<1> SUFFICES ASSUME NEW n \in Nodes
             PROVE  LET t == pe[n].t
                        c == pe[n].c
                        ids == {c.es[e].id : e \in DOMAIN c.es}
                    IN  /\ \A e, f \in DOMAIN c.es : c.es[e].id = c.es[f].id => e = f
                        /\ \A i \in DOMAIN t.portEs \ c.lostPorts : \E e \in DOMAIN c.es :
                              c.es[e].id = t.portEs[i] /\ i \in c.es[e].portRows
                        /\ \A a \in DOMAIN t.vtepEs \ c.lostPeers : \A id \in t.vtepEs[a] :
                              \E e \in DOMAIN c.es : c.es[e].id = id /\ a \in c.es[e].peerRows
                        /\ DOMAIN t.nhg \subseteq ids /\ Range(t.esiLabel) \subseteq ids
                        /\ \A i \in DOMAIN t.esDf \ c.lostPorts :
                              \E e \in DOMAIN c.es : i \in c.es[e].dfRows
  BY Zenon DEF IdsInUse
<1> DEFINE t == pe[n].t
           c == pe[n].c
           es == c.es
           ids == {es[e].id : e \in DOMAIN es}
<1>1. SegmentsTyped(es) /\ Traced(es, t, c)
  BY DEF RowsInv, SegmentsSound
<1>2. \A e, f \in DOMAIN es : es[e].id = es[f].id => e = f
  BY <1>1 DEF SegmentsTyped
<1>3. /\ PortsTraced(es, t.portEs, c.lostPorts) /\ StandbysTraced(es, t.esDf, c.lostPorts)
      /\ PeersTraced(es, t.vtepEs, c.lostPeers)
  BY <1>1 DEF Traced
<1>4. DOMAIN t.nhg \subseteq ids
  BY <1>1 DEF Traced, GroupsTraced
<1>5. Range(t.esiLabel) \subseteq ids
  BY <1>1 DEF Traced, LabelsTraced, Range
<1> QED
  BY <1>2, <1>3, <1>4, <1>5, Zenon DEF PortsTraced, StandbysTraced, PeersTraced

LEMMA RowsInvLeaves ==
    ASSUME RowsInv
    PROVE  LeafRows
<1> SUFFICES ASSUME NEW n \in Nodes
             PROVE  LET t == pe[n].t
                        c == pe[n].c
                    IN  /\ t.portEtree = Range(c.etreeRows)
                        /\ \A p \in DOMAIN c.dev : c.dev[p] \in DOMAIN t.ports =>
                              (c.dev[p] \in t.portEtree <=> p \in c.leaves \ c.unmarked)
  BY Zenon DEF LeafRows
<1> DEFINE t == pe[n].t
           c == pe[n].c
<1>1. LeavesSound(pe[n])
  BY DEF RowsInv
<1>2. t.portEtree = Range(c.etreeRows) /\ RowsOnce(c.dev, c.etreeRows, c.next)
  BY <1>1 DEF LeavesSound, LeavesTyped
<1>3. \A p \in DOMAIN c.dev : c.dev[p] \in DOMAIN t.ports => RowExact(c, p)
  BY <1>1 DEF LeavesSound
<1> HIDE DEF t, c
<1>4. ASSUME NEW p \in DOMAIN c.dev
      PROVE  c.dev[p] \in t.portEtree <=> (p \in DOMAIN c.etreeRows /\ c.etreeRows[p] = c.dev[p])
  BY <1>2 DEF Range, RowsOnce
<1>5. ASSUME NEW p \in DOMAIN c.dev, c.dev[p] \in DOMAIN t.ports
      PROVE  c.dev[p] \in t.portEtree <=> p \in c.leaves \ c.unmarked
  BY <1>3, <1>4, <1>5 DEF RowExact
<1>6. \A p \in DOMAIN c.dev : c.dev[p] \in DOMAIN t.ports =>
         (c.dev[p] \in t.portEtree <=> p \in c.leaves \ c.unmarked)
  BY <1>5
<1> QED
  BY <1>2, <1>6 DEF t, c

\* Wherever nodes begin bare, for any nodes and calls, however many ids there are
\* and however small the maps: two segments never share an id, and a row of
\* PORT_ES, VTEP_ES, ES_NHG, ESI_LABEL or ES_DF is remembered by a segment that
\* has its id (es_render), so that one made by a late call (es_entry) takes no
\* such row over from one that is gone (del_ethernet_segment), whichever calls
\* share ports, find no id free or interleave.  Excepted are the rows of an
\* es_render that found ES_DF, PORT_ES or VTEP_ES full, and the ids in SLOT_ES and
\* FDB, which the segments do not remember.
THEOREM SegmentIdsInUse ==
    ASSUME \A s \in Scenarios : FromBare(s)
    PROVE  Spec => []IdsInUse
<1>1. \A s \in Scenarios : Orderly(s)
  BY DEF FromBare
<1>2. Init => Inv /\ RowsInv
  BY <1>1, InitSound, InitRows
<1>3. Inv /\ RowsInv /\ [Next]_vars => Inv' /\ RowsInv'
  BY <1>1, NextSound, NextRows
<1>4. RowsInv => IdsInUse
  BY RowsInvIds
<1> QED
  BY <1>2, <1>3, <1>4, PTL DEF Spec

\* From the same: PORT_ETREE has the rows that etree_render remembers and no other,
\* and a port in PORTS is a leaf of the datapath exactly if it has the role, in
\* whichever order the device, set_etree_role and set_port come, and whatever
\* ifindex a port comes back with; but for a port whose last call found
\* PORT_ETREE full, which is not marked.
THEOREM LeafRowsExact ==
    ASSUME \A s \in Scenarios : FromBare(s)
    PROVE  Spec => []LeafRows
<1>1. \A s \in Scenarios : Orderly(s)
  BY DEF FromBare
<1>2. Init => Inv /\ RowsInv
  BY <1>1, InitSound, InitRows
<1>3. Inv /\ RowsInv /\ [Next]_vars => Inv' /\ RowsInv'
  BY <1>1, NextSound, NextRows
<1>4. RowsInv => LeafRows
  BY RowsInvLeaves
<1> QED
  BY <1>2, <1>3, <1>4, PTL DEF Spec
=============================================================================
