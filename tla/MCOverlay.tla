----------------------------- MODULE MCOverlay -----------------------------
(***************************************************************************)
(* Three nodes, each an underlay neighbour of the others.  Customer a is   *)
(* attached to nodes 1 and 2 (segment e1, node 2 forwards), b to node 3;   *)
(* c and further ones where a scenario says.                               *)
(***************************************************************************)
EXTENDS Overlay

MCNodes == 1..3
Loop(n) == <<5, n, 0, 0>>
Dt2u(n) == <<9, n, 1, 0>>
Dt2m(n, arg) == <<9, n, 2, arg>>
Vni == 10
Label(n) == 100 + n

Sid(pfx, bh, arg) == [pfx |-> pfx, bh |-> bh, nh |-> 0, vrf |-> Bd, flav |-> {}, blk |-> 1,
                      geo |-> TRUE, arg |-> arg]
Route(pfx, nh) == [vrf |-> 0, pfx |-> pfx, fl |-> "plain", nh |-> nh]
Maps == {"nhg", "esDf", "portEs", "vtepEs", "esiLabel", "portEtree", "slotEs", "vtepEtree"}
Tables(n) ==
    [sids |-> {Sid(Dt2u(n), "DT2U", FALSE), Sid(<<9, n, 2>>, "DT2M", TRUE)},
     fib |-> UNION {{Route(<<5, m>>, m), Route(<<9, m>>, m)} : m \in MCNodes \ {n}},
     nh |-> [m \in MCNodes \ {n} |-> [to |-> m, neigh |-> TRUE, fl |-> "plain", labels |-> <<>>,
                                      pipe |-> FALSE, backup |-> 0]],
     ilm |-> (Label(n) :> [op |-> "popl2", vrf |-> Bd, nh |-> 0, uniform |-> FALSE]),
     vni |-> (Vni :> [kind |-> "l2", v |-> Bd, rmac |-> 0]), vlanVni |-> Vni,
     vtep |-> None, vtep6 |-> Loop(n), src |-> Loop(n), ports |-> <<>>, dx2v |-> <<>>,
     leafArgs |-> {}, vtepEs |-> <<>>, vtepEtree |-> {}, esiLabel |-> <<>>, leafLabels |-> {},
     members |-> <<>>, fdb |-> <<>>, esDf |-> <<>>, portEs |-> <<>>, portEtree |-> {},
     slotEs |-> <<>>, replSid |-> <<>>, nhg |-> <<>>, cap |-> [m \in Maps |-> 99]]
Names == {"a", "b", "c", "f", "g"}
Start == [n \in MCNodes |->
            [t |-> Tables(n),
             c |-> [dev |-> [p \in Names |-> 0], next |-> 10 * n, es |-> <<>>, leaves |-> {},
                    etreeRows |-> <<>>, remotes |-> {}, groups |-> <<>>, slots |-> <<>>,
                    vtepBits |-> <<>>, leafLabel |-> 0, leafArg |-> 0,
                    lostPorts |-> {}, lostPeers |-> {}, unmarked |-> {}]]]

\* The calls.
Seg(n, ports, label) == [n |-> n, op |-> "segment", esi |-> "e1", ports |-> ports, label |-> label]
SegOf(n, esi, ports, label) == [Seg(n, ports, label) EXCEPT !.esi = esi]
Unseg(n, esi) == [n |-> n, op |-> "delsegment", esi |-> esi]
Role(n, df, sa) == [n |-> n, op |-> "role", esi |-> "e1", df |-> df, sa |-> sa]
Peers(n, peers) == [n |-> n, op |-> "peers", esi |-> "e1", peers |-> peers]
Nhg(n, esi, members, sa) ==
    [n |-> n, op |-> "nhg", esi |-> esi, members |-> members, sa |-> sa]
Dev(n, p) == [n |-> n, op |-> "device", port |-> p]
PortUp(n, p) == [n |-> n, op |-> "port", port |-> p]
Domain(n, ports) == [n |-> n, op |-> "domain", ports |-> ports]
LeafRole(n, p, leaf) == [n |-> n, op |-> "etree", port |-> p, leaf |-> leaf]
Fdb(n, mac, kind, m, leaf) ==
    [n |-> n, op |-> "fdb", mac |-> mac, kind |-> kind, nh |-> 0, leaf |-> leaf,
     addr |-> IF kind = "srv6" THEN Dt2u(m) ELSE Loop(m),
     label |-> IF kind = "mpls" THEN Label(m) ELSE 0]
FdbEs(n, mac, esi, leaf) == [n |-> n, op |-> "fdbes", mac |-> mac, esi |-> esi, leaf |-> leaf]
FdbAt(n, mac, p) == [n |-> n, op |-> "fdblocal", mac |-> mac, port |-> p]
Unfdb(n, mac) == [n |-> n, op |-> "delfdb", mac |-> mac]
Target(kind, m, extra) ==
    [kind |-> kind, extra |-> IF kind = "mpls" THEN extra ELSE 0,
     addr |-> IF kind = "srv6" THEN Dt2m(m, extra) ELSE Loop(m),
     aux |-> CASE kind = "mpls" -> Label(m) [] kind = "vxlan" -> Vni [] OTHER -> 0]
GroupKey(kind, m) == CASE kind = "mpls" -> <<Loop(m), Label(m)>> [] kind = "srv6" -> <<Dt2m(m, 0), 0>>
                       [] OTHER -> None
Slot(n, kind, m, role, extra) ==
    [n |-> n, op |-> "addslot", role |-> role, target |-> Target(kind, m, extra),
     addr |-> IF kind = "srv6" THEN Dt2m(m, 0) ELSE Loop(m),
     slot |-> IF role = "plain" THEN "" ELSE role, group |-> GroupKey(kind, m)]
Plain(n, kind, m) == Slot(n, kind, m, "plain", 0)
UnslotOf(n, kind, m, slot) == [n |-> n, op |-> "delslot", slot |-> slot,
                               addr |-> IF kind = "srv6" THEN Dt2m(m, 0) ELSE Loop(m)]
Unslot(n, kind, m) == UnslotOf(n, kind, m, "")
StaticSlot(n, kind, m, role, extra) ==
    [n |-> n, op |-> "staticslot", flood |-> "f", encap |-> "g", role |-> role,
     target |-> Target(kind, m, extra), group |-> GroupKey(kind, m)]
Mark(n, m, on) == [n |-> n, op |-> "remote", addr |-> Loop(m), on |-> on]
RootOnly(n, kind, m) == [n |-> n, op |-> "rootonly", key |-> GroupKey(kind, m), on |-> TRUE]
LeafLabel(n, l) == [n |-> n, op |-> "leaflabel", label |-> l]
LeafArg(n, v) == [n |-> n, op |-> "leafarg", arg |-> v]

Ce(at, leaf) == [mac |-> 0, at |-> at, from |-> at, leaf |-> leaf]
Ces3(ces) == [x \in DOMAIN ces |-> [ces[x] EXCEPT !.mac = x]]
Scn(ces, prep, calls, sends) ==
    [pe |-> Start, ces |-> Ces3(ces), setup |-> prep, todo |-> calls, sends |-> sends]
Ports(n, ps) ==
    SetToSeq({Dev(n, p) : p \in ps}) \o SetToSeq({PortUp(n, p) : p \in ps}) \o <<Domain(n, ps)>>

A12 == "A" :> Ce({<<1, "a">>, <<2, "a">>}, FALSE)
B3 == "B" :> Ce({<<3, "b">>}, FALSE)
All3 == Ports(1, {"a", "c"}) \o Ports(2, {"a", "c"}) \o Ports(3, {"b", "c"})
Mesh(kind) == <<Plain(2, kind, 1), Plain(2, kind, 3), Plain(3, kind, 1), Plain(3, kind, 2)>>

\* A segment over VXLAN or SRv6: what node 1 is told, and node 3 of the
\* stations behind it, arrives in any order.  sa: single-active, node 2 alone.
\* C is at the node that forwards, D at the one that does not.
Homed(kind, sa) ==
    LET from == IF sa THEN {<<2, "a">>} ELSE {<<1, "a">>, <<2, "a">>}
        member(m) == [Target(kind, m, 0) EXCEPT !.addr = IF kind = "srv6" THEN Dt2u(m) ELSE Loop(m)]
        others == ("C" :> Ce({<<2, "c">>}, FALSE)) @@ ("D" :> Ce({<<1, "c">>}, FALSE))
    IN  Scn([(A12 @@ B3 @@ others) EXCEPT !["A"].from = from],
            All3 \o Mesh(kind) \o
            <<Seg(2, {"a"}, 0), Role(2, TRUE, sa), Peers(2, {Loop(1)}),
              FdbAt(2, "A", "a"), FdbAt(2, "C", "c"), Fdb(2, "B", kind, 3, FALSE),
              FdbAt(3, "B", "b"), Fdb(3, "C", kind, 2, FALSE)>>,
            {Seg(1, {"a"}, 0), Role(1, FALSE, sa), Peers(1, {Loop(2)}), Plain(1, kind, 2),
             Plain(1, kind, 3), Fdb(1, "B", kind, 3, FALSE), Fdb(1, "C", kind, 2, FALSE), FdbAt(1, "A", "a"),
             Nhg(3, "e1", <<member(2), member(1)>>, sa), FdbEs(3, "A", "e1", FALSE)},
            {<<"B", "A">>, <<"A", "B">>, <<"A", "C">>, <<"C", "A">>, <<"C", "B">>})

\* The same over MPLS, where ESI labels keep the segments apart and a customer
\* may be at a node that does not forward.
HomedMpls ==
    Scn(A12 @@ B3 @@ ("C" :> Ce({<<1, "c">>}, FALSE)),
        All3 \o Mesh("mpls") \o
        <<Seg(2, {"a"}, 52), Role(2, TRUE, FALSE), Slot(2, "mpls", 1, "e1", 51),
          FdbAt(1, "C", "c"), FdbAt(1, "A", "a"), Fdb(3, "C", "mpls", 1, FALSE)>>,
        {Seg(1, {"a"}, 51), Role(1, FALSE, FALSE), Plain(1, "mpls", 2),
         Slot(1, "mpls", 2, "e1", 52), Plain(1, "mpls", 3)},
        {<<"B", "C">>, <<"C", "A">>})

\* E-Tree.  VXLAN: nodes 1 and 2 have leaves only, and node 3 is told so while
\* its slots come up.
LeafAt(n, p) == Ce({<<n, p>>}, TRUE)
Tree == ("L" :> LeafAt(1, "c")) @@ ("M" :> LeafAt(3, "c")) @@ B3
TreeVxlan ==
    Scn(Tree @@ ("K" :> LeafAt(2, "c")),
        <<LeafRole(3, "c", TRUE)>> \o All3 \o
        <<LeafRole(1, "c", TRUE), LeafRole(2, "c", TRUE), Mark(1, 2, TRUE), Plain(1, "vxlan", 2),
          Plain(1, "vxlan", 3), Mark(2, 1, TRUE), Plain(2, "vxlan", 1), Plain(2, "vxlan", 3)>>,
        {Mark(3, 1, TRUE), Mark(3, 2, TRUE), Plain(3, "vxlan", 1), Plain(3, "vxlan", 2),
         Fdb(3, "L", "vxlan", 1, TRUE)},
        {<<"B", "L">>, <<"M", "L">>})
\* Node 2 leaves it again.
TreeLeaves ==
    Scn(Tree,
        All3 \o <<LeafRole(1, "c", TRUE), LeafRole(3, "c", TRUE), Plain(1, "vxlan", 3),
                  Mark(3, 1, TRUE), Mark(3, 2, TRUE), Plain(3, "vxlan", 1), Plain(3, "vxlan", 2),
                  Fdb(3, "K", "vxlan", 2, TRUE), Fdb(3, "L", "vxlan", 1, TRUE)>>,
        {Unslot(3, "vxlan", 2), Mark(3, 2, FALSE), Unfdb(3, "K"), Plain(3, "vxlan", 1)},
        {<<"B", "L">>, <<"M", "L">>})
\* MPLS leaf labels and SRv6 leaf arguments: both nodes have roots and leaves.
TreeMarked(kind) ==
    LET own(n, v) == IF kind = "mpls" THEN LeafLabel(n, v) ELSE LeafArg(n, v)
    IN  Scn(Tree @@ ("R" :> Ce({<<1, "a">>}, FALSE)),
            All3 \o <<LeafRole(1, "c", TRUE), own(1, 61), Plain(1, kind, 3),
                      Slot(1, kind, 3, "leaf", 63)>>,
            {LeafRole(3, "c", TRUE), own(3, 63), Plain(3, kind, 1), Slot(3, kind, 1, "leaf", 61)},
            {})
\* A node whose leaf argument has no place, with nothing but leaves.
TreeRootOnly ==
    Scn(("L" :> LeafAt(1, "c")) @@ ("M" :> LeafAt(3, "c")) @@ B3,
        All3 \o <<LeafRole(1, "c", TRUE), LeafArg(3, 63), Slot(1, "srv6", 3, "leaf", 63),
                  Plain(1, "srv6", 3)>>,
        {LeafRole(3, "c", TRUE), RootOnly(3, "srv6", 1), Plain(3, "srv6", 1), Fdb(3, "L", "srv6", 1, TRUE)},
        {<<"M", "L">>, <<"B", "L">>})

\* One tunnel for all broadcasts, and slots on devices of the operator.
Sentinel == Scn(B3 @@ ("C" :> Ce({<<1, "c">>}, FALSE)), Ports(1, {"c"}) \o Ports(3, {"b"}),
                {Fdb(1, Bum, "vxlan", 3, FALSE), Fdb(3, Bum, "vxlan", 1, FALSE), FdbAt(3, "B", "b")},
                {<<"C", "B">>})
Static == Scn(B3 @@ ("C" :> Ce({<<1, "c">>}, FALSE)),
              <<Dev(1, "g"), Dev(1, "f")>> \o Ports(1, {"c"}) \o Ports(3, {"b"}) \o
              <<Dev(1, "f"), Dev(1, "c"), PortUp(1, "c"), Domain(1, {"c", "f"})>>,
              {StaticSlot(1, "mpls", 3, "plain", 0), Plain(3, "srv6", 1), LeafRole(1, "c", TRUE)}, {})
\* Node 1 gives its segment up.
Unhomed ==
    Scn(("A" :> Ce({<<2, "a">>}, FALSE)) @@ B3,
        All3 \o Mesh("vxlan") \o
        <<Seg(1, {"a"}, 0), Role(1, FALSE, FALSE), Peers(1, {Loop(2)}), Plain(1, "vxlan", 2),
          Seg(2, {"a"}, 0), Role(2, FALSE, FALSE), Peers(2, {Loop(1)})>>,
        {Unseg(1, "e1"), Role(2, TRUE, FALSE), Peers(2, {}), FdbAt(2, "A", "a")}, {})
\* More segments than ids, while one that has rows goes and a slot brings it back.
Reused ==
    Scn(<<>>,
        Ports(1, {"a", "c"}) \o
        <<Seg(1, {"a"}, 51), Role(1, FALSE, TRUE), Peers(1, {Loop(2)}), FdbEs(1, "M", "e4", FALSE),
          LeafRole(1, "f", TRUE), Dev(1, "f"), PortUp(1, "f"), Dev(1, "f")>>,
        {Unseg(1, "e1"), SegOf(1, "e2", {"c"}, 52), Nhg(1, "e3", <<Target("mpls", 3, 0)>>, FALSE),
         Unseg(1, "e3"), SegOf(1, "e3", {"b"}, 53), Slot(1, "mpls", 2, "e1", 52), Dev(1, "b"),
         RootOnly(1, "mpls", 2), LeafRole(1, "f", FALSE)},
        {})
\* A device of a segment and of the E-Tree is made again.
Replugged ==
    Scn(<<>>,
        Ports(1, {"a", "c"}) \o
        <<Seg(1, {"a"}, 0), Role(1, FALSE, FALSE), LeafRole(1, "c", TRUE)>>,
        {Dev(1, "a"), PortUp(1, "a"), LeafRole(1, "a", TRUE), Dev(1, "c"), PortUp(1, "c"),
         LeafRole(1, "c", FALSE), Seg(1, {"a", "c"}, 0), Unseg(1, "e1")},
        {})
\* The slots of a group go while its segment does and the ids run out.
Regrouped ==
    Scn(<<>>,
        Ports(1, {"a"}) \o
        <<Seg(1, {"a"}, 51), FdbEs(1, "M", "e2", FALSE), FdbEs(1, "N", "e3", FALSE),
          Plain(1, "mpls", 2), Slot(1, "mpls", 2, "e1", 52)>>,
        {Unseg(1, "e1"), FdbEs(1, "K", "e4", FALSE), Unslot(1, "mpls", 2),
         UnslotOf(1, "mpls", 2, "e1"), Slot(1, "mpls", 2, "leaf", 61)},
        {})
\* A mark, and the slot it is for goes and comes back.
Overrun ==
    Scn(<<>>, Ports(3, {"b"}) \o <<Plain(3, "vxlan", 1), Plain(3, "vxlan", 2)>>,
        {Mark(3, 1, TRUE), Unslot(3, "vxlan", 1), Plain(3, "vxlan", 1), Mark(3, 2, TRUE)}, {})

\* Maps of node 1 with little room.
Full(s, maps) == [s EXCEPT !.pe[1].t.cap = maps @@ @]
FullSegments ==
    Full(Scn(<<>>,
             Ports(1, {"a", "b", "c"}) \o <<Seg(1, {"a"}, 51), Peers(1, {Loop(2)})>>,
             {Role(1, FALSE, FALSE), Seg(1, {"a", "b"}, 53), Peers(1, {Loop(2), Loop(3)}),
              Nhg(1, "e1", <<Target("mpls", 3, 0)>>, FALSE), Nhg(1, "e2", <<Target("mpls", 3, 0)>>, FALSE),
              SegOf(1, "e2", {"c"}, 52), Unseg(1, "e1"), Unseg(1, "e2")},
             {}),
         [m \in {"esDf", "vtepEs", "esiLabel", "nhg"} |-> 1] @@ ("portEs" :> 2))
FullMarks ==
    Full(Scn(<<>>, <<LeafRole(1, "a", TRUE)>> \o Ports(1, {"a", "c"}) \o <<Plain(1, "vxlan", 3)>>,
             {Mark(1, 2, TRUE), Mark(1, 3, TRUE), Plain(1, "vxlan", 2), LeafRole(1, "c", TRUE),
              PortUp(1, "c"), LeafRole(1, "a", FALSE), Plain(1, "mpls", 2), Slot(1, "mpls", 2, "leaf", 61)},
             {}),
         [m \in {"slotEs", "vtepEtree", "portEtree"} |-> 1])

MCScenarios == {Homed("vxlan", FALSE), Homed("srv6", FALSE), Homed("vxlan", TRUE), HomedMpls,
                TreeVxlan, TreeLeaves, TreeMarked("mpls"), TreeMarked("srv6"), TreeRootOnly,
                Sentinel, Static, Unhomed, Reused, Replugged, Regrouped, Overrun, FullSegments,
                FullMarks}

\* The instance is one the proofs speak of.
ASSUME InstanceAssumption == \A s \in Scenarios : FromBare(s)
=============================================================================
