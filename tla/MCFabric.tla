------------------------------ MODULE MCFabric -----------------------------
(***************************************************************************)
(* Four nodes in a ring, 1 - 2 - 3 - 4 - 1, a packet goes clockwise when   *)
(* that is no longer.  Customers 11 (VRF 1), 12 (VRF 2) and 10 (global) at *)
(* node 1 send to customers 41, 42 and 40 at node 4, who all have the same *)
(* address; 31 and 21 are further sites of VRF 1.                          *)
(***************************************************************************)
EXTENDS Fabric, TLC

MCNodes == 1..4
Cw(n) == (n % 4) + 1
Ccw(n) == ((n + 2) % 4) + 1
Toward(n, m) == IF (m - n) % 4 \in {1, 2} THEN Cw(n) ELSE Ccw(n)

Dst == <<1, 1, 1, 1>>
Src == <<2, 2, 2, 2>>
Cust(k, hop) == Ip(k, Src, Dst, hop)
Loop(n) == <<5, n, 0, 0>>
Loop4(n) == <<4, n, 0, 0>>

Nh(to, fl, labels) == [to |-> to, neigh |-> TRUE, fl |-> fl, labels |-> labels,
                       pipe |-> FALSE, backup |-> 0]
Route(vrf, pfx, nh) == [vrf |-> vrf, pfx |-> pfx, fl |-> "plain", nh |-> nh]
Sid(pfx, bh, nh, vrf, flav) == [pfx |-> pfx, bh |-> bh, nh |-> nh, vrf |-> vrf,
    flav |-> flav, blk |-> 1, geo |-> TRUE, arg |-> FALSE]

\* SIDs every node has: block 9 classic, 8 NEXT-C-SID, 7 REPLACE-C-SID.
Classic(n, f) == <<9, n, f, 0>>
SidsOf(n) ==
    {Sid(Classic(n, 1), "End", 0, 0, {}), Sid(Classic(n, 2), "End", 0, 0, {"psp"}),
     Sid(Classic(n, 3), "X", 100 + Cw(n), 0, {}), Sid(Classic(n, 4), "X", 100 + Cw(n), 0, {"psp"}),
     Sid(Classic(n, 5), "End", 0, 0, {"usd"}), Sid(Classic(n, 6), "B6", 6, 0, {}),
     Sid(Classic(n, 7), "M", 0, 7, {}), Sid(Classic(n, 8), "Replicate", 0, 0, {}),
     Sid(Classic(n, 9), "X", 100 + Ccw(n), 0, {"psp"}), Sid(Classic(n, 10), "T", 0, 3, {}),
     Sid(Classic(n, 31), "DT4", 0, 1, {}), Sid(Classic(n, 32), "DT46", 0, 2, {}),
     Sid(Classic(n, 41), "DX4", 201, 0, {}), Sid(Classic(n, 51), "DX2", 0, 45, {}),
     Sid(Classic(n, 52), "DX2V", 0, 9, {}),
     Sid(<<8, n>>, "uN", 0, 0, {}), Sid(<<8, 50 + n>>, "uALib", 100 + Cw(n), 0, {}),
     Sid(<<8, n, 31>>, "DT4", 0, 1, {}), Sid(<<8, n, 32>>, "DT46", 0, 2, {}),
     Sid(<<7, n>>, "rep", 0, 0, {"usd"}), Sid(<<7, 10 + n>>, "rep", 0, 0, {"psp"}),
     Sid(<<7, 20 + n>>, "Xrep", 100 + Cw(n), 0, {}), Sid(<<7, 30 + n>>, "DT4", 0, 1, {})}

\* The locators of node m, and node n's route to them.
Locators(m) == {<<9, m>>, <<8, m>>, <<7, m>>, <<7, 10 + m>>, <<7, 20 + m>>, <<7, 30 + m>>,
                <<5, m>>, <<4, m>>}
CoreRoutes(n) == UNION {{Route(0, p, 100 + Toward(n, m)) : p \in Locators(m)} : m \in MCNodes \ {n}}
Sites(n) == {Route(v, <<1>>, 200 + v) : v \in IF n = 1 THEN {} ELSE 0..2}

Table(n) ==
    [mode |-> "full", sids |-> SidsOf(n), fib |-> CoreRoutes(n) \cup Sites(n),
     nh |-> [i \in {100 + Cw(n), 100 + Ccw(n)} |-> Nh(i - 100, "plain", <<>>)]
            @@ [i \in 200..202 |-> Nh(10 * n + (i - 200), "plain", <<>>)]
            @@ (0 :> Nh(None, "plain", <<>>)),
     group |-> <<>>, encap |-> <<>>, gtp |-> <<>>, gtp6 |-> <<>>, vxlan |-> <<>>, ilm |-> <<>>,
     pdr |-> (<<0, Loop4(n), 3>> :> 1), pdr6 |-> (<<0, Loop(n), 3>> :> 1),
     vni |-> (5 :> [kind |-> "l3", v |-> 1, rmac |-> n]) @@ (6 :> [kind |-> "eline", v |-> 45, rmac |-> 0]),
     vtep |-> Loop4(n), vtep6 |-> Loop(n), src |-> Loop(n), room |-> TRUE,
     mirror |-> {}, replSeg |-> <<>>, dx2v |-> (<<9, 7>> :> 46),
     xvlan |-> <<>>, xconnect |-> <<>>,
     ports |-> [i \in {Cw(n), Ccw(n)} |-> 0] @@ [i \in {10 * n, 10 * n + 1, 10 * n + 2} |-> i % 10],
     leafArgs |-> {}, vtepEs |-> <<>>, vtepEtree |-> {}, esiLabel |-> <<>>, leafLabels |-> {}]
Tables == [n \in MCNodes |-> Table(n)]

\* Updates of node tables.
With(tbl, n, f, v) == [tbl EXCEPT ![n] = [@ EXCEPT ![f] = v @@ @]]
AddRoute(tbl, n, r) == [tbl EXCEPT ![n].fib = @ \cup {r}]
Backup(tbl, n, id, b) == [tbl EXCEPT ![n].nh = [@ EXCEPT ![id].backup = b]]

Scn(tbl, iif, hs, links, paths, out, sure) ==
    [tbl |-> tbl, node |-> 1, iif |-> iif, hs |-> hs, links |-> links,
     paths |-> paths, out |-> out, sure |-> sure]
Deliver(at, hs) == [at |-> at, hs |-> hs]

\* A customer of VRF v sends a packet of kind k, which node 1 steers into a
\* policy; it is delivered at node 4, its TTL lower by `cost'.
Steered(v, k, segs, path, cost) ==
    LET t1 == With(Tables, 1, "nh", 1 :> Nh(Toward(1, segs[1][2] % 10), "srv6", <<>>))
        t2 == With(t1, 1, "encap", 1 :> [segs |-> segs, insert |-> FALSE])
        tbl == AddRoute(t2, 1, Route(v, <<1>>, 1))
        d == Deliver(40 + v, <<Cust(k, 9 - cost)>>)
    IN  Scn(tbl, 10 + v, <<Cust(k, 9)>>, {}, {path}, {d}, {{d}})

\* Sequences of at most n elements of S, neighbours in the sequence at
\* different nodes.
Walks(Stops, n, At_(_)) ==
    {w \in UNION {[1..k -> Stops] : k \in 0..n} :
        \A i \in 1..(Len(w) - 1) : At_(w[i]) # At_(w[i + 1])}

\* Classic segment lists.
ClassicWalks == Walks({<<9, n, f, 0>> : n \in {2, 3}, f \in 1..4}, 3, LAMBDA s : s[2])
Nodes2(w) == [i \in 1..Len(w) |-> w[i][2]]
ClassicGroup ==
    {Steered(1, "ip4", w \o <<Classic(4, 31)>>, Nodes2(w) \o <<4>>, 1) : w \in ClassicWalks}
    \cup {Steered(2, k, w \o <<Classic(4, 32)>>, Nodes2(w) \o <<4>>, 1) :
            w \in {x \in ClassicWalks : Len(x) <= 1}, k \in {"ip4", "ip6"}}
    \cup {Steered(1, "ip4", w \o <<Classic(4, 41)>>, Nodes2(w) \o <<4>>, 0) :
            w \in {x \in ClassicWalks : Len(x) <= 1}}

\* uSID: steps of one unit (uN) or two (uN and a local adjacency), packed
\* into a first carrier and the carrier of the service.
Pad(u) == [i \in 1..AddrLen |-> IF i <= Len(u) THEN u[i] ELSE 0]
Steps == {<<2>>, <<3>>, <<2, 52>>, <<3, 53>>}
UsidWalks == {w \in Walks(Steps, 3, LAMBDA s : s[1]) : Len(FlattenSeq(w)) <= 3}
UsidGroup ==
    {Steered(v, "ip4",
             (IF w = <<>> THEN <<>> ELSE <<Pad(<<8>> \o FlattenSeq(w))>>)
                \o <<Pad(<<8>> \o FlattenSeq(l) \o <<4, 30 + v>>)>>,
             [i \in 1..Len(w) |-> w[i][1]] \o [i \in 1..Len(l) |-> l[i][1]] \o <<4>>, 1) :
        <<w, l, v>> \in {x \in UsidWalks \X Walks({<<2>>, <<3>>}, 1, LAMBDA s : s[1]) \X {1, 2} :
            x[1] # <<>> /\ x[2] # <<>> => Last(x[1])[1] # x[2][1][1]}}

\* REPLACE-C-SID: the first C-SID in the destination, then containers filled
\* from their last position down.
Container(cs) == [i \in 1..AddrLen |-> IF AddrLen + 1 - i <= Len(cs) THEN cs[AddrLen + 1 - i] ELSE 0]
RECURSIVE Containers(_)
Containers(cs) == IF Len(cs) <= AddrLen THEN (IF cs = <<>> THEN <<>> ELSE <<Container(cs)>>)
                  ELSE <<Container(SubSeq(cs, 1, AddrLen))>>
                       \o Containers(SubSeq(cs, AddrLen + 1, Len(cs)))
CsidList(cs) == <<<<7, cs[1], 0, 0>>>> \o Containers(Tail(cs))
NodesOf(cs) == [i \in 1..Len(cs) |-> cs[i] % 10]
CsidWalks == {w \in Walks({2, 3, 13, 22}, 6, LAMBDA c : c % 10) :
                Len(w) \in 1..6 /\ (Len(w) > 4 => Range(w) \cap {13} = {})}
ReplaceGroup ==
    {Steered(1, "ip4", CsidList(w \o <<34>>), NodesOf(w) \o <<4>>, 1) : w \in CsidWalks}
    \cup {Steered(0, "ip4", CsidList(w \o <<4>>), NodesOf(w) \o <<4>>, 1) : w \in CsidWalks}
    \cup {Steered(1, "ip4", CsidList(w) \o <<Classic(4, 31)>>, NodesOf(w) \o <<4>>, 1) :
            w \in {x \in CsidWalks : Len(x) \in {2, 3, 4}}}
    \cup {Steered(1, "ip4", CsidList(<<2, 3>>) \o CsidList(w \o <<34>>),
                  <<2, 3>> \o NodesOf(w) \o <<4>>, 1) :
            w \in {x \in CsidWalks : Len(x) <= 2 /\ x[1] % 10 = 2}}
    \cup {Steered(1, "ip4", CsidList(<<2, 3>>) \o CsidList(w \o <<34>>),
                  <<2, 3>> \o Tail(NodesOf(w)) \o <<4>>, 1) :
            w \in {x \in CsidWalks : Len(x) <= 2 /\ x[1] % 10 = 3}}

\* A binding SID at node 2: its policy ends at a node with USD.
Bound(w) ==
    LET sc == Steered(1, "ip4", <<Classic(2, 6), Classic(4, 31)>>, <<2>> \o Nodes2(w) \o <<4>>, 1)
        t1 == With(sc.tbl, 2, "encap", 6 :> [segs |-> w, insert |-> FALSE])
    IN  [sc EXCEPT !.tbl = t1]
BindGroup == {Bound(w \o <<Classic(1, 5)>>) : w \in {<<>>, <<Classic(3, 1)>>, <<Classic(3, 4)>>}}
             \cup {Bound(<<Classic(3, 5)>>)}

\* TI-LFA: node 2 protects its link to node 3 by an insertion through the
\* link 1 - 4; or node 1 its link to node 4 by an encapsulation to a mirror
\* SID of node 2, the protector of node 4's customers.
Protected(segs, path, repaired) ==
    LET sc == Steered(1, "ip4", segs, path, 1)
        t1 == With(sc.tbl, 2, "nh", 9 :> Nh(1, "srv6", <<>>))
        t2 == With(t1, 2, "encap", 9 :> [segs |-> <<Classic(1, 9)>>, insert |-> TRUE])
    IN  [sc EXCEPT !.tbl = Backup(t2, 2, 103, 9), !.links = {<<2, 3>>},
                   !.paths = {path} \cup repaired]
InsertGroup ==
    {Protected(<<Classic(3, 1), Classic(4, 31)>>, <<3, 4>>, {<<1, 3, 4>>}),
     Protected(<<Classic(3, 2), Classic(4, 31)>>, <<3, 4>>, {<<1, 3, 4>>}),
     Protected(<<Classic(2, 1), Classic(3, 1), Classic(4, 31)>>, <<2, 3, 4>>, {<<2, 1, 3, 4>>}),
     Protected(<<<<8, 2, 3, 0>>, <<8, 4, 31, 0>>>>, <<2, 3, 4>>, {<<2, 1, 3, 4>>}),
     Protected(CsidList(<<2, 3, 34>>), <<2, 3, 4>>, {<<2, 1, 3, 4>>})}

Mirrored(n, segs, path, repaired) ==
    LET sc == Steered(1, "ip4", segs, path, 1)
        t1 == With(sc.tbl, n, "nh", 8 :> Nh(Toward(n, 2), "srv6", <<>>))
        t2 == With(t1, n, "encap", 8 :> [segs |-> <<Classic(2, 7)>>, insert |-> FALSE])
        t3 == [t2 EXCEPT ![2].mirror = {[ctx |-> 7, pfx |-> Classic(4, 31), bh |-> "DT4", vrf |-> 1]}]
        out == {Deliver(c, <<Cust("ip4", 8)>>) : c \in {41, 21}}
    IN  [sc EXCEPT !.tbl = Backup(t3, n, 104, 8), !.links = {<<n, 4>>},
                   !.paths = {path, repaired}, !.out = out, !.sure = {out}]
\* A mirror entry that is not an End.DT: the repaired packet is dropped.
MirrorsCircuit(sc) ==
    [sc EXCEPT !.tbl[2].mirror = {[ctx |-> 7, pfx |-> Classic(4, 31), bh |-> "DX4", vrf |-> 1, nh |-> 201]},
               !.out = {Deliver(41, <<Cust("ip4", 8)>>)}, !.sure = {}]
MirrorGroup ==
    {Mirrored(1, <<Classic(4, 31)>>, <<4>>, <<2>>),
     MirrorsCircuit(Mirrored(1, <<Classic(4, 31)>>, <<4>>, <<2>>)),
     Mirrored(3, <<Classic(3, 1), Classic(4, 31)>>, <<3, 4>>, <<3, 2>>)}

\* An L3VPN over MPLS: a transport label to node 4 over 2 and 3, the VPN label
\* under it (of VRF 0: the transport label alone); the last hop of the transport
\* pops at node 3, or at node 4; or node 2 carries it in a further tunnel to
\* node 3.  The TTL of the transport label reaches the customer's packet only
\* when that label is the one popped to IP: 9 less a hop for nodes 2 and 3 (not
\* for node 3 when it pops the further tunnel's label) and one for node 4's
\* lookup.  Over a VPN label a uniform LSP costs one hop, as a pipe does.
Ilm(op, nh, vrf, uniform) == [op |-> op, nh |-> nh, vrf |-> vrf, uniform |-> uniform]
Vpn(last, push, uniform, v) ==
    LET tail == IF last = "uhp" THEN <<503>> ELSE <<>>
        mid == IF last = "grow" THEN <<600, 502>> ELSE <<502>>
        t1 == With(Tables, 1, "nh", 1 :> [Nh(2, "plain", IF v = 0 THEN <<501>> ELSE <<501, 700 + v>>)
                                    EXCEPT !.pipe = push])
        t2 == With(With(t1, 2, "nh", 2 :> Nh(3, "plain", mid)),
                   2, "ilm", 501 :> Ilm("swap", 2, 0, uniform))
        t3 == With(With(t2, 3, "nh", 3 :> Nh(4, "plain", tail)),
                   3, "ilm", (502 :> Ilm("swap", 3, 0, uniform)) @@ (600 :> Ilm("swap", 3, 0, uniform)))
        t4 == With(t3, 4, "ilm", [l \in {502, 503} |-> Ilm("pop", 0, 0, uniform)]
                                 @@ ((700 + v) :> Ilm("popl3", 0, v, uniform)))
        cost == IF ~uniform \/ v # 0 THEN 1 ELSE IF last = "grow" THEN 2 ELSE 3
        out == {Deliver(40 + v, <<Cust("ip4", 9 - cost)>>)}
    IN  Scn(AddRoute(t4, 1, Route(v, <<1>>, 1)), 10 + v, <<Cust("ip4", 9)>>, {}, {<<>>}, out, {out})
MplsGroup == {Vpn(last, m, ~m, v) : last \in {"php", "uhp", "grow"}, m \in BOOLEAN, v \in 0..2}
\* A stack of n labels of node 1 itself over a VPN label: the loop has a turn
\* for each of the n and for the VPN label, or the packet is the kernel's.
OwnStack(n) ==
    LET t1 == With(Tables, 1, "ilm", (503 :> Ilm("pop", 0, 0, FALSE)) @@ (701 :> Ilm("popl3", 0, 1, FALSE)))
        hs == [i \in 1..n |-> Lse(503, FALSE, 9)] \o <<Lse(701, TRUE, 9), Cust("ip4", 9)>>
        out == IF n <= MaxLabels THEN {Deliver(11, <<Cust("ip4", 8)>>)} ELSE {}
    IN  Scn(AddRoute(t1, 1, Route(1, <<1>>, 201)), 2, hs, {}, {<<>>}, out, {{d} : d \in out})
StackGroup == {OwnStack(n) : n \in 0..MaxLabels + 2}

\* GTP-U and VXLAN (L3VNI) between nodes 1 and 4, and what may not be stitched
\* to what: an SRv6 tunnel's payload into GTP-U, a GTP-U payload into SRv6.
Tunnel(fl) ==
    LET t1 == With(Tables, 1, "nh", 1 :> Nh(4, fl, <<>>))
        t2 == With(With(t1, 1, "gtp", 1 :> [sa |-> Loop4(1), da |-> Loop4(4), teid |-> 3]),
                   1, "gtp6", 1 :> [sa |-> Loop(1), da |-> Loop(4), teid |-> 3])
        t3 == With(t2, 1, "vxlan", 1 :> [da |-> Loop4(4), vni |-> 5, rmac |-> 4])
        d == Deliver(41, <<Cust("ip4", 8)>>)
    IN  Scn(AddRoute(t3, 1, Route(1, <<1>>, 1)), 11, <<Cust("ip4", 9)>>, {}, {<<>>}, {d}, {{d}})
Stitch(sc, fl) ==
    LET t1 == With(sc.tbl, 4, "nh", 1 :> Nh(3, fl, <<>>))
        t2 == With(With(t1, 4, "gtp", 1 :> [sa |-> Loop4(4), da |-> Loop4(3), teid |-> 3]),
                   4, "encap", 1 :> [segs |-> <<Classic(3, 31)>>, insert |-> FALSE])
    IN  [sc EXCEPT !.tbl = AddRoute(t2, 4, Route(1, <<1, 1>>, 1)), !.out = {}, !.sure = {}]
TunnelGroup ==
    {Tunnel("gtp"), Tunnel("gtp6"), Tunnel("vxlan"), Stitch(Tunnel("gtp"), "srv6"),
     Stitch(Steered(1, "ip4", <<Classic(4, 31)>>, <<4>>, 1), "gtp")}

\* E-Lines from a circuit of node 1 to one of node 4, over SRv6, MPLS and
\* VXLAN, port-based and by VLAN.
Target(kind, addr, aux) == [kind |-> kind, addr |-> addr, aux |-> aux, extra |-> 0]
Line(vid, tgt, at, path) ==
    LET hs == <<Eth(7, 8, vid), Cust("ip4", 9)>>
        t1 == IF vid = 0 THEN With(Tables, 1, "xconnect", 15 :> tgt)
              ELSE With(Tables, 1, "xvlan", <<15, vid>> :> tgt)
        t2 == With(With(t1, 1, "nh", 104 :> Nh(4, "plain", IF tgt.kind = "mpls" THEN <<503>> ELSE <<>>)),
                   4, "ilm", (503 :> Ilm("pop", 0, 0, FALSE)) @@ (800 :> Ilm("xc", 0, 45, FALSE))
                             @@ (801 :> Ilm("xcvlan", 0, 9, FALSE)))
        t3 == With(t2, 4, "vni", 6 :> [kind |-> IF vid = 0 THEN "eline" ELSE "elinev",
                                       v |-> IF vid = 0 THEN 45 ELSE 9, rmac |-> 0])
    IN  Scn(t3, 15, hs, {}, {path}, {Deliver(at, hs)}, {{Deliver(at, hs)}})
LineGroup ==
    {Line(0, Target("srv6", Classic(4, 51), 0), 45, <<4>>), Line(7, Target("srv6", Classic(4, 52), 0), 46, <<4>>),
     Line(0, Target("mpls", Loop(4), 800), 45, <<>>), Line(7, Target("mpls", Loop(4), 801), 46, <<>>),
     Line(0, Target("vxlan", Loop4(4), 6), 45, <<>>), Line(7, Target("vxlan", Loop(4), 6), 46, <<>>)}

\* A replication segment at node 2 with branches to VRF 1 at nodes 3 and 4;
\* and ECMP over two policies.
Spray ==
    LET sc == Steered(1, "ip4", <<Classic(2, 8)>>, <<2>>, 1)
        branch(n) == [sid |-> Classic(n, 31), nh |-> 0, local |-> 0]
        d(at) == Deliver(at, <<Cust("ip4", 8)>>)
    IN  [sc EXCEPT !.tbl = With(sc.tbl, 2, "replSeg", Classic(2, 8) :>
                                [threshold |-> 2, branches |-> {branch(3), branch(4)}]),
                   !.paths = {<<2, 3>>, <<2, 4>>}, !.out = {d(31), d(41)}, !.sure = {{d(31)}, {d(41)}}]
Ecmp ==
    LET sc == Steered(2, "ip6", <<Classic(4, 32)>>, <<4>>, 1)
        t1 == With(With(sc.tbl, 1, "nh", 2 :> Nh(2, "srv6", <<>>)),
                   1, "encap", 2 :> [segs |-> <<Classic(3, 1), Classic(4, 32)>>, insert |-> FALSE])
    IN  [sc EXCEPT !.tbl = AddRoute(With(t1, 1, "group", 7 :> <<1, 2>>), 1,
                             [Route(2, <<1, 1>>, 7) EXCEPT !.fl = "ecmp"]),
                   !.paths = {<<4>>, <<3, 4>>}]

\* End.T at node 2: only its table knows the way on.
Tabled ==
    LET sc == Steered(1, "ip4", <<Classic(2, 10), Classic(4, 31)>>, <<2, 4>>, 1)
        t1 == [sc.tbl EXCEPT ![2].fib = {r \in @ : r.pfx # <<9, 4>>}]
    IN  [sc EXCEPT !.tbl = AddRoute(t1, 2, Route(3, <<9, 4>>, 101))]

\* Plain IPv4 across nodes that run both stages, or only the XDP one; with a
\* TTL of 2 the second router hands it to its kernel.
Plain(mode, ttl) ==
    LET d == Deliver(40, <<Cust("ip4", ttl - 2)>>)
        tbl == [n \in MCNodes |-> [Table(n) EXCEPT !.mode = mode]]
    IN  Scn(AddRoute(tbl, 1, Route(0, <<1>>, 104)), 10, <<Cust("ip4", ttl)>>, {}, {<<>>},
            IF ttl > 2 THEN {d} ELSE {}, IF ttl > 2 THEN {{d}} ELSE {})

MCScenarios == ClassicGroup \cup UsidGroup \cup ReplaceGroup \cup BindGroup \cup InsertGroup
               \cup MirrorGroup \cup MplsGroup \cup StackGroup \cup TunnelGroup \cup LineGroup \cup {Spray, Ecmp, Tabled}
               \cup {Plain(mode, ttl) : mode \in {"full", "xdp-only"}, ttl \in {2, 9}}
=============================================================================
