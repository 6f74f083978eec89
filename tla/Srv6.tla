------------------------------- MODULE Srv6 --------------------------------
(***************************************************************************)
(* The SRv6 endpoint behaviours of the XDP stage (try_srv6_xdp and what it *)
(* dispatches to) and the encapsulations of the TC stage (srv6_encap), as  *)
(* functions of a node's tables t and a header stack hs.                   *)
(*                                                                         *)
(* A local SID is [pfx, bh, nh, vrf, flav, blk, geo, arg]: its prefix, its *)
(* behaviour, adjacency or policy, VRF, bridge domain or circuit, flavours,*)
(* units of the locator block, whether the code supports its geometry, and *)
(* whether it takes an argument.                                           *)
(***************************************************************************)
EXTENDS Packets

LocalSid(t, hs) == Lpm(t.sids, Outer(hs).da)

\* Mistake: the VRF is not handed over.
Srv6MetaUnscoped(vrf) == Meta("srv6", 0)

\* srv6_decap_meta: always attached, VRF 0 included.
Srv6Meta(vrf) == Meta("srv6", vrf)

\* endt_meta: End.T and a table-bound uN scope the lookup that follows.
EndtMeta(sid, decap) ==
    LET scoped == sid.vrf # 0 /\ sid.bh \in {"T", "uN"}
    IN  IF scoped \/ decap THEN Srv6Meta(IF scoped THEN sid.vrf ELSE 0) ELSE NoMeta

\* srv6_forward_adjacency: out of the SID's cross-connect; the next hop is
\* taken as it is, without its backup.
ForwardAdjacency(t, hs, id) ==
    LET nh == Get(t.nh, id)
    IN  IF ~Resolved(nh) \/ Outer(hs).hop <= 1 THEN Keep(hs)
        ELSE Send(SetOuter(hs, "hop", Outer(hs).hop - 1), nh.to)

IsAdjacency(sid) == sid.bh \in {"X", "uA", "uALib"}

\* The tail of srv6_end and of srv6_replace_once: the adjacency or the FIB.
Onward(t, hs, sid, meta) ==
    IF sid.bh \in {"X", "uA", "Xrep"} THEN ForwardAdjacency(t, hs, sid.nh)
    ELSE Pass(hs, meta)

\* Ultimate segment: USD decapsulates an IP payload, else USP pops the SRH.
Ultimate(hs, sid, mayUlt, meta) ==
    IF mayUlt /\ "usd" \in sid.flav /\ IsIp(Proto(hs)) THEN Pass(DecapHead(hs), meta)
    ELSE IF mayUlt /\ "usp" \in sid.flav THEN Keep(PopSrh(hs))
    ELSE Keep(hs)

\* Segments Left goes down by one and the segment it then names is the
\* destination.
SetSl(hs, sl) == SetOuter(hs, "srh", [Outer(hs).srh EXCEPT ![1].sl = sl])
\* Mistake: the segment list is read from the front.
NextSegmentFromFront(hs) ==
    SetOuter(SetSl(hs, Sl(hs) - 1), "da", List(hs)[Len(List(hs)) + 1 - Sl(hs)])
NextSegment(hs) == SetOuter(SetSl(hs, Sl(hs) - 1), "da", List(hs)[Sl(hs)])

\* srv6_end, for End, End.X, End.T, uA and the end of a uN carrier.  PSP
\* pops the SRH this node exhausts; pop_srh refuses one that is too long, and
\* the rewritten packet goes to the stack with it.
End(t, hs, sid) ==
    LET on == NextSegment(hs)
        psp == Sl(hs) = 1 /\ "psp" \in sid.flav
    IN  IF Exhausted(hs) THEN Ultimate(hs, sid, ~IsAdjacency(sid), EndtMeta(sid, TRUE))
        ELSE IF Sl(hs) = 0 \/ Sl(hs) > MaxSegs THEN Keep(hs)
        ELSE IF psp /\ Oversized(hs) THEN Keep(on)
        ELSE Onward(t, IF psp THEN PopSrh(on) ELSE on, sid, EndtMeta(sid, FALSE))

----------------------------------------------------------------------------
\* NEXT-C-SID (uSID): the carrier after the block is shifted by one unit.
CarrierEnded(a, sid) == sid.blk + 2 <= AddrLen /\ a[sid.blk + 2] = 0
Shifted(a, sid) ==
    SubSeq(a, 1, sid.blk) \o SubSeq(a, sid.blk + 2, AddrLen) \o <<0>>
UsidShift(hs, sid) ==
    IF sid.geo THEN SetOuter(hs, "da", Shifted(Outer(hs).da, sid)) ELSE hs

\* srv6_ua.
Ua(t, hs, sid) ==
    IF CarrierEnded(Outer(hs).da, sid) THEN End(t, hs, [sid EXCEPT !.bh = "uA"])
    ELSE IF ~sid.geo THEN Keep(hs)
    ELSE ForwardAdjacency(t, UsidShift(hs, sid), sid.nh)

\* srv6_un: the shift may expose an adjacency of this node, matched once.
Un(t, hs, sid) ==
    LET on == UsidShift(hs, sid)
        next == LocalSid(t, on)
    IN  IF CarrierEnded(Outer(hs).da, sid) THEN End(t, hs, sid)
        ELSE IF next # None /\ next.bh = "uALib" THEN Ua(t, on, next)
        ELSE Keep(on)

----------------------------------------------------------------------------
\* REPLACE-C-SID: the last unit of the address is the index of the active
\* C-SID in the container segment_list[SL] of AddrLen positions.
Index(hs) == Outer(hs).da[AddrLen]
CsidAt(hs, sl, pos) == List(hs)[sl + 1][pos + 1]
WriteCsid(hs, sid, csid, idx) ==
    SetOuter(hs, "da", [Outer(hs).da EXCEPT ![sid.blk + 1] = csid, ![AddrLen] = idx])

\* One pass of srv6_replace_once: a verdict, or `again' with the stack whose
\* full destination may be served here.
Act(v) == [again |-> FALSE, v |-> v]
Again(hs) == [again |-> TRUE, v |-> Keep(hs)]

ReplaceOnce(t, hs, sid) ==
    LET sl == Sl(hs)
        last == Outer(hs).srh[1].last
        idx == Index(hs)
        ultimate == Act(Ultimate(hs, sid, sid.bh # "Xrep", Srv6Meta(0)))
        isLast(pos) == pos = 0 \/ (List(hs) # <<>> /\ CsidAt(hs, 0, pos - 1) = 0)
        write(l, pos) == WriteCsid(SetSl(hs, l), sid, CsidAt(hs, l, pos), pos)
        popIf(c, st) == IF c /\ "psp" \in sid.flav THEN PopSrh(st) ELSE st
    IN  IF ~sid.geo THEN Act(Keep(hs))
        ELSE IF ~HasSrh(hs) THEN ultimate
        ELSE IF Oversized(hs) THEN Act(Keep(hs))
        ELSE IF sl = 0 /\ isLast(idx) THEN ultimate
        ELSE IF \/ List(hs) = <<>> \/ sl > MaxSegs \/ last > Len(List(hs)) - 1
                \/ (idx # 0 /\ sl > last)
                \/ (idx = 0 /\ (sl = 0 \/ sl > last + 1))
             THEN Act(Keep(hs))
        ELSE IF idx # 0 /\ CsidAt(hs, sl, idx - 1) = 0
             THEN Again(popIf(sl = 1, NextSegment(hs)))
        ELSE IF idx # 0
             THEN Act(Onward(t, popIf(sl = 0 /\ isLast(idx - 1), write(sl, idx - 1)), sid, NoMeta))
        ELSE Act(Onward(t, popIf(sl = 1 /\ CsidAt(hs, 0, AddrLen - 2) = 0,
                                 write(sl - 1, AddrLen - 1)), sid, NoMeta))

\* srv6_replace: at most two passes; a full destination that is not another
\* REPLACE-C-SID of this node ends the first SID's forward.
Replace(t, hs, sid) ==
    LET isRep(s) == s # None /\ s.bh \in {"rep", "Xrep"}
        finish(r, s) == IF s.bh = "Xrep" THEN ForwardAdjacency(t, r.v.hs, s.nh) ELSE r.v
        one == ReplaceOnce(t, hs, sid)
        sid2 == LocalSid(t, one.v.hs)
        two == ReplaceOnce(t, one.v.hs, sid2)
        sid3 == LocalSid(t, two.v.hs)
    IN  IF ~one.again THEN one.v
        ELSE IF ~isRep(sid2) THEN finish(one, sid)
        ELSE IF ~two.again THEN two.v
        ELSE IF ~isRep(sid3) THEN finish(two, sid2)
        ELSE two.v

----------------------------------------------------------------------------
\* apply_hencap: one H.Encaps.Red layer.  The first segment rides in the
\* destination only; a single one needs no SRH.
Hencap(t, hs, segs) ==
    LET n == Len(segs)
        h == Ip("ip6", t.src, segs[1], EncapHop)
    IN  <<IF n = 1 THEN h
          ELSE [h EXCEPT !.srh = <<Srh(Reverse(Tail(segs)), n - 1, n - 2)>>]>> \o hs

\* srv6_insert: an SRH into the packet itself, in front of any it has, its
\* destination the last segment.
Hinsert(hs, segs) ==
    LET h == Outer(hs)
        n == Len(segs)
    IN  <<[h EXCEPT !.da = segs[1], !.hop = h.hop - 1,
                    !.srh = <<Srh(<<h.da>> \o Reverse(segs), n, n)>> \o h.srh]>> \o Tail(hs)

Bindable(enc) == enc # None /\ Len(enc.segs) \in 1..MaxSegs

\* srv6_b6_encaps: the End step on the packet, then the bound policy pushed
\* on it; without headroom the walked packet goes on un-bound.
B6Encaps(t, hs, sid) ==
    LET enc == Get(t.encap, sid.nh)
        on == SetOuter(NextSegment(hs), "hop", Outer(hs).hop - 1)
        last == Outer(hs).srh[1].last
    IN  IF \/ ~HasSrh(hs) \/ Oversized(hs) \/ List(hs) = <<>>
           \/ Sl(hs) = 0 \/ Sl(hs) > MaxSegs
           \/ last > Len(List(hs)) - 1 \/ Sl(hs) > last + 1
           \/ Outer(hs).hop <= 1
           \/ ~Bindable(enc) \/ enc.insert
        THEN Keep(hs)
        ELSE Keep(IF t.room THEN Hencap(t, on, enc.segs) ELSE on)

----------------------------------------------------------------------------
\* The payload a decapsulating behaviour accepts.
Accepts(bh, k) == \/ k = "ip4" /\ bh \in {"DT4", "DT46", "DX4"}
                  \/ k = "ip6" /\ bh \in {"DT6", "DT46", "DX6"}

\* try_srv6_xdp, End.DT4 / DT6 / DT46.
Dt(hs, sid) ==
    IF ~Exhausted(hs) THEN Keep(hs)
    ELSE IF ~Accepts(sid.bh, Proto(hs)) THEN Drop
    ELSE Pass(DecapHead(hs), Srv6Meta(sid.vrf))

\* srv6_dx: the adjacency must exist before anything is stripped.
Dx(t, hs, sid) ==
    IF ~Exhausted(hs) THEN Keep(hs)
    ELSE IF ~Accepts(sid.bh, Proto(hs)) THEN Drop
    ELSE IF Get(t.nh, sid.nh) = None THEN Keep(hs)
    ELSE Pass(DecapHead(hs), Meta("dx", sid.nh))

\* The attachment circuit of an E-Line: the target itself, or, VLAN-scoped,
\* the circuit the inner frame's VID has in the DX2V table of that number.
Circuit(t, target, scoped, frame) ==
    IF ~scoped THEN target
    ELSE IF frame.vid = 0 \/ Get(t.dx2v, <<target, frame.vid>>) = None THEN 0
    ELSE t.dx2v[<<target, frame.vid>>]

\* srv6_dx2 (End.DX2, End.DX2V): only a frame directly under the outer header.
Dx2(t, hs, sid) ==
    LET oif == Circuit(t, sid.vrf, sid.bh = "DX2V", hs[2])
    IN  IF HasSrh(hs) \/ Proto(hs) # "eth" \/ oif = 0 THEN Keep(hs)
        ELSE Pass(DecapHead(hs), Meta("dx2", oif))

\* srv6_dt2m_arg_bits: an End.DT2M SID with an argument, the last unit of the
\* destination.  The leaf argument of this node marks a copy from a remote
\* leaf; a value this node never allocated is a drop.
BadArg(t, hs, sid) == /\ sid.arg /\ Outer(hs).da[AddrLen] # 0
                      /\ Outer(hs).da[AddrLen] \notin t.leafArgs
ArgBits(hs, sid) == IF sid.arg /\ Outer(hs).da[AddrLen] # 0 THEN {LeafBit} ELSE {}

\* vtep6_es_bits, vtep_bd_bits: the segments the source node shares with
\* this one, and, for VXLAN, whether it is a leaf-only node of the domain.
VtepEs(t, sa) == IF Get(t.vtepEs, sa) = None THEN {} ELSE t.vtepEs[sa]
VtepBdBits(t, sa, bd) ==
    VtepEs(t, sa) \cup (IF <<sa, bd>> \in t.vtepEtree THEN {LeafBit} ELSE {})

\* srv6_dt2u (End.DT2U, End.DT2M).
Dt2(t, hs, sid) ==
    IF HasSrh(hs) \/ Proto(hs) # "eth" THEN Keep(hs)
    ELSE IF BadArg(t, hs, sid) THEN Drop
    ELSE Pass(DecapHead(hs),
              MetaEs("l2", sid.vrf, VtepEs(t, Outer(hs).sa) \cup ArgBits(hs, sid)))

\* srv6_endm: the repair encapsulation goes, and the service encapsulation of
\* the failed node is undone as that node's SID would have.  A live SRH under
\* the repair leaves the packet with the first layer already stripped.
EndM(t, hs, sid) ==
    LET in == DecapHead(hs)
        hit == Lpm({m \in t.mirror : m.ctx = sid.vrf}, Outer(in).da)
    IN  IF ~Exhausted(hs) \/ Proto(hs) # "ip6" THEN Keep(hs)
        ELSE IF hit = None THEN Keep(hs)
        ELSE IF Exhausted(in) /\ hit.bh \notin {"DT4", "DT6", "DT46"} THEN Drop
        ELSE Dt(in, hit)

\* try_srv6_xdp: the behaviour of the SID the destination matches.
Srv6Xdp(t, hs) ==
    LET sid == LocalSid(t, hs)
    IN  IF sid = None THEN Keep(hs)
        ELSE CASE sid.bh \in {"End", "X", "uA", "T"} -> End(t, hs, sid)
               [] sid.bh = "uN" -> Un(t, hs, sid)
               [] sid.bh = "uALib" -> Ua(t, hs, sid)
               [] sid.bh \in {"rep", "Xrep"} -> Replace(t, hs, sid)
               [] sid.bh = "Replicate" -> Pass(hs, Meta("repl", 0))
               [] sid.bh \in {"DX4", "DX6"} -> Dx(t, hs, sid)
               [] sid.bh \in {"DX2", "DX2V"} -> Dx2(t, hs, sid)
               [] sid.bh = "B6" -> B6Encaps(t, hs, sid)
               [] sid.bh \in {"DT2U", "DT2M"} -> Dt2(t, hs, sid)
               [] sid.bh = "M" -> EndM(t, hs, sid)
               [] sid.bh \in {"DT4", "DT6", "DT46"} -> Dt(hs, sid)
               [] OTHER -> Keep(hs)
=============================================================================
