------------------------------ MODULE Packets ------------------------------
(***************************************************************************)
(* The packet as the XDP and TC stages of cradle-ebpf see it: a stack of   *)
(* headers, outermost first, and the metadata record (CradleXdpMeta) the   *)
(* XDP stage leaves for the TC stage of the same node.  Lengths, checksums *)
(* and offsets are left out.                                               *)
(*                                                                         *)
(* An address is a sequence of AddrLen units of one width, the width of a  *)
(* compressed SID (16 or 32 bits: 8 or 4 units).  A unit 0 is padding.     *)
(***************************************************************************)
EXTENDS Integers, Sequences, FiniteSets, SequencesExt

CONSTANTS AddrLen,    \* units of an address
          MaxSegs,    \* MAX_SEGS (6): segments of a policy
          MaxLabels,  \* MAX_LABELS (3): labels of a next hop
          EncapHop,   \* hop limit of an outer header (64)
          PipeTtl,    \* MPLS_PIPE_TTL (255)
          None        \* absence of a table entry, of a header, of metadata

ASSUME PacketAssumption == /\ AddrLen \in Nat /\ AddrLen >= 3
                           /\ {MaxSegs, MaxLabels} \subseteq Nat \ {0}
                           /\ {EncapHop, PipeTtl} \subseteq Nat \ {0, 1}

\* An IPv4 address is told by its first unit (the v4-mapped form).
IsV4Mapped(a) == a[1] = 4

\* Headers.  The SRHs between an IPv6 header and its payload are part of the
\* header, outermost first; list[1] is the code's segment_list[0], the last
\* segment.
Ip(k, sa, da, hop) == [k |-> k, sa |-> sa, da |-> da, hop |-> hop, srh |-> <<>>]
Srh(list, sl, last) == [list |-> list, sl |-> sl, last |-> last]
Lse(label, s, ttl) == [k |-> "mpls", label |-> label, s |-> s, ttl |-> ttl]
Gtp(teid) == [k |-> "gtp", teid |-> teid, ok |-> TRUE]
Vxlan(vni) == [k |-> "vxlan", vni |-> vni]
Eth(dst, src, vid) == [k |-> "eth", dst |-> dst, src |-> src, vid |-> vid]

\* The XDP -> TC metadata: its magic, its vrf_id word and its es_bits, the
\* set of the bits that are 1; LeafBit is ES_BITS_ETREE_LEAF.
LeafBit == 63
MetaEs(magic, v, es) == [magic |-> magic, v |-> v, es |-> es]
Meta(magic, v) == MetaEs(magic, v, {})
NoMeta == Meta("none", 0)

Outer(hs) == hs[1]
SetOuter(hs, f, v) == [hs EXCEPT ![1] = [hs[1] EXCEPT ![f] = v]]
HasSrh(hs) == Outer(hs).srh # <<>>
Sl(hs) == Outer(hs).srh[1].sl
List(hs) == Outer(hs).srh[1].list

\* What follows the outer IP header and its first SRH: the next-header value.
Proto(hs) == IF Len(Outer(hs).srh) > 1 THEN "routing"
             ELSE IF Len(hs) = 1 THEN "l4" ELSE hs[2].k
IsIp(k) == k \in {"ip4", "ip6"}

\* decap_head, pop_head: the outer header is gone.
DecapHead(hs) == Tail(hs)

\* An SRH too long for the endpoints: hdr_ext_len > 12, that is, more than
\* six entries, the value of MAX_SEGS.
Oversized(hs) == HasSrh(hs) /\ Len(List(hs)) > MaxSegs

\* The payload is reached through no SRH or an exhausted one.
Exhausted(hs) == ~HasSrh(hs) \/ (Sl(hs) = 0 /\ ~Oversized(hs))

\* pop_srh of an SRH it accepts.
PopSrh(hs) == IF HasSrh(hs) THEN SetOuter(hs, "srh", Tail(Outer(hs).srh)) ELSE hs

\* Longest-prefix match of an address in a set of entries with a prefix.
Lpm(entries, a) ==
    LET hits == {e \in entries : IsPrefix(e.pfx, a)}
    IN  IF hits = {} THEN None
        ELSE CHOOSE e \in hits : \A f \in hits : Len(f.pfx) <= Len(e.pfx)

\* An entry of a hash map; a map of one entry; a map with the entries of
\* another inserted.
Get(map, key) == IF key \in DOMAIN map THEN map[key] ELSE None
Row(key, value) == [k \in {key} |-> value]
Including(map, new) ==
    [k \in DOMAIN map \cup DOMAIN new |-> IF k \in DOMAIN new THEN new[k] ELSE map[k]]

\* What a stage does with a packet: hand it on (XDP_PASS, TC_ACT_PIPE), drop
\* it, or send it out of a port towards a neighbour.
Pass(hs, meta) == [do |-> "pass", hs |-> hs, meta |-> meta, to |-> None]
Keep(hs) == Pass(hs, NoMeta)
Drop == [do |-> "drop", hs |-> <<>>, meta |-> NoMeta, to |-> None]
Send(hs, to) == [do |-> "send", hs |-> hs, meta |-> NoMeta, to |-> to]

\* xdp_resolve_l2, tc_resolve_l2: the neighbour and the port must be known.
Resolved(nh) == nh # None /\ nh.neigh
=============================================================================
