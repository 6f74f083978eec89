------------------------------- MODULE Fib4 -------------------------------
(***************************************************************************)
(* IPv4 addresses, prefixes and packed FIB words, shared by the DIR-24-8   *)
(* engine and by the abstract view of the forwarding table.                *)
(*                                                                         *)
(* An address is a pair <<blk, low>>: `blk' is the code's addr >> 8 (the   *)
(* index into TBL24), `low' its last byte (the index into a TBL8 group).   *)
(* The widths 24 and 8 are the constants BlkBits and LowBits.              *)
(***************************************************************************)
EXTENDS Integers, FiniteSets, FiniteSetsExt

CONSTANTS BlkBits,    \* bits of an address that index TBL24 (24)
          LowBits,    \* bits that index a TBL8 group (8)
          IdSpace     \* FIBW_ID_MASK + 1: a packed word keeps ids modulo this

ASSUME BitsAssumption == BlkBits \in Nat /\ LowBits \in Nat
ASSUME IdSpaceAssumption == IdSpace \in Nat \ {0}

W == BlkBits + LowBits
Lens == 0..W

\* Facts about powers of two that the provers do not know.
ASSUME PowersAssumption ==
    /\ \A n \in Lens : 2^n \in Nat \ {0}
    /\ \A m, n \in Lens : m + n \in Lens => 2^(m + n) = 2^m * 2^n

Blk  == 0..(2^BlkBits - 1)
Low  == 0..(2^LowBits - 1)
Addr == Blk \X Low

\* addr & mask(len): the host bits of addr cleared.
Mask(addr, len) ==
    IF len <= BlkBits
    THEN <<addr[1] - (addr[1] % 2^(BlkBits - len)), 0>>
    ELSE <<addr[1], addr[2] - (addr[2] % 2^(W - len))>>

\* A HashMap key of the shadow: a network address and its length.
Prefix == Addr \X Lens

\* A nexthop id; the flags of a FibEntry travel unchanged beside it and are
\* left out.  NoEntry is the key that is absent.
NoEntry == -1
Entry == Nat
Rib == [Prefix -> Entry \cup {NoEntry}]

\* FibWord: the bits VALID and TBL8 are the `kind', the low 26 bits the `id'.
Word == [kind : {"none", "entry", "group"}, id : Nat]
ZeroWord == [kind |-> "none", id |-> 0]
fibw_entry(nexthopId) == [kind |-> "entry", id |-> nexthopId % IdSpace]
fibw_group(group) == [kind |-> "group", id |-> group % IdSpace]

-----------------------------------------------------------------------------
(***************************************************************************)
(* Longest-prefix match, defined by quantifiers over the routes rather     *)
(* than by the code's search: the reference the tables are held against.   *)
(***************************************************************************)
Covers(p, a) == Mask(a, p[2]) = p[1]

\* The installed routes for a whose length is at least minLen.
Matching(rib, a, minLen) ==
    {p \in Prefix : rib[p] # NoEntry /\ Covers(p, a) /\ p[2] >= minLen}

\* w is the right word for a when only routes of length >= minLen count.
IsBestWord(w, rib, a, minLen) ==
    \/ /\ Matching(rib, a, minLen) = {}
       /\ w = ZeroWord
    \/ \E p \in Matching(rib, a, minLen) :
          /\ \A q \in Matching(rib, a, minLen) : q[2] <= p[2]
          /\ w = fibw_entry(rib[p])
=============================================================================
