---------------------------- MODULE Dir24Proofs ----------------------------
(***************************************************************************)
(* Proofs about the DIR-24-8 engine, for every address width, pool size,   *)
(* quarantine depth, route set and batch size.                             *)
(***************************************************************************)
EXTENDS Dir24, TLAPS, NaturalsInduction, FiniteSetTheorems, SequenceTheorems

-----------------------------------------------------------------------------
(***************************************************************************)
(* The operators the engine is built from: masks, affected blocks and the  *)
(* longest-match search.                                                   *)
(***************************************************************************)
\* Clearing the lowest bits of x leaves a multiple of m no larger than x, and
\* the aligned range of size m that starts there contains x and stays below
\* any multiple of m that x is below.
LEMMA ModRange ==
    ASSUME NEW x \in Nat, NEW m \in Nat \ {0}, NEW n \in Nat, x < m * n
    PROVE  /\ x - (x % m) \in Nat
           /\ x - (x % m) <= x
           /\ x < (x - (x % m)) + m
           /\ (x - (x % m)) + m <= m * n
<1> DEFINE q == x \div m
           r == x % m
<1>1. q \in Nat /\ r \in 0..(m-1) /\ x = m * q + r
  OBVIOUS
<1> HIDE DEF q, r
<1>2. x - r = m * q
  BY <1>1
<1>3. q < n
  <2>1. SUFFICES ASSUME q >= n PROVE FALSE
    BY <1>1
  <2>2. m * q >= m * n
    BY <2>1, <1>1, SMT
  <2> QED
    BY <2>2, <1>1
<1>4. m * (q + 1) <= m * n
  BY <1>1, <1>3, SMT
<1>5. m * (q + 1) = m * q + m
  BY <1>1, SMT
<1> QED
  BY <1>1, <1>2, <1>4, <1>5 DEF r

LEMMA LensFacts ==
    /\ W \in Nat
    /\ BlkBits \in Lens /\ LowBits \in Lens
    /\ 2^BlkBits \in Nat \ {0} /\ 2^LowBits \in Nat \ {0}
    /\ \A len \in 0..BlkBits : 2^(BlkBits - len) \in Nat \ {0} /\ BlkBits - len \in Lens
    /\ \A len \in (BlkBits + 1)..W : 2^(W - len) \in Nat \ {0} /\ W - len \in 0..LowBits
BY BitsAssumption, PowersAssumption DEF Lens, W

\* A masked address is an address, and masking keeps the block of a long one.
LEMMA MaskType ==
    ASSUME NEW a \in Addr, NEW len \in Lens
    PROVE  /\ Mask(a, len) \in Addr
           /\ len > BlkBits => Mask(a, len)[1] = a[1]
<1> a[1] \in Nat /\ a[2] \in Nat /\ a[1] < 2^BlkBits /\ a[2] < 2^LowBits /\ a = <<a[1], a[2]>>
  BY LensFacts DEF Addr, Blk, Low
<1>1. CASE len <= BlkBits
  <2> DEFINE m == 2^(BlkBits - len)
  <2>1. m \in Nat \ {0}
    BY <1>1, LensFacts, BitsAssumption DEF Lens
  <2> HIDE DEF m
  <2>2. a[1] - (a[1] % m) \in 0..a[1]
    BY <2>1
  <2> QED
    BY <2>2, <1>1, LensFacts, BitsAssumption DEF Mask, Addr, Blk, Low, m, Lens
<1>2. CASE len > BlkBits
  <2> DEFINE m == 2^(W - len)
  <2>1. m \in Nat \ {0}
    BY <1>2, LensFacts, BitsAssumption DEF Lens
  <2> HIDE DEF m
  <2>2. a[2] - (a[2] % m) \in 0..a[2]
    BY <2>1
  <2> QED
    BY <2>2, <1>2, LensFacts, BitsAssumption DEF Mask, Addr, Blk, Low, m, Lens
<1> QED
  BY <1>1, <1>2, BitsAssumption DEF Lens, W

\* The blocks recomputed for a route are blocks, one at least, and among them
\* is the block of every address the route covers.
LEMMA AffectedFacts ==
    ASSUME NEW a \in Addr, NEW len \in Lens
    PROVE  /\ AffectedBlocks(Mask(a, len), len) \subseteq Blk
           /\ a[1] \in AffectedBlocks(Mask(a, len), len)
<1> a[1] \in Nat /\ a[1] < 2^BlkBits /\ a = <<a[1], a[2]>>
  BY LensFacts DEF Addr, Blk, Low
<1>1. CASE len <= BlkBits
  <2> DEFINE m == 2^(BlkBits - len)
             n == 2^len
  <2>1. m \in Nat \ {0} /\ n \in Nat \ {0}
    BY <1>1, LensFacts, BitsAssumption, PowersAssumption DEF Lens
  <2>2. 2^BlkBits = m * n
    <3>1. BlkBits - len \in Lens /\ (BlkBits - len) + len \in Lens /\ (BlkBits - len) + len = BlkBits
      BY <1>1, LensFacts, BitsAssumption DEF Lens
    <3> QED
      BY <3>1, PowersAssumption
  <2> DEFINE f == a[1] - (a[1] % m)
  <2>3. f \in Nat /\ f <= a[1] /\ a[1] < f + m /\ f + m <= m * n
    <3> HIDE DEF m, n
    <3> QED
      BY <2>1, <2>2, ModRange
  <2>4. AffectedBlocks(Mask(a, len), len) = f..(f + m - 1)
    BY <1>1, BitsAssumption DEF AffectedBlocks, Mask, Lens
  <2> HIDE DEF m, n, f
  <2> QED
    BY <2>1, <2>2, <2>3, <2>4, LensFacts DEF Blk
<1>2. CASE len > BlkBits
  BY <1>2, MaskType DEF AffectedBlocks, Addr
<1> QED
  BY <1>1, <1>2, BitsAssumption DEF Lens, W

\* A non-empty set of numbers up to n has a largest element.
LEMMA MaxExists ==
    ASSUME NEW n \in Nat, NEW S \in SUBSET (0..n), S # {}
    PROVE  /\ Max(S) \in S
           /\ \A y \in S : y <= Max(S)
<1> DEFINE R == {ss \in Nat \X Nat : ss[1] < ss[2]}
           T == {n - x : x \in S}
<1>1. IsWellFoundedOn(R, Nat)
  BY NatLessThanWellFounded, Zenon DEF OpToRel
<1>2. T \subseteq Nat /\ T # {}
  <2>1. PICK x \in S : TRUE
    OBVIOUS
  <2>2. n - x \in T
    BY <2>1
  <2>3. T \subseteq Nat
    OBVIOUS
  <2> QED
    BY <2>2, <2>3
<1>3. PICK t \in T : \A y \in T : ~(<<y, t>> \in R)
  <2> HIDE DEF R, T
  <2> QED
    BY <1>1, <1>2, WFMin
<1>4. PICK x \in S : t = n - x
  BY <1>3
<1>5. \A y \in S : x >= y
  <2> TAKE y \in S
  <2>1. n - y \in T /\ n - y \in Nat /\ t \in Nat
    BY <1>2
  <2>2. ~(n - y < t)
    BY <2>1, <1>3
  <2> QED
    BY <2>1, <2>2, <1>4
<1>6. \E z \in S : \A y \in S : z >= y
  BY <1>5
<1>7. Max(S) \in S /\ \A y \in S : Max(S) >= y
  BY <1>6 DEF Max
<1> QED
  BY <1>7

\* The same for the smallest.
LEMMA MinExists ==
    ASSUME NEW S \in SUBSET Nat, S # {}
    PROVE  Min(S) \in S
<1> DEFINE R == {ss \in Nat \X Nat : ss[1] < ss[2]}
<1>1. IsWellFoundedOn(R, Nat)
  BY NatLessThanWellFounded, Zenon DEF OpToRel
<1>3. PICK x \in S : \A y \in S : ~(<<y, x>> \in R)
  <2> HIDE DEF R
  <2> QED
    BY <1>1, WFMin
<1>5. \A y \in S : x <= y
  <2> TAKE y \in S
  <2>1. x \in Nat /\ y \in Nat
    OBVIOUS
  <2>2. ~(y < x)
    BY <2>1, <1>3
  <2> QED
    BY <2>1, <2>2
<1> QED
  BY <1>5 DEF Min

-----------------------------------------------------------------------------
(* The words the engine computes.                                          *)

LEMMA HitFacts ==
    ASSUME NEW rib \in Rib, NEW a \in Addr, NEW lens \in SUBSET Lens,
           Hits(rib, a, lens) # {}
    PROVE  LET m == Max(Hits(rib, a, lens))
           IN  /\ m \in lens
               /\ rib[<<Mask(a, m), m>>] \in Entry
               /\ <<Mask(a, m), m>> \in Prefix
               /\ \A len \in lens : rib[<<Mask(a, len), len>>] # NoEntry => len <= m
<1> DEFINE m == Max(Hits(rib, a, lens))
<1>1. Hits(rib, a, lens) \subseteq 0..W
  BY DEF Hits, Lens
<1>2. m \in Hits(rib, a, lens) /\ \A y \in Hits(rib, a, lens) : y <= m
  BY <1>1, MaxExists, LensFacts
<1> HIDE DEF m
<1>3. <<Mask(a, m), m>> \in Prefix
  BY <1>2, MaskType DEF Hits, Prefix
<1>4. rib[<<Mask(a, m), m>>] \in Entry
  BY <1>2, <1>3 DEF Hits, Rib
<1> QED
  BY <1>2, <1>3, <1>4 DEF Hits, m

LEMMA EntryWordType ==
    ASSUME NEW e \in Entry
    PROVE  fibw_entry(e) \in Word /\ fibw_entry(e).kind = "entry"
BY IdSpaceAssumption DEF fibw_entry, Word, Entry

LEMMA GroupWordType ==
    ASSUME NEW g \in Group
    PROVE  fibw_group(g) = [kind |-> "group", id |-> g] /\ fibw_group(g) \in Word
<1>1. g \in 0..(IdSpace - 1)
  BY GroupsAssumption, IdSpaceAssumption DEF Group
<1>2. g % IdSpace = g
  BY <1>1, IdSpaceAssumption
<1> QED
  BY <1>1, <1>2 DEF fibw_group, Word

LEMMA FirstHitType ==
    ASSUME NEW rib \in Rib, NEW a \in Addr, NEW lens \in SUBSET Lens
    PROVE  /\ FirstHitWord(rib, a, lens) \in Word
           /\ FirstHitWord(rib, a, lens).kind # "group"
<1>1. CASE Hits(rib, a, lens) = {}
  BY <1>1 DEF FirstHitWord, ZeroWord, Word
<1>2. CASE Hits(rib, a, lens) # {}
  BY <1>2, HitFacts, EntryWordType DEF FirstHitWord
<1> QED
  BY <1>1, <1>2

LEMMA SlotWordType ==
    ASSUME NEW rib \in Rib, NEW b \in Blk, NEW low \in Low
    PROVE  /\ SlotWord(rib, b, low) \in Word
           /\ SlotWord(rib, b, low).kind # "group"
           /\ BlockCoverWord(rib, b) \in Word
           /\ BlockCoverWord(rib, b).kind # "group"
<1>1. <<b, low>> \in Addr /\ <<b, 0>> \in Addr
  BY LensFacts DEF Addr, Low
<1>2. (1..W) \subseteq Lens /\ (1..BlkBits) \subseteq Lens
  BY BitsAssumption DEF Lens, W
<1> QED
  BY <1>1, <1>2, FirstHitType DEF SlotWord, BlockCoverWord

\* The search finds the longest match.
LEMMA SlotWordIsBest ==
    ASSUME NEW rib \in Rib, NEW b \in Blk, NEW low \in Low
    PROVE  IsBestWord(SlotWord(rib, b, low), rib, <<b, low>>, 1)
<1> DEFINE a == <<b, low>>
           M == Matching(rib, a, 1)
           H == Hits(rib, a, 1..W)
<1>1. a \in Addr /\ (1..W) \subseteq Lens
  BY BitsAssumption DEF Lens, W, Addr
<1>2. \A p \in M : p[2] \in H /\ p = <<Mask(a, p[2]), p[2]>>
  BY LensFacts DEF Matching, Hits, Covers, Prefix, Lens
<1> HIDE DEF a
<1>3. CASE H = {}
  BY <1>2, <1>3 DEF IsBestWord, SlotWord, FirstHitWord, a
<1>4. CASE H # {}
  <2> DEFINE m == Max(H)
             p == <<Mask(a, m), m>>
  <2>1. /\ m \in 1..W /\ p \in Prefix /\ rib[p] \in Entry
        /\ \A len \in 1..W : rib[<<Mask(a, len), len>>] # NoEntry => len <= m
    BY <1>1, <1>4, HitFacts
  <2>2. SlotWord(rib, b, low) = fibw_entry(rib[p])
    BY <1>4 DEF SlotWord, FirstHitWord, a
  <2> HIDE DEF m
  <2>3. p \in M
    BY <2>1 DEF Matching, Covers, Entry, NoEntry
  <2>4. \A q \in M : q[2] <= p[2]
    BY <1>2, <2>1 DEF Hits
  <2> QED
    BY <2>2, <2>3, <2>4 DEF IsBestWord, a
<1> QED
  BY <1>3, <1>4

\* A block without long routes has one word for all its addresses.
LEMMA CoverIsUniform ==
    ASSUME NEW rib \in Rib, NEW b \in Blk, NEW low \in Low,
           LongRoutes(rib, b) = {}
    PROVE  SlotWord(rib, b, low) = BlockCoverWord(rib, b)
<1> DEFINE a == <<b, low>>
           c == <<b, 0>>
<1>1. a \in Addr /\ c \in Addr
  BY LensFacts DEF Addr, Low
<1>2. \A len \in 0..BlkBits : Mask(a, len) = Mask(c, len)
  BY BitsAssumption DEF Mask
<1>3. \A len \in 1..W : len > BlkBits => rib[<<Mask(a, len), len>>] = NoEntry
  <2> SUFFICES ASSUME NEW len \in 1..W, len > BlkBits
               PROVE  rib[<<Mask(a, len), len>>] = NoEntry
    OBVIOUS
  <2>1. len \in Lens
    BY LensFacts DEF Lens
  <2>2. Mask(a, len) \in Addr /\ Mask(a, len)[1] = b
    BY <1>1, <2>1, MaskType
  <2>3. <<Mask(a, len), len>> \in Prefix
    BY <2>1, <2>2 DEF Prefix
  <2> QED
    BY <2>2, <2>3 DEF LongRoutes
<1>4. Hits(rib, a, 1..W) = Hits(rib, c, 1..BlkBits)
  <2> HIDE DEF a, c
  <2> QED
    BY <1>2, <1>3, BitsAssumption DEF Hits, W
<1>5. \A m \in Hits(rib, a, 1..W) : Mask(a, m) = Mask(c, m)
  <2> HIDE DEF a, c
  <2>0. \A m \in Hits(rib, c, 1..BlkBits) : m \in 0..BlkBits
    BY BitsAssumption DEF Hits
  <2>1. \A m \in Hits(rib, a, 1..W) : m \in 0..BlkBits
    BY <1>4, <2>0
  <2> QED
    BY <2>1, <1>2
<1>6. Hits(rib, a, 1..W) # {} => Max(Hits(rib, a, 1..W)) \in Hits(rib, a, 1..W)
  <2>1. Hits(rib, a, 1..W) \in SUBSET (0..W)
    BY DEF Hits
  <2> QED
    BY <2>1, MaxExists, LensFacts
<1> QED
  BY <1>4, <1>5, <1>6 DEF SlotWord, BlockCoverWord, FirstHitWord

\* The route set with one route replaced (or, for NoEntry, removed).
Key(addr, len) == <<Mask(addr, len), len>>
SetRoute(rib, addr, len, e) == [rib EXCEPT ![Key(addr, len)] = e]

LEMMA SetRouteFacts ==
    ASSUME NEW rib \in Rib, NEW addr \in Addr, NEW len \in Lens,
           NEW e \in Entry \cup {NoEntry}
    PROVE  /\ Key(addr, len) \in Prefix
           /\ len > BlkBits => Key(addr, len)[1][1] = addr[1]
           /\ SetRoute(rib, addr, len, e) \in Rib
           /\ \A p \in Prefix : SetRoute(rib, addr, len, e)[p] =
                                   IF p = Key(addr, len) THEN e ELSE rib[p]
<1>1. Key(addr, len) \in Prefix /\ (len > BlkBits => Key(addr, len)[1][1] = addr[1])
  BY MaskType DEF Prefix, Key
<1> QED
  BY <1>1 DEF Rib, SetRoute

\* Changing one route changes no word outside the blocks it affects, and a
\* default route changes none at all.
LEMMA WordsUnaffected ==
    ASSUME NEW rib \in Rib, NEW addr \in Addr, NEW len \in Lens,
           NEW e \in Entry \cup {NoEntry}, NEW b \in Blk, NEW low \in Low,
           len = 0 \/ b \notin AffectedBlocks(Mask(addr, len), len)
    PROVE  /\ SlotWord(SetRoute(rib, addr, len, e), b, low) = SlotWord(rib, b, low)
           /\ BlockCoverWord(SetRoute(rib, addr, len, e), b) = BlockCoverWord(rib, b)
<1> DEFINE rib2 == SetRoute(rib, addr, len, e)
<1>0. (1..W) \subseteq Lens /\ (1..BlkBits) \subseteq Lens
  BY BitsAssumption DEF Lens, W
<1>1. ASSUME NEW a \in Addr, a[1] = b, NEW l \in Lens, l # 0
      PROVE  rib2[<<Mask(a, l), l>>] = rib[<<Mask(a, l), l>>]
  <2>1. <<Mask(a, l), l>> # Key(addr, len)
    BY <1>1, AffectedFacts DEF Key
  <2>2. <<Mask(a, l), l>> \in Prefix
    BY MaskType DEF Prefix
  <2> QED
    BY <2>1, <2>2, SetRouteFacts
<1>2. ASSUME NEW a \in Addr, a[1] = b, NEW lens \in SUBSET Lens, 0 \notin lens
      PROVE  FirstHitWord(rib2, a, lens) = FirstHitWord(rib, a, lens)
  <2> HIDE DEF rib2
  <2>1. Hits(rib2, a, lens) = Hits(rib, a, lens)
    BY <1>1, <1>2 DEF Hits
  <2>2. Hits(rib, a, lens) # {} => Max(Hits(rib, a, lens)) \in lens
    BY HitFacts
  <2> QED
    BY <2>1, <2>2, <1>1, <1>2 DEF FirstHitWord
<1>3. /\ <<b, low>> \in Addr /\ <<b, low>>[1] = b
      /\ <<b, 0>> \in Addr /\ <<b, 0>>[1] = b
      /\ 0 \notin 1..W /\ 0 \notin 1..BlkBits
  BY LensFacts, BitsAssumption DEF Addr, Low
<1> HIDE DEF rib2
<1>4. SlotWord(rib2, b, low) = SlotWord(rib, b, low)
  BY <1>0, <1>2, <1>3 DEF SlotWord
<1>5. BlockCoverWord(rib2, b) = BlockCoverWord(rib, b)
  BY <1>0, <1>2, <1>3 DEF BlockCoverWord
<1> QED
  BY <1>4, <1>5 DEF rib2

-----------------------------------------------------------------------------
(***************************************************************************)
(* Types, and the exactness of long_count: the decrement in route_del is   *)
(* in range only because the count is exact, so the two go together.       *)
(***************************************************************************)
LEMMA PrefixFinite == IsFiniteSet(Prefix)
<1>1. IsFiniteSet(Blk) /\ IsFiniteSet(Low) /\ IsFiniteSet(Lens)
  BY FS_Interval, LensFacts DEF Blk, Low, Lens
<1>2. IsFiniteSet(Addr)
  BY <1>1, FS_Product DEF Addr
<1> QED
  BY <1>1, <1>2, FS_Product DEF Prefix

LEMMA LongRoutesFinite ==
    ASSUME NEW rib, NEW b
    PROVE  /\ IsFiniteSet(LongRoutes(rib, b))
           /\ Cardinality(LongRoutes(rib, b)) \in Nat
           /\ Cardinality(LongRoutes(rib, b)) = 0 <=> LongRoutes(rib, b) = {}
<1>1. LongRoutes(rib, b) \in SUBSET Prefix
  BY DEF LongRoutes
<1>2. IsFiniteSet(LongRoutes(rib, b))
  BY <1>1, PrefixFinite, FS_Subset
<1> QED
  BY <1>2, FS_CardinalityType, FS_EmptySet

\* What setting one route does to the long routes of each block.
LEMMA LongRoutesChange ==
    ASSUME NEW rib \in Rib, NEW addr \in Addr, NEW len \in Lens,
           NEW e \in Entry \cup {NoEntry}, NEW b \in Blk
    PROVE  /\ LongRoutes(SetRoute(rib, addr, len, e), b) =
                IF b = addr[1] /\ len > BlkBits
                THEN IF e = NoEntry THEN LongRoutes(rib, b) \ {Key(addr, len)}
                                    ELSE LongRoutes(rib, b) \cup {Key(addr, len)}
                ELSE LongRoutes(rib, b)
           /\ Key(addr, len) \in LongRoutes(rib, addr[1])
                <=> len > BlkBits /\ rib[Key(addr, len)] # NoEntry
<1> DEFINE key == Key(addr, len)
           rib2 == SetRoute(rib, addr, len, e)
<1>1. key \in Prefix /\ (len > BlkBits => key[1][1] = addr[1]) /\ key[2] = len
  BY SetRouteFacts DEF Key
<1>2. rib2 \in Rib /\ \A p \in Prefix : rib2[p] = IF p = key THEN e ELSE rib[p]
  BY SetRouteFacts
<1> HIDE DEF key, rib2
<1>3. CASE b = addr[1] /\ len > BlkBits
  BY <1>1, <1>2, <1>3 DEF LongRoutes, key, rib2
<1>4. CASE ~(b = addr[1] /\ len > BlkBits)
  BY <1>1, <1>2, <1>4 DEF LongRoutes, key, rib2
<1> QED
  BY <1>3, <1>4

LEMMA WriteTypes ==
    /\ \A b \in Blk, w \in Word : Tbl24Write(b, w) \in Write
    /\ \A g \in Group, low \in Low, w \in Word : Tbl8Write(g, low, w) \in Write
    /\ \A w \in Word : DefaultWrite(w) \in Write
    /\ ZeroWord \in Word
BY LensFacts, GroupsAssumption
   DEF Tbl24Write, Tbl8Write, DefaultWrite, Write, Blk, Low, Group, ZeroWord, Word

LEMMA InsertTypes ==
    ASSUME TypeOK, LongCountExact,
           NEW addr \in Addr, NEW len \in Lens, NEW entry \in Entry,
           Insert(addr, len, entry)
    PROVE  /\ shadow' \in Rib
           /\ longCount' \in [Blk -> Nat]
           /\ pending' \in SUBSET Blk
           /\ plan' \in Seq(Write)
           /\ LongCountExact'
<1> DEFINE key == Key(addr, len)
<1>2. addr[1] \in Blk
  BY DEF Addr
<1>10. shadow' = SetRoute(shadow, addr, len, entry)
  BY DEF Insert, SetRoute, Key
<1>11. longCount' = [longCount EXCEPT ![addr[1]] =
             IF len > BlkBits /\ shadow[key] = NoEntry THEN @ + 1 ELSE @]
  BY DEF Insert, Key
<1>12. entry # NoEntry /\ entry \in Entry \cup {NoEntry} /\ shadow \in Rib
  BY DEF Entry, NoEntry, TypeOK
<1>1. key \in Prefix /\ shadow' \in Rib
  BY <1>10, <1>12, SetRouteFacts
<1>3. longCount' \in [Blk -> Nat]
  BY <1>2, <1>11 DEF TypeOK
<1>4. pending' \in SUBSET Blk /\ plan' \in Seq(Write)
  <2>1. CASE len = 0
    <3>1. DefaultWrite(fibw_entry(entry)) \in Write
      BY EntryWordType, WriteTypes
    <3>2. plan' = Append(plan, DefaultWrite(fibw_entry(entry))) /\ pending' = pending
      BY <2>1 DEF Insert
    <3> QED
      BY <3>1, <3>2, AppendProperties DEF TypeOK
  <2>2. CASE len # 0
    BY <2>2, AffectedFacts DEF Insert, TypeOK
  <2> QED
    BY <2>1, <2>2
<1>5. ASSUME NEW b \in Blk
      PROVE  longCount'[b] = Cardinality(LongRoutes(shadow', b))
  <2>2. longCount[b] = Cardinality(LongRoutes(shadow, b)) /\ shadow \in Rib
    BY DEF LongCountExact, TypeOK
  <2>3. CASE b = addr[1] /\ len > BlkBits
    <3>1. LongRoutes(shadow', b) = LongRoutes(shadow, b) \cup {key}
      BY <1>10, <1>12, <2>3, LongRoutesChange
    <3>2. key \in LongRoutes(shadow, b) <=> shadow[key] # NoEntry
      BY <1>12, <2>3, LongRoutesChange
    <3>3. longCount'[b] = IF shadow[key] = NoEntry THEN longCount[b] + 1 ELSE longCount[b]
      BY <2>3, <1>2, <1>11 DEF TypeOK
    <3>4. Cardinality(LongRoutes(shadow, b) \cup {key}) =
             IF key \in LongRoutes(shadow, b) THEN Cardinality(LongRoutes(shadow, b))
             ELSE Cardinality(LongRoutes(shadow, b)) + 1
      BY LongRoutesFinite, FS_AddElement
    <3> QED
      BY <2>2, <3>1, <3>2, <3>3, <3>4
  <2>4. CASE ~(b = addr[1] /\ len > BlkBits)
    <3>1. LongRoutes(shadow', b) = LongRoutes(shadow, b)
      BY <1>10, <1>12, <2>4, LongRoutesChange
    <3>2. longCount'[b] = longCount[b]
      BY <2>4, <1>2, <1>11 DEF TypeOK
    <3> QED
      BY <2>2, <3>1, <3>2
  <2> QED
    BY <2>3, <2>4
<1> QED
  BY <1>1, <1>3, <1>4, <1>5 DEF LongCountExact

LEMMA FillGroupTypes ==
    ASSUME TypeOK, NEW g \in Group, NEW b \in Blk
    PROVE  /\ FillGroup(g, b) \in Seq(Write)
           /\ Len(FillGroup(g, b)) = 2^LowBits
           /\ \A i \in 1..2^LowBits : /\ i - 1 \in Low
                                      /\ FillGroup(g, b)[i] =
                                           Tbl8Write(g, i - 1, SlotWord(shadow, b, i - 1))
<1> DEFINE n == 2^LowBits
<1>1. n \in Nat /\ \A i \in 1..n : i - 1 \in Low
  BY LensFacts DEF Low
<1>2. \A i \in 1..n : Tbl8Write(g, i - 1, SlotWord(shadow, b, i - 1)) \in Write
  BY <1>1, SlotWordType, WriteTypes DEF TypeOK
<1> HIDE DEF n
<1>3. [i \in 1..n |-> Tbl8Write(g, i - 1, SlotWord(shadow, b, i - 1))] \in [1..n -> Write]
  BY <1>2
<1>4. FillGroup(g, b) = [i \in 1..n |-> Tbl8Write(g, i - 1, SlotWord(shadow, b, i - 1))]
  BY DEF FillGroup, n
<1>5. FillGroup(g, b) \in Seq(Write) /\ Len(FillGroup(g, b)) = n
  BY <1>1, <1>3, <1>4, SeqDef
<1> QED
  BY <1>1, <1>4, <1>5 DEF n

LEMMA NextBlock ==
    ASSUME TypeOK, pending # {}
    PROVE  Min(pending) \in Blk /\ Min(pending) \in pending
<1>1. Blk \subseteq Nat
  BY LensFacts DEF Blk
<1>2. pending \in SUBSET Nat
  BY <1>1 DEF TypeOK
<1>3. Min(pending) \in pending
  BY <1>2, MinExists
<1> QED
  BY <1>3 DEF TypeOK

LEMMA SyncTypes ==
    ASSUME TypeOK, SyncBlock
    PROVE  TypeOK'
<1> DEFINE b == Min(pending)
<1>1. b \in Blk /\ b \in pending
  BY NextBlock DEF SyncBlock
<1> HIDE DEF b
<1>2. /\ shadow' \in Rib /\ longCount' \in [Blk -> Nat] /\ todo' \in Seq(BulkRoute)
      /\ pending' \in SUBSET Blk
      /\ tbl24' \in [Blk -> Word] /\ tbl8' \in [Group \X Low -> Word] /\ default4' \in Word
  BY DEF SyncBlock, TypeOK, tableVars
<1>3. SyncInPlace(b) \/ SyncExpand(b) \/ SyncDirect(b)
  BY DEF SyncBlock, b
<1>4. CASE SyncInPlace(b)
  <2>1. groups[b] \in Group
    BY <1>1, <1>4 DEF SyncInPlace, TypeOK
  <2>2. plan' \in Seq(Write)
    BY <1>1, <1>4, <2>1, FillGroupTypes, ConcatProperties DEF SyncInPlace, TypeOK
  <2> QED
    BY <1>2, <1>4, <2>2 DEF SyncInPlace, TypeOK
<1>5. CASE SyncExpand(b)
  <2>1. PICK g \in Group : /\ AllocGroup(g)
                           /\ groups' = [groups EXCEPT ![b] = g]
                           /\ plan' = (plan \o FillGroup(g, b))
                                         \o <<Tbl24Write(b, fibw_group(g))>>
    BY <1>5 DEF SyncExpand
  <2>2. plan \o FillGroup(g, b) \in Seq(Write)
    BY <1>1, FillGroupTypes, ConcatProperties DEF TypeOK
  <2>3. <<Tbl24Write(b, fibw_group(g))>> \in Seq(Write)
    BY <1>1, GroupWordType, WriteTypes
  <2>4. plan' \in Seq(Write)
    BY <2>1, <2>2, <2>3, ConcatProperties
  <2>5. free' \in Seq(Group) /\ quarantine' \in Seq(Group) /\ Len(quarantine') <= QuarantineDepth
    <3>1. CASE free # <<>> /\ free' = Front(free) /\ UNCHANGED quarantine
      BY <3>1 DEF TypeOK, Front
    <3>2. CASE quarantine # <<>> /\ quarantine' = Tail(quarantine) /\ UNCHANGED free
      BY <3>2, HeadTailProperties, DepthAssumption DEF TypeOK
    <3> QED
      BY <2>1, <3>1, <3>2 DEF AllocGroup
  <2>6. groups' \in [Blk -> Group \cup {NoGroup}]
    BY <2>1, <1>1 DEF TypeOK
  <2> QED
    BY <1>2, <2>4, <2>5, <2>6 DEF TypeOK
<1>6. CASE SyncDirect(b)
  <2>1. <<Tbl24Write(b, BlockCoverWord(shadow, b))>> \in Seq(Write)
    <3>1. 0 \in Low
      BY LensFacts DEF Low
    <3> QED
      BY <1>1, <3>1, SlotWordType, WriteTypes DEF TypeOK
  <2>2. plan' \in Seq(Write)
    BY <1>6, <2>1, ConcatProperties DEF SyncDirect, TypeOK
  <2>3. groups' \in [Blk -> Group \cup {NoGroup}]
    BY <1>1, <1>6 DEF SyncDirect, TypeOK
  <2>4. free' \in Seq(Group) /\ quarantine' \in Seq(Group) /\ Len(quarantine') <= QuarantineDepth
    <3>1. CASE groups[b] = NoGroup
      BY <1>6, <3>1 DEF SyncDirect, TypeOK
    <3>2. CASE groups[b] # NoGroup
      <4> DEFINE q == Append(quarantine, groups[b])
      <4>1. groups[b] \in Group
        BY <1>1, <3>2 DEF TypeOK
      <4>2. q \in Seq(Group) /\ Len(q) = Len(quarantine) + 1 /\ q # <<>>
        BY <4>1, AppendProperties DEF TypeOK
      <4>3. FreeGroup(groups[b])
        BY <1>6, <3>2 DEF SyncDirect
      <4>4. CASE Len(q) > QuarantineDepth
        <5>1. quarantine' = Tail(q) /\ free' = Append(free, Head(q))
          BY <4>3, <4>4 DEF FreeGroup
        <5> HIDE DEF q
        <5>2. Head(q) \in Group /\ Tail(q) \in Seq(Group) /\ Len(Tail(q)) = Len(q) - 1
          BY <4>2, HeadTailProperties
        <5>3. Append(free, Head(q)) \in Seq(Group)
          BY <5>2, AppendProperties DEF TypeOK
        <5> QED
          BY <5>1, <5>2, <5>3, <4>2 DEF TypeOK
      <4>5. CASE ~(Len(q) > QuarantineDepth)
        <5>1. quarantine' = q /\ free' = free
          BY <4>3, <4>5 DEF FreeGroup
        <5> QED
          BY <5>1, <4>2, <4>5, DepthAssumption DEF TypeOK
      <4> QED
        BY <4>4, <4>5
    <3> QED
      BY <3>1, <3>2
  <2> QED
    BY <1>2, <2>2, <2>3, <2>4 DEF TypeOK
<1> QED
  BY <1>3, <1>4, <1>5, <1>6

\* The routes a caller hands over are well formed.
LEMMA InputTypes ==
    /\ \A r \in Routes : r[1] \in Addr /\ r[2] \in Lens
    /\ \A e \in NexthopIds : e \in Entry
BY InputsAssumption DEF Prefix

LEMMA BatchType ==
    ASSUME NEW n \in 1..MaxBatch,
           NEW batch \in [1..n -> BatchRoutes]
    PROVE  batch \in Seq(BulkRoute) /\ batch # <<>> /\ Len(batch) = n
<1>1. n \in Nat /\ n >= 1
  BY InputsAssumption
<1>2. BatchRoutes \subseteq BulkRoute
  BY InputTypes DEF BulkRoute, BatchRoutes
<1>3. batch \in [1..n -> BulkRoute]
  BY <1>2
<1>4. batch \in Seq(BulkRoute) /\ Len(batch) = n
  BY <1>1, <1>3, SeqDef
<1> QED
  BY <1>1, <1>4

LEMMA DelTypes ==
    ASSUME TypeOK, LongCountExact, NEW addr \in Addr, NEW len \in Lens,
           RouteDel(addr, len)
    PROVE  TypeOK' /\ LongCountExact'
<1> DEFINE key == Key(addr, len)
<1>1. addr[1] \in Blk
  BY DEF Addr
<1>2. /\ shadow' = SetRoute(shadow, addr, len, NoEntry)
      /\ shadow[key] # NoEntry
      /\ longCount' = [longCount EXCEPT ![addr[1]] = IF len > BlkBits THEN @ - 1 ELSE @]
  BY DEF RouteDel, SetRoute, Key
<1>3. shadow \in Rib /\ shadow' \in Rib
  BY <1>2, SetRouteFacts DEF TypeOK
<1>4. ASSUME NEW b \in Blk
      PROVE  /\ longCount'[b] = Cardinality(LongRoutes(shadow', b))
             /\ longCount'[b] \in Nat
  <2>1. longCount[b] = Cardinality(LongRoutes(shadow, b)) /\ longCount[b] \in Nat
    BY DEF LongCountExact, TypeOK
  <2>2. CASE b = addr[1] /\ len > BlkBits
    <3>1. LongRoutes(shadow', b) = LongRoutes(shadow, b) \ {key}
      BY <1>2, <1>3, <2>2, LongRoutesChange
    <3>2. key \in LongRoutes(shadow, b)
      BY <1>2, <1>3, <2>2, LongRoutesChange
    <3>3. longCount'[b] = longCount[b] - 1
      BY <1>1, <1>2, <2>2 DEF TypeOK
    <3>4. Cardinality(LongRoutes(shadow, b) \ {key}) = Cardinality(LongRoutes(shadow, b)) - 1
      BY <3>2, LongRoutesFinite, FS_RemoveElement
    <3>5. Cardinality(LongRoutes(shadow', b)) \in Nat
      BY LongRoutesFinite
    <3> QED
      BY <2>1, <3>1, <3>3, <3>4, <3>5
  <2>3. CASE ~(b = addr[1] /\ len > BlkBits)
    <3>1. LongRoutes(shadow', b) = LongRoutes(shadow, b)
      BY <1>2, <1>3, <2>3, LongRoutesChange
    <3>2. longCount'[b] = longCount[b]
      BY <1>1, <1>2, <2>3 DEF TypeOK
    <3> QED
      BY <2>1, <3>1, <3>2
  <2> QED
    BY <2>2, <2>3
<1>5. LongCountExact' /\ longCount' \in [Blk -> Nat]
  <2>1. DOMAIN longCount' = Blk /\ longCount' = [b \in Blk |-> longCount'[b]]
    BY <1>2 DEF TypeOK
  <2> QED
    BY <1>4, <2>1 DEF LongCountExact
<1>6. plan' \in Seq(Write) /\ pending' \in SUBSET Blk
  <2>1. CASE len = 0
    <3>1. plan' = <<DefaultWrite(ZeroWord)>> /\ pending' = pending
      BY <2>1 DEF RouteDel
    <3> QED
      BY <3>1, WriteTypes DEF TypeOK
  <2>2. CASE len # 0
    BY <2>2, AffectedFacts DEF RouteDel, TypeOK
  <2> QED
    BY <2>1, <2>2
<1> QED
  BY <1>3, <1>5, <1>6 DEF TypeOK, RouteDel, tableVars

LEMMA ApplyTypes ==
    ASSUME TypeOK, ApplyWrite
    PROVE  TypeOK'
<1>1. Head(plan) \in Write /\ plan' \in Seq(Write)
  BY HeadTailProperties DEF ApplyWrite, TypeOK
<1>2. Head(plan).word \in Word
  BY <1>1 DEF Write
<1> DEFINE wr == Head(plan)
<1>3. /\ tbl24' = IF wr.tab = "tbl24" THEN [tbl24 EXCEPT ![wr.idx[1]] = wr.word] ELSE tbl24
      /\ tbl8' = IF wr.tab = "tbl8" THEN [tbl8 EXCEPT ![wr.idx] = wr.word] ELSE tbl8
      /\ default4' = IF wr.tab = "default" THEN wr.word ELSE default4
  BY DEF ApplyWrite
<1> HIDE DEF wr
<1>4. /\ tbl24' \in [Blk -> Word] /\ tbl8' \in [Group \X Low -> Word] /\ default4' \in Word
  BY <1>2, <1>3 DEF TypeOK, wr
<1> QED
  BY <1>1, <1>4 DEF TypeOK, ApplyWrite, engineVars

LEMMA InitTypes ==
    ASSUME Init
    PROVE  TypeOK /\ LongCountExact
<1>1. free \in Seq(Group)
  <2>1. free \in [1..NGroups -> Group] /\ NGroups \in Nat
    BY GroupsAssumption DEF Init, Group
  <2> QED
    BY <2>1, SeqDef
<1>2. shadow \in Rib
  BY DEF Init, Rib
<1>3. \A b \in Blk : LongRoutes(shadow, b) = {}
  BY DEF Init, LongRoutes
<1>4. LongCountExact
  BY <1>3, FS_EmptySet DEF LongCountExact, Init
<1>5. /\ quarantine \in Seq(Group) /\ Len(quarantine) <= QuarantineDepth
      /\ todo \in Seq(BulkRoute) /\ plan \in Seq(Write) /\ pending \in SUBSET Blk
  BY DepthAssumption DEF Init
<1>6. /\ longCount \in [Blk -> Nat] /\ groups \in [Blk -> Group \cup {NoGroup}]
      /\ tbl24 \in [Blk -> Word] /\ tbl8 \in [Group \X Low -> Word] /\ default4 \in Word
  BY WriteTypes DEF Init
<1> QED
  BY <1>1, <1>2, <1>4, <1>5, <1>6 DEF TypeOK

LEMMA NextTypes ==
    ASSUME TypeOK, LongCountExact, [Next]_vars
    PROVE  TypeOK' /\ LongCountExact'
<1>1. CASE UNCHANGED vars
  BY <1>1 DEF vars, TypeOK, LongCountExact
<1>2. ASSUME NEW r \in Routes, NEW e \in NexthopIds, RouteAdd(r[1], r[2], e)
      PROVE  TypeOK' /\ LongCountExact'
  <2>1. r[1] \in Addr /\ r[2] \in Lens /\ e \in Entry
    BY InputTypes
  <2>2. Insert(r[1], r[2], e)
    BY <1>2 DEF RouteAdd
  <2> QED
    BY <1>2, <2>1, <2>2, InsertTypes DEF RouteAdd, TypeOK, tableVars
<1>3. ASSUME NEW r \in Routes, RouteDel(r[1], r[2])
      PROVE  TypeOK' /\ LongCountExact'
  BY <1>3, InputTypes, DelTypes
<1>4. ASSUME NEW n \in 1..MaxBatch,
             NEW batch \in [1..n -> BatchRoutes],
             RouteAddBulk(batch)
      PROVE  TypeOK' /\ LongCountExact'
  <2>1. batch \in Seq(BulkRoute)
    BY BatchType
  <2> QED
    BY <1>4, <2>1 DEF RouteAddBulk, TypeOK, LongCountExact, tableVars
<1>5. CASE BulkNext
  <2>1. Head(todo) \in BulkRoute /\ todo' \in Seq(BulkRoute)
    BY <1>5, HeadTailProperties DEF BulkNext, TypeOK
  <2>2. Head(todo).addr \in Addr /\ Head(todo).len \in Lens /\ Head(todo).entry \in Entry
    BY <2>1 DEF BulkRoute
  <2>3. Insert(Head(todo).addr, Head(todo).len, Head(todo).entry)
    BY <1>5 DEF BulkNext
  <2> QED
    BY <1>5, <2>1, <2>2, <2>3, InsertTypes DEF BulkNext, TypeOK, tableVars
<1>6. CASE SyncBlock
  BY <1>6, SyncTypes DEF SyncBlock, LongCountExact
<1>7. CASE ApplyWrite
  BY <1>7, ApplyTypes DEF ApplyWrite, engineVars, LongCountExact
<1> QED
  BY <1>1, <1>2, <1>3, <1>4, <1>5, <1>6, <1>7
     DEF Next, Call, RouteAddExhausted, RouteDelAbsent, RouteAddBulkExhausted

\* The engine and the arrays keep their types (TypeOK) and long_count always
\* equals the number of long routes of its block, whatever routes are added,
\* replaced, deleted or loaded in bulk.
THEOREM TypesAndCounts == Spec => [](TypeOK /\ LongCountExact)
<1>1. Init => TypeOK /\ LongCountExact
  BY InitTypes
<1>2. TypeOK /\ LongCountExact /\ [Next]_vars => (TypeOK /\ LongCountExact)'
  BY NextTypes
<1> QED
  BY <1>1, <1>2, PTL DEF Spec

\* Every counter, list and table of the engine stays in its range (TypeOK),
\* route_del's decrement of long_count included.
THEOREM Dir24TypesHold == Spec => []TypeOK
  BY TypesAndCounts, PTL

-----------------------------------------------------------------------------
(***************************************************************************)
(* The pool: alloc_group and the quarantine keep every group in exactly    *)
(* one place.  First what the three queue operations do to a duplicate-    *)
(* free sequence, seen as a set.                                           *)
(***************************************************************************)
LEMMA FrontPool ==
    ASSUME NEW S, NEW s \in Seq(S), s # <<>>, IsInjective(s)
    PROVE  /\ Last(s) \in Range(s)
           /\ Range(Front(s)) = Range(s) \ {Last(s)}
           /\ IsInjective(Front(s))
<1> DEFINE n == Len(s)
           f == Front(s)
<1>1. n \in Nat /\ n >= 1 /\ DOMAIN s = 1..n
  BY EmptySeq, LenProperties
<1>2. f \in Seq(S) /\ Len(f) = n - 1 /\ DOMAIN f = 1..(n - 1)
      /\ \A i \in 1..(n - 1) : f[i] = s[i]
  BY <1>1 DEF Front
<1> HIDE DEF n, f
<1>3. Last(s) = s[n]
  BY DEF Last, n
<1>4. Last(s) \in Range(s)
  BY <1>1, <1>3 DEF Range
<1>5. IsInjective(f)
  BY <1>1, <1>2 DEF IsInjective
<1>6. Range(f) = Range(s) \ {Last(s)}
  <2>1. ASSUME NEW x \in Range(f) PROVE x \in Range(s) /\ x # Last(s)
    <3>1. PICK i \in 1..(n - 1) : x = f[i]
      BY <1>2, <2>1 DEF Range
    <3>2. x = s[i] /\ i \in 1..n /\ n \in 1..n /\ i # n
      BY <3>1, <1>1, <1>2
    <3> QED
      BY <3>2, <1>1, <1>3 DEF Range, IsInjective
  <2>2. ASSUME NEW x \in Range(s), x # Last(s) PROVE x \in Range(f)
    <3>1. PICK i \in 1..n : x = s[i]
      BY <1>1, <2>2 DEF Range
    <3>2. i \in 1..(n - 1)
      BY <3>1, <2>2, <1>1, <1>3
    <3> QED
      BY <3>1, <3>2, <1>2 DEF Range
  <2> QED
    BY <2>1, <2>2
<1> QED
  BY <1>4, <1>5, <1>6 DEF f

LEMMA TailPool ==
    ASSUME NEW S, NEW s \in Seq(S), s # <<>>, IsInjective(s)
    PROVE  /\ Head(s) \in Range(s)
           /\ Range(Tail(s)) = Range(s) \ {Head(s)}
           /\ IsInjective(Tail(s))
<1> DEFINE n == Len(s)
           t == Tail(s)
<1>1. n \in Nat /\ n >= 1 /\ DOMAIN s = 1..n
  BY EmptySeq, LenProperties
<1>2. t \in Seq(S) /\ Len(t) = n - 1 /\ DOMAIN t = 1..(n - 1)
      /\ \A i \in 1..(n - 1) : t[i] = s[i + 1]
  BY <1>1, HeadTailProperties, LenProperties
<1>3. Head(s) = s[1]
  BY <1>1
<1> HIDE DEF n, t
<1>4. Head(s) \in Range(s)
  BY <1>1, <1>3 DEF Range
<1>5. IsInjective(t)
  <2> SUFFICES ASSUME NEW i \in 1..(n - 1), NEW j \in 1..(n - 1), t[i] = t[j]
               PROVE  i = j
    BY <1>2 DEF IsInjective
  <2>1. i + 1 \in 1..n /\ j + 1 \in 1..n /\ s[i + 1] = s[j + 1]
    BY <1>1, <1>2
  <2>2. i + 1 = j + 1
    BY <2>1, <1>1 DEF IsInjective
  <2> QED
    BY <2>2, <1>1
<1>6. Range(t) = Range(s) \ {Head(s)}
  <2>1. ASSUME NEW x \in Range(t) PROVE x \in Range(s) /\ x # Head(s)
    <3>1. PICK i \in 1..(n - 1) : x = t[i]
      BY <1>2, <2>1 DEF Range
    <3>2. x = s[i + 1] /\ i + 1 \in 1..n /\ 1 \in 1..n /\ i + 1 # 1
      BY <3>1, <1>1, <1>2
    <3> QED
      BY <3>2, <1>1, <1>3 DEF Range, IsInjective
  <2>2. ASSUME NEW x \in Range(s), x # Head(s) PROVE x \in Range(t)
    <3>1. PICK i \in 1..n : x = s[i]
      BY <1>1, <2>2 DEF Range
    <3>2. i - 1 \in 1..(n - 1) /\ (i - 1) + 1 = i
      BY <3>1, <2>2, <1>1, <1>3
    <3>3. t[i - 1] = x
      BY <3>1, <3>2, <1>2
    <3> QED
      BY <3>2, <3>3, <1>2 DEF Range
  <2> QED
    BY <2>1, <2>2
<1> QED
  BY <1>4, <1>5, <1>6 DEF t

LEMMA AppendPool ==
    ASSUME NEW S, NEW s \in Seq(S), IsInjective(s), NEW x \in S, x \notin Range(s)
    PROVE  /\ Range(Append(s, x)) = Range(s) \cup {x}
           /\ IsInjective(Append(s, x))
<1> DEFINE n == Len(s)
           a == Append(s, x)
<1>1. n \in Nat /\ DOMAIN s = 1..n
  BY LenProperties
<1>2. a \in Seq(S) /\ DOMAIN a = 1..(n + 1) /\ a[n + 1] = x /\ \A i \in 1..n : a[i] = s[i]
  BY AppendProperties, LenProperties
<1> HIDE DEF n, a
<1>3. \A i \in 1..n : s[i] # x
  BY <1>1 DEF Range
<1>4. IsInjective(a)
  BY <1>1, <1>2, <1>3 DEF IsInjective
<1>5. Range(a) = Range(s) \cup {x}
  <2>1. ASSUME NEW y \in Range(a) PROVE y \in Range(s) \cup {x}
    BY <1>1, <1>2 DEF Range
  <2>2. ASSUME NEW y \in Range(s) PROVE y \in Range(a)
    <3>1. PICK i \in 1..n : y = s[i]
      BY <1>1, <2>2 DEF Range
    <3> QED
      BY <3>1, <1>1, <1>2 DEF Range
  <2>3. x \in Range(a)
    BY <1>1, <1>2 DEF Range
  <2> QED
    BY <2>1, <2>2, <2>3
<1> QED
  BY <1>4, <1>5 DEF a

LEMMA AllocPool ==
    ASSUME TypeOK, PoolSound, NEW b \in Blk, groups[b] = NoGroup,
           NEW g \in Group, AllocGroup(g), groups' = [groups EXCEPT ![b] = g]
    PROVE  PoolSound'
<1> DEFINE F == Range(free)
           Q == Range(quarantine)
<1>1. \A c \in Blk : groups'[c] = IF c = b THEN g ELSE groups[c]
  BY DEF TypeOK
<1>2. NoGroup \notin Group
  BY DEF NoGroup, Group
<1>3. CASE free # <<>> /\ g = Last(free) /\ free' = Front(free) /\ UNCHANGED quarantine
  <2>1. g \in F /\ Range(free') = F \ {g} /\ IsInjective(free')
    BY <1>3, FrontPool DEF TypeOK, PoolSound
  <2>2. Range(quarantine') = Q /\ IsInjective(quarantine')
    BY <1>3 DEF PoolSound
  <2> QED
    BY <1>1, <1>2, <2>1, <2>2 DEF PoolSound
<1>4. CASE quarantine # <<>> /\ g = Head(quarantine) /\ quarantine' = Tail(quarantine)
           /\ UNCHANGED free
  <2>1. g \in Q /\ Range(quarantine') = Q \ {g} /\ IsInjective(quarantine')
    BY <1>4, TailPool DEF TypeOK, PoolSound
  <2>2. Range(free') = F /\ IsInjective(free')
    BY <1>4 DEF PoolSound
  <2> QED
    BY <1>1, <1>2, <2>1, <2>2 DEF PoolSound
<1> QED
  BY <1>3, <1>4 DEF AllocGroup

LEMMA FreePool ==
    ASSUME TypeOK, PoolSound, NEW b \in Blk, groups[b] # NoGroup,
           FreeGroup(groups[b]), groups' = [groups EXCEPT ![b] = NoGroup]
    PROVE  PoolSound'
<1> DEFINE F == Range(free)
           Q == Range(quarantine)
           g == groups[b]
           q == Append(quarantine, g)
<1>1. \A c \in Blk : groups'[c] = IF c = b THEN NoGroup ELSE groups[c]
  BY DEF TypeOK
<1>2. g \in Group /\ g \notin F \cup Q /\ NoGroup \notin Group
  BY DEF TypeOK, PoolSound, NoGroup, Group
<1>3. q \in Seq(Group) /\ q # <<>> /\ Range(q) = Q \cup {g} /\ IsInjective(q)
  BY <1>2, AppendPool, AppendProperties DEF TypeOK, PoolSound
<1>4. CASE Len(q) > QuarantineDepth
  <2>1. quarantine' = Tail(q) /\ free' = Append(free, Head(q))
    BY <1>4 DEF FreeGroup
  <2> HIDE DEF q
  <2>2. /\ Head(q) \in Q \cup {g}
        /\ Range(quarantine') = (Q \cup {g}) \ {Head(q)} /\ IsInjective(quarantine')
    BY <1>3, <2>1, TailPool
  <2>3. Head(q) \in Group /\ Head(q) \notin F
    BY <1>2, <1>3, <2>2, HeadTailProperties DEF PoolSound
  <2>4. Range(free') = F \cup {Head(q)} /\ IsInjective(free')
    BY <2>1, <2>3, AppendPool DEF TypeOK, PoolSound
  <2> QED
    BY <1>1, <1>2, <2>2, <2>3, <2>4 DEF PoolSound
<1>5. CASE ~(Len(q) > QuarantineDepth)
  <2>1. quarantine' = q /\ free' = free
    BY <1>5 DEF FreeGroup
  <2> HIDE DEF q
  <2> QED
    BY <1>1, <1>2, <1>3, <2>1 DEF PoolSound
<1> QED
  BY <1>4, <1>5

LEMMA SyncPool ==
    ASSUME TypeOK, PoolSound, SyncBlock
    PROVE  PoolSound'
<1> DEFINE b == Min(pending)
<1>1. b \in Blk /\ (SyncInPlace(b) \/ SyncExpand(b) \/ SyncDirect(b))
  BY NextBlock DEF SyncBlock
<1> HIDE DEF b
<1>2. CASE SyncInPlace(b)
  BY <1>2 DEF SyncInPlace, PoolSound
<1>3. CASE SyncExpand(b)
  BY <1>1, <1>3, AllocPool DEF SyncExpand
<1>4. CASE SyncDirect(b) /\ groups[b] # NoGroup
  BY <1>1, <1>4, FreePool DEF SyncDirect
<1>5. CASE SyncDirect(b) /\ groups[b] = NoGroup
  <2>1. groups' = groups
    BY <1>1, <1>5 DEF SyncDirect, TypeOK
  <2> QED
    BY <1>5, <2>1 DEF SyncDirect, PoolSound
<1> QED
  BY <1>1, <1>2, <1>3, <1>4, <1>5

LEMMA InitPool ==
    ASSUME Init
    PROVE  PoolSound
<1>1. NGroups \in Nat /\ free = [i \in 1..NGroups |-> NGroups - i] /\ quarantine = <<>>
  BY GroupsAssumption DEF Init
<1>2. IsInjective(free) /\ IsInjective(quarantine)
  BY <1>1 DEF IsInjective
<1>3. Range(quarantine) = {}
  BY <1>1 DEF Range
<1>4. \A g \in Group : g \in Range(free)
  <2> SUFFICES ASSUME NEW g \in Group PROVE g \in Range(free)
    OBVIOUS
  <2>1. NGroups - g \in 1..NGroups /\ NGroups - (NGroups - g) = g
    BY <1>1 DEF Group
  <2>2. NGroups - g \in DOMAIN free /\ free[NGroups - g] = g
    BY <1>1, <2>1
  <2> QED
    BY <2>2 DEF Range
<1> QED
  BY <1>2, <1>3, <1>4 DEF PoolSound, Init

\* No interleaving of expansions and collapses loses a TBL8 group or gives it
\* to two blocks (PoolSound).
THEOREM PoolIsSound == Spec => []PoolSound
<1>1. Init => PoolSound
  BY InitPool
<1>2. TypeOK /\ PoolSound /\ [Next]_vars => PoolSound'
  <2> SUFFICES ASSUME TypeOK, PoolSound, [Next]_vars PROVE PoolSound'
    OBVIOUS
  <2>1. CASE UNCHANGED <<groups, free, quarantine>>
    BY <2>1 DEF PoolSound
  <2>2. CASE SyncBlock
    BY <2>2, SyncPool
  <2> QED
    BY <2>1, <2>2
       DEF Next, Call, BulkNext, ApplyWrite, RouteAdd, RouteDel, RouteAddBulk,
           RouteAddExhausted, RouteDelAbsent, RouteAddBulkExhausted, vars, engineVars
<1> QED
  BY <1>1, <1>2, TypesAndCounts, PTL DEF Spec

-----------------------------------------------------------------------------
(***************************************************************************)
(* The plan invariant (PlanInv) is inductive, and with it the engine and   *)
(* the arrays implement FibView.                                           *)
(***************************************************************************)
\* Phase 1 of a call: nothing but default routes is planned yet.
OnlyDefaults == \A i \in DOMAIN plan : plan[i].tab = "default"

LEMMA PlanDomain ==
    ASSUME TypeOK
    PROVE  /\ Len(plan) \in Nat /\ DOMAIN plan = 1..Len(plan)
           /\ \A i \in DOMAIN plan : plan[i] \in Write
BY LenProperties, ElementOfSeq DEF TypeOK

LEMMA WriteFields ==
    /\ \A b, w : /\ Tbl24Write(b, w).tab = "tbl24"
                 /\ Tbl24Write(b, w).idx[1] = b
                 /\ Tbl24Write(b, w).word = w
    /\ \A g, low, w : /\ Tbl8Write(g, low, w).tab = "tbl8"
                      /\ Tbl8Write(g, low, w).idx = <<g, low>>
                      /\ Tbl8Write(g, low, w).idx[1] = g
                      /\ Tbl8Write(g, low, w).word = w
    /\ \A w : DefaultWrite(w).tab = "default" /\ DefaultWrite(w).word = w
BY DEF Tbl24Write, Tbl8Write, DefaultWrite

LEMMA FinalWordType ==
    ASSUME TypeOK, NEW b \in Blk
    PROVE  /\ FinalWord(b) \in Word
           /\ groups[b] = NoGroup => FinalWord(b).kind # "group"
           /\ groups[b] # NoGroup => /\ groups[b] \in Group
                                     /\ FinalWord(b) = [kind |-> "group", id |-> groups[b]]
<1>1. 0 \in Low
  BY LensFacts DEF Low
<1>2. BlockCoverWord(shadow, b) \in Word /\ BlockCoverWord(shadow, b).kind # "group"
  BY <1>1, SlotWordType DEF TypeOK
<1>3. groups[b] # NoGroup => groups[b] \in Group
  BY DEF TypeOK
<1> QED
  BY <1>2, <1>3, GroupWordType DEF FinalWord

\* Masking with length zero leaves nothing: there is one default route.
LEMMA DefaultKey ==
    ASSUME NEW addr \in Addr
    PROVE  Key(addr, 0) = << <<0, 0>>, 0 >>
<1>1. addr[1] \in Nat /\ addr[1] < 2^BlkBits /\ 2^BlkBits \in Nat \ {0}
  BY LensFacts DEF Addr, Blk
<1>2. addr[1] % 2^BlkBits = addr[1]
  BY <1>1
<1>3. BlkBits - 0 = BlkBits /\ 0 <= BlkBits
  BY BitsAssumption
<1> QED
  BY <1>1, <1>2, <1>3 DEF Key, Mask

LEMMA DefaultWordChange ==
    ASSUME NEW rib \in Rib, NEW addr \in Addr, NEW len \in Lens,
           NEW e \in Entry \cup {NoEntry}
    PROVE  /\ len # 0 => DefaultWord(SetRoute(rib, addr, len, e)) = DefaultWord(rib)
           /\ len = 0 => DefaultWord(SetRoute(rib, addr, len, e)) =
                           IF e = NoEntry THEN ZeroWord ELSE fibw_entry(e)
<1> DEFINE d == << <<0, 0>>, 0 >>
<1>1. d \in Prefix
  BY LensFacts DEF Prefix, Addr, Blk, Low, Lens
<1>2. len # 0 => Key(addr, len) # d
  BY DEF Key
<1>3. len = 0 => Key(addr, len) = d
  BY DefaultKey
<1>4. SetRoute(rib, addr, len, e)[d] = IF d = Key(addr, len) THEN e ELSE rib[d]
  BY <1>1, SetRouteFacts
<1> HIDE DEF d
<1> QED
  BY <1>2, <1>3, <1>4 DEF DefaultWord, d

\* In phase 1 every pointer is to the block's own group.
LEMMA QuietPointers ==
    ASSUME TypeOK, PlanInv, OnlyDefaults
    PROVE  /\ \A b \in Blk : groups[b] # NoGroup => tbl24[b] = fibw_group(groups[b])
           /\ \A b \in Blk : tbl24[b].kind = "group" =>
                 \E g \in Group : tbl24[b] = fibw_group(g) /\ groups[b] = g
           /\ \A b \in Blk \ pending :
                 /\ tbl24[b] = FinalWord(b)
                 /\ groups[b] # NoGroup =>
                       \A low \in Low : tbl8[<<groups[b], low>>] = SlotWord(shadow, b, low)
<1>1. \A i \in DOMAIN plan : plan[i].tab # "tbl24" /\ plan[i].tab # "tbl8"
  BY DEF OnlyDefaults
<1>2. \A b \in Blk \ pending : tbl24[b] = FinalWord(b)
  BY <1>1 DEF PlanInv, ArraysSound, Tbl24Write
<1>3. \A b \in Blk \ pending : groups[b] # NoGroup =>
          \A low \in Low : tbl8[<<groups[b], low>>] = SlotWord(shadow, b, low)
  BY <1>1 DEF PlanInv, ArraysSound, Tbl8Write
<1>4. \A b \in Blk : groups[b] # NoGroup => tbl24[b] = fibw_group(groups[b])
  BY <1>2 DEF PlanInv, ArraysSound, FinalWord
<1>5. ASSUME NEW b \in Blk, tbl24[b].kind = "group"
      PROVE  \E g \in Group : tbl24[b] = fibw_group(g) /\ groups[b] = g
  <2>1. ~(pending = {} /\ groups[b] = NoGroup)
    BY <1>2, <1>5, FinalWordType
  <2> QED
    BY <1>5, <2>1 DEF PlanInv, PointersSound
<1> QED
  BY <1>2, <1>3, <1>4, <1>5

\* What setting one route in phase 1 does to the plan invariant.
LEMMA ShadowChange ==
    ASSUME TypeOK, TypeOK', PlanInv, OnlyDefaults,
           NEW addr \in Addr, NEW len \in Lens, NEW e \in Entry \cup {NoEntry},
           shadow' = SetRoute(shadow, addr, len, e),
           UNCHANGED <<groups, tbl24, tbl8, default4>>,
           len = 0 => /\ pending' = pending
                      /\ plan' = Append(plan, DefaultWrite(
                                     IF e = NoEntry THEN ZeroWord ELSE fibw_entry(e))),
           len # 0 => /\ pending' = pending \cup AffectedBlocks(Mask(addr, len), len)
                      /\ plan' = plan
    PROVE  PlanSound' /\ PointersSound' /\ ArraysSound'
<1> DEFINE w == IF e = NoEntry THEN ZeroWord ELSE fibw_entry(e)
<1>1. shadow \in Rib
  BY DEF TypeOK
<1>2. DefaultWord(shadow') = IF len = 0 THEN w ELSE DefaultWord(shadow)
  BY <1>1, DefaultWordChange
<1>3. \A b \in Blk \ pending' :
         /\ b \in Blk \ pending
         /\ \A low \in Low : SlotWord(shadow', b, low) = SlotWord(shadow, b, low)
         /\ BlockCoverWord(shadow', b) = BlockCoverWord(shadow, b)
  <2> SUFFICES ASSUME NEW b \in Blk \ pending'
               PROVE  /\ b \in Blk \ pending
                      /\ \A low \in Low : SlotWord(shadow', b, low) = SlotWord(shadow, b, low)
                      /\ BlockCoverWord(shadow', b) = BlockCoverWord(shadow, b)
    OBVIOUS
  <2>1. b \in Blk \ pending /\ (len = 0 \/ b \notin AffectedBlocks(Mask(addr, len), len))
    OBVIOUS
  <2>2. \A low \in Low : /\ SlotWord(shadow', b, low) = SlotWord(shadow, b, low)
                         /\ BlockCoverWord(shadow', b) = BlockCoverWord(shadow, b)
    BY <1>1, <2>1, WordsUnaffected
  <2>3. 0 \in Low
    BY LensFacts DEF Low
  <2> QED
    BY <2>1, <2>2, <2>3
<1>4. \A b \in Blk \ pending' : FinalWord(b)' = FinalWord(b)
  BY <1>3 DEF FinalWord
<1>5. DefaultWrite(w) \in Write /\ DefaultWrite(w).tab = "default"
  BY WriteTypes, EntryWordType DEF DefaultWrite
<1>6. /\ OnlyDefaults'
      /\ len # 0 => plan' = plan
      /\ len = 0 => /\ DOMAIN plan' = 1..(Len(plan) + 1)
                    /\ plan'[Len(plan) + 1] = DefaultWrite(w)
                    /\ \A i \in 1..Len(plan) : plan'[i] = plan[i]
  <2> HIDE DEF w
  <2>1. CASE len = 0
    <3>1. plan' = Append(plan, DefaultWrite(w))
      BY <2>1 DEF w
    <3>2. /\ DOMAIN plan' = 1..(Len(plan) + 1)
          /\ plan'[Len(plan) + 1] = DefaultWrite(w)
          /\ \A i \in 1..Len(plan) : plan'[i] = plan[i]
      BY <1>5, <3>1, AppendProperties, LenProperties DEF TypeOK
    <3>3. OnlyDefaults'
      BY <1>5, <3>2, PlanDomain DEF OnlyDefaults
    <3> QED
      BY <2>1, <3>2, <3>3
  <2>2. CASE len # 0
    BY <2>2 DEF OnlyDefaults
  <2> QED
    BY <2>1, <2>2
<1> HIDE DEF w
<1>7. PlanSound'
  <2>1. \A i \in DOMAIN plan' : plan'[i].tab = "default"
    BY <1>6 DEF OnlyDefaults
  <2>2. ASSUME NEW i \in DOMAIN plan', \A j \in DOMAIN plan' : j <= i
        PROVE  plan'[i] = DefaultWrite(DefaultWord(shadow'))
    <3>1. CASE len = 0
      <4>1. i = Len(plan) + 1
        BY <1>6, <2>2, <3>1, PlanDomain
      <4> QED
        BY <1>2, <1>6, <3>1, <4>1
    <3>2. CASE len # 0
      <4>1. plan' = plan /\ i \in DOMAIN plan /\ plan[i].tab = "default"
        BY <1>6, <2>1, <3>2
      <4>2. \A j \in DOMAIN plan : plan[j].tab = "default" => j <= i
        BY <2>2, <4>1
      <4>3. plan[i] = DefaultWrite(DefaultWord(shadow))
        BY <4>1, <4>2 DEF PlanInv, PlanSound
      <4> QED
        BY <1>2, <3>2, <4>1, <4>3
    <3> QED
      BY <3>1, <3>2
  <2> QED
    BY <2>1, <2>2 DEF PlanSound
<1>8. PointersSound'
  BY QuietPointers DEF PointersSound
<1>9. ArraysSound'
  <2>1. \A b \in pending' : groups'[b] # NoGroup => tbl24'[b] = fibw_group(groups'[b])
    BY QuietPointers DEF TypeOK
  <2>2. ASSUME NEW b \in Blk \ pending'
        PROVE  /\ tbl24'[b] = FinalWord(b)'
               /\ groups'[b] # NoGroup =>
                     \A low \in Low : tbl8'[<<groups'[b], low>>] = SlotWord(shadow', b, low)
    BY <1>3, <1>4, QuietPointers
  <2>3. \A i \in DOMAIN plan' : plan'[i].tab # "tbl24"
    BY <1>6 DEF OnlyDefaults
  <2>4. default4' = DefaultWord(shadow') \/ \E i \in DOMAIN plan' : plan'[i].tab = "default"
    <3>1. CASE len = 0
      <4>1. Len(plan) + 1 \in DOMAIN plan'
        BY <1>6, <3>1, PlanDomain
      <4> QED
        BY <4>1, <1>6 DEF OnlyDefaults
    <3>2. CASE len # 0
      BY <1>2, <1>6, <3>2 DEF PlanInv, ArraysSound
    <3> QED
      BY <3>1, <3>2
  <2> QED
    BY <2>1, <2>2, <2>3, <2>4 DEF ArraysSound
<1> QED
  BY <1>7, <1>8, <1>9

LEMMA AddPlan ==
    ASSUME TypeOK, TypeOK', PlanInv, OnlyDefaults,
           \A b \in pending : groups[b] # NoGroup => longCount[b] > 0,
           NEW addr \in Addr, NEW len \in Lens, NEW e \in Entry,
           Insert(addr, len, e), UNCHANGED <<groups, tbl24, tbl8, default4>>
    PROVE  PlanInv'
<1>1. e # NoEntry /\ e \in Entry \cup {NoEntry} /\ addr[1] \in Blk
  BY DEF Entry, NoEntry, Addr
<1>2. shadow' = SetRoute(shadow, addr, len, e)
  BY DEF Insert, SetRoute, Key
<1>3. PlanSound' /\ PointersSound' /\ ArraysSound'
  <2>1. len = 0 => /\ pending' = pending
                   /\ plan' = Append(plan, DefaultWrite(
                                  IF e = NoEntry THEN ZeroWord ELSE fibw_entry(e)))
    BY <1>1 DEF Insert
  <2>2. len # 0 => /\ pending' = pending \cup AffectedBlocks(Mask(addr, len), len)
                   /\ plan' = plan
    BY DEF Insert
  <2> QED
    BY <1>1, <1>2, <2>1, <2>2, ShadowChange
<1>4. PendingSound'
  <2>1. \A b \in Blk : longCount'[b] \in Nat /\ longCount[b] \in Nat /\ longCount'[b] >= longCount[b]
    BY <1>1 DEF Insert, TypeOK
  <2>2. \A b \in Blk \ pending' : b \in Blk \ pending /\ longCount'[b] = longCount[b]
    <3> SUFFICES ASSUME NEW b \in Blk \ pending'
                 PROVE  b \in Blk \ pending /\ longCount'[b] = longCount[b]
      OBVIOUS
    <3>1. CASE len > BlkBits
      <4>1. addr[1] \in AffectedBlocks(Mask(addr, len), len) /\ len # 0
        BY <3>1, AffectedFacts, BitsAssumption DEF Lens
      <4>2. b # addr[1] /\ b \notin pending
        BY <4>1 DEF Insert
      <4> QED
        BY <4>2, <1>1 DEF Insert, TypeOK
    <3>2. CASE ~(len > BlkBits)
      BY <3>2, <1>1 DEF Insert, TypeOK
    <3> QED
      BY <3>1, <3>2
  <2>3. \A b \in Blk : groups[b] # NoGroup => longCount[b] > 0
    BY DEF PlanInv, PendingSound
  <2>4. \A b \in pending' : ~(groups'[b] # NoGroup /\ longCount'[b] = 0)
    <3>1. pending' \subseteq Blk
      BY DEF TypeOK
    <3> QED
      BY <2>1, <2>3, <3>1
  <2> QED
    BY <2>2, <2>4 DEF PlanInv, PendingSound
<1> QED
  BY <1>3, <1>4 DEF PlanInv

LEMMA DelPlan ==
    ASSUME TypeOK, TypeOK', PlanInv,
           NEW addr \in Addr, NEW len \in Lens, RouteDel(addr, len)
    PROVE  PlanInv'
<1>1. /\ todo = <<>> /\ pending = {} /\ plan = <<>> /\ OnlyDefaults
      /\ NoEntry \in Entry \cup {NoEntry} /\ addr[1] \in Blk
  BY DEF RouteDel, Idle, OnlyDefaults, Addr
<1>2. shadow' = SetRoute(shadow, addr, len, NoEntry)
  BY DEF RouteDel, SetRoute, Key
<1>3. PlanSound' /\ PointersSound' /\ ArraysSound'
  <2>1. len = 0 => /\ pending' = pending
                   /\ plan' = Append(plan, DefaultWrite(
                                  IF NoEntry = NoEntry THEN ZeroWord ELSE fibw_entry(NoEntry)))
    BY <1>1 DEF RouteDel
  <2>2. len # 0 => /\ pending' = pending \cup AffectedBlocks(Mask(addr, len), len)
                   /\ plan' = plan
    BY <1>1 DEF RouteDel
  <2> QED
    BY <1>1, <1>2, <2>1, <2>2, ShadowChange DEF RouteDel, tableVars
<1>4. PendingSound'
  <2>1. \A b \in Blk : groups[b] # NoGroup <=> longCount[b] > 0
    BY <1>1 DEF PlanInv, PendingSound
  <2>2. CASE len > BlkBits
    <3>1. pending' = {addr[1]}
      <4>1. len # 0 /\ Mask(addr, len)[1] = addr[1]
        BY <2>2, MaskType, BitsAssumption DEF Lens
      <4> QED
        BY <2>2, <4>1 DEF RouteDel, AffectedBlocks
    <3>2. \A b \in Blk : b # addr[1] => longCount'[b] = longCount[b]
      BY <1>1 DEF RouteDel, TypeOK
    <3> QED
      BY <1>1, <2>1, <3>1, <3>2 DEF PendingSound, RouteDel
  <2>3. CASE ~(len > BlkBits)
    <3>1. longCount' = longCount
      BY <1>1, <2>3 DEF RouteDel, TypeOK
    <3>2. pending' \subseteq Blk
      BY DEF TypeOK
    <3>3. \A b \in Blk : groups'[b] # NoGroup <=> longCount'[b] > 0
      BY <2>1, <3>1 DEF RouteDel
    <3>4. \A b \in Blk : longCount'[b] = 0 => ~(longCount'[b] > 0)
      BY DEF TypeOK
    <3> QED
      BY <3>2, <3>3, <3>4 DEF PendingSound
  <2> QED
    BY <2>2, <2>3
<1> QED
  BY <1>3, <1>4 DEF PlanInv

-----------------------------------------------------------------------------
(***************************************************************************)
(* Phase 2.  The three outcomes of sync_block have this in common: writes  *)
(* for block b alone are appended, they bring b to its final words, and    *)
(* the fill precedes the flip.                                             *)
(***************************************************************************)
LEMMA ExtendPlan ==
    ASSUME TypeOK, PlanInv, SyncBlock,
           NEW b \in pending, pending' = pending \ {b},
           NEW new \in Seq(Write), plan' = plan \o new,
           \A c \in Blk : c # b => groups'[c] = groups[c],
           groups'[b] # NoGroup <=> longCount[b] > 0,
           groups'[b] # NoGroup => \A c \in Blk : c # b => groups[c] # groups'[b],
           tbl24[b] = FinalWord(b)' \/ \E k \in 1..Len(new) : new[k] = Tbl24Write(b, FinalWord(b)'),
           \A k \in 1..Len(new) :
              \/ new[k] = Tbl24Write(b, FinalWord(b)')
              \/ groups'[b] # NoGroup /\ \E low \in Low :
                    new[k] = Tbl8Write(groups'[b], low, SlotWord(shadow, b, low)),
           groups'[b] # NoGroup => \A low \in Low : \E k \in 1..Len(new) :
              new[k] = Tbl8Write(groups'[b], low, SlotWord(shadow, b, low)),
           \A k, l \in 1..Len(new) : new[k].tab = "tbl24" /\ new[l].tab = "tbl8" => l < k
    PROVE  PendingSound' /\ PlanSound' /\ ArraysSound'
<1> DEFINE n == Len(plan)
           m == Len(new)
<1>1. n \in Nat /\ m \in Nat /\ DOMAIN plan = 1..n
  BY PlanDomain, LenProperties
<1>2. /\ DOMAIN plan' = 1..(n + m)
      /\ \A i \in 1..n : plan'[i] = plan[i]
      /\ \A i \in (n + 1)..(n + m) : i - n \in 1..m /\ plan'[i] = new[i - n]
      /\ \A k \in 1..m : n + k \in 1..(n + m) /\ plan'[n + k] = new[k]
  <2>1. plan \in Seq(Write)
    BY DEF TypeOK
  <2>2. plan' \in Seq(Write) /\ Len(plan') = n + m
        /\ \A i \in 1..(n + m) : plan'[i] = IF i <= n THEN plan[i] ELSE new[i - n]
    BY <2>1, ConcatProperties
  <2>3. DOMAIN plan' = 1..(n + m)
    BY <2>2, LenProperties
  <2> HIDE DEF n, m
  <2>4. \A k \in 1..m : n + k \in 1..(n + m) /\ ~(n + k <= n) /\ (n + k) - n = k
    BY <1>1
  <2> QED
    BY <1>1, <2>2, <2>3, <2>4
<1>3. /\ b \in Blk /\ todo = <<>> /\ todo' = <<>> /\ shadow' = shadow
      /\ longCount' = longCount /\ tbl24' = tbl24 /\ tbl8' = tbl8 /\ default4' = default4
  BY DEF SyncBlock, TypeOK, tableVars
<1> HIDE DEF n, m
<1>4. \A c \in Blk : c # b => FinalWord(c)' = FinalWord(c) /\ (c \in pending' <=> c \in pending)
  BY <1>3 DEF FinalWord
<1>5. \A k \in 1..m :
         \/ new[k].tab = "tbl24" /\ new[k].idx[1] = b /\ new[k] = Tbl24Write(b, FinalWord(b)')
         \/ /\ new[k].tab = "tbl8" /\ groups'[b] # NoGroup /\ new[k].idx[1] = groups'[b]
            /\ \E low \in Low : new[k] = Tbl8Write(groups'[b], low, SlotWord(shadow, b, low))
  BY WriteFields DEF m
<1>6. PendingSound'
  <2>1. \A c \in Blk \ pending' : groups'[c] # NoGroup <=> longCount'[c] > 0
    BY <1>3 DEF PlanInv, PendingSound
  <2>2. \A c \in pending' : ~(groups'[c] # NoGroup /\ longCount'[c] = 0)
    <3>1. \A c \in pending' : c \in pending /\ c # b /\ c \in Blk
      BY DEF TypeOK
    <3> QED
      BY <1>3, <3>1 DEF PlanInv, PendingSound
  <2> QED
    BY <2>1, <2>2 DEF PendingSound
<1>7. \A i \in 1..n :
         /\ plan[i].tab = "tbl24" => \E c \in Blk \ pending' :
                c # b /\ plan[i] = Tbl24Write(c, FinalWord(c)')
         /\ plan[i].tab = "tbl8" => \E c \in Blk \ pending', low \in Low :
                c # b /\ groups'[c] # NoGroup
                /\ plan[i] = Tbl8Write(groups'[c], low, SlotWord(shadow, c, low))
  <2> SUFFICES ASSUME NEW i \in 1..n
               PROVE  /\ plan[i].tab = "tbl24" => \E c \in Blk \ pending' :
                            c # b /\ plan[i] = Tbl24Write(c, FinalWord(c)')
                      /\ plan[i].tab = "tbl8" => \E c \in Blk \ pending', low \in Low :
                            c # b /\ groups'[c] # NoGroup
                            /\ plan[i] = Tbl8Write(groups'[c], low, SlotWord(shadow, c, low))
    OBVIOUS
  <2>1. CASE plan[i].tab = "tbl24"
    <3>1. PICK c \in Blk \ pending : plan[i] = Tbl24Write(c, FinalWord(c))
      BY <1>1, <2>1 DEF PlanInv, PlanSound
    <3> QED
      BY <2>1, <3>1, <1>4
  <2>2. CASE plan[i].tab = "tbl8"
    <3>1. PICK c \in Blk \ pending, low \in Low :
             /\ groups[c] # NoGroup
             /\ plan[i] = Tbl8Write(groups[c], low, SlotWord(shadow, c, low))
      BY <1>1, <2>2 DEF PlanInv, PlanSound
    <3> QED
      BY <2>2, <3>1, <1>4
  <2> QED
    BY <2>1, <2>2
<1>8. PlanSound'
  <2> SUFFICES ASSUME NEW i \in DOMAIN plan'
               PROVE  /\ plan'[i].tab = "tbl24" =>
                            \E c \in Blk \ pending' : plan'[i] = Tbl24Write(c, FinalWord(c)')
                      /\ plan'[i].tab = "tbl8" =>
                            \E c \in Blk \ pending', low \in Low :
                               /\ groups'[c] # NoGroup
                               /\ plan'[i] = Tbl8Write(groups'[c], low, SlotWord(shadow', c, low))
                      /\ (plan'[i].tab = "default"
                            /\ \A j \in DOMAIN plan' : plan'[j].tab = "default" => j <= i)
                          => plan'[i] = DefaultWrite(DefaultWord(shadow'))
    BY <1>3 DEF PlanSound
  <2>1. CASE i \in 1..n
    <3>1. plan'[i] = plan[i] /\ i \in DOMAIN plan
      BY <1>1, <1>2, <2>1
    <3>2. (\A j \in DOMAIN plan' : plan'[j].tab = "default" => j <= i)
             => (\A j \in DOMAIN plan : plan[j].tab = "default" => j <= i)
      BY <1>1, <1>2
    <3>3. (plan[i].tab = "default" /\ \A j \in DOMAIN plan : plan[j].tab = "default" => j <= i)
             => plan[i] = DefaultWrite(DefaultWord(shadow))
      BY <3>1 DEF PlanInv, PlanSound
    <3> QED
      BY <1>3, <1>7, <2>1, <3>1, <3>2, <3>3
  <2>2. CASE i \in (n + 1)..(n + m)
    <3>1. i - n \in 1..m /\ plan'[i] = new[i - n]
      BY <1>2, <2>2
    <3>2. plan'[i].tab # "default" /\ b \in Blk \ pending'
      BY <1>3, <1>5, <3>1
    <3> QED
      BY <1>3, <1>5, <3>1, <3>2
  <2> QED
    BY <1>1, <1>2, <2>1, <2>2
<1>9. ArraysSound'
  <2>1. \A c \in pending' : groups'[c] # NoGroup => tbl24'[c] = fibw_group(groups'[c])
    BY <1>3 DEF PlanInv, ArraysSound, TypeOK
  <2>2. ASSUME NEW c \in Blk \ pending'
        PROVE  tbl24'[c] = FinalWord(c)'
               \/ \E i \in DOMAIN plan' : plan'[i] = Tbl24Write(c, FinalWord(c)')
    <3>1. CASE c = b
      <4>1. tbl24[b] = FinalWord(b)' \/ \E k \in 1..m : new[k] = Tbl24Write(b, FinalWord(b)')
        BY DEF m
      <4>2. \A k \in 1..m : n + k \in DOMAIN plan' /\ plan'[n + k] = new[k]
        BY <1>2
      <4> QED
        BY <1>3, <3>1, <4>1, <4>2
    <3>2. CASE c # b
      <4>1. \/ tbl24[c] = FinalWord(c)
            \/ \E i \in DOMAIN plan : plan[i] = Tbl24Write(c, FinalWord(c))
        BY <2>2, <3>2, <1>4 DEF PlanInv, ArraysSound
      <4>2. DOMAIN plan \subseteq DOMAIN plan' /\ \A i \in DOMAIN plan : plan'[i] = plan[i]
        BY <1>1, <1>2
      <4> QED
        BY <1>3, <1>4, <3>2, <4>1, <4>2
    <3> QED
      BY <3>1, <3>2
  <2>3. ASSUME NEW c \in Blk \ pending', groups'[c] # NoGroup, NEW low \in Low
        PROVE  \/ tbl8'[<<groups'[c], low>>] = SlotWord(shadow', c, low)
               \/ \E i \in DOMAIN plan' :
                     plan'[i] = Tbl8Write(groups'[c], low, SlotWord(shadow', c, low))
    <3>1. CASE c = b
      <4>1. \E k \in 1..m : new[k] = Tbl8Write(groups'[b], low, SlotWord(shadow, b, low))
        BY <2>3, <3>1 DEF m
      <4>2. \A k \in 1..m : n + k \in DOMAIN plan' /\ plan'[n + k] = new[k]
        BY <1>2
      <4> QED
        BY <1>3, <3>1, <4>1, <4>2
    <3>2. CASE c # b
      <4>1. \/ tbl8[<<groups[c], low>>] = SlotWord(shadow, c, low)
            \/ \E i \in DOMAIN plan : plan[i] = Tbl8Write(groups[c], low, SlotWord(shadow, c, low))
        BY <2>3, <3>2, <1>4 DEF PlanInv, ArraysSound
      <4>2. DOMAIN plan \subseteq DOMAIN plan' /\ \A i \in DOMAIN plan : plan'[i] = plan[i]
        BY <1>1, <1>2
      <4> QED
        BY <1>3, <1>4, <3>2, <4>1, <4>2
    <3> QED
      BY <3>1, <3>2
  <2>4. ASSUME NEW c \in Blk \ pending', groups'[c] # NoGroup,
               NEW i \in DOMAIN plan', NEW j \in DOMAIN plan',
               plan'[i].tab = "tbl24", plan'[i].idx[1] = c,
               plan'[j].tab = "tbl8", plan'[j].idx[1] = groups'[c]
        PROVE  j < i
    <3>0. (i \in 1..n \/ i \in (n+1)..(n+m)) /\ (j \in 1..n \/ j \in (n+1)..(n+m))
      BY <1>1, <1>2
    <3>1. CASE c = b
      <4>1. i \notin 1..n
        <5>1. SUFFICES ASSUME i \in 1..n PROVE FALSE
          OBVIOUS
        <5>2. plan'[i] = plan[i] /\ plan[i].tab = "tbl24" /\ plan[i].idx[1] = b
          BY <1>2, <2>4, <3>1, <5>1
        <5>3. PICK d \in Blk : d # b /\ plan[i] = Tbl24Write(d, FinalWord(d)')
          BY <1>7, <5>1, <5>2
        <5>4. plan[i].idx[1] = d
          BY <5>3, WriteFields
        <5> QED
          BY <5>2, <5>3, <5>4
      <4>2. CASE j \in 1..n
        BY <1>1, <3>0, <4>1, <4>2
      <4>3. CASE j \in (n+1)..(n+m)
        <5>1. i - n \in 1..m /\ j - n \in 1..m /\ plan'[i] = new[i - n] /\ plan'[j] = new[j - n]
          BY <1>2, <3>0, <4>1, <4>3
        <5>2. j - n < i - n
          BY <2>4, <5>1 DEF m
        <5> QED
          BY <1>1, <3>0, <5>1, <5>2
      <4> QED
        BY <3>0, <4>2, <4>3
    <3>2. CASE c # b
      <4>1. i \in 1..n
        <5>1. ASSUME i \in (n+1)..(n+m) PROVE FALSE
          <6>1. i - n \in 1..m /\ plan'[i] = new[i - n]
            BY <1>2, <5>1
          <6>2. plan'[i].idx[1] = b
            BY <1>5, <2>4, <6>1
          <6> QED
            BY <2>4, <3>2, <6>2
        <5> QED
          BY <3>0, <5>1
      <4>2. j \in 1..n
        <5>1. ASSUME j \in (n+1)..(n+m) PROVE FALSE
          <6>1. j - n \in 1..m /\ plan'[j] = new[j - n]
            BY <1>2, <5>1
          <6>2. groups'[b] # NoGroup /\ plan'[j].idx[1] = groups'[b]
            BY <1>5, <2>4, <6>1
          <6> QED
            BY <2>4, <3>2, <6>2
        <5> QED
          BY <3>0, <5>1
      <4>3. plan'[i] = plan[i] /\ plan'[j] = plan[j] /\ c \in Blk \ pending /\ groups[c] = groups'[c]
        BY <1>2, <1>4, <3>2, <4>1, <4>2
      <4> QED
        BY <1>1, <2>4, <4>1, <4>2, <4>3 DEF PlanInv, ArraysSound
    <3> QED
      BY <3>1, <3>2
  <2>5. default4' = DefaultWord(shadow') \/ \E i \in DOMAIN plan' : plan'[i].tab = "default"
    <3>1. default4 = DefaultWord(shadow) \/ \E i \in DOMAIN plan : plan[i].tab = "default"
      BY DEF PlanInv, ArraysSound
    <3>2. DOMAIN plan \subseteq DOMAIN plan' /\ \A i \in DOMAIN plan : plan'[i] = plan[i]
      BY <1>1, <1>2
    <3> QED
      BY <1>3, <3>1, <3>2
  <2> QED
    BY <2>1, <2>2, <2>3, <2>4, <2>5 DEF ArraysSound
<1> QED
  BY <1>6, <1>8, <1>9

LEMMA SyncPlan ==
    ASSUME TypeOK, TypeOK', PoolSound, PlanInv, SyncBlock
    PROVE  PlanInv'
<1>1. PICK b \in Blk : /\ b \in pending /\ pending' = pending \ {b}
                       /\ SyncInPlace(b) \/ SyncExpand(b) \/ SyncDirect(b)
  BY NextBlock DEF SyncBlock
<1>2. /\ todo = <<>> /\ shadow' = shadow /\ longCount' = longCount
      /\ tbl24' = tbl24 /\ tbl8' = tbl8 /\ longCount[b] \in Nat
  BY <1>1 DEF SyncBlock, tableVars, TypeOK
<1>3. \A c \in Blk : tbl24[c].kind = "group" =>
         \E g \in Group : tbl24[c] = fibw_group(g) /\ groups[c] = g
  BY <1>1 DEF PlanInv, PointersSound
<1>4. groups[b] # NoGroup => tbl24[b] = fibw_group(groups[b])
  BY <1>1 DEF PlanInv, ArraysSound
<1>5. CASE SyncInPlace(b)
  <2> DEFINE new == FillGroup(groups[b], b)
  <2>1. groups[b] # NoGroup /\ groups[b] \in Group /\ groups' = groups /\ longCount[b] > 0
        /\ plan' = plan \o new
    BY <1>1, <1>5 DEF SyncInPlace, TypeOK
  <2>2. /\ new \in Seq(Write) /\ Len(new) = 2^LowBits
        /\ \A k \in 1..Len(new) : k - 1 \in Low
             /\ new[k] = Tbl8Write(groups'[b], k - 1, SlotWord(shadow, b, k - 1))
    BY <1>1, <2>1, FillGroupTypes
  <2> HIDE DEF new
  <2>3. \A low \in Low : low + 1 \in 1..Len(new) /\ (low + 1) - 1 = low
    BY <2>2, LensFacts DEF Low
  <2>4. \A k \in 1..Len(new) : new[k].tab # "tbl24"
    BY <2>2, WriteFields
  <2>5. tbl24[b] = FinalWord(b)'
    BY <1>4, <2>1 DEF FinalWord
  <2>6. \A c \in Blk : c # b => groups[c] # groups'[b]
    BY <1>1, <2>1 DEF PoolSound
  <2>7. \A low \in Low : \E k \in 1..Len(new) :
           new[k] = Tbl8Write(groups'[b], low, SlotWord(shadow, b, low))
    BY <2>2, <2>3
  <2>8. PendingSound' /\ PlanSound' /\ ArraysSound'
    BY <1>1, <2>1, <2>2, <2>4, <2>5, <2>6, <2>7, ExtendPlan
  <2>9. PointersSound'
    BY <1>2, <1>3, <2>1 DEF PointersSound
  <2> QED
    BY <2>8, <2>9 DEF PlanInv
<1>6. CASE SyncExpand(b)
  <2>1. PICK g \in Group : /\ AllocGroup(g)
                           /\ groups' = [groups EXCEPT ![b] = g]
                           /\ plan' = (plan \o FillGroup(g, b))
                                         \o <<Tbl24Write(b, fibw_group(g))>>
    BY <1>6 DEF SyncExpand
  <2> DEFINE fill == FillGroup(g, b)
             flip == Tbl24Write(b, fibw_group(g))
             new == fill \o <<flip>>
  <2>2. groups[b] = NoGroup /\ longCount[b] > 0 /\ groups'[b] = g /\ g # NoGroup
        /\ \A c \in Blk : c # b => groups'[c] = groups[c]
    BY <1>1, <1>6, <2>1 DEF SyncExpand, TypeOK, Group, NoGroup
  <2>3. /\ fill \in Seq(Write) /\ Len(fill) = 2^LowBits
        /\ \A k \in 1..Len(fill) : k - 1 \in Low
             /\ fill[k] = Tbl8Write(g, k - 1, SlotWord(shadow, b, k - 1))
    BY <1>1, FillGroupTypes
  <2>4. flip \in Write /\ <<flip>> \in Seq(Write)
    BY <1>1, GroupWordType, WriteTypes
  <2>5. FinalWord(b)' = fibw_group(g)
    BY <2>2 DEF FinalWord
  <2> HIDE DEF fill, flip
  <2>6. plan' = plan \o new
    <3>1. plan \in Seq(Write) /\ plan' = (plan \o fill) \o <<flip>>
      BY <2>1 DEF TypeOK, fill, flip
    <3> QED
      BY <2>3, <2>4, <3>1, ConcatAssociative
  <2>7. /\ new \in Seq(Write) /\ Len(new) = Len(fill) + 1 /\ Len(fill) \in Nat
        /\ \A k \in 1..Len(fill) : new[k] = fill[k]
        /\ new[Len(fill) + 1] = flip
    <3>1. Len(<<flip>>) = 1 /\ <<flip>>[1] = flip /\ Len(fill) \in Nat
      BY <2>3, LenProperties
    <3>2. new \in Seq(Write) /\ Len(new) = Len(fill) + Len(<<flip>>)
          /\ \A i \in 1..(Len(fill) + Len(<<flip>>)) : new[i] =
                IF i <= Len(fill) THEN fill[i] ELSE <<flip>>[i - Len(fill)]
      BY <2>3, <2>4, ConcatProperties
    <3>3. new[Len(fill) + 1] = <<flip>>[(Len(fill) + 1) - Len(fill)]
      BY <3>1, <3>2
    <3> HIDE DEF new
    <3> QED
      BY <3>1, <3>2, <3>3
  <2> HIDE DEF new
  <2>8. \A low \in Low : \E k \in 1..Len(new) :
           new[k] = Tbl8Write(groups'[b], low, SlotWord(shadow, b, low))
    <3> SUFFICES ASSUME NEW low \in Low
                 PROVE  \E k \in 1..Len(new) :
                          new[k] = Tbl8Write(groups'[b], low, SlotWord(shadow, b, low))
      OBVIOUS
    <3>1. low + 1 \in 1..Len(fill) /\ low + 1 \in 1..Len(new) /\ (low + 1) - 1 = low
      BY <2>3, <2>7, LensFacts DEF Low
    <3>2. new[low + 1] = Tbl8Write(groups'[b], low, SlotWord(shadow, b, low))
      BY <2>2, <2>3, <2>7, <3>1
    <3> QED
      BY <3>1, <3>2
  <2>9. \A k \in 1..Len(new) :
           \/ k = Len(new) /\ new[k] = Tbl24Write(b, FinalWord(b)')
           \/ k < Len(new) /\ \E low \in Low :
                 new[k] = Tbl8Write(groups'[b], low, SlotWord(shadow, b, low))
    <3> SUFFICES ASSUME NEW k \in 1..Len(new)
                 PROVE  \/ k = Len(new) /\ new[k] = Tbl24Write(b, FinalWord(b)')
                        \/ k < Len(new) /\ \E low \in Low :
                             new[k] = Tbl8Write(groups'[b], low, SlotWord(shadow, b, low))
      OBVIOUS
    <3>1. CASE k = Len(fill) + 1
      BY <2>5, <2>7, <3>1 DEF flip
    <3>2. CASE k \in 1..Len(fill)
      <4>1. new[k] = Tbl8Write(groups'[b], k - 1, SlotWord(shadow, b, k - 1)) /\ k - 1 \in Low
        BY <2>2, <2>3, <2>7, <3>2
      <4> QED
        BY <2>7, <3>2, <4>1
    <3> QED
      BY <2>7, <3>1, <3>2
  <2>10. Len(new) \in 1..Len(new) /\ new[Len(new)] = Tbl24Write(b, FinalWord(b)')
    BY <2>5, <2>7 DEF flip
  <2>11. \A k, l \in 1..Len(new) : new[k].tab = "tbl24" /\ new[l].tab = "tbl8" => l < k
    <3> SUFFICES ASSUME NEW k \in 1..Len(new), NEW l \in 1..Len(new),
                        new[k].tab = "tbl24", new[l].tab = "tbl8"
                 PROVE  l < k
      OBVIOUS
    <3>1. k = Len(new)
      BY <2>9, WriteFields
    <3>2. l # Len(new)
      BY <2>10, WriteFields
    <3> QED
      BY <3>1, <3>2, <2>7
  <2>12. \A c \in Blk : c # b => groups[c] # groups'[b]
    <3>1. g \in Range(free) \cup Range(quarantine)
      <4>1. CASE free # <<>> /\ g = Last(free)
        BY <4>1, FrontPool DEF TypeOK, PoolSound
      <4>2. CASE quarantine # <<>> /\ g = Head(quarantine)
        BY <4>2, TailPool DEF TypeOK, PoolSound
      <4> QED
        BY <2>1, <4>1, <4>2 DEF AllocGroup
    <3> QED
      BY <2>2, <3>1 DEF PoolSound
  <2>13. PendingSound' /\ PlanSound' /\ ArraysSound'
    BY <1>1, <2>2, <2>6, <2>7, <2>8, <2>9, <2>10, <2>11, <2>12, ExtendPlan
  <2>14. PointersSound'
    BY <1>2, <1>3, <2>2 DEF PointersSound, Group, NoGroup
  <2> QED
    BY <2>13, <2>14 DEF PlanInv
<1>7. CASE SyncDirect(b)
  <2> DEFINE flip == Tbl24Write(b, BlockCoverWord(shadow, b))
             new == <<flip>>
  <2>1. /\ longCount[b] = 0 /\ groups'[b] = NoGroup /\ plan' = plan \o new
        /\ \A c \in Blk : c # b => groups'[c] = groups[c]
    BY <1>1, <1>7 DEF SyncDirect, TypeOK
  <2>2. FinalWord(b)' = BlockCoverWord(shadow, b)
    BY <1>2, <2>1 DEF FinalWord
  <2>3. flip \in Write
    <3>1. 0 \in Low
      BY LensFacts DEF Low
    <3> QED
      BY <1>1, <3>1, SlotWordType, WriteTypes DEF TypeOK
  <2>4. new \in Seq(Write) /\ Len(new) = 1 /\ new[1] = Tbl24Write(b, FinalWord(b)')
    BY <2>2, <2>3
  <2> HIDE DEF new, flip
  <2>5. \A k \in 1..Len(new) : new[k] = Tbl24Write(b, FinalWord(b)') /\ new[k].tab # "tbl8"
    BY <2>4, WriteFields
  <2>6. \E k \in 1..Len(new) : new[k] = Tbl24Write(b, FinalWord(b)')
    BY <2>4
  <2>7. PendingSound' /\ PlanSound' /\ ArraysSound'
    <3>1. groups'[b] # NoGroup <=> longCount[b] > 0
      BY <2>1
    <3>2. \A k, l \in 1..Len(new) : new[k].tab = "tbl24" /\ new[l].tab = "tbl8" => l < k
      BY <2>5
    <3>3. groups'[b] # NoGroup => \A c \in Blk : c # b => groups[c] # groups'[b]
      BY <2>1
    <3>4. groups'[b] # NoGroup => \A low \in Low : \E k \in 1..Len(new) :
              new[k] = Tbl8Write(groups'[b], low, SlotWord(shadow, b, low))
      BY <2>1
    <3> QED
      BY <1>1, <2>1, <2>4, <2>5, <2>6, <3>1, <3>2, <3>3, <3>4, ExtendPlan
  <2>8. PointersSound'
    <3>1. ASSUME NEW c \in Blk, tbl24'[c].kind = "group"
          PROVE  \E g \in Group :
                    /\ tbl24'[c] = fibw_group(g)
                    /\ \/ groups'[c] = g
                       \/ /\ pending' = {}
                          /\ groups'[c] = NoGroup
                          /\ \A d \in Blk : groups'[d] # g
      <4>1. PICK g \in Group : tbl24[c] = fibw_group(g) /\ groups[c] = g
        BY <1>2, <1>3, <3>1
      <4>2. CASE c # b
        BY <1>2, <2>1, <4>1, <4>2
      <4>3. CASE c = b
        <5>1. groups[b] # NoGroup
          BY <4>1, <4>3 DEF Group, NoGroup
        <5>2. pending' = {}
          BY <1>1, <2>1, <5>1 DEF PlanInv, PendingSound
        <5>3. \A d \in Blk : groups'[d] # g
          BY <1>1, <2>1, <4>1, <4>3, <5>1 DEF PoolSound
        <5> QED
          BY <1>2, <2>1, <4>1, <4>3, <5>2, <5>3
      <4> QED
        BY <4>2, <4>3
    <3> QED
      BY <3>1 DEF PointersSound
  <2> QED
    BY <2>7, <2>8 DEF PlanInv
<1> QED
  BY <1>1, <1>5, <1>6, <1>7

-----------------------------------------------------------------------------
(***************************************************************************)
(* Phase 3: storing the first word of the plan.                            *)
(***************************************************************************)

\* The rest of the plan is the plan one place on.
LEMMA TailPlan ==
    ASSUME TypeOK, ApplyWrite
    PROVE  /\ Head(plan) = plan[1] /\ 1 \in DOMAIN plan
           /\ \A i \in DOMAIN plan' : i + 1 \in DOMAIN plan /\ plan'[i] = plan[i + 1] /\ i \in Nat
           /\ \A i \in DOMAIN plan : i # 1 => i - 1 \in DOMAIN plan' /\ plan'[i - 1] = plan[i]
<1> DEFINE n == Len(plan)
<1>1. plan \in Seq(Write) /\ plan # <<>> /\ plan' = Tail(plan)
  BY DEF TypeOK, ApplyWrite
<1>2. n \in Nat /\ n >= 1 /\ DOMAIN plan = 1..n
  BY <1>1, EmptySeq, LenProperties
<1>3. /\ Tail(plan) \in Seq(Write) /\ Len(Tail(plan)) = n - 1
      /\ \A i \in 1..(n - 1) : Tail(plan)[i] = plan[i + 1]
  BY <1>1, HeadTailProperties
<1>4. DOMAIN plan' = 1..(n - 1) /\ \A i \in 1..(n - 1) : plan'[i] = plan[i + 1]
  BY <1>1, <1>3, LenProperties
<1>5. Head(plan) = plan[1]
  BY <1>1
<1> HIDE DEF n
<1>6. \A i \in 1..n : i # 1 => i - 1 \in 1..(n - 1) /\ (i - 1) + 1 = i
  BY <1>2
<1> QED
  BY <1>2, <1>4, <1>5, <1>6

\* What one store does, in terms of the block it is for.
LEMMA StoreEffect ==
    ASSUME TypeOK, PlanInv, ApplyWrite
    PROVE  \/ \E b \in Blk : /\ plan[1].tab = "tbl24"
                             /\ plan[1] = Tbl24Write(b, FinalWord(b))
                             /\ tbl24' = [tbl24 EXCEPT ![b] = FinalWord(b)]
                             /\ tbl8' = tbl8 /\ default4' = default4
           \/ \E b \in Blk, low \in Low :
                 /\ groups[b] # NoGroup
                 /\ plan[1].tab = "tbl8"
                 /\ plan[1] = Tbl8Write(groups[b], low, SlotWord(shadow, b, low))
                 /\ tbl8' = [tbl8 EXCEPT ![<<groups[b], low>>] = SlotWord(shadow, b, low)]
                 /\ tbl24' = tbl24 /\ default4' = default4
           \/ /\ plan[1].tab = "default" /\ default4' = plan[1].word
              /\ tbl24' = tbl24 /\ tbl8' = tbl8
<1> DEFINE wr == plan[1]
<1>1. /\ tbl24' = IF wr.tab = "tbl24" THEN [tbl24 EXCEPT ![wr.idx[1]] = wr.word] ELSE tbl24
      /\ tbl8' = IF wr.tab = "tbl8" THEN [tbl8 EXCEPT ![wr.idx] = wr.word] ELSE tbl8
      /\ default4' = IF wr.tab = "default" THEN wr.word ELSE default4
  BY TailPlan DEF ApplyWrite
<1>2. 1 \in DOMAIN plan /\ wr \in Write
  BY TailPlan, PlanDomain
<1> HIDE DEF wr
<1>3. wr.tab \in {"tbl24", "tbl8", "default"}
  BY <1>2 DEF Write
<1>4. CASE wr.tab = "tbl24"
  <2>1. PICK b \in Blk \ pending : wr = Tbl24Write(b, FinalWord(b))
    BY <1>2, <1>4 DEF PlanInv, PlanSound, wr
  <2>2. wr.idx[1] = b /\ wr.word = FinalWord(b)
    BY <2>1, WriteFields
  <2> QED
    BY <1>1, <1>4, <2>1, <2>2 DEF wr
<1>5. CASE wr.tab = "tbl8"
  <2>1. PICK b \in Blk \ pending, low \in Low :
           groups[b] # NoGroup /\ wr = Tbl8Write(groups[b], low, SlotWord(shadow, b, low))
    BY <1>2, <1>5 DEF PlanInv, PlanSound, wr
  <2>2. wr.idx = <<groups[b], low>> /\ wr.word = SlotWord(shadow, b, low)
    BY <2>1, WriteFields
  <2> QED
    BY <1>1, <1>5, <2>1, <2>2 DEF wr
<1>6. CASE wr.tab = "default"
  BY <1>1, <1>6 DEF wr
<1> QED
  BY <1>3, <1>4, <1>5, <1>6

LEMMA StoreTbl24 ==
    ASSUME TypeOK, PlanInv, ApplyWrite, NEW b \in Blk
    PROVE  \/ tbl24'[b] = FinalWord(b)
           \/ /\ tbl24'[b] = tbl24[b]
              /\ \A i \in DOMAIN plan : plan[i] = Tbl24Write(b, FinalWord(b)) => i # 1
<1>1. CASE plan[1] = Tbl24Write(b, FinalWord(b))
  <2>1. plan[1].tab = "tbl24" /\ plan[1].idx[1] = b
    BY <1>1, WriteFields
  <2>2. PICK c \in Blk : /\ plan[1] = Tbl24Write(c, FinalWord(c))
                         /\ tbl24' = [tbl24 EXCEPT ![c] = FinalWord(c)]
    BY <2>1, StoreEffect
  <2>3. c = b
    BY <2>1, <2>2, WriteFields
  <2> QED
    BY <2>2, <2>3 DEF TypeOK
<1>2. CASE plan[1] # Tbl24Write(b, FinalWord(b))
  <2>1. tbl24'[b] = tbl24[b] \/ tbl24'[b] = FinalWord(b)
    BY StoreEffect DEF TypeOK
  <2> QED
    BY <1>2, <2>1
<1> QED
  BY <1>1, <1>2

LEMMA StoreTbl8 ==
    ASSUME TypeOK, PoolSound, PlanInv, ApplyWrite,
           NEW b \in Blk, groups[b] # NoGroup, NEW low \in Low
    PROVE  \/ tbl8'[<<groups[b], low>>] = SlotWord(shadow, b, low)
           \/ /\ tbl8'[<<groups[b], low>>] = tbl8[<<groups[b], low>>]
              /\ plan[1] # Tbl8Write(groups[b], low, SlotWord(shadow, b, low))
<1> DEFINE s == <<groups[b], low>>
           w == SlotWord(shadow, b, low)
<1>0. groups[b] \in Group /\ s \in Group \X Low
  BY DEF TypeOK
<1>1. CASE tbl8' = tbl8 /\ plan[1].tab # "tbl8"
  BY <1>1, WriteFields
<1>2. ASSUME NEW c \in Blk, NEW l \in Low, groups[c] # NoGroup,
             plan[1] = Tbl8Write(groups[c], l, SlotWord(shadow, c, l)),
             tbl8' = [tbl8 EXCEPT ![<<groups[c], l>>] = SlotWord(shadow, c, l)]
      PROVE  tbl8'[s] = w \/ (tbl8'[s] = tbl8[s] /\ plan[1] # Tbl8Write(groups[b], low, w))
  <2>1. CASE <<groups[c], l>> = s
    <3>1. c = b /\ l = low
      BY <2>1, <1>2 DEF PoolSound
    <3> QED
      BY <1>0, <1>2, <3>1 DEF TypeOK
  <2>2. CASE <<groups[c], l>> # s
    <3>1. tbl8'[s] = tbl8[s]
      BY <1>0, <1>2, <2>2 DEF TypeOK
    <3>2. plan[1].idx = <<groups[c], l>>
      BY <1>2, WriteFields
    <3> QED
      BY <2>2, <3>1, <3>2, WriteFields
  <2> QED
    BY <2>1, <2>2
<1>3. CASE plan[1].tab = "tbl8"
  BY <1>2, <1>3, StoreEffect
<1>4. CASE plan[1].tab # "tbl8"
  BY <1>1, <1>4, StoreEffect
<1> QED
  BY <1>3, <1>4

LEMMA ApplyPlan ==
    ASSUME TypeOK, PoolSound, PlanInv, ApplyWrite
    PROVE  PlanInv'
<1>1. /\ todo = <<>> /\ todo' = <<>> /\ pending = {} /\ pending' = {}
      /\ shadow' = shadow /\ longCount' = longCount /\ groups' = groups
  BY DEF ApplyWrite, engineVars
<1>2. \A b \in Blk : FinalWord(b)' = FinalWord(b)
  BY <1>1 DEF FinalWord
<1>3. PendingSound'
  BY <1>1 DEF PlanInv, PendingSound
<1>4. PlanSound'
  <2> SUFFICES ASSUME NEW i \in DOMAIN plan'
               PROVE  /\ plan'[i].tab = "tbl24" =>
                            \E c \in Blk \ pending' : plan'[i] = Tbl24Write(c, FinalWord(c)')
                      /\ plan'[i].tab = "tbl8" =>
                            \E c \in Blk \ pending', low \in Low :
                               /\ groups'[c] # NoGroup
                               /\ plan'[i] = Tbl8Write(groups'[c], low, SlotWord(shadow', c, low))
                      /\ (plan'[i].tab = "default"
                            /\ \A j \in DOMAIN plan' : plan'[j].tab = "default" => j <= i)
                          => plan'[i] = DefaultWrite(DefaultWord(shadow'))
    BY <1>1 DEF PlanSound
  <2>1. i + 1 \in DOMAIN plan /\ plan'[i] = plan[i + 1] /\ i \in Nat
    BY TailPlan
  <2>2. /\ plan[i + 1].tab = "tbl24" =>
              \E c \in Blk \ pending : plan[i + 1] = Tbl24Write(c, FinalWord(c))
        /\ plan[i + 1].tab = "tbl8" =>
              \E c \in Blk \ pending, low \in Low :
                 /\ groups[c] # NoGroup
                 /\ plan[i + 1] = Tbl8Write(groups[c], low, SlotWord(shadow, c, low))
        /\ (plan[i + 1].tab = "default"
              /\ \A j \in DOMAIN plan : plan[j].tab = "default" => j <= i + 1)
            => plan[i + 1] = DefaultWrite(DefaultWord(shadow))
    BY <2>1 DEF PlanInv, PlanSound
  <2>3. (\A j \in DOMAIN plan' : plan'[j].tab = "default" => j <= i)
          => (\A j \in DOMAIN plan : plan[j].tab = "default" => j <= i + 1)
    <3> SUFFICES ASSUME \A j \in DOMAIN plan' : plan'[j].tab = "default" => j <= i,
                        NEW j \in DOMAIN plan, plan[j].tab = "default"
                 PROVE  j <= i + 1
      OBVIOUS
    <3>1. j \in Nat
      BY PlanDomain
    <3>2. CASE j = 1
      BY <2>1, <3>2
    <3>3. CASE j # 1
      <4>1. j - 1 <= i
        BY <3>3, TailPlan
      <4> QED
        BY <2>1, <3>1, <4>1
    <3> QED
      BY <3>2, <3>3
  <2> QED
    BY <1>1, <1>2, <2>1, <2>2, <2>3
<1>5. PointersSound'
  <2> SUFFICES ASSUME NEW b \in Blk, tbl24'[b].kind = "group"
               PROVE  \E g \in Group :
                        /\ tbl24'[b] = fibw_group(g)
                        /\ \/ groups[b] = g
                           \/ groups[b] = NoGroup /\ \A c \in Blk : groups[c] # g
    BY <1>1 DEF PointersSound
  <2>1. CASE tbl24'[b] = FinalWord(b)
    <3>1. groups[b] # NoGroup /\ groups[b] \in Group
      BY <2>1, FinalWordType
    <3> QED
      BY <2>1, <3>1 DEF FinalWord
  <2>2. CASE tbl24'[b] = tbl24[b]
    BY <2>2 DEF PlanInv, PointersSound
  <2> QED
    BY <2>1, <2>2, StoreTbl24
<1>6. ArraysSound'
  <2>1. ASSUME NEW b \in Blk
        PROVE  tbl24'[b] = FinalWord(b)
               \/ \E i \in DOMAIN plan' : plan'[i] = Tbl24Write(b, FinalWord(b))
    <3>1. CASE tbl24'[b] # FinalWord(b)
      <4>1. /\ tbl24'[b] = tbl24[b]
            /\ \A i \in DOMAIN plan : plan[i] = Tbl24Write(b, FinalWord(b)) => i # 1
        BY <3>1, StoreTbl24
      <4>2. PICK i \in DOMAIN plan : plan[i] = Tbl24Write(b, FinalWord(b))
        BY <1>1, <3>1, <4>1 DEF PlanInv, ArraysSound
      <4>3. i - 1 \in DOMAIN plan' /\ plan'[i - 1] = plan[i]
        BY <4>1, <4>2, TailPlan
      <4> QED
        BY <4>2, <4>3
    <3> QED
      BY <3>1
  <2>2. ASSUME NEW b \in Blk, groups[b] # NoGroup, NEW low \in Low
        PROVE  \/ tbl8'[<<groups[b], low>>] = SlotWord(shadow, b, low)
               \/ \E i \in DOMAIN plan' :
                     plan'[i] = Tbl8Write(groups[b], low, SlotWord(shadow, b, low))
    <3>1. CASE tbl8'[<<groups[b], low>>] # SlotWord(shadow, b, low)
      <4>1. /\ tbl8'[<<groups[b], low>>] = tbl8[<<groups[b], low>>]
            /\ plan[1] # Tbl8Write(groups[b], low, SlotWord(shadow, b, low))
        BY <2>2, <3>1, StoreTbl8
      <4>2. PICK i \in DOMAIN plan : plan[i] = Tbl8Write(groups[b], low, SlotWord(shadow, b, low))
        BY <1>1, <2>2, <3>1, <4>1 DEF PlanInv, ArraysSound
      <4>3. i - 1 \in DOMAIN plan' /\ plan'[i - 1] = plan[i]
        BY <4>1, <4>2, TailPlan
      <4> QED
        BY <4>2, <4>3
    <3> QED
      BY <3>1
  <2>3. ASSUME NEW b \in Blk, groups[b] # NoGroup,
               NEW i \in DOMAIN plan', NEW j \in DOMAIN plan',
               plan'[i].tab = "tbl24", plan'[i].idx[1] = b,
               plan'[j].tab = "tbl8", plan'[j].idx[1] = groups[b]
        PROVE  j < i
    <3>1. /\ i + 1 \in DOMAIN plan /\ plan'[i] = plan[i + 1] /\ i \in Nat
          /\ j + 1 \in DOMAIN plan /\ plan'[j] = plan[j + 1] /\ j \in Nat
      BY TailPlan
    <3>2. j + 1 < i + 1
      BY <1>1, <2>3, <3>1 DEF PlanInv, ArraysSound
    <3> QED
      BY <3>1, <3>2
  <2>4. default4' = DefaultWord(shadow) \/ \E i \in DOMAIN plan' : plan'[i].tab = "default"
    <3>1. CASE \E i \in DOMAIN plan : i # 1 /\ plan[i].tab = "default"
      <4>1. PICK i \in DOMAIN plan : i # 1 /\ plan[i].tab = "default"
        BY <3>1
      <4>2. i - 1 \in DOMAIN plan' /\ plan'[i - 1].tab = "default"
        BY <4>1, TailPlan
      <4> QED
        BY <4>2
    <3>2. CASE ~\E i \in DOMAIN plan : i # 1 /\ plan[i].tab = "default"
      <4>1. CASE plan[1].tab = "default"
        <5>1. 1 \in DOMAIN plan /\ \A j \in DOMAIN plan : plan[j].tab = "default" => j <= 1
          BY <3>2, TailPlan
        <5>2. plan[1] = DefaultWrite(DefaultWord(shadow))
          BY <4>1, <5>1 DEF PlanInv, PlanSound
        <5>3. default4' = plan[1].word
          BY <4>1, StoreEffect
        <5> QED
          BY <5>2, <5>3, WriteFields
      <4>2. CASE plan[1].tab # "default"
        <5>1. default4' = default4
          BY <4>2, StoreEffect
        <5> QED
          BY <3>2, <4>2, <5>1 DEF PlanInv, ArraysSound
      <4> QED
        BY <4>1, <4>2
    <3> QED
      BY <3>1, <3>2
  <2> QED
    BY <1>1, <1>2, <2>1, <2>2, <2>3, <2>4 DEF ArraysSound
<1> QED
  BY <1>3, <1>4, <1>5, <1>6 DEF PlanInv

-----------------------------------------------------------------------------
(***************************************************************************)
(* The whole inductive invariant.                                          *)
(***************************************************************************)
EngineInv == TypeOK /\ LongCountExact /\ PoolSound /\ PlanInv

LEMMA InitPlan ==
    ASSUME Init
    PROVE  PlanInv
<1>1. \A b \in Blk : BlockCoverWord(shadow, b) = ZeroWord
  <2> SUFFICES ASSUME NEW b \in Blk PROVE BlockCoverWord(shadow, b) = ZeroWord
    OBVIOUS
  <2>1. \A len \in 1..BlkBits : <<Mask(<<b, 0>>, len), len>> \in Prefix
    <3>1. <<b, 0>> \in Addr /\ (1..BlkBits) \subseteq Lens
      BY LensFacts, BitsAssumption DEF Addr, Low, Lens, W
    <3> QED
      BY <3>1, MaskType DEF Prefix
  <2>2. Hits(shadow, <<b, 0>>, 1..BlkBits) = {}
    BY <2>1 DEF Hits, Init
  <2> QED
    BY <2>2 DEF BlockCoverWord, FirstHitWord
<1>2. DefaultWord(shadow) = ZeroWord
  <2>1. << <<0, 0>>, 0 >> \in Prefix
    BY LensFacts DEF Prefix, Addr, Blk, Low, Lens
  <2> QED
    BY <2>1 DEF DefaultWord, Init
<1>3. /\ pending = {} /\ plan = <<>> /\ todo = <<>>
      /\ \A b \in Blk : groups[b] = NoGroup /\ longCount[b] = 0 /\ tbl24[b] = ZeroWord
      /\ default4 = ZeroWord
  BY DEF Init
<1>4. \A b \in Blk : tbl24[b] = FinalWord(b)
  BY <1>1, <1>3 DEF FinalWord
<1>5. ZeroWord.kind # "group"
  BY DEF ZeroWord
<1> QED
  BY <1>2, <1>3, <1>4, <1>5 DEF PlanInv, PendingSound, PlanSound, PointersSound, ArraysSound

LEMMA NextInv ==
    ASSUME EngineInv, [Next]_vars
    PROVE  PlanInv'
<1> TypeOK /\ LongCountExact /\ PoolSound /\ PlanInv /\ TypeOK'
  BY NextTypes DEF EngineInv
<1>1. CASE UNCHANGED vars
  BY <1>1 DEF vars, PlanInv, PendingSound, PlanSound, PointersSound, ArraysSound, FinalWord
<1>2. ASSUME NEW r \in Routes, NEW e \in NexthopIds, RouteAdd(r[1], r[2], e)
      PROVE  PlanInv'
  <2>1. r[1] \in Addr /\ r[2] \in Lens /\ e \in Entry
    BY InputTypes
  <2>2. Insert(r[1], r[2], e) /\ pending = {} /\ OnlyDefaults
        /\ UNCHANGED <<groups, tbl24, tbl8, default4>>
    BY <1>2 DEF RouteAdd, Idle, OnlyDefaults, tableVars
  <2> QED
    BY <2>1, <2>2, AddPlan
<1>3. ASSUME NEW r \in Routes, RouteDel(r[1], r[2])
      PROVE  PlanInv'
  BY <1>3, InputTypes, DelPlan
<1>4. ASSUME NEW n \in 1..MaxBatch, NEW batch \in [1..n -> BatchRoutes], RouteAddBulk(batch)
      PROVE  PlanInv'
  <2>1. /\ pending = {} /\ plan = <<>> /\ DOMAIN plan = {}
        /\ UNCHANGED <<shadow, longCount, groups, pending, plan, tbl24, tbl8, default4>>
    BY <1>4 DEF RouteAddBulk, Idle, tableVars
  <2> QED
    BY <2>1 DEF PlanInv, PendingSound, PlanSound, PointersSound, ArraysSound, FinalWord
<1>5. CASE BulkNext
  <2>1. Head(todo) \in BulkRoute /\ todo # <<>>
    BY <1>5, HeadTailProperties DEF BulkNext, TypeOK
  <2>2. Head(todo).addr \in Addr /\ Head(todo).len \in Lens /\ Head(todo).entry \in Entry
    BY <2>1 DEF BulkRoute
  <2>3. Insert(Head(todo).addr, Head(todo).len, Head(todo).entry)
        /\ UNCHANGED <<groups, tbl24, tbl8, default4>>
    BY <1>5 DEF BulkNext, tableVars
  <2>4. OnlyDefaults
    BY <2>1 DEF PlanInv, PlanSound, OnlyDefaults
  <2>5. \A b \in pending : groups[b] # NoGroup => longCount[b] > 0
    <3>1. \A b \in pending : longCount[b] \in Nat
      BY DEF TypeOK
    <3> QED
      BY <2>1, <3>1 DEF PlanInv, PendingSound
  <2> QED
    BY <2>2, <2>3, <2>4, <2>5, AddPlan
<1>6. CASE SyncBlock
  BY <1>6, SyncPlan
<1>7. CASE ApplyWrite
  BY <1>7, ApplyPlan
<1> QED
  BY <1>1, <1>2, <1>3, <1>4, <1>5, <1>6, <1>7
     DEF Next, Call, RouteAddExhausted, RouteDelAbsent, RouteAddBulkExhausted

\* At every moment of every call, the plan and the arrays together hold the
\* right words: what is not yet right is put right by a write still to come,
\* and no group is filled after the flip to it (PlanInv).
THEOREM PlanIsSound == Spec => []PlanInv
<1>1. Init => PlanInv
  BY InitPlan
<1>2. TypeOK /\ LongCountExact /\ PoolSound /\ PlanInv /\ [Next]_vars => PlanInv'
  BY NextInv DEF EngineInv
<1> QED
  BY <1>1, <1>2, TypesAndCounts, PoolIsSound, PTL DEF Spec

\* Between calls a block owns a TBL8 group exactly when it has a long route
\* (GroupsFollowRoutes): no group is leaked by a collapsed block.
THEOREM NoGroupLeaks == Spec => []GroupsFollowRoutes
<1>1. TypeOK /\ LongCountExact /\ PlanInv => GroupsFollowRoutes
  <2> SUFFICES ASSUME TypeOK, LongCountExact, PlanInv, Idle, NEW b \in Blk
               PROVE  groups[b] # NoGroup <=> LongRoutes(shadow, b) # {}
    BY DEF GroupsFollowRoutes
  <2>1. groups[b] # NoGroup <=> longCount[b] > 0
    BY DEF Idle, PlanInv, PendingSound
  <2>2. longCount[b] = Cardinality(LongRoutes(shadow, b)) /\ longCount[b] \in Nat
    BY DEF LongCountExact, TypeOK
  <2> QED
    BY <2>1, <2>2, LongRoutesFinite
<1> QED
  BY <1>1, TypesAndCounts, PlanIsSound, PTL

-----------------------------------------------------------------------------
(***************************************************************************)
(* Refinement.                                                             *)
(***************************************************************************)

\* FibView talks about the same addresses and words.
LEMMA ViewOperators ==
    /\ View!Addr = Addr /\ View!Prefix = Prefix /\ View!Rib = Rib
    /\ View!Word = Word /\ View!ZeroWord = ZeroWord /\ View!NoEntry = NoEntry
    /\ \A e : View!fibw_entry(e) = fibw_entry(e)
    /\ \A w, rib, a, l : View!IsBestWord(w, rib, a, l) = IsBestWord(w, rib, a, l)
BY DEF View!Addr, Addr, View!Prefix, Prefix, View!Rib, Rib, View!Word, Word,
       View!ZeroWord, ZeroWord, View!NoEntry, NoEntry, View!fibw_entry, fibw_entry,
       View!IsBestWord, IsBestWord, View!Matching, Matching, View!Covers, Covers,
       View!Mask, Mask, View!Blk, Blk, View!Low, Low, View!Lens, Lens, View!W, W,
       View!Entry, Entry

\* A block with no long route resolves every address to its cover.
LEMMA ResolveFinal ==
    ASSUME TypeOK, LongCountExact, PlanInv, pending = {},
           NEW b \in Blk, groups[b] = NoGroup, NEW low \in Low
    PROVE  FinalWord(b) = SlotWord(shadow, b, low)
<1>1. longCount[b] = 0
  BY DEF PlanInv, PendingSound, TypeOK
<1>2. LongRoutes(shadow, b) = {}
  BY <1>1, LongRoutesFinite DEF LongCountExact
<1> QED
  BY <1>2, CoverIsUniform DEF FinalWord, TypeOK

\* One store changes what an address resolves to only to its final word.
LEMMA StoreMovesToTarget ==
    ASSUME EngineInv, ApplyWrite, NEW b \in Blk, NEW low \in Low
    PROVE  Resolve(b, low)' = Resolve(b, low) \/ Resolve(b, low)' = SlotWord(shadow, b, low)
<1> TypeOK /\ LongCountExact /\ PoolSound /\ PlanInv
  BY DEF EngineInv
<1>1. pending = {}
  BY DEF ApplyWrite
<1>2. ASSUME NEW c \in Blk, plan[1] = Tbl24Write(c, FinalWord(c)),
             tbl24' = [tbl24 EXCEPT ![c] = FinalWord(c)], tbl8' = tbl8
      PROVE  Resolve(b, low)' = Resolve(b, low) \/ Resolve(b, low)' = SlotWord(shadow, b, low)
  <2>1. CASE b # c
    <3>1. tbl24'[b] = tbl24[b]
      BY <1>2, <2>1 DEF TypeOK
    <3> QED
      BY <1>2, <3>1 DEF Resolve
  <2>2. CASE b = c /\ groups[b] = NoGroup
    <3>1. tbl24'[b] = SlotWord(shadow, b, low) /\ tbl24'[b].kind # "group"
      BY <1>1, <1>2, <2>2, ResolveFinal, FinalWordType DEF TypeOK
    <3> QED
      BY <3>1 DEF Resolve
  <2>3. CASE b = c /\ groups[b] # NoGroup
    <3>1. tbl24'[b] = [kind |-> "group", id |-> groups[b]]
      BY <1>2, <2>3, FinalWordType DEF TypeOK
    <3>2. tbl8[<<groups[b], low>>] = SlotWord(shadow, b, low)
      <4>1. 1 \in DOMAIN plan /\ plan[1].tab = "tbl24" /\ plan[1].idx[1] = b
        BY <1>2, <2>3, TailPlan, WriteFields
      <4>2. ASSUME NEW j \in DOMAIN plan,
                   plan[j] = Tbl8Write(groups[b], low, SlotWord(shadow, b, low))
            PROVE  FALSE
        <5>1. plan[j].tab = "tbl8" /\ plan[j].idx[1] = groups[b]
          BY <4>2, WriteFields
        <5>2. j < 1
          BY <1>1, <2>3, <4>1, <5>1 DEF PlanInv, ArraysSound
        <5> QED
          BY <5>2, PlanDomain
      <4> QED
        BY <1>1, <2>3, <4>2 DEF PlanInv, ArraysSound
    <3>3. Resolve(b, low)' = tbl8'[<<groups[b], low>>]
      BY <3>1 DEF Resolve
    <3> QED
      BY <1>2, <3>2, <3>3
  <2> QED
    BY <2>1, <2>2, <2>3
<1>3. ASSUME NEW c \in Blk, NEW l \in Low, groups[c] # NoGroup, tbl24' = tbl24,
             tbl8' = [tbl8 EXCEPT ![<<groups[c], l>>] = SlotWord(shadow, c, l)]
      PROVE  Resolve(b, low)' = Resolve(b, low) \/ Resolve(b, low)' = SlotWord(shadow, b, low)
  <2>1. CASE tbl24[b].kind # "group"
    BY <1>3, <2>1 DEF Resolve
  <2>2. CASE tbl24[b].kind = "group"
    <3>1. PICK g \in Group : /\ tbl24[b] = fibw_group(g)
                             /\ \/ groups[b] = g
                                \/ \A d \in Blk : groups[d] # g
      BY <2>2 DEF PlanInv, PointersSound
    <3>2. tbl24[b].id = g
      BY <3>1, GroupWordType
    <3>3. Resolve(b, low) = tbl8[<<g, low>>] /\ Resolve(b, low)' = tbl8'[<<g, low>>]
      BY <1>3, <2>2, <3>2 DEF Resolve
    <3>4. CASE <<groups[c], l>> # <<g, low>>
      BY <1>3, <3>3, <3>4 DEF TypeOK
    <3>5. CASE <<groups[c], l>> = <<g, low>>
      <4>1. b = c /\ l = low
        BY <1>3, <3>1, <3>5 DEF PoolSound
      <4>2. <<g, low>> \in Group \X Low
        OBVIOUS
      <4>3. tbl8'[<<g, low>>] = SlotWord(shadow, c, l)
        BY <1>3, <3>5, <4>2 DEF TypeOK
      <4> QED
        BY <3>3, <4>1, <4>3
    <3> QED
      BY <3>4, <3>5
  <2> QED
    BY <2>1, <2>2
<1>4. CASE tbl24' = tbl24 /\ tbl8' = tbl8
  BY <1>4 DEF Resolve
<1> QED
  BY <1>2, <1>3, <1>4, StoreEffect

\* When nothing is left to store, every address resolves to its best match.
LEMMA IdleConverged ==
    ASSUME EngineInv, pending = {}, plan = <<>>
    PROVE  /\ \A b \in Blk, low \in Low : Resolve(b, low) = SlotWord(shadow, b, low)
           /\ default4 = DefaultWord(shadow)
<1> TypeOK /\ LongCountExact /\ PlanInv
  BY DEF EngineInv
<1>1. DOMAIN plan = {} /\ OnlyDefaults
  BY DEF OnlyDefaults
<1>2. default4 = DefaultWord(shadow)
  BY <1>1 DEF PlanInv, ArraysSound
<1>3. ASSUME NEW b \in Blk, NEW low \in Low
      PROVE  Resolve(b, low) = SlotWord(shadow, b, low)
  <2>1. tbl24[b] = FinalWord(b)
    BY <1>1, QuietPointers
  <2>2. CASE groups[b] = NoGroup
    BY <2>1, <2>2, ResolveFinal, FinalWordType DEF Resolve
  <2>3. CASE groups[b] # NoGroup
    <3>1. tbl8[<<groups[b], low>>] = SlotWord(shadow, b, low)
      BY <1>1, <2>3, QuietPointers
    <3> QED
      BY <2>1, <2>3, <3>1, FinalWordType DEF Resolve
  <2> QED
    BY <2>2, <2>3
<1> QED
  BY <1>2, <1>3

\* What the abstract view sees of a state: words, and the right ones when no
\* call is running.
ViewFacts ==
    /\ [a \in Addr |-> Resolve(a[1], a[2])] \in [Addr -> Word]
    /\ Idle => View!Converged

LEMMA InvGivesViewFacts ==
    ASSUME EngineInv
    PROVE  ViewFacts
<1> TypeOK /\ LongCountExact /\ PlanInv
  BY DEF EngineInv
<1>1. ASSUME NEW b \in Blk, NEW low \in Low
      PROVE  Resolve(b, low) \in Word
  <2>1. CASE tbl24[b].kind # "group"
    BY <2>1 DEF Resolve, TypeOK
  <2>2. CASE tbl24[b].kind = "group"
    <3>1. PICK g \in Group : tbl24[b] = fibw_group(g)
      BY <2>2 DEF PlanInv, PointersSound
    <3>2. tbl24[b].id = g /\ <<g, low>> \in Group \X Low
      BY <3>1, GroupWordType
    <3> QED
      BY <2>2, <3>2 DEF Resolve, TypeOK
  <2> QED
    BY <2>1, <2>2
<1>2. [a \in Addr |-> Resolve(a[1], a[2])] \in [Addr -> Word]
  BY <1>1 DEF Addr
<1>3. ASSUME Idle
      PROVE  View!Converged
  <2>1. /\ \A b \in Blk, low \in Low : Resolve(b, low) = SlotWord(shadow, b, low)
        /\ default4 = DefaultWord(shadow)
    BY <1>3, IdleConverged DEF Idle
  <2>2. ASSUME NEW a \in Addr
        PROVE  IsBestWord([x \in Addr |-> Resolve(x[1], x[2])][a], shadow, a, 1)
    <3>1. a[1] \in Blk /\ a[2] \in Low /\ a = <<a[1], a[2]>>
      BY DEF Addr
    <3>2. IsBestWord(SlotWord(shadow, a[1], a[2]), shadow, <<a[1], a[2]>>, 1)
      BY <3>1, SlotWordIsBest DEF TypeOK
    <3>3. [x \in Addr |-> Resolve(x[1], x[2])][a] = SlotWord(shadow, a[1], a[2])
      BY <2>1, <3>1
    <3> QED
      BY <3>1, <3>2, <3>3
  <2> QED
    BY <2>1, <2>2, ViewOperators DEF View!Converged, DefaultWord
<1> QED
  BY <1>2, <1>3 DEF ViewFacts

\* Phase 1 leaves work to do and touches no table.
LEMMA CallIsChange ==
    ASSUME TypeOK', pending' # {} \/ plan' # <<>> \/ todo' # <<>>,
           UNCHANGED <<tbl24, tbl8, default4>>
    PROVE  View!Change
<1>1. [a \in Addr |-> Resolve(a[1], a[2])]' = [a \in Addr |-> Resolve(a[1], a[2])]
  BY DEF Resolve
<1>2. (~Idle)' = TRUE
  BY DEF Idle
<1>3. shadow' \in View!Rib
  BY ViewOperators DEF TypeOK
<1> QED
  BY <1>1, <1>2, <1>3 DEF View!Change

LEMMA InsertLeavesWork ==
    ASSUME TypeOK, NEW addr \in Addr, NEW len \in Lens, NEW e \in Entry,
           Insert(addr, len, e)
    PROVE  pending' # {} \/ plan' # <<>>
<1>1. CASE len = 0
  <2>1. DefaultWrite(fibw_entry(e)) \in Write
    BY WriteTypes, EntryWordType
  <2>2. plan' = Append(plan, DefaultWrite(fibw_entry(e)))
    BY <1>1 DEF Insert
  <2>3. Len(plan') = Len(plan) + 1 /\ Len(plan) \in Nat
    BY <2>1, <2>2, AppendProperties, LenProperties DEF TypeOK
  <2> QED
    BY <2>3
<1>2. CASE len # 0
  BY <1>2, AffectedFacts DEF Insert
<1> QED
  BY <1>1, <1>2

LEMMA StepRefines ==
    ASSUME EngineInv, EngineInv', ViewFacts, ViewFacts', [Next]_vars
    PROVE  [View!Next]_(View!vars)
<1> TypeOK /\ TypeOK'
  BY DEF EngineInv
<1>1. CASE UNCHANGED vars
  <2>1. [a \in Addr |-> Resolve(a[1], a[2])]' = [a \in Addr |-> Resolve(a[1], a[2])]
    BY <1>1 DEF Resolve, vars
  <2>2. (~Idle)' = (~Idle)
    BY <1>1 DEF Idle, vars
  <2> QED
    BY <1>1, <2>1, <2>2 DEF View!vars, vars
<1>2. ASSUME NEW r \in Routes, NEW e \in NexthopIds, RouteAdd(r[1], r[2], e)
      PROVE  View!Change
  <2>1. r[1] \in Addr /\ r[2] \in Lens /\ e \in Entry
    BY InputTypes
  <2>2. Insert(r[1], r[2], e) /\ UNCHANGED <<tbl24, tbl8, default4>>
    BY <1>2 DEF RouteAdd, tableVars
  <2> QED
    BY <2>1, <2>2, InsertLeavesWork, CallIsChange
<1>3. ASSUME NEW r \in Routes, RouteDel(r[1], r[2])
      PROVE  View!Change
  <2>1. r[1] \in Addr /\ r[2] \in Lens
    BY InputTypes
  <2>2. pending' # {} \/ plan' # <<>>
    BY <1>3, <2>1, AffectedFacts DEF RouteDel
  <2>3. UNCHANGED <<tbl24, tbl8, default4>>
    BY <1>3 DEF RouteDel, tableVars
  <2> QED
    BY <2>1, <2>2, <2>3, CallIsChange
<1>4. ASSUME NEW n \in 1..MaxBatch, NEW batch \in [1..n -> BatchRoutes], RouteAddBulk(batch)
      PROVE  View!Change
  <2>1. todo' # <<>> /\ UNCHANGED <<tbl24, tbl8, default4>>
    BY <1>4, BatchType DEF RouteAddBulk, tableVars
  <2> QED
    BY <2>1, CallIsChange
<1>5. CASE BulkNext
  <2>1. Head(todo) \in BulkRoute
    BY <1>5, HeadTailProperties DEF BulkNext, TypeOK
  <2>2. Head(todo).addr \in Addr /\ Head(todo).len \in Lens /\ Head(todo).entry \in Entry
    BY <2>1 DEF BulkRoute
  <2>3. Insert(Head(todo).addr, Head(todo).len, Head(todo).entry)
        /\ UNCHANGED <<tbl24, tbl8, default4>>
    BY <1>5 DEF BulkNext, tableVars
  <2>4. pending' # {} \/ plan' # <<>>
    BY <2>2, <2>3, InsertLeavesWork
  <2>5. View!Change
    BY <2>3, <2>4, CallIsChange
  <2> QED
    BY <2>5 DEF View!Next
<1>6. CASE SyncBlock \/ ApplyWrite
  <2> DEFINE slots == [a \in Addr |-> Resolve(a[1], a[2])]
  <2>1. (~Idle) = TRUE /\ shadow' = shadow
    BY <1>6 DEF SyncBlock, ApplyWrite, Idle, engineVars
  <2>2. \A a \in Addr : slots'[a] = slots[a] \/ IsBestWord(slots'[a], shadow, a, 1)
    <3> SUFFICES ASSUME NEW a \in Addr
                 PROVE  slots'[a] = slots[a] \/ IsBestWord(slots'[a], shadow, a, 1)
      OBVIOUS
    <3>1. a[1] \in Blk /\ a[2] \in Low /\ a = <<a[1], a[2]>>
      BY DEF Addr
    <3>2. slots[a] = Resolve(a[1], a[2]) /\ slots'[a] = Resolve(a[1], a[2])'
      OBVIOUS
    <3>3. CASE SyncBlock
      BY <3>2, <3>3 DEF Resolve, SyncBlock, tableVars
    <3>4. CASE ApplyWrite
      <4>1. \/ Resolve(a[1], a[2])' = Resolve(a[1], a[2])
            \/ Resolve(a[1], a[2])' = SlotWord(shadow, a[1], a[2])
        BY <3>1, <3>4, StoreMovesToTarget
      <4>2. IsBestWord(SlotWord(shadow, a[1], a[2]), shadow, <<a[1], a[2]>>, 1)
        BY <3>1, SlotWordIsBest DEF TypeOK
      <4> QED
        BY <3>1, <3>2, <4>1, <4>2
    <3> QED
      BY <1>6, <3>3, <3>4
  <2>3. slots' \in [Addr -> Word] /\ default4' \in Word
    BY DEF ViewFacts, TypeOK
  <2>4. (~Idle)' \in BOOLEAN /\ (~(~Idle)' => View!Converged')
    BY DEF ViewFacts, Idle
  <2> HIDE DEF slots
  <2>5. View!Move
    BY <2>1, <2>2, <2>3, <2>4, ViewOperators DEF View!Move, slots
  <2> QED
    BY <2>5 DEF View!Next
<1> QED
  BY <1>1, <1>2, <1>3, <1>4, <1>5, <1>6
     DEF Next, Call, RouteAddExhausted, RouteDelAbsent, RouteAddBulkExhausted, View!Next

LEMMA InitRefines ==
    ASSUME Init
    PROVE  View!Init
<1>1. [a \in Addr |-> Resolve(a[1], a[2])] = [a \in Addr |-> ZeroWord]
  <2>1. \A a \in Addr : a[1] \in Blk
    BY DEF Addr
  <2> QED
    BY <2>1 DEF Init, Resolve, ZeroWord
<1>2. (~Idle) = FALSE
  BY DEF Init, Idle
<1> QED
  BY <1>1, <1>2, ViewOperators DEF Init, View!Init

\* The tables, read at one instant, implement FibView: through any sequence of
\* calls, an address resolves only to its old or its new longest match, and
\* between calls to the longest match of the routes asked for.
THEOREM Refinement == Spec => ImplementsFibView
<1>1. Init => View!Init
  BY InitRefines
<1>2. TypeOK /\ LongCountExact /\ PoolSound /\ PlanInv => EngineInv
  BY DEF EngineInv
<1>3. EngineInv => ViewFacts
  BY InvGivesViewFacts
<1>4. EngineInv /\ EngineInv' /\ ViewFacts /\ ViewFacts' /\ [Next]_vars
        => [View!Next]_(View!vars)
  BY StepRefines
<1> QED
  BY <1>1, <1>2, <1>3, <1>4, TypesAndCounts, PoolIsSound, PlanIsSound, PTL
     DEF Spec, ImplementsFibView, View!Spec

-----------------------------------------------------------------------------
(***************************************************************************)
(* Capacity: the check made before the shadow changes covers the call.     *)
(***************************************************************************)
LEMMA DemandFinite ==
    /\ IsFiniteSet(Blk)
    /\ \A S \in SUBSET Blk : IsFiniteSet(S) /\ Cardinality(S) \in Nat
<1>1. IsFiniteSet(Blk)
  BY LensFacts, FS_Interval DEF Blk
<1> QED
  BY <1>1, FS_Subset, FS_CardinalityType

LEMMA DemandType == Demand \in SUBSET Blk /\ Demand' \in SUBSET Blk
BY DEF Demand

\* Between calls every block that needs a group has one.
LEMMA IdleDemand ==
    ASSUME TypeOK, PlanInv, Idle
    PROVE  \A b \in Blk : groups[b] = NoGroup => ~(longCount[b] > 0)
BY DEF PlanInv, PendingSound, Idle

LEMMA PoolSizeType ==
    ASSUME TypeOK
    PROVE  Len(free) \in Nat /\ Len(quarantine) \in Nat /\ PoolSize \in Nat
BY LenProperties DEF TypeOK, PoolSize

LEMMA SamePoolDemand ==
    ASSUME AllocSucceeds, Demand' \subseteq Demand, UNCHANGED <<free, quarantine>>, TypeOK
    PROVE  AllocSucceeds'
<1>1. PoolSize' = PoolSize /\ PoolSize \in Nat
  BY PoolSizeType DEF PoolSize
<1>2. Cardinality(Demand') <= Cardinality(Demand)
  BY DemandFinite, DemandType, FS_Subset
<1>3. Cardinality(Demand') \in Nat /\ Cardinality(Demand) \in Nat
  BY DemandFinite, DemandType
<1> QED
  BY <1>1, <1>2, <1>3 DEF AllocSucceeds

LEMMA AddDemand ==
    ASSUME TypeOK, PlanInv, NEW addr \in Addr, NEW len \in Lens, NEW e \in Entry,
           RouteAdd(addr, len, e)
    PROVE  AllocSucceeds'
<1>1. addr[1] \in Blk /\ Idle
  BY DEF Addr, RouteAdd
<1>2. \A b \in Blk : b # addr[1] \/ ~(len > BlkBits) => longCount'[b] = longCount[b]
  BY <1>1 DEF RouteAdd, Insert, TypeOK
<1>3. DOMAIN todo' = {} /\ groups' = groups
  BY <1>1 DEF RouteAdd, Idle
<1>4. /\ Demand' \subseteq {addr[1]}
      /\ ~NeedsGroup(addr, len) => Demand' = {}
  BY <1>1, <1>2, <1>3, IdleDemand DEF Demand, NeedsGroup
<1>5. PoolSize' = PoolSize /\ PoolSize \in Nat
  BY PoolSizeType DEF PoolSize, RouteAdd
<1>6. CASE NeedsGroup(addr, len)
  <2>1. PoolSize >= 1
    BY <1>5, <1>6 DEF RouteAdd
  <2>2. Cardinality(Demand') <= 1 /\ Cardinality(Demand') \in Nat
    <3>1. IsFiniteSet({addr[1]}) /\ Cardinality({addr[1]}) = 1
      BY FS_Singleton
    <3>2. Cardinality(Demand') <= Cardinality({addr[1]})
      BY <1>4, <3>1, FS_Subset
    <3> QED
      BY <3>1, <3>2, DemandFinite, DemandType
  <2> QED
    BY <1>5, <2>1, <2>2 DEF AllocSucceeds
<1>7. CASE ~NeedsGroup(addr, len)
  BY <1>4, <1>5, <1>7, FS_EmptySet DEF AllocSucceeds
<1> QED
  BY <1>6, <1>7

LEMMA BulkDemand ==
    ASSUME TypeOK, PlanInv, NEW n \in 1..MaxBatch,
           NEW batch \in [1..n -> BatchRoutes], RouteAddBulk(batch)
    PROVE  AllocSucceeds'
<1>1. DOMAIN batch = 1..n
  OBVIOUS
<1>2. Demand' \subseteq NewGroupBlocks(batch)
  BY IdleDemand DEF Demand, NewGroupBlocks, NeedsGroup, RouteAddBulk
<1>3. NewGroupBlocks(batch) \subseteq Blk
  <2>1. \A i \in 1..n : batch[i].addr[1] \in Blk
    BY InputTypes DEF BatchRoutes, Addr
  <2> QED
    BY <1>1, <2>1 DEF NewGroupBlocks
<1>4. PoolSize' = PoolSize /\ PoolSize \in Nat
  BY PoolSizeType DEF PoolSize, RouteAddBulk
<1>5. Cardinality(Demand') <= Cardinality(NewGroupBlocks(batch))
  BY <1>2, <1>3, DemandFinite, FS_Subset
<1>6. Cardinality(Demand') \in Nat /\ Cardinality(NewGroupBlocks(batch)) \in Nat
  BY <1>3, DemandFinite, DemandType
<1> QED
  BY <1>4, <1>5, <1>6 DEF AllocSucceeds, RouteAddBulk

LEMMA BulkNextDemand ==
    ASSUME TypeOK, BulkNext
    PROVE  Demand' \subseteq Demand
<1>1. /\ todo \in Seq(BulkRoute) /\ todo # <<>> /\ Head(todo) = todo[1]
      /\ 1 \in DOMAIN todo /\ todo' = Tail(todo) /\ groups' = groups
  BY LenProperties, EmptySeq DEF TypeOK, BulkNext
<1>2. \A i \in DOMAIN todo' : i + 1 \in DOMAIN todo /\ todo'[i] = todo[i + 1]
  BY <1>1, HeadTailProperties, LenProperties
<1>3. todo[1].addr[1] \in Blk
  <2>1. todo[1] \in BulkRoute
    BY <1>1, ElementOfSeq, LenProperties
  <2> QED
    BY <2>1 DEF BulkRoute, Addr
<1>4. \A b \in Blk : \/ longCount'[b] = longCount[b]
                     \/ todo[1].len > BlkBits /\ todo[1].addr[1] = b
  BY <1>1, <1>3 DEF BulkNext, Insert, TypeOK
<1> QED
  BY <1>1, <1>2, <1>4 DEF Demand

LEMMA FrontLength ==
    ASSUME NEW S, NEW s \in Seq(S), s # <<>>
    PROVE  Len(Front(s)) = Len(s) - 1
<1> DEFINE n == Len(s)
           f == Front(s)
<1>1. n \in Nat /\ n >= 1 /\ DOMAIN s = 1..n
  BY EmptySeq, LenProperties
<1>2. f \in Seq(S) /\ Len(f) = n - 1 /\ DOMAIN f = 1..(n - 1)
  BY <1>1 DEF Front
<1> QED
  BY <1>2

LEMMA ExpandDemand ==
    ASSUME TypeOK, AllocSucceeds, NEW b \in Blk, SyncExpand(b),
           UNCHANGED <<longCount, todo>>
    PROVE  AllocSucceeds'
<1>1. PICK g \in Group : AllocGroup(g) /\ groups' = [groups EXCEPT ![b] = g]
  BY DEF SyncExpand
<1>2. b \in Demand
  BY DEF SyncExpand, Demand
<1>3. Demand' \subseteq Demand \ {b}
  BY <1>1 DEF Demand, TypeOK, NoGroup, Group
<1>4. PoolSize' = PoolSize - 1
  <2>1. CASE free # <<>> /\ free' = Front(free) /\ UNCHANGED quarantine
    <3>1. Len(Front(free)) = Len(free) - 1
      BY <2>1, FrontLength DEF TypeOK
    <3> QED
      BY <2>1, <3>1, PoolSizeType DEF PoolSize
  <2>2. CASE quarantine # <<>> /\ quarantine' = Tail(quarantine) /\ UNCHANGED free
    <3>1. Len(Tail(quarantine)) = Len(quarantine) - 1
      BY <2>2, HeadTailProperties DEF TypeOK
    <3> QED
      BY <2>2, <3>1, PoolSizeType DEF PoolSize
  <2> QED
    BY <1>1, <2>1, <2>2 DEF AllocGroup
<1>5. Cardinality(Demand \ {b}) = Cardinality(Demand) - 1
  BY <1>2, DemandFinite, DemandType, FS_RemoveElement
<1>6. Cardinality(Demand') <= Cardinality(Demand \ {b})
  BY <1>3, DemandFinite, DemandType, FS_Subset
<1>7. Cardinality(Demand') \in Nat /\ Cardinality(Demand) \in Nat
  BY DemandFinite, DemandType
<1> QED
  BY <1>4, <1>5, <1>6, <1>7, PoolSizeType DEF AllocSucceeds

LEMMA DirectDemand ==
    ASSUME TypeOK, TypeOK', AllocSucceeds, NEW b \in Blk, SyncDirect(b),
           todo = <<>>, UNCHANGED <<longCount, todo>>
    PROVE  AllocSucceeds'
<1>1. Demand' \subseteq Demand
  <2>1. ~(longCount[b] > 0) /\ DOMAIN todo' = {}
    BY DEF SyncDirect
  <2>2. \A c \in Blk : c # b => groups'[c] = groups[c]
    BY DEF SyncDirect, TypeOK
  <2> QED
    BY <2>1, <2>2 DEF Demand
<1>2. CASE UNCHANGED <<free, quarantine>>
  BY <1>1, <1>2, SamePoolDemand
<1>3. CASE FreeGroup(groups[b]) /\ groups[b] # NoGroup
  <2> DEFINE q == Append(quarantine, groups[b])
  <2>1. q \in Seq(Group) /\ Len(q) = Len(quarantine) + 1 /\ q # <<>>
    <3>1. groups[b] \in Group /\ quarantine \in Seq(Group)
      BY <1>3 DEF TypeOK
    <3>2. q \in Seq(Group) /\ Len(q) = Len(quarantine) + 1
      BY <3>1, AppendProperties
    <3> HIDE DEF q
    <3>3. Len(quarantine) + 1 # 0
      BY PoolSizeType
    <3> QED
      BY <3>2, <3>3, EmptySeq
  <2>2. PoolSize' = PoolSize + 1
    <3>1. CASE Len(q) > QuarantineDepth
      <4>1. quarantine' = Tail(q) /\ free' = Append(free, Head(q))
        BY <1>3, <3>1 DEF FreeGroup
      <4> HIDE DEF q
      <4>2. Len(Tail(q)) = Len(quarantine) /\ Head(q) \in Group
        BY <2>1, HeadTailProperties, PoolSizeType
      <4>3. Len(free') = Len(free) + 1
        BY <4>1, <4>2, AppendProperties DEF TypeOK
      <4>4. Len(quarantine') = Len(quarantine)
        BY <4>1, <4>2
      <4> QED
        BY <4>3, <4>4, PoolSizeType DEF PoolSize
    <3>2. CASE ~(Len(q) > QuarantineDepth)
      BY <1>3, <2>1, <3>2, PoolSizeType DEF FreeGroup, PoolSize
    <3> QED
      BY <3>1, <3>2
  <2>3. Cardinality(Demand') <= Cardinality(Demand)
    BY <1>1, DemandFinite, DemandType, FS_Subset
  <2>4. Cardinality(Demand') \in Nat /\ Cardinality(Demand) \in Nat
    BY DemandFinite, DemandType
  <2> QED
    BY <2>2, <2>3, <2>4, PoolSizeType DEF AllocSucceeds
<1> QED
  BY <1>2, <1>3 DEF SyncDirect

LEMMA NextDemand ==
    ASSUME EngineInv, TypeOK', AllocSucceeds, [Next]_vars
    PROVE  AllocSucceeds'
<1> TypeOK /\ PlanInv
  BY DEF EngineInv
<1>1. CASE UNCHANGED vars
  <2>1. Demand' = Demand /\ UNCHANGED <<free, quarantine>>
    BY <1>1 DEF vars, Demand
  <2> QED
    BY <2>1, SamePoolDemand
<1>2. ASSUME NEW r \in Routes, NEW e \in NexthopIds, RouteAdd(r[1], r[2], e)
      PROVE  AllocSucceeds'
  BY <1>2, InputTypes, AddDemand
<1>3. ASSUME NEW r \in Routes, RouteDel(r[1], r[2])
      PROVE  AllocSucceeds'
  <2>1. r[1] \in Addr /\ r[1][1] \in Blk
    BY InputTypes DEF Addr
  <2>2. \A b \in Blk : longCount'[b] > 0 => longCount[b] > 0
    BY <1>3, <2>1 DEF RouteDel, TypeOK
  <2>3. UNCHANGED <<groups, free, quarantine, todo>>
    BY <1>3 DEF RouteDel
  <2>4. Demand' \subseteq Demand
    BY <2>2, <2>3 DEF Demand
  <2> QED
    BY <2>3, <2>4, SamePoolDemand
<1>4. ASSUME NEW n \in 1..MaxBatch, NEW batch \in [1..n -> BatchRoutes], RouteAddBulk(batch)
      PROVE  AllocSucceeds'
  BY <1>4, BulkDemand
<1>5. CASE BulkNext
  <2>1. UNCHANGED <<free, quarantine>>
    BY <1>5 DEF BulkNext
  <2> QED
    BY <1>5, <2>1, BulkNextDemand, SamePoolDemand
<1>6. CASE SyncBlock
  <2>1. PICK b \in Blk : SyncInPlace(b) \/ SyncExpand(b) \/ SyncDirect(b)
    BY <1>6, NextBlock DEF SyncBlock
  <2>2. todo = <<>> /\ UNCHANGED <<longCount, todo>>
    BY <1>6 DEF SyncBlock
  <2>3. CASE SyncInPlace(b)
    <3>1. Demand' = Demand /\ UNCHANGED <<free, quarantine>>
      BY <2>2, <2>3 DEF Demand, SyncInPlace
    <3> QED
      BY <3>1, SamePoolDemand
  <2>4. CASE SyncExpand(b)
    BY <2>2, <2>4, ExpandDemand
  <2>5. CASE SyncDirect(b)
    BY <2>2, <2>5, DirectDemand
  <2> QED
    BY <2>1, <2>3, <2>4, <2>5
<1>7. CASE ApplyWrite
  <2>1. Demand' = Demand /\ UNCHANGED <<free, quarantine>>
    BY <1>7 DEF ApplyWrite, engineVars, Demand
  <2> QED
    BY <2>1, SamePoolDemand
<1> QED
  BY <1>1, <1>2, <1>3, <1>4, <1>5, <1>6, <1>7
     DEF Next, Call, RouteAddExhausted, RouteDelAbsent, RouteAddBulkExhausted

\* A call that passed its capacity check never meets an empty pool: the error
\* return of alloc_group inside sync_block is dead code (AllocSucceeds).
THEOREM CapacityHolds == Spec => []AllocSucceeds
<1>1. Init => AllocSucceeds
  <2> SUFFICES ASSUME Init PROVE AllocSucceeds
    OBVIOUS
  <2>1. Demand = {}
    BY DEF Init, Demand
  <2>2. PoolSize \in Nat
    BY InitTypes, PoolSizeType
  <2> QED
    BY <2>1, <2>2, FS_EmptySet DEF AllocSucceeds
<1>2. TypeOK /\ LongCountExact /\ PoolSound /\ PlanInv => EngineInv
  BY DEF EngineInv
<1>3. EngineInv /\ TypeOK' /\ AllocSucceeds /\ [Next]_vars => AllocSucceeds'
  BY NextDemand
<1> QED
  BY <1>1, <1>2, <1>3, TypesAndCounts, PoolIsSound, PlanIsSound, PTL DEF Spec
=============================================================================
