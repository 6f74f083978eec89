------------------------- MODULE Dir24ReadersProofs -------------------------
(***************************************************************************)
(* Lookups that run while plans are stored (Dir24Readers), for any widths, *)
(* pool, quarantine, routes and number of readers: the grace period of the *)
(* quarantine, the regularity of the slot a lookup ends up with, and the   *)
(* atomicity of a lookup that overlaps one route update.                   *)
(***************************************************************************)
EXTENDS Dir24Readers, Dir24Proofs

-----------------------------------------------------------------------------
(***************************************************************************)
(* What the lookups need of the engine beyond PlanInv.                     *)
(***************************************************************************)

\* Between calls the tables are right.
Settled ==
    Idle => /\ \A b \in Blk, low \in Low : Resolve(b, low) = SlotWord(shadow, b, low)
            /\ default4 = DefaultWord(shadow)

\* TBL8 holds no pointers.
Flat == \A s \in Group \X Low : tbl8[s].kind # "group"

\* A pointer that outlives its block's ownership is to the group freed last:
\* the whole quarantine is still before it.
StaleLast ==
    \A b \in Blk : tbl24[b].kind = "group" /\ groups[b] = NoGroup /\ QuarantineDepth > 0 =>
        Len(quarantine) > 0 /\ quarantine[Len(quarantine)] = tbl24[b].id

EngineFacts == EngineInv /\ Settled /\ Flat /\ StaleLast

-----------------------------------------------------------------------------
(***************************************************************************)
(* The running call, seen from the tables: `prev' is where it came from.   *)
(***************************************************************************)

\* Two route sets with the same default route, or the same routes but for it.
Apart(s, t) ==
    \/ DefaultWord(s) = DefaultWord(t)
    \/ \A b \in Blk, low \in Low : SlotWord(s, b, low) = SlotWord(t, b, low)

\* Every address resolves to the word it had before the call or to the one it
\* has after it; until the plan is complete, to the former.  A call that is
\* not a bulk one is one route apart from where it came from.
PrevSound ==
    /\ prev.rib \in Rib /\ prev.bulk \in BOOLEAN
    /\ Idle => prev.rib = shadow /\ ~prev.bulk
    /\ todo # <<>> => prev.bulk
    /\ \A b \in Blk, low \in Low :
          \/ Resolve(b, low) = SlotWord(prev.rib, b, low)
          \/ /\ Resolve(b, low) = SlotWord(shadow, b, low)
             /\ todo = <<>> /\ pending = {}
    /\ ~prev.bulk =>
          /\ Apart(prev.rib, shadow)
          /\ default4 \in {DefaultWord(prev.rib), DefaultWord(shadow)}
          /\ \A i \in DOMAIN plan : plan[i].tab = "default" =>
                plan[i].word = DefaultWord(shadow)

-----------------------------------------------------------------------------
(***************************************************************************)
(* A lookup.                                                               *)
(***************************************************************************)
LookupState ==
    [pc : {"idle", "tbl8", "default", "done"}, dst : Addr, slot : Word, answer : Word,
     slots : SUBSET Word, answers : SUBSET Word, updates : 0..UpdatesCap,
     stolen : BOOLEAN, squeezed : BOOLEAN, frees : 0..FreesCap]

\* What a lookup answers that finds s in TBL24/TBL8 and d in DEFAULT4.
Best(s, d) == IF s.kind = "none" THEN d ELSE s

\* The group a lookup is about to index is still its block's, or waits in the
\* quarantine behind no more groups than were freed since.
Held(l) ==
    \/ groups[l.dst[1]] = l.slot.id
    \/ \E i \in 1..Len(quarantine) :
          quarantine[i] = l.slot.id /\ Len(quarantine) - i <= l.frees

Grace(l) ==
    /\ l.stolen => l.squeezed \/ l.frees >= FreesCap
    /\ l.pc = "tbl8" /\ ~l.squeezed /\ l.frees < FreesCap => Held(l)

\* What it has found, or is about to find in the group, was right at some
\* moment.
Regular(l) ==
    /\ l.pc = "tbl8" => l.slot.id \in Group
    /\ l.pc = "tbl8" /\ ~l.stolen => tbl8[<<l.slot.id, l.dst[2]>>] \in l.slots
    /\ l.pc = "default" => l.slot.kind = "none"
    /\ l.pc \in {"default", "done"} /\ ~l.stolen => l.slot \in l.slots
    /\ \A w \in l.slots : w.kind = "entry" => w \in l.answers

\* A lookup that has met at most one update has seen two route sets that are
\* one route apart: the words of the earlier one are s and d.
Narrow(l) ==
    /\ prev.bulk => todo # <<>>
    /\ \E s \in Word, d \in Word :
          LET t == SlotWord(shadow, l.dst[1], l.dst[2])
          IN  /\ l.slots = {s, t}
              /\ l.answers = {Best(s, d), Best(t, DefaultWord(shadow))}
              /\ default4 \in {d, DefaultWord(shadow)}
              /\ d = DefaultWord(shadow) \/ s = t
              /\ l.updates = 0 => d = DefaultWord(shadow) /\ s = t

Atomic(l) ==
    /\ l.pc \in {"tbl8", "default"} /\ l.updates <= 1 => Narrow(l)
    /\ l.pc = "done" /\ l.updates <= 1 /\ ~l.stolen => l.answer \in l.answers

LookupSound(l) == l \in LookupState /\ Grace(l) /\ Regular(l) /\ Atomic(l)
ReadersSound == rd = [r \in Readers |-> rd[r]] /\ \A r \in Readers : LookupSound(rd[r])
-----------------------------------------------------------------------------
(***************************************************************************)
(* The steps of the engine, as a lookup sees them.                         *)
(***************************************************************************)

\* A single route is set.
SingleStep ==
    /\ Idle /\ ~Idle' /\ todo' = <<>>
    /\ UNCHANGED <<groups, free, quarantine, tbl24, tbl8, default4>>
    /\ Apart(shadow, shadow')
    /\ \A i \in DOMAIN plan' : plan'[i].tab = "default" =>
          plan'[i].word = DefaultWord(shadow')

\* A bulk call begins, or sets the next of its routes.
BulkStep ==
    /\ ~Idle'
    /\ UNCHANGED <<groups, free, quarantine, tbl24, tbl8, default4>>
    /\ \/ Idle /\ todo' # <<>> /\ shadow' = shadow
       \/ todo # <<>>

\* One block is recomputed.
SyncStep ==
    /\ todo = <<>> /\ todo' = <<>> /\ pending # {} /\ ~Idle'
    /\ UNCHANGED <<shadow, tbl24, tbl8, default4>>
    /\ \A i \in DOMAIN plan' : plan'[i].tab = "default" =>
          \E j \in DOMAIN plan : plan'[i] = plan[j]

\* What that does to the pool: nothing, or a block takes a group (from the
\* quarantine only when the free list is empty), or gives its own up.
Expands(b) ==
    /\ groups[b] = NoGroup
    /\ \E g \in Group : groups' = [groups EXCEPT ![b] = g]
    /\ \/ quarantine' = quarantine
       \/ free = <<>> /\ quarantine # <<>> /\ quarantine' = Tail(quarantine)

Collapses(b) ==
    /\ groups[b] # NoGroup
    /\ groups' = [groups EXCEPT ![b] = NoGroup]
    /\ FreeGroup(groups[b])

PoolStep ==
    \/ UNCHANGED <<groups, free, quarantine>>
    \/ \E b \in Blk : Expands(b)
    \/ \E b \in Blk : Collapses(b)

LEMMA SetRouteApart ==
    ASSUME NEW rib \in Rib, NEW addr \in Addr, NEW len \in Lens,
           NEW e \in Entry \cup {NoEntry}
    PROVE  Apart(rib, SetRoute(rib, addr, len, e))
<1>1. CASE len = 0
  BY <1>1, WordsUnaffected DEF Apart
<1>2. CASE len # 0
  BY <1>2, DefaultWordChange DEF Apart
<1> QED
  BY <1>1, <1>2

\* The plan of a default route is the one write.
LEMMA DefaultPlan ==
    ASSUME NEW w \in Word, plan = <<>>, plan' = Append(plan, DefaultWrite(w))
    PROVE  plan' # <<>> /\ \A i \in DOMAIN plan' : plan'[i].word = w
<1>1. plan' = <<DefaultWrite(w)>>
  OBVIOUS
<1>2. DOMAIN plan' = 1..1 /\ plan'[1] = DefaultWrite(w) /\ plan' # <<>>
  BY <1>1
<1>3. DefaultWrite(w).word = w
  BY DEF DefaultWrite
<1> QED
  BY <1>2, <1>3

LEMMA AddIsSingle ==
    ASSUME TypeOK, NEW addr \in Addr, NEW len \in Lens, NEW e \in Entry,
           RouteAdd(addr, len, e)
    PROVE  SingleStep
<1>1. /\ Idle /\ todo' = <<>> /\ plan = <<>> /\ Insert(addr, len, e)
      /\ UNCHANGED <<groups, free, quarantine, tbl24, tbl8, default4>>
  BY DEF RouteAdd, Idle, tableVars
<1>2. shadow' = SetRoute(shadow, addr, len, e) /\ shadow \in Rib
      /\ e \in Entry \cup {NoEntry} /\ e # NoEntry
  BY <1>1 DEF Insert, SetRoute, Key, TypeOK, Entry, NoEntry
<1>3. Apart(shadow, shadow')
  BY <1>2, SetRouteApart
<1>4. ~Idle'
  BY <1>1, InsertLeavesWork DEF Idle
<1>5. CASE len = 0
  <2>1. plan' = Append(plan, DefaultWrite(fibw_entry(e))) /\ fibw_entry(e) \in Word
    BY <1>1, <1>5, EntryWordType DEF Insert
  <2>2. DefaultWord(shadow') = fibw_entry(e)
    BY <1>2, <1>5, DefaultWordChange
  <2>3. \A i \in DOMAIN plan' : plan'[i].word = fibw_entry(e)
    BY <1>1, <2>1, DefaultPlan
  <2> QED
    BY <1>1, <1>3, <1>4, <2>2, <2>3 DEF SingleStep
<1>6. CASE len # 0
  <2>1. DOMAIN plan' = {}
    BY <1>1, <1>6 DEF Insert
  <2> QED
    BY <1>1, <1>3, <1>4, <2>1 DEF SingleStep
<1> QED
  BY <1>5, <1>6

LEMMA DelIsSingle ==
    ASSUME TypeOK, NEW addr \in Addr, NEW len \in Lens, RouteDel(addr, len)
    PROVE  SingleStep
<1>1. /\ Idle /\ todo' = <<>> /\ plan = <<>>
      /\ UNCHANGED <<groups, free, quarantine, tbl24, tbl8, default4>>
  BY DEF RouteDel, Idle, tableVars
<1>2. shadow' = SetRoute(shadow, addr, len, NoEntry) /\ shadow \in Rib
      /\ NoEntry \in Entry \cup {NoEntry}
  BY DEF RouteDel, SetRoute, Key, TypeOK
<1>3. Apart(shadow, shadow')
  BY <1>2, SetRouteApart
<1>4. CASE len = 0
  <2>1. plan' = Append(plan, DefaultWrite(ZeroWord)) /\ ZeroWord \in Word
    BY <1>1, <1>4, WriteTypes DEF RouteDel
  <2>2. DefaultWord(shadow') = ZeroWord
    BY <1>2, <1>4, DefaultWordChange
  <2>3. plan' # <<>> /\ \A i \in DOMAIN plan' : plan'[i].word = ZeroWord
    BY <1>1, <2>1, DefaultPlan
  <2> QED
    BY <1>1, <1>3, <2>2, <2>3 DEF SingleStep, Idle
<1>5. CASE len # 0
  <2>1. DOMAIN plan' = {} /\ pending' = AffectedBlocks(Mask(addr, len), len)
    BY <1>1, <1>5 DEF RouteDel
  <2>2. pending' # {}
    BY <2>1, AffectedFacts
  <2> QED
    BY <1>1, <1>3, <2>1, <2>2 DEF SingleStep, Idle
<1> QED
  BY <1>4, <1>5

LEMMA BulkNextIsBulk ==
    ASSUME TypeOK, BulkNext
    PROVE  BulkStep
<1>1. Head(todo) \in BulkRoute /\ todo # <<>>
  BY HeadTailProperties DEF BulkNext, TypeOK
<1>2. Head(todo).addr \in Addr /\ Head(todo).len \in Lens /\ Head(todo).entry \in Entry
  BY <1>1 DEF BulkRoute
<1>3. pending' # {} \/ plan' # <<>>
  BY <1>2, InsertLeavesWork DEF BulkNext
<1> QED
  BY <1>1, <1>3 DEF BulkStep, BulkNext, tableVars, Idle

\* Appending slot writes to the plan leaves it with the default writes it had.
LEMMA AppendedPlan ==
    ASSUME TypeOK, NEW new \in Seq(Write), new # <<>>, plan' = plan \o new,
           \A k \in 1..Len(new) : new[k].tab # "default"
    PROVE  /\ plan' # <<>>
           /\ \A i \in DOMAIN plan' : plan'[i].tab = "default" =>
                 \E j \in DOMAIN plan : plan'[i] = plan[j]
<1> DEFINE n == Len(plan)
           m == Len(new)
<1>1. /\ plan \in Seq(Write) /\ n \in Nat /\ m \in Nat /\ m > 0
      /\ DOMAIN plan = 1..n
  BY LenProperties, EmptySeq DEF TypeOK
<1>2. /\ plan' \in Seq(Write) /\ Len(plan') = n + m
      /\ \A i \in 1..(n + m) : plan'[i] = IF i <= n THEN plan[i] ELSE new[i - n]
  BY <1>1, ConcatProperties
<1>3. DOMAIN plan' = 1..(n + m)
  BY <1>2, LenProperties
<1> HIDE DEF n, m
<1>4. plan' # <<>>
  BY <1>1, <1>2, EmptySeq
<1>5. ASSUME NEW i \in DOMAIN plan', plan'[i].tab = "default"
      PROVE  \E j \in DOMAIN plan : plan'[i] = plan[j]
  <2>1. CASE i <= n
    BY <1>1, <1>2, <1>3, <2>1, <1>5
  <2>2. CASE ~(i <= n)
    <3>1. i - n \in 1..m /\ plan'[i] = new[i - n]
      BY <1>1, <1>2, <1>3, <2>2, <1>5
    <3> QED
      BY <3>1, <1>5 DEF m
  <2> QED
    BY <2>1, <2>2
<1> QED
  BY <1>4, <1>5

LEMMA SyncIsStep ==
    ASSUME TypeOK, SyncBlock
    PROVE  SyncStep /\ PoolStep
<1>1. PICK b \in Blk : SyncInPlace(b) \/ SyncExpand(b) \/ SyncDirect(b)
  BY NextBlock DEF SyncBlock
<1>2. /\ todo = <<>> /\ todo' = <<>> /\ pending # {}
      /\ UNCHANGED <<shadow, tbl24, tbl8, default4>>
  BY DEF SyncBlock, tableVars
<1>3. SUFFICES PoolStep /\ \E new \in Seq(Write) :
                  /\ new # <<>> /\ plan' = plan \o new
                  /\ \A k \in 1..Len(new) : new[k].tab # "default"
  <2>1. ASSUME NEW new \in Seq(Write), new # <<>>, plan' = plan \o new,
               \A k \in 1..Len(new) : new[k].tab # "default"
        PROVE  SyncStep
    <3>1. /\ plan' # <<>>
          /\ \A i \in DOMAIN plan' : plan'[i].tab = "default" =>
                 \E j \in DOMAIN plan : plan'[i] = plan[j]
      BY <2>1, AppendedPlan
    <3> QED
      BY <1>2, <3>1 DEF SyncStep, Idle
  <2> QED
    BY <2>1
<1>4. \A g \in Group : /\ FillGroup(g, b) \in Seq(Write) /\ FillGroup(g, b) # <<>>
                       /\ \A k \in 1..Len(FillGroup(g, b)) : FillGroup(g, b)[k].tab # "default"
  <2> SUFFICES ASSUME NEW g \in Group
               PROVE  /\ FillGroup(g, b) \in Seq(Write) /\ FillGroup(g, b) # <<>>
                      /\ \A k \in 1..Len(FillGroup(g, b)) : FillGroup(g, b)[k].tab # "default"
    OBVIOUS
  <2> DEFINE fill == FillGroup(g, b)
  <2>1. /\ fill \in Seq(Write) /\ Len(fill) = 2^LowBits
        /\ \A k \in 1..2^LowBits : fill[k] = Tbl8Write(g, k - 1, SlotWord(shadow, b, k - 1))
    BY <1>1, FillGroupTypes
  <2> HIDE DEF fill
  <2>2. fill # <<>>
    BY <2>1, LensFacts, EmptySeq
  <2>3. \A k \in 1..Len(fill) : fill[k].tab = "tbl8"
    BY <2>1, WriteFields
  <2> QED
    BY <2>1, <2>2, <2>3 DEF fill
<1>5. ASSUME NEW w \in Word
      PROVE  /\ <<Tbl24Write(b, w)>> \in Seq(Write) /\ <<Tbl24Write(b, w)>> # <<>>
             /\ Len(<<Tbl24Write(b, w)>>) = 1 /\ <<Tbl24Write(b, w)>>[1].tab = "tbl24"
  <2>1. Tbl24Write(b, w) \in Write /\ Tbl24Write(b, w).tab = "tbl24"
    BY <1>1, WriteTypes, WriteFields
  <2> QED
    BY <2>1
<1>6. CASE SyncInPlace(b)
  <2>1. groups[b] \in Group /\ plan' = plan \o FillGroup(groups[b], b)
        /\ UNCHANGED <<groups, free, quarantine>>
    BY <1>6 DEF SyncInPlace, TypeOK
  <2>2. \E new \in Seq(Write) : /\ new # <<>> /\ plan' = plan \o new
                                /\ \A k \in 1..Len(new) : new[k].tab # "default"
    BY <1>4, <2>1
  <2> QED
    BY <2>1, <2>2 DEF PoolStep
<1>7. CASE SyncExpand(b)
  <2>1. PICK g \in Group : /\ AllocGroup(g) /\ groups' = [groups EXCEPT ![b] = g]
                           /\ plan' = (plan \o FillGroup(g, b))
                                         \o <<Tbl24Write(b, fibw_group(g))>>
    BY <1>7 DEF SyncExpand
  <2> DEFINE fill == FillGroup(g, b)
             flip == <<Tbl24Write(b, fibw_group(g))>>
  <2>2. /\ fill \in Seq(Write) /\ fill # <<>>
        /\ \A k \in 1..Len(fill) : fill[k].tab # "default"
        /\ flip \in Seq(Write) /\ flip # <<>> /\ Len(flip) = 1 /\ flip[1].tab = "tbl24"
    BY <1>4, <1>5, GroupWordType
  <2> HIDE DEF fill, flip
  <2>3. plan' = plan \o (fill \o flip)
    BY <2>1, <2>2, ConcatAssociative DEF TypeOK, fill, flip
  <2>4. /\ fill \o flip \in Seq(Write) /\ Len(fill \o flip) = Len(fill) + 1 /\ Len(fill) \in Nat
        /\ \A k \in 1..(Len(fill) + 1) :
              (fill \o flip)[k] = IF k <= Len(fill) THEN fill[k] ELSE flip[k - Len(fill)]
    BY <2>2, ConcatProperties, LenProperties
  <2>5. fill \o flip # <<>>
    BY <2>4, EmptySeq
  <2>6. \A k \in 1..Len(fill \o flip) : (fill \o flip)[k].tab # "default"
    <3> SUFFICES ASSUME NEW k \in 1..Len(fill \o flip) PROVE (fill \o flip)[k].tab # "default"
      OBVIOUS
    <3>1. CASE k <= Len(fill)
      BY <2>2, <2>4, <3>1
    <3>2. CASE ~(k <= Len(fill))
      <4>1. k - Len(fill) = 1 /\ (fill \o flip)[k] = flip[1]
        BY <2>4, <3>2
      <4> QED
        BY <2>2, <4>1
    <3> QED
      BY <3>1, <3>2
  <2>7. groups[b] = NoGroup
    BY <1>7 DEF SyncExpand
  <2>8. quarantine' = quarantine
        \/ (free = <<>> /\ quarantine # <<>> /\ quarantine' = Tail(quarantine))
    BY <2>1 DEF AllocGroup
  <2>9. Expands(b)
    BY <2>1, <2>7, <2>8 DEF Expands
  <2> QED
    BY <2>3, <2>4, <2>5, <2>6, <2>9 DEF PoolStep
<1>8. CASE SyncDirect(b)
  <2> DEFINE w == BlockCoverWord(shadow, b)
  <2>1. w \in Word
    <3>1. 0 \in Low
      BY LensFacts DEF Low
    <3> QED
      BY <3>1, SlotWordType DEF TypeOK
  <2> HIDE DEF w
  <2>2. plan' = plan \o <<Tbl24Write(b, w)>>
    BY <1>8 DEF SyncDirect, w
  <2>3. \E new \in Seq(Write) : /\ new # <<>> /\ plan' = plan \o new
                                /\ \A k \in 1..Len(new) : new[k].tab # "default"
    <3> DEFINE flip == <<Tbl24Write(b, w)>>
    <3>1. flip \in Seq(Write) /\ flip # <<>> /\ Len(flip) = 1 /\ flip[1].tab = "tbl24"
      BY <1>5, <2>1
    <3>2. plan' = plan \o flip
      BY <2>2
    <3> HIDE DEF flip
    <3> QED
      BY <3>1, <3>2
  <2>4. CASE groups[b] = NoGroup
    <3>1. groups' = groups
      BY <1>8, <2>4 DEF SyncDirect, TypeOK
    <3>2. UNCHANGED <<groups, free, quarantine>>
      BY <1>8, <2>4, <3>1 DEF SyncDirect
    <3> QED
      BY <2>3, <3>2 DEF PoolStep
  <2>5. CASE groups[b] # NoGroup
    <3>1. Collapses(b)
      BY <1>8, <2>5 DEF SyncDirect, Collapses
    <3> QED
      BY <2>3, <3>1 DEF PoolStep
  <2> QED
    BY <2>4, <2>5
<1> QED
  BY <1>1, <1>6, <1>7, <1>8

LEMMA StepKinds ==
    ASSUME TypeOK, Next
    PROVE  \/ Idle /\ UNCHANGED vars
           \/ SingleStep
           \/ BulkStep
           \/ SyncStep /\ PoolStep
           \/ ApplyWrite
<1>1. ASSUME NEW r \in Routes, NEW e \in NexthopIds, RouteAdd(r[1], r[2], e)
      PROVE  SingleStep
  BY <1>1, InputTypes, AddIsSingle
<1>2. ASSUME NEW r \in Routes, RouteDel(r[1], r[2])
      PROVE  SingleStep
  BY <1>2, InputTypes, DelIsSingle
<1>3. ASSUME NEW n \in 1..MaxBatch, NEW batch \in [1..n -> BatchRoutes], RouteAddBulk(batch)
      PROVE  BulkStep
  BY <1>3, BatchType DEF RouteAddBulk, BulkStep, Idle, tableVars
<1> QED
  BY <1>1, <1>2, <1>3, BulkNextIsBulk, SyncIsStep
     DEF Next, Call, RouteAddExhausted, RouteDelAbsent, RouteAddBulkExhausted

-----------------------------------------------------------------------------
(***************************************************************************)
(* The quarantine.                                                         *)
(***************************************************************************)

\* A freed group goes to the end of the quarantine; the others move one place
\* away from the end, the one QuarantineDepth away leaves.
LEMMA FreeMoves ==
    ASSUME TypeOK, NEW g \in Group, FreeGroup(g), QuarantineDepth > 0
    PROVE  /\ Len(quarantine') > 0 /\ quarantine'[Len(quarantine')] = g
           /\ \A i \in 1..Len(quarantine) : Len(quarantine) - i + 1 < QuarantineDepth =>
                 \E j \in 1..Len(quarantine') :
                    /\ quarantine'[j] = quarantine[i]
                    /\ Len(quarantine') - j = Len(quarantine) - i + 1
<1> DEFINE n == Len(quarantine)
           q == Append(quarantine, g)
<1>1. quarantine \in Seq(Group) /\ n \in Nat /\ n <= QuarantineDepth
      /\ QuarantineDepth \in Nat
  BY LenProperties, DepthAssumption DEF TypeOK
<1>2. /\ q \in Seq(Group) /\ Len(q) = n + 1 /\ q[n + 1] = g
      /\ \A i \in 1..n : q[i] = quarantine[i]
  BY <1>1, AppendProperties
<1>3. q # <<>>
  BY <1>1, <1>2, EmptySeq
<1>4. Len(Tail(q)) = n /\ \A i \in 1..n : Tail(q)[i] = q[i + 1]
  BY <1>1, <1>2, <1>3, HeadTailProperties
<1>5. IF n + 1 > QuarantineDepth THEN quarantine' = Tail(q) ELSE quarantine' = q
  BY <1>2 DEF FreeGroup
<1> HIDE DEF n, q
<1>6. CASE n + 1 > QuarantineDepth
  <2>1. n = QuarantineDepth /\ n >= 1 /\ quarantine' = Tail(q)
    BY <1>1, <1>5, <1>6
  <2>2. Len(quarantine') = n /\ quarantine'[n] = g
    BY <1>1, <1>2, <1>4, <2>1
  <2>3. ASSUME NEW i \in 1..n, n - i + 1 < QuarantineDepth
        PROVE  /\ i - 1 \in 1..n /\ quarantine'[i - 1] = quarantine[i]
               /\ n - (i - 1) = n - i + 1
    BY <1>1, <1>2, <1>4, <2>1, <2>3
  <2> QED
    BY <1>1, <2>1, <2>2, <2>3 DEF n
<1>7. CASE ~(n + 1 > QuarantineDepth)
  <2>1. Len(quarantine') = n + 1 /\ quarantine'[n + 1] = g /\ quarantine' = q
    BY <1>1, <1>2, <1>5, <1>7
  <2>2. ASSUME NEW i \in 1..n
        PROVE  /\ i \in 1..(n + 1) /\ quarantine'[i] = quarantine[i]
               /\ (n + 1) - i = n - i + 1
    BY <1>1, <1>2, <2>1
  <2> QED
    BY <1>1, <2>1, <2>2 DEF n
<1> QED
  BY <1>6, <1>7

LEMMA StaleStep ==
    ASSUME EngineInv, StaleLast, [Next]_vars
    PROVE  StaleLast'
<1> TypeOK /\ PlanInv
  BY DEF EngineInv
<1>1. CASE UNCHANGED <<tbl24, groups, quarantine>>
  BY <1>1 DEF StaleLast
<1>2. CASE SyncStep /\ PoolStep
  <2>1. pending # {} /\ tbl24' = tbl24
    BY <1>2 DEF SyncStep
  <2>2. \A b \in Blk : tbl24[b].kind = "group" =>
           \E g \in Group : tbl24[b] = fibw_group(g) /\ groups[b] = g
    BY <2>1 DEF PlanInv, PointersSound
  <2>3. \A b \in Blk : tbl24[b].kind = "group" =>
           groups[b] # NoGroup /\ groups[b] \in Group /\ tbl24[b].id = groups[b]
    BY <2>2, GroupWordType DEF Group, NoGroup
  <2>4. ASSUME NEW b \in Blk, Expands(b) PROVE StaleLast'
    <3>1. \A c \in Blk : tbl24[c].kind = "group" => groups'[c] # NoGroup
      BY <2>3, <2>4 DEF Expands, TypeOK
    <3> QED
      BY <2>1, <3>1 DEF StaleLast
  <2>5. ASSUME NEW b \in Blk, Collapses(b) PROVE StaleLast'
    <3>1. groups[b] \in Group /\ FreeGroup(groups[b])
      BY <2>5 DEF Collapses, TypeOK
    <3>2. \A c \in Blk : c # b => groups'[c] = groups[c]
      BY <2>5 DEF Collapses, TypeOK
    <3>3. QuarantineDepth > 0 =>
            Len(quarantine') > 0 /\ quarantine'[Len(quarantine')] = groups[b]
      BY <3>1, FreeMoves
    <3> QED
      BY <2>1, <2>3, <3>2, <3>3 DEF StaleLast
  <2> QED
    BY <1>1, <1>2, <2>1, <2>4, <2>5 DEF PoolStep
<1>3. CASE ApplyWrite
  <2>1. groups' = groups /\ quarantine' = quarantine
    BY <1>3 DEF ApplyWrite, engineVars
  <2>2. \A b \in Blk : tbl24'[b] = tbl24[b] \/ tbl24'[b] = FinalWord(b)
    BY <1>3, StoreTbl24
  <2>3. \A b \in Blk : groups[b] = NoGroup => FinalWord(b).kind # "group"
    BY FinalWordType
  <2> QED
    BY <2>1, <2>2, <2>3 DEF StaleLast
<1> QED
  BY <1>1, <1>2, <1>3, StepKinds DEF SingleStep, BulkStep, vars

LEMMA FlatStep ==
    ASSUME EngineInv, Flat, [Next]_vars
    PROVE  Flat'
<1> TypeOK /\ PlanInv
  BY DEF EngineInv
<1>1. CASE tbl8' = tbl8
  BY <1>1 DEF Flat
<1>2. CASE ApplyWrite
  <2>1. \A b \in Blk, low \in Low : SlotWord(shadow, b, low).kind # "group"
    BY SlotWordType DEF TypeOK
  <2>2. CASE \E b \in Blk, low \in Low :
                tbl8' = [tbl8 EXCEPT ![<<groups[b], low>>] = SlotWord(shadow, b, low)]
    BY <2>1, <2>2 DEF Flat, TypeOK
  <2> QED
    BY <1>1, <1>2, <2>2, StoreEffect
<1> QED
  BY <1>1, <1>2, StepKinds DEF SingleStep, BulkStep, SyncStep, vars

\* What the lookups need of the engine holds of it.
LEMMA EngineFactsHold == Spec => []EngineFacts
<1>1. Init => Flat /\ StaleLast
  BY DEF Init, Flat, StaleLast, ZeroWord
<1>2. TypeOK /\ LongCountExact /\ PoolSound /\ PlanInv => EngineInv
  BY DEF EngineInv
<1>3. EngineInv => Settled
  BY IdleConverged DEF Settled, Idle
<1>4. EngineInv /\ Flat /\ StaleLast /\ [Next]_vars => Flat' /\ StaleLast'
  BY FlatStep, StaleStep
<1>5. EngineInv /\ Settled /\ Flat /\ StaleLast => EngineFacts
  BY DEF EngineFacts
<1> QED
  BY <1>1, <1>2, <1>3, <1>4, <1>5, TypesAndCounts, PoolIsSound, PlanIsSound, PTL DEF Spec

-----------------------------------------------------------------------------
(***************************************************************************)
(* A specification with readers is one of the engine.                      *)
(***************************************************************************)
LEMMA ReadersImplement == RSpec => Spec
<1>1. RInit => Init
  BY DEF RInit
<1>2. [RNext]_rvars => [Next]_vars
  BY DEF RNext, rvars, EngineStep, ReaderStep, BeginLookup, ReadTbl8, ReadDefault4, EndLookup
<1> QED
  BY <1>1, <1>2, PTL DEF RSpec, Spec

LEMMA PrevStep ==
    ASSUME EngineStep
    PROVE  /\ Idle' => prev' = [rib |-> shadow', bulk |-> FALSE]
           /\ ~Idle' /\ Idle => prev' = [rib |-> shadow, bulk |-> todo' # <<>>]
           /\ ~Idle' /\ ~Idle => prev' = prev
BY DEF EngineStep

LEMMA PrevSoundStep ==
    ASSUME EngineFacts, EngineFacts', PrevSound, EngineStep
    PROVE  PrevSound'
<1> /\ EngineInv /\ TypeOK /\ PlanInv /\ TypeOK' /\ Settled /\ Settled'
    /\ shadow \in Rib /\ shadow' \in Rib /\ Next
  BY DEF EngineFacts, EngineInv, TypeOK, EngineStep
<1>1. CASE Idle'
  <2>1. prev'.rib = shadow' /\ prev'.bulk = FALSE
    BY <1>1, PrevStep
  <2>2. todo' = <<>> /\ plan' = <<>> /\ DOMAIN plan' = {} /\ pending' = {}
    BY <1>1 DEF Idle
  <2>3. /\ \A b \in Blk, low \in Low : Resolve(b, low)' = SlotWord(shadow', b, low)
        /\ default4' = DefaultWord(shadow')
    BY <1>1 DEF Settled
  <2> QED
    BY <2>1, <2>2, <2>3 DEF PrevSound, Apart
<1>2. CASE ~Idle' /\ SingleStep
  <2>1. Idle /\ todo' = <<>> /\ UNCHANGED <<tbl24, tbl8, default4>>
    BY <1>2 DEF SingleStep
  <2>2. prev'.rib = shadow /\ prev'.bulk = FALSE
    <3>1. prev' = [rib |-> shadow, bulk |-> todo' # <<>>]
      BY <1>2, <2>1, PrevStep
    <3>2. (todo' # <<>>) = FALSE
      BY <2>1
    <3> QED
      BY <3>1, <3>2, Zenon
  <2>3. /\ \A b \in Blk, low \in Low : Resolve(b, low)' = SlotWord(shadow, b, low)
        /\ default4' = DefaultWord(shadow)
    BY <2>1 DEF Settled, Resolve
  <2> QED
    BY <1>2, <2>1, <2>2, <2>3 DEF PrevSound, SingleStep
<1>3. CASE ~Idle' /\ BulkStep
  <2>1. \A b \in Blk, low \in Low : Resolve(b, low)' = Resolve(b, low)
    BY <1>3 DEF BulkStep, Resolve
  <2>2. CASE Idle /\ todo' # <<>>
    <3>1. prev'.rib = shadow /\ prev'.bulk = TRUE
      <4>1. prev' = [rib |-> shadow, bulk |-> todo' # <<>>]
        BY <1>3, <2>2, PrevStep
      <4>2. (todo' # <<>>) = TRUE
        BY <2>2
      <4> QED
        BY <4>1, <4>2, Zenon
    <3>2. \A b \in Blk, low \in Low : Resolve(b, low)' = SlotWord(shadow, b, low)
      BY <2>1, <2>2 DEF Settled
    <3> QED
      BY <1>3, <2>2, <3>1, <3>2 DEF PrevSound
  <2>3. CASE todo # <<>>
    <3>1. prev' = prev
      BY <1>3, <2>3, PrevStep DEF Idle
    <3> QED
      BY <1>3, <2>1, <2>3, <3>1 DEF PrevSound
  <2> QED
    BY <1>3, <2>2, <2>3 DEF BulkStep
<1>4. CASE ~Idle' /\ SyncStep
  <2>1. ~Idle /\ pending # {} /\ todo' = <<>> /\ shadow' = shadow /\ default4' = default4
    BY <1>4 DEF SyncStep, Idle
  <2>2. prev' = prev
    BY <1>4, <2>1, PrevStep
  <2>3. \A b \in Blk, low \in Low : Resolve(b, low)' = Resolve(b, low)
    BY <1>4 DEF SyncStep, Resolve
  <2>4. \A i \in DOMAIN plan' : plan'[i].tab = "default" => \E j \in DOMAIN plan : plan'[i] = plan[j]
    BY <1>4 DEF SyncStep
  <2>5. ~prev.bulk => \A i \in DOMAIN plan' : plan'[i].tab = "default" =>
                         plan'[i].word = DefaultWord(shadow')
    BY <2>1, <2>4 DEF PrevSound
  <2> QED
    BY <1>4, <2>1, <2>2, <2>3, <2>5 DEF PrevSound
<1>5. CASE ~Idle' /\ ApplyWrite
  <2>1. /\ ~Idle /\ todo' = <<>> /\ pending' = {} /\ shadow' = shadow
    BY <1>5 DEF ApplyWrite, Idle, engineVars
  <2>2. prev' = prev
    BY <1>5, <2>1, PrevStep
  <2>3. \A b \in Blk, low \in Low : \/ Resolve(b, low)' = Resolve(b, low)
                                    \/ Resolve(b, low)' = SlotWord(shadow', b, low)
    BY <1>5, <2>1, StoreMovesToTarget
  <2>4. 1 \in DOMAIN plan /\ \A i \in DOMAIN plan' : i + 1 \in DOMAIN plan /\ plan'[i] = plan[i + 1]
    BY <1>5, TailPlan
  <2>5. default4' = default4 \/ (plan[1].tab = "default" /\ default4' = plan[1].word)
    BY <1>5, StoreEffect
  <2>6. ~prev.bulk => /\ default4' \in {DefaultWord(prev.rib), DefaultWord(shadow')}
                      /\ \A i \in DOMAIN plan' : plan'[i].tab = "default" =>
                            plan'[i].word = DefaultWord(shadow')
    BY <2>1, <2>4, <2>5 DEF PrevSound
  <2> QED
    BY <1>5, <2>1, <2>2, <2>3, <2>6 DEF PrevSound
<1> QED
  <2>1. CASE Idle /\ UNCHANGED vars
    BY <1>1, <2>1 DEF vars, Idle
  <2> QED
    BY <1>1, <1>2, <1>3, <1>4, <1>5, <2>1, StepKinds

\* The call that is running has got no further than its own change.
LEMMA PrevIsSound == RSpec => []PrevSound
<1>1. RInit /\ EngineFacts => PrevSound
  <2> SUFFICES ASSUME RInit, EngineFacts PROVE PrevSound
    OBVIOUS
  <2>1. Idle /\ prev = [rib |-> shadow, bulk |-> FALSE] /\ shadow \in Rib
    BY DEF RInit, Init, Idle, EngineFacts, EngineInv, TypeOK
  <2>2. todo = <<>> /\ DOMAIN plan = {} /\ prev.rib = shadow /\ prev.bulk = FALSE
    BY <2>1 DEF Idle
  <2> QED
    BY <2>1, <2>2 DEF PrevSound, EngineFacts, Settled, Apart
<1>2. EngineFacts /\ EngineFacts' /\ PrevSound /\ [RNext]_rvars => PrevSound'
  <2> SUFFICES ASSUME EngineFacts, EngineFacts', PrevSound, [RNext]_rvars PROVE PrevSound'
    OBVIOUS
  <2>1. CASE EngineStep
    BY <2>1, PrevSoundStep
  <2>2. CASE UNCHANGED <<vars, prev>>
    BY <2>2 DEF PrevSound, vars, Idle, Resolve
  <2> QED
    BY <2>1, <2>2 DEF RNext, rvars, ReaderStep, BeginLookup, ReadTbl8, ReadDefault4, EndLookup
<1> QED
  BY <1>1, <1>2, EngineFactsHold, ReadersImplement, PTL DEF RSpec

-----------------------------------------------------------------------------
(***************************************************************************)
(* Lookups.                                                                *)
(***************************************************************************)

\* The longest match is the slot word, or where there is none the default.
LEMMA LookupSplit ==
    ASSUME NEW rib \in Rib, NEW a \in Addr
    PROVE  /\ Lookup(rib, a) = Best(SlotWord(rib, a[1], a[2]), DefaultWord(rib))
           /\ SlotWord(rib, a[1], a[2]) \in Word
           /\ Lookup(rib, a) \in Word
           /\ DefaultWord(rib) \in Word
<1> DEFINE H == Hits(rib, a, 0..W)
           S == Hits(rib, a, 1..W)
           d == << <<0, 0>>, 0 >>
<1>1. a[1] \in Blk /\ a[2] \in Low /\ a = <<a[1], a[2]>>
  BY DEF Addr
<1>2. 0..W \subseteq Lens /\ 1..W \subseteq Lens /\ W \in Nat
  BY LensFacts DEF Lens
<1>3. Key(a, 0) = d
  BY DefaultKey
<1>4. /\ S = H \ {0} /\ H \in SUBSET (0..W) /\ S \in SUBSET (0..W)
      /\ 0 \in H <=> rib[d] # NoEntry
  BY <1>2, <1>3 DEF Hits, Key
<1>5. d \in Prefix
  <2>1. 0 \in Lens
    BY LensFacts DEF Lens
  <2> QED
    BY <1>3, <2>1, MaskType DEF Key, Prefix
<1>6. DefaultWord(rib) \in Word
  <2>1. rib[d] = NoEntry \/ rib[d] \in Entry
    BY <1>5 DEF Rib
  <2> QED
    BY <2>1, EntryWordType, WriteTypes DEF DefaultWord
<1>7. SlotWord(rib, a[1], a[2]) = FirstHitWord(rib, a, 1..W)
  BY <1>1 DEF SlotWord
<1>8. FirstHitWord(rib, a, 1..W) \in Word /\ FirstHitWord(rib, a, 0..W) \in Word
  BY <1>2, FirstHitType
<1>9. CASE S # {}
  <2>1. H # {} /\ Max(S) \in S /\ Max(H) \in H
        /\ (\A y \in S : y <= Max(S)) /\ (\A y \in H : y <= Max(H))
    BY <1>2, <1>4, <1>9, MaxExists
  <2>2. Max(S) = Max(H)
    <3> DEFINE m == Max(S)
               n == Max(H)
    <3>1. m \in H /\ m \in 1..W /\ n \in 0..W
      BY <1>4, <2>1 DEF Hits
    <3>2. m <= n
      BY <2>1, <3>1
    <3>3. n \in S
      BY <1>4, <2>1, <3>1, <3>2
    <3>4. n <= m
      BY <2>1, <3>3
    <3> HIDE DEF m, n
    <3>5. m = n
      BY <3>1, <3>2, <3>4
    <3> QED
      BY <3>5 DEF m, n
  <2>3. FirstHitWord(rib, a, 0..W) = FirstHitWord(rib, a, 1..W)
    BY <1>9, <2>1, <2>2 DEF FirstHitWord
  <2>4. FirstHitWord(rib, a, 1..W).kind = "entry"
    BY <1>2, <1>9, HitFacts, EntryWordType DEF FirstHitWord
  <2> QED
    BY <1>6, <1>7, <1>8, <2>3, <2>4 DEF Lookup, Best
<1>10. CASE S = {}
  <2>1. FirstHitWord(rib, a, 1..W) = ZeroWord /\ ZeroWord.kind = "none"
    BY <1>10 DEF FirstHitWord, ZeroWord
  <2>2. CASE rib[d] = NoEntry
    <3>1. H = {}
      BY <1>4, <1>10, <2>2
    <3> QED
      BY <1>6, <1>7, <1>8, <2>1, <2>2, <3>1 DEF Lookup, Best, FirstHitWord, DefaultWord
  <2>3. CASE rib[d] # NoEntry
    <3>1. H = {0}
      BY <1>4, <1>10, <2>3
    <3>2. Max(H) = 0
      BY <1>2, <1>4, <3>1, MaxExists
    <3>3. FirstHitWord(rib, a, 0..W) = fibw_entry(rib[<<Mask(a, Max(H)), Max(H)>>])
      BY <3>1 DEF FirstHitWord
    <3>4. <<Mask(a, Max(H)), Max(H)>> = d
      BY <1>3, <3>2 DEF Key
    <3>5. FirstHitWord(rib, a, 0..W) = fibw_entry(rib[d])
      BY <3>3, <3>4
    <3> QED
      BY <1>6, <1>7, <1>8, <2>1, <2>3, <3>5 DEF Lookup, Best, DefaultWord
  <2> QED
    BY <2>2, <2>3
<1> QED
  BY <1>9, <1>10

\* What a step of the engine does to a lookup in progress, field by field.
LEMMA OverlapFields ==
    ASSUME NEW r \in Readers, rd[r] \in LookupState, EngineStep, Active(r)
    PROVE  LET l == rd[r]
               m == rd'[r]
               pushed == \E b \in Blk : groups[b] # NoGroup /\ groups'[b] = NoGroup
           IN  /\ m.pc = l.pc /\ m.dst = l.dst /\ m.slot = l.slot /\ m.answer = l.answer
               /\ m.slots = l.slots \cup {SlotWord(shadow', l.dst[1], l.dst[2])}
               /\ m.answers = l.answers \cup {Lookup(shadow', l.dst)}
               /\ m.updates = IF todo # <<>> THEN UpdatesCap
                              ELSE IF shadow' # shadow /\ l.updates < UpdatesCap
                                   THEN l.updates + 1 ELSE l.updates
               /\ m.stolen = (l.stolen \/ (InTbl8(r) /\ \E b \in Blk \ {l.dst[1]} :
                                                           groups'[b] = l.slot.id))
               /\ m.squeezed = (l.squeezed \/ (free = <<>> /\ quarantine' # quarantine
                                                /\ groups' # groups /\ ~pushed))
               /\ m.frees = IF InTbl8(r) /\ pushed /\ l.frees < FreesCap
                            THEN l.frees + 1 ELSE l.frees
               /\ m = [pc |-> m.pc, dst |-> m.dst, slot |-> m.slot, answer |-> m.answer,
                       slots |-> m.slots, answers |-> m.answers, updates |-> m.updates,
                       stolen |-> m.stolen, squeezed |-> m.squeezed, frees |-> m.frees]
<1>1. rd'[r] = Overlapped(r)
  BY DEF EngineStep
<1> QED
  BY <1>1 DEF Overlapped, LookupState

LEMMA OverlapType ==
    ASSUME NEW r \in Readers, rd[r] \in LookupState, EngineStep, Active(r), shadow' \in Rib
    PROVE  rd'[r] \in LookupState
<1> DEFINE l == rd[r]
           m == rd'[r]
<1>1. l.dst \in Addr /\ l.slots \in SUBSET Word /\ l.answers \in SUBSET Word
  BY DEF LookupState
<1>2. m.slots \in SUBSET Word /\ m.answers \in SUBSET Word
  <2>1. /\ m.slots = l.slots \cup {SlotWord(shadow', l.dst[1], l.dst[2])}
        /\ m.answers = l.answers \cup {Lookup(shadow', l.dst)}
    BY OverlapFields
  <2>2. SlotWord(shadow', l.dst[1], l.dst[2]) \in Word /\ Lookup(shadow', l.dst) \in Word
    BY <1>1, LookupSplit
  <2> QED
    BY <1>1, <2>1, <2>2
<1>3. m.updates \in 0..UpdatesCap
  <2>1. \/ m.updates = UpdatesCap \/ m.updates = l.updates
        \/ l.updates < UpdatesCap /\ m.updates = l.updates + 1
    BY OverlapFields
  <2>2. l.updates \in 0..UpdatesCap
    BY DEF LookupState
  <2> HIDE DEF l, m
  <2> QED
    BY <2>1, <2>2 DEF UpdatesCap
<1>4. m.frees \in 0..FreesCap
  <2>1. m.frees = l.frees \/ (l.frees < FreesCap /\ m.frees = l.frees + 1)
    BY OverlapFields
  <2>2. l.frees \in 0..FreesCap
    BY DEF LookupState
  <2> HIDE DEF l, m
  <2> QED
    BY <2>1, <2>2, DepthAssumption DEF FreesCap
<1>5. m.stolen \in BOOLEAN /\ m.squeezed \in BOOLEAN
  BY OverlapFields, Zenon
<1>6. /\ m.pc \in {"idle", "tbl8", "default", "done"} /\ m.dst \in Addr
      /\ m.slot \in Word /\ m.answer \in Word
  BY OverlapFields DEF LookupState
<1>7. m = [pc |-> m.pc, dst |-> m.dst, slot |-> m.slot, answer |-> m.answer,
           slots |-> m.slots, answers |-> m.answers, updates |-> m.updates,
           stolen |-> m.stolen, squeezed |-> m.squeezed, frees |-> m.frees]
  BY OverlapFields
<1> HIDE DEF m
<1> QED
  BY <1>2, <1>3, <1>4, <1>5, <1>6, <1>7 DEF LookupState, m

\* The group a lookup is about to index does not leave the quarantine, the
\* pool not exhausted, before QuarantineDepth others have entered it.
LEMMA HeldStep ==
    ASSUME EngineFacts, EngineStep, NEW r \in Readers, rd[r] \in LookupState,
           InTbl8(r), rd[r].slot.id \in Group, Held(rd[r]), rd[r].frees < FreesCap,
           ~rd'[r].squeezed, rd'[r].frees < FreesCap
    PROVE  \/ groups'[rd[r].dst[1]] = rd[r].slot.id
           \/ \E i \in 1..Len(quarantine') :
                quarantine'[i] = rd[r].slot.id /\ Len(quarantine') - i <= rd'[r].frees
<1> DEFINE l == rd[r]
           m == rd'[r]
           x == l.slot.id
           pushed == \E b \in Blk : groups[b] # NoGroup /\ groups'[b] = NoGroup
           Kept == \/ groups'[l.dst[1]] = x
                   \/ \E i \in 1..Len(quarantine') :
                        quarantine'[i] = x /\ Len(quarantine') - i <= m.frees
<1> SUFFICES Kept
  OBVIOUS
<1>1. /\ TypeOK /\ Next /\ l.dst[1] \in Blk /\ l.frees \in Nat /\ x # NoGroup /\ x \in Group
      /\ Len(quarantine) \in Nat /\ Active(r)
  BY LenProperties, DepthAssumption
     DEF EngineFacts, EngineInv, EngineStep, LookupState, Addr, FreesCap, Group, NoGroup,
         TypeOK, InTbl8, Active
<1>2. m.frees = IF pushed THEN l.frees + 1 ELSE l.frees
  BY <1>1, OverlapFields DEF InTbl8
<1>3. ~(free = <<>> /\ quarantine' # quarantine /\ groups' # groups /\ ~pushed)
  BY <1>1, OverlapFields, Zenon
<1>4. m.frees \in Nat /\ l.frees <= m.frees
  BY <1>1, <1>2
<1>5. l.frees < QuarantineDepth /\ m.frees < QuarantineDepth /\ QuarantineDepth > 0
  BY <1>1, DepthAssumption DEF FreesCap
<1>6. \/ groups[l.dst[1]] = x
      \/ \E i \in 1..Len(quarantine) : quarantine[i] = x /\ Len(quarantine) - i <= l.frees
  BY DEF Held
<1> HIDE DEF pushed, l, m, x
<1>7. CASE UNCHANGED <<groups, quarantine>>
  BY <1>1, <1>4, <1>6, <1>7
<1>8. ASSUME NEW b \in Blk, Expands(b) PROVE Kept
  <2>1. groups[l.dst[1]] = x => groups'[l.dst[1]] = x
    BY <1>1, <1>8 DEF Expands, TypeOK
  <2>2. groups' # groups /\ ~pushed
    <3>1. PICK g \in Group : groups' = [groups EXCEPT ![b] = g] /\ groups[b] = NoGroup
      BY <1>8 DEF Expands
    <3>2. g # NoGroup /\ groups'[b] = g /\ \A c \in Blk : c # b => groups'[c] = groups[c]
      BY <1>1, <3>1 DEF TypeOK, Group, NoGroup
    <3> QED
      BY <3>1, <3>2 DEF pushed
  <2>3. quarantine' = quarantine
    <3> SUFFICES ASSUME quarantine' # quarantine PROVE FALSE
      OBVIOUS
    <3> QED
      BY <1>3, <1>8, <2>2 DEF Expands
  <2> QED
    BY <1>1, <1>4, <1>6, <2>1, <2>3
<1>9. ASSUME NEW b \in Blk, Collapses(b) PROVE Kept
  <2>1. /\ groups[b] \in Group /\ FreeGroup(groups[b])
        /\ \A c \in Blk : groups'[c] = IF c = b THEN NoGroup ELSE groups[c]
    BY <1>1, <1>9 DEF Collapses, TypeOK
  <2>2. pushed /\ m.frees = l.frees + 1
    BY <1>2, <1>9, <2>1 DEF pushed, Collapses
  <2>3. /\ Len(quarantine') > 0 /\ quarantine'[Len(quarantine')] = groups[b]
        /\ \A i \in 1..Len(quarantine) : Len(quarantine) - i + 1 < QuarantineDepth =>
              \E j \in 1..Len(quarantine') :
                 /\ quarantine'[j] = quarantine[i]
                 /\ Len(quarantine') - j = Len(quarantine) - i + 1
    BY <1>1, <1>5, <2>1, FreeMoves
  <2>4. Len(quarantine') \in Nat
    BY <1>9, <1>1, <2>1, AppendProperties, HeadTailProperties, LenProperties, EmptySeq
       DEF FreeGroup, TypeOK
  <2>5. CASE groups[l.dst[1]] = x /\ l.dst[1] = b
    <3>1. Len(quarantine') \in 1..Len(quarantine') /\ Len(quarantine') - Len(quarantine') <= m.frees
      BY <1>4, <2>3, <2>4
    <3> QED
      BY <2>3, <2>5, <3>1
  <2>6. CASE groups[l.dst[1]] = x /\ l.dst[1] # b
    BY <1>1, <2>1, <2>6
  <2>7. ASSUME NEW i \in 1..Len(quarantine), quarantine[i] = x, Len(quarantine) - i <= l.frees
        PROVE  Kept
    <3>1. Len(quarantine) - i + 1 <= m.frees /\ Len(quarantine) - i + 1 < QuarantineDepth
      BY <1>1, <1>5, <2>2, <2>7, DepthAssumption
    <3> QED
      BY <2>3, <2>7, <3>1
  <2> QED
    BY <1>6, <2>5, <2>6, <2>7
<1> QED
  BY <1>1, <1>7, <1>8, <1>9, StepKinds
     DEF SingleStep, BulkStep, PoolStep, ApplyWrite, engineVars, vars

LEMMA GraceStep ==
    ASSUME EngineFacts, EngineFacts', EngineStep, NEW r \in Readers,
           LookupSound(rd[r]), Active(r)
    PROVE  Grace(rd[r])'
<1> DEFINE l == rd[r]
           m == rd'[r]
<1>1. /\ l \in LookupState /\ Grace(l) /\ (l.pc = "tbl8" => l.slot.id \in Group)
      /\ l.dst[1] \in Blk
  BY DEF LookupSound, Regular, LookupState, Addr
<1>2. /\ m.pc = l.pc /\ m.dst = l.dst /\ m.slot = l.slot
      /\ l.frees <= m.frees /\ (l.frees >= FreesCap => m.frees >= FreesCap)
      /\ m.frees \in Nat /\ l.frees \in Nat /\ FreesCap \in Nat
  <2>1. /\ m.pc = l.pc /\ m.dst = l.dst /\ m.slot = l.slot
        /\ m.frees = l.frees \/ (l.frees < FreesCap /\ m.frees = l.frees + 1)
    BY <1>1, OverlapFields
  <2>2. l.frees \in 0..FreesCap
    BY <1>1 DEF LookupState
  <2> HIDE DEF l, m
  <2> QED
    BY <2>1, <2>2, DepthAssumption DEF FreesCap
<1>3. (l.squeezed => m.squeezed)
      /\ (m.stolen => l.stolen \/ (InTbl8(r) /\ \E b \in Blk \ {l.dst[1]} :
                                                   groups'[b] = l.slot.id))
  BY <1>1, OverlapFields, Zenon
<1>4. l.pc = "tbl8" /\ ~m.squeezed /\ m.frees < FreesCap => Held(l)
  <2> SUFFICES ASSUME l.pc = "tbl8", ~m.squeezed, m.frees < FreesCap PROVE Held(l)
    OBVIOUS
  <2>1. ~l.squeezed /\ l.frees < FreesCap
    BY <1>2, <1>3
  <2> QED
    BY <1>1, <2>1 DEF Grace
<1>5. l.pc = "tbl8" /\ ~m.squeezed /\ m.frees < FreesCap =>
        \/ groups'[l.dst[1]] = l.slot.id
        \/ \E i \in 1..Len(quarantine') :
             quarantine'[i] = l.slot.id /\ Len(quarantine') - i <= m.frees
  <2> SUFFICES ASSUME l.pc = "tbl8", ~m.squeezed, m.frees < FreesCap
               PROVE  \/ groups'[l.dst[1]] = l.slot.id
                      \/ \E i \in 1..Len(quarantine') :
                           quarantine'[i] = l.slot.id /\ Len(quarantine') - i <= m.frees
    OBVIOUS
  <2>1. l.frees < FreesCap /\ InTbl8(r)
    BY <1>2 DEF InTbl8
  <2> QED
    BY <1>1, <1>4, <2>1, HeldStep
<1>6. l.pc = "tbl8" /\ ~m.squeezed /\ m.frees < FreesCap =>
        ~ \E b \in Blk \ {l.dst[1]} : groups'[b] = l.slot.id
  <2> SUFFICES ASSUME l.pc = "tbl8", ~m.squeezed, m.frees < FreesCap,
                      NEW b \in Blk \ {l.dst[1]}, groups'[b] = l.slot.id
               PROVE  FALSE
    OBVIOUS
  <2>1. PoolSound' /\ groups'[b] # NoGroup /\ quarantine' \in Seq(Group)
    BY <1>1 DEF EngineFacts, EngineInv, Group, NoGroup, TypeOK
  <2>2. groups'[l.dst[1]] # l.slot.id
    BY <1>1, <2>1 DEF PoolSound
  <2>3. \A i \in 1..Len(quarantine') : quarantine'[i] # l.slot.id
    <3>1. DOMAIN quarantine' = 1..Len(quarantine')
      BY <2>1, LenProperties
    <3> QED
      BY <2>1, <3>1 DEF PoolSound, Range
  <2> QED
    BY <1>5, <2>2, <2>3
<1>7. m.stolen => m.squeezed \/ m.frees >= FreesCap
  <2> SUFFICES ASSUME m.stolen, ~m.squeezed, ~(m.frees >= FreesCap) PROVE FALSE
    OBVIOUS
  <2>1. m.frees < FreesCap /\ ~(l.frees >= FreesCap) /\ ~l.squeezed
    BY <1>2, <1>3
  <2>2. ~l.stolen
    BY <1>1, <2>1 DEF Grace
  <2> QED
    BY <1>3, <1>6, <2>1, <2>2 DEF InTbl8
<1> QED
  BY <1>2, <1>5, <1>7 DEF Grace, Held, FreesCap

\* A store into the group a lookup is about to index either belongs to the
\* lookup's own block, and is then its new longest match, or shows the group
\* to have changed hands.
LEMMA RegularStep ==
    ASSUME EngineFacts, EngineFacts', EngineStep, NEW r \in Readers,
           LookupSound(rd[r]), Active(r)
    PROVE  Regular(rd[r])'
<1> DEFINE l == rd[r]
           m == rd'[r]
           t == SlotWord(shadow', l.dst[1], l.dst[2])
<1>1. /\ l \in LookupState /\ Regular(l)
      /\ l.dst \in Addr /\ l.dst[1] \in Blk /\ l.dst[2] \in Low
      /\ TypeOK /\ PlanInv /\ Next /\ shadow' \in Rib
  BY DEF LookupSound, LookupState, Addr, EngineFacts, EngineInv, TypeOK, EngineStep
<1>2. /\ m.pc = l.pc /\ m.dst = l.dst /\ m.slot = l.slot
      /\ m.slots = l.slots \cup {t} /\ m.answers = l.answers \cup {Lookup(shadow', l.dst)}
  BY <1>1, OverlapFields
<1>3. /\ l.stolen => m.stolen
      /\ ~m.stolen /\ l.pc = "tbl8" =>
            \A b \in Blk \ {l.dst[1]} : groups'[b] # l.slot.id
  <2>1. m.stolen = (l.stolen \/ (InTbl8(r) /\ \E b \in Blk \ {l.dst[1]} :
                                                groups'[b] = l.slot.id))
    BY <1>1, OverlapFields
  <2> HIDE DEF m
  <2> QED
    BY <2>1, Zenon DEF InTbl8
<1>4. \A w \in m.slots : w.kind = "entry" => w \in m.answers
  <2>1. t.kind = "entry" => t = Lookup(shadow', l.dst)
    BY <1>1, LookupSplit DEF Best
  <2>2. \A w \in l.slots : w.kind = "entry" => w \in l.answers
    BY <1>1 DEF Regular
  <2> HIDE DEF l, m, t
  <2> QED
    BY <1>2, <2>1, <2>2
<1>5. ASSUME l.pc = "tbl8", ~m.stolen
      PROVE  tbl8'[<<l.slot.id, l.dst[2]>>] \in m.slots
  <2> DEFINE s == <<l.slot.id, l.dst[2]>>
  <2>1. tbl8[s] \in l.slots /\ l.slot.id \in Group
    BY <1>1, <1>3, <1>5 DEF Regular
  <2>2. CASE tbl8'[s] = tbl8[s]
    BY <1>2, <2>1, <2>2
  <2>3. CASE ApplyWrite
    <3>1. groups' = groups /\ shadow' = shadow
      BY <2>3 DEF ApplyWrite, engineVars
    <3>2. ASSUME NEW b \in Blk, NEW low \in Low, groups[b] # NoGroup,
                 tbl8' = [tbl8 EXCEPT ![<<groups[b], low>>] = SlotWord(shadow, b, low)]
          PROVE  tbl8'[s] \in m.slots
      <4>1. CASE s = <<groups[b], low>>
        <5>1. groups'[b] = l.slot.id /\ low = l.dst[2]
          BY <3>1, <4>1
        <5>2. b = l.dst[1]
          BY <1>3, <1>5, <5>1
        <5>3. s \in Group \X Low
          BY <1>1, <2>1
        <5>4. tbl8'[s] = t
          BY <1>1, <3>1, <3>2, <4>1, <5>1, <5>2, <5>3 DEF TypeOK
        <5> QED
          BY <1>2, <5>4
      <4>2. CASE s # <<groups[b], low>>
        <5>1. s \in Group \X Low
          BY <1>1, <2>1
        <5>2. tbl8'[s] = tbl8[s]
          BY <1>1, <3>2, <4>2, <5>1 DEF TypeOK
        <5> QED
          BY <2>2, <5>2
      <4> QED
        BY <4>1, <4>2
    <3> QED
      BY <1>1, <2>2, <2>3, <3>2, StoreEffect
  <2> QED
    BY <1>1, <2>2, <2>3, StepKinds DEF SingleStep, BulkStep, SyncStep, vars
<1>6. m.pc = "tbl8" => m.slot.id \in Group
  BY <1>1, <1>2 DEF Regular
<1>7. m.pc = "default" => m.slot.kind = "none"
  BY <1>1, <1>2 DEF Regular
<1>8. m.pc \in {"default", "done"} /\ ~m.stolen => m.slot \in m.slots
  BY <1>1, <1>2, <1>3 DEF Regular
<1>9. m.pc = "tbl8" /\ ~m.stolen => tbl8'[<<m.slot.id, m.dst[2]>>] \in m.slots
  BY <1>2, <1>5
<1> HIDE DEF m
<1> QED
  BY <1>4, <1>6, <1>7, <1>8, <1>9 DEF Regular, m

\* A lookup that still counts at most one update has two route sets behind it,
\* one route apart, the later of them the shadow.
LEMMA AtomicStep ==
    ASSUME EngineFacts, EngineFacts', PrevSound, EngineStep, NEW r \in Readers,
           LookupSound(rd[r]), Active(r)
    PROVE  Atomic(rd[r])'
<1> DEFINE l == rd[r]
           m == rd'[r]
           t == SlotWord(shadow, l.dst[1], l.dst[2])
           u == SlotWord(shadow', l.dst[1], l.dst[2])
           D == DefaultWord(shadow)
           E == DefaultWord(shadow')
<1>1. /\ l \in LookupState /\ Atomic(l) /\ l.pc \in {"tbl8", "default"}
      /\ l.dst \in Addr /\ l.dst[1] \in Blk /\ l.dst[2] \in Low
      /\ TypeOK /\ PlanInv /\ Next /\ shadow' \in Rib /\ shadow \in Rib
  BY DEF LookupSound, LookupState, Addr, EngineFacts, EngineInv, TypeOK, EngineStep, Active
<1>2. /\ m.pc = l.pc /\ m.dst = l.dst
      /\ m.slots = l.slots \cup {u} /\ m.answers = l.answers \cup {Lookup(shadow', l.dst)}
      /\ m.updates = IF todo # <<>> THEN UpdatesCap
                     ELSE IF shadow' # shadow /\ l.updates < UpdatesCap
                          THEN l.updates + 1 ELSE l.updates
  BY <1>1, OverlapFields
<1>3. Lookup(shadow', l.dst) = Best(u, E) /\ t \in Word /\ u \in Word /\ D \in Word /\ E \in Word
  BY <1>1, LookupSplit
<1>4. l.updates \in 0..2
  BY <1>1 DEF LookupState, UpdatesCap
<1> SUFFICES ASSUME m.updates <= 1 PROVE Narrow(rd[r])'
  BY <1>1, <1>2 DEF Atomic
<1> HIDE DEF m
<1>5. todo = <<>> /\ l.updates <= 1 /\ (shadow' # shadow => l.updates = 0 /\ m.updates = 1)
      /\ (shadow' = shadow => m.updates = l.updates)
  BY <1>2, <1>4 DEF UpdatesCap
<1>6. Narrow(l)
  BY <1>1, <1>5 DEF Atomic
<1>7. ~prev.bulk
  BY <1>5, <1>6 DEF Narrow
<1>8. PICK s \in Word, d \in Word :
         /\ l.slots = {s, t}
         /\ l.answers = {Best(s, d), Best(t, D)}
         /\ default4 \in {d, D}
         /\ d = D \/ s = t
         /\ l.updates = 0 => d = D /\ s = t
  BY <1>6 DEF Narrow
<1> HIDE DEF l, t, u, D, E
<1>9. default4' = default4 \/ (default4' = E /\ shadow' = shadow)
  <2>1. CASE ApplyWrite
    <3>1. default4' = default4 \/ (plan[1].tab = "default" /\ default4' = plan[1].word)
      BY <1>1, <2>1, StoreEffect
    <3>2. 1 \in DOMAIN plan
      BY <1>1, <2>1, TailPlan
    <3>3. shadow' = shadow
      BY <2>1 DEF ApplyWrite, engineVars
    <3> QED
      BY <1>7, <3>1, <3>2, <3>3 DEF PrevSound, E
  <2> QED
    BY <1>1, <2>1, StepKinds DEF SingleStep, BulkStep, SyncStep, vars
<1>10. prev'.bulk => todo' # <<>>
  <2>1. CASE Idle'
    BY <2>1, PrevStep
  <2>2. CASE ~Idle' /\ Idle
    <3>1. prev' = [rib |-> shadow, bulk |-> todo' # <<>>]
      BY <2>2, PrevStep
    <3> QED
      BY <3>1, Zenon
  <2>3. CASE ~Idle' /\ ~Idle
    BY <1>7, <2>3, PrevStep
  <2> QED
    BY <2>1, <2>2, <2>3
<1>11. CASE shadow' = shadow
  <2>1. u = t /\ E = D
    BY <1>11 DEF u, t, E, D
  <2>2. m.slots = {s, u} /\ m.answers = {Best(s, d), Best(u, E)}
    BY <1>2, <1>3, <1>8, <2>1
  <2>3. default4' \in {d, E} /\ (d = E \/ s = u) /\ (m.updates = 0 => d = E /\ s = u)
    BY <1>5, <1>8, <1>9, <1>11, <2>1
  <2> QED
    BY <1>2, <1>10, <2>2, <2>3 DEF Narrow, u, E, m
<1>12. CASE shadow' # shadow
  <2>1. SingleStep
    BY <1>1, <1>5, <1>12, StepKinds DEF BulkStep, SyncStep, ApplyWrite, engineVars, vars
  <2>2. D = E \/ t = u
    BY <1>1, <2>1 DEF SingleStep, Apart, t, u, D, E
  <2>3. m.slots = {t, u} /\ m.answers = {Best(t, D), Best(u, E)}
    BY <1>2, <1>3, <1>5, <1>8, <1>12
  <2>4. default4' \in {D, E} /\ m.updates # 0
    BY <1>5, <1>8, <1>9, <1>12
  <2> QED
    BY <1>2, <1>3, <1>10, <2>2, <2>3, <2>4 DEF Narrow, u, E, m
<1> QED
  BY <1>11, <1>12

\* A lookup that is not in progress is left alone.
LEMMA IdleLookupStep ==
    ASSUME EngineStep, NEW r \in Readers, LookupSound(rd[r]), ~Active(r)
    PROVE  LookupSound(rd[r])'
<1>1. rd'[r] = rd[r]
  BY DEF EngineStep, Overlapped
<1>2. rd[r].pc # "tbl8" /\ rd[r].pc # "default"
  BY DEF Active
<1> QED
  BY <1>1, <1>2 DEF LookupSound, Grace, Regular, Atomic, LookupState, UpdatesCap, FreesCap

LEMMA OverlapSound ==
    ASSUME EngineFacts, EngineFacts', PrevSound, EngineStep, NEW r \in Readers,
           LookupSound(rd[r])
    PROVE  LookupSound(rd[r])'
<1>1. CASE Active(r)
  <2>1. rd[r] \in LookupState /\ shadow' \in Rib
    BY DEF LookupSound, EngineFacts, EngineInv, TypeOK
  <2>2. rd'[r] \in LookupState
    BY <1>1, <2>1, OverlapType
  <2>3. (rd[r] \in LookupState)'
    BY <2>2 DEF LookupState, UpdatesCap, FreesCap
  <2> QED
    BY <1>1, <2>3, GraceStep, RegularStep, AtomicStep DEF LookupSound
<1> QED
  BY <1>1, IdleLookupStep

-----------------------------------------------------------------------------
(***************************************************************************)
(* The loads.                                                              *)
(***************************************************************************)
LEMMA AfterSlotFields ==
    ASSUME NEW l \in LookupState, NEW w \in Word
    PROVE  LET m == AfterSlot(l, w)
           IN  /\ m \in LookupState
               /\ m.slot = w /\ m.dst = l.dst /\ m.slots = l.slots /\ m.answers = l.answers
               /\ m.updates = l.updates /\ m.stolen = l.stolen
               /\ m.squeezed = l.squeezed /\ m.frees = l.frees
               /\ w.kind = "group" => m.pc = "tbl8"
               /\ w.kind = "none" => m.pc = "default"
               /\ w.kind = "entry" => m.pc = "done" /\ m.answer = w
               /\ m.pc = "tbl8" <=> w.kind = "group"
               /\ m.pc = "default" <=> w.kind = "none"
               /\ m.pc = "done" <=> w.kind = "entry"
<1>1. w.kind \in {"group", "none", "entry"}
  BY DEF Word
<1>2. CASE w.kind = "group"
  BY <1>2 DEF AfterSlot, LookupState
<1>3. CASE w.kind = "none"
  BY <1>3 DEF AfterSlot, LookupState
<1>4. CASE w.kind = "entry"
  BY <1>4 DEF AfterSlot, LookupState
<1> QED
  BY <1>1, <1>2, <1>3, <1>4

LEMMA NoLookupSound == LookupSound(NoLookup)
<1>1. <<0, 0>> \in Addr
  BY LensFacts DEF Addr, Blk, Low
<1>2. NoLookup \in LookupState
  BY <1>1, DepthAssumption DEF NoLookup, LookupState, UpdatesCap, FreesCap, ZeroWord, Word
<1>3. /\ NoLookup.pc = "idle" /\ NoLookup.stolen = FALSE
      /\ NoLookup.slots = {} /\ NoLookup.answers = {}
  BY DEF NoLookup
<1> QED
  BY <1>2, <1>3 DEF LookupSound, Grace, Regular, Atomic

\* A pointer in TBL24 names a group that its block owns, or that was freed
\* last.
LEMMA PointerHeld ==
    ASSUME EngineFacts, NEW b \in Blk, tbl24[b].kind = "group", QuarantineDepth > 0
    PROVE  \/ groups[b] = tbl24[b].id
           \/ /\ Len(quarantine) \in 1..Len(quarantine)
              /\ quarantine[Len(quarantine)] = tbl24[b].id
              /\ Len(quarantine) \in Nat
<1> TypeOK /\ PlanInv /\ StaleLast
  BY DEF EngineFacts, EngineInv
<1>1. PICK g \in Group : /\ tbl24[b] = fibw_group(g)
                         /\ groups[b] = g \/ groups[b] = NoGroup
  BY DEF PlanInv, PointersSound
<1>2. tbl24[b].id = g
  BY <1>1, GroupWordType
<1>3. Len(quarantine) \in Nat
  BY LenProperties DEF TypeOK
<1>4. CASE groups[b] = NoGroup
  BY <1>3, <1>4 DEF StaleLast
<1> QED
  BY <1>1, <1>2, <1>4

LEMMA BeginSound ==
    ASSUME EngineFacts, PrevSound, NEW a \in Addr, NEW l \in LookupState, l.dst = a,
           l.slots = {SlotWord(s, a[1], a[2]) : s \in {prev.rib, shadow}},
           l.answers = {Lookup(s, a) : s \in {prev.rib, shadow}},
           l.updates = IF Idle THEN 0 ELSE IF prev.bulk THEN UpdatesCap ELSE 1,
           ~l.stolen, ~l.squeezed, l.frees = 0
    PROVE  LookupSound(AfterSlot(l, tbl24[a[1]]))
<1> DEFINE w == tbl24[a[1]]
           m == AfterSlot(l, w)
           s == SlotWord(prev.rib, a[1], a[2])
           t == SlotWord(shadow, a[1], a[2])
           d == DefaultWord(prev.rib)
           D == DefaultWord(shadow)
<1>1. /\ TypeOK /\ PlanInv /\ Settled /\ a[1] \in Blk /\ a[2] \in Low
      /\ prev.rib \in Rib /\ shadow \in Rib /\ w \in Word
  BY DEF EngineFacts, EngineInv, TypeOK, PrevSound, Addr
<1>2. /\ Lookup(prev.rib, a) = Best(s, d) /\ Lookup(shadow, a) = Best(t, D)
      /\ s \in Word /\ t \in Word /\ d \in Word /\ D \in Word
  BY <1>1, LookupSplit
<1>3. /\ l.dst = a /\ l.slots = {s, t} /\ l.answers = {Best(s, d), Best(t, D)}
      /\ l.updates = IF Idle THEN 0 ELSE IF prev.bulk THEN UpdatesCap ELSE 1
      /\ ~l.stolen /\ ~l.squeezed /\ l.frees = 0
  BY <1>2
<1>4. l \in LookupState
  OBVIOUS
<1>5. /\ m \in LookupState
      /\ m.slot = w /\ m.dst = l.dst /\ m.slots = l.slots /\ m.answers = l.answers
      /\ m.updates = l.updates /\ m.stolen = l.stolen
      /\ m.squeezed = l.squeezed /\ m.frees = l.frees
      /\ w.kind = "entry" => m.answer = w
      /\ m.pc = "tbl8" <=> w.kind = "group"
      /\ m.pc = "default" <=> w.kind = "none"
      /\ m.pc = "done" <=> w.kind = "entry"
  BY <1>1, <1>4, AfterSlotFields
<1> HIDE DEF m, w, s, t, d, D
<1>6. Grace(m)
  <2>1. ~m.stolen
    BY <1>3, <1>5
  <2>2. ASSUME m.pc = "tbl8", m.frees < FreesCap PROVE Held(m)
    <3>1. QuarantineDepth > 0 /\ w.kind = "group"
      BY <1>3, <1>5, <2>2, DepthAssumption DEF FreesCap
    <3>2. \/ groups[a[1]] = w.id
          \/ /\ Len(quarantine) \in 1..Len(quarantine)
             /\ quarantine[Len(quarantine)] = w.id
             /\ Len(quarantine) \in Nat
      BY <1>1, <3>1, PointerHeld DEF w
    <3>3. m.dst[1] = a[1] /\ m.slot.id = w.id /\ m.frees = 0
      BY <1>3, <1>5
    <3> QED
      BY <3>2, <3>3 DEF Held
  <2> QED
    BY <2>1, <2>2 DEF Grace
<1>7. \A x \in m.slots : x.kind = "entry" => x \in m.answers
  BY <1>3, <1>5 DEF Best
<1>8. Regular(m)
  <2>1. w.kind = "group" => w.id \in Group
    BY <1>1, GroupWordType DEF PlanInv, PointersSound, w
  <2>2. Resolve(a[1], a[2]) \in {s, t}
    BY <1>1 DEF PrevSound, s, t
  <2>3. w.kind = "group" => tbl8[<<w.id, a[2]>>] \in {s, t}
    BY <2>2 DEF Resolve, w
  <2>4. w.kind # "group" => w \in {s, t}
    BY <2>2 DEF Resolve, w
  <2>5. m.pc = "tbl8" => m.slot.id \in Group /\ tbl8[<<m.slot.id, m.dst[2]>>] \in m.slots
    BY <1>3, <1>5, <2>1, <2>3
  <2>6. m.pc = "default" => m.slot.kind = "none"
    BY <1>5
  <2>7. m.pc \in {"default", "done"} => m.slot \in m.slots
    BY <1>3, <1>5, <2>4
  <2> QED
    BY <1>7, <2>5, <2>6, <2>7 DEF Regular
<1>9. Atomic(m)
  <2>1. ASSUME m.updates <= 1 PROVE Narrow(m)
    <3>1. Idle \/ ~prev.bulk
      BY <1>3, <1>5, <2>1 DEF UpdatesCap
    <3>2. ~prev.bulk /\ Apart(prev.rib, shadow) /\ default4 \in {d, D}
      BY <3>1 DEF PrevSound, d, D
    <3>3. d = D \/ s = t
      BY <1>1, <3>2 DEF Apart, d, D, s, t
    <3>4. m.updates = 0 => d = D /\ s = t
      <4>1. m.updates = 0 => Idle
        BY <1>3, <1>5 DEF UpdatesCap
      <4>2. Idle => prev.rib = shadow
        BY DEF PrevSound
      <4> QED
        BY <4>1, <4>2 DEF d, D, s, t
    <3>5. t = SlotWord(shadow, m.dst[1], m.dst[2])
      BY <1>3, <1>5 DEF t
    <3> QED
      BY <1>2, <1>3, <1>5, <3>2, <3>3, <3>4, <3>5 DEF Narrow, D
  <2>2. m.pc = "done" => m.answer \in m.answers
    <3> SUFFICES ASSUME m.pc = "done" PROVE m.answer \in m.answers
      OBVIOUS
    <3>1. w.kind = "entry" /\ m.answer = w /\ m.slot = w
      BY <1>5
    <3>2. w \in m.slots
      BY <1>3, <1>5, <1>8, <3>1 DEF Regular
    <3> QED
      BY <1>7, <3>1, <3>2
  <2> QED
    BY <2>1, <2>2 DEF Atomic
<1> QED
  BY <1>5, <1>6, <1>8, <1>9 DEF LookupSound, m, w

LEMMA Tbl8Sound ==
    ASSUME EngineFacts, NEW l, LookupSound(l), l.pc = "tbl8"
    PROVE  LookupSound(AfterSlot(l, tbl8[<<l.slot.id, l.dst[2]>>]))
<1> DEFINE w == tbl8[<<l.slot.id, l.dst[2]>>]
           m == AfterSlot(l, w)
<1>1. /\ l \in LookupState /\ Grace(l) /\ Regular(l) /\ Atomic(l)
      /\ l.slot.id \in Group /\ l.dst[2] \in Low /\ Flat /\ TypeOK
  BY DEF LookupSound, Regular, LookupState, Addr, EngineFacts, EngineInv
<1>2. w \in Word /\ w.kind # "group"
  BY <1>1 DEF Flat, TypeOK
<1>3. ~l.stolen => w \in l.slots
  BY <1>1 DEF Regular
<1>4. /\ m \in LookupState
      /\ m.slot = w /\ m.dst = l.dst /\ m.slots = l.slots /\ m.answers = l.answers
      /\ m.updates = l.updates /\ m.stolen = l.stolen
      /\ m.squeezed = l.squeezed /\ m.frees = l.frees
      /\ w.kind = "entry" => m.answer = w
      /\ m.pc = "tbl8" <=> w.kind = "group"
      /\ m.pc = "default" <=> w.kind = "none"
      /\ m.pc = "done" <=> w.kind = "entry"
  BY <1>1, <1>2, AfterSlotFields
<1> HIDE DEF m, w
<1>5. Grace(m)
  BY <1>1, <1>2, <1>4 DEF Grace
<1>6. Regular(m)
  BY <1>1, <1>2, <1>3, <1>4 DEF Regular
<1>7. Atomic(m)
  <2>1. m.updates <= 1 => Narrow(l)
    BY <1>1, <1>4 DEF Atomic
  <2>2. m.updates <= 1 => Narrow(m)
    BY <1>4, <2>1 DEF Narrow
  <2>3. m.pc = "done" /\ ~m.stolen => m.answer \in m.answers
    BY <1>1, <1>3, <1>4 DEF Regular
  <2> QED
    BY <2>2, <2>3 DEF Atomic
<1> QED
  BY <1>4, <1>5, <1>6, <1>7 DEF LookupSound, m, w

LEMMA DefaultSound ==
    ASSUME EngineFacts, NEW l, LookupSound(l), l.pc = "default"
    PROVE  LookupSound([l EXCEPT !.pc = "done", !.answer = default4])
<1> DEFINE m == [l EXCEPT !.pc = "done", !.answer = default4]
           t == SlotWord(shadow, l.dst[1], l.dst[2])
           D == DefaultWord(shadow)
<1>1. /\ l \in LookupState /\ Grace(l) /\ Regular(l) /\ Atomic(l) /\ default4 \in Word
  BY DEF LookupSound, EngineFacts, EngineInv, TypeOK
<1>2. /\ m \in LookupState /\ m.pc = "done" /\ m.answer = default4
      /\ m.slot = l.slot /\ m.dst = l.dst /\ m.slots = l.slots /\ m.answers = l.answers
      /\ m.updates = l.updates /\ m.stolen = l.stolen
      /\ m.squeezed = l.squeezed /\ m.frees = l.frees
  BY <1>1 DEF LookupState
<1> HIDE DEF m
<1>3. Grace(m)
  BY <1>1, <1>2 DEF Grace
<1>4. Regular(m)
  BY <1>1, <1>2 DEF Regular
<1>5. ASSUME l.updates <= 1, ~l.stolen PROVE default4 \in l.answers
  <2>1. Narrow(l)
    BY <1>1, <1>5 DEF Atomic
  <2>2. PICK s \in Word, d \in Word :
           /\ l.slots = {s, t}
           /\ l.answers = {Best(s, d), Best(t, D)}
           /\ default4 \in {d, D}
           /\ d = D \/ s = t
    BY <2>1 DEF Narrow
  <2>3. l.slot.kind = "none" /\ l.slot \in {s, t}
    BY <1>1, <1>5, <2>2 DEF Regular
  <2> HIDE DEF t, D
  <2> QED
    BY <2>2, <2>3 DEF Best
<1>6. Atomic(m)
  BY <1>2, <1>5 DEF Atomic
<1> QED
  BY <1>2, <1>3, <1>4, <1>6 DEF LookupSound, m

-----------------------------------------------------------------------------
(***************************************************************************)
(* Every reader's lookup stays sound, whatever the interleaving.           *)
(***************************************************************************)
LEMMA ReadersStep ==
    ASSUME EngineFacts, EngineFacts', PrevSound, ReadersSound, [RNext]_rvars
    PROVE  ReadersSound'
<1>1. CASE EngineStep
  <2>1. \A r \in Readers : LookupSound(rd[r])'
    BY <1>1, OverlapSound DEF ReadersSound
  <2>2. rd' = [r \in Readers |-> rd'[r]]
    BY <1>1 DEF EngineStep
  <2> QED
    BY <2>1, <2>2 DEF ReadersSound
<1>2. ASSUME NEW r \in Readers, NEW l, LookupSound(l), rd' = [rd EXCEPT ![r] = l],
             UNCHANGED <<vars, prev>>
      PROVE  ReadersSound'
  <2>1. rd = [q \in Readers |-> rd[q]] /\ \A q \in Readers : LookupSound(rd[q])
    BY DEF ReadersSound
  <2>2. \A q \in Readers : rd'[q] = IF q = r THEN l ELSE rd[q]
    BY <1>2, <2>1
  <2>3. rd' = [q \in Readers |-> rd'[q]]
    BY <1>2, <2>1
  <2>4. \A q \in Readers : LookupSound(rd'[q])
    BY <1>2, <2>1, <2>2
  <2>5. /\ groups' = groups /\ quarantine' = quarantine /\ tbl8' = tbl8
        /\ shadow' = shadow /\ default4' = default4 /\ todo' = todo /\ prev' = prev
    BY <1>2 DEF vars
  <2>6. \A q \in Readers : LookupSound(rd[q])'
    <3> SUFFICES ASSUME NEW q \in Readers PROVE LookupSound(rd[q])'
      OBVIOUS
    <3> DEFINE x == rd'[q]
    <3>1. LookupState' = LookupState
      BY DEF LookupState, UpdatesCap, FreesCap
    <3>2. x \in LookupState /\ Grace(x) /\ Regular(x) /\ Atomic(x)
      BY <2>4 DEF LookupSound
    <3>3. Grace(rd[q])'
      BY <2>5, <3>2 DEF Grace, Held, FreesCap
    <3>4. Regular(rd[q])'
      BY <2>5, <3>2 DEF Regular
    <3>5. Narrow(x) => Narrow(rd[q])'
      BY <2>5 DEF Narrow
    <3>6. Atomic(rd[q])'
      BY <3>2, <3>5 DEF Atomic
    <3> QED
      BY <3>1, <3>2, <3>3, <3>4, <3>6 DEF LookupSound
  <2> QED
    BY <2>3, <2>6 DEF ReadersSound
<1>3. ASSUME NEW r \in Readers, NEW a \in Dsts, BeginLookup(r, a) PROVE ReadersSound'
  <2> DEFINE l == [NoLookup EXCEPT
                     !.dst = a,
                     !.slots = {SlotWord(s, a[1], a[2]) : s \in {prev.rib, shadow}},
                     !.answers = {Lookup(s, a) : s \in {prev.rib, shadow}},
                     !.updates = IF Idle THEN 0
                                 ELSE IF prev.bulk THEN UpdatesCap ELSE 1]
  <2>1. a \in Addr
    BY DstsAssumption
  <2>2. LookupSound(AfterSlot(l, tbl24[a[1]]))
    <3>1. NoLookup \in LookupState
      BY NoLookupSound DEF LookupSound
    <3>2. /\ {SlotWord(s, a[1], a[2]) : s \in {prev.rib, shadow}} \in SUBSET Word
          /\ {Lookup(s, a) : s \in {prev.rib, shadow}} \in SUBSET Word
      <4>1. prev.rib \in Rib /\ shadow \in Rib
        BY DEF PrevSound, EngineFacts, EngineInv, TypeOK
      <4> QED
        BY <2>1, <4>1, LookupSplit
    <3>3. (IF Idle THEN 0 ELSE IF prev.bulk THEN UpdatesCap ELSE 1) \in 0..UpdatesCap
      BY DEF UpdatesCap
    <3>4. l \in LookupState
      BY <2>1, <3>1, <3>2, <3>3 DEF LookupState
    <3>5. /\ l.dst = a
          /\ l.slots = {SlotWord(s, a[1], a[2]) : s \in {prev.rib, shadow}}
          /\ l.answers = {Lookup(s, a) : s \in {prev.rib, shadow}}
          /\ l.updates = IF Idle THEN 0 ELSE IF prev.bulk THEN UpdatesCap ELSE 1
          /\ ~l.stolen /\ ~l.squeezed /\ l.frees = 0
      BY DEF NoLookup
    <3> HIDE DEF l
    <3> QED
      BY <2>1, <3>4, <3>5, BeginSound
  <2>3. rd' = [rd EXCEPT ![r] = AfterSlot(l, tbl24[a[1]])] /\ UNCHANGED <<vars, prev>>
    BY <1>3 DEF BeginLookup
  <2> QED
    BY <1>2, <2>2, <2>3
<1>4. ASSUME NEW r \in Readers, ReadTbl8(r) PROVE ReadersSound'
  <2> DEFINE l == AfterSlot(rd[r], tbl8[<<rd[r].slot.id, rd[r].dst[2]>>])
  <2>1. LookupSound(l)
    BY <1>4, Tbl8Sound DEF ReadTbl8, InTbl8, ReadersSound
  <2>2. rd' = [rd EXCEPT ![r] = l] /\ UNCHANGED <<vars, prev>>
    BY <1>4 DEF ReadTbl8, ReadersSound
  <2> QED
    BY <1>2, <2>1, <2>2
<1>5. ASSUME NEW r \in Readers, ReadDefault4(r) PROVE ReadersSound'
  <2> DEFINE l == [rd[r] EXCEPT !.pc = "done", !.answer = default4]
  <2>1. LookupSound(l)
    BY <1>5, DefaultSound DEF ReadDefault4, ReadersSound
  <2>2. rd' = [rd EXCEPT ![r] = l] /\ UNCHANGED <<vars, prev>>
    BY <1>5 DEF ReadDefault4, ReadersSound
  <2> QED
    BY <1>2, <2>1, <2>2
<1>6. ASSUME NEW r \in Readers, EndLookup(r) PROVE ReadersSound'
  BY <1>2, <1>6, NoLookupSound DEF EndLookup
<1>7. CASE UNCHANGED rvars
  BY <1>7 DEF rvars, vars, ReadersSound, LookupSound, LookupState, Grace, Held, Regular,
              Atomic, Narrow, UpdatesCap, FreesCap
<1> QED
  BY <1>1, <1>3, <1>4, <1>5, <1>6, <1>7 DEF RNext, ReaderStep

\* The inductive invariant of the lookups.
LEMMA ReadersAreSound == RSpec => []ReadersSound
<1>1. RInit => ReadersSound
  BY NoLookupSound DEF RInit, ReadersSound
<1>2. EngineFacts /\ EngineFacts' /\ PrevSound /\ ReadersSound /\ [RNext]_rvars
        => ReadersSound'
  BY ReadersStep
<1> QED
  BY <1>1, <1>2, EngineFactsHold, ReadersImplement, PrevIsSound, PTL DEF RSpec

\* The quarantine's guarantee (free_group): a group that a lookup is about to
\* index goes to another /24 only after QUARANTINE_DEPTH further groups were
\* freed, or once an exhausted pool made alloc_group take from quarantine.
THEOREM GraceHolds == RSpec => []GracePeriod
<1>1. ReadersSound => GracePeriod
  BY DEF ReadersSound, LookupSound, Grace, GracePeriod
<1> QED
  BY <1>1, ReadersAreSound, PTL

\* A lookup that straddles any number of updates, its group not taken away,
\* finds in TBL24/TBL8 a longest match that was right while it ran: the order
\* of the stores in dir24_apply is all the protection it needs.
THEOREM SlotsRegular == RSpec => []SlotRegular
<1>1. ReadersSound => SlotRegular
  BY DEF ReadersSound, LookupSound, Regular, SlotRegular
<1> QED
  BY <1>1, ReadersAreSound, PTL

\* A lookup that overlaps at most one single-route update answers with the
\* longest match before that update or after it, default route included.
THEOREM LookupsAtomic == RSpec => []LookupAtomic
<1>1. ReadersSound => LookupAtomic
  BY DEF ReadersSound, LookupSound, Atomic, LookupAtomic
<1> QED
  BY <1>1, ReadersAreSound, PTL
=============================================================================
