------------------------------- MODULE Dir24 -------------------------------
(***************************************************************************)
(* The DIR-24-8 engine (dir24.rs) and the three BPF arrays its plans are   *)
(* applied to (dataplane.rs, route4_add / route4_del / route4_add_bulk).   *)
(*                                                                         *)
(* A call runs under the dataplane mutex in three phases, and a new call   *)
(* starts only when the previous one has finished:                         *)
(*   1. the shadow route set changes (RouteAdd, RouteDel, BulkNext);       *)
(*   2. sync_block recomputes each affected /24, lowest first, appending   *)
(*      slot writes to the plan (SyncBlock);                               *)
(*   3. dir24_apply stores the plan, one word at a time (ApplyWrite).      *)
(* Lock-free readers see the arrays between any two stores of phase 3;     *)
(* they are added by Dir24Readers.                                         *)
(***************************************************************************)
EXTENDS Fib4, Sequences, SequencesExt

CONSTANTS NGroups,          \* TBL8 groups in the pool (DIR24_TBL8_GROUPS)
          QuarantineDepth,  \* QUARANTINE_DEPTH
          Routes,           \* the <<addr, len>> pairs callers use, host bits set or not
          NexthopIds,       \* the nexthop ids callers use
          MaxBatch          \* bound: routes in one bulk call

ASSUME GroupsAssumption == NGroups \in Nat /\ NGroups <= IdSpace
ASSUME DepthAssumption == QuarantineDepth \in Nat
ASSUME InputsAssumption ==
    Routes \subseteq Prefix /\ NexthopIds \subseteq Entry /\ MaxBatch \in Nat

Group == 0..(NGroups - 1)
NoGroup == -1

VARIABLES shadow,      \* Prefix -> entry: what should be programmed
          longCount,   \* Blk -> number of routes longer than BlkBits in it
          groups,      \* Blk -> its TBL8 group, or NoGroup
          free,        \* allocatable groups, popped at the end (a Vec)
          quarantine,  \* recently freed groups, oldest first (a VecDeque)
          todo,        \* routes of the running bulk call not yet in the shadow
          pending,     \* blocks of the running call that sync_block still owes
          plan,        \* slot writes not yet stored
          tbl24, tbl8, default4   \* the BPF arrays

engineVars == <<shadow, longCount, groups, free, quarantine, todo, pending>>
tableVars  == <<tbl24, tbl8, default4>>
vars == <<shadow, longCount, groups, free, quarantine, todo, pending, plan,
          tbl24, tbl8, default4>>

Write == [tab : {"tbl24", "tbl8", "default"}, idx : Nat \X Nat, word : Word]

Tbl24Write(b, w)     == [tab |-> "tbl24", idx |-> <<b, 0>>, word |-> w]
Tbl8Write(g, low, w) == [tab |-> "tbl8", idx |-> <<g, low>>, word |-> w]
DefaultWrite(w)      == [tab |-> "default", idx |-> <<0, 0>>, word |-> w]

Idle == todo = <<>> /\ pending = {} /\ plan = <<>>

-----------------------------------------------------------------------------
(***************************************************************************)
(* The engine's view of the shadow.                                        *)
(***************************************************************************)

\* The search `for len in lens.rev()': the first hit is the longest.
Hits(rib, a, lens) == {len \in lens : rib[<<Mask(a, len), len>>] # NoEntry}
FirstHitWord(rib, a, lens) ==
    LET hits == Hits(rib, a, lens)
    IN  IF hits = {} THEN ZeroWord
        ELSE fibw_entry(rib[<<Mask(a, Max(hits)), Max(hits)>>])

SlotWord(rib, b, low)   == FirstHitWord(rib, <<b, low>>, 1..W)
BlockCoverWord(rib, b)  == FirstHitWord(rib, <<b, 0>>, 1..BlkBits)

\* Mistake: the last block of the range is missed.
AffectedBlocksOpenEnded(addr, len) ==
    IF len > BlkBits
    THEN {addr[1]}
    ELSE addr[1]..(addr[1] + 2^(BlkBits - len) - 2)

AffectedBlocks(addr, len) ==
    IF len > BlkBits
    THEN {addr[1]}
    ELSE addr[1]..(addr[1] + 2^(BlkBits - len) - 1)

\* An add of this route would take a group from the pool.
NeedsGroup(addr, len) == len > BlkBits /\ groups[addr[1]] = NoGroup

-----------------------------------------------------------------------------
Init ==
    /\ shadow = [p \in Prefix |-> NoEntry]
    /\ longCount = [b \in Blk |-> 0]
    /\ groups = [b \in Blk |-> NoGroup]
    /\ free = [i \in 1..NGroups |-> NGroups - i]
    /\ quarantine = <<>>
    /\ todo = <<>>
    /\ pending = {}
    /\ plan = <<>>
    /\ tbl24 = [b \in Blk |-> ZeroWord]
    /\ tbl8 = [s \in Group \X Low |-> ZeroWord]
    /\ default4 = ZeroWord

(***************************************************************************)
(* Phase 1.  Insert is the body route_add and the bulk loop share: put the *)
(* route in the shadow, count it if it is new and long, and note the       *)
(* blocks to recompute.  A default route is one direct write instead.      *)
(***************************************************************************)
Insert(addr, len, entry) ==
    LET key == <<Mask(addr, len), len>>
    IN  /\ shadow' = [shadow EXCEPT ![key] = entry]
        /\ longCount' = [longCount EXCEPT ![addr[1]] =
               IF len > BlkBits /\ shadow[key] = NoEntry THEN @ + 1 ELSE @]
        /\ IF len = 0
           THEN /\ plan' = Append(plan, DefaultWrite(fibw_entry(entry)))
                /\ UNCHANGED pending
           ELSE /\ pending' = pending \cup AffectedBlocks(Mask(addr, len), len)
                /\ UNCHANGED plan

PoolSize == Len(free) + Len(quarantine)

RouteAdd(addr, len, entry) ==
    /\ Idle
    /\ ~(NeedsGroup(addr, len) /\ PoolSize = 0)
    /\ Insert(addr, len, entry)
    /\ UNCHANGED <<groups, free, quarantine, todo, tableVars>>

\* Pool exhausted: refused before the shadow is touched.
RouteAddExhausted(addr, len) ==
    /\ Idle
    /\ NeedsGroup(addr, len) /\ PoolSize = 0
    /\ UNCHANGED vars

\* Mistake: a deleted long route is still counted.
RouteDelKeepsCount(addr, len) ==
    LET key == <<Mask(addr, len), len>>
    IN  /\ Idle
        /\ shadow[key] # NoEntry
        /\ shadow' = [shadow EXCEPT ![key] = NoEntry]
        /\ IF len = 0
           THEN plan' = <<DefaultWrite(ZeroWord)>> /\ UNCHANGED pending
           ELSE pending' = AffectedBlocks(Mask(addr, len), len) /\ UNCHANGED plan
        /\ UNCHANGED <<longCount, groups, free, quarantine, todo, tableVars>>

RouteDel(addr, len) ==
    LET key == <<Mask(addr, len), len>>
    IN  /\ Idle
        /\ shadow[key] # NoEntry
        /\ shadow' = [shadow EXCEPT ![key] = NoEntry]
        /\ longCount' = [longCount EXCEPT ![addr[1]] =
               IF len > BlkBits THEN @ - 1 ELSE @]
        /\ IF len = 0
           THEN /\ plan' = <<DefaultWrite(ZeroWord)>>
                /\ UNCHANGED pending
           ELSE /\ pending' = AffectedBlocks(Mask(addr, len), len)
                /\ UNCHANGED plan
        /\ UNCHANGED <<groups, free, quarantine, todo, tableVars>>

\* Deleting a route that is not there is an empty plan.
RouteDelAbsent(addr, len) ==
    /\ Idle
    /\ shadow[<<Mask(addr, len), len>>] = NoEntry
    /\ UNCHANGED vars

\* The group-less blocks a batch of routes gives a long route to.
NewGroupBlocks(batch) ==
    {batch[i].addr[1] : i \in {j \in DOMAIN batch :
                                 NeedsGroup(batch[j].addr, batch[j].len)}}

\* Mistake: each route is checked against the pool on its own.
RouteAddBulkPerRoute(batch) ==
    /\ Idle
    /\ NewGroupBlocks(batch) # {} => PoolSize > 0
    /\ todo' = batch
    /\ UNCHANGED <<shadow, longCount, groups, free, quarantine, pending, plan,
                   tableVars>>

RouteAddBulk(batch) ==
    /\ Idle
    /\ Cardinality(NewGroupBlocks(batch)) <= PoolSize
    /\ todo' = batch
    /\ UNCHANGED <<shadow, longCount, groups, free, quarantine, pending, plan,
                   tableVars>>

RouteAddBulkExhausted(batch) ==
    /\ Idle
    /\ Cardinality(NewGroupBlocks(batch)) > PoolSize
    /\ UNCHANGED vars

BulkNext ==
    /\ todo # <<>>
    /\ Insert(Head(todo).addr, Head(todo).len, Head(todo).entry)
    /\ todo' = Tail(todo)
    /\ UNCHANGED <<groups, free, quarantine, tableVars>>

-----------------------------------------------------------------------------
(***************************************************************************)
(* Phase 2.  sync_block for the lowest block still owed.                   *)
(***************************************************************************)
FillGroup(g, b) ==
    [i \in 1..2^LowBits |-> Tbl8Write(g, i - 1, SlotWord(shadow, b, i - 1))]

\* Mistake: a block that already has a group is taken to be up to date.
SyncInPlaceSkipped(b) ==
    /\ longCount[b] > 0
    /\ groups[b] # NoGroup
    /\ UNCHANGED <<plan, groups, free, quarantine>>

\* A live group: rewrite its slots in place.
SyncInPlace(b) ==
    /\ longCount[b] > 0
    /\ groups[b] # NoGroup
    /\ plan' = plan \o FillGroup(groups[b], b)
    /\ UNCHANGED <<groups, free, quarantine>>

\* alloc_group: the last free group, or else the oldest one in quarantine.
\* Phase 1 left enough of them (AllocSucceeds), so there is no third case.
AllocGroup(g) ==
    \/ /\ free # <<>>
       /\ g = Last(free)
       /\ free' = Front(free)
       /\ UNCHANGED quarantine
    \/ /\ free = <<>>
       /\ quarantine # <<>>
       /\ g = Head(quarantine)
       /\ quarantine' = Tail(quarantine)
       /\ UNCHANGED free

\* Mistake: the flip comes before the fill.
SyncExpandFlipFirst(b) ==
    /\ longCount[b] > 0
    /\ groups[b] = NoGroup
    /\ \E g \in Group :
          /\ AllocGroup(g)
          /\ groups' = [groups EXCEPT ![b] = g]
          /\ plan' = Append(plan, Tbl24Write(b, fibw_group(g))) \o FillGroup(g, b)

\* A block's first long route: fill the new group, then flip to it.
SyncExpand(b) ==
    /\ longCount[b] > 0
    /\ groups[b] = NoGroup
    /\ \E g \in Group :
          /\ AllocGroup(g)
          /\ groups' = [groups EXCEPT ![b] = g]
          /\ plan' = (plan \o FillGroup(g, b))
                         \o <<Tbl24Write(b, fibw_group(g))>>

\* Mistakes: no bound on the quarantine; the group just freed is made
\* allocatable instead of the oldest one; no quarantine at all.
FreeGroupUnbounded(g) == quarantine' = Append(quarantine, g) /\ UNCHANGED free
FreeGroupNewest(g) ==
    IF Len(quarantine) >= QuarantineDepth
    THEN quarantine' = Tail(Append(quarantine, g)) /\ free' = Append(free, g)
    ELSE quarantine' = Append(quarantine, g) /\ UNCHANGED free
FreeGroupAtOnce(g) == free' = Append(free, g) /\ UNCHANGED quarantine

\* quarantine.push_back(g), the overflow going back to the free list.
FreeGroup(g) ==
    LET q == Append(quarantine, g)
    IN  IF Len(q) > QuarantineDepth
        THEN quarantine' = Tail(q) /\ free' = Append(free, Head(q))
        ELSE quarantine' = q /\ UNCHANGED free

\* Mistake: a collapsed block keeps its group.
SyncDirectKeepsGroup(b) ==
    /\ longCount[b] = 0
    /\ plan' = plan \o <<Tbl24Write(b, BlockCoverWord(shadow, b))>>
    /\ UNCHANGED <<groups, free, quarantine>>

\* No long route (left): flip to one direct word, then free the group.
SyncDirect(b) ==
    /\ longCount[b] = 0
    /\ plan' = plan \o <<Tbl24Write(b, BlockCoverWord(shadow, b))>>
    /\ groups' = [groups EXCEPT ![b] = NoGroup]
    /\ IF groups[b] = NoGroup
       THEN UNCHANGED <<free, quarantine>>
       ELSE FreeGroup(groups[b])

SyncBlock ==
    /\ todo = <<>>
    /\ pending # {}
    /\ LET b == Min(pending)
       IN  /\ SyncInPlace(b) \/ SyncExpand(b) \/ SyncDirect(b)
           /\ pending' = pending \ {b}
    /\ UNCHANGED <<shadow, longCount, todo, tableVars>>

(***************************************************************************)
(* Phase 3.  dir24_apply: Array::set of the next word.                     *)
(***************************************************************************)
ApplyWrite ==
    /\ todo = <<>> /\ pending = {} /\ plan # <<>>
    /\ LET wr == Head(plan)
       IN  /\ tbl24' = IF wr.tab = "tbl24"
                       THEN [tbl24 EXCEPT ![wr.idx[1]] = wr.word] ELSE tbl24
           /\ tbl8' = IF wr.tab = "tbl8"
                      THEN [tbl8 EXCEPT ![wr.idx] = wr.word] ELSE tbl8
           /\ default4' = IF wr.tab = "default" THEN wr.word ELSE default4
    /\ plan' = Tail(plan)
    /\ UNCHANGED engineVars

\* The routes of a bulk call.
BatchRoutes == {[addr |-> r[1], len |-> r[2], entry |-> e] :
                   r \in Routes, e \in NexthopIds}

Call ==
    \/ \E r \in Routes, e \in NexthopIds : RouteAdd(r[1], r[2], e)
    \/ \E r \in Routes : \/ RouteAddExhausted(r[1], r[2])
                         \/ RouteDel(r[1], r[2])
                         \/ RouteDelAbsent(r[1], r[2])
    \/ \E n \in 1..MaxBatch :
         \E batch \in [1..n -> BatchRoutes] :
            RouteAddBulk(batch) \/ RouteAddBulkExhausted(batch)

Next == Call \/ BulkNext \/ SyncBlock \/ ApplyWrite

\* Fairness: the thread that holds the mutex finishes the call it is in.
Fairness == WF_vars(BulkNext) /\ WF_vars(SyncBlock) /\ WF_vars(ApplyWrite)

Spec == Init /\ [][Next]_vars
FairSpec == Spec /\ Fairness

-----------------------------------------------------------------------------
(***************************************************************************)
(* Properties.                                                             *)
(***************************************************************************)
BulkRoute == [addr : Addr, len : Lens, entry : Entry]

\* The engine and the arrays keep their types; in particular no plan entry
\* addresses a word outside the arrays.
TypeOK ==
    /\ shadow \in Rib
    /\ longCount \in [Blk -> Nat]
    /\ groups \in [Blk -> Group \cup {NoGroup}]
    /\ free \in Seq(Group)
    /\ quarantine \in Seq(Group)
    /\ Len(quarantine) <= QuarantineDepth
    /\ todo \in Seq(BulkRoute)
    /\ pending \in SUBSET Blk
    /\ plan \in Seq(Write)
    /\ tbl24 \in [Blk -> Word]
    /\ tbl8 \in [Group \X Low -> Word]
    /\ default4 \in Word

\* alloc_group and the quarantine never lose a group or give one to two
\* owners: each group backs exactly one block, or is on the free list once,
\* or is in quarantine once.
PoolSound ==
    /\ IsInjective(free) /\ IsInjective(quarantine)
    /\ Range(free) \cap Range(quarantine) = {}
    /\ \A b \in Blk : groups[b] # NoGroup =>
          /\ groups[b] \notin Range(free) \cup Range(quarantine)
          /\ \A c \in Blk : groups[c] = groups[b] => c = b
    /\ \A g \in Group : \/ g \in Range(free) \cup Range(quarantine)
                        \/ \E b \in Blk : groups[b] = g

LongRoutes(rib, b) ==
    {p \in Prefix : p[1][1] = b /\ p[2] > BlkBits /\ rib[p] # NoEntry}

\* long_count is the number of long routes of the block, through every
\* replacement, idempotent delete and duplicate in a batch.
LongCountExact ==
    \A b \in Blk : longCount[b] = Cardinality(LongRoutes(shadow, b))

\* Between calls a block owns a group exactly when it has a long route: an
\* abandoned group is not leaked, so a route is refused (pool exhausted) only
\* when every group really backs a block with a long route.
GroupsFollowRoutes ==
    Idle => \A b \in Blk : groups[b] # NoGroup <=> LongRoutes(shadow, b) # {}

\* Blocks that will take a group before the running call ends.
Demand ==
    {b \in Blk : /\ groups[b] = NoGroup
                 /\ \/ longCount[b] > 0
                    \/ \E i \in DOMAIN todo : /\ todo[i].len > BlkBits
                                              /\ todo[i].addr[1] = b}

\* The capacity check made before the shadow changes is enough for the whole
\* call: alloc_group cannot fail half way through ("a failed batch leaves no
\* partial state"; the `?' on sync_block is never taken).
AllocSucceeds == Cardinality(Demand) <= PoolSize

-----------------------------------------------------------------------------
(***************************************************************************)
(* The invariant that makes the plan safe to store one word at a time.     *)
(***************************************************************************)

\* The word TBL24 ends up with for b.
FinalWord(b) ==
    IF groups[b] = NoGroup THEN BlockCoverWord(shadow, b) ELSE fibw_group(groups[b])

\* The word of the default route.
DefaultWord(rib) ==
    IF rib[<< <<0, 0>>, 0 >>] = NoEntry THEN ZeroWord
    ELSE fibw_entry(rib[<< <<0, 0>>, 0 >>])

\* Outside the blocks still owed, a block has a group iff it has long routes;
\* a call that takes a group away recomputes that block alone, so that no
\* group changes hands within one plan.
PendingSound ==
    /\ \A b \in Blk \ pending : groups[b] # NoGroup <=> longCount[b] > 0
    /\ \A b \in pending : groups[b] # NoGroup /\ longCount[b] = 0
                             => pending = {b} /\ todo = <<>>

\* Every write in the plan carries the word its slot must end up with, and
\* slots are written only for blocks sync_block has visited.
PlanSound ==
    \A i \in DOMAIN plan :
        /\ plan[i].tab # "default" => todo = <<>>
        /\ plan[i].tab = "tbl24" =>
              \E b \in Blk \ pending : plan[i] = Tbl24Write(b, FinalWord(b))
        /\ plan[i].tab = "tbl8" =>
              \E b \in Blk \ pending, low \in Low :
                  /\ groups[b] # NoGroup
                  /\ plan[i] = Tbl8Write(groups[b], low, SlotWord(shadow, b, low))
        /\ (plan[i].tab = "default"
               /\ \A j \in DOMAIN plan : plan[j].tab = "default" => j <= i)
             => plan[i] = DefaultWrite(DefaultWord(shadow))

\* A TBL24 word that names a group names its block's own, or one that no
\* block owns and that its block is about to be flipped away from.
PointersSound ==
    \A b \in Blk : tbl24[b].kind = "group" =>
        \E g \in Group :
            /\ tbl24[b] = fibw_group(g)
            /\ \/ groups[b] = g
               \/ /\ pending = {}
                  /\ groups[b] = NoGroup
                  /\ \A c \in Blk : groups[c] # g

\* What sync_block has not visited is as the last call left it; what it has
\* visited is right in the arrays or put right by the plan, where the fill of
\* a group comes before the flip to it.
ArraysSound ==
    /\ \A b \in pending : groups[b] # NoGroup => tbl24[b] = fibw_group(groups[b])
    /\ \A b \in Blk \ pending :
          /\ \/ tbl24[b] = FinalWord(b)
             \/ \E i \in DOMAIN plan : plan[i] = Tbl24Write(b, FinalWord(b))
          /\ groups[b] # NoGroup =>
                \A low \in Low :
                    LET w == SlotWord(shadow, b, low)
                    IN  \/ tbl8[<<groups[b], low>>] = w
                        \/ \E i \in DOMAIN plan : plan[i] = Tbl8Write(groups[b], low, w)
          /\ groups[b] # NoGroup =>
                \A i, j \in DOMAIN plan :
                    /\ plan[i].tab = "tbl24" /\ plan[i].idx[1] = b
                    /\ plan[j].tab = "tbl8" /\ plan[j].idx[1] = groups[b]
                    => j < i
    /\ \/ default4 = DefaultWord(shadow)
       \/ \E i \in DOMAIN plan : plan[i].tab = "default"

\* The plan repairs the arrays from wherever an update has got to: stored to
\* its end it leaves every word right, and each prefix of it is safe.
PlanInv == PendingSound /\ PlanSound /\ PointersSound /\ ArraysSound

-----------------------------------------------------------------------------
(***************************************************************************)
(* The tables implement FibView: what TBL24 and TBL8 resolve an address    *)
(* to, read at one instant, moves only from the old answer to the new one. *)
(***************************************************************************)
Resolve(b, low) ==
    IF tbl24[b].kind = "group" THEN tbl8[<<tbl24[b].id, low>>] ELSE tbl24[b]

View == INSTANCE FibView WITH
            rib <- shadow,
            slot <- [a \in Addr |-> Resolve(a[1], a[2])],
            dflt <- default4,
            busy <- ~Idle

\* Fill-then-flip and flip-then-free keep every intermediate table correct:
\* no address ever resolves to anything but its old or its new longest match,
\* and when the call ends all of them resolve to the new one.
ImplementsFibView == View!Spec

\* A call that has started ends, with the tables programmed.
CallCompletes == ~Idle ~> (Idle /\ View!Converged)
=============================================================================
