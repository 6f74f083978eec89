------------------------------ MODULE BfdProofs ------------------------------
(***************************************************************************)
(* The addresses of OUR_LOCAL_IPS are counted soundly: an Echo session     *)
(* with a row keeps its address in the map, for any number of sessions,    *)
(* addresses, calls and flaps.                                             *)
(***************************************************************************)
EXTENDS Bfd, FiniteSetTheorems, TLAPS

\* What bfd_ip_refs counts for an address: the sessions that hold it, and the
\* references that calls which failed or armed again have left behind.
Holders(l) == {d \in Discrs : echoLocal[d] = l}

AddrType ==
    /\ refs \in [Locals -> Nat]
    /\ ips \subseteq Locals
    /\ echoLocal \in [Discrs -> Locals \cup {None}]
    /\ DOMAIN timers = Keys /\ DOMAIN xdp = Keys

\* The originator: its loop marks sessions it has, one at a time.
OriginType ==
    /\ expired \subseteq Discrs
    /\ eng \in [pc : {"select", "wait", "loop", "put"}, marks : SUBSET Discrs,
               cur : Discrs \cup {None}]

\* A row of the session is in the map, in the hands of an XDP run, or about to
\* be written back by the originator, which holds the lock.
HasRow(d) == \/ timers[Echo(d)] # None
             \/ xdp[Echo(d)] # "idle"
             \/ eng.pc = "put" /\ eng.cur = d

\* Every holder is counted, a counted address is in the map, and a session
\* with a row holds an address.
Counted ==
    /\ AddrType
    /\ \A l \in Locals : Cardinality(Holders(l)) <= refs[l]
    /\ \A l \in Locals : refs[l] > 0 => l \in ips
    /\ \A d \in Discrs : HasRow(d) => echoLocal[d] # None

----------------------------------------------------------------------------
LEMMA KeyFacts ==
    /\ \A d \in Discrs : Echo(d) \in Keys
    /\ \A d \in Watched : Ctrl(d) \in Keys
    /\ \A d, e : Echo(d) = Echo(e) => d = e
    /\ \A d, e : Echo(d) # Ctrl(e)
  BY DEF Echo, Ctrl, Keys

\* The sessions that hold an address are finitely many; one of them makes the
\* count positive.
LEMMA HoldersFinite ==
    ASSUME NEW l \in Locals
    PROVE  /\ IsFiniteSet(Holders(l))
           /\ Cardinality(Holders(l)) \in Nat
           /\ \A d \in Holders(l) : Cardinality(Holders(l)) > 0
  <1>1. IsFiniteSet(Holders(l))
    BY BfdAssumption, FS_Subset DEF Holders
  <1>2. Cardinality(Holders(l)) \in Nat
    BY <1>1, FS_CardinalityType
  <1>3. \A d \in Holders(l) : Cardinality(Holders(l)) # 0
    BY <1>1, FS_EmptySet
  <1> QED
    BY <1>1, <1>2, <1>3

\* LocalsHeld follows from the counts.
LEMMA CountedHolds == Counted => LocalsHeld
  <1> SUFFICES ASSUME Counted, NEW d \in Discrs, timers[Echo(d)] # None
               PROVE  echoLocal[d] \in ips
    BY DEF LocalsHeld
  <1>1. echoLocal[d] \in Locals
    BY DEF Counted, HasRow, AddrType
  <1> DEFINE l == echoLocal[d]
  <1>2. d \in Holders(l)
    BY DEF Holders
  <1>3. Cardinality(Holders(l)) > 0 /\ Cardinality(Holders(l)) \in Nat
    BY <1>1, <1>2, HoldersFinite
  <1>4. Cardinality(Holders(l)) <= refs[l] /\ refs[l] \in Nat
    BY <1>1 DEF Counted, AddrType
  <1> QED
    BY <1>1, <1>3, <1>4 DEF Counted

LEMMA InitCounted == Init => Counted
  <1> SUFFICES ASSUME Init PROVE Counted
    OBVIOUS
  <1>1. AddrType
    BY DEF Init, AddrType
  <1>2. ASSUME NEW l \in Locals PROVE Cardinality(Holders(l)) <= refs[l]
    <2>1. Holders(l) = {}
      BY BfdAssumption DEF Init, Holders
    <2> QED
      BY <2>1, FS_EmptySet DEF Init
  <1>3. \A d \in Discrs : ~HasRow(d)
    BY KeyFacts DEF Init, HasRow, Resting
  <1> QED
    BY <1>1, <1>2, <1>3 DEF Counted, Init

----------------------------------------------------------------------------
\* One more reference for an address covers the session that takes it,
\* whatever that session held before; the reference it held stays behind.
LEMMA CountLocalCounts ==
    ASSUME Counted, NEW d \in Discrs, NEW l \in Locals, CountLocal(d, l)
    PROVE  /\ refs' \in [Locals -> Nat] /\ ips' \subseteq Locals
           /\ echoLocal' \in [Discrs -> Locals \cup {None}]
           /\ \A m \in Locals : (Cardinality(Holders(m)) <= refs[m])'
           /\ \A m \in Locals : refs'[m] > 0 => m \in ips'
           /\ echoLocal'[d] # None
           /\ \A e \in Discrs : echoLocal[e] # None => echoLocal'[e] # None
  <1> USE DEF AddrType
  <1>1. /\ refs' \in [Locals -> Nat] /\ ips' \subseteq Locals
        /\ echoLocal' \in [Discrs -> Locals \cup {None}]
    BY DEF Counted, CountLocal
  <1>2. ASSUME NEW m \in Locals PROVE (Cardinality(Holders(m)) <= refs[m])'
    <2>1. CASE m = l
      <3>1. Holders(l)' \subseteq Holders(l) \cup {d}
        BY DEF Holders, CountLocal, Counted
      <3> DEFINE H == Holders(l)
      <3>a. IsFiniteSet(H) /\ Cardinality(H) \in Nat
        BY HoldersFinite
      <3>b. /\ IsFiniteSet(H \cup {d})
            /\ Cardinality(H \cup {d}) = IF d \in H THEN Cardinality(H) ELSE Cardinality(H) + 1
        BY <3>a, FS_AddElement
      <3>2. /\ IsFiniteSet(H \cup {d})
            /\ Cardinality(H \cup {d}) <= Cardinality(H) + 1
            /\ Cardinality(H \cup {d}) \in Nat
        <4> HIDE DEF H
        <4> QED BY <3>a, <3>b
      <3>3. /\ Cardinality(Holders(l)') <= Cardinality(Holders(l) \cup {d})
            /\ Cardinality(Holders(l)') \in Nat
        BY <3>1, <3>2, FS_Subset, FS_CardinalityType
      <3>4. refs'[l] = refs[l] + 1 /\ refs[l] \in Nat
        BY DEF CountLocal, Counted
      <3>5. Cardinality(Holders(l)) <= refs[l] /\ Cardinality(Holders(l)) \in Nat
        BY HoldersFinite DEF Counted
      <3> QED
        BY <2>1, <3>2, <3>3, <3>4, <3>5
    <2>2. CASE m # l
      <3>1. Holders(m)' \subseteq Holders(m)
        BY <2>2 DEF Holders, CountLocal, Counted
      <3>2. /\ Cardinality(Holders(m)') <= Cardinality(Holders(m))
            /\ Cardinality(Holders(m)') \in Nat /\ Cardinality(Holders(m)) \in Nat
        BY <3>1, HoldersFinite, FS_Subset, FS_CardinalityType
      <3>3. refs'[m] = refs[m] /\ refs[m] \in Nat
        BY <2>2 DEF CountLocal, Counted
      <3>4. Cardinality(Holders(m)) <= refs[m]
        BY DEF Counted
      <3> QED
        BY <3>2, <3>3, <3>4
    <2> QED
      BY <2>1, <2>2
  <1>3. \A m \in Locals : refs'[m] > 0 => m \in ips'
    BY DEF CountLocal, Counted
  <1>4. echoLocal'[d] # None /\ \A e \in Discrs : echoLocal[e] # None => echoLocal'[e] # None
    BY BfdAssumption DEF CountLocal, Counted
  <1> QED
    BY <1>1, <1>2, <1>3, <1>4

\* A release gives back one reference, and the session it was given back for
\* no longer holds the address: the others are still counted.
LEMMA ReleaseCounts ==
    ASSUME Counted, NEW d \in Discrs, NEW l \in Locals, echoLocal[d] = l, Release(l),
           echoLocal' = [echoLocal EXCEPT ![d] = None]
    PROVE  /\ refs' \in [Locals -> Nat] /\ ips' \subseteq Locals
           /\ \A m \in Locals : (Cardinality(Holders(m)) <= refs[m])'
           /\ \A m \in Locals : refs'[m] > 0 => m \in ips'
  <1> USE DEF AddrType
  <1>1. d \in Holders(l) /\ Cardinality(Holders(l)) > 0 /\ Cardinality(Holders(l)) \in Nat
    BY HoldersFinite DEF Holders
  <1>2. refs[l] \in Nat /\ refs[l] # 0 /\ Cardinality(Holders(l)) <= refs[l]
    BY <1>1 DEF Counted
  <1>3. /\ refs' = [refs EXCEPT ![l] = refs[l] - 1]
        /\ ips' = IF refs[l] - 1 = 0 THEN ips \ {l} ELSE ips
    BY <1>2 DEF Release
  <1>4. refs' \in [Locals -> Nat] /\ ips' \subseteq Locals
    BY <1>2, <1>3 DEF Counted
  <1>5. \A m \in Locals : refs'[m] > 0 => m \in ips'
    BY <1>2, <1>3 DEF Counted
  <1>6. ASSUME NEW m \in Locals PROVE (Cardinality(Holders(m)) <= refs[m])'
    <2>1. CASE m = l
      <3>1. Holders(l)' = Holders(l) \ {d}
        BY BfdAssumption DEF Holders, Counted
      <3>2. Cardinality(Holders(l)') = Cardinality(Holders(l)) - 1
        BY <1>1, <3>1, HoldersFinite, FS_RemoveElement
      <3> QED
        BY <1>1, <1>2, <1>3, <2>1, <3>2 DEF Counted
    <2>2. CASE m # l
      <3>1. Holders(m)' = Holders(m)
        BY <2>2, BfdAssumption DEF Holders, Counted
      <3> QED
        BY <1>3, <2>2, <3>1 DEF Counted
    <2> QED
      BY <2>1, <2>2
  <1> QED
    BY <1>4, <1>5, <1>6

----------------------------------------------------------------------------
\* Steps that leave the addresses alone keep the counts, given that a row the
\* step makes belongs to a session that had one.
LEMMA QuietStep ==
    ASSUME Counted, UNCHANGED addrs, DOMAIN timers' = Keys, DOMAIN xdp' = Keys,
           \A d \in Discrs : HasRow(d)' => HasRow(d)
    PROVE  Counted'
  BY DEF Counted, AddrType, addrs, Holders

\* EchoArm: the session counts its address before its row exists.
LEMMA ArmStep ==
    ASSUME Counted, NEW d \in Discrs, NEW l \in Locals, EchoArm(d, l)
    PROVE  Counted'
  <1>1. \A e \in Discrs : HasRow(e)' => e = d \/ HasRow(e)
    BY KeyFacts DEF HasRow, EchoArm, Replace, Counted, AddrType, origin
  <1>2. DOMAIN timers' = Keys /\ DOMAIN xdp' = Keys
    BY DEF EchoArm, Replace, Counted, AddrType
  <1>3. CountLocal(d, l)
    BY DEF EchoArm
  <1> QED
    BY <1>1, <1>2, <1>3, CountLocalCounts DEF Counted, AddrType

\* EchoArmFull: the failed call leaves its reference, and no row.
LEMMA ArmFullStep ==
    ASSUME Counted, NEW d \in Discrs, NEW l \in Locals, EchoArmFull(d, l)
    PROVE  Counted'
  <1>1. \A e \in Discrs : HasRow(e)' => HasRow(e)
    BY DEF HasRow, EchoArmFull, maps, origin
  <1>2. DOMAIN timers' = Keys /\ DOMAIN xdp' = Keys
    BY DEF EchoArmFull, maps, Counted, AddrType
  <1>3. CountLocal(d, l)
    BY DEF EchoArmFull
  <1> QED
    BY <1>1, <1>2, <1>3, CountLocalCounts DEF Counted, AddrType

\* EchoDisarm: the row goes with the address, and the lock keeps the
\* originator from writing it back.
LEMMA DisarmStep ==
    ASSUME Counted, NEW d \in Discrs, EchoDisarm(d)
    PROVE  Counted'
  <1> USE DEF AddrType
  <1>1. \A e \in Discrs : HasRow(e)' => e # d /\ HasRow(e)
    BY KeyFacts DEF HasRow, EchoDisarm, Replace, Counted, origin, Unlocked
  <1>2. DOMAIN timers' = Keys /\ DOMAIN xdp' = Keys
    BY DEF EchoDisarm, Replace, Counted
  <1>3. /\ echoLocal' = [echoLocal EXCEPT ![d] = None]
        /\ echoLocal' \in [Discrs -> Locals \cup {None}]
    BY DEF EchoDisarm, Counted
  <1>4. /\ refs' \in [Locals -> Nat] /\ ips' \subseteq Locals
        /\ \A m \in Locals : (Cardinality(Holders(m)) <= refs[m])'
        /\ \A m \in Locals : refs'[m] > 0 => m \in ips'
    <2>1. CASE echoLocal[d] = None
      <3>1. UNCHANGED <<refs, ips>> /\ echoLocal' = echoLocal
        BY <2>1, <1>3 DEF EchoDisarm, Counted
      <3> QED
        BY <3>1 DEF Counted, Holders
    <2>2. CASE echoLocal[d] # None
      <3>1. echoLocal[d] \in Locals /\ Release(echoLocal[d])
        BY <2>2 DEF EchoDisarm, Counted
      <3> QED
        BY <3>1, <1>3, ReleaseCounts
    <2> QED
      BY <2>1, <2>2
  <1>5. \A e \in Discrs : HasRow(e)' => echoLocal'[e] # None
    BY <1>1, <1>3 DEF Counted
  <1> QED
    BY <1>2, <1>3, <1>4, <1>5 DEF Counted

\* The XDP program and the timers write to rows that exist.
LEMMA XdpStep ==
    ASSUME Counted, NEW k \in Keys, Xdp(k) \/ DetectTimeout(k)
    PROVE  Counted'
  <1>1. UNCHANGED <<addrs, origin>>
    BY DEF Xdp, Find, KickClear, KickStart, DetectTimeout
  <1>2. DOMAIN timers' = Keys /\ DOMAIN xdp' = Keys
    BY DEF Xdp, Find, KickClear, KickStart, DetectTimeout, Counted, AddrType
  <1>3. \A j \in Keys : j # k => timers'[j] = timers[j] /\ xdp'[j] = xdp[j]
    BY DEF Xdp, Find, KickClear, KickStart, DetectTimeout, Counted, AddrType
  <1>4. timers[k] # None \/ xdp[k] # "idle"
    BY DEF Xdp, Find, KickClear, KickStart, DetectTimeout
  <1>5. \A d \in Discrs : HasRow(d)' => HasRow(d)
    BY <1>1, <1>3, <1>4, KeyFacts DEF HasRow, origin
  <1> QED
    BY <1>1, <1>2, <1>5, QuietStep

\* The originator writes a row back while it holds the lock: it is still there.
LEMMA MarkingStep ==
    ASSUME Counted, OriginType, Marking
    PROVE  Counted'
  <1> USE DEF Counted, AddrType, OriginType
  <1>1. CASE Lock \/ Unlock
    <2>1. \A d \in Discrs : HasRow(d)' => HasRow(d)
      BY <1>1 DEF HasRow, Lock, Unlock, Resting, maps
    <2> QED
      BY <1>1, <2>1, QuietStep DEF Lock, Unlock, maps
  <1>2. CASE \E d \in Discrs : MarkGet(d)
    <2> PICK d \in Discrs : MarkGet(d)
      BY <1>2
    <2>1. \A e \in Discrs : HasRow(e)' => HasRow(e)
      BY DEF HasRow, MarkGet, Unarmed, maps
    <2> QED
      BY <2>1, QuietStep DEF MarkGet, maps
  <1>3. CASE MarkPut
    <2>1. \A e \in Discrs : e # eng.cur => Echo(e) # Echo(eng.cur)
      BY KeyFacts
    <2>2. \A e \in Discrs : HasRow(e)' => HasRow(e)
      BY <1>3, <2>1, KeyFacts DEF HasRow, MarkPut, Replace
    <2> QED
      BY <1>3, <2>2, QuietStep DEF MarkPut, Replace
  <1> QED
    BY <1>1, <1>2, <1>3 DEF Marking

\* The calls for the control watchdog touch its rows only.
LEMMA DetectStep ==
    ASSUME Counted, NEW d \in Watched, DetectArm(d) \/ DetectDisarm(d)
    PROVE  Counted'
  <1> USE DEF Counted, AddrType
  <1>1. \A e \in Discrs : HasRow(e)' => HasRow(e)
    BY KeyFacts DEF HasRow, DetectArm, DetectDisarm, Replace, origin
  <1> QED
    BY <1>1, QuietStep DEF DetectArm, DetectDisarm, Replace

LEMMA RestStep ==
    ASSUME Counted, OriginType,
           \/ Flap \/ Handle \/ Tick \/ Poll
           \/ \E d \in Discrs : EchoDisarmSend(d) \/ EchoArmSend(d) \/ Expire(d)
           \/ UNCHANGED vars
    PROVE  Counted'
  <1>1. UNCHANGED <<addrs, maps>>
    BY DEF Flap, Handle, Tick, Poll, EchoDisarmSend, EchoArmSend, Expire, vars
  <1>2. eng'.pc = "put" => UNCHANGED eng
    BY DEF Flap, Handle, Tick, Poll, EchoDisarmSend, EchoArmSend, Expire, vars, origin,
           OriginType
  <1>3. \A d \in Discrs : HasRow(d)' => HasRow(d)
    BY <1>1, <1>2 DEF HasRow, maps
  <1> QED
    BY <1>1, <1>3, QuietStep DEF maps, Counted, AddrType

LEMMA InitOrigin == Init => OriginType
  BY DEF Init, Resting, OriginType

LEMMA NextOrigin == OriginType /\ [Next]_vars => OriginType'
  <1> SUFFICES ASSUME OriginType, [Next]_vars PROVE OriginType'
    OBVIOUS
  <1> USE DEF OriginType
  <1>1. CASE Handle
    BY <1>1 DEF Handle
  <1>4. CASE Tick \/ Lock \/ MarkPut \/ Unlock
    <2>1. eng' \in {[pc |-> "wait", marks |-> expired, cur |-> eng.cur],
                   [pc |-> "loop", marks |-> eng.marks, cur |-> eng.cur],
                   [pc |-> "loop", marks |-> eng.marks, cur |-> None], Resting}
      BY <1>4 DEF Tick, Lock, MarkPut, Unlock
    <2>2. expired' = expired
      BY <1>4 DEF Tick, Lock, MarkPut, Unlock
    <2> QED
      BY <2>1, <2>2 DEF Resting
  <1>5. CASE \E d \in Discrs : MarkGet(d)
    <2> PICK d \in Discrs : MarkGet(d)
      BY <1>5
    <2>1. CASE Unarmed(d)
      BY <2>1 DEF MarkGet
    <2>2. CASE ~Unarmed(d)
      BY <2>2 DEF MarkGet
    <2> QED
      BY <2>1, <2>2
  <1>2. CASE \E d \in Discrs : Expire(d)
    BY <1>2 DEF Expire
  <1>3. CASE \/ Flap \/ Poll
             \/ \E d \in Discrs : \/ \E l \in Locals : EchoArm(d, l) \/ EchoArmFull(d, l)
                                  \/ EchoDisarmSend(d) \/ Calling(d)
             \/ \E d \in Watched : DetectArm(d) \/ DetectDisarm(d)
             \/ \E k \in Keys : Xdp(k) \/ DetectTimeout(k)
             \/ UNCHANGED vars
    <2>1. UNCHANGED origin
      BY <1>3 DEF Flap, Poll, EchoArm, EchoArmFull, EchoDisarmSend, Calling, EchoArmSend,
         EchoDisarm, DetectArm, DetectDisarm, Xdp, Find, KickClear, KickStart,
         DetectTimeout, vars
    <2> QED
      BY <2>1 DEF origin
  <1> QED
    BY <1>1, <1>2, <1>3, <1>4, <1>5 DEF Next, Marking

LEMMA NextCounted == Counted /\ OriginType /\ [Next]_vars => Counted'
  BY ArmStep, ArmFullStep, DisarmStep, XdpStep, MarkingStep, DetectStep, RestStep
     DEF Next, Calling

----------------------------------------------------------------------------
\* bfd_echo_arm and bfd_echo_disarm share an address between sessions with a
\* count: whatever arms again, moves to another address, fails on a full map
\* or is disarmed, and wherever the XDP program and the originator are with
\* the rows meanwhile, the address of a session with a row stays in
\* OUR_LOCAL_IPS.
THEOREM LocalsHeldHolds == Spec => []LocalsHeld
  <1>1. Spec => []OriginType
    BY InitOrigin, NextOrigin, PTL DEF Spec
  <1>2. Spec => []Counted
    BY <1>1, InitCounted, NextCounted, PTL DEF Spec
  <1> QED
    BY <1>2, CountedHolds, PTL
=============================================================================
