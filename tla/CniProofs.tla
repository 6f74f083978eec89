----------------------------- MODULE CniProofs -----------------------------
(***************************************************************************)
(* For any pods, addresses and bounds: as long as a plugin may be killed   *)
(* and the daemon may die, but not between the two files of a delete nor   *)
(* with a reply unread, a running pod keeps its address.                   *)
(***************************************************************************)
EXTENDS Cni, FiniteSetTheorems, WellFoundedInduction, TLAPS

\* A set of addresses has a lowest one.
LEMMA LowestExists ==
    ASSUME NEW S \in SUBSET Nat, S # {}
    PROVE  Min(S) \in S
<1> DEFINE R == {ss \in Nat \X Nat : ss[1] < ss[2]}
<1>1. IsWellFoundedOn(R, Nat)
  BY NatLessThanWellFounded, Zenon DEF OpToRel
<1>2. PICK x \in S : \A y \in S : ~(<<y, x>> \in R)
  <2> HIDE DEF R
  <2> QED
    BY <1>1, WFMin
<1>3. \A y \in S : x <= y
  <2> TAKE y \in S
  <2>1. x \in Nat /\ y \in Nat
    OBVIOUS
  <2>2. ~(y < x)
    BY <2>1, <1>2
  <2> QED
    BY <2>1, <2>2
<1> QED
  BY <1>3 DEF Min

\* alloc_ip hands out an address of the pool that is free or the owner's.
LEMMA AllocateGives ==
    ASSUME NEW p \in Pods, NEW i \in Allocate(p)
    PROVE  i \in Ips /\ ipam[i] \in {p, Nobody}
<1> DEFINE mine == {j \in Ips : ipam[j] = p}
           free == {j \in Ips : ipam[j] = Nobody}
<1>1. mine \in SUBSET Nat /\ free \in SUBSET Nat
  BY IpsAssumption
<1>2. mine # {} => Min(mine) \in mine
  BY <1>1, LowestExists
<1>3. free # {} => Min(free) \in free
  BY <1>1, LowestExists
<1>4. (mine # {} /\ i = Min(mine)) \/ (free # {} /\ i = Min(free))
  BY DEF Allocate
<1> QED
  BY <1>2, <1>3, <1>4

LEMMA GoFacts ==
    ASSUME TypeOK, NEW p \in Pods, NEW pc \in Steps, Go(p, pc)
    PROVE  /\ plug' \in [Pods -> [pc : Steps, ip : Ips \cup {NoIp}]]
           /\ plug'[p].pc = pc /\ plug'[p].ip = plug[p].ip
           /\ \A q \in Pods : q # p => plug'[q] = plug[q]
BY DEF TypeOK, Go

LEMMA RestFacts ==
    ASSUME TypeOK, NEW p \in Pods, NEW pc \in Steps, NEW i \in Ips \cup {NoIp},
           plug' = [plug EXCEPT ![p] = [pc |-> pc, ip |-> i]]
    PROVE  /\ plug' \in [Pods -> [pc : Steps, ip : Ips \cup {NoIp}]]
           /\ plug'[p].pc = pc /\ plug'[p].ip = i
           /\ \A q \in Pods : q # p => plug'[q] = plug[q]
BY DEF TypeOK

\* What a crash leaves of the plugins: they keep their addresses, and only
\* those inside a daemon call move.
LEMMA CrashFacts ==
    ASSUME TypeOK, Crash
    PROVE  /\ plug' \in [Pods -> [pc : Steps, ip : Ips \cup {NoIp}]]
           /\ \A p \in Pods :
                /\ plug'[p].ip = plug[p].ip
                /\ \/ plug'[p].pc = AfterCrash(plug[p].pc)
                   \/ At(p, "finish") /\ "lostReply" \in Faults
<1>1. PICK lost \in SUBSET {p \in Pods : At(p, "finish") /\ "lostReply" \in Faults} :
         plug' = [p \in Pods |->
                    [plug[p] EXCEPT !.pc = IF p \in lost THEN "unplumb" ELSE AfterCrash(@)]]
  BY DEF Crash
<1>2. \A pc \in Steps : AfterCrash(pc) \in Steps
  BY DEF AfterCrash, Steps, AddSteps, DelSteps
<1>3. \A p \in Pods : plug'[p] = [pc |-> IF p \in lost THEN "unplumb" ELSE AfterCrash(plug[p].pc),
                                  ip |-> plug[p].ip]
  BY <1>1 DEF TypeOK
<1>4. "unplumb" \in Steps
  BY DEF Steps, AddSteps
<1>5. \A p \in Pods : plug'[p] \in [pc : Steps, ip : Ips \cup {NoIp}]
  <2> TAKE p \in Pods
  <2>1. plug[p].pc \in Steps /\ plug[p].ip \in Ips \cup {NoIp}
    BY DEF TypeOK
  <2>2. (IF p \in lost THEN "unplumb" ELSE AfterCrash(plug[p].pc)) \in Steps
    BY <2>1, <1>2, <1>4
  <2>3. PICK c \in Steps : plug'[p] = [pc |-> c, ip |-> plug[p].ip]
    BY <2>2, <1>3
  <2> QED
    BY <2>1, <2>3
<1>6. plug' = [p \in Pods |-> plug'[p]]
  BY <1>1
<1>7. plug' \in [Pods -> [pc : Steps, ip : Ips \cup {NoIp}]]
  BY <1>5, <1>6
<1> QED
  BY <1>3, <1>7 DEF At

-----------------------------------------------------------------------------
(* Types, and the size of PORTS.                                           *)

Sized == TypeOK /\ IsFiniteSet(ports)

LEMMA InitSized ==
    ASSUME Init
    PROVE  Sized
<1>1. IsFiniteSet(ports) /\ Cardinality(ports) = 0
  BY FS_EmptySet DEF Init
<1> QED
  BY <1>1, BoundsAssumption DEF Init, Sized, TypeOK, Steps, NoRecord, NoIfindex

\* A row goes in where there is room for it.
LEMMA RowFits ==
    ASSUME Sized, NEW p \in Pods, HasRoom(p)
    PROVE  /\ ports \cup {Own(p)} \subseteq Ifindex
           /\ IsFiniteSet(ports \cup {Own(p)})
           /\ Cardinality(ports \cup {Own(p)}) <= MaxPorts
<1>1. Own(p) \in Ifindex
  BY DEF Own, Ifindex, Sized, TypeOK
<1>2. Cardinality(ports) \in Nat /\ MaxPorts \in Nat
  BY FS_CardinalityType, BoundsAssumption DEF Sized
<1>3. /\ IsFiniteSet(ports \cup {Own(p)})
      /\ Cardinality(ports \cup {Own(p)}) =
           IF Own(p) \in ports THEN Cardinality(ports) ELSE Cardinality(ports) + 1
  BY FS_AddElement DEF Sized
<1> QED
  BY <1>1, <1>2, <1>3 DEF HasRoom, Sized, TypeOK

\* Where files, datapath and the daemon are left alone, the plugin's move and
\* the kernel's state are all there is to check.
LEMMA NextSized ==
    ASSUME Sized, [Next]_vars
    PROVE  Sized'
<1> USE DEF Sized
<1>s. /\ {"none", "up", "zombie", "gone", "plumb", "attach", "program", "record", "finish",
          "unplumb", "release", "delRoutes", "delRelease", "delRecord", "delLink"} = Steps
  BY DEF Steps, AddSteps, DelSteps
<1>g. \A p \in Pods, pc \in Steps : Go(p, pc) =>
          plug' \in [Pods -> [pc : Steps, ip : Ips \cup {NoIp}]]
  BY GoFacts
<1>r. \A p \in Pods, pc \in Steps, i \in Ips \cup {NoIp} :
          plug' = [plug EXCEPT ![p] = [pc |-> pc, ip |-> i]] =>
          plug' \in [Pods -> [pc : Steps, ip : Ips \cup {NoIp}]]
  BY RestFacts
<1>o. \A p \in Pods : Own(p) \in Ifindex /\ plug[p].ip \in Ips \cup {NoIp}
  BY DEF TypeOK, Own, Ifindex
<1>1. CASE UNCHANGED vars
  BY <1>1 DEF vars, TypeOK
<1>2. ASSUME NEW p \in Pods, AllocIp(p)
      PROVE  Sized'
  <2>1. PICK i \in Allocate(p) : /\ ipam' = [ipam EXCEPT ![i] = p]
                                 /\ plug' = [plug EXCEPT ![p] = [pc |-> "plumb", ip |-> i]]
    BY <1>2 DEF AllocIp
  <2>2. i \in Ips /\ "plumb" \in Steps
    BY AllocateGives, <1>s
  <2>3. plug' \in [Pods -> [pc : Steps, ip : Ips \cup {NoIp}]]
    BY <2>1, <2>2, <1>r
  <2> QED
    BY <1>2, <2>1, <2>2, <2>3 DEF AllocIp, TypeOK, kernel, datapath, life
<1>3. ASSUME NEW p \in Pods, Plumb(p) \/ Unplumb(p) \/ DelDone(p)
      PROVE  Sized'
  <2>1. plug' \in [Pods -> [pc : Steps, ip : Ips \cup {NoIp}]]
    BY <1>3, <1>g, <1>r, <1>s DEF Plumb, Unplumb, DelDone
  <2>2. veth' \in [Pods -> Nat] /\ born' \in [Pods -> Nat]
    <3>1. CASE Plumb(p)
      BY <3>1 DEF Plumb, TypeOK
    <3>2. CASE Unplumb(p) \/ DelDone(p)
      BY <3>2 DEF Unplumb, DelDone, DelLink, TypeOK
    <3> QED
      BY <1>3, <3>1, <3>2
  <2>3. kroute' \in [Ips -> Pods \cup {Nobody}]
    BY <1>3 DEF Plumb, Unplumb, DelDone, DelLink, TypeOK
  <2>4. UNCHANGED <<ipam, rec, fib, ports, attached, daemon, todo, crashes>>
    BY <1>3 DEF Plumb, Unplumb, DelDone, files, datapath, life
  <2> QED
    BY <2>1, <2>2, <2>3, <2>4 DEF TypeOK
<1>4. ASSUME NEW p \in Pods,
             PlumbFails(p) \/ AddDone(p) \/ ReleaseSkipped(p) \/ Del(p) \/ Gc(p)
               \/ DeleteAbsent(p) \/ DeleteLost(p) \/ Kill(p)
      PROVE  Sized'
  <2>1. plug' \in [Pods -> [pc : Steps, ip : Ips \cup {NoIp}]]
    BY <1>4, <1>g, <1>r, <1>s
       DEF PlumbFails, AddDone, ReleaseSkipped, Del, Gc, DeleteAbsent, DeleteLost, Kill
  <2>2. UNCHANGED <<ipam, rec, veth, born, kroute, fib, ports, attached, daemon, todo, crashes>>
    BY <1>4 DEF PlumbFails, AddDone, ReleaseSkipped, Del, Gc, DeleteAbsent, DeleteLost,
                Kill, files, kernel, datapath, life
  <2> QED
    BY <2>1, <2>2 DEF TypeOK
<1>5. ASSUME NEW p \in Pods, Attach(p)
      PROVE  Sized'
  <2>1. plug' \in [Pods -> [pc : Steps, ip : Ips \cup {NoIp}]]
    BY <1>5, <1>g, <1>s DEF Attach
  <2>2. ports' \subseteq Ifindex /\ IsFiniteSet(ports') /\ Cardinality(ports') <= MaxPorts
    BY <1>5, RowFits DEF Attach, TypeOK
  <2>3. attached' \subseteq Ifindex
    BY <1>5, <1>o DEF Attach, TypeOK
  <2> QED
    BY <1>5, <2>1, <2>2, <2>3 DEF Attach, TypeOK, files, kernel, life
<1>6. ASSUME NEW p \in Pods, Program(p) \/ LateFailure(p)
      PROVE  Sized'
  <2>1. plug' \in [Pods -> [pc : Steps, ip : Ips \cup {NoIp}]]
    BY <1>6, <1>g, <1>s DEF Program, LateFailure
  <2>2. fib' \in [Ips -> Ifindex \cup {NoIfindex}] /\ kroute' \in [Ips -> Pods \cup {Nobody}]
    BY <1>6, <1>o DEF Program, LateFailure, TypeOK, kernel
  <2> QED
    BY <1>6, <2>1, <2>2 DEF Program, LateFailure, TypeOK, files, kernel, life
<1>7. ASSUME NEW p \in Pods, PutEndpoint(p)
      PROVE  Sized'
  <2>1. plug' \in [Pods -> [pc : Steps, ip : Ips \cup {NoIp}]]
    BY <1>7, <1>g, <1>s DEF PutEndpoint
  <2>2. plug[p].ip \in Ips \cup {NoIp}
    BY DEF TypeOK
  <2>3. rec' \in [Pods -> [ip : Ips \cup {NoIp}, ifindex : Ifindex \cup {NoIfindex}]]
    BY <1>7, <2>2, <1>o DEF PutEndpoint, TypeOK
  <2> QED
    BY <1>7, <2>1, <2>3 DEF PutEndpoint, TypeOK, kernel, datapath, life
<1>8. ASSUME NEW p \in Pods, ReleaseIp(p)
      PROVE  Sized'
  <2>1. plug' \in [Pods -> [pc : Steps, ip : Ips \cup {NoIp}]]
    BY <1>8, <1>r, <1>s DEF ReleaseIp
  <2>2. ipam' \in [Ips -> Pods \cup {Nobody}]
    BY <1>8 DEF ReleaseIp, Released, TypeOK
  <2> QED
    BY <1>8, <2>1, <2>2 DEF ReleaseIp, TypeOK, kernel, datapath, life
<1>9. ASSUME NEW p \in Pods, DeleteRoutes(p)
      PROVE  Sized'
  <2>1. plug' \in [Pods -> [pc : Steps, ip : Ips \cup {NoIp}]]
    BY <1>9, <1>g, <1>s DEF DeleteRoutes
  <2>2. fib' \in [Ips -> Ifindex \cup {NoIfindex}] /\ kroute' \in [Ips -> Pods \cup {Nobody}]
    BY <1>9 DEF DeleteRoutes, TypeOK
  <2> QED
    BY <1>9, <2>1, <2>2 DEF DeleteRoutes, TypeOK, files, life
<1>10. ASSUME NEW p \in Pods, DeleteRelease(p) \/ DeleteRecord(p)
      PROVE  Sized'
  <2>1. plug' \in [Pods -> [pc : Steps, ip : Ips \cup {NoIp}]]
    BY <1>10, <1>g, <1>s DEF DeleteRelease, DeleteRecord
  <2>2. ipam' \in [Ips -> Pods \cup {Nobody}]
    BY <1>10 DEF DeleteRelease, DeleteRecord, Released, TypeOK
  <2>3. rec' \in [Pods -> [ip : Ips \cup {NoIp}, ifindex : Ifindex \cup {NoIfindex}]]
    BY <1>10 DEF DeleteRelease, DeleteRecord, TypeOK, NoRecord
  <2>4. attached' \subseteq Ifindex
    BY <1>10 DEF DeleteRelease, DeleteRecord, TypeOK, datapath
  <2> QED
    BY <1>10, <2>1, <2>2, <2>3, <2>4
       DEF DeleteRelease, DeleteRecord, TypeOK, kernel, datapath, life
<1>11. CASE Crash
  <2>1. ports' = {} /\ IsFiniteSet(ports') /\ Cardinality(ports') = 0
    BY <1>11, FS_EmptySet DEF Crash
  <2>2. plug' \in [Pods -> [pc : Steps, ip : Ips \cup {NoIp}]]
    BY <1>11, CrashFacts
  <2> QED
    BY <1>11, <2>1, <2>2, BoundsAssumption DEF Crash, TypeOK, files, kernel
<1>12. CASE Restart \/ Serve
  <2>1. todo' \subseteq Pods /\ daemon' \in {"up", "down", "reconcile"}
    BY <1>12 DEF Restart, Serve, TypeOK
  <2> QED
    BY <1>12, <2>1 DEF Restart, Serve, TypeOK, files, kernel, datapath
<1>13. ASSUME NEW p \in Pods, ReconcileGone(p)
       PROVE  Sized'
  <2>1. ipam' \in [Ips -> Pods \cup {Nobody}]
    BY <1>13 DEF ReconcileGone, Released, TypeOK
  <2>2. rec' \in [Pods -> [ip : Ips \cup {NoIp}, ifindex : Ifindex \cup {NoIfindex}]]
    BY <1>13 DEF ReconcileGone, TypeOK, NoRecord
  <2> QED
    BY <1>13, <2>1, <2>2 DEF ReconcileGone, TypeOK, kernel, datapath
<1>14. ASSUME NEW p \in Pods, ReconcileLive(p)
       PROVE  Sized'
  <2>1. ports' \subseteq Ifindex /\ IsFiniteSet(ports') /\ Cardinality(ports') <= MaxPorts
    BY <1>14, RowFits DEF ReconcileLive, TypeOK
  <2>2. rec' \in [Pods -> [ip : Ips \cup {NoIp}, ifindex : Ifindex \cup {NoIfindex}]]
    <3>1. rec' \in {rec, [rec EXCEPT ![p] = [ip |-> rec[p].ip, ifindex |-> Own(p)]]}
      BY <1>14 DEF ReconcileLive, TypeOK
    <3>2. [ip |-> rec[p].ip, ifindex |-> Own(p)]
             \in [ip : Ips \cup {NoIp}, ifindex : Ifindex \cup {NoIfindex}]
      BY <1>o DEF TypeOK
    <3> QED
      BY <3>1, <3>2 DEF TypeOK
  <2>3. /\ attached' \subseteq Ifindex
        /\ fib' \in [Ips -> Ifindex \cup {NoIfindex}] /\ kroute' \in [Ips -> Pods \cup {Nobody}]
    BY <1>14, <1>o DEF ReconcileLive, TypeOK
  <2> QED
    BY <1>14, <2>1, <2>2, <2>3 DEF ReconcileLive, TypeOK
<1> QED
  BY <1>1, <1>2, <1>3, <1>4, <1>5, <1>6, <1>7, <1>8, <1>9, <1>10, <1>11, <1>12, <1>13, <1>14
     DEF Next, Add, DelStep, Recover

\* Variables keep their types, and PORTS is never asked to hold more than it
\* can, whatever is killed, crashes or fails.
THEOREM TypesHold == Spec => []TypeOK
<1>1. Init => Sized
  BY InitSized
<1>2. Sized /\ [Next]_vars => Sized'
  BY NextSized
<1>3. Sized => TypeOK
  BY DEF Sized
<1> QED
  BY <1>1, <1>2, <1>3, PTL DEF Spec

-----------------------------------------------------------------------------
(* What the reconcile relies on.                                           *)

LEMMA NextRecovery ==
    ASSUME TypeOK, Recovery, [Next]_vars
    PROVE  Recovery'
<1> DEFINE Wired == {"attach", "program", "record", "finish", "up"}
<1>t. \A p \in Pods : plug[p].pc \in Steps
  BY DEF TypeOK
<1>1. CASE UNCHANGED vars
  BY <1>1 DEF vars, Recovery, At, Up
<1>2. ASSUME NEW p \in Pods,
             AllocIp(p) \/ PlumbFails(p) \/ Attach(p) \/ Program(p) \/ AddDone(p)
               \/ LateFailure(p) \/ ReleaseIp(p) \/ ReleaseSkipped(p) \/ Del(p) \/ Gc(p)
               \/ DeleteAbsent(p) \/ DeleteLost(p) \/ DeleteRoutes(p) \/ DeleteRelease(p)
               \/ Kill(p)
      PROVE  Recovery'
  <2>1. UNCHANGED <<rec, veth, daemon, todo>>
    BY <1>2 DEF AllocIp, PlumbFails, Attach, Program, AddDone, LateFailure, ReleaseIp,
                ReleaseSkipped, Del, Gc, DeleteAbsent, DeleteLost, DeleteRoutes,
                DeleteRelease, Kill, files, kernel, life
  <2>2. \A q \in Pods : q # p => plug'[q] = plug[q]
    BY <1>2 DEF TypeOK, AllocIp, PlumbFails, Attach, Program, AddDone, LateFailure, ReleaseIp,
                ReleaseSkipped, Del, Gc, DeleteAbsent, DeleteLost, DeleteRoutes,
                DeleteRelease, Kill, Go
  <2>3. plug'[p].pc \in Wired => plug[p].pc \in Wired
    BY <1>2 DEF TypeOK, AllocIp, PlumbFails, Attach, Program, AddDone, LateFailure, ReleaseIp,
                ReleaseSkipped, Del, Gc, DeleteAbsent, DeleteLost, DeleteRoutes,
                DeleteRelease, Kill, Go, At
  <2>4. plug'[p].pc \in Deleting => plug[p].pc \in Deleting \/ Up
    BY <1>2 DEF TypeOK, AllocIp, PlumbFails, Attach, Program, AddDone, LateFailure, ReleaseIp,
                ReleaseSkipped, Del, Gc, DeleteAbsent, DeleteLost, DeleteRoutes,
                DeleteRelease, Kill, Go, At, Deleting
  <2> QED
    BY <2>1, <2>2, <2>3, <2>4 DEF Recovery, Up
<1>3. ASSUME NEW p \in Pods, Plumb(p) \/ Unplumb(p) \/ DelDone(p)
      PROVE  Recovery'
  <2>1. UNCHANGED <<rec, daemon, todo>>
    BY <1>3 DEF Plumb, Unplumb, DelDone, files, life
  <2>2. \A q \in Pods : q # p => plug'[q] = plug[q] /\ veth'[q] = veth[q]
    BY <1>3 DEF TypeOK, Plumb, Unplumb, DelDone, DelLink, Go
  <2>3. plug'[p].pc \in {"attach", "release", "gone"} /\ (plug'[p].pc = "attach" => veth'[p] # 0)
    <3>1. CASE Plumb(p)
      BY <3>1 DEF Plumb, TypeOK, Go
    <3>2. CASE Unplumb(p) \/ DelDone(p)
      BY <3>2 DEF Unplumb, DelDone, TypeOK, Go
    <3> QED
      BY <1>3, <3>1, <3>2
  <2> QED
    BY <2>1, <2>2, <2>3 DEF Recovery, Up, Deleting
<1>4. ASSUME NEW p \in Pods, PutEndpoint(p) \/ DeleteRecord(p)
      PROVE  Recovery'
  <2>1. UNCHANGED <<veth, daemon, todo>>
    BY <1>4 DEF PutEndpoint, DeleteRecord, kernel, life
  <2>2. \A q \in Pods : q # p => plug'[q] = plug[q]
    BY <1>4 DEF TypeOK, PutEndpoint, DeleteRecord, Go
  <2>3. /\ plug'[p].pc \in Wired => plug[p].pc \in Wired
        /\ plug'[p].pc \notin Deleting
    BY <1>4 DEF TypeOK, PutEndpoint, DeleteRecord, Go, At, Deleting
  <2>4. Up
    BY <1>4 DEF PutEndpoint, DeleteRecord, Recovery, At, Deleting
  <2> QED
    BY <2>1, <2>2, <2>3, <2>4 DEF Recovery, Up
<1>5. CASE Crash
  <2>1. \A p \in Pods : plug'[p].pc \in Wired => plug[p].pc \in Wired
    BY <1>5, <1>t, CrashFacts DEF AfterCrash, At, Steps, AddSteps, DelSteps
  <2>2. \A p \in Pods : plug'[p].pc \notin Deleting
    <3> TAKE p \in Pods
    <3>1. plug'[p].pc \in {"unplumb", "finish"} \/ plug'[p].pc = AfterCrash(plug[p].pc)
      BY <1>5 DEF Crash, TypeOK
    <3> QED
      BY <3>1, <1>t DEF AfterCrash, Deleting
  <2> QED
    BY <1>5, <2>1, <2>2 DEF Crash, Recovery, kernel, Up
<1>6. CASE Restart \/ Serve
  BY <1>6 DEF Restart, Serve, Recovery, Up, kernel, files, Deleting
<1>7. ASSUME NEW p \in Pods, ReconcileGone(p) \/ ReconcileLive(p)
      PROVE  Recovery'
  <2>1. UNCHANGED <<veth, daemon, plug>> /\ todo' = todo \ {p} /\ daemon = "reconcile"
    BY <1>7 DEF ReconcileGone, ReconcileLive, kernel
  <2>2. \A q \in Pods : q # p => rec'[q] = rec[q]
    BY <1>7 DEF ReconcileGone, ReconcileLive, TypeOK
  <2>3. todo \subseteq Pods
    BY DEF TypeOK
  <2> QED
    BY <2>1, <2>2, <2>3 DEF Recovery, Up
<1> QED
  BY <1>1, <1>2, <1>3, <1>4, <1>5, <1>6, <1>7 DEF Next, Add, DelStep, Recover

-----------------------------------------------------------------------------
(* Who owns which address.                                                 *)

\* release_ip takes nothing from others, if the address it is given is its
\* owner's.
LEMMA ReleaseSpares ==
    ASSUME TypeOK, NEW p \in Pods, NEW i, i \in Ips => ipam[i] = p,
           ipam' = Released(p, i)
    PROVE  \A q \in Pods, j \in Ips : q # p /\ ipam[j] = q => ipam'[j] = q
BY DEF Released

LEMMA NextLedger ==
    ASSUME TypeOK, Ledger, Recovery, [Next]_vars, Faults \subseteq {"kill", "crash"}
    PROVE  Ledger'
<1>n. NoIp \notin Ips /\ NoRecord.ip = NoIp
  BY IpsAssumption DEF NoIp, NoRecord
<1>1. CASE UNCHANGED vars
  BY <1>1 DEF vars, Ledger, At
<1>2. ASSUME NEW p \in Pods,
             Plumb(p) \/ PlumbFails(p) \/ Attach(p) \/ Program(p) \/ AddDone(p)
               \/ LateFailure(p) \/ Unplumb(p) \/ ReleaseSkipped(p) \/ Del(p) \/ Gc(p)
               \/ DeleteAbsent(p) \/ DeleteLost(p) \/ DeleteRoutes(p) \/ DelDone(p)
               \/ Kill(p)
      PROVE  Ledger'
  <2>1. UNCHANGED <<ipam, rec>>
    BY <1>2 DEF Plumb, PlumbFails, Attach, Program, AddDone, LateFailure, Unplumb,
                ReleaseSkipped, Del, Gc, DeleteAbsent, DeleteLost, DeleteRoutes, DelDone,
                Kill, files
  <2>2. \A q \in Pods : q # p => plug'[q] = plug[q]
    BY <1>2 DEF TypeOK, Plumb, PlumbFails, Attach, Program, AddDone, LateFailure, Unplumb,
                ReleaseSkipped, Del, Gc, DeleteAbsent, DeleteLost, DeleteRoutes, DelDone,
                Kill, Go
  <2>3. plug'[p].pc \in Owning => plug[p].pc \in Owning /\ plug'[p].ip = plug[p].ip
    BY <1>2 DEF TypeOK, Plumb, PlumbFails, Attach, Program, AddDone, LateFailure, Unplumb,
                ReleaseSkipped, Del, Gc, DeleteAbsent, DeleteLost, DeleteRoutes, DelDone,
                Kill, Go, At, Owning
  <2>4. plug'[p].pc \in Early => plug[p].pc \in Early
    <3>1. ~LateFailure(p)
      BY DEF LateFailure
    <3> QED
      BY <1>2, <3>1 DEF TypeOK, Plumb, PlumbFails, Attach, Program, AddDone, Unplumb,
                        ReleaseSkipped, Del, Gc, DeleteAbsent, DeleteLost, DeleteRoutes,
                        DelDone, Kill, Go, At, Early
  <2>5. ~At(p, "delRecord")
    BY <1>2 DEF TypeOK, Plumb, PlumbFails, Attach, Program, AddDone, LateFailure, Unplumb,
                ReleaseSkipped, Del, Gc, DeleteAbsent, DeleteLost, DeleteRoutes, DelDone,
                Kill, At
  <2> QED
    BY <2>1, <2>2, <2>3, <2>4, <2>5 DEF Ledger, At
<1>3. ASSUME NEW p \in Pods, AllocIp(p)
      PROVE  Ledger'
  <2>1. PICK i \in Allocate(p) : /\ ipam' = [ipam EXCEPT ![i] = p]
                                 /\ plug' = [plug EXCEPT ![p] = [pc |-> "plumb", ip |-> i]]
    BY <1>3 DEF AllocIp
  <2>2. i \in Ips /\ ipam[i] \in {p, Nobody}
    BY AllocateGives
  <2>3. rec' = rec /\ rec[p] = NoRecord
    BY <1>3 DEF AllocIp, Ledger, At, Early
  <2>4. \A q \in Pods, j \in Ips : q # p /\ ipam[j] = q => ipam'[j] = q
    BY <2>1, <2>2, PodsAssumption DEF TypeOK
  <2>5. plug'[p] = [pc |-> "plumb", ip |-> i] /\ ipam'[i] = p
    BY <2>1, <2>2 DEF TypeOK
  <2>6. \A q \in Pods : q # p => plug'[q] = plug[q]
    BY <2>1 DEF TypeOK
  <2> QED
    BY <2>2, <2>3, <2>4, <2>5, <2>6 DEF Ledger, At
<1>4. ASSUME NEW p \in Pods, PutEndpoint(p)
      PROVE  Ledger'
  <2>1. plug'[p].pc = "finish" /\ plug'[p].ip = plug[p].ip
    BY <1>4 DEF PutEndpoint, Go, TypeOK
  <2>2. \A q \in Pods : q # p => plug'[q] = plug[q] /\ rec'[q] = rec[q]
    BY <1>4 DEF PutEndpoint, Go, TypeOK
  <2>3. rec'[p].ip = plug[p].ip /\ ipam' = ipam /\ plug[p].pc = "record"
    BY <1>4 DEF PutEndpoint, At, TypeOK
  <2> QED
    BY <2>1, <2>2, <2>3 DEF Ledger, At, Owning, Early
<1>5. ASSUME NEW p \in Pods, ReleaseIp(p) \/ DeleteRelease(p)
      PROVE  Ledger'
  <2>1. PICK i : ipam' = Released(p, i) /\ (i \in Ips => ipam[i] = p)
    <3>1. CASE ReleaseIp(p)
      BY <3>1 DEF ReleaseIp, Ledger, At, Owning
    <3>2. CASE DeleteRelease(p)
      BY <3>2, <1>n DEF DeleteRelease, Ledger, At
    <3> QED
      BY <1>5, <3>1, <3>2
  <2>2. \A q \in Pods, j \in Ips : q # p /\ ipam[j] = q => ipam'[j] = q
    BY <2>1, ReleaseSpares
  <2>3. \A q \in Pods : q # p => plug'[q] = plug[q]
    BY <1>5 DEF ReleaseIp, DeleteRelease, Go, TypeOK
  <2>4. /\ rec' = rec
        /\ plug'[p].pc = "delRecord" \/ (plug'[p].pc = "none" /\ rec[p] = NoRecord)
    BY <1>5 DEF ReleaseIp, DeleteRelease, Go, TypeOK, Ledger, At, Early
  <2> QED
    BY <2>2, <2>3, <2>4 DEF Ledger, At, Owning, Early
<1>6. ASSUME NEW p \in Pods, DeleteRecord(p)
      PROVE  Ledger'
  <2>1. \A q \in Pods : q # p => plug'[q] = plug[q] /\ rec'[q] = rec[q]
    BY <1>6 DEF DeleteRecord, Go, TypeOK
  <2>2. ipam' = ipam /\ rec'[p] = NoRecord /\ plug'[p].pc = "delLink"
    BY <1>6 DEF DeleteRecord, Go, TypeOK
  <2> QED
    BY <2>1, <2>2 DEF Ledger, At, Owning, Early
<1>7. CASE Crash
  <2>1. \A p \in Pods : plug'[p].pc = AfterCrash(plug[p].pc) /\ plug'[p].ip = plug[p].ip
    BY <1>7, CrashFacts
  <2>2. \A p \in Pods : ~At(p, "delRecord")
    BY <1>7 DEF Crash
  <2>3. UNCHANGED <<ipam, rec>>
    BY <1>7 DEF Crash, files
  <2>4. \A p \in Pods : /\ plug'[p].pc \in Owning => plug[p].pc \in Owning
                        /\ plug'[p].pc \in Early => plug[p].pc \in Early
    BY <2>1 DEF AfterCrash, Owning, Early
  <2> QED
    BY <2>1, <2>2, <2>3, <2>4 DEF Ledger, At
<1>8. CASE Restart \/ Serve
  BY <1>8 DEF Restart, Serve, Ledger, At, files
<1>9. ASSUME NEW p \in Pods, ReconcileGone(p)
      PROVE  Ledger'
  <2>1. p \in todo /\ veth[p] = 0 /\ rec[p] # NoRecord
    BY <1>9 DEF ReconcileGone, Recovery
  <2>2. plug[p].pc \notin Owning /\ plug[p].pc \notin Early /\ ~At(p, "delRecord")
    BY <1>9, <2>1 DEF ReconcileGone, Recovery, Ledger, Owning, Early, At, Deleting, Up
  <2>3. ipam' = Released(p, rec[p].ip) /\ ipam[rec[p].ip] = p
    BY <1>9, <2>1, <2>2 DEF ReconcileGone, Ledger
  <2>4. \A q \in Pods, j \in Ips : q # p /\ ipam[j] = q => ipam'[j] = q
    BY <2>3, ReleaseSpares
  <2>5. plug' = plug /\ rec'[p] = NoRecord /\ \A q \in Pods : q # p => rec'[q] = rec[q]
    BY <1>9 DEF ReconcileGone, TypeOK
  <2> QED
    BY <2>2, <2>4, <2>5 DEF Ledger, At
<1>10. ASSUME NEW p \in Pods, ReconcileLive(p)
       PROVE  Ledger'
  <2>1. rec[p] # NoRecord
    BY <1>10 DEF ReconcileLive, Recovery
  <2>2. plug' = plug /\ ipam' = ipam /\ rec'[p].ip = rec[p].ip
    BY <1>10 DEF ReconcileLive, TypeOK
  <2>3. \A q \in Pods : q # p => rec'[q] = rec[q]
    BY <1>10 DEF ReconcileLive, TypeOK
  <2> QED
    BY <2>1, <2>2, <2>3 DEF Ledger, At
<1> QED
  BY <1>1, <1>2, <1>3, <1>4, <1>5, <1>6, <1>7, <1>8, <1>9, <1>10
     DEF Next, Add, DelStep, Recover

\* A running pod keeps its address, for any pods and pool and any number of
\* plugin kills and daemon crashes.  Excluded are the faults the code
\* does not survive: a crash between the two files of a delete (shown by
\* MCCniTorn) and an ADD that fails after its record is written.
THEOREM PodsKeepAddresses ==
    ASSUME Faults \subseteq {"kill", "crash"}
    PROVE  Spec => []AddressesKept
<1> DEFINE IInv == Sized /\ Recovery /\ Ledger
<1>1. Init => IInv
  <2> SUFFICES ASSUME Init PROVE IInv
    OBVIOUS
  <2>1. Sized
    BY InitSized
  <2>2. \A p \in Pods : plug[p].pc = "none" /\ rec[p] = NoRecord
    BY DEF Init
  <2>3. Recovery /\ Ledger
    BY <2>2 DEF Init, Recovery, Ledger, Owning, Early, Deleting, At
  <2> QED
    BY <2>1, <2>3
<1>2. IInv /\ [Next]_vars => IInv'
  BY NextSized, NextRecovery, NextLedger DEF Sized
<1>3. IInv => AddressesKept
  BY DEF Ledger, AddressesKept, Live, At, Owning
<1> QED
  BY <1>1, <1>2, <1>3, PTL DEF Spec

-----------------------------------------------------------------------------
(* How a pod is reached.                                                   *)

\* The datapath state of p is the one its record asks for: the daemon serves,
\* or its reconcile is past p.
Served(p) == Up \/ (daemon = "reconcile" /\ p \notin todo)
Recorded == {"finish", "up"}

\* The rows of PORTS that are there or will be once the reconcile is done.
Wired == {p \in Pods : rec[p] # NoRecord /\ veth[p] # 0}
Rows == ports \cup {Own(p) : p \in Wired}

\* A pod with a record and a veth has its row, and there is room for the rows
\* of all of them: the reconcile never finds PORTS full.
Roomy ==
    /\ \A p \in Wired : Served(p) => Own(p) \in ports
    /\ IsFiniteSet(Rows) /\ Cardinality(Rows) <= MaxPorts

\* What CreateEndpoint has done for a pod by each of its steps, and the
\* reconcile does again.
WiringOf(p) ==
    /\ plug[p].pc \in {"program", "record"} => Up
    /\ plug[p].pc \in Recorded => rec[p].ip = plug[p].ip
    /\ rec[p] # NoRecord => rec[p].ifindex[1] = p
    /\ plug[p].pc \in {"program", "record"} \/ (plug[p].pc \in Recorded /\ Served(p)) =>
          Own(p) \in ports /\ Own(p) \in attached
    /\ plug[p].pc = "record" \/ (plug[p].pc \in Recorded /\ Served(p)) =>
          fib[plug[p].ip] = Own(p) /\ kroute[plug[p].ip] = p
    /\ plug[p].pc \in Recorded /\ Served(p) => rec[p].ifindex = Own(p)
Wiring == \A p \in Pods : WiringOf(p)

\* Who has no route in the datapath: who has not programmed one yet, or has
\* had it removed, or waits for the reconcile.
Unrouted == {"none", "plumb", "attach", "program", "unplumb", "release"} \cup Deleting
Routing ==
    /\ \A i, j \in Ips : \A p \in Pods : ipam[i] = p /\ ipam[j] = p => i = j
    /\ RoutesFollowOwners
    /\ \A p \in Pods : plug[p].pc \in Unrouted \/ p \in todo => \A i \in Ips : fib[i][1] # p
    /\ daemon = "down" => \A i \in Ips : fib[i] = NoIfindex

\* A crash before a record is written rolls the ADD back, the route gone with
\* the daemon; a delete removes the route before it releases the address, the
\* only one the pod has.
LEMMA NextRouting ==
    ASSUME TypeOK, Ledger, Recovery, Routing, [Next]_vars, Faults \subseteq {"kill", "crash"}
    PROVE  Routing'
<1>n. Nobody \notin Pods /\ NoIfindex[1] = Nobody
  BY PodsAssumption DEF NoIfindex
<1>f. \A i \in Ips : fib[i] = NoIfindex \/ fib[i][1] \in Pods
  BY DEF TypeOK, Ifindex
<1>1. CASE UNCHANGED vars
  BY <1>1 DEF vars, Routing, RoutesFollowOwners
<1>2. ASSUME NEW p \in Pods,
             Plumb(p) \/ PlumbFails(p) \/ Attach(p) \/ PutEndpoint(p) \/ AddDone(p)
               \/ Unplumb(p) \/ ReleaseSkipped(p) \/ Del(p) \/ Gc(p) \/ DeleteAbsent(p)
               \/ DeleteRecord(p) \/ DeleteLost(p) \/ DelDone(p) \/ Kill(p)
      PROVE  Routing'
  <2>1. UNCHANGED <<ipam, fib, daemon, todo>>
    BY <1>2 DEF Plumb, PlumbFails, Attach, PutEndpoint, AddDone, Unplumb, ReleaseSkipped,
                Del, Gc, DeleteAbsent, DeleteRecord, DeleteLost, DelDone, Kill, files,
                datapath, life
  <2>2. \A q \in Pods : q # p => plug'[q] = plug[q]
    BY <1>2 DEF TypeOK, Plumb, PlumbFails, Attach, PutEndpoint, AddDone, Unplumb,
                ReleaseSkipped, Del, Gc, DeleteAbsent, DeleteRecord, DeleteLost, DelDone,
                Kill, Go
  <2>3. plug'[p].pc \in Unrouted => plug[p].pc \in Unrouted
    BY <1>2 DEF TypeOK, Plumb, PlumbFails, Attach, PutEndpoint, AddDone, Unplumb,
                ReleaseSkipped, Del, Gc, DeleteAbsent, DeleteRecord, DeleteLost, DelDone,
                Kill, Go, At, Unrouted, Deleting
  <2> QED
    BY <2>1, <2>2, <2>3 DEF Routing, RoutesFollowOwners
<1>3. ASSUME NEW p \in Pods, AllocIp(p)
      PROVE  Routing'
  <2>1. PICK i \in Allocate(p) : /\ ipam' = [ipam EXCEPT ![i] = p]
                                 /\ plug' = [plug EXCEPT ![p] = [pc |-> "plumb", ip |-> i]]
    BY <1>3 DEF AllocIp
  <2>2. i \in Ips /\ ipam[i] \in {p, Nobody}
    BY AllocateGives
  <2>3. (\E j \in Ips : ipam[j] = p) => ipam[i] = p
    <3> DEFINE mine == {j \in Ips : ipam[j] = p}
    <3>1. mine # {} => i = Min(mine)
      BY DEF Allocate
    <3>2. mine # {} => Min(mine) \in mine
      BY LowestExists, IpsAssumption
    <3> QED
      BY <3>1, <3>2
  <2>4. UNCHANGED <<fib, daemon, todo>> /\ \A q \in Pods : q # p => plug'[q] = plug[q]
    BY <1>3, <2>1 DEF AllocIp, datapath, life, TypeOK
  <2>5. ipam'[i] = p /\ \A j \in Ips : j # i => ipam'[j] = ipam[j]
    BY <2>1, <2>2 DEF TypeOK
  <2>6. plug[p].pc \in Unrouted
    BY <1>3 DEF AllocIp, At, Unrouted
  <2>7. \A j \in Ips : fib[j] # NoIfindex => ipam'[j] = fib[j][1]
    BY <2>2, <2>5, <2>6, <1>f, <1>n DEF Routing, RoutesFollowOwners
  <2>8. \A j, k \in Ips : \A q \in Pods : ipam'[j] = q /\ ipam'[k] = q => j = k
    BY <2>2, <2>3, <2>5, <1>n DEF Routing
  <2>9. \A q \in Pods : plug'[q].pc \in Unrouted \/ q \in todo => \A j \in Ips : fib[j][1] # q
    BY <2>4, <2>6 DEF Routing
  <2> QED
    BY <2>4, <2>7, <2>8, <2>9 DEF Routing, RoutesFollowOwners
<1>4. ASSUME NEW p \in Pods, Program(p)
      PROVE  Routing'
  <2>1. plug'[p].pc = "record" /\ \A q \in Pods : q # p => plug'[q] = plug[q]
    BY <1>4 DEF Program, Go, TypeOK
  <2>2. plug[p].ip \in Ips /\ ipam[plug[p].ip] = p
    BY <1>4 DEF Program, At, Ledger, Owning
  <2>3. /\ fib' = [fib EXCEPT ![plug[p].ip] = Own(p)] /\ UNCHANGED <<ipam, daemon, todo>>
        /\ Up /\ Own(p)[1] = p
    BY <1>4 DEF Program, files, life, Own
  <2>4. todo = {}
    BY <2>3 DEF Recovery, Up
  <2>5. \A i \in Ips : i # plug[p].ip => fib'[i] = fib[i]
    BY <2>3 DEF TypeOK
  <2>6. fib'[plug[p].ip][1] = p
    BY <2>2, <2>3 DEF TypeOK
  <2> QED
    BY <2>1, <2>2, <2>3, <2>4, <2>5, <2>6
       DEF Routing, RoutesFollowOwners, Up, Unrouted, Deleting
<1>5. ASSUME NEW p \in Pods, ReleaseIp(p) \/ DeleteRelease(p)
      PROVE  Routing'
  <2>1. PICK i : ipam' = Released(p, i) /\ (i \in Ips => ipam[i] = p)
    <3>1. CASE ReleaseIp(p)
      BY <3>1 DEF ReleaseIp, Ledger, At, Owning
    <3>2. CASE DeleteRelease(p)
      BY <3>2, IpsAssumption DEF DeleteRelease, Ledger, At, NoRecord, NoIp
    <3> QED
      BY <1>5, <3>1, <3>2
  <2>2. \A j \in Ips : ipam'[j] = IF ipam[j] = p THEN Nobody ELSE ipam[j]
    BY <2>1 DEF Released
  <2>3. UNCHANGED <<fib, daemon, todo>> /\ \A q \in Pods : q # p => plug'[q] = plug[q]
    BY <1>5 DEF ReleaseIp, DeleteRelease, Go, datapath, life, TypeOK
  <2>4. plug[p].pc \in Unrouted
    BY <1>5 DEF ReleaseIp, DeleteRelease, At, Unrouted, Deleting
  <2>5. \A j \in Ips : fib[j][1] # p
    BY <2>4 DEF Routing
  <2> QED
    BY <2>2, <2>3, <2>4, <2>5, <1>n DEF Routing, RoutesFollowOwners
<1>6. ASSUME NEW p \in Pods, DeleteRoutes(p)
      PROVE  Routing'
  <2>1. plug'[p].pc = "delRelease" /\ \A q \in Pods : q # p => plug'[q] = plug[q]
    BY <1>6 DEF DeleteRoutes, Go, TypeOK
  <2>2. rec[p].ip \in Ips /\ ipam[rec[p].ip] = p
    BY <1>6 DEF DeleteRoutes, Ledger, At
  <2>3. fib' = [fib EXCEPT ![rec[p].ip] = NoIfindex] /\ UNCHANGED <<ipam, daemon, todo>>
    BY <1>6 DEF DeleteRoutes, files, life
  <2>4. /\ fib'[rec[p].ip] = NoIfindex
        /\ \A i \in Ips : i # rec[p].ip => fib'[i] = fib[i]
    BY <2>2, <2>3 DEF TypeOK
  <2>5. ASSUME NEW i \in Ips PROVE fib'[i][1] # p
    <3>1. CASE i = rec[p].ip
      BY <3>1, <2>4, <1>n
    <3>2. CASE i # rec[p].ip
      <4>1. ipam[i] # p
        BY <3>2, <2>2 DEF Routing
      <4> QED
        BY <3>2, <4>1, <2>4, <1>f, <1>n DEF Routing, RoutesFollowOwners
    <3> QED
      BY <3>1, <3>2
  <2>6. \A q \in Pods, i \in Ips : fib'[i][1] = q => fib[i][1] = q
    BY <2>2, <2>4, <1>n
  <2>7. \A i \in Ips : fib'[i] = fib[i] \/ fib'[i] = NoIfindex
    BY <2>4
  <2>8. \A q \in Pods : (plug[q].pc \in Unrouted \/ q \in todo)' => \A i \in Ips : fib'[i][1] # q
    BY <2>1, <2>3, <2>5, <2>6 DEF Routing
  <2>9. RoutesFollowOwners'
    BY <2>3, <2>7 DEF Routing, RoutesFollowOwners
  <2>10. daemon' = "down" => \A i \in Ips : fib'[i] = NoIfindex
    BY <2>3, <2>7 DEF Routing
  <2> QED
    BY <2>3, <2>8, <2>9, <2>10 DEF Routing
<1>7. CASE Crash
  BY <1>7, <1>n DEF Crash, Routing, RoutesFollowOwners, files
<1>8. CASE Restart \/ Serve
  <2>1. UNCHANGED <<ipam, fib, plug>> /\ daemon' # "down"
    BY <1>8 DEF Restart, Serve, files, datapath
  <2>2. CASE Restart
    <3>1. \A i \in Ips, p \in Pods : fib[i][1] # p
      BY <2>2, <1>n DEF Restart, Routing
    <3> QED
      BY <2>1, <3>1 DEF Routing, RoutesFollowOwners
  <2>3. CASE Serve
    BY <2>1, <2>3 DEF Serve, Routing, RoutesFollowOwners
  <2> QED
    BY <1>8, <2>2, <2>3
<1>9. ASSUME NEW p \in Pods, ReconcileGone(p)
      PROVE  Routing'
  <2>1. p \in todo /\ rec[p] # NoRecord /\ ~At(p, "delRecord")
    BY <1>9 DEF ReconcileGone, Recovery, At, Deleting, Up
  <2>2. ipam' = Released(p, rec[p].ip) /\ ipam[rec[p].ip] = p
    BY <1>9, <2>1 DEF ReconcileGone, Ledger
  <2>3. \A j \in Ips : ipam'[j] = IF ipam[j] = p THEN Nobody ELSE ipam[j]
    BY <2>2 DEF Released
  <2>4. UNCHANGED <<fib, daemon, plug>> /\ todo' = todo \ {p}
    BY <1>9 DEF ReconcileGone, datapath
  <2>5. \A j \in Ips : fib[j][1] # p
    BY <2>1 DEF Routing
  <2> QED
    BY <2>3, <2>4, <2>5, <1>n DEF Routing, RoutesFollowOwners
<1>10. ASSUME NEW p \in Pods, ReconcileLive(p)
       PROVE  Routing'
  <2>1. /\ p \in todo /\ rec[p] # NoRecord /\ ~At(p, "delRecord")
        /\ daemon = "reconcile" /\ plug[p].pc \notin Deleting
    BY <1>10 DEF ReconcileLive, Recovery, At, Deleting, Up
  <2>2. rec[p].ip \in Ips /\ ipam[rec[p].ip] = p
    BY <2>1 DEF Ledger
  <2>3. plug[p].pc \notin Unrouted
    BY <2>1 DEF Ledger, Early, Unrouted
  <2>4. UNCHANGED <<ipam, plug, daemon>> /\ todo' = todo \ {p}
    BY <1>10 DEF ReconcileLive
  <2>5. fib' = fib \/ fib' = [fib EXCEPT ![rec[p].ip] = Own(p)]
    BY <1>10 DEF ReconcileLive
  <2>6. \A i \in Ips : i # rec[p].ip => fib'[i] = fib[i]
    BY <2>5 DEF TypeOK
  <2>7. fib'[rec[p].ip] = fib[rec[p].ip] \/ fib'[rec[p].ip][1] = p
    BY <2>5, <2>2 DEF TypeOK, Own
  <2> QED
    BY <2>1, <2>2, <2>3, <2>4, <2>6, <2>7 DEF Routing, RoutesFollowOwners
<1>11. \A p \in Pods : ~LateFailure(p)
  BY DEF LateFailure
<1> QED
  BY <1>1, <1>2, <1>3, <1>4, <1>5, <1>6, <1>7, <1>8, <1>9, <1>10, <1>11
     DEF Next, Add, DelStep, Recover

-----------------------------------------------------------------------------
\* Room for some rows is room for fewer.
LEMMA FewerRows ==
    ASSUME Roomy, Rows' \subseteq Rows
    PROVE  IsFiniteSet(Rows') /\ Cardinality(Rows') <= MaxPorts
<1>1. IsFiniteSet(Rows') /\ Cardinality(Rows') <= Cardinality(Rows)
  BY FS_Subset DEF Roomy
<1>2. Cardinality(Rows') \in Nat /\ Cardinality(Rows) \in Nat /\ MaxPorts \in Nat
  BY <1>1, FS_CardinalityType, BoundsAssumption DEF Roomy
<1> QED
  BY <1>1, <1>2 DEF Roomy

\* The reconcile finds room for every pod that has a record and a veth: it
\* had a row before, or was counted.
LEMMA ReconcileFits ==
    ASSUME Sized, Roomy, NEW p \in Wired
    PROVE  HasRoom(p)
<1> SUFFICES ASSUME Own(p) \notin ports PROVE Cardinality(ports) < MaxPorts
  BY DEF HasRoom
<1>1. ports \cup {Own(p)} \subseteq Rows
  BY DEF Rows
<1>2. IsFiniteSet(ports) /\ Cardinality(ports) \in Nat /\ MaxPorts \in Nat
  BY FS_CardinalityType, BoundsAssumption DEF Sized
<1>3. IsFiniteSet(ports \cup {Own(p)}) /\ Cardinality(ports \cup {Own(p)}) = Cardinality(ports) + 1
  BY <1>2, FS_AddElement
<1>4. Cardinality(ports \cup {Own(p)}) <= Cardinality(Rows)
  BY <1>1, FS_Subset DEF Roomy
<1>5. Cardinality(Rows) \in Nat /\ Cardinality(Rows) <= MaxPorts
  BY FS_CardinalityType DEF Roomy
<1> QED
  BY <1>2, <1>3, <1>4, <1>5

\* Rows come from Attach, which looks for room among all there are while the
\* daemon serves; a record is written for a veth that has its row.
LEMMA NextRoomy ==
    ASSUME Sized, Ledger, Recovery, Wiring, Roomy, [Next]_vars,
           Faults \subseteq {"kill", "crash"}
    PROVE  Roomy'
<1> USE DEF Sized
<1>1. CASE UNCHANGED vars
  BY <1>1 DEF vars, Roomy, Rows, Wired, Served, Up, Own
<1>2. ASSUME NEW p \in Pods,
             AllocIp(p) \/ PlumbFails(p) \/ Program(p) \/ AddDone(p) \/ LateFailure(p)
               \/ ReleaseIp(p) \/ ReleaseSkipped(p) \/ Del(p) \/ Gc(p) \/ DeleteAbsent(p)
               \/ DeleteRoutes(p) \/ DeleteRelease(p) \/ DeleteLost(p) \/ Kill(p)
      PROVE  Roomy'
  <2>1. UNCHANGED <<rec, veth, ports, daemon, todo>>
    BY <1>2 DEF AllocIp, PlumbFails, Program, AddDone, LateFailure, ReleaseIp,
                ReleaseSkipped, Del, Gc, DeleteAbsent, DeleteRoutes, DeleteRelease,
                DeleteLost, Kill, files, kernel, datapath, life
  <2> QED
    BY <2>1 DEF Roomy, Rows, Wired, Served, Up, Own
<1>3. ASSUME NEW p \in Pods, Plumb(p)
      PROVE  Roomy'
  <2>1. rec[p] = NoRecord
    BY <1>3 DEF Plumb, At, Ledger, Early
  <2>2. /\ UNCHANGED <<rec, ports, daemon, todo>>
        /\ \A q \in Pods : q # p => veth'[q] = veth[q]
    BY <1>3 DEF Plumb, files, datapath, life, TypeOK
  <2>3. Wired' = Wired /\ \A q \in Wired : Own(q)' = Own(q)
    BY <2>1, <2>2 DEF Wired, Own
  <2>4. Rows' = Rows
    BY <2>2, <2>3 DEF Rows
  <2> QED
    BY <2>2, <2>3, <2>4 DEF Roomy, Served, Up
<1>4. ASSUME NEW p \in Pods, Unplumb(p) \/ DelDone(p) \/ DeleteRecord(p)
      PROVE  Roomy'
  <2>1. /\ UNCHANGED <<ports, daemon, todo>>
        /\ \A q \in Pods : q # p => veth'[q] = veth[q] /\ rec'[q] = rec[q]
    BY <1>4 DEF Unplumb, DelDone, DeleteRecord, DelLink, files, kernel, datapath, life, TypeOK
  <2>2. veth'[p] = 0 \/ rec'[p] = NoRecord
    BY <1>4 DEF Unplumb, DelDone, DeleteRecord, DelLink, TypeOK
  <2>3. Wired' \subseteq Wired /\ \A q \in Wired' : Own(q)' = Own(q)
    BY <2>1, <2>2 DEF Wired, Own
  <2>4. Rows' \subseteq Rows
    BY <2>1, <2>3 DEF Rows
  <2> QED
    BY <2>1, <2>3, <2>4, FewerRows DEF Roomy, Served, Up
<1>5. ASSUME NEW p \in Pods, Attach(p)
      PROVE  Roomy'
  <2>1. /\ UNCHANGED <<rec, veth, daemon, todo>> /\ Up
        /\ ports' = ports \/ (HasRoom(p) /\ ports' = ports \cup {Own(p)})
    BY <1>5 DEF Attach, files, kernel, life
  <2>2. \A q \in Wired : Own(q) \in ports
    BY <2>1 DEF Roomy, Served
  <2>3. Wired' = Wired /\ (\A q \in Wired : Own(q)' = Own(q)) /\ ports \subseteq ports'
    BY <2>1 DEF Wired, Own
  <2>4. Rows' = ports'
    BY <2>2, <2>3 DEF Rows
  <2>5. IsFiniteSet(ports') /\ Cardinality(ports') <= MaxPorts
    BY <2>1, RowFits DEF TypeOK
  <2> QED
    BY <2>2, <2>3, <2>4, <2>5 DEF Roomy
<1>6. ASSUME NEW p \in Pods, PutEndpoint(p)
      PROVE  Roomy'
  <2>1. /\ UNCHANGED <<veth, ports, daemon, todo>>
        /\ \A q \in Pods : q # p => rec'[q] = rec[q]
    BY <1>6 DEF PutEndpoint, kernel, datapath, life, TypeOK
  <2>2. Own(p) \in ports
    BY <1>6 DEF PutEndpoint, At, Wiring, WiringOf
  <2>3. Wired' \subseteq Wired \cup {p} /\ \A q \in Pods : Own(q)' = Own(q)
    BY <2>1 DEF Wired, Own
  <2>4. Rows' \subseteq Rows
    BY <2>1, <2>2, <2>3 DEF Rows, Wired
  <2> QED
    BY <2>1, <2>2, <2>3, <2>4, FewerRows DEF Roomy, Served, Up, Wired
<1>7. CASE Crash
  <2>1. UNCHANGED <<rec, veth>> /\ ports' = {} /\ daemon' = "down"
    BY <1>7 DEF Crash, files, kernel
  <2>2. Rows' \subseteq Rows
    BY <2>1 DEF Rows, Wired, Own
  <2> QED
    BY <2>1, <2>2, FewerRows DEF Roomy, Served, Up
<1>8. CASE Restart
  <2>1. UNCHANGED <<rec, veth, ports>> /\ daemon' = "reconcile"
        /\ todo' = {p \in Pods : rec[p] # NoRecord}
    BY <1>8 DEF Restart, files, kernel, datapath
  <2>2. Rows' = Rows /\ Wired' \subseteq todo'
    BY <2>1 DEF Rows, Wired, Own
  <2> QED
    BY <2>1, <2>2 DEF Roomy, Served, Up
<1>9. CASE Serve
  <2>1. UNCHANGED <<rec, veth, ports>> /\ daemon = "reconcile" /\ todo = {}
    BY <1>9 DEF Serve, files, kernel, datapath
  <2>2. Rows' = Rows /\ Wired' = Wired /\ (\A q \in Pods : Own(q)' = Own(q))
    BY <2>1 DEF Rows, Wired, Own
  <2> QED
    BY <2>1, <2>2 DEF Roomy, Served, Wired
<1>10. ASSUME NEW p \in Pods, ReconcileGone(p)
       PROVE  Roomy'
  <2>1. /\ UNCHANGED <<veth, ports, daemon>> /\ todo' = todo \ {p} /\ veth[p] = 0
        /\ \A q \in Pods : q # p => rec'[q] = rec[q]
    BY <1>10 DEF ReconcileGone, kernel, datapath, TypeOK
  <2>2. Wired' = Wired /\ p \notin Wired /\ \A q \in Pods : Own(q)' = Own(q)
    BY <2>1 DEF Wired, Own
  <2>3. Rows' = Rows
    BY <2>1, <2>2 DEF Rows, Wired
  <2> QED
    BY <2>1, <2>2, <2>3 DEF Roomy, Served, Up, Wired
<1>11. ASSUME NEW p \in Pods, ReconcileLive(p)
       PROVE  Roomy'
  <2>1. p \in Wired
    BY <1>11 DEF ReconcileLive, Recovery, Wired
  <2>2. HasRoom(p)
    BY <2>1, ReconcileFits
  <2>3. /\ UNCHANGED <<veth, daemon>> /\ todo' = todo \ {p}
        /\ ports' = ports \cup {Own(p)}
        /\ \A q \in Pods : q # p => rec'[q] = rec[q]
    BY <1>11, <2>2 DEF ReconcileLive, TypeOK
  <2>4. Wired' \subseteq Wired /\ \A q \in Pods : Own(q)' = Own(q)
    BY <2>1, <2>3 DEF Wired, Own
  <2>5. Rows' \subseteq Rows
    BY <2>1, <2>3, <2>4 DEF Rows, Wired
  <2> QED
    BY <2>3, <2>4, <2>5, FewerRows DEF Roomy, Served, Up, Wired
<1> QED
  BY <1>1, <1>2, <1>3, <1>4, <1>5, <1>6, <1>7, <1>8, <1>9, <1>10, <1>11
     DEF Next, Add, DelStep, Recover

-----------------------------------------------------------------------------
\* What a step of another pod's plugin, or of the reconcile for another pod,
\* does not touch of q: its plugin, record and veth, the rows and routes that
\* are its own.
Untouched(q) ==
    /\ plug'[q] = plug[q] /\ rec'[q] = rec[q] /\ veth'[q] = veth[q]
    /\ daemon' = daemon /\ (q \in todo => q \in todo')
    /\ ports \subseteq ports'
    /\ Own(q) \in attached => Own(q) \in attached'
    /\ \A i \in Ips : ipam[i] = q =>
          fib'[i] = fib[i] /\ (kroute[i] = q => kroute'[i] = q)

LEMMA UntouchedKeeps ==
    ASSUME Ledger, NEW q \in Pods, WiringOf(q), Untouched(q)
    PROVE  WiringOf(q)'
<1>1. Own(q)' = Own(q) /\ (Served(q)' => Served(q)) /\ Up' = Up
  BY DEF Untouched, Own, Served, Up
<1>2. plug[q].pc \in Recorded \cup {"record"} => plug[q].ip \in Ips /\ ipam[plug[q].ip] = q
  BY DEF Ledger, Owning, Recorded
<1> QED
  BY <1>1, <1>2 DEF Untouched, WiringOf

LEMMA OthersUntouched ==
    ASSUME TypeOK, Ledger, Recovery, Wiring, NEW p \in Pods,
           \/ Add(p) \/ Del(p) \/ Gc(p) \/ DelStep(p) \/ Kill(p)
           \/ ReconcileGone(p) \/ ReconcileLive(p),
           NEW q \in Pods, q # p
    PROVE  Untouched(q)
<1>1. plug'[q] = plug[q]
  BY DEF TypeOK, Add, DelStep, AllocIp, Plumb, PlumbFails, Attach, Program, PutEndpoint, AddDone,
         LateFailure, Unplumb, ReleaseIp, ReleaseSkipped, Del, Gc, DeleteAbsent, DeleteRoutes,
         DeleteRelease, DeleteRecord, DeleteLost, DelDone, Kill, ReconcileGone,
         ReconcileLive, Go
<1>2. rec'[q] = rec[q]
  BY DEF TypeOK, Add, DelStep, AllocIp, Plumb, PlumbFails, Attach, Program, PutEndpoint, AddDone,
         LateFailure, Unplumb, ReleaseIp, ReleaseSkipped, Del, Gc, DeleteAbsent, DeleteRoutes,
         DeleteRelease, DeleteRecord, DeleteLost, DelDone, Kill, ReconcileGone,
         ReconcileLive, files
<1>3. veth'[q] = veth[q]
  BY DEF TypeOK, Add, DelStep, AllocIp, Plumb, PlumbFails, Attach, Program, PutEndpoint, AddDone,
         LateFailure, Unplumb, ReleaseIp, ReleaseSkipped, Del, Gc, DeleteAbsent, DeleteRoutes,
         DeleteRelease, DeleteRecord, DeleteLost, DelDone, Kill, ReconcileGone,
         ReconcileLive, kernel, DelLink
<1>4. daemon' = daemon /\ (q \in todo => q \in todo')
  BY DEF Add, DelStep, AllocIp, Plumb, PlumbFails, Attach, Program, PutEndpoint, AddDone,
         LateFailure, Unplumb, ReleaseIp, ReleaseSkipped, Del, Gc, DeleteAbsent, DeleteRoutes,
         DeleteRelease, DeleteRecord, DeleteLost, DelDone, Kill, ReconcileGone,
         ReconcileLive, life
<1>5. ports \subseteq ports'
  BY DEF Add, DelStep, AllocIp, Plumb, PlumbFails, Attach, Program, PutEndpoint, AddDone,
         LateFailure, Unplumb, ReleaseIp, ReleaseSkipped, Del, Gc, DeleteAbsent, DeleteRoutes,
         DeleteRelease, DeleteRecord, DeleteLost, DelDone, Kill, ReconcileGone,
         ReconcileLive, datapath
<1>6. Own(q) \in attached => Own(q) \in attached'
  <2>1. CASE DeleteRelease(p)
    <3>1. rec[p].ifindex # Own(q)
      <4>1. rec[p].ifindex = NoIfindex \/ rec[p].ifindex[1] = p
        BY DEF Wiring, WiringOf, NoRecord
      <4> QED
        BY <4>1, PodsAssumption DEF NoIfindex, Own
    <3> QED
      BY <2>1, <3>1 DEF DeleteRelease
  <2>2. CASE ~DeleteRelease(p)
    BY <2>2 DEF Add, DelStep, AllocIp, Plumb, PlumbFails, Attach, Program, PutEndpoint, AddDone,
         LateFailure, Unplumb, ReleaseIp, ReleaseSkipped, Del, Gc, DeleteAbsent, DeleteRoutes,
         DeleteRecord, DeleteLost, DelDone, Kill, ReconcileGone, ReconcileLive, datapath
  <2> QED
    BY <2>1, <2>2
<1>7. ASSUME NEW i \in Ips, ipam[i] = q
      PROVE  fib'[i] = fib[i] /\ (kroute[i] = q => kroute'[i] = q)
  <2>1. CASE Program(p) \/ LateFailure(p)
    <3>1. CASE plug[p].pc = "program"
      <4>1. plug[p].ip # i
        BY <3>1, <1>7 DEF Ledger, Owning
      <4> QED
        BY <2>1, <4>1, <1>7 DEF Program, LateFailure, TypeOK, kernel
    <3>2. CASE plug[p].pc # "program"
      BY <2>1, <3>2, <1>7 DEF Program, LateFailure, At, kernel
    <3> QED
      BY <3>1, <3>2
  <2>2. CASE DeleteRoutes(p)
    <3>1. rec[p].ip # i
      BY <2>2, <1>7 DEF DeleteRoutes, Ledger, At
    <3> QED
      BY <2>2, <3>1, <1>7 DEF DeleteRoutes, TypeOK
  <2>3. CASE ReconcileLive(p)
    <3>1. rec[p].ip # i
      BY <2>3, <1>7 DEF ReconcileLive, Recovery, Ledger, At, Deleting, Up
    <3> QED
      BY <2>3, <3>1, <1>7 DEF ReconcileLive, TypeOK
  <2>4. CASE Plumb(p) \/ Unplumb(p) \/ DelDone(p)
    BY <2>4, <1>7 DEF Plumb, Unplumb, DelDone, DelLink, datapath
  <2>5. CASE ~(Program(p) \/ LateFailure(p) \/ DeleteRoutes(p) \/ ReconcileLive(p)
               \/ Plumb(p) \/ Unplumb(p) \/ DelDone(p))
    BY <2>5 DEF Add, DelStep, AllocIp, PlumbFails, Attach, PutEndpoint, AddDone,
         ReleaseIp, ReleaseSkipped, Del, Gc, DeleteAbsent, DeleteRelease, DeleteRecord,
         DeleteLost, Kill, ReconcileGone, datapath, kernel
  <2> QED
    BY <2>1, <2>2, <2>3, <2>4, <2>5
<1> QED
  BY <1>1, <1>2, <1>3, <1>4, <1>5, <1>6, <1>7 DEF Untouched

\* The pod's own steps: each leaves what the next one relies on.
LEMMA OwnSteps ==
    ASSUME TypeOK, Sized, Roomy, Ledger, Recovery, Wiring, NEW p \in Pods,
           \/ Add(p) \/ Del(p) \/ Gc(p) \/ DelStep(p) \/ Kill(p)
           \/ ReconcileGone(p) \/ ReconcileLive(p),
           Faults \subseteq {"kill", "crash"}
    PROVE  WiringOf(p)'
<1> DEFINE Engaged == {"program", "record"} \cup Recorded
<1>w. WiringOf(p)
  BY DEF Wiring
<1>l. ~LateFailure(p)
  BY DEF LateFailure
<1>1. CASE \/ AllocIp(p) \/ Plumb(p) \/ PlumbFails(p) \/ Unplumb(p) \/ ReleaseIp(p)
           \/ ReleaseSkipped(p) \/ Del(p) \/ Gc(p) \/ DeleteAbsent(p) \/ DeleteRoutes(p)
           \/ DeleteRelease(p) \/ DeleteRecord(p) \/ DeleteLost(p) \/ DelDone(p) \/ Kill(p)
  <2>1. plug'[p].pc \notin Engaged
    BY <1>1 DEF TypeOK, AllocIp, Plumb, PlumbFails, Unplumb, ReleaseIp, ReleaseSkipped,
                Del, Gc, DeleteAbsent, DeleteRoutes, DeleteRelease, DeleteRecord,
                DeleteLost, DelDone, Kill, Go, Recorded
  <2>2. rec'[p] \in {rec[p], NoRecord}
    BY <1>1 DEF TypeOK, AllocIp, Plumb, PlumbFails, Unplumb, ReleaseIp, ReleaseSkipped,
                Del, Gc, DeleteAbsent, DeleteRoutes, DeleteRelease, DeleteRecord,
                DeleteLost, DelDone, Kill, files
  <2> QED
    BY <1>w, <2>1, <2>2 DEF WiringOf
<1>2. CASE Attach(p)
  <2>1. UNCHANGED <<rec, veth, daemon>> /\ Up
    BY <1>2 DEF Attach, files, kernel, life
  <2>2. /\ plug'[p].pc \in {"program", "unplumb"}
        /\ plug'[p].pc = "program" => Own(p) \in ports' /\ Own(p) \in attached'
    BY <1>2 DEF Attach, Go, TypeOK
  <2> QED
    BY <1>w, <2>1, <2>2 DEF WiringOf, Own, Up, Recorded
<1>3. CASE Program(p)
  <2>1. UNCHANGED <<rec, veth, daemon, ports, attached>> /\ Up /\ plug[p].pc = "program"
    BY <1>3 DEF Program, files, life, At
  <2>2. plug[p].ip \in Ips
    BY <2>1 DEF Ledger, Owning
  <2>3. plug'[p].pc = "record" /\ plug'[p].ip = plug[p].ip
    BY <1>3 DEF Program, Go, TypeOK
  <2>4. fib'[plug[p].ip] = Own(p) /\ kroute'[plug[p].ip] = p
    BY <1>3, <2>2 DEF Program, TypeOK
  <2> QED
    BY <1>w, <2>1, <2>3, <2>4 DEF WiringOf, Own, Up, Recorded
<1>4. CASE PutEndpoint(p)
  <2>1. UNCHANGED <<veth, daemon, ports, attached, fib, kroute>> /\ Up /\ plug[p].pc = "record"
    BY <1>4 DEF PutEndpoint, kernel, datapath, life, At
  <2>2. plug'[p].pc = "finish" /\ plug'[p].ip = plug[p].ip
    BY <1>4 DEF PutEndpoint, Go, TypeOK
  <2>3. rec'[p].ip = plug[p].ip /\ rec'[p].ifindex = Own(p)
    BY <1>4 DEF PutEndpoint, TypeOK
  <2>4. Own(p)' = Own(p) /\ Own(p)[1] = p
    BY <2>1 DEF Own
  <2> QED
    BY <1>w, <2>1, <2>2, <2>3, <2>4 DEF WiringOf, Recorded
<1>5. CASE AddDone(p)
  <2>1. UNCHANGED <<rec, veth, daemon, todo, ports, attached, fib, kroute>>
    BY <1>5 DEF AddDone, files, kernel, datapath, life
  <2>2. plug[p].pc = "finish" /\ plug'[p].pc = "up" /\ plug'[p].ip = plug[p].ip
    BY <1>5 DEF AddDone, Go, TypeOK, At
  <2> QED
    BY <1>w, <2>1, <2>2 DEF WiringOf, Recorded, Own, Served, Up
<1>6. CASE ReconcileGone(p)
  <2>1. plug' = plug /\ rec'[p] = NoRecord /\ daemon' = "reconcile" /\ daemon = "reconcile"
    BY <1>6 DEF ReconcileGone, TypeOK
  <2>2. veth[p] = 0
    BY <1>6 DEF ReconcileGone
  <2>3. plug[p].pc \notin Engaged
    BY <2>2 DEF Recovery, Recorded
  <2> QED
    BY <2>1, <2>3 DEF WiringOf
<1>7. CASE ReconcileLive(p)
  <2>1. p \in Wired
    BY <1>7 DEF ReconcileLive, Recovery, Wired
  <2>2. HasRoom(p)
    BY <2>1, ReconcileFits
  <2>3. /\ UNCHANGED <<veth, plug, daemon>> /\ daemon = "reconcile"
        /\ attached' = attached \cup {Own(p)} /\ ports' = ports \cup {Own(p)}
        /\ fib' = [fib EXCEPT ![rec[p].ip] = Own(p)]
        /\ kroute' = [kroute EXCEPT ![rec[p].ip] = p]
        /\ rec'[p].ip = rec[p].ip /\ rec'[p].ifindex = Own(p)
    BY <1>7, <2>2 DEF ReconcileLive, TypeOK
  <2>4. ~Up /\ ~Up'
    BY <2>3 DEF Up
  <2>5. Own(p)' = Own(p) /\ Own(p)[1] = p
    BY <2>3 DEF Own
  <2>6. plug[p].pc \notin {"program", "record"}
    BY <1>w, <2>4 DEF WiringOf
  <2>7. plug[p].pc \in Recorded => rec[p].ip = plug[p].ip /\ plug[p].ip \in Ips
    BY <1>w DEF WiringOf, Ledger, Recorded, Owning
  <2>8. plug[p].pc \in Recorded => fib'[plug[p].ip] = Own(p) /\ kroute'[plug[p].ip] = p
    BY <2>3, <2>7 DEF TypeOK
  <2> QED
    BY <2>3, <2>5, <2>6, <2>7, <2>8 DEF WiringOf
<1> QED
  BY <1>1, <1>2, <1>3, <1>4, <1>5, <1>6, <1>7, <1>l DEF Add, DelStep

LEMMA NextWiring ==
    ASSUME TypeOK, Sized, Roomy, Ledger, Recovery, Wiring, [Next]_vars,
           Faults \subseteq {"kill", "crash"}
    PROVE  Wiring'
<1>1. ASSUME NEW p \in Pods,
             \/ Add(p) \/ Del(p) \/ Gc(p) \/ DelStep(p) \/ Kill(p)
             \/ ReconcileGone(p) \/ ReconcileLive(p)
      PROVE  Wiring'
  <2>1. \A q \in Pods : q # p => Untouched(q)
    BY <1>1, OthersUntouched
  <2>2. \A q \in Pods : q # p => WiringOf(q)'
    BY <2>1, UntouchedKeeps DEF Wiring
  <2>3. WiringOf(p)'
    BY <1>1, OwnSteps
  <2> QED
    BY <2>2, <2>3 DEF Wiring
<1>2. CASE Crash
  <2>1. \A p \in Pods : plug'[p].pc = AfterCrash(plug[p].pc) /\ plug'[p].ip = plug[p].ip
    BY <1>2, CrashFacts
  <2>2. \A p \in Pods : /\ plug'[p].pc \notin {"program", "record"}
                        /\ plug'[p].pc \in Recorded => plug[p].pc \in Recorded
    BY <2>1 DEF AfterCrash, Recorded
  <2>3. rec' = rec /\ \A p \in Pods : ~Served(p)'
    BY <1>2 DEF Crash, files, Served, Up
  <2> QED
    BY <2>1, <2>2, <2>3 DEF Wiring, WiringOf
<1>3. CASE Restart
  <2>1. UNCHANGED <<rec, plug>> /\ ~Up /\ ~Up'
        /\ todo' = {p \in Pods : rec[p] # NoRecord}
    BY <1>3 DEF Restart, files, Up
  <2>2. \A p \in Pods : plug[p].pc \in Recorded => rec[p] # NoRecord
    BY IpsAssumption DEF Wiring, WiringOf, Ledger, Recorded, Owning, NoRecord, NoIp
  <2>3. \A p \in Pods : plug[p].pc \in Recorded => ~Served(p)'
    BY <2>1, <2>2 DEF Served
  <2> QED
    BY <2>1, <2>3 DEF Wiring, WiringOf
<1>4. CASE Serve
  <2>1. /\ UNCHANGED <<rec, veth, plug, ports, attached, fib, kroute>> /\ Up' /\ ~Up
        /\ \A p \in Pods : Served(p)
    BY <1>4 DEF Serve, files, kernel, datapath, Up, Served
  <2> QED
    BY <2>1 DEF Wiring, WiringOf, Own
<1>5. CASE UNCHANGED vars
  BY <1>5 DEF vars, Wiring, WiringOf, Own, Served, Up
<1> QED
  BY <1>1, <1>2, <1>3, <1>4, <1>5 DEF Next, Recover

-----------------------------------------------------------------------------
\* All of it together: what the allocator, the records, the datapath and the
\* kernel owe each other.
Consistent == Sized /\ Recovery /\ Ledger /\ Roomy /\ Wiring /\ Routing

LEMMA InitConsistent == Init => Consistent
<1> SUFFICES ASSUME Init PROVE Consistent
  OBVIOUS
<1>1. Sized
  BY InitSized
<1>2. \A p \in Pods : plug[p].pc = "none" /\ rec[p] = NoRecord
  BY DEF Init
<1>3. Recovery /\ Ledger
  BY <1>2 DEF Init, Recovery, Ledger, Owning, Early, Deleting, At
<1>4. Rows = {} /\ Wired = {}
  BY <1>2 DEF Init, Rows, Wired
<1>5. Roomy
  BY <1>4, FS_EmptySet, BoundsAssumption DEF Roomy
<1>6. Wiring
  BY <1>2 DEF Wiring, WiringOf, Recorded
<1>7. \A i \in Ips : fib[i] = NoIfindex /\ ipam[i] = Nobody
  BY DEF Init
<1>8. Routing
  BY <1>7, PodsAssumption DEF Routing, RoutesFollowOwners, NoIfindex
<1> QED
  BY <1>1, <1>3, <1>5, <1>6, <1>8 DEF Consistent

LEMMA NextConsistent ==
    ASSUME Consistent, [Next]_vars, Faults \subseteq {"kill", "crash"}
    PROVE  Consistent'
<1> USE DEF Consistent
<1>1. TypeOK
  BY DEF Sized
<1>2. Sized'
  BY NextSized
<1>3. Recovery' /\ Ledger'
  BY <1>1, NextRecovery, NextLedger
<1>4. Roomy' /\ Wiring'
  BY <1>1, NextRoomy, NextWiring
<1>5. Routing'
  BY <1>1, NextRouting
<1> QED
  BY <1>2, <1>3, <1>4, <1>5

\* Whenever the daemon serves, a running pod is reached: for any pods, pool and
\* size of PORTS, and any number of plugin kills and daemon crashes, the
\* datapath and the kernel route its address to the veth it has now, with the
\* programs on it.  The reconcile in particular rebuilds the state of every
\* running pod before the daemon serves again, with room for all their rows.
THEOREM PodsReachable ==
    ASSUME Faults \subseteq {"kill", "crash"}
    PROVE  Spec => []Reachable
<1>1. Consistent /\ [Next]_vars => Consistent'
  BY NextConsistent
<1>2. Consistent => Reachable
  <2> SUFFICES ASSUME Consistent, NEW p \in Pods, Up, Live(p)
               PROVE  /\ rec[p] = [ip |-> plug[p].ip, ifindex |-> Own(p)]
                      /\ fib[plug[p].ip] = Own(p) /\ kroute[plug[p].ip] = p
                      /\ Own(p) \in ports /\ Own(p) \in attached
    BY DEF Reachable
  <2>1. WiringOf(p) /\ plug[p].pc \in Recorded /\ Served(p)
    BY DEF Consistent, Wiring, Live, At, Recorded, Served
  <2>2. rec[p] = [ip |-> rec[p].ip, ifindex |-> rec[p].ifindex]
    BY DEF Consistent, Sized, TypeOK
  <2> QED
    BY <2>1, <2>2 DEF WiringOf
<1> QED
  BY InitConsistent, <1>1, <1>2, PTL DEF Spec

\* The datapath routes an address to nobody but the pod that owns it: an
\* address is given back, and so may be given to another pod, only when no
\* route to it is left, whichever of ReleaseIp, DeleteEndpoint and the
\* reconcile gives it back.
THEOREM RoutesKeptToOwners ==
    ASSUME Faults \subseteq {"kill", "crash"}
    PROVE  Spec => []RoutesFollowOwners
<1>1. Consistent /\ [Next]_vars => Consistent'
  BY NextConsistent
<1>2. Consistent => RoutesFollowOwners
  BY DEF Consistent, Routing
<1> QED
  BY InitConsistent, <1>1, <1>2, PTL DEF Spec
=============================================================================
