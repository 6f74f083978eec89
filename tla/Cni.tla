-------------------------------- MODULE Cni --------------------------------
(***************************************************************************)
(* Pod addresses and endpoints: the CNI plugin (cradle-cni, one short      *)
(* process per ADD or DEL), the daemon's address allocator and endpoint    *)
(* store (cni.rs, files that survive the daemon), the datapath state it    *)
(* programs for a pod (control.rs, lost with the daemon) and the kernel's  *)
(* veth pairs and routes (lost with neither).                              *)
(*                                                                         *)
(* The plugins of different pods run concurrently; one pod's operations    *)
(* are serialised by the container runtime.  A daemon handler is cut into  *)
(* steps where it awaits a lock: there it can be interleaved with others,  *)
(* and dropped when its plugin is killed.                                  *)
(*                                                                         *)
(* A pod is a container and interface name: it owns one address at most,   *)
(* its host veth has a name derived from it, and a new interface index     *)
(* each time the pair is created.                                          *)
(***************************************************************************)
EXTENDS Naturals, FiniteSets, FiniteSetsExt

CONSTANTS Pods,
          Ips,         \* what alloc_ip may hand out: base+2 .. broadcast-1
          MaxPorts,    \* capacity of PORTS (256)
          MaxPlumbs,   \* bound: veth pairs made for one pod
          MaxCrashes,  \* bound: daemon crashes
          Faults       \* the faults that happen, of AllFaults

\* kill: the runtime kills a plugin.  crash: the daemon dies.  tornDelete: it
\* may die between the two files DeleteEndpoint writes.  lostReply: it may die
\* before the reply to CreateEndpoint is read.  lateFailure: a step of ADD fails
\* after the pod /32 is in the datapath.
AllFaults == {"kill", "crash", "tornDelete", "lostReply", "lateFailure"}

ASSUME IpsAssumption == Ips \subseteq Nat \ {0} /\ IsFiniteSet(Ips)
ASSUME BoundsAssumption == MaxPorts \in Nat /\ MaxPlumbs \in Nat /\ MaxCrashes \in Nat
ASSUME FaultsAssumption == Faults \subseteq AllFaults

Nobody == "nobody"
ASSUME PodsAssumption == Nobody \notin Pods

Ifindex == Pods \X Nat
NoIfindex == <<Nobody, 0>>
NoIp == 0
NoRecord == [ip |-> NoIp, ifindex |-> NoIfindex]

VARIABLES ipam,      \* ipam.json: Ips -> owner
          rec,       \* endpoints/*.json: Pods -> record
          veth,      \* kernel: Pods -> index of its host veth, 0: none
          born,      \* veth pairs made so far, per pod
          kroute,    \* kernel: Ips -> the pod whose host veth has the /32 route
          fib,       \* datapath: Ips -> interface of the pod /32
          ports,     \* datapath: rows of PORTS
          attached,  \* daemon: interfaces with the programs attached
          daemon,    \* "up", "down" or "reconcile"
          todo,      \* records the startup reconcile has not looked at yet
          crashes,   \* how often the daemon has died
          plug       \* the plugin of each pod: its step, and the address it got

files == <<ipam, rec>>
kernel == <<veth, born, kroute>>
datapath == <<fib, ports, attached>>
life == <<daemon, todo, crashes>>
vars == <<ipam, rec, veth, born, kroute, fib, ports, attached, daemon, todo,
          crashes, plug>>

\* none: not added, or ADD has failed; up: ADD has succeeded; zombie: a plugin
\* was killed; gone: DEL has returned.
AddSteps == {"plumb", "attach", "program", "record", "finish", "unplumb", "release"}
DelSteps == {"delRoutes", "delRelease", "delRecord", "delLink"}
Deleting == {"delRelease", "delRecord"}
Steps == {"none", "up", "zombie", "gone"} \cup AddSteps \cup DelSteps

At(p, pc) == plug[p].pc = pc
Go(p, pc) == plug' = [plug EXCEPT ![p].pc = pc]
Own(p) == <<p, veth[p]>>

Up == daemon = "up"
\* Nobody is inside cni_delete_endpoint, which keeps the lock of the store.
CniFree == \A q \in Pods : plug[q].pc \notin Deleting

-----------------------------------------------------------------------------
Init ==
    /\ ipam = [i \in Ips |-> Nobody]
    /\ rec = [p \in Pods |-> NoRecord]
    /\ veth = [p \in Pods |-> 0]
    /\ born = [p \in Pods |-> 0]
    /\ kroute = [i \in Ips |-> Nobody]
    /\ fib = [i \in Ips |-> NoIfindex]
    /\ ports = {}
    /\ attached = {}
    /\ daemon = "up"
    /\ todo = {}
    /\ crashes = 0
    /\ plug = [p \in Pods |-> [pc |-> "none", ip |-> NoIp]]

-----------------------------------------------------------------------------
(***************************************************************************)
(* ADD.                                                                    *)
(***************************************************************************)
\* Mistake: free is what no endpoint record names.
AllocateUnrecorded(p) ==
    LET free == {i \in Ips : \A q \in Pods : rec[q].ip # i}
    IN  IF free # {} THEN {Min(free)} ELSE {}

\* alloc_ip: the address p already has, else the lowest free one.
Allocate(p) ==
    LET mine == {i \in Ips : ipam[i] = p}
        free == {i \in Ips : ipam[i] = Nobody}
    IN  IF mine # {} THEN {Min(mine)}
        ELSE IF free # {} THEN {Min(free)} ELSE {}

AllocIp(p) ==
    /\ At(p, "none") /\ Up /\ CniFree
    /\ \E i \in Allocate(p) :
          /\ ipam' = [ipam EXCEPT ![i] = p]
          /\ plug' = [plug EXCEPT ![p] = [pc |-> "plumb", ip |-> i]]
    /\ UNCHANGED <<rec, kernel, datapath, life>>

\* The kernel takes the routes of a link with it.
DelLink(p) ==
    /\ veth' = [veth EXCEPT ![p] = 0]
    /\ kroute' = [i \in Ips |-> IF kroute[i] = p THEN Nobody ELSE kroute[i]]

\* A pair left by an earlier ADD is deleted, then a new one made.
Plumb(p) ==
    /\ At(p, "plumb")
    /\ born[p] < MaxPlumbs
    /\ born' = [born EXCEPT ![p] = @ + 1]
    /\ veth' = [veth EXCEPT ![p] = born[p] + 1]
    /\ kroute' = [i \in Ips |-> IF kroute[i] = p THEN Nobody ELSE kroute[i]]
    /\ Go(p, "attach")
    /\ UNCHANGED <<files, datapath, life>>

\* An `ip' command fails before CreateEndpoint, or the daemon is not there.
PlumbFails(p) ==
    /\ At(p, "plumb") \/ At(p, "attach")
    /\ Go(p, "unplumb")
    /\ UNCHANGED <<files, kernel, datapath, life>>

-----------------------------------------------------------------------------
\* Mistake: one row more.
HasRoomForOneMore(p) == Own(p) \in ports \/ Cardinality(ports) <= MaxPorts

\* PORTS takes the row of p's veth.
HasRoom(p) == Own(p) \in ports \/ Cardinality(ports) < MaxPorts

\* CreateEndpoint, first the port: programs attached, PORTS row written.
Attach(p) ==
    /\ At(p, "attach") /\ Up
    /\ attached' = attached \cup {Own(p)}
    /\ IF HasRoom(p)
       THEN ports' = ports \cup {Own(p)} /\ Go(p, "program")
       ELSE UNCHANGED ports /\ Go(p, "unplumb")
    /\ UNCHANGED <<files, kernel, fib, life>>

\* Then the pod /32, in the datapath and in the kernel.
Program(p) ==
    /\ At(p, "program") /\ Up
    /\ fib' = [fib EXCEPT ![plug[p].ip] = Own(p)]
    /\ kroute' = [kroute EXCEPT ![plug[p].ip] = p]
    /\ Go(p, "record")
    /\ UNCHANGED <<files, veth, born, ports, attached, life>>

\* Then the record.
PutEndpoint(p) ==
    /\ At(p, "record") /\ Up /\ CniFree
    /\ rec' = [rec EXCEPT ![p] = [ip |-> plug[p].ip, ifindex |-> Own(p)]]
    /\ Go(p, "finish")
    /\ UNCHANGED <<ipam, kernel, datapath, life>>

\* The hostPort mappings and the result.
AddDone(p) ==
    /\ At(p, "finish")
    /\ Go(p, "up")
    /\ UNCHANGED <<files, kernel, datapath, life>>

\* One of them fails, or the daemon could not add the kernel route.
LateFailure(p) ==
    /\ "lateFailure" \in Faults
    /\ \/ At(p, "finish") /\ UNCHANGED fib
       \/ At(p, "program") /\ Up /\ fib' = [fib EXCEPT ![plug[p].ip] = Own(p)]
    /\ Go(p, "unplumb")
    /\ UNCHANGED <<files, kernel, ports, attached, life>>

-----------------------------------------------------------------------------
\* The roll-back of a failed ADD: link del, then ReleaseIp.
Unplumb(p) ==
    /\ At(p, "unplumb")
    /\ DelLink(p)
    /\ Go(p, "release")
    /\ UNCHANGED <<files, born, datapath, life>>

\* release_ip: by address, and by owner.
Released(p, i) == [j \in Ips |-> IF j = i \/ ipam[j] = p THEN Nobody ELSE ipam[j]]

ReleaseIp(p) ==
    /\ At(p, "release") /\ Up /\ CniFree
    /\ ipam' = Released(p, plug[p].ip)
    /\ plug' = [plug EXCEPT ![p] = [pc |-> "none", ip |-> NoIp]]
    /\ UNCHANGED <<rec, kernel, datapath, life>>

\* ... best effort: a daemon that is down keeps the allocation.
ReleaseSkipped(p) ==
    /\ At(p, "release") /\ ~Up
    /\ plug' = [plug EXCEPT ![p] = [pc |-> "none", ip |-> NoIp]]
    /\ UNCHANGED <<files, kernel, datapath, life>>

-----------------------------------------------------------------------------
(***************************************************************************)
(* DEL and GC.                                                             *)
(***************************************************************************)
Del(p) ==
    /\ plug[p].pc \in {"none", "up", "zombie", "gone"}
    /\ IF Up THEN Go(p, "delRoutes") ELSE Go(p, "delLink")
    /\ UNCHANGED <<files, kernel, datapath, life>>

\* Mistake: a record whose host veth is gone is taken for deleted.
GcNeedsVeth(p) ==
    /\ plug[p].pc \in {"none", "zombie", "gone"} /\ Up
    /\ rec[p] # NoRecord /\ veth[p] # 0
    /\ Go(p, "delRoutes")
    /\ UNCHANGED <<files, kernel, datapath, life>>

\* GC does the same for a record whose attachment the runtime does not know.
Gc(p) ==
    /\ plug[p].pc \in {"none", "zombie", "gone"} /\ Up
    /\ rec[p] # NoRecord
    /\ Go(p, "delRoutes")
    /\ UNCHANGED <<files, kernel, datapath, life>>

\* DeleteEndpoint takes the lock and finds no record.
DeleteAbsent(p) ==
    /\ At(p, "delRoutes") /\ Up /\ CniFree
    /\ rec[p] = NoRecord
    /\ Go(p, "delLink")
    /\ UNCHANGED <<files, kernel, datapath, life>>

\* Mistake: the route stays in the datapath.
DeleteRoutesKernelOnly(p) ==
    /\ At(p, "delRoutes") /\ Up /\ CniFree
    /\ rec[p] # NoRecord
    /\ kroute' = [kroute EXCEPT ![rec[p].ip] = IF @ = p THEN Nobody ELSE @]
    /\ Go(p, "delRelease")
    /\ UNCHANGED <<files, veth, born, datapath, life>>

\* It finds one: the routes of its address are removed.
DeleteRoutes(p) ==
    /\ At(p, "delRoutes") /\ Up /\ CniFree
    /\ rec[p] # NoRecord
    /\ fib' = [fib EXCEPT ![rec[p].ip] = NoIfindex]
    /\ kroute' = [kroute EXCEPT ![rec[p].ip] = IF @ = p THEN Nobody ELSE @]
    /\ Go(p, "delRelease")
    /\ UNCHANGED <<files, veth, born, ports, attached, life>>

DeleteRelease(p) ==
    /\ At(p, "delRelease")
    /\ attached' = attached \ {rec[p].ifindex}
    /\ ipam' = Released(p, rec[p].ip)
    /\ Go(p, "delRecord")
    /\ UNCHANGED <<rec, kernel, fib, ports, life>>

DeleteRecord(p) ==
    /\ At(p, "delRecord")
    /\ rec' = [rec EXCEPT ![p] = NoRecord]
    /\ Go(p, "delLink")
    /\ UNCHANGED <<ipam, kernel, datapath, life>>

\* The daemon is gone before the lock is taken: the error is ignored.
DeleteLost(p) ==
    /\ At(p, "delRoutes") /\ ~Up
    /\ Go(p, "delLink")
    /\ UNCHANGED <<files, kernel, datapath, life>>

DelDone(p) ==
    /\ At(p, "delLink")
    /\ DelLink(p)
    /\ plug' = [plug EXCEPT ![p] = [pc |-> "gone", ip |-> NoIp]]
    /\ UNCHANGED <<files, born, datapath, life>>

-----------------------------------------------------------------------------
(***************************************************************************)
(* Faults, and the daemon's recovery.                                      *)
(***************************************************************************)
\* The plugin dies, and a handler that awaits a lock for it is dropped (none
\* does between the two writes of DeleteEndpoint).  The runtime follows up
\* with DEL.
Kill(p) ==
    /\ "kill" \in Faults
    /\ plug[p].pc \in (AddSteps \cup DelSteps) \ {"delRecord"}
    /\ plug' = [plug EXCEPT ![p] = [pc |-> "zombie", ip |-> NoIp]]
    /\ UNCHANGED <<files, kernel, datapath, life>>

\* What a plugin sees of a crash: CreateEndpoint fails, DeleteEndpoint's
\* error is ignored.
AfterCrash(pc) ==
    CASE pc \in {"program", "record"} -> "unplumb"
      [] pc \in {"delRelease", "delRecord"} -> "delLink"
      [] OTHER -> pc

Crash ==
    /\ "crash" \in Faults
    /\ crashes < MaxCrashes
    /\ daemon # "down"
    /\ "tornDelete" \in Faults \/ \A p \in Pods : ~At(p, "delRecord")
    /\ daemon' = "down"
    /\ crashes' = crashes + 1
    /\ todo' = {}
    /\ fib' = [i \in Ips |-> NoIfindex]
    /\ ports' = {}
    /\ attached' = {}
    /\ \E lost \in SUBSET {p \in Pods : At(p, "finish") /\ "lostReply" \in Faults} :
          plug' = [p \in Pods |->
                     [plug[p] EXCEPT !.pc = IF p \in lost THEN "unplumb" ELSE AfterCrash(@)]]
    /\ UNCHANGED <<files, kernel>>

Restart ==
    /\ daemon = "down"
    /\ daemon' = "reconcile"
    /\ todo' = {p \in Pods : rec[p] # NoRecord}
    /\ UNCHANGED <<files, kernel, datapath, crashes, plug>>

\* cni_reconcile, a record whose host veth is gone: complete the delete.
ReconcileGone(p) ==
    /\ daemon = "reconcile" /\ p \in todo
    /\ veth[p] = 0
    /\ ipam' = Released(p, rec[p].ip)
    /\ rec' = [rec EXCEPT ![p] = NoRecord]
    /\ todo' = todo \ {p}
    /\ UNCHANGED <<kernel, datapath, daemon, crashes, plug>>

\* ... or there: cni_create_endpoint again, from the record; a failure is
\* logged and the next record looked at.
ReconcileLive(p) ==
    /\ daemon = "reconcile" /\ p \in todo
    /\ veth[p] # 0
    /\ attached' = attached \cup {Own(p)}
    /\ IF HasRoom(p)
       THEN /\ ports' = ports \cup {Own(p)}
            /\ fib' = [fib EXCEPT ![rec[p].ip] = Own(p)]
            /\ kroute' = [kroute EXCEPT ![rec[p].ip] = p]
            /\ rec' = [rec EXCEPT ![p].ifindex = Own(p)]
       ELSE UNCHANGED <<ports, fib, kroute, rec>>
    /\ todo' = todo \ {p}
    /\ UNCHANGED <<ipam, veth, born, daemon, crashes, plug>>

\* Mistake: requests are served while the reconcile runs.
ServeAtOnce ==
    /\ daemon = "reconcile"
    /\ daemon' = "up"
    /\ UNCHANGED <<files, kernel, datapath, todo, crashes, plug>>

Serve ==
    /\ daemon = "reconcile" /\ todo = {}
    /\ daemon' = "up"
    /\ UNCHANGED <<files, kernel, datapath, todo, crashes, plug>>

-----------------------------------------------------------------------------
Add(p) ==
    \/ AllocIp(p) \/ Plumb(p) \/ PlumbFails(p)
    \/ Attach(p) \/ Program(p) \/ PutEndpoint(p)
    \/ AddDone(p) \/ LateFailure(p)
    \/ Unplumb(p) \/ ReleaseIp(p) \/ ReleaseSkipped(p)

\* DEL and GC once they have begun.
DelStep(p) ==
    \/ DeleteAbsent(p) \/ DeleteRoutes(p) \/ DeleteRelease(p)
    \/ DeleteRecord(p) \/ DeleteLost(p) \/ DelDone(p)

\* A daemon that comes back.
Recover ==
    \/ Restart \/ Serve
    \/ \E p \in Pods : ReconcileGone(p) \/ ReconcileLive(p)

Next ==
    \/ \E p \in Pods : Add(p) \/ Del(p) \/ Gc(p) \/ DelStep(p) \/ Kill(p)
    \/ Crash \/ Recover

Spec == Init /\ [][Next]_vars

\* The supervisor restarts the daemon, a DEL that has begun is not left
\* half-way, and the runtime goes on asking for GC.
FairSpec ==
    /\ Spec
    /\ WF_vars(Recover)
    /\ \A p \in Pods : WF_vars(DelStep(p)) /\ WF_vars(Gc(p))

-----------------------------------------------------------------------------
(***************************************************************************)
(* Properties.                                                             *)
(***************************************************************************)
\* Every variable has its type, and PORTS no more rows than it can hold.
TypeOK ==
    /\ ipam \in [Ips -> Pods \cup {Nobody}]
    /\ rec \in [Pods -> [ip : Ips \cup {NoIp}, ifindex : Ifindex \cup {NoIfindex}]]
    /\ veth \in [Pods -> Nat] /\ born \in [Pods -> Nat]
    /\ kroute \in [Ips -> Pods \cup {Nobody}]
    /\ fib \in [Ips -> Ifindex \cup {NoIfindex}]
    /\ ports \subseteq Ifindex /\ Cardinality(ports) <= MaxPorts
    /\ attached \subseteq Ifindex
    /\ daemon \in {"up", "down", "reconcile"}
    /\ todo \subseteq Pods /\ crashes \in Nat
    /\ plug \in [Pods -> [pc : Steps, ip : Ips \cup {NoIp}]]

Live(p) == At(p, "up")

\* A running pod owns its address in the allocator, so that no other pod is
\* given it: through killed plugins, crashes and restarts.
AddressesKept == \A p \in Pods : Live(p) => ipam[plug[p].ip] = p

\* Why: a plugin owns the address it works with until it has given it back; a
\* record names an address its pod owns, until DeleteEndpoint is past the
\* release; and who is still to write a record, or has rolled back, has none.
Owning == {"plumb", "attach", "program", "record", "finish", "up", "unplumb", "release"}
Early == {"none", "plumb", "attach", "program", "record", "unplumb", "release"}

Ledger ==
    /\ \A p \in Pods : plug[p].pc \in Owning =>
          plug[p].ip \in Ips /\ ipam[plug[p].ip] = p
    /\ \A p \in Pods : rec[p] # NoRecord /\ ~At(p, "delRecord") =>
          rec[p].ip \in Ips /\ ipam[rec[p].ip] = p
    /\ \A p \in Pods : plug[p].pc \in Early => rec[p] = NoRecord

\* ... and the reconcile takes a record for dead only when its veth is gone,
\* which is not so for a pod that has one in use.
Recovery ==
    /\ \A p \in Pods : plug[p].pc \in {"attach", "program", "record", "finish", "up"} =>
          veth[p] # 0
    /\ \A p \in Pods : plug[p].pc \in Deleting => Up
    /\ daemon # "reconcile" => todo = {}
    /\ \A p \in todo : rec[p] # NoRecord

\* Whenever the daemon serves, the traffic of a running pod reaches it: its
\* address is routed to the veth it has now, by the datapath and by the
\* kernel, the programs run on that veth, and the record says so.
Reachable ==
    \A p \in Pods : Up /\ Live(p) =>
        /\ rec[p] = [ip |-> plug[p].ip, ifindex |-> Own(p)]
        /\ fib[plug[p].ip] = Own(p) /\ kroute[plug[p].ip] = p
        /\ Own(p) \in ports /\ Own(p) \in attached

\* The datapath routes an address only to a pod that owns it: never to the
\* interface of one the address was taken from.
RoutesFollowOwners == \A i \in Ips : fib[i] # NoIfindex => ipam[i] = fib[i][1]

\* A record that outlives its pod is removed in the end: after a DEL that the
\* daemon missed, through crashes, half-done deletes and failed ADDs.
Collected == \A p \in Pods : At(p, "gone") /\ rec[p] # NoRecord ~> rec[p] = NoRecord
=============================================================================
