------------------------------ MODULE Services ------------------------------
(***************************************************************************)
(* The L4 service tables: Dataplane::service_add and service_del           *)
(* (dataplane.rs; service6_add and service6_del are the same on their own  *)
(* maps) on the BPF maps SERVICES and BACKENDS, one map operation per      *)
(* step.                                                                   *)
(*                                                                         *)
(* SERVICES gives a VIP its backend count and an id; the backends are rows *)
(* of BACKENDS under (id, slot).  The id comes with the request: the       *)
(* Kubernetes agent hashes the VIP, a configuration file numbers its       *)
(* services from 1.  Calls run under the dataplane mutex, one at a time;   *)
(* packets, which do not take it, are added by module Nat.  The maps are   *)
(* shared with services outside the instance, so they may be full at any   *)
(* moment; a call that cannot insert its SERVICES row changes nothing.     *)
(***************************************************************************)
EXTENDS Naturals, Sequences, FiniteSets

CONSTANTS Ends,          \* (address, port) pairs
          Ids,           \* svc_ids
          MaxSlots,      \* bound on the backends of one service
          Requests       \* the AddService requests callers make

Request == [vip : Ends, id : Ids, backends : Seq(Ends), affinity : BOOLEAN]

ASSUME RequestsAssumption ==
    Requests \subseteq Request /\ \A r \in Requests : Len(r.backends) <= MaxSlots
ASSUME MaxSlotsAssumption == MaxSlots \in Nat

Vips == {r.vip : r \in Requests}
Slots == 0 .. (MaxSlots - 1)
SlotKey == Ids \X Slots

\* A row of SERVICES; NoService: the VIP has none.
ServiceInfo == [count : 0 .. MaxSlots, id : Ids, affinity : BOOLEAN]
NoService == [count |-> 0]
\* BACKENDS has no row under a key.
NoEnd == [addr |-> "none", port |-> 0]
ASSUME NoEndAssumption == NoEnd \notin Ends

VARIABLES services,   \* SERVICES: Vips -> row
          backends,   \* BACKENDS: SlotKey -> backend
          call,       \* the call in progress
          want,       \* history: the backends last requested for a VIP
          failed      \* history: VIPs whose last AddService failed half-way

svars == <<services, backends, call, want, failed>>

NoCall == [op |-> "none"]
Idle == call = NoCall

SInit ==
    /\ services = [v \in Vips |-> NoService]
    /\ backends = [k \in SlotKey |-> NoEnd]
    /\ call = NoCall
    /\ want = [v \in Vips |-> <<>>]
    /\ failed = {}

Installed == {v \in Vips : services[v] # NoService}
Filled == {k \in SlotKey : backends[k] # NoEnd}

-----------------------------------------------------------------------------
\* Mistake: the last index is published for the count.
ServiceAddCounts(r) ==
    /\ Idle
    /\ services' = [services EXCEPT ![r.vip] =
           [count |-> Len(r.backends) + 1, id |-> r.id, affinity |-> r.affinity]]
    /\ call' = [op |-> "add", vip |-> r.vip, id |-> r.id, backends |-> r.backends,
                old |-> services[r.vip], was |-> want[r.vip], slot |-> 0]
    /\ want' = [want EXCEPT ![r.vip] = r.backends]
    /\ failed' = failed \ {r.vip}
    /\ UNCHANGED backends

\* service_add: the row with the new count first, ...
ServiceAdd(r) ==
    /\ Idle
    /\ services' = [services EXCEPT ![r.vip] =
           [count |-> Len(r.backends), id |-> r.id, affinity |-> r.affinity]]
    /\ call' = [op |-> "add", vip |-> r.vip, id |-> r.id, backends |-> r.backends,
                old |-> services[r.vip], was |-> want[r.vip], slot |-> 0]
    /\ want' = [want EXCEPT ![r.vip] = r.backends]
    /\ failed' = failed \ {r.vip}
    /\ UNCHANGED backends

\* ... then the backends, slot by slot, ...
InsertBackend ==
    /\ call.op = "add" /\ call.slot < Len(call.backends)
    /\ backends' = [backends EXCEPT ![<<call.id, call.slot>>] =
                                       call.backends[call.slot + 1]]
    /\ call' = [call EXCEPT !.slot = @ + 1]
    /\ UNCHANGED <<services, want, failed>>

\* ... where a new row may find the map full, which ends the call, ...
InsertFails ==
    /\ call.op = "add" /\ call.slot < Len(call.backends)
    /\ <<call.id, call.slot>> \notin Filled
    /\ call' = NoCall
    /\ failed' = failed \cup {call.vip}
    /\ UNCHANGED <<services, backends, want>>

\* Mistake: the slots a smaller set no longer uses are left behind.
RemoveStaleNever ==
    /\ call.op = "add" /\ call.slot >= Len(call.backends)
    /\ call' = NoCall
    /\ UNCHANGED <<services, backends, want, failed>>

\* Mistake: the removal starts at the last slot of the new set.
RemoveStaleEarly ==
    /\ call.op = "add" /\ call.slot >= Len(call.backends)
    /\ IF call.slot < call.old.count
       THEN /\ backends' = [backends EXCEPT ![<<call.old.id, call.slot - 1>>] = NoEnd]
            /\ call' = [call EXCEPT !.slot = @ + 1]
       ELSE call' = NoCall /\ UNCHANGED backends
    /\ UNCHANGED <<services, want, failed>>

\* ... then the removal of the slots the old, larger set had beyond it.
RemoveStale ==
    /\ call.op = "add" /\ call.slot >= Len(call.backends)
    /\ IF call.slot < call.old.count
       THEN /\ backends' = [backends EXCEPT ![<<call.old.id, call.slot>>] = NoEnd]
            /\ call' = [call EXCEPT !.slot = @ + 1]
       ELSE call' = NoCall /\ UNCHANGED backends
    /\ UNCHANGED <<services, want, failed>>

\* service_del: an unknown VIP is a no-op; else the slots, ...
ServiceDel(v) ==
    /\ Idle /\ v \in Installed
    /\ call' = [op |-> "del", vip |-> v, old |-> services[v], slot |-> 0]
    /\ UNCHANGED <<services, backends, want, failed>>

\* ... then the row.
RemoveService ==
    /\ call.op = "del"
    /\ IF call.slot < call.old.count
       THEN /\ backends' = [backends EXCEPT ![<<call.old.id, call.slot>>] = NoEnd]
            /\ call' = [call EXCEPT !.slot = @ + 1]
            /\ UNCHANGED <<services, want, failed>>
       ELSE /\ services' = [services EXCEPT ![call.vip] = NoService]
            /\ call' = NoCall
            /\ want' = [want EXCEPT ![call.vip] = <<>>]
            /\ failed' = failed \ {call.vip}
            /\ UNCHANGED backends

SNext ==
    \/ \E r \in Requests : ServiceAdd(r)
    \/ InsertBackend
    \/ InsertFails
    \/ RemoveStale
    \/ \E v \in Vips : ServiceDel(v)
    \/ RemoveService

SSpec == SInit /\ [][SNext]_svars

-----------------------------------------------------------------------------
(***************************************************************************)
(* Properties.                                                             *)
(***************************************************************************)
AddCall == [op : {"add"}, vip : Vips, id : Ids, backends : Seq(Ends),
            was : Seq(Ends), old : ServiceInfo \cup {NoService}, slot : Nat]
DelCall == [op : {"del"}, vip : Vips, old : ServiceInfo, slot : Nat]

ServicesTypeOK ==
    /\ services \in [Vips -> ServiceInfo \cup {NoService}]
    /\ backends \in [SlotKey -> Ends \cup {NoEnd}]
    /\ call \in AddCall \cup DelCall \cup {NoCall}
    /\ want \in [Vips -> Seq(Ends)]
    /\ failed \subseteq Vips

\* Between calls the tables say what callers asked for ("Re-adding an
\* existing service replaces its backend set (stale higher slots from a
\* previously larger set are removed)"): every slot below the count of a
\* service holds the backend last requested for it, unless its call failed,
\* and BACKENDS has no other row.
SlotsExact ==
    Idle =>
      /\ \A v \in Installed \ failed : \A s \in 1 .. Len(want[v]) :
            /\ services[v].count = Len(want[v])
            /\ backends[<<services[v].id, s - 1>>] = want[v][s]
      /\ \A k \in Filled : \E v \in Installed :
            services[v].id = k[1] /\ k[2] < services[v].count

\* Callers give every VIP an id of its own, and keep it.
OwnIds == \A r, q \in Requests : r.id = q.id <=> r.vip = q.vip
=============================================================================
