----------------------------- MODULE NatProofs -----------------------------
(***************************************************************************)
(* For any services, packets and CPUs: as long as callers give every VIP   *)
(* an id of its own, the service tables say what was asked for between     *)
(* calls, and a packet goes to a backend its service was asked to have     *)
(* whatever calls run between its loads.                                   *)
(*                                                                         *)
(* And conntrack has, for every flow it translates, the row that undoes    *)
(* it, and so answers come back as the client expects them and past        *)
(* network policy, whatever is evicted or inserted meanwhile, provided the *)
(* ends of the flows are apart and NON_MASQ covers the cluster (Topology). *)
(***************************************************************************)
EXTENDS Nat, TLAPS

-----------------------------------------------------------------------------
(* The inductive invariant of the service tables.                          *)

\* Ids are those of the requests.
IdsRequested ==
    /\ \A v \in Installed : \E r \in Requests : r.vip = v /\ r.id = services[v].id
    /\ call.op = "add" => \E r \in Requests :
          /\ call.vip = r.vip /\ call.id = r.id /\ call.backends = r.backends
          /\ call.old # NoService => call.old.id = r.id

\* What a call has done so far.
CallSound ==
    /\ call.op = "add" =>
         /\ services[call.vip] # NoService
         /\ services[call.vip].id = call.id
         /\ services[call.vip].count = Len(call.backends)
         /\ want[call.vip] = call.backends
         /\ call.vip \notin failed
         /\ \A s \in Slots : s < call.slot /\ s < Len(call.backends)
               => backends[<<call.id, s>>] = call.backends[s + 1]
    /\ call.op = "del" =>
         /\ services[call.vip] = call.old
         /\ \A s \in Slots : s < call.slot => backends[<<call.old.id, s>>] = NoEnd

\* A service no call is at work on has the backends it was asked to have.
Exact ==
    \A v \in Installed \ failed :
        \/ call.op # "none" /\ call.vip = v
        \/ /\ services[v].count = Len(want[v])
           /\ \A s \in 1 .. Len(want[v]) :
                 backends[<<services[v].id, s - 1>>] = want[v][s]

\* A row belongs to a service, or waits to be removed from it.
Owned ==
    \A k \in Filled : \E v \in Installed :
        /\ services[v].id = k[1]
        /\ \/ k[2] < services[v].count
           \/ call.op = "add" /\ call.vip = v /\ call.slot <= k[2] /\ k[2] < call.old.count

\* The rows of an id fill a prefix of the slots, but for those a call has
\* removed so far.  A call that fails for want of room relies on it.
Hole(id, s) ==
    \/ call.op = "add" /\ call.id = id /\ Len(call.backends) <= s /\ s < call.slot
    \/ call.op = "del" /\ call.old.id = id /\ s < call.slot
Prefix ==
    \A k \in Filled : \A s \in Slots :
        s < k[2] => <<k[1], s>> \in Filled \/ Hole(k[1], s)

\* A row is a backend its service was asked to have now or, during a call,
\* before it.
RowValues ==
    \A r \in Requests : \A s \in Slots :
        backends[<<r.id, s>>] \in SeenNow(r.vip) \cup {NoEnd}

TablesInv ==
    /\ ServicesTypeOK
    /\ IdsRequested /\ CallSound /\ Exact /\ Owned /\ Prefix /\ RowValues

-----------------------------------------------------------------------------
(* The inductive invariant of a packet.                                    *)

Looking(p) == p.pc \in {"sticky", "stick", "backend"}
Done == {"policy", "out", "admit", "record", "delivered", "dropped", "lost"}

\* A packet that looks a service up has seen every backend it may find, and
\* if nothing happened to the service, will find one.
LookupSound(p) ==
    Looking(p) =>
      /\ \E r \in Requests : r.vip = p.t.dst /\ r.id = p.info.id
      /\ p.info \in ServiceInfo
      /\ \A s \in Slots : backends[<<p.info.id, s>>] \in p.seen \cup {NoEnd}
      /\ call.op = "add" /\ call.vip = p.t.dst => Range(call.backends) \subseteq p.seen
      /\ p.steady => /\ services[p.t.dst] = p.info
                     /\ p.t.dst \notin failed
                     /\ call.op # "none" => call.vip # p.t.dst
      /\ p.pc # "sticky" => p.slot < p.info.count

\* What is set in a packet at each stage; only one that is done with the
\* lookup can have met an empty slot.
PktSet(p) ==
    /\ p \in Pkt
    /\ p.pc # "idle" => p.t \in Tuple /\ p.flow \in Flows
    /\ p.pc \in {"forward", "back"} => p.be \in Ends
    /\ p.hole => p.pc \in Done /\ ~p.steady
    /\ p.pc = "forward" /\ p.flag = "dnat" => p.be \in p.seen

MapsTyped ==
    /\ ct \in [DOMAIN ct -> CtEntry] /\ DOMAIN ct \subseteq Tuple
    /\ evicted \subseteq Tuple /\ evicted \cap DOMAIN ct = {}
    /\ affinity \in [Ids \X Addrs -> 0 .. MaxSlots]
    /\ pct \subseteq Tuple
    /\ rcvd \subseteq [t : Tuple, flow : Flows]
    /\ pkt = [c \in Cpus |-> pkt[c]]

NatInv ==
    /\ TablesInv /\ MapsTyped
    /\ \A c \in Cpus : PktSet(pkt[c]) /\ LookupSound(pkt[c])

-----------------------------------------------------------------------------
(* The service tables.                                                     *)

\* A row of SERVICES is not the absence of one.
LEMMA RowIsThere ==
    ASSUME NEW x \in ServiceInfo
    PROVE  x # NoService /\ x.count \in 0 .. MaxSlots /\ x.id \in Ids
<1>1. DOMAIN x = {"count", "id", "affinity"}
  BY DEF ServiceInfo
<1>2. DOMAIN NoService = {"count"}
  BY DEF NoService
<1> QED
  BY <1>1, <1>2 DEF ServiceInfo

LEMMA CallKinds ==
    ASSUME ServicesTypeOK
    PROVE  /\ call.op = "add" => call \in AddCall
           /\ call.op = "del" => call \in DelCall
           /\ call.op = "none" <=> Idle
           /\ call.op \in {"add", "del", "none"}
BY DEF ServicesTypeOK, AddCall, DelCall, NoCall, Idle

LEMMA InstalledRows ==
    ASSUME ServicesTypeOK, NEW v \in Installed
    PROVE  v \in Vips /\ services[v] \in ServiceInfo
BY DEF ServicesTypeOK, Installed

\* Two services have two ids.
LEMMA OneOwner ==
    ASSUME OwnIds, ServicesTypeOK, IdsRequested,
           NEW v \in Installed, NEW w \in Installed, services[v].id = services[w].id
    PROVE  v = w
<1>1. PICK r \in Requests : r.vip = v /\ r.id = services[v].id
  BY DEF IdsRequested
<1>2. PICK q \in Requests : q.vip = w /\ q.id = services[w].id
  BY DEF IdsRequested
<1> QED
  BY <1>1, <1>2 DEF OwnIds

LEMMA RequestFacts ==
    ASSUME NEW r \in Requests
    PROVE  /\ r.vip \in Vips /\ r.vip \in Ends /\ r.id \in Ids /\ r.affinity \in BOOLEAN
           /\ r.backends \in Seq(Ends)
           /\ Len(r.backends) \in Nat /\ Len(r.backends) <= MaxSlots
           /\ MaxSlots \in Nat
           /\ \A i \in 1 .. Len(r.backends) : r.backends[i] \in Ends
           /\ DOMAIN r.backends = 1 .. Len(r.backends)
<1>1. r \in Request /\ Len(r.backends) <= MaxSlots
  BY RequestsAssumption
<1>2. r.backends \in Seq(Ends)
  BY <1>1 DEF Request
<1> QED
  BY <1>1, <1>2, MaxSlotsAssumption DEF Request, Vips

\* What a running AddService works with.
LEMMA AddFacts ==
    ASSUME TablesInv, call.op = "add"
    PROVE  /\ call \in AddCall /\ ~Idle
           /\ call.vip \in Installed /\ services[call.vip] \in ServiceInfo
           /\ call.id \in Ids /\ call.slot \in Nat
           /\ Len(call.backends) \in Nat /\ Len(call.backends) <= MaxSlots
           /\ \A i \in 1 .. Len(call.backends) : call.backends[i] \in Ends
           /\ DOMAIN call.backends = 1 .. Len(call.backends)
           /\ call.old.count \in 0 .. MaxSlots
           /\ call.old.count # 0 => call.old \in ServiceInfo /\ call.old.id = call.id
           /\ MaxSlots \in Nat
<1>1. call \in AddCall /\ ~Idle
  BY CallKinds DEF TablesInv
<1>2. PICK r \in Requests : call.vip = r.vip /\ call.id = r.id /\ call.backends = r.backends
                            /\ (call.old # NoService => call.old.id = r.id)
  BY DEF TablesInv, IdsRequested
<1>3. call.vip \in Installed
  BY <1>2, RequestFacts DEF TablesInv, CallSound, Installed
<1>4. services[call.vip] \in ServiceInfo
  BY <1>3, InstalledRows DEF TablesInv
<1>5. call.old \in ServiceInfo \cup {NoService} /\ call.slot \in Nat
  BY <1>1 DEF AddCall
<1>6. NoService.count = 0
  BY DEF NoService
<1>7. call.old \in ServiceInfo => call.old # NoService /\ call.old.count \in 0 .. MaxSlots
  BY RowIsThere
<1> QED
  BY <1>1, <1>2, <1>3, <1>4, <1>5, <1>6, <1>7, RequestFacts, MaxSlotsAssumption

LEMMA DelFacts ==
    ASSUME TablesInv, call.op = "del"
    PROVE  /\ call \in DelCall /\ ~Idle
           /\ call.vip \in Installed /\ services[call.vip] = call.old
           /\ call.old \in ServiceInfo /\ call.slot \in Nat
           /\ call.old.id \in Ids /\ call.old.count \in 0 .. MaxSlots
<1>1. call \in DelCall /\ ~Idle
  BY CallKinds DEF TablesInv
<1>2. call.old \in ServiceInfo /\ call.vip \in Vips /\ call.slot \in Nat
  BY <1>1 DEF DelCall
<1>3. services[call.vip] = call.old
  BY DEF TablesInv, CallSound
<1>4. call.old # NoService /\ call.old.id \in Ids /\ call.old.count \in 0 .. MaxSlots
  BY <1>2, RowIsThere
<1> QED
  BY <1>1, <1>2, <1>3, <1>4 DEF Installed

LEMMA TablesInit ==
    ASSUME SInit
    PROVE  TablesInv
<1>1. Installed = {} /\ Filled = {}
  BY DEF SInit, Installed, Filled
<1>2. call.op = "none"
  BY DEF SInit, NoCall
<1>3. \A r \in Requests : r.id \in Ids
  BY RequestFacts
<1>4. ServicesTypeOK
  BY DEF SInit, ServicesTypeOK
<1>5. RowValues
  BY <1>3 DEF SInit, RowValues, SlotKey
<1> QED
  BY <1>1, <1>2, <1>4, <1>5
     DEF TablesInv, IdsRequested, CallSound, Exact, Owned, Prefix

\* The record service_add installs.
LEMMA AddTables ==
    ASSUME OwnIds, TablesInv, NEW r \in Requests, ServiceAdd(r)
    PROVE  TablesInv'
<1> DEFINE row == [count |-> Len(r.backends), id |-> r.id, affinity |-> r.affinity]
           v == r.vip
<1>r. /\ v \in Vips /\ r.id \in Ids /\ r.backends \in Seq(Ends)
      /\ Len(r.backends) \in Nat /\ Len(r.backends) <= MaxSlots /\ MaxSlots \in Nat
  BY RequestFacts
<1>w. row \in ServiceInfo
  BY <1>r, RequestFacts DEF ServiceInfo
<1>n. row # NoService
  BY <1>w, RowIsThere
<1>t. ServicesTypeOK
  BY DEF TablesInv
<1>i. Idle /\ call.op = "none"
  BY <1>t, CallKinds DEF ServiceAdd
<1>s. services' = [services EXCEPT ![v] = row]
  BY DEF ServiceAdd
<1>v. services'[v] = row /\ \A u \in Vips : u # v => services'[u] = services[u]
  BY <1>s, <1>r, <1>t DEF ServicesTypeOK
<1>c. call' = [op |-> "add", vip |-> v, id |-> r.id, backends |-> r.backends,
               old |-> services[v], was |-> want[v], slot |-> 0]
  BY DEF ServiceAdd
<1>f. /\ call'.op = "add" /\ call'.vip = v /\ call'.id = r.id /\ call'.was = want[v]
      /\ call'.backends = r.backends /\ call'.old = services[v] /\ call'.slot = 0
  BY <1>c
<1>b. backends' = backends /\ Filled' = Filled
  BY DEF ServiceAdd, Filled
<1>u. want'[v] = r.backends /\ \A u \in Vips : u # v => want'[u] = want[u]
  BY <1>r, <1>t DEF ServicesTypeOK, ServiceAdd
<1>g. Installed' = Installed \cup {v}
  BY <1>v, <1>n, <1>r DEF Installed
<1>h. HIDE DEF row, v
<1>old. services[v] # NoService => v \in Installed /\ services[v].id = r.id
  <2> HAVE services[v] # NoService
  <2>1. v \in Installed
    BY <1>r DEF Installed
  <2>2. PICK q \in Requests : q.vip = v /\ q.id = services[v].id
    BY <2>1 DEF TablesInv, IdsRequested
  <2>3. q.id = r.id
    BY <2>2 DEF OwnIds, v
  <2> QED
    BY <2>1, <2>2, <2>3
<1>1. ServicesTypeOK'
  <2>1. services' \in [Vips -> ServiceInfo \cup {NoService}]
    BY <1>s, <1>w, <1>t DEF ServicesTypeOK
  <2>2. want' \in [Vips -> Seq(Ends)] /\ failed' \subseteq Vips
    BY <1>r, <1>t DEF ServicesTypeOK, ServiceAdd
  <2>3. call' \in AddCall
    BY <1>c, <1>r, <1>t DEF ServicesTypeOK, AddCall
  <2> QED
    BY <2>1, <2>2, <2>3, <1>b, <1>t DEF ServicesTypeOK
<1>2. IdsRequested'
  <2>1. \A u \in Installed' : \E q \in Requests : q.vip = u /\ q.id = services'[u].id
    <3> TAKE u \in Installed'
    <3>1. CASE u = v
      BY <3>1, <1>v DEF row, v
    <3>2. CASE u # v
      <4>1. u \in Installed /\ u \in Vips /\ services'[u] = services[u]
        BY <3>2, <1>g, <1>v DEF Installed
      <4> QED
        BY <4>1 DEF TablesInv, IdsRequested
    <3> QED
      BY <3>1, <3>2
  <2> QED
    BY <2>1, <1>f, <1>old DEF IdsRequested, v
<1>3. CallSound'
  <2>1. \A s \in Slots : ~(s < 0)
    BY DEF Slots
  <2>2. v \notin failed'
    BY DEF ServiceAdd, v
  <2> QED
    BY <2>1, <2>2, <1>f, <1>v, <1>n, <1>u DEF CallSound, row
<1>4. Exact'
  <2> SUFFICES ASSUME NEW u \in Installed' \ failed', u # v
               PROVE  /\ services'[u].count = Len(want'[u])
                      /\ \A s \in 1 .. Len(want'[u]) :
                            backends'[<<services'[u].id, s - 1>>] = want'[u][s]
    BY <1>f DEF Exact
  <2>1. u \in Installed /\ u \in Vips
    BY <1>g DEF Installed
  <2>2. u \notin failed
    BY DEF ServiceAdd, v
  <2> QED
    BY <2>1, <2>2, <1>v, <1>u, <1>b, <1>i DEF TablesInv, Exact
<1>5. Owned'
  <2> SUFFICES ASSUME NEW k \in Filled
               PROVE  \E u \in Installed' :
                         /\ services'[u].id = k[1]
                         /\ \/ k[2] < services'[u].count
                            \/ /\ call'.op = "add" /\ call'.vip = u
                               /\ call'.slot <= k[2] /\ k[2] < call'.old.count
    BY <1>b DEF Owned
  <2>1. PICK u \in Installed : services[u].id = k[1] /\ k[2] < services[u].count
    BY <1>i DEF TablesInv, Owned
  <2>2. k[2] \in Nat
    BY <1>r DEF Filled, SlotKey, Slots
  <2>3. CASE u = v
    <3>1. services'[v].id = k[1]
      BY <2>1, <2>3, <1>v, <1>old DEF Installed, row
    <3>2. call'.slot <= k[2] /\ k[2] < call'.old.count
      BY <2>1, <2>2, <2>3, <1>f
    <3> QED
      BY <3>1, <3>2, <1>f, <1>g
  <2>4. CASE u # v
    BY <2>1, <2>4, <1>v, <1>g DEF Installed
  <2> QED
    BY <2>3, <2>4
<1>6. Prefix'
  <2>1. \A id, s : ~Hole(id, s)
    BY <1>i DEF Hole
  <2> QED
    BY <2>1, <1>b DEF TablesInv, Prefix
<1>7. RowValues'
  <2> SUFFICES ASSUME NEW q \in Requests, NEW s \in Slots
               PROVE  backends[<<q.id, s>>] \in SeenNow(q.vip)' \cup {NoEnd}
    BY <1>b DEF RowValues
  <2>1. backends[<<q.id, s>>] \in Range(want[q.vip]) \cup {NoEnd}
    BY <1>i DEF TablesInv, RowValues, SeenNow
  <2>2. q.vip \in Vips
    BY RequestFacts
  <2>3. SeenNow(q.vip)' = Range(want'[q.vip]) \cup
                             (IF q.vip = v THEN Range(want[v]) ELSE {})
    BY <1>f DEF SeenNow
  <2> QED
    BY <2>1, <2>2, <2>3, <1>u
<1> QED
  BY <1>1, <1>2, <1>3, <1>4, <1>5, <1>6, <1>7 DEF TablesInv

\* One slot further.
LEMMA SlotOn ==
    ASSUME call \in AddCall \/ call \in DelCall,
           call' = [call EXCEPT !.slot = @ + 1]
    PROVE  /\ call \in AddCall => call' \in AddCall /\ call'.was = call.was
           /\ call \in AddCall => call'.id = call.id /\ call'.backends = call.backends
           /\ call \in DelCall => call' \in DelCall
           /\ call'.op = call.op /\ call'.vip = call.vip /\ call'.old = call.old
           /\ call'.slot = call.slot + 1
<1>1. CASE call \in AddCall
  <2>1. DOMAIN call = {"op", "vip", "id", "backends", "was", "old", "slot"}
    BY <1>1 DEF AddCall
  <2>2. call.slot + 1 \in Nat
    BY <1>1 DEF AddCall
  <2>3. /\ call'.op = call.op /\ call'.vip = call.vip /\ call'.old = call.old
        /\ call'.slot = call.slot + 1
        /\ call'.id = call.id /\ call'.backends = call.backends /\ call'.was = call.was
    BY <2>1
  <2>4. call' \in AddCall
    BY <1>1, <2>2 DEF AddCall
  <2>5. call \notin DelCall
    BY <1>1 DEF AddCall, DelCall
  <2> QED
    BY <2>3, <2>4, <2>5
<1>2. CASE call \in DelCall
  <2>1. DOMAIN call = {"op", "vip", "old", "slot"}
    BY <1>2 DEF DelCall
  <2>2. call.slot + 1 \in Nat
    BY <1>2 DEF DelCall
  <2>3. /\ call'.op = call.op /\ call'.vip = call.vip /\ call'.old = call.old
        /\ call'.slot = call.slot + 1
    BY <2>1
  <2>4. call' \in DelCall
    BY <1>2, <2>2 DEF DelCall
  <2>5. call \notin AddCall
    BY <1>2 DEF AddCall, DelCall
  <2> QED
    BY <2>3, <2>4, <2>5
<1> QED
  BY <1>1, <1>2

\* An insert: the row is the requested one, the rest is as before.
LEMMA InsertTables ==
    ASSUME OwnIds, TablesInv, InsertBackend
    PROVE  TablesInv'
<1> DEFINE k0 == <<call.id, call.slot>>
           e0 == call.backends[call.slot + 1]
<1>o. call.op = "add" /\ call.slot < Len(call.backends)
  BY DEF InsertBackend
<1>a. /\ call \in AddCall /\ call.vip \in Installed /\ services[call.vip] \in ServiceInfo
      /\ call.id \in Ids /\ call.slot \in Nat
      /\ Len(call.backends) \in Nat /\ Len(call.backends) <= MaxSlots
      /\ \A i \in 1 .. Len(call.backends) : call.backends[i] \in Ends
      /\ DOMAIN call.backends = 1 .. Len(call.backends)
      /\ call.old.count \in 0 .. MaxSlots /\ MaxSlots \in Nat
  BY <1>o, AddFacts
<1>k. k0 \in SlotKey /\ e0 \in Ends /\ e0 \in Range(call.backends) /\ call.slot \in Slots
  BY <1>o, <1>a DEF SlotKey, Slots, Range
<1>t. ServicesTypeOK
  BY DEF TablesInv
<1>b. backends'[k0] = e0 /\ \A k \in SlotKey : k # k0 => backends'[k] = backends[k]
  BY <1>k, <1>t DEF InsertBackend, ServicesTypeOK
<1>f. Filled' = Filled \cup {k0}
  BY <1>b, <1>k, NoEndAssumption DEF Filled
<1>c. /\ call' \in AddCall /\ call'.op = "add" /\ call'.vip = call.vip /\ call'.id = call.id
      /\ call'.backends = call.backends /\ call'.old = call.old /\ call'.was = call.was
      /\ call'.slot = call.slot + 1
  BY <1>a, <1>o, SlotOn DEF InsertBackend
<1>s. /\ services' = services /\ want' = want /\ failed' = failed /\ Installed' = Installed
  BY DEF InsertBackend, Installed
<1>p. /\ services[call.vip].id = call.id /\ services[call.vip].count = Len(call.backends)
      /\ services[call.vip] # NoService /\ want[call.vip] = call.backends
      /\ call.vip \notin failed
      /\ \A s \in Slots : s < call.slot /\ s < Len(call.backends)
               => backends[<<call.id, s>>] = call.backends[s + 1]
  BY <1>o DEF TablesInv, CallSound
<1>1. ServicesTypeOK'
  <2>1. backends' \in [SlotKey -> Ends \cup {NoEnd}]
    BY <1>k, <1>t DEF InsertBackend, ServicesTypeOK
  <2> QED
    BY <2>1, <1>c, <1>s, <1>t DEF ServicesTypeOK
<1>2. IdsRequested'
  BY <1>c, <1>s, <1>o DEF TablesInv, IdsRequested
<1>3. CallSound'
  <2>1. ASSUME NEW s \in Slots, s < call.slot + 1, s < Len(call.backends)
        PROVE  backends'[<<call.id, s>>] = call.backends[s + 1]
    <3>1. CASE s = call.slot
      BY <3>1, <1>b
    <3>2. CASE s # call.slot
      <4>1. s < call.slot /\ <<call.id, s>> \in SlotKey /\ <<call.id, s>> # k0
        BY <3>2, <2>1, <1>a DEF Slots, SlotKey
      <4> QED
        BY <4>1, <2>1, <1>p, <1>b
    <3> QED
      BY <3>1, <3>2
  <2> QED
    BY <2>1, <1>c, <1>s, <1>p DEF CallSound
<1>4. Exact'
  <2> SUFFICES ASSUME NEW u \in Installed \ failed, u # call.vip
               PROVE  \A s \in 1 .. Len(want[u]) :
                            backends'[<<services[u].id, s - 1>>] = want[u][s]
    BY <1>c, <1>s DEF Exact, TablesInv
  <2>1. services[u].id # call.id
    BY <1>a, <1>p, <1>t, OneOwner DEF TablesInv
  <2>2. /\ services[u].count = Len(want[u])
        /\ \A s \in 1 .. Len(want[u]) : backends[<<services[u].id, s - 1>>] = want[u][s]
    BY DEF TablesInv, Exact
  <2>3. services[u].id \in Ids /\ services[u].count \in 0 .. MaxSlots
    BY <1>t, InstalledRows, RowIsThere
  <2> TAKE s \in 1 .. Len(want[u])
  <2>4. <<services[u].id, s - 1>> \in SlotKey
    BY <2>2, <2>3, <1>a DEF SlotKey, Slots
  <2> QED
    BY <2>1, <2>2, <2>4, <1>b
<1>5. Owned'
  <2> SUFFICES ASSUME NEW k \in Filled'
               PROVE  \E u \in Installed :
                         /\ services[u].id = k[1]
                         /\ \/ k[2] < services[u].count
                            \/ /\ call.vip = u
                               /\ call.slot + 1 <= k[2] /\ k[2] < call.old.count
    BY <1>s, <1>c DEF Owned
  <2>1. CASE k = k0
    BY <2>1, <1>a, <1>o, <1>p
  <2>2. CASE k \in Filled
    <3>1. PICK u \in Installed :
            /\ services[u].id = k[1]
            /\ \/ k[2] < services[u].count
               \/ call.vip = u /\ call.slot <= k[2] /\ k[2] < call.old.count
      BY <2>2, <1>o DEF TablesInv, Owned
    <3>2. k[2] \in Nat
      BY <2>2, <1>a DEF Filled, SlotKey, Slots
    <3>3. CASE k[2] < services[u].count
      BY <3>1, <3>3
    <3>4. CASE call.vip = u /\ call.slot <= k[2] /\ k[2] < call.old.count
      BY <3>1, <3>2, <3>4, <1>p, <1>o, <1>a
    <3> QED
      BY <3>1, <3>3, <3>4
  <2> QED
    BY <2>1, <2>2, <1>f
<1>6. Prefix'
  <2> SUFFICES ASSUME NEW k \in Filled', NEW s \in Slots, s < k[2]
               PROVE  <<k[1], s>> \in Filled'
    BY DEF Prefix
  <2>1. \A id, x : x \in Slots => ~Hole(id, x)
    BY <1>o, <1>a DEF Hole, Slots
  <2>2. CASE k = k0
    <3>1. backends[<<call.id, s>>] = call.backends[s + 1] /\ call.backends[s + 1] \in Ends
      BY <2>2, <1>p, <1>o, <1>a DEF Slots
    <3>2. <<call.id, s>> \in Filled
      BY <3>1, <1>a, NoEndAssumption DEF Filled, SlotKey
    <3> QED
      BY <3>2, <2>2, <1>f
  <2>3. CASE k \in Filled
    BY <2>1, <2>3, <1>f DEF TablesInv, Prefix
  <2> QED
    BY <2>2, <2>3, <1>f
<1>7. RowValues'
  <2> SUFFICES ASSUME NEW q \in Requests, NEW s \in Slots
               PROVE  backends'[<<q.id, s>>] \in SeenNow(q.vip) \cup {NoEnd}
    BY <1>c, <1>s DEF RowValues, SeenNow
  <2>1. CASE <<q.id, s>> = k0
    <3>1. PICK r \in Requests : call.vip = r.vip /\ call.id = r.id
      BY <1>o DEF TablesInv, IdsRequested
    <3>2. q.vip = call.vip
      BY <2>1, <3>1 DEF OwnIds
    <3> QED
      BY <2>1, <3>2, <1>b, <1>k, <1>p DEF SeenNow
  <2>2. CASE <<q.id, s>> # k0
    <3>1. <<q.id, s>> \in SlotKey
      BY RequestFacts DEF SlotKey
    <3> QED
      BY <2>2, <3>1, <1>b DEF TablesInv, RowValues
  <2> QED
    BY <2>1, <2>2
<1> QED
  BY <1>1, <1>2, <1>3, <1>4, <1>5, <1>6, <1>7 DEF TablesInv

\* No row of the service that a failed insert leaves behind is beyond the
\* slot where it failed: the rows before were a prefix.
LEMMA FailTables ==
    ASSUME OwnIds, TablesInv, InsertFails
    PROVE  TablesInv'
<1>o. call.op = "add" /\ call.slot < Len(call.backends) /\ <<call.id, call.slot>> \notin Filled
  BY DEF InsertFails
<1>a. /\ call.vip \in Installed /\ call.id \in Ids /\ call.slot \in Nat
      /\ Len(call.backends) \in Nat /\ Len(call.backends) <= MaxSlots
      /\ DOMAIN call.backends = 1 .. Len(call.backends)
      /\ call.old.count \in 0 .. MaxSlots /\ MaxSlots \in Nat
  BY <1>o, AddFacts
<1>t. ServicesTypeOK
  BY DEF TablesInv
<1>s. /\ services' = services /\ want' = want /\ backends' = backends
      /\ failed' = failed \cup {call.vip} /\ call' = NoCall /\ call'.op = "none"
      /\ Installed' = Installed /\ Filled' = Filled
  BY DEF InsertFails, Installed, Filled, NoCall
<1>p. /\ services[call.vip].id = call.id /\ want[call.vip] = call.backends
      /\ \A s \in Slots : s < call.slot /\ s < Len(call.backends)
               => backends[<<call.id, s>>] = call.backends[s + 1]
  BY <1>o DEF TablesInv, CallSound
<1>h. \A k \in Filled : \A s \in Slots : s < k[2] => <<k[1], s>> \in Filled
  BY <1>o, <1>a DEF TablesInv, Prefix, Hole, Slots
<1>b. \A k \in Filled : k[1] = call.id => k[2] < call.slot
  <2> SUFFICES ASSUME NEW k \in Filled, k[1] = call.id, ~(k[2] < call.slot)
               PROVE  FALSE
    OBVIOUS
  <2>1. call.slot \in Slots /\ k[2] \in Nat /\ k = <<k[1], k[2]>>
    BY <1>o, <1>a DEF Slots, Filled, SlotKey
  <2>2. k[2] # call.slot
    BY <2>1, <1>o
  <2>3. <<k[1], call.slot>> \in Filled
    BY <2>1, <2>2, <1>h, <1>a
  <2> QED
    BY <2>3, <1>o
<1>1. ServicesTypeOK'
  BY <1>s, <1>t, <1>a, InstalledRows DEF ServicesTypeOK
<1>2. IdsRequested'
  BY <1>s DEF TablesInv, IdsRequested
<1>3. CallSound'
  BY <1>s DEF CallSound
<1>4. Exact'
  BY <1>s DEF TablesInv, Exact
<1>5. Owned'
  <2> SUFFICES ASSUME NEW k \in Filled
               PROVE  \E u \in Installed : services[u].id = k[1] /\ k[2] < services[u].count
    BY <1>s DEF Owned
  <2>1. PICK u \in Installed :
            /\ services[u].id = k[1]
            /\ \/ k[2] < services[u].count
               \/ call.vip = u /\ call.slot <= k[2] /\ k[2] < call.old.count
    BY <1>o DEF TablesInv, Owned
  <2>2. k[2] \in Nat
    BY <1>a DEF Filled, SlotKey, Slots
  <2> QED
    BY <2>1, <2>2, <1>b, <1>p, <1>a
<1>6. Prefix'
  BY <1>s, <1>h DEF Prefix
<1>7. RowValues'
  <2> SUFFICES ASSUME NEW q \in Requests, NEW s \in Slots
               PROVE  backends[<<q.id, s>>] \in Range(want[q.vip]) \cup {NoEnd}
    BY <1>s DEF RowValues, SeenNow
  <2>1. CASE q.vip # call.vip
    BY <2>1 DEF TablesInv, RowValues, SeenNow
  <2>2. CASE q.vip = call.vip /\ <<q.id, s>> \in Filled
    <3>1. PICK r \in Requests : call.vip = r.vip /\ call.id = r.id
      BY <1>o DEF TablesInv, IdsRequested
    <3>2. q.id = call.id
      BY <2>2, <3>1 DEF OwnIds
    <3>3. s < call.slot /\ s \in Nat
      BY <2>2, <3>2, <1>b, <1>a DEF Slots
    <3>4. backends[<<call.id, s>>] = call.backends[s + 1] /\ s + 1 \in DOMAIN call.backends
      BY <3>3, <1>p, <1>o, <1>a
    <3> QED
      BY <3>2, <3>4, <2>2, <1>p DEF Range
  <2>3. CASE <<q.id, s>> \notin Filled
    BY <2>3, RequestFacts DEF Filled, SlotKey
  <2> QED
    BY <2>1, <2>2, <2>3
<1> QED
  BY <1>1, <1>2, <1>3, <1>4, <1>5, <1>6, <1>7 DEF TablesInv

\* The removal of one row, and of the last, after which the slots are those
\* asked for.
LEMMA StaleTables ==
    ASSUME OwnIds, TablesInv, RemoveStale
    PROVE  TablesInv'
<1>o. call.op = "add" /\ call.slot >= Len(call.backends)
  BY DEF RemoveStale
<1>a. /\ call \in AddCall /\ call.vip \in Installed /\ services[call.vip] \in ServiceInfo
      /\ call.id \in Ids /\ call.slot \in Nat
      /\ Len(call.backends) \in Nat /\ Len(call.backends) <= MaxSlots
      /\ DOMAIN call.backends = 1 .. Len(call.backends)
      /\ call.old.count \in 0 .. MaxSlots /\ MaxSlots \in Nat
      /\ call.old.count # 0 => call.old \in ServiceInfo /\ call.old.id = call.id
  BY <1>o, AddFacts
<1>t. ServicesTypeOK
  BY DEF TablesInv
<1>p. /\ services[call.vip].id = call.id /\ services[call.vip].count = Len(call.backends)
      /\ services[call.vip] # NoService /\ want[call.vip] = call.backends
      /\ call.vip \notin failed
      /\ \A s \in Slots : s < call.slot /\ s < Len(call.backends)
               => backends[<<call.id, s>>] = call.backends[s + 1]
  BY <1>o DEF TablesInv, CallSound
<1>s. /\ services' = services /\ want' = want /\ failed' = failed /\ Installed' = Installed
  BY DEF RemoveStale, Installed
<1>w. \A k \in Filled : k[1] = call.id =>
          k[2] < Len(call.backends) \/ (call.slot <= k[2] /\ k[2] < call.old.count)
  <2> TAKE k \in Filled
  <2> HAVE k[1] = call.id
  <2>1. PICK u \in Installed :
            /\ services[u].id = k[1]
            /\ \/ k[2] < services[u].count
               \/ call.vip = u /\ call.slot <= k[2] /\ k[2] < call.old.count
    BY <1>o DEF TablesInv, Owned
  <2>2. u = call.vip
    BY <2>1, <1>a, <1>p, <1>t, OneOwner DEF TablesInv
  <2> QED
    BY <2>1, <2>2, <1>p
<1>1. CASE call.slot < call.old.count
  <2> DEFINE k0 == <<call.id, call.slot>>
  <2>k. k0 \in SlotKey /\ call.slot \in Slots /\ call.old.id = call.id
    BY <1>1, <1>a DEF SlotKey, Slots
  <2>b. backends'[k0] = NoEnd /\ \A k \in SlotKey : k # k0 => backends'[k] = backends[k]
    BY <1>1, <2>k, <1>t DEF RemoveStale, ServicesTypeOK
  <2>f. Filled' = Filled \ {k0}
    BY <2>b, <2>k DEF Filled
  <2>c. /\ call' \in AddCall /\ call'.op = "add" /\ call'.vip = call.vip /\ call'.id = call.id
        /\ call'.backends = call.backends /\ call'.old = call.old /\ call'.was = call.was
        /\ call'.slot = call.slot + 1
    BY <1>1, <1>a, <1>o, SlotOn DEF RemoveStale
  <2>1. ServicesTypeOK'
    <3>1. backends' \in [SlotKey -> Ends \cup {NoEnd}]
      BY <1>1, <2>k, <1>t DEF RemoveStale, ServicesTypeOK
    <3> QED
      BY <3>1, <2>c, <1>s, <1>t DEF ServicesTypeOK
  <2>2. IdsRequested'
    BY <2>c, <1>s, <1>o DEF TablesInv, IdsRequested
  <2>3. CallSound'
    <3>1. ASSUME NEW s \in Slots, s < call.slot + 1, s < Len(call.backends)
          PROVE  backends'[<<call.id, s>>] = call.backends[s + 1]
      <4>1. s < call.slot /\ <<call.id, s>> \in SlotKey /\ <<call.id, s>> # k0
        BY <3>1, <1>o, <1>a DEF Slots, SlotKey
      <4> QED
        BY <4>1, <3>1, <1>p, <2>b
    <3> QED
      BY <3>1, <2>c, <1>s, <1>p DEF CallSound
  <2>4. Exact'
    <3> SUFFICES ASSUME NEW u \in Installed \ failed, u # call.vip
                 PROVE  \A s \in 1 .. Len(want[u]) :
                              backends'[<<services[u].id, s - 1>>] = want[u][s]
      BY <2>c, <1>s DEF Exact, TablesInv
    <3>1. services[u].id # call.id
      BY <1>a, <1>p, <1>t, OneOwner DEF TablesInv
    <3>2. /\ services[u].count = Len(want[u])
          /\ \A s \in 1 .. Len(want[u]) : backends[<<services[u].id, s - 1>>] = want[u][s]
      BY DEF TablesInv, Exact
    <3>3. services[u].id \in Ids /\ services[u].count \in 0 .. MaxSlots
      BY <1>t, InstalledRows, RowIsThere
    <3> TAKE s \in 1 .. Len(want[u])
    <3>4. <<services[u].id, s - 1>> \in SlotKey
      BY <3>2, <3>3, <1>a DEF SlotKey, Slots
    <3> QED
      BY <3>1, <3>2, <3>4, <2>b
  <2>5. Owned'
    <3> SUFFICES ASSUME NEW k \in Filled, k # k0
                 PROVE  \E u \in Installed :
                           /\ services[u].id = k[1]
                           /\ \/ k[2] < services[u].count
                              \/ /\ call.vip = u
                                 /\ call.slot + 1 <= k[2] /\ k[2] < call.old.count
      BY <2>f, <1>s, <2>c DEF Owned
    <3>1. PICK u \in Installed :
            /\ services[u].id = k[1]
            /\ \/ k[2] < services[u].count
               \/ call.vip = u /\ call.slot <= k[2] /\ k[2] < call.old.count
      BY <1>o DEF TablesInv, Owned
    <3>2. k[2] \in Nat /\ k = <<k[1], k[2]>>
      BY <1>a DEF Filled, SlotKey, Slots
    <3>3. CASE k[2] < services[u].count
      BY <3>1, <3>3
    <3>4. CASE call.vip = u /\ call.slot <= k[2] /\ k[2] < call.old.count
      <4>1. k[2] # call.slot
        BY <3>1, <3>2, <3>4, <1>p
      <4> QED
        BY <3>1, <3>2, <3>4, <4>1, <1>a
    <3> QED
      BY <3>1, <3>3, <3>4
  <2>6. Prefix'
    <3> SUFFICES ASSUME NEW k \in Filled, k # k0, NEW s \in Slots, s < k[2]
                 PROVE  <<k[1], s>> \in Filled' \/ Hole(k[1], s)'
      BY <2>f DEF Prefix
    <3>0. s \in Nat
      BY <1>a DEF Slots
    <3>1. CASE <<k[1], s>> = k0
      BY <3>0, <3>1, <2>c, <1>o, <1>a DEF Hole
    <3>2. CASE <<k[1], s>> # k0 /\ <<k[1], s>> \in Filled
      BY <3>2, <2>f
    <3>3. CASE Hole(k[1], s)
      BY <3>0, <3>3, <2>c, <1>o, <1>a DEF Hole
    <3> QED
      BY <3>1, <3>2, <3>3 DEF TablesInv, Prefix
  <2>7. RowValues'
    <3> SUFFICES ASSUME NEW q \in Requests, NEW s \in Slots
                 PROVE  backends'[<<q.id, s>>] \in SeenNow(q.vip) \cup {NoEnd}
      BY <2>c, <1>s DEF RowValues, SeenNow
    <3>1. <<q.id, s>> \in SlotKey
      BY RequestFacts DEF SlotKey
    <3> QED
      BY <3>1, <2>b DEF TablesInv, RowValues
  <2> QED
    BY <2>1, <2>2, <2>3, <2>4, <2>5, <2>6, <2>7 DEF TablesInv
<1>2. CASE ~(call.slot < call.old.count)
  <2>c. /\ call' = NoCall /\ call'.op = "none" /\ backends' = backends /\ Filled' = Filled
    BY <1>2 DEF RemoveStale, NoCall, Filled
  <2>b. \A k \in Filled : k[1] = call.id => k[2] < Len(call.backends)
    <3> TAKE k \in Filled
    <3>1. k[2] \in Nat
      BY <1>a DEF Filled, SlotKey, Slots
    <3> QED
      BY <3>1, <1>2, <1>w, <1>a
  <2>1. ServicesTypeOK'
    BY <2>c, <1>s, <1>t DEF ServicesTypeOK
  <2>2. IdsRequested'
    BY <2>c, <1>s DEF TablesInv, IdsRequested
  <2>3. CallSound'
    BY <2>c DEF CallSound
  <2>4. Exact'
    <3> SUFFICES ASSUME NEW u \in Installed \ failed
                 PROVE  /\ services[u].count = Len(want[u])
                        /\ \A s \in 1 .. Len(want[u]) :
                              backends[<<services[u].id, s - 1>>] = want[u][s]
      BY <2>c, <1>s DEF Exact
    <3>1. CASE u # call.vip
      BY <3>1 DEF TablesInv, Exact
    <3>2. CASE u = call.vip
      <4>1. ASSUME NEW s \in 1 .. Len(call.backends)
            PROVE  backends[<<call.id, s - 1>>] = call.backends[s]
        <5>1. s - 1 \in Slots /\ s - 1 < call.slot /\ s - 1 < Len(call.backends)
              /\ (s - 1) + 1 = s
          BY <1>o, <1>a DEF Slots
        <5> QED
          BY <5>1, <1>p
      <4> QED
        BY <4>1, <3>2, <1>p
    <3> QED
      BY <3>1, <3>2
  <2>5. Owned'
    <3> SUFFICES ASSUME NEW k \in Filled
                 PROVE  \E u \in Installed : services[u].id = k[1] /\ k[2] < services[u].count
      BY <2>c, <1>s DEF Owned
    <3>1. PICK u \in Installed :
            /\ services[u].id = k[1]
            /\ \/ k[2] < services[u].count
               \/ call.vip = u /\ call.slot <= k[2] /\ k[2] < call.old.count
      BY <1>o DEF TablesInv, Owned
    <3> QED
      BY <3>1, <2>b, <1>p, <1>a
  <2>6. Prefix'
    <3> SUFFICES ASSUME NEW k \in Filled, NEW s \in Slots, s < k[2]
                 PROVE  <<k[1], s>> \in Filled
      BY <2>c DEF Prefix
    <3>1. k[2] \in Nat /\ s \in Nat
      BY <1>a DEF Filled, SlotKey, Slots
    <3>2. ~Hole(k[1], s)
      BY <3>1, <2>b, <1>o, <1>a DEF Hole
    <3> QED
      BY <3>2 DEF TablesInv, Prefix
  <2>7. RowValues'
    <3> SUFFICES ASSUME NEW q \in Requests, NEW s \in Slots
                 PROVE  backends[<<q.id, s>>] \in Range(want[q.vip]) \cup {NoEnd}
      BY <2>c, <1>s DEF RowValues, SeenNow
    <3>1. CASE q.vip # call.vip
      BY <3>1 DEF TablesInv, RowValues, SeenNow
    <3>2. CASE q.vip = call.vip /\ <<q.id, s>> \in Filled
      <4>1. PICK r \in Requests : call.vip = r.vip /\ call.id = r.id
        BY <1>o DEF TablesInv, IdsRequested
      <4>2. q.id = call.id
        BY <3>2, <4>1 DEF OwnIds
      <4>3. s < Len(call.backends) /\ s \in Nat
        BY <3>2, <4>2, <2>b, <1>a DEF Slots
      <4>4. backends[<<call.id, s>>] = call.backends[s + 1] /\ s + 1 \in DOMAIN call.backends
        BY <4>3, <1>p, <1>o, <1>a
      <4> QED
        BY <4>2, <4>4, <3>2, <1>p DEF Range
    <3>3. CASE <<q.id, s>> \notin Filled
      BY <3>3, RequestFacts DEF Filled, SlotKey
    <3> QED
      BY <3>1, <3>2, <3>3
  <2> QED
    BY <2>1, <2>2, <2>3, <2>4, <2>5, <2>6, <2>7 DEF TablesInv
<1> QED
  BY <1>1, <1>2

LEMMA DelTables ==
    ASSUME OwnIds, TablesInv, NEW v \in Vips, ServiceDel(v)
    PROVE  TablesInv'
<1>t. ServicesTypeOK
  BY DEF TablesInv
<1>i. Idle /\ call.op = "none" /\ v \in Installed
  BY <1>t, CallKinds DEF ServiceDel
<1>s. /\ services' = services /\ want' = want /\ failed' = failed /\ backends' = backends
      /\ Installed' = Installed /\ Filled' = Filled
  BY DEF ServiceDel, Installed, Filled
<1>c. call' = [op |-> "del", vip |-> v, old |-> services[v], slot |-> 0]
  BY DEF ServiceDel
<1>f. call'.op = "del" /\ call'.vip = v /\ call'.old = services[v] /\ call'.slot = 0
  BY <1>c
<1>1. ServicesTypeOK'
  <2>1. call' \in DelCall
    BY <1>c, <1>i, <1>t, InstalledRows DEF DelCall
  <2> QED
    BY <2>1, <1>s, <1>t DEF ServicesTypeOK
<1>2. IdsRequested'
  BY <1>f, <1>s DEF TablesInv, IdsRequested
<1>3. CallSound'
  <2>1. \A s \in Slots : ~(s < 0)
    BY MaxSlotsAssumption DEF Slots
  <2> QED
    BY <2>1, <1>f, <1>s DEF CallSound
<1>4. Exact'
  BY <1>i, <1>s DEF TablesInv, Exact
<1>5. Owned'
  BY <1>i, <1>s DEF TablesInv, Owned
<1>6. Prefix'
  <2>1. \A id, s : ~Hole(id, s)
    BY <1>i DEF Hole
  <2> QED
    BY <2>1, <1>s DEF TablesInv, Prefix
<1>7. RowValues'
  BY <1>i, <1>s, <1>f DEF TablesInv, RowValues, SeenNow
<1> QED
  BY <1>1, <1>2, <1>3, <1>4, <1>5, <1>6, <1>7 DEF TablesInv

\* After the last slot no row of the service is left.
LEMMA RemoveTables ==
    ASSUME OwnIds, TablesInv, RemoveService
    PROVE  TablesInv'
<1>o. call.op = "del"
  BY DEF RemoveService
<1>a. /\ call \in DelCall /\ call.vip \in Installed /\ services[call.vip] = call.old
      /\ call.old \in ServiceInfo /\ call.slot \in Nat /\ MaxSlots \in Nat
      /\ call.old.id \in Ids /\ call.old.count \in 0 .. MaxSlots
  BY <1>o, DelFacts, MaxSlotsAssumption
<1>t. ServicesTypeOK
  BY DEF TablesInv
<1>v. call.vip \in Vips
  BY <1>a, <1>t, InstalledRows
<1>p. \A s \in Slots : s < call.slot => backends[<<call.old.id, s>>] = NoEnd
  BY <1>o DEF TablesInv, CallSound
<1>w. \A k \in Filled : \E u \in Installed : services[u].id = k[1] /\ k[2] < services[u].count
  BY <1>o DEF TablesInv, Owned
<1>1. CASE call.slot < call.old.count
  <2> DEFINE k0 == <<call.old.id, call.slot>>
  <2>k. k0 \in SlotKey /\ call.slot \in Slots
    BY <1>1, <1>a DEF SlotKey, Slots
  <2>b. backends'[k0] = NoEnd /\ \A k \in SlotKey : k # k0 => backends'[k] = backends[k]
    BY <1>1, <2>k, <1>t DEF RemoveService, ServicesTypeOK
  <2>f. Filled' = Filled \ {k0}
    BY <2>b, <2>k DEF Filled
  <2>c. /\ call' \in DelCall /\ call'.op = "del" /\ call'.vip = call.vip
        /\ call'.old = call.old /\ call'.slot = call.slot + 1
    BY <1>1, <1>a, <1>o, SlotOn DEF RemoveService
  <2>s. /\ services' = services /\ want' = want /\ failed' = failed /\ Installed' = Installed
    BY <1>1 DEF RemoveService, Installed
  <2>1. ServicesTypeOK'
    <3>1. backends' \in [SlotKey -> Ends \cup {NoEnd}]
      BY <1>1, <2>k, <1>t DEF RemoveService, ServicesTypeOK
    <3> QED
      BY <3>1, <2>c, <2>s, <1>t DEF ServicesTypeOK
  <2>2. IdsRequested'
    BY <2>c, <2>s DEF TablesInv, IdsRequested
  <2>3. CallSound'
    <3>1. ASSUME NEW s \in Slots, s < call.slot + 1
          PROVE  backends'[<<call.old.id, s>>] = NoEnd
      <4>1. <<call.old.id, s>> \in SlotKey /\ (s = call.slot \/ s < call.slot)
        BY <3>1, <1>a DEF Slots, SlotKey
      <4> QED
        BY <4>1, <1>p, <2>b
    <3> QED
      BY <3>1, <2>c, <2>s, <1>a DEF CallSound
  <2>4. Exact'
    <3> SUFFICES ASSUME NEW u \in Installed \ failed, u # call.vip
                 PROVE  \A s \in 1 .. Len(want[u]) :
                              backends'[<<services[u].id, s - 1>>] = want[u][s]
      BY <2>c, <2>s DEF Exact, TablesInv
    <3>1. services[u].id # call.old.id
      BY <1>a, <1>t, OneOwner DEF TablesInv
    <3>2. /\ services[u].count = Len(want[u])
          /\ \A s \in 1 .. Len(want[u]) : backends[<<services[u].id, s - 1>>] = want[u][s]
      BY DEF TablesInv, Exact
    <3>3. services[u].id \in Ids /\ services[u].count \in 0 .. MaxSlots
      BY <1>t, InstalledRows, RowIsThere
    <3> TAKE s \in 1 .. Len(want[u])
    <3>4. <<services[u].id, s - 1>> \in SlotKey
      BY <3>2, <3>3, <1>a DEF SlotKey, Slots
    <3> QED
      BY <3>1, <3>2, <3>4, <2>b
  <2>5. Owned'
    BY <1>w, <2>f, <2>s DEF Owned
  <2>6. Prefix'
    <3> SUFFICES ASSUME NEW k \in Filled, k # k0, NEW s \in Slots, s < k[2]
                 PROVE  <<k[1], s>> \in Filled' \/ Hole(k[1], s)'
      BY <2>f DEF Prefix
    <3>0. s \in Nat
      BY <1>a DEF Slots
    <3>1. CASE <<k[1], s>> = k0
      BY <3>0, <3>1, <2>c, <1>a DEF Hole
    <3>2. CASE <<k[1], s>> # k0 /\ <<k[1], s>> \in Filled
      BY <3>2, <2>f
    <3>3. CASE Hole(k[1], s)
      BY <3>0, <3>3, <2>c, <1>o, <1>a DEF Hole
    <3> QED
      BY <3>1, <3>2, <3>3 DEF TablesInv, Prefix
  <2>7. RowValues'
    <3> SUFFICES ASSUME NEW q \in Requests, NEW s \in Slots
                 PROVE  backends'[<<q.id, s>>] \in SeenNow(q.vip) \cup {NoEnd}
      BY <2>c, <2>s, <1>o DEF RowValues, SeenNow
    <3>1. <<q.id, s>> \in SlotKey
      BY RequestFacts DEF SlotKey
    <3> QED
      BY <3>1, <2>b DEF TablesInv, RowValues
  <2> QED
    BY <2>1, <2>2, <2>3, <2>4, <2>5, <2>6, <2>7 DEF TablesInv
<1>2. CASE ~(call.slot < call.old.count)
  <2>c. /\ call' = NoCall /\ call'.op = "none" /\ backends' = backends /\ Filled' = Filled
        /\ failed' = failed \ {call.vip}
    BY <1>2 DEF RemoveService, NoCall, Filled
  <2>s. /\ services' = [services EXCEPT ![call.vip] = NoService]
        /\ want' = [want EXCEPT ![call.vip] = <<>>]
    BY <1>2 DEF RemoveService
  <2>u. /\ services'[call.vip] = NoService /\ want'[call.vip] = <<>>
        /\ \A u \in Vips : u # call.vip => services'[u] = services[u] /\ want'[u] = want[u]
    BY <2>s, <1>v, <1>t DEF ServicesTypeOK
  <2>g. Installed' = Installed \ {call.vip}
    BY <2>u, <1>v DEF Installed
  <2>b. \A k \in Filled : k[1] # call.old.id
    <3> SUFFICES ASSUME NEW k \in Filled, k[1] = call.old.id
                 PROVE  FALSE
      OBVIOUS
    <3>1. PICK u \in Installed : services[u].id = k[1] /\ k[2] < services[u].count
      BY <1>w
    <3>2. u = call.vip
      BY <3>1, <1>a, <1>t, OneOwner DEF TablesInv
    <3>3. k = <<k[1], k[2]>> /\ k[2] \in Slots /\ k[2] \in Nat /\ backends[k] # NoEnd
      BY <1>a DEF Filled, SlotKey, Slots
    <3>4. k[2] < call.slot
      BY <3>1, <3>2, <3>3, <1>2, <1>a
    <3> QED
      BY <3>3, <3>4, <1>p
  <2>1. ServicesTypeOK'
    <3>1. services' \in [Vips -> ServiceInfo \cup {NoService}]
      BY <2>s, <1>t DEF ServicesTypeOK
    <3>2. want' \in [Vips -> Seq(Ends)]
      <4>1. <<>> \in Seq(Ends)
        OBVIOUS
      <4> QED
        BY <4>1, <2>s, <1>t DEF ServicesTypeOK
    <3> QED
      BY <3>1, <3>2, <2>c, <1>t DEF ServicesTypeOK
  <2>2. IdsRequested'
    <3> SUFFICES ASSUME NEW u \in Installed'
                 PROVE  \E r \in Requests : r.vip = u /\ r.id = services'[u].id
      BY <2>c DEF IdsRequested
    <3>1. u \in Installed /\ services'[u] = services[u]
      BY <2>g, <2>u, <1>t, InstalledRows
    <3> QED
      BY <3>1 DEF TablesInv, IdsRequested
  <2>3. CallSound'
    BY <2>c DEF CallSound
  <2>4. Exact'
    <3> SUFFICES ASSUME NEW u \in Installed' \ failed'
                 PROVE  /\ services'[u].count = Len(want'[u])
                        /\ \A s \in 1 .. Len(want'[u]) :
                              backends'[<<services'[u].id, s - 1>>] = want'[u][s]
      BY DEF Exact
    <3>1. u \in Installed \ failed /\ u # call.vip /\ u \in Vips
      BY <2>g, <2>c DEF Installed
    <3>2. services'[u] = services[u] /\ want'[u] = want[u]
      BY <3>1, <2>u
    <3> QED
      BY <3>1, <3>2, <2>c DEF TablesInv, Exact
  <2>5. Owned'
    <3> SUFFICES ASSUME NEW k \in Filled
                 PROVE  \E u \in Installed' : services'[u].id = k[1] /\ k[2] < services'[u].count
      BY <2>c DEF Owned
    <3>1. PICK u \in Installed : services[u].id = k[1] /\ k[2] < services[u].count
      BY <1>w
    <3>2. u # call.vip
      BY <3>1, <2>b, <1>a
    <3>3. u \in Installed' /\ services'[u] = services[u]
      BY <3>2, <2>g, <2>u, <1>t, InstalledRows
    <3> QED
      BY <3>1, <3>3
  <2>6. Prefix'
    <3> SUFFICES ASSUME NEW k \in Filled, NEW s \in Slots, s < k[2]
                 PROVE  <<k[1], s>> \in Filled
      BY <2>c DEF Prefix
    <3>1. ~Hole(k[1], s)
      BY <2>b, <1>o DEF Hole
    <3> QED
      BY <3>1 DEF TablesInv, Prefix
  <2>7. RowValues'
    <3> SUFFICES ASSUME NEW q \in Requests, NEW s \in Slots
                 PROVE  backends[<<q.id, s>>] \in Range(want'[q.vip]) \cup {NoEnd}
      BY <2>c DEF RowValues, SeenNow
    <3>1. q.vip \in Vips /\ q.id \in Ids
      BY RequestFacts
    <3>2. CASE q.vip # call.vip
      BY <3>1, <3>2, <2>u, <1>o DEF TablesInv, RowValues, SeenNow
    <3>3. CASE q.vip = call.vip
      <4>1. PICK r \in Requests : r.vip = call.vip /\ r.id = call.old.id
        BY <1>a DEF TablesInv, IdsRequested
      <4>2. q.id = call.old.id
        BY <4>1, <3>3 DEF OwnIds
      <4>3. <<q.id, s>> \notin Filled
        BY <4>2, <2>b
      <4> QED
        BY <4>3, <3>1 DEF Filled, SlotKey
    <3> QED
      BY <3>2, <3>3
  <2> QED
    BY <2>1, <2>2, <2>3, <2>4, <2>5, <2>6, <2>7 DEF TablesInv
<1> QED
  BY <1>1, <1>2

LEMMA TablesStep ==
    ASSUME OwnIds, TablesInv, [SNext]_svars
    PROVE  TablesInv'
<1>1. CASE SNext
  BY <1>1, AddTables, InsertTables, FailTables, StaleTables, DelTables, RemoveTables DEF SNext
<1>2. CASE UNCHANGED svars
  BY <1>2 DEF svars, TablesInv, ServicesTypeOK, IdsRequested, CallSound, Exact, Owned, Prefix,
              Hole, RowValues, SeenNow, Installed, Filled
<1> QED
  BY <1>1, <1>2

LEMMA TablesExact ==
    ASSUME TablesInv
    PROVE  SlotsExact
<1>1. Idle => call.op = "none"
  BY DEF Idle, NoCall
<1> QED
  BY <1>1 DEF TablesInv, Exact, Owned, SlotsExact

-----------------------------------------------------------------------------
(* Packets.                                                                *)

LEMMA InvImplies ==
    ASSUME NatInv
    PROVE  NatTypeOK /\ SlotsExact /\ PicksOwnBackend
<1>1. NatTypeOK
  <2>1. pkt \in [Cpus -> Pkt]
    BY DEF NatInv, MapsTyped, PktSet
  <2> QED
    BY <2>1 DEF NatInv, MapsTyped, PktSet, TablesInv, NatTypeOK
<1>2. PicksOwnBackend
  BY DEF NatInv, PktSet, PicksOwnBackend
<1> QED
  BY <1>1, <1>2, TablesExact DEF NatInv

\* The blank packet.
LEMMA BlankPkt ==
    /\ NoPkt \in Pkt /\ NoPkt.pc = "idle" /\ NoPkt.hole = FALSE
    /\ NoPkt.info = NoService /\ NoPkt.seen = {}
BY MaxSlotsAssumption DEF NoPkt, Pkt, NoSlot, Stages

LEMMA NatInit ==
    ASSUME NInit
    PROVE  NatInv
<1>1. TablesInv
  BY TablesInit DEF NInit
<1>2. \A c \in Cpus : pkt[c] = NoPkt
  BY DEF NInit
<1>3. \A c \in Cpus : PktSet(pkt[c]) /\ LookupSound(pkt[c])
  BY <1>2, BlankPkt DEF PktSet, LookupSound, Looking
<1>4. MapsTyped
  BY MaxSlotsAssumption DEF NInit, MapsTyped, NoSlot
<1> QED
  BY <1>1, <1>3, <1>4 DEF NatInv

LEMMA TablesSame ==
    ASSUME TablesInv, UNCHANGED svars
    PROVE  TablesInv'
BY DEF svars, TablesInv, ServicesTypeOK, IdsRequested, CallSound, Exact, Owned, Prefix,
       Hole, RowValues, SeenNow, Installed, Filled

\* A step of one CPU that leaves the service tables alone keeps what the
\* others know.
LEMMA OnePacket ==
    ASSUME NatInv, UNCHANGED svars, NEW c \in Cpus, NEW q, Step(c, q),
           PktSet(q), LookupSound(q)
    PROVE  \A d \in Cpus : PktSet(pkt'[d]) /\ LookupSound(pkt[d])'
<1> TAKE d \in Cpus
<1>1. pkt'[d] = IF d = c THEN q ELSE pkt[d]
  BY DEF NatInv, MapsTyped, Step
<1>2. PktSet(pkt'[d]) /\ LookupSound(pkt'[d])
  BY <1>1 DEF NatInv
<1>3. services' = services /\ backends' = backends /\ call' = call /\ failed' = failed
  BY DEF svars
<1> QED
  BY <1>2, <1>3 DEF LookupSound, Looking

LEMMA SetPc ==
    ASSUME NEW p \in Pkt, NEW x \in Stages,
           NEW q, q = [p EXCEPT !.pc = x]
    PROVE  /\ q \in Pkt /\ q.pc = x /\ q.t = p.t /\ q.flow = p.flow /\ q.hole = p.hole
           /\ q.info = p.info /\ q.seen = p.seen /\ q.steady = p.steady /\ q.slot = p.slot
BY DEF Pkt

\* What remains to be shown of a step of one CPU.
LEMMA PacketInv ==
    ASSUME NatInv, NEW c \in Cpus, NEW q, Step(c, q), PktSet(q), LookupSound(q),
           UNCHANGED svars, MapsTyped'
    PROVE  NatInv'
<1>1. \A d \in Cpus : PktSet(pkt'[d]) /\ LookupSound(pkt[d])'
  BY OnePacket
<1>2. TablesInv'
  BY TablesSame DEF NatInv
<1> QED
  BY <1>1, <1>2 DEF NatInv

LEMMA StepTyped ==
    ASSUME NatInv, NEW c \in Cpus, NEW q, Step(c, q)
    PROVE  /\ pkt' = [d \in Cpus |-> pkt'[d]]
           /\ UNCHANGED pvars => MapsTyped'
BY DEF NatInv, MapsTyped, Step, pvars

LEMMA ArriveInv ==
    ASSUME NatInv, NEW c \in Cpus, NEW t \in Tuple, NEW f \in Flows, NEW b \in BOOLEAN,
           Arrive(c, t, f, b)
    PROVE  NatInv'
<1>0. PICK a \in Addrs : a = t.src.addr
  BY DEF Tuple, Addrs
<1>1. PICK x \in {"out", "track", "ct"} :
        Step(c, [NoPkt EXCEPT !.pc = x, !.t = t, !.flow = f, !.reply = b, !.from = a])
  <2>1. CASE a = Node
    BY <1>0, <2>1 DEF Arrive
  <2>2. CASE a # Node /\ a \in Pods
    BY <1>0, <2>2 DEF Arrive
  <2>3. CASE a # Node /\ a \notin Pods
    BY <1>0, <2>3 DEF Arrive
  <2> QED
    BY <2>1, <2>2, <2>3
<1>q. PICK q : q = [NoPkt EXCEPT !.pc = x, !.t = t, !.flow = f, !.reply = b, !.from = a]
  OBVIOUS
<1>2. q \in Pkt /\ q.pc = x /\ q.t = t /\ q.flow = f /\ q.hole = FALSE
  <2>1. x \in Stages
    BY DEF Stages
  <2>2. PICK p \in Pkt : p = NoPkt /\ p.hole = FALSE
    BY BlankPkt
  <2>3. q = [p EXCEPT !.pc = x, !.t = t, !.flow = f, !.reply = b, !.from = a]
    BY <1>q, <2>2
  <2> QED
    BY <2>1, <2>2, <2>3 DEF Pkt
<1>3. Step(c, q)
  BY <1>1, <1>q
<1>4. PktSet(q) /\ LookupSound(q)
  BY <1>2 DEF PktSet, LookupSound, Looking
<1>5. UNCHANGED svars /\ UNCHANGED pvars
  BY DEF Arrive
<1> QED
  BY <1>3, <1>4, <1>5, PacketInv, StepTyped

\* Moving on without looking anything up.
LEMMA PcOnly ==
    ASSUME NEW p, PktSet(p), p.pc # "idle", NEW x \in Stages, ~p.hole \/ x \in Done,
           x \notin {"idle", "sticky", "stick", "backend", "forward", "back"},
           NEW q, q = [p EXCEPT !.pc = x]
    PROVE  PktSet(q) /\ LookupSound(q)
<1>1. /\ q \in Pkt /\ q.pc = x /\ q.t = p.t /\ q.flow = p.flow /\ q.hole = p.hole
      /\ q.steady = p.steady
  BY SetPc DEF PktSet
<1> QED
  BY <1>1 DEF PktSet, LookupSound, Looking

LEMMA TrackInv ==
    ASSUME NatInv, NEW c \in Cpus, Track(c)
    PROVE  NatInv'
<1>1. PktSet(pkt[c]) /\ pkt[c].pc = "track"
  BY DEF NatInv, Track
<1>2. /\ "ct" \in Stages /\ ~pkt[c].hole /\ pkt[c].t \in Tuple
      /\ "ct" \notin {"idle", "sticky", "stick", "backend", "forward", "back"}
  BY <1>1 DEF Stages, PktSet, Done
<1>q. PICK q : q = [pkt[c] EXCEPT !.pc = "ct"]
  OBVIOUS
<1>3. PktSet(q) /\ LookupSound(q)
  BY <1>1, <1>2, <1>q, PcOnly
<1>4. Step(c, q) /\ UNCHANGED svars
  BY <1>q DEF Track
<1>5. MapsTyped'
  BY <1>2, <1>4, StepTyped DEF Track, NatInv, MapsTyped
<1> QED
  BY <1>3, <1>4, <1>5, PacketInv

\* A translated tuple is a tuple.
LEMMA RewriteTyped ==
    ASSUME NEW t \in Tuple, NEW e \in CtEntry
    PROVE  Rewrite(t, e) \in Tuple
BY DEF Rewrite, Tuple, CtEntry

LEMMA CtLookupInv ==
    ASSUME NatInv, NEW c \in Cpus, CtLookup(c)
    PROVE  NatInv'
<1>p. PICK p : p = pkt[c]
  OBVIOUS
<1>1. PktSet(p) /\ p.pc = "ct" /\ p \in Pkt /\ ~p.hole /\ p.t \in Tuple /\ p.flow \in Flows
  BY <1>p DEF NatInv, CtLookup, PktSet, Done
<1>2. UNCHANGED svars /\ UNCHANGED pvars
  BY DEF CtLookup
<1>3. CASE p.t \in DOMAIN ct
  <2>1. PICK t \in Tuple : t = Rewrite(p.t, ct[p.t])
    BY <1>1, <1>3, RewriteTyped DEF NatInv, MapsTyped
  <2>q. PICK q : q = [p EXCEPT !.pc = "policy", !.t = t]
    OBVIOUS
  <2>2. Step(c, q)
    BY <1>3, <1>p, <2>1, <2>q DEF CtLookup
  <2>3. /\ q \in Pkt /\ q.pc = "policy" /\ q.t \in Tuple /\ q.flow = p.flow /\ q.hole = p.hole
    <3>1. "policy" \in Stages
      BY DEF Stages
    <3> QED
      BY <3>1, <1>1, <2>q DEF Pkt
  <2>4. PktSet(q) /\ LookupSound(q)
    BY <1>1, <2>3 DEF PktSet, LookupSound, Looking
  <2> QED
    BY <1>2, <2>2, <2>4, PacketInv, StepTyped
<1>4. CASE p.t \notin DOMAIN ct
  <2>1. PICK b \in BOOLEAN : b = Excuse(p)
    BY Zenon DEF Excuse
  <2>q. PICK q : q = [p EXCEPT !.pc = "svc", !.excused = b]
    OBVIOUS
  <2>2. Step(c, q)
    BY <1>4, <1>p, <2>1, <2>q DEF CtLookup
  <2>3. /\ q \in Pkt /\ q.pc = "svc" /\ q.t = p.t /\ q.flow = p.flow /\ q.hole = p.hole
    <3>1. "svc" \in Stages
      BY DEF Stages
    <3> QED
      BY <3>1, <1>1, <2>q DEF Pkt
  <2>4. PktSet(q) /\ LookupSound(q)
    BY <1>1, <2>3 DEF PktSet, LookupSound, Looking
  <2> QED
    BY <1>2, <2>2, <2>4, PacketInv, StepTyped
<1> QED
  BY <1>3, <1>4

\* What a packet takes note of.
LEMMA SeenTyped ==
    ASSUME TablesInv, NEW v \in Vips
    PROVE  Range(want[v]) \subseteq Ends /\ SeenNow(v) \subseteq Ends
<1>1. \A z \in Seq(Ends) : Range(z) \subseteq Ends
  BY DEF Range
<1>2. want[v] \in Seq(Ends)
  BY DEF TablesInv, ServicesTypeOK
<1>3. call.op = "add" => call.was \in Seq(Ends)
  BY CallKinds DEF TablesInv, AddCall
<1> QED
  BY <1>1, <1>2, <1>3 DEF SeenNow

\* A packet that found a service knows what it may meet.
LEMMA FreshSound ==
    ASSUME TablesInv, NEW v \in Installed, NEW q, q.t.dst = v, q.info = services[v],
           q.seen = SeenNow(v), q.steady = SteadyNow(v),
           q.pc = "sticky" \/ q.slot < services[v].count
    PROVE  LookupSound(q)
<1>1. PICK r \in Requests : r.vip = v /\ r.id = services[v].id
  BY DEF TablesInv, IdsRequested
<1>2. services[v] \in ServiceInfo
  BY InstalledRows DEF TablesInv
<1>3. \A s \in Slots : backends[<<r.id, s>>] \in SeenNow(v) \cup {NoEnd}
  BY <1>1 DEF TablesInv, RowValues
<1>4. call.op = "add" /\ call.vip = v => Range(call.backends) \subseteq SeenNow(v)
  BY DEF TablesInv, CallSound, SeenNow
<1> QED
  BY <1>1, <1>2, <1>3, <1>4 DEF LookupSound, SteadyNow

LEMMA SvcLookupInv ==
    ASSUME NatInv, NEW c \in Cpus, SvcLookup(c)
    PROVE  NatInv'
<1>p. PICK p : p = pkt[c]
  OBVIOUS
<1>1. PktSet(p) /\ p.pc = "svc" /\ p \in Pkt /\ ~p.hole /\ p.t \in Tuple /\ p.flow \in Flows
  BY <1>p DEF NatInv, SvcLookup, PktSet, Done
<1>2. UNCHANGED svars /\ UNCHANGED pvars
  BY DEF SvcLookup
<1>g. {"policy", "forward", "sticky", "backend"} \subseteq Stages
  BY DEF Stages
<1>3. CASE Step(c, [p EXCEPT !.pc = "policy"])
  <2>q. PICK q : q = [p EXCEPT !.pc = "policy"]
    OBVIOUS
  <2>1. PktSet(q) /\ LookupSound(q)
    BY <1>1, <1>g, <2>q, PcOnly
  <2> QED
    BY <1>2, <1>3, <2>q, <2>1, PacketInv, StepTyped
<1>4. CASE Step(c, [p EXCEPT !.pc = "forward", !.flag = "snat",
                             !.be = [addr |-> Node, port |-> p.t.src.port]])
  <2>1. PICK e \in Ends : e = [addr |-> Node, port |-> p.t.src.port]
    <3>1. p.t.src \in Ends
      BY <1>1 DEF Tuple
    <3> QED
      BY <3>1, EndsAssumption
  <2>q. PICK q : q = [p EXCEPT !.pc = "forward", !.flag = "snat", !.be = e]
    OBVIOUS
  <2>2. /\ q \in Pkt /\ q.pc = "forward" /\ q.t = p.t /\ q.flow = p.flow /\ q.hole = p.hole
        /\ q.flag = "snat" /\ q.be = e
    BY <1>1, <1>g, <2>q DEF Pkt
  <2>3. PktSet(q) /\ LookupSound(q)
    BY <1>1, <2>2 DEF PktSet, LookupSound, Looking
  <2>4. Step(c, q)
    BY <1>4, <2>1, <2>q
  <2> QED
    BY <1>2, <2>3, <2>4, PacketInv, StepTyped
<1>5. CASE /\ p.t.dst \in Installed
           /\ LET found == [p EXCEPT !.info = services[p.t.dst], !.seen = SeenNow(p.t.dst),
                                     !.steady = SteadyNow(p.t.dst)]
              IN  \/ Step(c, [found EXCEPT !.pc = "sticky"])
                  \/ \E s \in FreshSlots(found) :
                        Step(c, [found EXCEPT !.pc = "backend", !.slot = s])
  <2>v. PICK v \in Installed : v = p.t.dst
    BY <1>5
  <2>i. PICK i \in ServiceInfo : i = services[v]
    BY InstalledRows DEF NatInv, TablesInv
  <2>s. PICK S \in SUBSET Ends : S = SeenNow(v)
    BY SeenTyped, InstalledRows DEF NatInv, TablesInv
  <2>b. PICK b \in BOOLEAN : b = SteadyNow(v)
    BY Zenon DEF SteadyNow
  <2>f. PICK f : f = [p EXCEPT !.info = i, !.seen = S, !.steady = b]
    OBVIOUS
  <2>1. /\ f \in Pkt /\ f.t = p.t /\ f.flow = p.flow /\ f.hole = p.hole
        /\ f.info = i /\ f.seen = S /\ f.steady = b
    BY <1>1, <2>f DEF Pkt
  <2>2. f = [p EXCEPT !.info = services[p.t.dst], !.seen = SeenNow(p.t.dst),
                     !.steady = SteadyNow(p.t.dst)]
    BY <2>v, <2>i, <2>s, <2>b, <2>f
  <2>3. CASE Step(c, [f EXCEPT !.pc = "sticky"])
    <3>q. PICK q : q = [f EXCEPT !.pc = "sticky"]
      OBVIOUS
    <3>1. /\ q \in Pkt /\ q.pc = "sticky" /\ q.t = p.t /\ q.flow = p.flow /\ q.hole = p.hole
          /\ q.info = i /\ q.seen = S /\ q.steady = b
      BY <1>g, <2>1, <3>q DEF Pkt
    <3>2. LookupSound(q)
      BY <2>v, <2>i, <2>s, <2>b, <3>1, FreshSound DEF NatInv
    <3>3. PktSet(q)
      BY <1>1, <3>1 DEF PktSet
    <3> QED
      BY <1>2, <2>3, <3>q, <3>2, <3>3, PacketInv, StepTyped
  <2>4. ASSUME NEW s \in FreshSlots(f), Step(c, [f EXCEPT !.pc = "backend", !.slot = s])
        PROVE  NatInv'
    <3>0. s \in 0 .. MaxSlots /\ s < i.count
      BY <2>1, RowIsThere, MaxSlotsAssumption DEF FreshSlots
    <3>q. PICK q : q = [f EXCEPT !.pc = "backend", !.slot = s]
      OBVIOUS
    <3>1. /\ q \in Pkt /\ q.pc = "backend" /\ q.t = p.t /\ q.flow = p.flow /\ q.hole = p.hole
          /\ q.info = i /\ q.seen = S /\ q.steady = b /\ q.slot = s
      BY <1>g, <2>1, <3>0, <3>q DEF Pkt
    <3>2. LookupSound(q)
      BY <2>v, <2>i, <2>s, <2>b, <3>0, <3>1, FreshSound DEF NatInv
    <3>3. PktSet(q)
      BY <1>1, <3>1 DEF PktSet
    <3> QED
      BY <1>2, <2>4, <3>q, <3>2, <3>3, PacketInv, StepTyped
  <2> QED
    BY <1>5, <2>2, <2>3, <2>4
<1> QED
  BY <1>3, <1>4, <1>5, <1>p DEF SvcLookup

\* The choice of a slot changes nothing of what is known.
LEMMA SlotKept ==
    ASSUME NEW p, LookupSound(p), Looking(p), NEW q, q.t = p.t, q.info = p.info,
           q.seen = p.seen, q.steady = p.steady,
           q.slot < p.info.count
    PROVE  LookupSound(q)
BY DEF LookupSound

LEMMA AffinityLookupInv ==
    ASSUME NatInv, NEW c \in Cpus, AffinityLookup(c)
    PROVE  NatInv'
<1>p. PICK p : p = pkt[c]
  OBVIOUS
<1>1. /\ PktSet(p) /\ p.pc = "sticky" /\ p \in Pkt /\ ~p.hole /\ p.t \in Tuple
      /\ p.flow \in Flows /\ LookupSound(p) /\ Looking(p) /\ p.info \in ServiceInfo
  BY <1>p DEF NatInv, AffinityLookup, PktSet, Done, LookupSound, Looking
<1>2. PICK s \in 0 .. MaxSlots :
        s < p.info.count /\ Step(c, [p EXCEPT !.pc = "stick", !.slot = s])
  <2>1. p.info.id \in Ids /\ p.info.count \in 0 .. MaxSlots /\ p.t.src.addr \in Addrs
    BY <1>1, RowIsThere DEF Tuple, Addrs
  <2>2. affinity[<<p.info.id, p.t.src.addr>>] \in 0 .. MaxSlots
    BY <2>1 DEF NatInv, MapsTyped
  <2>3. \A s \in FreshSlots(p) : s \in 0 .. MaxSlots /\ s < p.info.count
    BY <2>1, MaxSlotsAssumption DEF FreshSlots
  <2> QED
    BY <1>p, <2>2, <2>3 DEF AffinityLookup
<1>q. PICK q : q = [p EXCEPT !.pc = "stick", !.slot = s]
  OBVIOUS
<1>g. "stick" \in Stages
  BY DEF Stages
<1>3. /\ q \in Pkt /\ q.pc = "stick" /\ q.t = p.t /\ q.flow = p.flow /\ q.hole = p.hole
      /\ q.info = p.info /\ q.seen = p.seen /\ q.steady = p.steady /\ q.slot = s
  BY <1>1, <1>g, <1>q DEF Pkt
<1>4. LookupSound(q)
  BY <1>1, <1>2, <1>3, SlotKept
<1>5. PktSet(q)
  BY <1>1, <1>3 DEF PktSet
<1>6. UNCHANGED svars /\ UNCHANGED pvars
  BY DEF AffinityLookup
<1> QED
  BY <1>2, <1>q, <1>4, <1>5, <1>6, PacketInv, StepTyped

LEMMA AffinityRecordInv ==
    ASSUME NatInv, NEW c \in Cpus, AffinityRecord(c)
    PROVE  NatInv'
<1>p. PICK p : p = pkt[c]
  OBVIOUS
<1>1. /\ PktSet(p) /\ p.pc = "stick" /\ p \in Pkt /\ ~p.hole /\ p.t \in Tuple
      /\ p.flow \in Flows /\ LookupSound(p) /\ Looking(p) /\ p.info \in ServiceInfo
      /\ p.slot < p.info.count
  BY <1>p DEF NatInv, AffinityRecord, PktSet, Done, LookupSound, Looking
<1>q. PICK q : q = [p EXCEPT !.pc = "backend"]
  OBVIOUS
<1>g. "backend" \in Stages
  BY DEF Stages
<1>2. /\ q \in Pkt /\ q.pc = "backend" /\ q.t = p.t /\ q.flow = p.flow /\ q.hole = p.hole
      /\ q.info = p.info /\ q.seen = p.seen /\ q.steady = p.steady /\ q.slot = p.slot
  BY <1>1, <1>g, <1>q DEF Pkt
<1>3. LookupSound(q)
  BY <1>1, <1>2, SlotKept
<1>4. PktSet(q)
  BY <1>1, <1>2 DEF PktSet
<1>5. UNCHANGED svars /\ Step(c, q)
  BY <1>p, <1>q DEF AffinityRecord
<1>6. affinity' \in [Ids \X Addrs -> 0 .. MaxSlots]
  <2>1. p.slot \in 0 .. MaxSlots
    BY <1>1 DEF Pkt
  <2> QED
    BY <2>1, <1>p DEF AffinityRecord, NatInv, MapsTyped
<1>7. MapsTyped'
  BY <1>5, <1>6, StepTyped DEF AffinityRecord, NatInv, MapsTyped
<1> QED
  BY <1>3, <1>4, <1>5, <1>7, PacketInv

\* A packet whose service was left alone finds a backend in its slot.
LEMMA NoHole ==
    ASSUME TablesInv, NEW p, LookupSound(p), p.pc = "backend", p.slot \in 0 .. MaxSlots,
           p.steady
    PROVE  backends[<<p.info.id, p.slot>>] \in Ends
<1> DEFINE v == p.t.dst
<1>1. /\ p.info \in ServiceInfo /\ p.slot < p.info.count
      /\ services[v] = p.info /\ v \notin failed /\ (call.op # "none" => call.vip # v)
  BY DEF LookupSound, Looking
<1>2. PICK r \in Requests : r.vip = v
  BY DEF LookupSound, Looking
<1>3. v \in Installed
  BY <1>1, <1>2, RequestFacts, RowIsThere DEF Installed
<1>4. /\ p.info.count = Len(want[v])
      /\ \A s \in 1 .. Len(want[v]) : backends[<<p.info.id, s - 1>>] = want[v][s]
  BY <1>1, <1>3 DEF TablesInv, Exact
<1>5. want[v] \in Seq(Ends) /\ Len(want[v]) \in Nat
  BY <1>3 DEF TablesInv, ServicesTypeOK, Installed
<1>6. p.slot + 1 \in 1 .. Len(want[v]) /\ (p.slot + 1) - 1 = p.slot
  BY <1>1, <1>4, <1>5, MaxSlotsAssumption
<1>7. backends[<<p.info.id, p.slot>>] = want[v][p.slot + 1]
  BY <1>4, <1>6
<1> QED
  BY <1>5, <1>6, <1>7

LEMMA BackendLookupInv ==
    ASSUME NatInv, NEW c \in Cpus, BackendLookup(c)
    PROVE  NatInv'
<1>p. PICK p : p = pkt[c]
  OBVIOUS
<1>1. /\ PktSet(p) /\ p.pc = "backend" /\ p \in Pkt /\ ~p.hole /\ p.t \in Tuple
      /\ p.flow \in Flows /\ LookupSound(p) /\ Looking(p) /\ p.info \in ServiceInfo
      /\ p.slot < p.info.count
  BY <1>p DEF NatInv, BackendLookup, PktSet, Done, LookupSound, Looking
<1>2. p.slot \in 0 .. MaxSlots
  BY <1>1 DEF Pkt
<1>3. p.slot \in Slots /\ p.info.id \in Ids
  BY <1>1, <1>2, RowIsThere, MaxSlotsAssumption DEF Slots
<1>n. PICK n \in 0 .. MaxSlots : n = NoSlot
  BY MaxSlotsAssumption DEF NoSlot
<1>f. PICK f : f = [p EXCEPT !.info = NoService, !.slot = n]
  OBVIOUS
<1>4. /\ f = Looked(p) /\ f \in Pkt /\ f.t = p.t /\ f.flow = p.flow /\ f.seen = p.seen
      /\ f.steady = p.steady /\ f.hole = p.hole
  BY <1>1, <1>n, <1>f DEF Pkt, Looked
<1>g. {"policy", "forward"} \subseteq Stages
  BY DEF Stages
<1>5. UNCHANGED svars /\ UNCHANGED pvars
  BY DEF BackendLookup
<1>6. CASE backends[<<p.info.id, p.slot>>] = NoEnd
  <2>q. PICK q : q = [f EXCEPT !.pc = "policy", !.seen = {}, !.hole = TRUE]
    OBVIOUS
  <2>1. /\ q \in Pkt /\ q.pc = "policy" /\ q.t = p.t /\ q.flow = p.flow
        /\ q.steady = p.steady
    BY <1>4, <1>g, <2>q DEF Pkt
  <2>2. ~p.steady
    BY <1>1, <1>2, <1>6, NoHole, NoEndAssumption DEF NatInv
  <2>3. PktSet(q) /\ LookupSound(q)
    BY <1>1, <2>1, <2>2 DEF PktSet, LookupSound, Looking, Done
  <2>4. Step(c, q)
    BY <1>p, <1>4, <1>6, <2>q DEF BackendLookup
  <2> QED
    BY <1>5, <2>3, <2>4, PacketInv, StepTyped
<1>7. CASE backends[<<p.info.id, p.slot>>] # NoEnd
  <2>1. PICK e \in Ends : e = backends[<<p.info.id, p.slot>>] /\ e \in p.seen
    <3>1. backends[<<p.info.id, p.slot>>] \in p.seen
      BY <1>1, <1>3, <1>7 DEF LookupSound
    <3>2. p.seen \subseteq Ends
      BY <1>1 DEF Pkt
    <3> QED
      BY <3>1, <3>2
  <2>q. PICK q : q = [f EXCEPT !.pc = "forward", !.flag = "dnat", !.be = e]
    OBVIOUS
  <2>2. /\ q \in Pkt /\ q.pc = "forward" /\ q.t = p.t /\ q.flow = p.flow /\ q.hole = p.hole
        /\ q.be = e /\ q.seen = p.seen
    BY <1>4, <1>g, <2>q DEF Pkt
  <2>3. PktSet(q) /\ LookupSound(q)
    BY <1>1, <2>1, <2>2 DEF PktSet, LookupSound, Looking
  <2>4. Step(c, q)
    BY <1>p, <1>4, <1>7, <2>1, <2>q DEF BackendLookup
  <2> QED
    BY <1>5, <2>3, <2>4, PacketInv, StepTyped
<1> QED
  BY <1>6, <1>7

LEMMA CtInsertTyped ==
    ASSUME MapsTyped, NEW k \in Tuple, NEW e \in CtEntry, CtInsert(k, e)
    PROVE  /\ ct' \in [DOMAIN ct' -> CtEntry] /\ DOMAIN ct' \subseteq Tuple
           /\ evicted' \subseteq Tuple /\ evicted' \cap DOMAIN ct' = {}
<1>1. PICK out \in SUBSET DOMAIN ct :
        /\ ct' = [x \in (DOMAIN ct \ out) \cup {k} |-> IF x = k THEN e ELSE ct[x]]
        /\ evicted' = (evicted \cup out) \ {k}
  BY DEF CtInsert
<1> QED
  BY <1>1 DEF MapsTyped

LEMMA InsertForwardInv ==
    ASSUME NatInv, NEW c \in Cpus, InsertForward(c)
    PROVE  NatInv'
<1>p. PICK p : p = pkt[c]
  OBVIOUS
<1>1. /\ PktSet(p) /\ p.pc = "forward" /\ p \in Pkt /\ ~p.hole /\ p.t \in Tuple
      /\ p.flow \in Flows /\ p.be \in Ends
  BY <1>p DEF NatInv, InsertForward, PktSet, Done
<1>q. PICK q : q = [p EXCEPT !.pc = "back", !.seen = {}, !.steady = TRUE]
  OBVIOUS
<1>g. "back" \in Stages
  BY DEF Stages
<1>2. /\ q \in Pkt /\ q.pc = "back" /\ q.t = p.t /\ q.flow = p.flow /\ q.hole = p.hole
      /\ q.be = p.be
  BY <1>1, <1>g, <1>q DEF Pkt
<1>3. PktSet(q) /\ LookupSound(q)
  BY <1>1, <1>2 DEF PktSet, LookupSound, Looking
<1>4. Step(c, q) /\ UNCHANGED svars
  BY <1>p, <1>q DEF InsertForward
<1>5. Forward(p) \in CtEntry
  BY <1>1 DEF Forward, CtEntry, Pkt
<1>6. MapsTyped'
  BY <1>1, <1>4, <1>5, <1>p, CtInsertTyped, StepTyped DEF InsertForward, NatInv, MapsTyped
<1> QED
  BY <1>3, <1>4, <1>6, PacketInv

LEMMA InsertBackInv ==
    ASSUME NatInv, NEW c \in Cpus, InsertBack(c)
    PROVE  NatInv'
<1>p. PICK p : p = pkt[c]
  OBVIOUS
<1>1. /\ PktSet(p) /\ p.pc = "back" /\ p \in Pkt /\ ~p.hole /\ p.t \in Tuple
      /\ p.flow \in Flows /\ p.be \in Ends /\ p.flag \in {"dnat", "snat"}
  BY <1>p DEF NatInv, InsertBack, PktSet, Done, Pkt
<1>2. Forward(p) \in CtEntry /\ Back(p) \in CtEntry
  BY <1>1 DEF Forward, Back, CtEntry, Tuple
<1>t. PICK t \in Tuple : t = Rewrite(p.t, Forward(p))
  BY <1>1, <1>2, RewriteTyped
<1>3. BackKey(p) \in Tuple
  BY <1>t DEF BackKey, Rev, Tuple
<1>q. PICK q : q = [p EXCEPT !.pc = "policy", !.t = t, !.be = NoEnd, !.flag = "dnat"]
  OBVIOUS
<1>g. "policy" \in Stages
  BY DEF Stages
<1>4. /\ q \in Pkt /\ q.pc = "policy" /\ q.t = t /\ q.flow = p.flow /\ q.hole = p.hole
  BY <1>1, <1>g, <1>q DEF Pkt
<1>5. PktSet(q) /\ LookupSound(q)
  BY <1>1, <1>4 DEF PktSet, LookupSound, Looking
<1>6. Step(c, q) /\ UNCHANGED svars
  BY <1>p, <1>t, <1>q DEF InsertBack
<1>7. MapsTyped'
  BY <1>2, <1>3, <1>6, <1>p, CtInsertTyped, StepTyped DEF InsertBack, NatInv, MapsTyped
<1> QED
  BY <1>5, <1>6, <1>7, PacketInv

\* A packet that only moves on, delivered or not.
LEMMA MovesOn ==
    ASSUME NatInv, NEW c \in Cpus, pkt[c].pc \in Done, NEW x \in Done,
           Step(c, [pkt[c] EXCEPT !.pc = x]), UNCHANGED <<svars, ct, evicted, affinity>>,
           pct' \subseteq Tuple, rcvd' \subseteq [t : Tuple, flow : Flows]
    PROVE  NatInv'
<1>q. PICK q : q = [pkt[c] EXCEPT !.pc = x]
  OBVIOUS
<1>1. /\ x \in Stages /\ x \notin {"idle", "sticky", "stick", "backend", "forward", "back"}
      /\ pkt[c].pc # "idle"
  BY DEF Done, Stages
<1>2. PktSet(q) /\ LookupSound(q)
  BY <1>1, <1>q, PcOnly DEF NatInv
<1>3. MapsTyped'
  BY <1>q, StepTyped DEF NatInv, MapsTyped
<1> QED
  BY <1>q, <1>2, <1>3, PacketInv

LEMMA DeliverTyped ==
    ASSUME NatInv, NEW c \in Cpus, pkt[c].pc # "idle", Deliver(c, pkt[c])
    PROVE  /\ rcvd' \subseteq [t : Tuple, flow : Flows]
           /\ Step(c, [pkt[c] EXCEPT !.pc = "delivered"]) /\ "delivered" \in Done
BY DEF NatInv, MapsTyped, PktSet, Deliver, Done

LEMMA EgressPolicyInv ==
    ASSUME NatInv, NEW c \in Cpus, EgressPolicy(c)
    PROVE  NatInv'
<1>1. /\ pkt[c].pc \in Done /\ pkt[c].pc # "idle" /\ pct' \subseteq Tuple
      /\ UNCHANGED <<svars, ct, evicted, affinity>>
  BY DEF EgressPolicy, Done, NatInv, MapsTyped
<1>2. CASE Deliver(c, pkt[c])
  BY <1>1, <1>2, DeliverTyped, MovesOn
<1>3. ASSUME NEW x \in {"dropped", "out", "lost"}, Step(c, [pkt[c] EXCEPT !.pc = x]),
             UNCHANGED rcvd
      PROVE  NatInv'
  <2>1. x \in Done /\ rcvd' \subseteq [t : Tuple, flow : Flows]
    BY <1>3 DEF Done, NatInv, MapsTyped
  <2> QED
    BY <1>1, <1>3, <2>1, MovesOn
<1>4. \/ Deliver(c, pkt[c])
      \/ \E x \in {"dropped", "out", "lost"} :
            Step(c, [pkt[c] EXCEPT !.pc = x]) /\ UNCHANGED rcvd
  <2>1. CASE pkt[c].t.dst.addr \in Pods \cup Hosts
    BY <2>1 DEF EgressPolicy
  <2>2. CASE pkt[c].t.dst.addr \notin Pods \cup Hosts
    BY <2>2 DEF EgressPolicy
  <2> QED
    BY <2>1, <2>2
<1> QED
  BY <1>2, <1>3, <1>4

LEMMA IngressPolicyInv ==
    ASSUME NatInv, NEW c \in Cpus, IngressPolicy(c)
    PROVE  NatInv'
<1>1. /\ pkt[c].pc \in Done /\ pkt[c].pc # "idle" /\ pct' \subseteq Tuple
      /\ UNCHANGED <<svars, ct, evicted, affinity>>
  BY DEF IngressPolicy, Done, NatInv, MapsTyped
<1>2. CASE Deliver(c, pkt[c])
  BY <1>1, <1>2, DeliverTyped, MovesOn
<1>3. ASSUME NEW x \in {"dropped", "record"}, Step(c, [pkt[c] EXCEPT !.pc = x]),
             UNCHANGED rcvd
      PROVE  NatInv'
  <2>1. x \in Done /\ rcvd' \subseteq [t : Tuple, flow : Flows]
    BY <1>3 DEF Done, NatInv, MapsTyped
  <2> QED
    BY <1>1, <1>3, <2>1, MovesOn
<1>4. \/ Deliver(c, pkt[c])
      \/ \E x \in {"dropped", "record"} :
            Step(c, [pkt[c] EXCEPT !.pc = x]) /\ UNCHANGED rcvd
  BY DEF IngressPolicy
<1> QED
  BY <1>2, <1>3, <1>4

LEMMA RecordInboundInv ==
    ASSUME NatInv, NEW c \in Cpus, RecordInbound(c)
    PROVE  NatInv'
<1>1. /\ pkt[c].pc \in Done /\ pkt[c].pc # "idle" /\ pct' \subseteq Tuple
      /\ UNCHANGED <<svars, ct, evicted, affinity>> /\ Deliver(c, pkt[c])
  BY DEF RecordInbound, Done, NatInv, MapsTyped, PktSet
<1> QED
  BY <1>1, DeliverTyped, MovesOn

LEMMA ReverseSnatInv ==
    ASSUME NatInv, NEW c \in Cpus, ReverseSnat(c)
    PROVE  NatInv'
<1>p. PICK p : p = pkt[c]
  OBVIOUS
<1>1. /\ PktSet(p) /\ p.pc = "out" /\ p \in Pkt /\ p.t \in Tuple /\ p.flow \in Flows
  BY <1>p DEF NatInv, ReverseSnat, PktSet
<1>2. PICK t \in Tuple, b \in BOOLEAN :
        Step(c, [p EXCEPT !.pc = "admit", !.t = t, !.excused = b])
  <2> DEFINE hit == /\ p.t \in DOMAIN ct /\ ct[p.t].flag = "snat"
                    /\ p.t.src.addr \notin Ip6
  <2>1. PICK t \in Tuple : t = IF hit THEN Rewrite(p.t, ct[p.t]) ELSE p.t
    BY <1>1, RewriteTyped DEF NatInv, MapsTyped
  <2>2. p.excused \in BOOLEAN
    BY <1>1 DEF Pkt
  <2>3. PICK b \in BOOLEAN : b = IF p.from = Node /\ ~hit THEN Excuse(p) ELSE p.excused
    <3>1. Excuse(p) \in BOOLEAN
      BY Zenon DEF Excuse
    <3> QED
      BY <3>1, <2>2, Zenon
  <2>4. Step(c, [p EXCEPT !.pc = "admit",
                          !.t = IF hit THEN Rewrite(p.t, ct[p.t]) ELSE p.t,
                          !.excused = IF p.from = Node /\ ~hit THEN Excuse(p) ELSE p.excused])
    BY <1>p, Zenon DEF ReverseSnat
  <2> HIDE DEF hit
  <2>5. Step(c, [p EXCEPT !.pc = "admit", !.t = t, !.excused = b])
    BY <2>1, <2>3, <2>4, Zenon
  <2> QED
    BY <2>5
<1>q. PICK q : q = [p EXCEPT !.pc = "admit", !.t = t, !.excused = b]
  OBVIOUS
<1>g. "admit" \in Stages
  BY DEF Stages
<1>3. /\ q \in Pkt /\ q.pc = "admit" /\ q.t = t /\ q.flow = p.flow /\ q.hole = p.hole
      /\ q.steady = p.steady
  BY <1>1, <1>g, <1>q DEF Pkt
<1>4. PktSet(q) /\ LookupSound(q)
  BY <1>1, <1>3 DEF PktSet, LookupSound, Looking, Done
<1>5. UNCHANGED svars /\ UNCHANGED pvars
  BY DEF ReverseSnat
<1> QED
  BY <1>2, <1>q, <1>4, <1>5, PacketInv, StepTyped

LEMMA ExpireInv ==
    ASSUME NatInv, AffinityExpire
    PROVE  NatInv'
<1>1. UNCHANGED svars /\ pkt' = pkt
  BY DEF AffinityExpire
<1>2. affinity' \in [Ids \X Addrs -> 0 .. MaxSlots]
  <2>1. NoSlot \in 0 .. MaxSlots
    BY MaxSlotsAssumption DEF NoSlot
  <2> QED
    BY <2>1 DEF AffinityExpire, NatInv, MapsTyped
<1>3. MapsTyped'
  BY <1>2 DEF AffinityExpire, NatInv, MapsTyped
<1>4. \A d \in Cpus : PktSet(pkt[d])' /\ LookupSound(pkt[d])'
  BY <1>1 DEF svars, NatInv, PktSet, LookupSound
<1> QED
  BY <1>1, <1>3, <1>4, TablesSame DEF NatInv

-----------------------------------------------------------------------------
(* Services change while packets look.                                     *)

\* What one map operation of a call can do to a service.
LEMMA ServiceSteps ==
    ASSUME TablesInv, SNext
    PROVE  /\ \A k \in SlotKey :
                 \/ backends'[k] \in {backends[k], NoEnd}
                 \/ call.op = "add" /\ k[1] = call.id /\ backends'[k] \in Range(call.backends)
           /\ \A v \in Vips :
                 \/ services'[v] = services[v]
                 \/ call'.op = "add" /\ call'.vip = v
                 \/ call.op = "del" /\ call.vip = v
           /\ \A v \in Vips : v \in failed' =>
                 v \in failed \/ (call.op = "add" /\ call.vip = v)
<1>t. ServicesTypeOK
  BY DEF TablesInv
<1>1. ASSUME NEW r \in Requests, ServiceAdd(r)
      PROVE  /\ backends' = backends /\ failed' \subseteq failed
             /\ call'.op = "add" /\ call'.vip = r.vip
             /\ \A v \in Vips : v # r.vip => services'[v] = services[v]
  BY <1>1, <1>t DEF ServiceAdd, ServicesTypeOK
<1>2. ASSUME InsertBackend
      PROVE  /\ services' = services /\ failed' = failed /\ call.op = "add"
             /\ \A k \in SlotKey :
                   \/ backends'[k] = backends[k]
                   \/ k[1] = call.id /\ backends'[k] \in Range(call.backends)
  <2>1. call.op = "add" /\ call.slot \in Nat /\ call.slot < Len(call.backends)
        /\ DOMAIN call.backends = 1 .. Len(call.backends) /\ Len(call.backends) \in Nat
    BY <1>2, AddFacts DEF InsertBackend
  <2>2. call.backends[call.slot + 1] \in Range(call.backends)
    BY <2>1 DEF Range
  <2>3. \A k \in SlotKey : k # <<call.id, call.slot>> => backends'[k] = backends[k]
    BY <1>2, <1>t DEF InsertBackend, ServicesTypeOK
  <2>4. ASSUME NEW k \in SlotKey, k = <<call.id, call.slot>>
        PROVE  k[1] = call.id /\ backends'[k] \in Range(call.backends)
    <3>1. k[1] = call.id
      BY <2>4
    <3>2. backends'[k] = call.backends[call.slot + 1]
      BY <1>2, <1>t, <2>4 DEF InsertBackend, ServicesTypeOK
    <3> QED
      BY <3>1, <3>2, <2>2
  <2>5. services' = services /\ failed' = failed
    BY <1>2 DEF InsertBackend
  <2> QED
    BY <2>1, <2>3, <2>4, <2>5
<1>3. ASSUME InsertFails
      PROVE  /\ services' = services /\ backends' = backends
             /\ failed' = failed \cup {call.vip} /\ call.op = "add"
  BY <1>3 DEF InsertFails
<1>4. ASSUME RemoveStale
      PROVE  /\ services' = services /\ failed' = failed
             /\ \A k \in SlotKey : backends'[k] \in {backends[k], NoEnd}
  BY <1>4, <1>t DEF RemoveStale, ServicesTypeOK
<1>5. ASSUME NEW v \in Vips, ServiceDel(v)
      PROVE  services' = services /\ failed' = failed /\ backends' = backends
  BY <1>5 DEF ServiceDel
<1>6. ASSUME RemoveService
      PROVE  /\ failed' \subseteq failed /\ call.op = "del"
             /\ \A k \in SlotKey : backends'[k] \in {backends[k], NoEnd}
             /\ \A v \in Vips : v # call.vip => services'[v] = services[v]
  BY <1>6, <1>t DEF RemoveService, ServicesTypeOK
<1> QED
  BY <1>1, <1>2, <1>3, <1>4, <1>5, <1>6 DEF SNext

LEMMA ControlInv ==
    ASSUME OwnIds, NatInv, ControlStep
    PROVE  NatInv'
<1>s. SNext /\ UNCHANGED pvars
  BY DEF ControlStep
<1>1. TablesInv /\ TablesInv'
  BY <1>s, TablesStep DEF NatInv
<1>2. MapsTyped'
  BY DEF ControlStep, pvars, NatInv, MapsTyped
<1>3. ASSUME NEW d \in Cpus
      PROVE  PktSet(pkt[d])' /\ LookupSound(pkt[d])'
  <2>p. PICK p : p = pkt[d]
    OBVIOUS
  <2>1. PktSet(p) /\ LookupSound(p) /\ p \in Pkt
    BY <2>p DEF NatInv, PktSet
  <2>2. CASE ~Looking(p)
    <3>1. pkt'[d] = p
      BY <2>p, <2>2 DEF ControlStep, Looking
    <3> QED
      BY <2>1, <2>2, <3>1 DEF LookupSound, Looking, PktSet
  <2>3. CASE Looking(p)
    <3>r. PICK r \in Requests : r.vip = p.t.dst /\ r.id = p.info.id
      BY <2>1, <2>3 DEF LookupSound
    <3>v. PICK v \in Vips : v = p.t.dst /\ v = r.vip
      BY <3>r, RequestFacts
    <3>1. /\ p.info \in ServiceInfo /\ p.info.id = r.id /\ r.id \in Ids
          /\ \A s \in Slots : backends[<<r.id, s>>] \in p.seen \cup {NoEnd}
          /\ call.op = "add" /\ call.vip = v => Range(call.backends) \subseteq p.seen
          /\ p.steady => /\ services[v] = p.info /\ v \notin failed
                         /\ call.op # "none" => call.vip # v
          /\ p.pc # "sticky" => p.slot < p.info.count
      BY <2>1, <2>3, <3>r, <3>v, RequestFacts DEF LookupSound
    <3>S. PICK S \in SUBSET Ends : S = p.seen \cup Range(want'[v])
      <4>1. Range(want'[v]) \subseteq Ends
        <5>1. want'[v] \in Seq(Ends)
          BY <1>1 DEF TablesInv, ServicesTypeOK
        <5> QED
          BY <5>1 DEF Range
      <4>2. p.seen \subseteq Ends
        BY <2>1 DEF Pkt
      <4> QED
        BY <4>1, <4>2
    <3>b. PICK b \in BOOLEAN : b = (p.steady /\ (call'.op # "none" => call'.vip # v))
      BY Zenon
    <3>q. PICK q : q = [p EXCEPT !.seen = S, !.steady = b]
      OBVIOUS
    <3>2. /\ q \in Pkt /\ q.pc = p.pc /\ q.t = p.t /\ q.flow = p.flow /\ q.hole = p.hole
          /\ q.info = p.info /\ q.slot = p.slot /\ q.be = p.be
          /\ q.seen = S /\ q.steady = b
      BY <2>1, <3>q DEF Pkt
    <3>3. pkt'[d] = q
      <4>1. pkt'[d] = [p EXCEPT !.seen = p.seen \cup Range(want'[v]),
                                !.steady = p.steady /\ (call'.op # "none" => call'.vip # v)]
        BY <2>p, <2>3, <3>v DEF ControlStep, Looking
      <4> QED
        BY <4>1, <3>S, <3>b, <3>q
    <3>4. PktSet(q)
      BY <2>1, <2>3, <3>2 DEF PktSet, Looking, Done
    <3>5. \A s \in Slots : backends'[<<r.id, s>>] \in S \cup {NoEnd}
      <4> TAKE s \in Slots
      <4>k. PICK k \in SlotKey : k = <<r.id, s>>
        BY <3>1 DEF SlotKey
      <4>1. CASE backends'[k] \in {backends[k], NoEnd}
        BY <4>k, <4>1, <3>1, <3>S
      <4>2. CASE call.op = "add" /\ k[1] = call.id /\ backends'[k] \in Range(call.backends)
        <5>1. PICK u \in Requests : call.vip = u.vip /\ call.id = u.id
          BY <4>2, <1>1 DEF TablesInv, IdsRequested
        <5>2. call.vip = v
          BY <4>k, <4>2, <5>1, <3>v DEF OwnIds
        <5> QED
          BY <4>k, <4>2, <5>2, <3>1, <3>S
      <4> QED
        BY <4>1, <4>2, <1>1, <1>s, ServiceSteps
    <3>6. call'.op = "add" /\ call'.vip = v => Range(call'.backends) \subseteq S
      BY <1>1, <3>S DEF TablesInv, CallSound
    <3>7. b => /\ services'[v] = p.info /\ v \notin failed'
               /\ call'.op # "none" => call'.vip # v
      <4> HAVE b
      <4>1. p.steady /\ (call'.op # "none" => call'.vip # v)
        BY <3>b
      <4>2. services[v] = p.info /\ v \notin failed /\ (call.op # "none" => call.vip # v)
        BY <4>1, <3>1
      <4> QED
        BY <4>1, <4>2, <1>1, <1>s, ServiceSteps
    <3>8. LookupSound(pkt[d])'
      BY <3>1, <3>2, <3>3, <3>5, <3>6, <3>7, <3>v DEF LookupSound
    <3> QED
      BY <3>3, <3>4, <3>8 DEF PktSet
  <2> QED
    BY <2>2, <2>3
<1> QED
  BY <1>1, <1>2, <1>3 DEF NatInv

-----------------------------------------------------------------------------
LEMMA NatStep ==
    ASSUME OwnIds, NatInv, [NNext]_nvars
    PROVE  NatInv'
<1>1. CASE ControlStep
  BY <1>1, ControlInv
<1>2. CASE AffinityExpire
  BY <1>2, ExpireInv
<1>3. ASSUME NEW c \in Cpus, PacketStep(c)
      PROVE  NatInv'
  <2>1. CASE Send(c)
    BY <2>1, ArriveInv, FlowsAssumption DEF Send
  <2>2. CASE Answer(c)
    <3>1. PICK x \in rcvd : Arrive(c, Rev(x.t), x.flow, TRUE)
      BY <2>2 DEF Answer
    <3>2. Rev(x.t) \in Tuple /\ x.flow \in Flows
      BY DEF NatInv, MapsTyped, Rev, Tuple
    <3> QED
      BY <3>1, <3>2, ArriveInv
  <2> QED
    BY <1>3, <2>1, <2>2, TrackInv, CtLookupInv, SvcLookupInv, AffinityLookupInv,
       AffinityRecordInv, BackendLookupInv, InsertForwardInv, InsertBackInv,
       EgressPolicyInv, ReverseSnatInv, IngressPolicyInv, RecordInboundInv DEF PacketStep
<1>4. CASE UNCHANGED nvars
  <2>1. UNCHANGED svars /\ UNCHANGED pvars /\ pkt' = pkt
    BY <1>4 DEF nvars
  <2>2. \A d \in Cpus : PktSet(pkt[d])' /\ LookupSound(pkt[d])'
    BY <2>1 DEF svars, NatInv, PktSet, LookupSound
  <2>3. MapsTyped'
    BY <2>1 DEF NatInv, MapsTyped, pvars
  <2> QED
    BY <2>1, <2>2, <2>3, TablesSame DEF NatInv
<1> QED
  BY <1>1, <1>2, <1>3, <1>4 DEF NNext

\* The tables, the conntrack and the packets stay well formed, whatever the
\* services, the flows, the CPUs and the sizes of the maps.
THEOREM NatTypesHold ==
    ASSUME OwnIds
    PROVE  NSpec => []NatTypeOK
<1>1. NInit => NatInv
  BY NatInit
<1>2. NatInv /\ [NNext]_nvars => NatInv'
  BY NatStep
<1>3. NatInv => NatTypeOK
  BY InvImplies
<1> QED
  BY <1>1, <1>2, <1>3, PTL DEF NSpec

\* service_add and service_del, also when they fail half-way: between calls
\* every service has exactly the backends asked for and no slot is left over.
THEOREM TablesAreExact ==
    ASSUME OwnIds
    PROVE  NSpec => []SlotsExact
<1>1. NInit => NatInv
  BY NatInit
<1>2. NatInv /\ [NNext]_nvars => NatInv'
  BY NatStep
<1>3. NatInv => SlotsExact
  BY InvImplies
<1> QED
  BY <1>1, <1>2, <1>3, PTL DEF NSpec

\* l4_nat_v4/v6 against service_add and service_del: the count, the slot and
\* the backend of a packet come from three loads, with any map operations of
\* the control plane between them.
THEOREM OwnBackendIsPicked ==
    ASSUME OwnIds
    PROVE  NSpec => []PicksOwnBackend
<1>1. NInit => NatInv
  BY NatInit
<1>2. NatInv /\ [NNext]_nvars => NatInv'
  BY NatStep
<1>3. NatInv => PicksOwnBackend
  BY InvImplies
<1> QED
  BY <1>1, <1>2, <1>3, PTL DEF NSpec

-----------------------------------------------------------------------------
(* Answers: the inductive invariant.                                       *)

\* e is a translation that a packet of flow f can be given.
Translates(f, e) ==
    \/ /\ e.flag = "dnat" /\ f.dst \in Vips /\ e.rev \in BackendEnds
    \/ /\ e.flag = "snat" /\ e.rev = NodeEnd(f)
       /\ f.src.addr \in Pods
       /\ f.dst \notin Vips /\ f.dst.addr # Node

\* The row that undoes it.
Undo(f, e) == [flag |-> IF e.flag = "dnat" THEN "snat" ELSE "dnat",
               rev |-> IF e.flag = "dnat" THEN f.dst ELSE f.src]

\* Every row translates a flow or undoes a translation.
RowSound(k) ==
    \/ k \in Flows /\ Translates(k, ct[k])
    \/ \E f \in Flows, e \in CtEntry :
          Translates(f, e) /\ k = Rev(Rewrite(f, e)) /\ ct[k] = Undo(f, e)

\* A row was, or is about to be, inserted under k.
Recorded(k) == k \in DOMAIN ct \/ k \in evicted \/ Pending(k)

\* What becomes of a flow CT can tell from all others: a translation whose
\* answers are recorded, if any.
Traced(t, f) ==
    Alone(f) => \/ t = f
                \/ \E e \in CtEntry :
                      Translates(f, e) /\ t = Rewrite(f, e) /\ Recorded(Rev(t))

\* What remains of any other.
Shape(t, f) ==
    /\ t.src = f.src \/ (f.src.addr \in Pods /\ t.src = NodeEnd(f))
    /\ t.dst \in ServerEnds

\* A flow with a row is recorded.
FlowsRecorded == \A k \in DOMAIN ct \cap Flows : Recorded(Rev(Rewrite(k, ct[k])))

RcvdSound(x) ==
    /\ Shape(x.t, x.flow) /\ Traced(x.t, x.flow)
    /\ x.t.dst.addr \in EnforcedOut => x.t \in pct
    /\ x.flow.src.addr \in Pods => x.flow \in pct

Untouched == {"track", "ct", "svc", "sticky", "stick", "backend", "forward", "back"}
RequestSound(p) ==
    /\ Shape(p.t, p.flow) /\ Traced(p.t, p.flow)
    /\ p.pc \in Untouched => p.t = p.flow /\ p.from = p.t.src.addr
    /\ Looking(p) => p.t.dst \in Vips
    /\ p.pc \in {"forward", "back"} => Translates(p.t, Forward(p))
    /\ p.pc # "track" /\ p.flow.src.addr \in Pods => p.flow \in pct

\* An answer that has not been translated yet.
Fresh(p) == p.pc \in {"track", "ct", "svc"} \/ (p.pc = "out" /\ p.from = Node)
ReplySound(p) ==
    /\ \E x \in rcvd : /\ x.flow = p.flow /\ x.t.dst.addr = p.from
                       /\ Fresh(p) => p.t = Rev(x.t)
    /\ p.pc \in {"track", "ct", "svc"} \cup Done
    /\ p.pc \in {"track", "ct", "svc", "policy"} => p.from # Node
    /\ (Fresh(p) => p.pc = "svc") /\ ~p.excused /\ Alone(p.flow) =>
          /\ p.t = Rev(p.flow)
          /\ p.pc = "dropped" => p.flow.dst \in Vips /\ p.flow.src.addr \notin Pods

PacketSound(p) ==
    p.pc # "idle" => IF p.reply THEN ReplySound(p) ELSE RequestSound(p)

\* BACKENDS holds what requests name.
BackendsAsked == \A k \in SlotKey : backends[k] \in BackendEnds \cup {NoEnd}

RepliesInv ==
    /\ BackendsAsked /\ FlowsRecorded
    /\ \A k \in DOMAIN ct : RowSound(k)
    /\ \A x \in rcvd : RcvdSound(x)
    /\ \A c \in Cpus : PacketSound(pkt[c])

-----------------------------------------------------------------------------
(* Ends and translations.                                                  *)

LEMMA TupleFields ==
    ASSUME NEW t \in Tuple
    PROVE  /\ t = [src |-> t.src, dst |-> t.dst] /\ t.src \in Ends /\ t.dst \in Ends
           /\ Rev(t) \in Tuple /\ Rev(t).src = t.dst /\ Rev(t).dst = t.src
           /\ Rev(Rev(t)) = t
BY DEF Tuple, Rev

LEMMA Rewritten ==
    ASSUME NEW t \in Tuple, NEW e, e.flag \in {"dnat", "snat"}
    PROVE  Rewrite(t, e) = IF e.flag = "dnat" THEN [src |-> t.src, dst |-> e.rev]
                                              ELSE [src |-> e.rev, dst |-> t.dst]
BY DEF Rewrite, Tuple

LEMMA RevOneOne ==
    ASSUME NEW t \in Tuple, NEW u \in Tuple, Rev(t) = Rev(u)
    PROVE  t = u
BY TupleFields

\* What the hypothesis says of one flow.
LEMMA FlowEnds ==
    ASSUME Topology, NEW f \in Flows
    PROVE  /\ f \in Tuple /\ f.src \in ClientEnds /\ f.dst \in ServerEnds
           /\ f.src \notin ServerEnds /\ f.src \notin MasqEnds /\ f.src \notin Vips
           /\ NodeEnd(f).addr = Node /\ NodeEnd(f).port = f.src.port /\ NodeEnd(f) \in Ends
           /\ f.src.addr \in Pods => /\ NodeEnd(f) \in MasqEnds /\ NodeEnd(f) \notin ServerEnds
                                     /\ NodeEnd(f) \notin ClientEnds /\ NodeEnd(f) \notin Vips
<1>1. f \in Tuple /\ f.src \in ClientEnds /\ f.dst \in ServerEnds
  BY FlowsAssumption DEF ClientEnds, ServerEnds
<1>2. f.src \in Ends
  BY <1>1 DEF Tuple
<1>3. NodeEnd(f) \in Ends /\ NodeEnd(f).addr = Node /\ NodeEnd(f).port = f.src.port
  BY <1>2, EndsAssumption DEF NodeEnd
<1>4. f.src.addr \in Pods => NodeEnd(f) \in MasqEnds
  BY DEF MasqEnds
<1>5. Vips \subseteq ServerEnds
  BY DEF ServerEnds
<1> QED
  BY <1>1, <1>3, <1>4, <1>5 DEF Topology, EndsApart

\* What a translation makes of a flow.
LEMMA TranslatedFlow ==
    ASSUME Topology, NEW f \in Flows, NEW e \in CtEntry, Translates(f, e)
    PROVE  LET t == Rewrite(f, e)
           IN  /\ t \in Tuple /\ Shape(t, f)
               /\ t.src \in ClientEnds \cup MasqEnds
               /\ e.flag = "dnat" => t.src = f.src /\ t.dst = e.rev /\ t.dst \in BackendEnds
                                     /\ f.dst \in Vips
               /\ e.flag = "snat" => t.src = NodeEnd(f) /\ t.dst = f.dst /\ f.src.addr \in Pods
                                     /\ t.src \in MasqEnds
                                     /\ f.dst \notin Vips /\ f.dst.addr # Node
<1>1. f \in Tuple /\ e.flag \in {"dnat", "snat"} /\ e.rev \in Ends
  BY FlowEnds DEF CtEntry
<1>2. Rewrite(f, e) \in Tuple
  BY <1>1, RewriteTyped
<1>3. CASE e.flag = "dnat"
  <2>1. Rewrite(f, e) = [src |-> f.src, dst |-> e.rev]
    BY <1>1, <1>3, Rewritten
  <2>2. f.dst \in Vips /\ e.rev \in BackendEnds
    BY <1>3 DEF Translates
  <2> QED
    BY <1>2, <1>3, <2>1, <2>2, FlowEnds DEF Shape, ServerEnds
<1>4. CASE e.flag = "snat"
  <2>1. Rewrite(f, e) = [src |-> e.rev, dst |-> f.dst]
    BY <1>1, <1>4, Rewritten
  <2>2. e.rev = NodeEnd(f) /\ f.src.addr \in Pods /\ f.dst \notin Vips /\ f.dst.addr # Node
    BY <1>4 DEF Translates
  <2> QED
    BY <1>2, <1>4, <2>1, <2>2, FlowEnds DEF Shape, ServerEnds
<1> QED
  BY <1>1, <1>3, <1>4

\* Two flows that become the same are one, and so are the translations, if CT
\* can tell one of the flows from all others.
LEMMA OneFlow ==
    ASSUME Topology, NEW f \in Flows, NEW e \in CtEntry, Translates(f, e), Alone(f),
           NEW g \in Flows, NEW d \in CtEntry, Translates(g, d),
           Rewrite(f, e) = Rewrite(g, d)
    PROVE  g = f /\ d = e
<1>1. e = [flag |-> e.flag, rev |-> e.rev] /\ d = [flag |-> d.flag, rev |-> d.rev]
      /\ e.flag \in {"dnat", "snat"} /\ d.flag \in {"dnat", "snat"}
  BY DEF CtEntry
<1>2. CASE e.flag = "dnat" /\ d.flag = "dnat"
  <2>1. f.src = g.src /\ e.rev = d.rev
    BY <1>2, TranslatedFlow
  <2> QED
    BY <1>1, <1>2, <2>1 DEF Alone, Collides
<1>3. CASE e.flag = "snat" /\ d.flag = "snat"
  <2>1. NodeEnd(f) = NodeEnd(g) /\ f.dst = g.dst /\ f.src.addr \in Pods /\ g.src.addr \in Pods
        /\ f.dst \notin Vips
    BY <1>3, TranslatedFlow
  <2>2. f.src.port = g.src.port
    BY <2>1 DEF NodeEnd
  <2>3. g = f
    BY <2>1, <2>2 DEF Alone, Collides
  <2>4. e.rev = NodeEnd(f) /\ d.rev = NodeEnd(g)
    BY <1>3 DEF Translates
  <2> QED
    BY <1>1, <1>3, <2>3, <2>4
<1>4. CASE e.flag # d.flag
  <2>1. CASE e.flag = "dnat" /\ d.flag = "snat"
    <3>1. f.src = NodeEnd(g) /\ g.src.addr \in Pods
      BY <2>1, TranslatedFlow
    <3> QED
      BY <3>1, FlowEnds
  <2>2. CASE e.flag = "snat" /\ d.flag = "dnat"
    <3>1. g.src = NodeEnd(f) /\ f.src.addr \in Pods
      BY <2>2, TranslatedFlow
    <3> QED
      BY <3>1, FlowEnds
  <2> QED
    BY <1>1, <1>4, <2>1, <2>2
<1> QED
  BY <1>1, <1>2, <1>3, <1>4

\* The row of the answer undoes it.
LEMMA Undone ==
    ASSUME Topology, NEW f \in Flows, NEW e \in CtEntry, Translates(f, e)
    PROVE  /\ Undo(f, e) \in CtEntry
           /\ Rewrite(Rev(Rewrite(f, e)), Undo(f, e)) = Rev(f)
<1>1. f \in Tuple /\ f.src \in Ends /\ f.dst \in Ends /\ e.flag \in {"dnat", "snat"}
  BY FlowEnds, TupleFields DEF CtEntry
<1>2. Undo(f, e) \in CtEntry
  BY <1>1 DEF Undo, CtEntry
<1>3. PICK t : t = Rewrite(f, e) /\ t \in Tuple
  BY TranslatedFlow
<1>4. Rev(t) \in Tuple
  BY <1>3, TupleFields
<1>5. CASE e.flag = "dnat"
  <2>1. Undo(f, e).flag = "snat" /\ Undo(f, e).rev = f.dst
    BY <1>5 DEF Undo
  <2>2. Rewrite(Rev(t), Undo(f, e)) = [src |-> f.dst, dst |-> Rev(t).dst]
    BY <1>4, <2>1, Rewritten
  <2> QED
    BY <1>2, <1>3, <1>5, <2>2, TranslatedFlow, TupleFields DEF Rev
<1>6. CASE e.flag = "snat"
  <2>1. Undo(f, e).flag = "dnat" /\ Undo(f, e).rev = f.src
    BY <1>6 DEF Undo
  <2>2. Rewrite(Rev(t), Undo(f, e)) = [src |-> Rev(t).src, dst |-> f.src]
    BY <1>4, <2>1, Rewritten
  <2> QED
    BY <1>2, <1>3, <1>6, <2>2, TranslatedFlow, TupleFields DEF Rev
<1> QED
  BY <1>1, <1>5, <1>6

\* No flow runs the way of an answer, and nothing that is inserted undoes a
\* flow that is not translated.
LEMMA AnswersApart ==
    ASSUME Topology, NEW f \in Flows, NEW e \in CtEntry, Translates(f, e)
    PROVE  /\ Rev(Rewrite(f, e)) \notin Flows
           /\ \A g \in Flows : Alone(g) => Rewrite(f, e) # g
<1>1. PICK t : t = Rewrite(f, e) /\ t \in Tuple /\ t.src \in ClientEnds \cup MasqEnds
  BY TranslatedFlow
<1>2. Rev(t).dst = t.src
  BY <1>1, TupleFields
<1>3. Rev(t) \notin Flows
  BY <1>1, <1>2, FlowEnds DEF Topology, EndsApart
<1>4. ASSUME NEW g \in Flows, Alone(g), t = g PROVE FALSE
  <2>1. CASE e.flag = "dnat"
    <3>1. g.src = f.src /\ g.dst \in BackendEnds /\ f.dst \in Vips
      BY <1>1, <1>4, <2>1, TranslatedFlow
    <3>2. g = f
      BY <1>4, <3>1 DEF Alone, Collides
    <3> QED
      BY <3>1, <3>2 DEF Topology, EndsApart
  <2>2. CASE e.flag = "snat"
    BY <1>1, <1>4, <2>2, TranslatedFlow, FlowEnds
  <2> QED
    BY <2>1, <2>2 DEF CtEntry
<1> QED
  BY <1>1, <1>3, <1>4

-----------------------------------------------------------------------------
(* Rows.                                                                   *)

\* The row of a flow translates it.
LEMMA FlowRow ==
    ASSUME Topology, NatInv, RepliesInv, NEW k \in DOMAIN ct, k \in Flows
    PROVE  ct[k] \in CtEntry /\ Translates(k, ct[k])
<1>1. ct[k] \in CtEntry
  BY DEF NatInv, MapsTyped
<1>2. RowSound(k)
  BY DEF RepliesInv
<1> QED
  BY <1>1, <1>2, AnswersApart DEF RowSound

\* The row an answer finds.
LEMMA AnswerRow ==
    ASSUME Topology, NatInv, RepliesInv, NEW f \in Flows, Alone(f),
           NEW t, Traced(t, f), Rev(t) \in DOMAIN ct
    PROVE  \E e \in CtEntry : /\ Translates(f, e) /\ t = Rewrite(f, e)
                              /\ ct[Rev(t)] = Undo(f, e)
                              /\ Rewrite(Rev(t), ct[Rev(t)]) = Rev(f)
<1>1. RowSound(Rev(t))
  BY DEF RepliesInv
<1>2. f \in Tuple
  BY FlowEnds
<1>3. CASE t = f
  <2>1. Rev(f).dst = f.src
    BY <1>2, TupleFields
  <2>2. Rev(f) \notin Flows
    BY <2>1, FlowEnds
  <2>3. PICK g \in Flows, d \in CtEntry : Translates(g, d) /\ Rev(f) = Rev(Rewrite(g, d))
    BY <1>1, <1>3, <2>2 DEF RowSound
  <2>4. Rewrite(g, d) \in Tuple
    BY <2>3, TranslatedFlow
  <2>5. f = Rewrite(g, d)
    BY <1>2, <2>3, <2>4, RevOneOne
  <2> QED
    BY <2>3, <2>5, AnswersApart
<1>4. CASE t # f
  <2>1. PICK e \in CtEntry : Translates(f, e) /\ t = Rewrite(f, e)
    BY <1>4 DEF Traced
  <2>2. t \in Tuple /\ Rev(t) \notin Flows
    BY <2>1, TranslatedFlow, AnswersApart
  <2>3. PICK g \in Flows, d \in CtEntry : /\ Translates(g, d) /\ Rev(t) = Rev(Rewrite(g, d))
                                          /\ ct[Rev(t)] = Undo(g, d)
    BY <1>1, <2>2 DEF RowSound
  <2>4. Rewrite(g, d) \in Tuple
    BY <2>3, TranslatedFlow
  <2>5. t = Rewrite(g, d)
    BY <2>2, <2>3, <2>4, RevOneOne
  <2>6. g = f /\ d = e
    <3>1. Rewrite(f, e) = Rewrite(g, d) /\ Translates(f, e) /\ Translates(g, d)
      BY <2>1, <2>3, <2>5
    <3> QED
      BY <3>1, OneFlow
  <2> QED
    BY <2>1, <2>3, <2>6, Undone
<1> QED
  BY <1>3, <1>4

\* The same for an answer that finds none: it is untranslated, or excused.
LEMMA AnswerMisses ==
    ASSUME NEW f, Alone(f), NEW t, Traced(t, f), Rev(t) \notin DOMAIN ct,
           Rev(t) \notin evicted, ~Pending(Rev(t))
    PROVE  t = f
BY DEF Traced, Recorded

-----------------------------------------------------------------------------
(* What a step keeps.                                                      *)

LEMMA Inserted ==
    ASSUME NEW k, NEW e, CtInsert(k, e)
    PROVE  /\ k \in DOMAIN ct' /\ ct'[k] = e
           /\ \A x \in DOMAIN ct' : x # k => x \in DOMAIN ct /\ ct'[x] = ct[x]
           /\ \A x \in DOMAIN ct \cup evicted : x \in DOMAIN ct' \cup evicted'
BY DEF CtInsert

\* Once recorded, always recorded.
Keeps == \A k : Recorded(k) => Recorded(k)'

LEMMA PendingKept ==
    ASSUME NatInv, NEW c \in Cpus, NEW q, Step(c, q), pkt[c].pc # "back", NEW k, Pending(k)
    PROVE  Pending(k)'
<1>1. PICK d \in Cpus : pkt[d].pc = "back" /\ BackKey(pkt[d]) = k
  BY DEF Pending
<1>2. pkt'[d] = pkt[d]
  BY <1>1 DEF Step, NatInv, MapsTyped
<1>3. pkt'[d].pc = "back" /\ BackKey(pkt'[d]) = k
  BY <1>1, <1>2
<1> QED
  BY <1>3 DEF Pending, BackKey, Rev, Rewrite, Forward

LEMMA QuietKeeps ==
    ASSUME NatInv, NEW c \in Cpus, NEW q, Step(c, q), pkt[c].pc # "back",
           ct' = ct, evicted' = evicted
    PROVE  Keeps
BY PendingKept DEF Keeps, Recorded

LEMMA ForwardKeeps ==
    ASSUME NatInv, NEW c \in Cpus, InsertForward(c)
    PROVE  Keeps
<1>1. PICK q : Step(c, q)
  BY DEF InsertForward
<1>2. pkt[c].pc # "back" /\ CtInsert(pkt[c].t, Forward(pkt[c]))
  BY DEF InsertForward
<1>3. \A x \in DOMAIN ct \cup evicted : x \in DOMAIN ct' \cup evicted'
  BY <1>2, Inserted
<1> QED
  BY <1>1, <1>2, <1>3, PendingKept DEF Keeps, Recorded

LEMMA BackKeeps ==
    ASSUME NatInv, NEW c \in Cpus, InsertBack(c)
    PROVE  Keeps
<1>1. PICK q : Step(c, q)
  BY DEF InsertBack
<1>2. PICK key : key = BackKey(pkt[c])
  OBVIOUS
<1>3. PICK e : CtInsert(key, e)
  BY <1>2 DEF InsertBack
<1>4. key \in DOMAIN ct' /\ \A x \in DOMAIN ct \cup evicted : x \in DOMAIN ct' \cup evicted'
  BY <1>3, Inserted
<1>5. ASSUME NEW k, Pending(k), k # key PROVE Pending(k)'
  <2>1. PICK d \in Cpus : pkt[d].pc = "back" /\ BackKey(pkt[d]) = k
    BY <1>5 DEF Pending
  <2>2. d # c
    BY <1>2, <1>5, <2>1
  <2>3. pkt'[d] = pkt[d]
    BY <1>1, <2>2 DEF Step, NatInv, MapsTyped
  <2>4. pkt'[d].pc = "back" /\ BackKey(pkt'[d]) = k
    BY <2>1, <2>3
  <2> QED
    BY <2>4 DEF Pending, BackKey, Rev, Rewrite, Forward
<1> QED
  BY <1>4, <1>5 DEF Keeps, Recorded

LEMMA TracedKept ==
    ASSUME Keeps, NEW t, NEW f, Traced(t, f)
    PROVE  Traced(t, f)'
<1>1. Alone(f)' <=> Alone(f)
  BY DEF Alone, Collides
<1>2. \A e : Translates(f, e)' <=> Translates(f, e)
  BY DEF Translates
<1> QED
  BY <1>1, <1>2 DEF Traced, Keeps

LEMMA PacketKept ==
    ASSUME Keeps, pct \subseteq pct', rcvd \subseteq rcvd', NEW p, PacketSound(p)
    PROVE  PacketSound(p)'
<1>1. CASE p.pc = "idle"
  BY <1>1 DEF PacketSound
<1>2. CASE p.pc # "idle" /\ p.reply
  <2>1. ReplySound(p)
    BY <1>2 DEF PacketSound
  <2>2. ReplySound(p)'
    BY <2>1 DEF ReplySound, Fresh
  <2> QED
    BY <1>2, <2>2 DEF PacketSound
<1>3. CASE p.pc # "idle" /\ ~p.reply
  <2>1. RequestSound(p)
    BY <1>3 DEF PacketSound
  <2>2. Traced(p.t, p.flow)'
    BY <2>1, TracedKept DEF RequestSound
  <2>3. RequestSound(p)'
    BY <2>1, <2>2 DEF RequestSound, Looking, Shape
  <2> QED
    BY <1>3, <2>3 DEF PacketSound
<1> QED
  BY <1>1, <1>2, <1>3

LEMMA RcvdKept ==
    ASSUME Keeps, pct \subseteq pct', NEW x, RcvdSound(x)
    PROVE  RcvdSound(x)'
<1>1. Traced(x.t, x.flow)'
  BY TracedKept DEF RcvdSound
<1> QED
  BY <1>1 DEF RcvdSound, Shape

LEMMA RowsKept ==
    ASSUME RepliesInv, Keeps, ct' = ct
    PROVE  FlowsRecorded' /\ \A k \in DOMAIN ct' : RowSound(k)'
<1>1. FlowsRecorded'
  BY DEF RepliesInv, FlowsRecorded, Keeps
<1>2. ASSUME NEW k \in DOMAIN ct' PROVE RowSound(k)'
  <2>1. RowSound(k)
    BY <1>2 DEF RepliesInv
  <2> QED
    BY <2>1 DEF RowSound
<1> QED
  BY <1>1, <1>2

\* What remains to be shown of a step of one CPU.
LEMMA CpuStep ==
    ASSUME NatInv, RepliesInv, Keeps, UNCHANGED svars, pct \subseteq pct', rcvd \subseteq rcvd',
           NEW c \in Cpus, NEW q, Step(c, q), PacketSound(q)',
           FlowsRecorded', \A k \in DOMAIN ct' : RowSound(k)',
           \A x \in rcvd' \ rcvd : RcvdSound(x)'
    PROVE  RepliesInv'
<1>1. BackendsAsked'
  BY DEF svars, RepliesInv, BackendsAsked
<1>2. ASSUME NEW x \in rcvd' PROVE RcvdSound(x)'
  <2>1. CASE x \in rcvd
    <3>1. RcvdSound(x)
      BY <2>1 DEF RepliesInv
    <3> QED
      BY <3>1, RcvdKept
  <2> QED
    BY <2>1
<1>3. ASSUME NEW d \in Cpus PROVE PacketSound(pkt[d])'
  <2>1. PICK p : p = pkt'[d]
    OBVIOUS
  <2>2. CASE d = c
    <3>1. p = q
      BY <2>1, <2>2 DEF Step, NatInv, MapsTyped
    <3>2. PacketSound(p)'
      BY <3>1
    <3> QED
      BY <2>1, <3>2 DEF PacketSound, RequestSound, ReplySound, Fresh, Looking, Forward, Shape
  <2>3. CASE d # c
    <3>1. p = pkt[d]
      BY <2>1, <2>3 DEF Step, NatInv, MapsTyped
    <3>2. PacketSound(p)
      BY <3>1 DEF RepliesInv
    <3>3. PacketSound(p)'
      BY <3>2, PacketKept
    <3> QED
      BY <2>1, <3>3 DEF PacketSound, RequestSound, ReplySound, Fresh, Looking, Forward, Shape
  <2> QED
    BY <2>2, <2>3
<1> QED
  BY <1>1, <1>2, <1>3 DEF RepliesInv

\* ... that leaves the conntrack alone.
LEMMA CtSame ==
    ASSUME NatInv, RepliesInv, UNCHANGED <<svars, ct, evicted>>, pct \subseteq pct',
           rcvd \subseteq rcvd', NEW c \in Cpus, NEW q, Step(c, q), pkt[c].pc # "back",
           PacketSound(q)', \A x \in rcvd' \ rcvd : RcvdSound(x)'
    PROVE  RepliesInv'
<1>1. Keeps
  BY QuietKeeps
<1>2. FlowsRecorded' /\ \A k \in DOMAIN ct' : RowSound(k)'
  BY <1>1, RowsKept
<1> QED
  BY <1>1, <1>2, CpuStep

LEMMA QuietStep ==
    ASSUME NatInv, RepliesInv, UNCHANGED <<svars, ct, evicted, pct, rcvd>>,
           NEW c \in Cpus, NEW q, Step(c, q), pkt[c].pc # "back", PacketSound(q)
    PROVE  RepliesInv'
<1>1. Keeps
  BY QuietKeeps
<1>2. PacketSound(q)'
  BY <1>1, PacketKept
<1> QED
  BY <1>2, CtSame

-----------------------------------------------------------------------------
(* The steps of a packet.                                                  *)

LEMMA Arrived ==
    ASSUME NEW t, NEW f, NEW b, NEW c, Arrive(c, t, f, b)
    PROVE  \E q : /\ Step(c, q) /\ UNCHANGED <<svars, pvars>> /\ pkt[c].pc # "back"
                  /\ q.t = t /\ q.flow = f /\ q.reply = b /\ q.from = t.src.addr
                  /\ q.pc = IF t.src.addr = Node THEN "out"
                            ELSE IF t.src.addr \in Pods THEN "track" ELSE "ct"
<1> DEFINE x == IF t.src.addr = Node THEN "out"
                ELSE IF t.src.addr \in Pods THEN "track" ELSE "ct"
           q == [NoPkt EXCEPT !.pc = x, !.t = t, !.flow = f, !.reply = b,
                              !.from = t.src.addr]
<1>1. Step(c, q) /\ UNCHANGED <<svars, pvars>> /\ pkt[c].pc # "back"
  BY DEF Arrive
<1> HIDE DEF x
<1>2. q.t = t /\ q.flow = f /\ q.reply = b /\ q.from = t.src.addr
      /\ q.pc = x
  BY DEF NoPkt
<1> HIDE DEF q
<1> QED
  BY <1>1, <1>2 DEF x

LEMMA SendReplies ==
    ASSUME Topology, NatInv, RepliesInv, NEW c \in Cpus, Send(c)
    PROVE  RepliesInv'
<1>b. PICK b : b = FALSE
  OBVIOUS
<1>1. PICK f \in Flows : Arrive(c, f, f, b)
  BY <1>b DEF Send
<1>2. f \in Tuple
  BY FlowsAssumption
<1>3. PICK q : /\ Step(c, q) /\ UNCHANGED <<svars, pvars>> /\ pkt[c].pc # "back"
               /\ q.t = f /\ q.flow = f /\ q.reply = b /\ q.from = f.src.addr
               /\ q.pc = IF f.src.addr = Node THEN "out"
                         ELSE IF f.src.addr \in Pods THEN "track" ELSE "ct"
  BY <1>1, Arrived
<1>4. Shape(f, f) /\ Traced(f, f)
  BY FlowEnds DEF Shape, Traced
<1>5. q.pc \in {"out", "track", "ct"} /\ (f.src.addr \in Pods => q.pc = "track")
  BY <1>3 DEF Topology, PolicyOnPods
<1>6. RequestSound(q)
  BY <1>3, <1>4, <1>5 DEF RequestSound, Looking
<1>7. PacketSound(q)
  BY <1>3, <1>6, <1>b DEF PacketSound
<1> QED
  BY <1>3, <1>7, QuietStep DEF pvars

LEMMA AnswerReplies ==
    ASSUME Topology, NatInv, RepliesInv, NEW c \in Cpus, Answer(c)
    PROVE  RepliesInv'
<1>b. PICK b : b = TRUE
  OBVIOUS
<1>1. PICK x \in rcvd : Arrive(c, Rev(x.t), x.flow, b)
  BY <1>b DEF Answer
<1>2. x.t \in Tuple /\ x.flow \in Flows
  BY DEF NatInv, MapsTyped
<1>3. PICK t : t = Rev(x.t) /\ t \in Tuple /\ t.src = x.t.dst
  BY <1>2, TupleFields
<1>4. PICK q : /\ Step(c, q) /\ UNCHANGED <<svars, pvars>> /\ pkt[c].pc # "back"
               /\ q.t = t /\ q.flow = x.flow /\ q.reply = b /\ q.from = t.src.addr
               /\ q.pc = IF t.src.addr = Node THEN "out"
                         ELSE IF t.src.addr \in Pods THEN "track" ELSE "ct"
  <2>1. Arrive(c, t, x.flow, b)
    BY <1>1, <1>3
  <2> QED
    BY <2>1, Arrived
<1>5. q.pc \in {"out", "track", "ct"} /\ (q.pc = "out" <=> q.from = Node)
  BY <1>4
<1>6. ReplySound(q)
  BY <1>1, <1>3, <1>4, <1>5 DEF ReplySound, Fresh, Done
<1>7. PacketSound(q)
  BY <1>4, <1>6, <1>b DEF PacketSound
<1> QED
  BY <1>4, <1>7, QuietStep DEF pvars

LEMMA TrackReplies ==
    ASSUME Topology, NatInv, RepliesInv, NEW c \in Cpus, Track(c)
    PROVE  RepliesInv'
<1>p. PICK p : p = pkt[c]
  OBVIOUS
<1>q. PICK q : q = [p EXCEPT !.pc = "ct"]
  OBVIOUS
<1>1. p \in Pkt /\ p.pc = "track" /\ PacketSound(p)
  BY <1>p DEF Track, NatInv, PktSet, RepliesInv
<1>2. /\ q.pc = "ct" /\ q.t = p.t /\ q.flow = p.flow /\ q.reply = p.reply /\ q.from = p.from
      /\ q.excused = p.excused
  BY <1>q, <1>1 DEF Pkt
<1>3. Step(c, q) /\ UNCHANGED <<svars, ct, evicted, rcvd>> /\ pct' = pct \cup {p.t}
  BY <1>p, <1>q DEF Track
<1>4. Keeps
  BY <1>1, <1>3, <1>p, QuietKeeps
<1>5. PacketSound(p)'
  BY <1>1, <1>3, <1>4, PacketKept
<1>6. CASE p.reply
  <2>1. ReplySound(p)'
    BY <1>1, <1>5, <1>6 DEF PacketSound
  <2>2. ReplySound(q)'
    BY <1>1, <1>2, <2>1 DEF ReplySound, Fresh
  <2> QED
    BY <1>1, <1>2, <1>3, <1>6, <1>p, <2>2, CtSame DEF PacketSound
<1>7. CASE ~p.reply
  <2>1. RequestSound(p)' /\ p.t = p.flow
    BY <1>1, <1>5, <1>7 DEF PacketSound, RequestSound, Untouched
  <2>2. RequestSound(q)'
    BY <1>1, <1>2, <1>3, <2>1 DEF RequestSound, Looking, Untouched
  <2> QED
    BY <1>1, <1>2, <1>3, <1>7, <1>p, <2>2, CtSame DEF PacketSound
<1> QED
  BY <1>6, <1>7

\* A request that moves on.
LEMMA RequestMoves ==
    ASSUME NEW p, RequestSound(p), p.pc # "track",
           NEW q, q.t = p.t, q.flow = p.flow, q.from = p.from,
           q.pc \in Untouched => p.pc \in Untouched,
           Looking(q) => q.t.dst \in Vips,
           q.pc \in {"forward", "back"} => Translates(q.t, Forward(q))
    PROVE  RequestSound(q)
BY DEF RequestSound

\* An answer that moves on.
LEMMA ReplyMoves ==
    ASSUME NEW p, ReplySound(p), Fresh(p) => p.pc = "svc",
           NEW q, q.t = p.t, q.flow = p.flow, q.from = p.from, q.excused = p.excused,
           q.pc \in Done \ {"dropped"}, q.pc \in {"policy", "out"} => p.from # Node
    PROVE  ReplySound(q)
BY DEF ReplySound, Fresh, Done

\* What is known of a received request.
LEMMA Received ==
    ASSUME Topology, NatInv, RepliesInv, NEW x \in rcvd
    PROVE  /\ x.t \in Tuple /\ x.flow \in Flows /\ RcvdSound(x)
           /\ x.t.src \notin Vips
           /\ MasqOn => x.t.src.addr \in NonMasq \cup Ip6
<1>1. x.t \in Tuple /\ x.flow \in Flows /\ RcvdSound(x)
  BY DEF NatInv, MapsTyped, RepliesInv
<1>2. x.t.src = x.flow.src \/ (x.flow.src.addr \in Pods /\ x.t.src = NodeEnd(x.flow))
  BY <1>1 DEF RcvdSound, Shape
<1>3. CASE x.t.src = x.flow.src
  <2>1. x.flow.src \in ClientEnds /\ x.flow.src \notin Vips
    BY <1>1, FlowEnds
  <2>2. MasqOn => x.flow.src.addr \in NonMasq \cup Ip6
    BY <2>1 DEF Topology, ClusterKept
  <2> QED
    BY <1>1, <1>3, <2>1, <2>2
<1>4. CASE x.flow.src.addr \in Pods /\ x.t.src = NodeEnd(x.flow)
  <2>1. x.t.src \notin Vips /\ x.t.src.addr = Node
    BY <1>1, <1>4, FlowEnds
  <2>2. MasqOn => Node \in NonMasq \cup Ip6
    BY DEF Topology, ClusterKept
  <2> QED
    BY <1>1, <2>1, <2>2
<1> QED
  BY <1>2, <1>3, <1>4

\* What CT makes of an answer, and when it is excused.
LEMMA AnswerLookup ==
    ASSUME Topology, NatInv, RepliesInv, NEW x \in rcvd, Alone(x.flow),
           NEW t, t = Rev(x.t)
    PROVE  /\ t \in DOMAIN ct => Rewrite(t, ct[t]) = Rev(x.flow)
           /\ t \in DOMAIN ct /\ x.t.dst.addr = Node => ct[t].flag = "snat"
           /\ t \notin DOMAIN ct \cup evicted /\ ~Pending(t) => t = Rev(x.flow)
<1>1. x.flow \in Flows /\ Traced(x.t, x.flow)
  BY Received DEF RcvdSound
<1>2. ASSUME t \in DOMAIN ct
      PROVE  /\ Rewrite(t, ct[t]) = Rev(x.flow)
             /\ x.t.dst.addr = Node => ct[t].flag = "snat"
  <2>1. PICK e \in CtEntry : /\ Translates(x.flow, e) /\ x.t = Rewrite(x.flow, e)
                             /\ ct[t] = Undo(x.flow, e)
                             /\ Rewrite(t, ct[t]) = Rev(x.flow)
    BY <1>1, <1>2, AnswerRow
  <2>2. e.flag = "snat" => x.t.dst.addr # Node
    BY <1>1, <2>1, TranslatedFlow
  <2>3. e.flag \in {"dnat", "snat"}
    BY DEF CtEntry
  <2> QED
    BY <2>1, <2>2, <2>3 DEF Undo
<1>3. t \notin DOMAIN ct \cup evicted /\ ~Pending(t) => t = Rev(x.flow)
  BY <1>1, AnswerMisses
<1> QED
  BY <1>2, <1>3

LEMMA CtLookupReplies ==
    ASSUME Topology, NatInv, RepliesInv, NEW c \in Cpus, CtLookup(c)
    PROVE  RepliesInv'
<1>p. PICK p : p = pkt[c]
  OBVIOUS
<1>1. p \in Pkt /\ p.pc = "ct" /\ PacketSound(p) /\ p.t \in Tuple /\ p.flow \in Flows
  BY <1>p DEF CtLookup, NatInv, PktSet, RepliesInv
<1>2. UNCHANGED <<svars, ct, evicted, pct, rcvd>> /\ pkt[c].pc # "back"
  BY <1>1, <1>p DEF CtLookup, pvars
<1>3. CASE p.t \in DOMAIN ct
  <2>q. PICK q : q = [p EXCEPT !.pc = "policy", !.t = Rewrite(p.t, ct[p.t])]
    OBVIOUS
  <2>1. /\ q.pc = "policy" /\ q.t = Rewrite(p.t, ct[p.t]) /\ q.flow = p.flow
        /\ q.reply = p.reply /\ q.from = p.from /\ q.excused = p.excused
    BY <1>1, <2>q DEF Pkt
  <2>2. Step(c, q)
    BY <1>3, <1>p, <2>q DEF CtLookup
  <2>3. CASE p.reply
    <3>1. ReplySound(p)
      BY <1>1, <2>3 DEF PacketSound
    <3>2. PICK x \in rcvd : x.flow = p.flow /\ x.t.dst.addr = p.from /\ p.t = Rev(x.t)
      BY <1>1, <3>1 DEF ReplySound, Fresh
    <3>3. Alone(q.flow) => q.t = Rev(q.flow)
      BY <1>3, <2>1, <3>2, AnswerLookup
    <3>4. ReplySound(q)
      BY <1>1, <2>1, <3>1, <3>2, <3>3 DEF ReplySound, Fresh, Done
    <3> QED
      BY <1>2, <2>1, <2>2, <2>3, <3>4, QuietStep DEF PacketSound
  <2>4. CASE ~p.reply
    <3>1. RequestSound(p) /\ p.t = p.flow
      BY <1>1, <2>4 DEF PacketSound, RequestSound, Untouched
    <3>2. ct[p.t] \in CtEntry /\ Translates(p.t, ct[p.t])
      BY <1>1, <1>3, <3>1, FlowRow
    <3>3. Recorded(Rev(q.t))
      BY <1>1, <1>3, <2>1, <3>1 DEF RepliesInv, FlowsRecorded
    <3>4. Shape(q.t, q.flow)
      BY <1>1, <2>1, <3>1, <3>2, TranslatedFlow
    <3>5. Traced(q.t, q.flow)
      BY <2>1, <3>1, <3>2, <3>3 DEF Traced
    <3>6. RequestSound(q)
      BY <1>1, <2>1, <3>1, <3>4, <3>5 DEF RequestSound, Looking, Untouched
    <3> QED
      BY <1>2, <2>1, <2>2, <2>4, <3>6, QuietStep DEF PacketSound
  <2> QED
    BY <2>3, <2>4
<1>4. CASE p.t \notin DOMAIN ct
  <2>q. PICK q : q = [p EXCEPT !.pc = "svc", !.excused = Excuse(p)]
    OBVIOUS
  <2>1. /\ q.pc = "svc" /\ q.t = p.t /\ q.flow = p.flow
        /\ q.reply = p.reply /\ q.from = p.from
    BY <1>1, <2>q DEF Pkt
  <2>2. q.excused = Excuse(p)
    BY <1>1, <2>q DEF Pkt
  <2>3. Step(c, q)
    BY <1>4, <1>p, <2>q DEF CtLookup
  <2>4. CASE p.reply
    <3>1. ReplySound(p)
      BY <1>1, <2>4 DEF PacketSound
    <3>2. PICK x \in rcvd : x.flow = p.flow /\ x.t.dst.addr = p.from /\ p.t = Rev(x.t)
      BY <1>1, <3>1 DEF ReplySound, Fresh
    <3>3. ~q.excused => p.t \notin evicted /\ ~Pending(p.t)
      BY <2>2, <2>4 DEF Excuse
    <3>4. Alone(q.flow) /\ ~q.excused => q.t = Rev(q.flow)
      BY <1>4, <2>1, <3>2, <3>3, AnswerLookup
    <3>5. ReplySound(q)
      BY <1>1, <2>1, <3>1, <3>2, <3>4 DEF ReplySound, Fresh
    <3> QED
      BY <1>2, <2>1, <2>3, <2>4, <3>5, QuietStep DEF PacketSound
  <2>5. CASE ~p.reply
    <3>1. RequestSound(p)
      BY <1>1, <2>5 DEF PacketSound
    <3>2. RequestSound(q)
      BY <1>1, <2>1, <3>1, RequestMoves DEF Looking, Untouched
    <3> QED
      BY <1>2, <2>1, <2>3, <2>5, <3>2, QuietStep DEF PacketSound
  <2> QED
    BY <2>4, <2>5
<1> QED
  BY <1>3, <1>4

\* A packet of which only the stage and what it looked up have changed.
Same(q, p) ==
    /\ q.t = p.t /\ q.flow = p.flow /\ q.reply = p.reply /\ q.from = p.from
    /\ q.excused = p.excused

\* An answer is for no service and is not masqueraded.
LEMMA AnswerUnserved ==
    ASSUME Topology, NatInv, RepliesInv, NEW p, ReplySound(p), p.pc = "svc"
    PROVE  p.t.dst \notin Vips /\ ~Masquerades(p)
<1>1. PICK x \in rcvd : p.t = Rev(x.t)
  BY DEF ReplySound, Fresh
<1>2. p.t.dst = x.t.src
  BY <1>1, Received, TupleFields
<1> QED
  BY <1>2, Received DEF Masquerades

\* The node's address for a pod's packet.
LEMMA MasqueradeTranslates ==
    ASSUME Topology, NEW p, p.t \in Flows, p.from = p.t.src.addr, Masquerades(p),
           NEW e, e = [flag |-> "snat", rev |-> NodeEnd(p.t)]
    PROVE  Translates(p.t, e)
<1>1. p.t.src.addr \in Pods /\ MasqOn /\ p.t.dst.addr \notin NonMasq \cup Ip6
  BY DEF Masquerades
<1>2. p.t.dst \notin Vips /\ p.t.dst.addr # Node
  BY <1>1 DEF Topology, ClusterKept
<1> QED
  BY <1>1, <1>2 DEF Translates

LEMMA SvcLookupReplies ==
    ASSUME Topology, NatInv, RepliesInv, NEW c \in Cpus, SvcLookup(c)
    PROVE  RepliesInv'
<1>p. PICK p : p = pkt[c]
  OBVIOUS
<1>1. p \in Pkt /\ p.pc = "svc" /\ PacketSound(p) /\ p.t \in Tuple /\ p.flow \in Flows
  BY <1>p DEF SvcLookup, NatInv, PktSet, RepliesInv
<1>2. UNCHANGED <<svars, ct, evicted, pct, rcvd>> /\ pkt[c].pc # "back"
  BY <1>1, <1>p DEF SvcLookup, pvars
<1>3. Installed \subseteq Vips
  BY DEF Installed
<1>4. p.reply => ReplySound(p) /\ p.t.dst \notin Installed /\ ~Masquerades(p)
  BY <1>1, <1>3, AnswerUnserved DEF PacketSound
<1>5. ~p.reply => RequestSound(p) /\ p.t = p.flow /\ p.from = p.t.src.addr
  BY <1>1 DEF PacketSound, RequestSound, Untouched
<1>6. CASE Step(c, [p EXCEPT !.pc = "policy"])
  <2>q. PICK q : q = [p EXCEPT !.pc = "policy"]
    OBVIOUS
  <2>1. q.pc = "policy" /\ Same(q, p)
    BY <1>1, <2>q DEF Pkt, Same
  <2>2. CASE p.reply
    <3>1. p.from # Node
      BY <1>1, <1>4, <2>2 DEF ReplySound
    <3>2. ReplySound(q)
      BY <1>1, <1>4, <2>1, <2>2, <3>1, ReplyMoves DEF Done, Same, Fresh
    <3> QED
      BY <1>2, <1>6, <2>q, <2>1, <2>2, <3>2, QuietStep DEF PacketSound, Same
  <2>3. CASE ~p.reply
    <3>1. RequestSound(q)
      BY <1>1, <1>5, <2>1, <2>3, RequestMoves DEF Same, Looking, Untouched
    <3> QED
      BY <1>2, <1>6, <2>q, <2>1, <2>3, <3>1, QuietStep DEF PacketSound, Same
  <2> QED
    BY <2>2, <2>3
<1>7. CASE /\ p.t.dst \notin Installed /\ Masquerades(p)
           /\ Step(c, [p EXCEPT !.pc = "forward", !.flag = "snat",
                                !.be = [addr |-> Node, port |-> p.t.src.port]])
  <2>e. PICK e : e = [addr |-> Node, port |-> p.t.src.port]
    OBVIOUS
  <2>q. PICK q : q = [p EXCEPT !.pc = "forward", !.flag = "snat", !.be = e]
    OBVIOUS
  <2>1. q.pc = "forward" /\ Same(q, p) /\ q.flag = "snat" /\ q.be = e
    BY <1>1, <2>q DEF Pkt, Same
  <2>2. ~p.reply
    BY <1>4, <1>7
  <2>3. Translates(p.t, Forward(q))
    <3>1. Forward(q) = [flag |-> "snat", rev |-> NodeEnd(p.t)]
      BY <2>e, <2>1 DEF Forward, NodeEnd
    <3> QED
      BY <1>1, <1>5, <1>7, <2>2, <3>1, MasqueradeTranslates
  <2>4. RequestSound(q)
    BY <1>1, <1>5, <2>1, <2>2, <2>3, RequestMoves DEF Same, Looking, Untouched
  <2>5. Step(c, q)
    BY <1>7, <2>e, <2>q
  <2> QED
    BY <1>2, <2>1, <2>2, <2>4, <2>5, QuietStep DEF PacketSound, Same
<1>8. ASSUME p.t.dst \in Installed, NEW q, Looking(q), Same(q, p), Step(c, q)
      PROVE  RepliesInv'
  <2>1. ~p.reply
    BY <1>4, <1>8
  <2>2. RequestSound(q)
    BY <1>1, <1>3, <1>5, <1>8, <2>1, RequestMoves DEF Same, Looking, Untouched
  <2> QED
    BY <1>2, <1>8, <2>1, <2>2, QuietStep DEF PacketSound, Same
<1>9. CASE /\ p.t.dst \in Installed
           /\ LET found == [p EXCEPT !.info = services[p.t.dst], !.seen = SeenNow(p.t.dst),
                                     !.steady = SteadyNow(p.t.dst)]
              IN  \/ Step(c, [found EXCEPT !.pc = "sticky"])
                  \/ \E s \in FreshSlots(found) :
                        Step(c, [found EXCEPT !.pc = "backend", !.slot = s])
  <2>i. PICK i : i = services[p.t.dst]
    OBVIOUS
  <2>s. PICK S : S = SeenNow(p.t.dst)
    OBVIOUS
  <2>b. PICK b : b = SteadyNow(p.t.dst)
    OBVIOUS
  <2>f. PICK f : f = [p EXCEPT !.info = i, !.seen = S, !.steady = b]
    OBVIOUS
  <2>1. f = [p EXCEPT !.info = services[p.t.dst], !.seen = SeenNow(p.t.dst),
                      !.steady = SteadyNow(p.t.dst)]
    BY <2>i, <2>s, <2>b, <2>f
  <2>2. CASE Step(c, [f EXCEPT !.pc = "sticky"])
    <3>q. PICK q : q = [f EXCEPT !.pc = "sticky"]
      OBVIOUS
    <3>1. Same(q, p) /\ Looking(q)
      BY <1>1, <2>f, <3>q DEF Pkt, Same, Looking
    <3> QED
      BY <1>8, <1>9, <2>2, <3>q, <3>1
  <2>3. ASSUME NEW s \in FreshSlots(f), Step(c, [f EXCEPT !.pc = "backend", !.slot = s])
        PROVE  RepliesInv'
    <3>q. PICK q : q = [f EXCEPT !.pc = "backend", !.slot = s]
      OBVIOUS
    <3>1. Same(q, p) /\ Looking(q)
      BY <1>1, <2>f, <3>q DEF Pkt, Same, Looking
    <3> QED
      BY <1>8, <1>9, <2>3, <3>q, <3>1
  <2> QED
    BY <1>9, <2>1, <2>2, <2>3
<1> QED
  BY <1>6, <1>7, <1>9, <1>p DEF SvcLookup

\* Only requests look for a backend or open a flow.
LEMMA RequestsOnly ==
    ASSUME NatInv, RepliesInv, NEW c \in Cpus, NEW p, p = pkt[c],
           Looking(p) \/ p.pc \in {"forward", "back"}
    PROVE  /\ p \in Pkt /\ p.pc # "idle" /\ ~p.reply /\ RequestSound(p)
           /\ p.t \in Flows /\ p.flow = p.t
<1>1. p \in Pkt /\ PacketSound(p) /\ p.pc # "idle" /\ p.flow \in Flows
  BY DEF NatInv, PktSet, RepliesInv, Looking
<1>2. ~p.reply
  BY <1>1 DEF PacketSound, ReplySound, Looking, Done
<1> QED
  BY <1>1, <1>2 DEF PacketSound, RequestSound, Looking, Untouched

LEMMA AffinityReplies ==
    ASSUME NatInv, RepliesInv, NEW c \in Cpus, AffinityLookup(c) \/ AffinityRecord(c)
    PROVE  RepliesInv'
<1>p. PICK p : p = pkt[c]
  OBVIOUS
<1>1. Looking(p) /\ pkt[c].pc # "back" /\ UNCHANGED <<svars, ct, evicted, pct, rcvd>>
  BY <1>p DEF AffinityLookup, AffinityRecord, Looking, pvars
<1>2. p \in Pkt /\ p.pc # "idle" /\ ~p.reply /\ RequestSound(p)
  BY <1>p, <1>1, RequestsOnly
<1>3. ASSUME NEW q, Same(q, p), Looking(q), Step(c, q)
      PROVE  RepliesInv'
  <2>1. p.t.dst \in Vips
    BY <1>1, <1>2 DEF RequestSound
  <2>2. RequestSound(q)
    BY <1>1, <1>2, <1>3, <2>1, RequestMoves DEF Same, Looking, Untouched
  <2> QED
    BY <1>1, <1>2, <1>3, <2>2, QuietStep DEF PacketSound, Same
<1>4. CASE AffinityLookup(c)
  <2>1. PICK s : Step(c, [p EXCEPT !.pc = "stick", !.slot = s])
    BY <1>p, <1>4 DEF AffinityLookup
  <2>q. PICK q : q = [p EXCEPT !.pc = "stick", !.slot = s]
    OBVIOUS
  <2>2. Same(q, p) /\ Looking(q)
    BY <1>2, <2>q DEF Pkt, Same, Looking
  <2> QED
    BY <1>3, <2>q, <2>1, <2>2
<1>5. CASE AffinityRecord(c)
  <2>q. PICK q : q = [p EXCEPT !.pc = "backend"]
    OBVIOUS
  <2>1. Same(q, p) /\ Looking(q)
    BY <1>2, <2>q DEF Pkt, Same, Looking
  <2>2. Step(c, q)
    BY <1>p, <1>5, <2>q DEF AffinityRecord
  <2> QED
    BY <1>3, <2>1, <2>2
<1> QED
  BY <1>4, <1>5

LEMMA BackendReplies ==
    ASSUME NatInv, RepliesInv, NEW c \in Cpus, BackendLookup(c)
    PROVE  RepliesInv'
<1>p. PICK p : p = pkt[c]
  OBVIOUS
<1>1. /\ p.pc = "backend" /\ Looking(p) /\ pkt[c].pc # "back"
      /\ UNCHANGED <<svars, ct, evicted, pct, rcvd>>
  BY <1>p DEF BackendLookup, Looking, pvars
<1>2. p \in Pkt /\ p.pc # "idle" /\ ~p.reply /\ RequestSound(p) /\ p.t.dst \in Vips
  BY <1>p, <1>1, RequestsOnly DEF RequestSound
<1>3. LookupSound(p) /\ p.info \in ServiceInfo /\ p.slot < p.info.count
  BY <1>p, <1>1 DEF NatInv, LookupSound
<1>4. p.slot \in Slots /\ p.info.id \in Ids
  <2>1. p.slot \in 0 .. MaxSlots
    BY <1>2 DEF Pkt
  <2> QED
    BY <1>3, <2>1, RowIsThere, MaxSlotsAssumption DEF Slots
<1>5. PICK be \in BackendEnds \cup {NoEnd} : be = backends[<<p.info.id, p.slot>>]
  BY <1>4 DEF RepliesInv, BackendsAsked, SlotKey
<1>f. PICK f : f = [p EXCEPT !.info = NoService, !.slot = NoSlot]
  OBVIOUS
<1>6. CASE be = NoEnd
  <2>q. PICK q : q = [f EXCEPT !.pc = "policy", !.seen = {}, !.hole = TRUE]
    OBVIOUS
  <2>1. Same(q, p) /\ q.pc = "policy"
    BY <1>2, <1>f, <2>q DEF Pkt, Same
  <2>2. RequestSound(q)
    BY <1>1, <1>2, <2>1, RequestMoves DEF Same, Looking, Untouched
  <2>3. Step(c, q)
    BY <1>p, <1>5, <1>6, <1>f, <2>q DEF BackendLookup, Looked
  <2> QED
    BY <1>1, <1>2, <2>1, <2>2, <2>3, QuietStep DEF PacketSound, Same
<1>7. CASE be # NoEnd
  <2>q. PICK q : q = [f EXCEPT !.pc = "forward", !.flag = "dnat", !.be = be]
    OBVIOUS
  <2>1. Same(q, p) /\ q.pc = "forward" /\ q.flag = "dnat" /\ q.be = be
    BY <1>2, <1>f, <2>q DEF Pkt, Same
  <2>2. Translates(q.t, Forward(q))
    BY <1>2, <1>7, <2>1 DEF Translates, Forward, Same
  <2>3. RequestSound(q)
    BY <1>1, <1>2, <2>1, <2>2, RequestMoves DEF Same, Looking, Untouched
  <2>4. Step(c, q)
    BY <1>p, <1>5, <1>7, <1>f, <2>q DEF BackendLookup, Looked
  <2> QED
    BY <1>1, <1>2, <2>1, <2>3, <2>4, QuietStep DEF PacketSound, Same
<1> QED
  BY <1>6, <1>7

\* The two rows of a translation.
LEMMA Opens ==
    ASSUME NatInv, RepliesInv, NEW c \in Cpus, NEW p, p = pkt[c],
           p.pc \in {"forward", "back"}
    PROVE  /\ Forward(p) \in CtEntry /\ Translates(p.t, Forward(p))
           /\ BackKey(p) = Rev(Rewrite(p.t, Forward(p))) /\ Back(p) = Undo(p.t, Forward(p))
<1>1. p \in Pkt /\ p.be \in Ends /\ p.flag \in {"dnat", "snat"}
  BY DEF NatInv, PktSet, Pkt
<1>2. RequestSound(p)
  BY RequestsOnly
<1> QED
  BY <1>1, <1>2 DEF RequestSound, Forward, CtEntry, BackKey, Back, Undo

LEMMA RecordedFlows ==
    ASSUME \A k \in DOMAIN ct' \cap Flows : \A b : b = Rev(Rewrite(k, ct'[k])) => Recorded(b)'
    PROVE  FlowsRecorded'
<1> SUFFICES ASSUME NEW k \in DOMAIN ct' \cap Flows
             PROVE  Recorded(Rev(Rewrite(k, ct[k])))'
  BY DEF FlowsRecorded
<1>1. PICK b : b = Rev(Rewrite(k, ct'[k]))
  OBVIOUS
<1>2. Recorded(b)'
  BY <1>1
<1> QED
  BY <1>1, <1>2 DEF Recorded, Pending

LEMMA ForwardReplies ==
    ASSUME Topology, NatInv, RepliesInv, NEW c \in Cpus, InsertForward(c)
    PROVE  RepliesInv'
<1>p. PICK p : p = pkt[c]
  OBVIOUS
<1>1. p.pc = "forward" /\ CtInsert(p.t, Forward(p)) /\ UNCHANGED <<svars, pct, rcvd>>
  BY <1>p DEF InsertForward
<1>2. p \in Pkt /\ p.pc # "idle" /\ ~p.reply /\ RequestSound(p) /\ p.t \in Flows
  BY <1>p, <1>1, RequestsOnly
<1>e. PICK e \in CtEntry : e = Forward(p) /\ Translates(p.t, e)
  BY <1>p, <1>1, Opens
<1>q. PICK q : q = [p EXCEPT !.pc = "back", !.seen = {}, !.steady = TRUE]
  OBVIOUS
<1>3. Same(q, p) /\ q.pc = "back" /\ q.flag = p.flag /\ q.be = p.be
  BY <1>2, <1>q DEF Pkt, Same
<1>4. Step(c, q) /\ Forward(q) = e /\ BackKey(q) = Rev(Rewrite(p.t, e))
  BY <1>p, <1>e, <1>q, <1>3 DEF InsertForward, Forward, BackKey, Same
<1>5. Keeps
  BY ForwardKeeps
<1>6. PacketSound(q)'
  <2>1. RequestSound(q)
    BY <1>1, <1>2, <1>3, <1>4, <1>e, RequestMoves DEF Same, Looking, Untouched
  <2>2. PacketSound(q)
    BY <1>2, <1>3, <2>1 DEF PacketSound, Same
  <2> QED
    BY <1>1, <1>5, <2>2, PacketKept
<1>7. /\ p.t \in DOMAIN ct' /\ ct'[p.t] = e
      /\ \A x \in DOMAIN ct' : x # p.t => x \in DOMAIN ct /\ ct'[x] = ct[x]
  BY <1>1, <1>e, Inserted
<1>8. ASSUME NEW k \in DOMAIN ct' PROVE RowSound(k)'
  <2>1. CASE k = p.t
    BY <1>2, <1>e, <1>7, <2>1 DEF RowSound
  <2>2. CASE k # p.t
    <3>1. RowSound(k) /\ ct'[k] = ct[k]
      BY <1>7, <1>8, <2>2 DEF RepliesInv
    <3> QED
      BY <3>1 DEF RowSound
  <2> QED
    BY <2>1, <2>2
<1>9. FlowsRecorded'
  <2>1. ASSUME NEW k \in DOMAIN ct', k \in Flows, NEW b, b = Rev(Rewrite(k, ct'[k]))
        PROVE  Recorded(b)'
    <3>1. CASE k = p.t
      <4>1. pkt'[c] = q
        BY <1>4 DEF Step, NatInv, MapsTyped
      <4>2. pkt'[c].pc = "back" /\ BackKey(pkt'[c]) = b
        BY <1>3, <1>4, <1>7, <2>1, <3>1, <4>1
      <4>3. Pending(b)'
        BY <4>2 DEF Pending, BackKey, Rev, Rewrite, Forward
      <4> QED
        BY <4>3 DEF Recorded
    <3>2. CASE k # p.t
      <4>1. Recorded(b)
        BY <1>7, <2>1, <3>2 DEF RepliesInv, FlowsRecorded
      <4> QED
        BY <1>5, <4>1 DEF Keeps
    <3> QED
      BY <3>1, <3>2
  <2> QED
    BY <2>1, RecordedFlows
<1> QED
  BY <1>1, <1>4, <1>5, <1>6, <1>8, <1>9, CpuStep

LEMMA BackReplies ==
    ASSUME Topology, NatInv, RepliesInv, NEW c \in Cpus, InsertBack(c)
    PROVE  RepliesInv'
<1>p. PICK p : p = pkt[c]
  OBVIOUS
<1>1. p.pc = "back" /\ CtInsert(BackKey(p), Back(p)) /\ UNCHANGED <<svars, pct, rcvd>>
  BY <1>p DEF InsertBack
<1>2. /\ p \in Pkt /\ p.pc # "idle" /\ ~p.reply /\ RequestSound(p) /\ p.t \in Flows
      /\ p.flow = p.t
  BY <1>p, <1>1, RequestsOnly
<1>e. PICK e \in CtEntry : /\ e = Forward(p) /\ Translates(p.t, e)
                           /\ BackKey(p) = Rev(Rewrite(p.t, e)) /\ Back(p) = Undo(p.t, e)
  BY <1>p, <1>1, Opens
<1>t. PICK t : t = Rewrite(p.t, e) /\ Shape(t, p.t)
  BY <1>2, <1>e, TranslatedFlow
<1>q. PICK q : q = [p EXCEPT !.pc = "policy", !.t = t, !.be = NoEnd, !.flag = "dnat"]
  OBVIOUS
<1>3. q.pc = "policy" /\ q.t = t /\ q.flow = p.flow /\ q.reply = p.reply
  BY <1>2, <1>q DEF Pkt
<1>4. Step(c, q)
  BY <1>p, <1>e, <1>t, <1>q DEF InsertBack
<1>5. Keeps
  BY BackKeeps
<1>6. /\ Rev(t) \in DOMAIN ct' /\ ct'[Rev(t)] = Undo(p.t, e)
      /\ \A x \in DOMAIN ct' : x # Rev(t) => x \in DOMAIN ct /\ ct'[x] = ct[x]
  BY <1>1, <1>e, <1>t, Inserted
<1>7. PacketSound(q)'
  <2>1. Recorded(Rev(t))'
    BY <1>6 DEF Recorded
  <2>2. Traced(t, p.t)'
    BY <1>e, <1>t, <2>1 DEF Traced
  <2>3. p.flow.src.addr \in Pods => p.flow \in pct'
    BY <1>1, <1>2 DEF RequestSound
  <2>4. RequestSound(q)'
    BY <1>2, <1>3, <1>t, <2>2, <2>3 DEF RequestSound, Looking, Untouched, Shape
  <2> QED
    BY <1>2, <1>3, <2>4 DEF PacketSound
<1>8. ASSUME NEW k \in DOMAIN ct' PROVE RowSound(k)'
  <2>1. CASE k = Rev(t)
    BY <1>2, <1>e, <1>t, <1>6, <2>1 DEF RowSound
  <2>2. CASE k # Rev(t)
    <3>1. RowSound(k) /\ ct'[k] = ct[k]
      BY <1>6, <1>8, <2>2 DEF RepliesInv
    <3> QED
      BY <3>1 DEF RowSound
  <2> QED
    BY <2>1, <2>2
<1>9. FlowsRecorded'
  <2>1. ASSUME NEW k \in DOMAIN ct', k \in Flows, NEW b, b = Rev(Rewrite(k, ct'[k]))
        PROVE  Recorded(b)'
    <3>1. k # Rev(t)
      BY <1>2, <1>e, <1>t, <2>1, AnswersApart
    <3>2. Recorded(b)
      BY <1>6, <2>1, <3>1 DEF RepliesInv, FlowsRecorded
    <3> QED
      BY <1>5, <3>2 DEF Keeps
  <2> QED
    BY <2>1, RecordedFlows
<1> QED
  BY <1>1, <1>4, <1>5, <1>7, <1>8, <1>9, CpuStep

LEMMA DeliverReplies ==
    ASSUME Topology, NatInv, RepliesInv, NEW c \in Cpus, NEW p, p = pkt[c],
           p.pc \in {"policy", "admit", "record"}, Deliver(c, p),
           UNCHANGED <<svars, ct, evicted>>, pct \subseteq pct',
           p.t.dst.addr \in EnforcedOut => p.t \in pct'
    PROVE  RepliesInv'
<1>1. p \in Pkt /\ PacketSound(p) /\ p.pc # "back" /\ p.pc # "idle"
  BY DEF NatInv, PktSet, RepliesInv
<1>q. PICK q : q = [p EXCEPT !.pc = "delivered"]
  OBVIOUS
<1>2. q.pc = "delivered" /\ Same(q, p)
  BY <1>1, <1>q DEF Pkt, Same
<1>3. Step(c, q) /\ rcvd \subseteq rcvd'
  BY <1>q DEF Deliver
<1>4. Keeps
  BY <1>1, <1>3, QuietKeeps
<1>5. PacketSound(q)
  <2>1. CASE p.reply
    <3>1. ReplySound(p)
      BY <1>1, <2>1 DEF PacketSound
    <3>2. ReplySound(q)
      BY <1>2, <3>1, ReplyMoves DEF Same, Fresh, Done
    <3> QED
      BY <1>2, <2>1, <3>2 DEF PacketSound, Same
  <2>2. CASE ~p.reply
    <3>1. RequestSound(q)
      BY <1>1, <1>2, <2>2, RequestMoves DEF PacketSound, Same, Looking, Untouched
    <3> QED
      BY <1>2, <2>2, <3>1 DEF PacketSound, Same
  <2> QED
    BY <2>1, <2>2
<1>6. PacketSound(q)'
  BY <1>3, <1>4, <1>5, PacketKept
<1>7. ASSUME NEW x \in rcvd' \ rcvd PROVE RcvdSound(x)'
  <2>1. x.t = p.t /\ x.flow = p.flow /\ ~p.reply
    BY <1>7 DEF Deliver
  <2>2. RequestSound(p)
    BY <1>1, <2>1 DEF PacketSound
  <2>3. Traced(x.t, x.flow)'
    BY <1>4, <2>1, <2>2, TracedKept DEF RequestSound
  <2>4. Shape(x.t, x.flow) /\ (x.flow.src.addr \in Pods => x.flow \in pct')
    BY <2>1, <2>2 DEF RequestSound
  <2> QED
    BY <2>1, <2>3, <2>4 DEF RcvdSound, Shape
<1> QED
  BY <1>1, <1>3, <1>6, <1>7, CtSame

\* A packet that only changes its stage.
LEMMA StageReplies ==
    ASSUME Topology, NatInv, RepliesInv, NEW c \in Cpus, NEW p, p = pkt[c],
           p.pc \in {"policy", "admit"}, NEW s \in Done \ {"policy"},
           s = "out" => p.pc = "policy",
           s = "dropped" /\ p.reply /\ ~p.excused /\ Alone(p.flow) =>
              p.flow.dst \in Vips /\ p.flow.src.addr \notin Pods,
           Step(c, [p EXCEPT !.pc = s]), UNCHANGED <<svars, ct, evicted, pct, rcvd>>
    PROVE  RepliesInv'
<1>1. p \in Pkt /\ PacketSound(p) /\ p.pc # "back" /\ p.pc # "idle"
  BY DEF NatInv, PktSet, RepliesInv
<1>q. PICK q : q = [p EXCEPT !.pc = s]
  OBVIOUS
<1>2. q.pc = s /\ Same(q, p)
  BY <1>1, <1>q DEF Pkt, Same
<1>3. CASE p.reply
  <2>1. ReplySound(p)
    BY <1>1, <1>3 DEF PacketSound
  <2>2. ReplySound(q)
    BY <1>2, <1>3, <2>1 DEF ReplySound, Same, Fresh, Done
  <2> QED
    BY <1>1, <1>2, <1>3, <1>q, <2>2, QuietStep DEF PacketSound, Same, Done
<1>4. CASE ~p.reply
  <2>1. RequestSound(p)
    BY <1>1, <1>4 DEF PacketSound
  <2>2. RequestSound(q)
    BY <1>1, <1>2, <2>1, RequestMoves DEF Same, Looking, Untouched, Done
  <2> QED
    BY <1>1, <1>2, <1>4, <1>q, <2>2, QuietStep DEF PacketSound, Same, Done
<1> QED
  BY <1>3, <1>4

\* Network policy has seen the request of an answer pass.
LEMMA AnswerAdmitted ==
    ASSUME Topology, NatInv, RepliesInv, NEW p, ReplySound(p), p.pc \in {"policy", "admit"},
           ~p.excused, Alone(p.flow), Rev(p.t) \notin pct
    PROVE  /\ p.t.dst.addr = p.flow.src.addr /\ p.flow.src.addr \notin Pods
           /\ p.from \in EnforcedOut => p.flow.dst \in Vips
<1>1. PICK x \in rcvd : x.flow = p.flow /\ x.t.dst.addr = p.from
  BY DEF ReplySound
<1>2. p.t = Rev(p.flow)
  BY DEF ReplySound, Fresh
<1>3. x.t \in Tuple /\ p.flow \in Flows /\ p.flow \in Tuple /\ RcvdSound(x)
  BY <1>1, Received, FlowEnds
<1>4. p.t.dst = p.flow.src /\ Rev(p.t) = p.flow
  BY <1>2, <1>3, TupleFields
<1>5. p.flow.src.addr \notin Pods
  BY <1>1, <1>3, <1>4 DEF RcvdSound
<1>6. ASSUME p.from \in EnforcedOut, p.flow.dst \notin Vips PROVE FALSE
  <2>1. Traced(x.t, p.flow)
    BY <1>1, <1>3 DEF RcvdSound
  <2>2. x.t = p.flow
    BY <1>5, <1>6, <2>1 DEF Traced, Translates
  <2> QED
    BY <1>1, <1>3, <1>4, <1>6, <2>2 DEF RcvdSound
<1> QED
  BY <1>4, <1>5, <1>6

LEMMA EgressPolicyReplies ==
    ASSUME Topology, NatInv, RepliesInv, NEW c \in Cpus, EgressPolicy(c)
    PROVE  RepliesInv'
<1>p. PICK p : p = pkt[c]
  OBVIOUS
<1>1. p.pc = "policy" /\ UNCHANGED <<svars, ct, evicted, pct>> /\ PacketSound(p)
  BY <1>p DEF EgressPolicy, RepliesInv
<1>2. CASE /\ p.from \in EnforcedOut /\ Denied(AllowOut, p.from, p.t.dst.addr, p.t)
           /\ Step(c, [p EXCEPT !.pc = "dropped"]) /\ UNCHANGED rcvd
  <2>1. Rev(p.t) \notin pct
    BY <1>2 DEF Denied
  <2>2. p.reply /\ ~p.excused /\ Alone(p.flow) =>
           p.flow.dst \in Vips /\ p.flow.src.addr \notin Pods
    BY <1>1, <1>2, <2>1, AnswerAdmitted DEF PacketSound
  <2> QED
    BY <1>p, <1>1, <1>2, <2>2, StageReplies DEF Done
<1>3. CASE p.t.dst.addr = Node /\ Deliver(c, p)
  <2>1. p.t.dst.addr \notin EnforcedOut
    BY <1>3 DEF Topology, PolicyOnPods
  <2> QED
    BY <1>p, <1>1, <1>3, <2>1, DeliverReplies
<1>4. ASSUME NEW s \in {"out", "lost"}, Step(c, [p EXCEPT !.pc = s]), UNCHANGED rcvd
      PROVE  RepliesInv'
  BY <1>p, <1>1, <1>4, StageReplies DEF Done
<1> QED
  BY <1>p, <1>2, <1>3, <1>4 DEF EgressPolicy

LEMMA IngressPolicyReplies ==
    ASSUME Topology, NatInv, RepliesInv, NEW c \in Cpus, IngressPolicy(c)
    PROVE  RepliesInv'
<1>p. PICK p : p = pkt[c]
  OBVIOUS
<1>1. p.pc = "admit" /\ UNCHANGED <<svars, ct, evicted, pct>> /\ PacketSound(p)
  BY <1>p DEF IngressPolicy, RepliesInv
<1>2. CASE /\ p.t.dst.addr \in EnforcedIn /\ Denied(AllowIn, p.t.dst.addr, p.t.src.addr, p.t)
           /\ Step(c, [p EXCEPT !.pc = "dropped"]) /\ UNCHANGED rcvd
  <2>1. Rev(p.t) \notin pct /\ p.t.dst.addr \in Pods
    BY <1>2 DEF Denied, Topology, PolicyOnPods
  <2>2. p.reply => p.excused \/ ~Alone(p.flow)
    BY <1>1, <2>1, AnswerAdmitted DEF PacketSound
  <2> QED
    BY <1>p, <1>1, <1>2, <2>2, StageReplies DEF Done
<1>3. CASE Step(c, [p EXCEPT !.pc = "record"]) /\ UNCHANGED rcvd
  BY <1>p, <1>1, <1>3, StageReplies DEF Done
<1>4. CASE p.t.dst.addr \notin EnforcedOut /\ Deliver(c, p)
  BY <1>p, <1>1, <1>4, DeliverReplies
<1> QED
  BY <1>p, <1>2, <1>3, <1>4 DEF IngressPolicy

LEMMA RecordReplies ==
    ASSUME Topology, NatInv, RepliesInv, NEW c \in Cpus, RecordInbound(c)
    PROVE  RepliesInv'
<1>p. PICK p : p = pkt[c]
  OBVIOUS
<1>1. p.pc = "record" /\ UNCHANGED <<svars, ct, evicted>> /\ pct' = pct \cup {p.t}
      /\ Deliver(c, p)
  BY <1>p DEF RecordInbound
<1> QED
  BY <1>p, <1>1, DeliverReplies

\* An answer that is as it should be finds no row that rewrites it again.
LEMMA RestoredStays ==
    ASSUME Topology, NatInv, RepliesInv, NEW f \in Flows, Alone(f)
    PROVE  Rev(f) \notin DOMAIN ct
<1>1. Traced(f, f)
  BY DEF Traced
<1> QED
  BY <1>1, AnswerRow, AnswersApart

\* A request on its way out that finds a row.
LEMMA RequestRewritten ==
    ASSUME Topology, NatInv, RepliesInv, NEW f \in Flows, NEW t \in DOMAIN ct,
           Shape(t, f), Traced(t, f), ct[t].flag = "snat"
    PROVE  Shape(Rewrite(t, ct[t]), f) /\ Traced(Rewrite(t, ct[t]), f)
<1>1. t \in Flows
  <2>1. ASSUME NEW g \in Flows, NEW e \in CtEntry, Translates(g, e), t = Rev(Rewrite(g, e))
        PROVE  FALSE
    <3>1. PICK u \in Tuple : u = Rewrite(g, e) /\ u.src \in ClientEnds \cup MasqEnds
      BY <2>1, TranslatedFlow
    <3>2. t.dst = u.src
      BY <2>1, <3>1, TupleFields
    <3> QED
      BY <3>1, <3>2 DEF Shape, Topology, EndsApart
  <2> QED
    BY <2>1 DEF RepliesInv, RowSound
<1>2. PICK e \in CtEntry : e = ct[t] /\ Translates(t, e) /\ e.flag = "snat"
  BY <1>1, FlowRow
<1>3. PICK u : u = Rewrite(t, e) /\ u.src = NodeEnd(t) /\ u.dst = t.dst /\ t.src.addr \in Pods
  BY <1>1, <1>2, TranslatedFlow
<1>4. t.src = f.src
  BY <1>1, FlowEnds DEF Shape
<1>5. NodeEnd(t) = NodeEnd(f)
  BY <1>4 DEF NodeEnd
<1>6. Shape(u, f)
  BY <1>3, <1>4, <1>5 DEF Shape
<1>7. ASSUME Alone(f)
      PROVE  Translates(f, e) /\ u = Rewrite(f, e) /\ Recorded(Rev(u))
  <2>1. t = f
    BY <1>1, <1>4, <1>7 DEF Alone, Collides
  <2> QED
    BY <1>1, <1>2, <1>3, <2>1 DEF RepliesInv, FlowsRecorded
<1>8. Traced(u, f)
  BY <1>7 DEF Traced
<1> QED
  BY <1>2, <1>3, <1>6, <1>8

LEMMA ReverseSnatReplies ==
    ASSUME Topology, NatInv, RepliesInv, NEW c \in Cpus, ReverseSnat(c)
    PROVE  RepliesInv'
<1>p. PICK p : p = pkt[c]
  OBVIOUS
<1>1. p \in Pkt /\ p.pc = "out" /\ PacketSound(p) /\ p.t \in Tuple /\ p.flow \in Flows
  BY <1>p DEF ReverseSnat, NatInv, PktSet, RepliesInv
<1> DEFINE hit == p.t \in DOMAIN ct /\ ct[p.t].flag = "snat" /\ p.t.src.addr \notin Ip6
<1>t. PICK t : t = IF hit THEN Rewrite(p.t, ct[p.t]) ELSE p.t
  OBVIOUS
<1>x. PICK z : z = IF p.from = Node /\ ~hit THEN Excuse(p) ELSE p.excused
  OBVIOUS
<1>q. PICK q : q = [p EXCEPT !.pc = "admit", !.t = t, !.excused = z]
  OBVIOUS
<1>2. /\ q.pc = "admit" /\ q.t = t /\ q.flow = p.flow /\ q.reply = p.reply
      /\ q.from = p.from /\ q.excused = z
  BY <1>1, <1>q DEF Pkt
<1>3. UNCHANGED <<svars, ct, evicted, pct, rcvd>> /\ pkt[c].pc # "back"
  BY <1>1, <1>p DEF ReverseSnat, pvars
<1>4. Step(c, q)
  BY <1>p, <1>t, <1>x, <1>q DEF ReverseSnat
<1>5. CASE p.reply
  <2>1. ReplySound(p)
    BY <1>1, <1>5 DEF PacketSound
  <2>2. PICK x \in rcvd : /\ x.flow = p.flow /\ x.t.dst.addr = p.from
                          /\ Fresh(p) => p.t = Rev(x.t)
    BY <2>1 DEF ReplySound
  <2>3. ASSUME ~q.excused, Alone(p.flow) PROVE t = Rev(p.flow)
    <3>1. CASE p.from # Node
      <4>1. ~p.excused
        BY <1>2, <1>x, <2>3, <3>1
      <4>2. p.t = Rev(p.flow)
        BY <1>1, <2>1, <2>3, <3>1, <4>1 DEF ReplySound, Fresh
      <4>3. ~hit
        BY <1>1, <2>3, <4>2, RestoredStays
      <4> QED
        BY <1>t, <4>2, <4>3
    <3>2. CASE p.from = Node
      <4>1. p.t = Rev(x.t) /\ p.t.src.addr = Node
        BY <1>1, <2>2, <3>2, Received, TupleFields DEF Fresh
      <4>2. CASE hit
        BY <1>t, <2>2, <2>3, <4>1, <4>2, AnswerLookup
      <4>3. CASE ~hit
        <5>1. p.t \notin DOMAIN ct
          BY <2>2, <2>3, <3>2, <4>1, <4>3, AnswerLookup DEF Topology, PolicyOnPods
        <5>2. z = Excuse(p)
          BY <1>x, <3>2, <4>3
        <5>3. p.t \notin evicted /\ ~Pending(p.t)
          BY <1>2, <1>5, <2>3, <5>2 DEF Excuse
        <5> QED
          BY <1>t, <2>2, <2>3, <4>1, <4>3, <5>1, <5>3, AnswerLookup
      <4> QED
        BY <4>2, <4>3
    <3> QED
      BY <3>1, <3>2
  <2>4. ReplySound(q)
    BY <1>2, <2>2, <2>3 DEF ReplySound, Fresh, Done
  <2> QED
    BY <1>2, <1>3, <1>4, <1>5, <2>4, QuietStep DEF PacketSound
<1>6. CASE ~p.reply
  <2>1. RequestSound(p)
    BY <1>1, <1>6 DEF PacketSound
  <2>2. Shape(t, p.flow) /\ Traced(t, p.flow)
    <3>1. CASE hit
      BY <1>1, <1>t, <2>1, <3>1, RequestRewritten DEF RequestSound
    <3>2. CASE ~hit
      BY <1>t, <2>1, <3>2 DEF RequestSound
    <3> QED
      BY <3>1, <3>2
  <2>3. RequestSound(q)
    BY <1>1, <1>2, <2>1, <2>2 DEF RequestSound, Looking, Untouched
  <2> QED
    BY <1>2, <1>3, <1>4, <1>6, <2>3, QuietStep DEF PacketSound
<1> QED
  BY <1>5, <1>6

-----------------------------------------------------------------------------
(* The steps of user space, and the theorems.                              *)

LEMMA AskedStep ==
    ASSUME TablesInv, BackendsAsked, SNext
    PROVE  BackendsAsked'
<1>1. backends = [k \in SlotKey |-> backends[k]]
  BY DEF TablesInv, ServicesTypeOK
<1>2. CASE InsertBackend
  <2>1. PICK r \in Requests : call.backends = r.backends
    BY <1>2 DEF InsertBackend, TablesInv, IdsRequested
  <2>2. call \in AddCall
    BY <1>2, CallKinds DEF InsertBackend, TablesInv
  <2>3. call.slot + 1 \in DOMAIN r.backends
    BY <1>2, <2>1, <2>2 DEF InsertBackend, AddCall
  <2>4. call.backends[call.slot + 1] \in BackendEnds
    BY <2>1, <2>3 DEF BackendEnds, Range
  <2> QED
    BY <1>1, <1>2, <2>4 DEF InsertBackend, BackendsAsked
<1>3. CASE RemoveStale
  BY <1>1, <1>3 DEF RemoveStale, BackendsAsked
<1>4. CASE RemoveService
  BY <1>1, <1>4 DEF RemoveService, BackendsAsked
<1>5. CASE backends' = backends
  BY <1>5 DEF BackendsAsked
<1> QED
  BY <1>2, <1>3, <1>4, <1>5 DEF SNext, ServiceAdd, InsertFails, ServiceDel

LEMMA ControlReplies ==
    ASSUME NatInv, RepliesInv, ControlStep
    PROVE  RepliesInv'
<1>1. SNext /\ UNCHANGED <<ct, evicted, pct, rcvd>>
  BY DEF ControlStep, pvars
<1>2. BackendsAsked'
  BY <1>1, AskedStep DEF NatInv, RepliesInv
<1>3. ASSUME NEW d \in Cpus, NEW p, p = pkt[d]
      PROVE  \E q : /\ q = pkt'[d] /\ Same(q, p) /\ q.pc = p.pc
                    /\ q.flag = p.flag /\ q.be = p.be
  <2>1. p \in Pkt
    BY <1>3 DEF NatInv, PktSet
  <2>2. CASE ~Looking(p)
    BY <1>3, <2>2 DEF ControlStep, Looking, Same
  <2>3. CASE Looking(p)
    <3>1. PICK S, b : pkt'[d] = [p EXCEPT !.seen = S, !.steady = b]
      BY <1>3, <2>3 DEF ControlStep, Looking
    <3>2. PICK q : q = [p EXCEPT !.seen = S, !.steady = b]
      OBVIOUS
    <3>3. Same(q, p) /\ q.pc = p.pc /\ q.flag = p.flag /\ q.be = p.be
      BY <2>1, <3>2 DEF Pkt, Same
    <3> QED
      BY <3>1, <3>2, <3>3
  <2> QED
    BY <2>2, <2>3
<1>4. Keeps
  <2>1. ASSUME NEW k, Pending(k) PROVE Pending(k)'
    <3>1. PICK d \in Cpus : pkt[d].pc = "back" /\ BackKey(pkt[d]) = k
      BY <2>1 DEF Pending
    <3>2. pkt'[d] = pkt[d]
      BY <3>1 DEF ControlStep
    <3>3. pkt'[d].pc = "back" /\ BackKey(pkt'[d]) = k
      BY <3>1, <3>2
    <3> QED
      BY <3>3 DEF Pending, BackKey, Rev, Rewrite, Forward
  <2> QED
    BY <1>1, <2>1 DEF Keeps, Recorded
<1>5. FlowsRecorded' /\ \A k \in DOMAIN ct' : RowSound(k)'
  BY <1>1, <1>4, RowsKept
<1>6. ASSUME NEW x \in rcvd' PROVE RcvdSound(x)'
  <2>1. RcvdSound(x)
    BY <1>1, <1>6 DEF RepliesInv
  <2> QED
    BY <1>1, <1>4, <2>1, RcvdKept
<1>7. ASSUME NEW d \in Cpus PROVE PacketSound(pkt[d])'
  <2>p. PICK p : p = pkt[d]
    OBVIOUS
  <2>1. PICK q : /\ q = pkt'[d] /\ Same(q, p) /\ q.pc = p.pc /\ q.flag = p.flag /\ q.be = p.be
    BY <1>3, <2>p
  <2>2. PacketSound(p)
    BY <2>p DEF RepliesInv
  <2>3. PacketSound(q)
    BY <2>1, <2>2 DEF PacketSound, RequestSound, ReplySound, Same, Fresh, Looking, Forward
  <2>4. PacketSound(q)'
    BY <1>1, <1>4, <2>3, PacketKept
  <2> QED
    BY <2>1, <2>4 DEF PacketSound, RequestSound, ReplySound, Fresh, Looking, Forward, Shape
<1> QED
  BY <1>2, <1>5, <1>6, <1>7 DEF RepliesInv

\* A step that no row and no packet notices.
LEMMA UnseenReplies ==
    ASSUME RepliesInv, UNCHANGED <<svars, ct, evicted, pct, rcvd, pkt>>
    PROVE  RepliesInv'
<1>1. Keeps
  BY DEF Keeps, Recorded, Pending
<1>2. FlowsRecorded' /\ \A k \in DOMAIN ct' : RowSound(k)'
  BY <1>1, RowsKept
<1>3. ASSUME NEW x \in rcvd' PROVE RcvdSound(x)'
  <2>1. RcvdSound(x)
    BY <1>3 DEF RepliesInv
  <2> QED
    BY <1>1, <2>1, RcvdKept
<1>4. ASSUME NEW d \in Cpus PROVE PacketSound(pkt[d])'
  <2>p. PICK p : p = pkt[d] /\ p = pkt'[d]
    OBVIOUS
  <2>1. PacketSound(p)'
    BY <1>1, <2>p, PacketKept DEF RepliesInv
  <2> QED
    BY <2>p, <2>1 DEF PacketSound, RequestSound, ReplySound, Fresh, Looking, Forward, Shape
<1>5. BackendsAsked'
  BY DEF RepliesInv, BackendsAsked, svars
<1> QED
  BY <1>2, <1>3, <1>4, <1>5 DEF RepliesInv

LEMMA RepliesInit ==
    ASSUME NInit
    PROVE  RepliesInv
<1>1. DOMAIN ct = {} /\ rcvd = {}
  BY DEF NInit
<1>2. \A c \in Cpus : PacketSound(pkt[c])
  BY BlankPkt DEF NInit, PacketSound
<1>3. BackendsAsked
  BY DEF NInit, SInit, BackendsAsked
<1> QED
  BY <1>1, <1>2, <1>3 DEF RepliesInv, FlowsRecorded

LEMMA RepliesStep ==
    ASSUME Topology, NatInv, RepliesInv, [NNext]_nvars
    PROVE  RepliesInv'
<1>1. CASE ControlStep
  BY <1>1, ControlReplies
<1>2. CASE AffinityExpire \/ UNCHANGED nvars
  BY <1>2, UnseenReplies DEF AffinityExpire, nvars, pvars
<1>3. ASSUME NEW c \in Cpus, PacketStep(c) PROVE RepliesInv'
  BY <1>3, SendReplies, AnswerReplies, TrackReplies, CtLookupReplies, SvcLookupReplies,
     AffinityReplies, BackendReplies, ForwardReplies, BackReplies, EgressPolicyReplies,
     ReverseSnatReplies, IngressPolicyReplies, RecordReplies
     DEF PacketStep
<1> QED
  BY <1>1, <1>2, <1>3 DEF NNext

LEMMA RepliesImply ==
    ASSUME Topology, NatInv, RepliesInv
    PROVE  Paired /\ RepliesRestored /\ RepliesPass
<1>1. Paired
  <2>1. ASSUME NEW k \in DOMAIN ct \cap Flows, Alone(k), NEW back,
               back = Rev(Rewrite(k, ct[k]))
        PROVE  \/ back \in evicted \/ Pending(back)
               \/ back \in DOMAIN ct /\ Rewrite(back, ct[back]) = Rev(k)
    <3>1. ct[k] \in CtEntry /\ Translates(k, ct[k])
      BY FlowRow
    <3>2. PICK t : t = Rewrite(k, ct[k])
      OBVIOUS
    <3>3. Recorded(Rev(t))
      BY <3>2 DEF RepliesInv, FlowsRecorded
    <3>4. Traced(t, k)
      BY <3>1, <3>2, <3>3 DEF Traced
    <3> QED
      BY <2>1, <3>2, <3>3, <3>4, AnswerRow DEF Recorded
  <2> QED
    BY <2>1 DEF Paired
<1>2. ASSUME NEW c \in Cpus, NEW p, p = pkt[c], p.pc \in {"delivered", "dropped"}, p.reply,
             ~p.excused, Alone(p.flow)
      PROVE  /\ p.t = Rev(p.flow)
             /\ p.pc = "dropped" => p.flow.dst \in Vips /\ p.flow.src.addr \notin Pods
  BY <1>2 DEF RepliesInv, PacketSound, ReplySound, Fresh
<1> QED
  BY <1>1, <1>2 DEF RepliesRestored, RepliesPass

\* InsertForward, InsertBack and the LRU: a flow that CT translates has the
\* row of its answers, which undoes it, or that row was evicted or is about
\* to be inserted (Paired), whatever the flows, the CPUs and the size of CT.
THEOREM RowsArePaired ==
    ASSUME OwnIds, Topology
    PROVE  NSpec => []Paired
<1>1. NInit => NatInv /\ RepliesInv
  BY NatInit, RepliesInit
<1>2. NatInv /\ RepliesInv /\ [NNext]_nvars => NatInv' /\ RepliesInv'
  BY NatStep, RepliesStep
<1>3. NatInv /\ RepliesInv => Paired
  BY RepliesImply
<1> QED
  BY <1>1, <1>2, <1>3, PTL DEF NSpec

\* l4_nat, masq_v4 and egress_reverse_snat together: what a client receives
\* in answer to a flow comes from the end it addressed (RepliesRestored).
THEOREM AnswersAreRestored ==
    ASSUME OwnIds, Topology
    PROVE  NSpec => []RepliesRestored
<1>1. NInit => NatInv /\ RepliesInv
  BY NatInit, RepliesInit
<1>2. NatInv /\ RepliesInv /\ [NNext]_nvars => NatInv' /\ RepliesInv'
  BY NatStep, RepliesStep
<1>3. NatInv /\ RepliesInv => RepliesRestored
  BY RepliesImply
<1> QED
  BY <1>1, <1>2, <1>3, PTL DEF NSpec

\* pct_track and ingress_policy against the policy checks of both hooks:
\* network policy drops no answer to what it admitted (RepliesPass).
THEOREM AnswersPass ==
    ASSUME OwnIds, Topology
    PROVE  NSpec => []RepliesPass
<1>1. NInit => NatInv /\ RepliesInv
  BY NatInit, RepliesInit
<1>2. NatInv /\ RepliesInv /\ [NNext]_nvars => NatInv' /\ RepliesInv'
  BY NatStep, RepliesStep
<1>3. NatInv /\ RepliesInv => RepliesPass
  BY RepliesImply
<1> QED
  BY <1>1, <1>2, <1>3, PTL DEF NSpec
=============================================================================
