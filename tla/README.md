# Formal models of cradle

TLA+ models of the core protocols of cradle, an eBPF datapath (TC and XDP
programs, `crates/cradle-ebpf`) with a user-space daemon that programs it
(`crates/cradle`), a CNI plugin (`crates/cradle-cni`) and a Kubernetes agent
(`crates/cradle-k8s`). Paths below are relative to `src/`.

The hard part of the system is always the same: user space changes several BPF
maps by separate updates, under one mutex, while packets on other CPUs read the
maps without any lock; and state that must agree is spread over maps that die
with the daemon, files and kernel objects that do not, and short processes that
can be killed. On top of that, what a packet meets on its way through several
nodes is decided by tables that many calls fill in any order. The models cover
both, one component at a time, and abstract from packet layouts, addresses and
wire formats.

## 1. Inventory

| component | state | operations | what is hard | what makes it correct |
|---|---|---|---|---|
| DIR-24-8 FIB engine (`cradle/src/dir24.rs`, applied by `dataplane.rs`) | shadow routes, `long_count`, `groups`, free list, quarantine; arrays TBL24, TBL8, DEFAULT4 | `route_add`, `route_del`, `route_add_bulk`, `dir24_apply` | a plan of single-word stores under lock-free lookups; recycling of groups; capacity checked before, allocation after | every address shows its old or its new longest match; groups neither leak nor have two owners |
| IPv4 lookup (`cradle-ebpf/src/main.rs`, `fib4_lookup`) | three loads on a CPU | one lookup per packet | updates between the loads | a lookup answers as before or after the update it overlaps |
| Endpoint policy (`dataplane.rs`, `endpoint_policy_set`) | POLICY rows, EP_POLICY word per endpoint | replace, remove | up to 65536 rows replaced under traffic; full maps | one whole request is in force at any time |
| Policy verdict (`ingress_policy`, `policy_denied`) | six probes of one packet | judge | the generation swept under the probes; precedence | the verdict is what the request means |
| Policy conntrack (`PCT`) | LRU of admitted flows | admit, reply bypass | eviction; policy enabled between request and reply | replies of admitted flows pass |
| Pod IPAM and endpoints (`cradle/src/cni.rs`, `control.rs` `cni_*`, `cradle-cni`) | `ipam.json`, endpoint records, veth pairs, kernel routes, FIB, PORTS, attached programs | ADD, DEL, GC, CHECK, restart reconcile | killed plugins, crashes between two writes, retries, DEL while the daemon is away | a running pod keeps its address and its traffic; nothing is left behind |
| L2 forwarding database (`dataplane.rs` `fdb_*`, learning in the datapath, `watch_fdb`) | FDB rows, ages, watch cursor, move hints | learn, age, flush, remote add/del, report | learning races control-plane changes; a flip undone before the poll sees it | traffic follows a station that has moved |
| L4 services (`dataplane.rs` `service_add`, `service_del`) | SERVICES, BACKENDS | add/replace, delete | a count row and one row per slot, changed one by one under readers; a full map half-way; ids chosen by the callers | the slots of a service are the backends last asked for, and nothing else |
| Slot arrays: next-hop groups, L2 members, ES groups | a count row and one row per slot | set, add, remove | count and slots are separate updates | no packet selects a slot that is not there |
| L4 NAT, conntrack, masquerade (`l4_nat_v4/v6`, `masq_v4`, `cradle_egress`) | CT pairs, AFFINITY | translate, reply | two CPUs open one flow; an LRU evicts one of two rows; backends change between two loads | a new flow goes to a backend of its service; answers come back from the address the client used |
| BFD echo and detection (`bfd_echo.rs`, `cradle-ebpf/src/bfd.rs`) | sessions, reference counts, detect timers, report latch | arm, disarm, originate, kick, time out, mark down, poll | two calls in opposite order over maps and a channel; a row written back over a live timer | a session keeps its address; reports settle on what is true |
| EVPN multihoming, E-Tree (`control.rs`, `flood`, `l2_switch`, `l2_evpn_xdp`) | Ethernet segments, leaf ports, slot groups, replication slots; ES_DF, PORT_ES, VTEP_ES, ES_NHG, SLOT_ES, PORT_ETREE | set/del of segments, roles, peers, groups, leaves, slots, marks | rows derived in six maps by calls in any order over four locks | every customer hears a frame once; leaves never hear leaves |
| SRv6, MPLS, GTP-U and VXLAN (`cradle-ebpf/src/main.rs`, XDP and TC stages) | local SIDs, labels, next hops, tunnels, VRF tables; metadata between the stages | endpoint behaviours, encapsulation, decapsulation, failover | header stacks of several tunnels; compressed segment lists; VRF scope carried from stage to stage; a link that fails on the way | segments in order, the packet delivered as sent, in its VRF |
| Ports and the link monitor (`control.rs` `attach`, `set_port`, `del_port`) | attached programs, derived routes, LAG aliases | set, del, link events | a device deleted or renamed between steps | what a port derived is removed with it |
| Kubernetes agent (`cradle-k8s`) | identities, endpoints, compiled rules | watch, resync, publish | stale caches, ordering of watches | the rules installed are those of the policies that select the pod |
| L7 proxy, Hubble export, configuration, CLI, kernel interface, benchmarks | | | | mostly I/O; see `PROJECT.json` for what is left out and why |

Components share one dataplane mutex (`Control.dp`). Calls that take other locks
take them before it (`attached`, `cni`, `es`, `etree`, then `dp`). The daemon serves gRPC
requests concurrently; a request whose client goes away is dropped at its next
`await`. Packets share only the maps.

## 2. Plan

Order: what packets depend on first.

1. **Fib4, FibView, Dir24, Dir24Readers**: the FIB engine, its abstract
   specification, and lookups concurrent with it. Done; refinement and lookups proved.
2. **Policy, PolicyReaders**: generation flip and verdicts. Done; both proved.
3. **Cni**: addresses and endpoints over crashes. Done for one family; all its
   safety properties proved. Left: hostPort services, the cilium-agent shim, the second
   family, a handler that outlives its killed plugin for a while.
4. **Services, Nat**: services, NAT, conntrack, affinity, masquerade and the
   policy conntrack. Done; all safety properties proved. Left: eviction
   from the policy conntrack, the L7 redirect.
5. **Packets, Srv6, Tunnels, Fabric**: the tunnelling datapath of one node, and
   several nodes in a row. Done; the form of header stacks proved, the rest model-checked.
6. **Bridge, Segments, Overlay**: bridging, multihoming and E-Tree, and the
   control calls that program them. Done; leaf marks, segment ids and leaf ports proved, the rest model-checked.
7. **Mobility**: one station over learning, aging, remote entries, the stream.
   Done, model-checked.
8. **Bfd**: sessions, detectors, reports. Done; addresses proved, reports model-checked.
9. Proof left: `SlotRowsOwned` in Overlay, that the rows of slots are those of the slots once the calls are over.
   The proof of leaf marks has most of what it needs. What holds of the rows of segments and leaves
   at every moment is proved (`IdsInUse`, `LeafRows`).
10. Left to model: slots of next-hop groups and ES groups under readers in
    mid-update; ports and the link monitor; VNI and E-Line programming; the
    Kubernetes agent's rule compilation against a reference definition.

## 3. Modules

| module | models | notes |
|---|---|---|
| `Fib4` | prefixes, route sets, packed words | addresses are pairs (block, low) of `BlkBits` and `LowBits` bits, 24 and 8 in the code |
| `FibView` | abstract: what a FIB promises a packet | extended by nobody, instantiated by `Dir24` |
| `Dir24` | the engine and the arrays | one action per call, per block of `sync_block`, per stored word |
| `Dir24Readers` | `fib4_lookup` | one action per load |
| `Dir24Proofs`, `Dir24ReadersProofs` | proofs | lemmas on routes and words, types and pool, the refinement; lookups |
| `Policy` | `endpoint_policy_set` | one action per map operation; a full map fails the call |
| `PolicyReaders` | `ingress_policy`, egress check, `policy_denied` | one action per probe |
| `PolicyProofs` | proofs | of `Policy`, then of packets |
| `Cni` | plugin, allocator, store, daemon, kernel | steps end where the code awaits a lock or another process |
| `CniProofs` | proofs | |
| `Services` | `service_add`, `service_del` | one action per map operation; BACKENDS may be full |
| `Nat` | packets through `cradle_tc` and `cradle_egress` | one action per access to a shared map |
| `NatProofs` | proofs | tables and choice of backend; answers |
| `Packets` | header stacks, XDP metadata, verdicts | operators only; a packet is the sequence of its headers, outermost first |
| `Srv6` | `try_srv6_xdp` and what it calls, `apply_hencap`, `srv6_insert` | one operator per behaviour |
| `Tunnels` | MPLS, GTP-U, VXLAN, the L2 encapsulations | one operator per function |
| `Fabric` | `try_xdp`, `try_main`, `l3_forward_v4/v6`, on several nodes with links | one action per stage of a packet |
| `FabricProofs` | proofs | one lemma per operator of `Srv6`, `Tunnels` and `Fabric` |
| `Bridge` | `l2_switch`, `flood`, `l2_evpn_xdp` | operators over a node's tables |
| `Segments` | the control calls' effect on tables and cached state | operators; one per call |
| `Overlay` | the calls in any order, their sections interleaved; broadcast and unicast over the result | one action per section of a call |
| `OverlayProofs` | proofs | marks of remote nodes against slots that come and go; rows of segments and leaves against the calls that render them |
| `Mobility` | one station, learned and reported by several nodes | one action per map access of a call, per step of the stream |
| `Bfd` | arm and disarm, originator, detectors, `watch_bfd` | one action per section of the lock, per write of the XDP program |
| `BfdProofs` | proofs | |
| `MC*` | instances for TLC | |

**Dir24.** A call runs in three phases: change the shadow, recompute each affected
/24 into a plan, store the plan. The mutex is the guard `Idle` on new calls. Nexthop
ids are masked to `IdSpace` as `fibw_entry` does with 26 bits; `NexthopIds = {1, 6}`
with `IdSpace = 4` makes that visible. `Lookup`, the oracle of the unit tests, is
the reference definition. Names follow the code: `long_count` is `longCount`,
`tbl8_free` is `PoolSize`.

**Policy.** `SetPolicy`, `InsertRule`..., `Flip`, `SweepRow` are the map operations of
one call; `failed` is the history of endpoints with a call that failed half
way. `RowsIn` reads the rows of one endpoint and generation. A packet (module
`PolicyReaders`) loads the flags, then probes the six patterns of `POLICY_PATS`.

**Cni.** A pod is a `(container, ifname)` pair; `plug[p]` is the step its plugin
(with the daemon handler that serves it) has reached. `ipam` and `rec` are files,
`veth` and `kroute` kernel state, `fib`, `ports`, `attached` die with the daemon.
Calls for one pod are serialised by the runtime; calls for different pods
interleave. `CreateEndpoint` is three steps (port, routes, record) because it
takes three locks one after the other; `DeleteEndpoint` keeps the store's lock
throughout (`CniFree`). A killed plugin drops its handler at once. Interface indexes are not
reused. `Faults` selects which faults an instance has.

**Services, Nat.** `call` is the call that holds the dataplane mutex and the slot it
has reached. A packet on CPU `c` is the record `pkt[c]`: `t` is its 5-tuple as it
is rewritten (ports and addresses as model data, one protocol), `flow` the
tuple its client opened. It goes through the stages of `try_main` in order:
`Track` (PCT), `CtLookup`, `SvcLookup`, affinity, `BackendLookup`, `InsertForward`,
`InsertBack`, `EgressPolicy`; then `ReverseSnat`, `IngressPolicy` and `RecordInbound` of
`cradle_egress`. A packet of the node's own stack starts at `ReverseSnat`. The random
backend is any slot below the count. When CT is full an insert evicts any row;
`evicted` remembers it, so that properties can tell a lost row from one that was
never right. The fields `seen`, `steady` and `hole` are history: what the service
was asked to have between the packet's two loads. Rules do not change here and are sets of allowed pairs.
`Topology` collects what the answers rely on: clients use ports that are no server's (`EndsApart`), the ranges
the agent excludes from masquerade have the pods, the services and the fabric, clients included (`ClusterKept`; `config.rs:104`,
`docs/design/kube-proxy-dualstack.md:58`), and policy is enforced on pods (`PolicyOnPods`).

**Packets, Srv6, Tunnels, Fabric.** A header is a record (`Ip`, `Lse`, `Gtp`, `Vxlan`,
`Eth`), an address a sequence of `AddrLen` units, so that a micro-SID carrier, a
REPLACE-C-SID container and a prefix are what they are in the code: positions
in an address. A node's tables are one record `t`. An operator of `Srv6` or `Tunnels` maps
tables and a header stack to a verdict: pass with metadata, send to a neighbour,
drop, punt. `Fabric` runs the stages in their order: the XDP program, then TC with the metadata
it left, which carries the VRF, then the link to the next node. Links are cut at any moment and noticed
later (`LINK_DOWN`). A scenario is tables, a packet, the segment paths the operator
asked for (`paths`), and what must come out where (`out`, `sure`).
A SID of the same node that a decapsulation exposes is left to the kernel (`l3_forward_v6` passes it
up), so paths do not have two consecutive SIDs of one node.

**Bridge, Segments, Overlay.** A node is its tables `t` and what the daemon caches, `c`
(segments, roles, leaves, slot groups). `Overlay` first makes the scenario's setup
calls in order, then its other calls in any order; a call that takes several locks one after
the other (`add_repl_slot_auto_keyed`, `del_repl_slot_auto`, `set_etree_remote`,
`add_fdb_remote_es`) is a record in `busy` and interleaves with others at those points.
Packets are not steps here: `Copies` computes where a frame goes over the tables of
all nodes, with one overlay hop. Abstractions: one bridge domain; free segment ids
are derived from the segments; `es_render` is one step. A map has room for `t.cap` rows of this domain, since
the rest of the node uses the same maps: a call that finds one full ends there, with what it has
written until then. Rows of one map are inserted in an order that the model leaves open (CHOOSE), as are
the ids that the segments of a slot group get when they are made together (`slot_group_rows`); the lowest free
ones go first. `REPL_SID`, `L2_MEMBERS`, `FDB`, `ES_NHG_MEMBER`, `LEAF_LABEL` and `LEAF_ARG` always have room.
The history fields `lostPorts`, `lostPeers` and `unmarked` of `c` name what calls that failed on a full map left:
rows that their segment no longer remembers, and leaf ports without a row. The kernel makes a device, or makes it again with another
ifindex, in a step of its own (`Device`), before or after the calls that name it.

**Mobility.** `fdb[n]` is a node's entry for the station: a port, a remote node, or none.
`AddFdbRemote` and `DelFdbRemote` are a read and a write with the datapath's learning
between them; a displaced local entry puts a hint in a bounded channel, which all stations share, so that a hint
may be lost before it is read (`Lag`). The BGP daemon is external, modelled
from the events it reads and the calls it makes: it handles one event at a time, delivers
the latest state of a route, and uses the mobility sequence number (one above the highest heard;
the lower node wins a tie). Ageing is on or off (`ages`); when it is on, an entry that the station no longer
refreshes ages at any time, and in the end. `lost` is history: a hint was lost where ageing is off.

**Bfd.** `timers` holds both detector maps. A kick is three steps (find the row, clear its flags,
start the timer); what it writes to a row that was replaced meanwhile is lost. Marking a
session down is a read and a write. Time is abstract: a timer runs out only while the path is
dead, a bootstrap window ends at any moment after it began. Polling both maps is one step.
Reference counts do not overflow. The sessions are some of those in ECHO_TIMERS, so a new row may find it
full at any moment; OUR_LOCAL_IPS, which is as large, is not. `Setups` says which sessions an instance's daemon uses.

## 4. Runs

| run | asks | bounds |
|---|---|---|
| `dir24` | types, exact counts, no leaked group, pool ownership, capacity check sufficient, every prefix of a plan safe, refinement of `FibView`, calls complete | 4 blocks of 2 addresses, 2 groups for 3 competing blocks, quarantine of 1, batches of 2, nested short and long routes |
| `dir24_readers` | what a lookup finds across any number of updates; a lookup across one update is atomic; what the quarantine guarantees | 2 blocks that take 2 groups from one another, a default route, quarantine of 1 |
| `policy` | flip atomic, nothing orphaned, verdict of packets not overtaken by a sweep | 2 endpoints for 1 row of EP_POLICY, 4 rows of POLICY: both maps fill up; 1 reader, rules of every shape, denies above and below allows |
| `cni` | addresses kept, running pods reachable, routes follow owners | 3 pods, 2 addresses, 2 port rows, 2 veth pairs per pod, 1 crash, kills anywhere |
| `cni_collect` | records of dead pods are collected in the end | 3 pods, 1 address, 1 crash at any point, torn deletes, lost replies, late failures |
| `cni_torn` | finding | 3 pods, 2 addresses; a crash inside a delete |
| `nat` | tables exact, answers restored, answers pass policy | 1 CPU, 2 services of up to 2 backends (a pod, the node), 3 flows (service, masqueraded, IPv6), a CT of 3 rows |
| `nat_race` | choice of backend, rows of a flow match | 2 symmetric CPUs, 1 flow, a CT of 2 rows, affinity on and off |
| `fabric` | segments in order, delivery, well-formed stacks, arrival | 4 nodes in a ring; classic lists, uSIDs and REPLACE-C-SIDs of up to 3 and 6 stops over two nodes, binding and mirror SIDs, insertion around a cut link, L3VPN over MPLS (php, uhp, nested), GTP-U and VXLAN, E-Lines, replication, ECMP, End.T, XDP-only nodes |
| `overlay` | broadcast and unicast once, leaves kept apart, slot rows owned, rows of segments remembered, leaf ports exact | 3 nodes, up to 4 customers, at nodes that forward for the shared segment and at one that does not, one domain; multihoming over VXLAN, SRv6 and MPLS, single-active, E-Trees with marks, leaf labels, leaf arguments and root-only groups, static slots, a segment given up, ids given again until none is left while devices come back, the slots of a group removed, marks that race the removal of their slot, maps with room for one or two rows |
| `mobility` | traffic follows the station | 2 nodes with a port each, 2 moves (away and back), ageing on and off, a hint channel of 1 that loses hints, a stream of 1 event |
| `bfd` | addresses held, reports settle | 2 Echo sessions that share an address, or an Echo session and a control watchdog; ECHO_TIMERS full at any moment; 3 calls, 1 flap either way |

The bounds let each resource run out (groups, map rows, addresses, ports) and let
every pair of operations interleave. Pods are symmetric except in the liveness run.
One reader is enough for lookups and verdicts, which do not write; packets
that are translated do, so `nat_race` has two. A CT smaller than the rows of the
flows evicts each of them at every moment. In `fabric` the walks over two nodes
contain every transition between behaviours, and a longer REPLACE-C-SID walk
crosses from one container to the next. In `overlay` a third node is needed
for a remote that sees both members of a segment. Three BFD calls are two arms and a
disarm of one address, or arm, disarm, arm of one session; the run may stop when its
calls are used up, so deadlock is not checked there. `mobility` is the longest run (35,543 states, two to three minutes, for
its liveness); the others take from seconds to a minute or two.

**Fairness.** `Dir24!FairSpec`: the thread that holds the dataplane mutex keeps
executing its call (`BulkNext`, `SyncBlock`, `ApplyWrite`); callers are not assumed
to call. `Cni!FairSpec`: the supervisor restarts a dead daemon and the
reconcile, a loop over a finite list, runs on; a DEL or GC that has begun goes
on (its plugin is not killed in that run, and the store's lock is a FIFO mutex);
and the runtime goes on asking for GC, on which the code itself relies
(`cmd_del`: "GC reconciles the rest later"). ADD is not assumed to make progress.
`Fabric`: a packet in flight is processed (`Processed`, weak fairness of the three
stages with its enabling condition written out). `Mobility`: the station keeps sending; a
call or sweep that has begun runs on; where ageing is on, its sweep comes again and again (`start_fdb_aging`); the watch task, its hint channel and the
daemon get their turn again and again (strong fairness: tokio's mutex and
channels are FIFO, and `select!` takes its ready arms at random). `Bfd`: the same for
the originator, the poll and calls that wait for the lock; packets come while the path works,
timers run out while it does not.

## 5. Findings

One is a run that TLC violates; `PROJECT.json` quotes the line it contradicts.

- `cni_torn`: a crash inside a delete lets a repeated DEL free another pod's address.

Shown by TLC on these models, with a property stronger than the one that is checked, without a run of their own:

- the sweep after a policy flip races packets that loaded the old word, and drops
  what both policies allow (`dataplane.rs:868`; the comment at `:833` says packets
  never observe a half-replaced table);
- an inbound service flow is recorded for policy after translation, its answer
  looked up after it has been undone; the answer of an egress-enforced backend to
  an outside client is dropped (`RepliesPass` states what holds; `docs/design/policy.md:71`
  says such replies bypass the rules);
- uniform TTL: a pop that exposes another label does not copy the popped TTL into it
  (`pop_and_forward` does so only for IP, and the loop of `try_mpls_xdp` not at all), so under a service label the hops of the
  transport are not counted, which `docs/design/mpls-ttl-propagation.md:56-60` says they are. The `fabric` run
  fixes what the code does: a uniform LSP costs its hops when its label is popped to IP, and one over a VPN label;
- End.DX4 lowers no TTL, "ingress did it" (`cradle-ebpf/src/main.rs:5159-5160`), and neither did the ingress of the
  run's scenarios: such a packet is charged by nobody;
- a broadcast of a customer with one attachment, at a node that is not the forwarder of a segment, never reaches
  the segment's customer over VXLAN or SRv6. `flood` withholds it at that node (`main.rs:1143`), and the forwarder drops
  the copy because "that peer PE already delivered the frame" (`main.rs:1149`, `1059-1063`; `proto/cradle.proto:116`).
  `Withheld` names the case and `BroadcastOnce` asks for no copy there; over MPLS, with ESI labels, it does not occur;
- replication slots toward a peer that shares a segment are not withheld, the
  receiver filters (`proto/cradle.proto:116-118` and `lib.rs:210-213` against `flood`);
- `SetL2Domain` replaces the flood list, the slots the daemon added itself included;
- a BFD session re-armed and down again between two polls is not reported a second
  time (`control.rs:4559-4562` says it is), nor is a control watchdog armed over a dead path; `Settles` asks
  for neither;
- an `es_render` that finds ES_DF, PORT_ES or VTEP_ES full returns after it has drained the list of the rows it
  had written and before it has listed the new ones (`control.rs:1353-1388`): the rows that are in stay when the segment is
  deleted and its id is given to another (the exception of `IdsInUse`);
- a `set_etree_remote` that fails at the slot's row leaves the decap mark in VTEP_ETREE, and a slot made before the
  cached mark is undone keeps a roots-only row, although the comment says a cached mark is one the
  datapath holds (`control.rs:1472-1475`); one that has found its slot and is overtaken by the slot's removal
  writes the row of a slot that is gone (both are exceptions of `SlotRowsOwned`);
- with ageing off, a station that leaves and comes back between two polls, and whose hint is lost, is sent to where it
  was for ever (the exception of `Follows`). With ageing on this heals when the other node's entry ages.

Read in the code while modelling the tunnels and overlays: End.DX does not lower the inner TTL
although a comment says that ingress did; a GTP PDR with VRF 0 means the port's VRF, not the
global table; an H.Insert of six segments makes a routing header that `pop_srh` and End.DT refuse;
deleting a segment frees its id while SLOT_ES rows and FDB entries may keep it (`IdsInUse` does not speak of these);
`es_render` opens a window without filters; a VXLAN member of an unbound domain makes later
renders of its segment fail; the check that a domain has no BUM sentinel and the addition of a slot are
separate sections; concurrent `set_etree_remote` calls can leave cache and datapath different;
a segment port re-created with a new index keeps rows under the old one until its segment is rendered again;
an automatic slot whose restriction fails (`control.rs:2068`) keeps its target and veth pair and is in no registry,
and one whose group cannot be rendered at its removal keeps its target;
concurrent arm and disarm of a BFD session can leave a transmitter without a detector;
`vni_del` removes the reverse entry of whichever VNI has the domain now; deleting one VLAN-scoped E-Line
removes the SID its table shares with others; `nexthop_group_set` publishes the count first and keeps old slots.

Seen while modelling the rest: with an empty free list a
group leaves quarantine at once (`GracePeriod` states what is left of the grace
period; `dir24.rs:321` concedes it); `POLICY_PATS` has no probe for a port with any
protocol, so such a rule never matches; an ADD that fails after `CreateEndpoint`
is rolled back without its record and FIB route (`LateFailure`; `cmd_add` says a
failed ADD leaves nothing behind); an address allocated by an ADD that is killed
before its record is written is given back by neither DEL nor GC; DEL leaves the
PORTS row its ADD made; a policy replacement that fails half-way leaves rows under
the inactive generation, which the next one activates; of a deny and an allow
rule with one key the later is kept; `ctl` and the configuration file number
services from 1, so two of them overwrite each other's backends, and a VIP
added again under another id strands the old slots; a reverse CT row that is
evicted is not made again while the forward row lives; masquerade keeps the
source port, so two pods with one port and one destination share a row (`Collides`);
an outside client that is not in NON_MASQ: a second packet of its service flow, answered between the two inserts
of the first, has its answer masqueraded, and the answer's forward row overwrites the reverse row just inserted
(`Paired` fails without `ClusterKept`); affinity remembers a slot, so a changed backend set moves clients; the egress
hook translates IPv4 only.

## 6. Proofs

All are checked by TLAPS for every value of the constants that satisfies the
named assumptions (sizes are naturals, inputs are in their types, the pool fits
the ids).

- **Dir24Proofs.** The lemmas on routes, words and finite pools; `TypesAndCounts` (types with `LongCountExact`,
  which types alone do not give), `Dir24TypesHold`, `PoolIsSound`; `PlanIsSound`, `NoGroupLeaks`,
  `CapacityHolds`, and `Refinement`: `Spec => ImplementsFibView`. The inductive invariant is `PlanInv` with
  `PoolSound`: a block that is not pending is either right in the arrays or put
  right by the rest of the plan; in the plan the fill of a group precedes the flip
  to it; a TBL24 word names its block's own group or one nobody owns. Without the
  last part a store into a recycled group could show through another block.
- **Dir24ReadersProofs.** `GraceHolds`, `SlotsRegular`, `LookupsAtomic`, for any number of lookups.
  Beside the engine's invariants (`EngineFacts`) this needs where the running call came from (`PrevSound`:
  every address resolves to the word before or after the call, and a single-route call changes the
  default route or the rest, not both) and, per lookup, which groups it may still meet and
  which words it may still find (`ReadersSound`). A group leaves a block for the end of the quarantine
  (`StaleLast`), from where it takes a whole quarantine of releases, or an exhausted pool, to reach another.
- **PolicyProofs.** `TypesHold`, `FlipIsAtomic`, `InactiveIsSound`, `NothingLeaks`. `FlipAtomic`
  speaks of the active generation; what makes it inductive is `InactiveSound`,
  what the other generation holds at each point of a call.
  `VerdictsAreMeant` rests on it: until its endpoint is switched a packet's generation holds its request
  and nothing else, so each probe finds the rule of its pattern or none (`PacketsSound`), and the six patterns
  are all that can match. The last needs `Shaped`: a rule has a port only with a
  protocol, and no allow follows a deny of the same key. Both limits are the code's (section 5); the
  instance satisfies it (`InstanceAssumption` of `MCPolicyReaders`).
- **CniProofs.** `TypesHold` under all faults; `PodsKeepAddresses`, `PodsReachable` and `RoutesKeptToOwners` for kills and
  crashes. The first is from `Ledger` (plugin and record own the address they name; who has
  not written a record has none) and `Recovery` (the reconcile meets a missing
  veth only for a pod that has none in use). The second adds `Wiring`, what CreateEndpoint has
  done by each of its steps and the reconcile does again, and `Roomy`: the rows of pods that have a record
  and a veth never exceed PORTS, so the reconcile does not fail where the ADD did not. The third adds
  `Routing`: a pod owns one address, and one that has not programmed a route, or has had it
  removed, has none. `Ledger` fails with the other faults: `cni_torn` shows how.
- **NatProofs.** `NatTypesHold`, `TablesAreExact`, `OwnBackendIsPicked`, for callers that
  give every VIP an id of its own (`OwnIds`). The inductive invariant `NatInv` says,
  for the tables, which slots of a service are written at each point of a call
  (`Exact`), that a row belongs to a slot some service or the call in progress
  counts (`Owned`), and that the filled slots of an id are a prefix but for those a call is
  removing (`Prefix`): only a slot without a row can find the map full, so a call
  that fails there has no row beyond it to strand;
  and for each packet that what it looked up is in `seen` from then on
  (`LookupSound`).
  `RowsArePaired`, `AnswersAreRestored`, `AnswersPass`, under `OwnIds` and `Topology`, which the
  instances of `MCNat` satisfy (`InstanceAssumption`). None of the three is inductive. `RepliesInv` says of
  every CT row that it translates a flow or undoes the translation of one (`RowSound`), of every
  flow's row that its reverse is there, evicted or in some CPU's hands (`FlowsRecorded`), of every packet a
  server has received that the rows and policy entries it passed by were made (`RcvdSound`), and of every packet, stage by
  stage, which of these facts it relies on (`RequestSound`, `ReplySound`). `EndsApart` keeps the rows of
  different flows from having the same key; `ClusterKept` keeps answers from being masqueraded.
- **BfdProofs.** `LocalsHeldHolds`. An address is counted at least once for each session that relies on it
  (`Counted`): a failed or repeated arm counts too much, which keeps an address too long
  but never too short. A session has a row only while it holds an address, the rows the originator is
  about to write back included. Discriminators are finitely many (`BfdAssumption`).
- **FabricProofs.** `FabricWellFormed`, for any tables, packets, links and failures of links (`ScenarioAssumption`, which
  TLC evaluates on every scenario of the run): the packet that enters is well formed (`Whole`), label stacks and segment
  lists are lists, and the ports cross-connected to an E-Line (XCONNECT) lead to customers, who send frames, not to other
  nodes. The hop count, the addresses, the SIDs and the kinds of the entries are arbitrary. `WellFormed` speaks of labels and SRHs;
  what is preserved (`Whole`) also says that a VXLAN header is followed by a frame and that a label, a VXLAN header
  or a frame's header is never the last one, since a decapsulation takes two or three headers at once and must not find the
  stack empty. One lemma per operator shows that its verdict is a drop or carries a whole stack (`Fine`); the SRv6
  behaviours need that Segments Left is above 0 where it is decreased, which their early returns give, and
  the label operations that only the last label imposed can be the bottom. The inductive invariant (`AllSound`) adds that a packet
  from a node is never on a circuit.
- **OverlayProofs.** `LeafFramesKept`, for scenarios that are `Orderly`: nodes start unused; a slot over VXLAN is keyed
  by its VTEP and in no group, as add_repl_slot_auto_vxlan makes it; a static slot is not over VXLAN, since
  set_etree_remote looks at automatic slots only (control.rs:1467); and the calls that mark one remote node are made one
  after another, since set_etree_remote takes its locks in turn and two of them can leave the cached set and
  the datapath different. TLC evaluates `Orderly` on the scenarios of the run (`InstanceAssumption` of `MCOverlay`).
  `LeavesKeptIn` looks at the flood list; what makes it inductive (`Inv`) is where every index comes
  from: devices, slots and slots in the making have pairs of indexes of their own (`PortsApart`, `Low`), a flood list holds
  only devices and slots that are listed or about to be (`SlotsListed`), a slot being made is in no list before it
  is restricted (`AddingSound`), the row of a slot whose remote node is marked says roots only, unless a
  call on that mark is between its two writes (`RowsMarked`, `MarksSound`), and a group's rows are never those of
  a slot in no group. Next is proved action by action; calls that touch neither slots nor marks are shown to
  keep all of it by one lemma each.
  `SegmentIdsInUse` and `LeafRowsExact` need more of the scenario (`FromBare`, which TLC evaluates too): nodes begin
  with no segment and no leaf, and devices have indexes of their own. Nothing is asked of the calls on segments: ports
  may be missing or shared, ids may run out in the middle of a group, any map may be full at any row. Neither property is
  inductive. A row is removed by the segment that remembers having written it (`EsState`'s row fields), so what is
  preserved (`RowsInv`) is that every row is remembered (`Traced`): a PORT_ES, VTEP_ES, ES_NHG or ESI_LABEL row by the segment
  whose id it has, an ES_DF row by some segment, since a port that two segments share has one row and the
  first to be rendered again takes it out. A render that succeeds removes what the segment remembers and remembers what it
  writes; one that fails on a full map forgets both, and the keys it was to write are in `lostPorts` and `lostPeers` from then on: this
  is the exception, and the proof shows that there is no other. A deletion renders a segment that was told nothing, which needs
  no room and leaves none of its rows to remember. Ids are distinct
  because a new one is free; that the lowest free ids can be given to a group's segments (`AssignmentExists`) is shown
  with the assignment that leaves the fewest ids free, which exists because every set of naturals has a
  least element (WFMin): no induction over data is needed. For leaves, `etreeRows` lists every row of PORT_ETREE, each index once
  (`IndexesOnce`, `RowsOnce`), and a port whose index is in PORTS is listed exactly if it is a leaf that has not failed, under
  the index it has (`RowExact`); `set_port` and `set_etree_role` break this at one port, which `etree_render` repairs
  (`LeavesBut`, `EtreeRenderSound`). A device made again has an index that is in no table (`DeviceSound`), which comes from `Inv`.

Only model-checked: liveness (`CallCompletes`, `Collected`, `Arrives`, `Follows`, `Settles`), which is beyond this
prover; everything about Mobility; `SegmentsInOrder` and `DeliveredAsSent` of Fabric; `BroadcastOnce`, `UnicastOnce` and `SlotRowsOwned` of Overlay. `BroadcastOnce`,
`UnicastOnce`, `SegmentsInOrder` and `DeliveredAsSent` compare the tables with what a scenario expects, and
have no meaning apart from it; the rest is plan item 9.

## 7. Not modelled

Plan item 10 above, the L7 proxy, Hubble export, configuration, CLI and benchmarks (I/O and conversion).
Slot arrays of next-hop groups and ES groups change in one step of Overlay and not at all in Fabric.
Of what is modelled: the LPM-trie and per-VRF variants of
the FIB (one atomic kernel lookup each), weights and flags inside an entry, the IPv6
FIB's programming, MTU, ICMP errors and neighbour resolution by the kernel, the L7 part of a policy call and the L7 redirect, packets without ports or with
IP options, audit mode in `Nat`, eviction from PCT, counters and flow events, error texts. Kernel
semantics (a link takes its routes with it, BPF array stores and map updates are
atomic per key) and the container runtime's serialisation of one pod's calls are assumed.
