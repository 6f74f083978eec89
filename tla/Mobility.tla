----------------------------- MODULE Mobility ------------------------------
(***************************************************************************)
(* One station that moves between the ports of several EVPN nodes while it *)
(* keeps sending.  Each node learns it in the datapath (l2_switch and      *)
(* l2_evpn_xdp of cradle-ebpf/src/main.rs), reports it on the WatchFdb     *)
(* stream (watch_fdb in cradle/src/control.rs) and is told of the other    *)
(* nodes' reports by AddFdbRemote and DelFdbRemote (dataplane.rs).  What   *)
(* carries a report from one node to another is the BGP daemon, which is   *)
(* external and modelled from the calls it makes and the events it reads.  *)
(***************************************************************************)
EXTENDS Naturals, Sequences, FiniteSets, FiniteSetsExt

CONSTANTS Nodes,      \* the EVPN nodes, numbered
          Ports,      \* their access ports
          NodeOf,     \* the node of each port
          Start,      \* where the station is first
          None,
          MaxMoves,   \* how often the station moves
          MaxHints,   \* capacity of the hint channel (256 in the code)
          MaxStream,  \* capacity of the event stream (64 in the code)
          MaxSeq      \* bound on mobility sequence numbers

ASSUME MobilityAssumption ==
    /\ Nodes \subseteq Nat /\ Nodes \cap Ports = {} /\ None \notin Nodes \cup Ports
    /\ \A p \in Ports : NodeOf[p] \in Nodes /\ Start \in Ports
    /\ MaxMoves \in Nat /\ MaxHints \in Nat \ {0}
    /\ MaxStream \in Nat \ {0} /\ MaxSeq \in Nat

VARIABLES at,      \* the port the station is behind
          moves,   \* how often it has moved
          ages,    \* ageing is on (fdb_age_secs is not 0), on every node
          lost,    \* it is off, and a hint was lost
          fdb,     \* each node's FDB entry: a local port, a remote node or None
          call,    \* the AddFdbRemote or DelFdbRemote under way at each node
          sweep,   \* nodes whose ageing sweep has picked the entry
          hints,   \* each node's hint channel: how many hints wait
          watch,   \* each node's WatchFdb task: [pc, cur, seen]
          stream,  \* the events it has sent
          adv,     \* the sequence number a node advertises, or None
          mob,     \* the highest sequence number a node has advertised
          rib,     \* what a node has heard of each other node
          inst     \* the remote a node's daemon has installed, with its seq

world == <<at, moves, ages, lost>>
cradle == <<fdb, call, sweep, hints, watch, stream>>
daemon == <<adv, mob, rib, inst>>
vars == <<world, cradle, daemon>>

Local(e) == e \in Ports
Idle == [op |-> "none"]

\* The station has been at its first port for long: all nodes know.
Init == LET home == NodeOf[Start]
        IN  /\ at = Start /\ moves = 0 /\ ages \in BOOLEAN /\ lost = FALSE
            /\ fdb = [n \in Nodes |-> IF n = home THEN Start ELSE home]
            /\ call = [n \in Nodes |-> Idle]
            /\ sweep = {}
            /\ hints = [n \in Nodes |-> 0]
            /\ watch = [n \in Nodes |-> [pc |-> "wait", cur |-> None,
                                         seen |-> IF n = home THEN Start ELSE None]]
            /\ stream = [n \in Nodes |-> <<>>]
            /\ adv = [n \in Nodes |-> IF n = home THEN 0 ELSE None]
            /\ mob = [n \in Nodes |-> 0]
            /\ rib = [n \in Nodes |-> [m \in Nodes |-> IF m = home /\ n # home THEN 0 ELSE None]]
            /\ inst = [n \in Nodes |-> IF n = home THEN None ELSE <<home, 0>>]

----------------------------------------------------------------------------
\* The station moves, or sends a frame, which the port's node learns.
Move == \E p \in Ports \ {at} :
          /\ moves < MaxMoves
          /\ at' = p /\ moves' = moves + 1
          /\ UNCHANGED <<ages, lost, cradle, daemon>>
Send == /\ fdb' = [fdb EXCEPT ![NodeOf[at]] = at]
        /\ UNCHANGED <<world, call, sweep, hints, watch, stream, daemon>>

\* The dataplane lock of a node, held by a call between its two sections and
\* by a sweep between its scan and its removals.  The datapath takes no lock.
Locked(n) == (call[n].op # "none" /\ call[n].pc = "locked") \/ n \in sweep

\* fdb_age_sweep: scan for learned entries no frame has refreshed for long,
\* here the one of a station that has left the port, then remove them.
Age(n) == /\ ages /\ ~Locked(n) /\ Local(fdb[n]) /\ fdb[n] # at
          /\ sweep' = sweep \cup {n}
          /\ UNCHANGED <<world, fdb, call, hints, watch, stream, daemon>>
Sweep(n) == /\ n \in sweep
            /\ sweep' = sweep \ {n}
            /\ fdb' = [fdb EXCEPT ![n] = None]
            /\ UNCHANGED <<world, call, hints, watch, stream, daemon>>

----------------------------------------------------------------------------
\* AddFdbRemote: fdb_overlay_add reads the entry, then overwrites it; the
\* hint that a learned entry was displaced follows once the lock is released.
AddRead(n) ==
    /\ call[n].op = "add" /\ call[n].pc = "called" /\ ~Locked(n)
    /\ call' = [call EXCEPT ![n].pc = "locked", ![n].displaced = Local(fdb[n])]
    /\ UNCHANGED <<world, fdb, sweep, hints, watch, stream, daemon>>
AddWrite(n) ==
    /\ call[n].op = "add" /\ call[n].pc = "locked"
    /\ fdb' = [fdb EXCEPT ![n] = call[n].node]
    /\ call' = [call EXCEPT ![n].pc = "hint"]
    /\ UNCHANGED <<world, sweep, hints, watch, stream, daemon>>
\* Mistake: that a learned entry was displaced is not announced.
AddDoneSilent(n) ==
    /\ call[n].op = "add" /\ call[n].pc = "hint"
    /\ call' = [call EXCEPT ![n] = Idle]
    /\ UNCHANGED <<world, fdb, sweep, hints, watch, stream, daemon>>
AddDone(n) ==
    /\ call[n].op = "add" /\ call[n].pc = "hint"
    /\ hints' = [hints EXCEPT ![n] = IF call[n].displaced /\ @ < MaxHints THEN @ + 1 ELSE @]
    /\ call' = [call EXCEPT ![n] = Idle]
    /\ UNCHANGED <<world, fdb, sweep, watch, stream, daemon>>

\* DelFdbRemote: fdb_remote_del leaves a learned entry alone.
DelRead(n) ==
    /\ call[n].op = "del" /\ call[n].pc = "called" /\ ~Locked(n)
    /\ call' = [call EXCEPT ![n] = IF Local(fdb[n]) THEN Idle ELSE [@ EXCEPT !.pc = "locked"]]
    /\ UNCHANGED <<world, fdb, sweep, hints, watch, stream, daemon>>
DelWrite(n) ==
    /\ call[n].op = "del" /\ call[n].pc = "locked"
    /\ fdb' = [fdb EXCEPT ![n] = None]
    /\ call' = [call EXCEPT ![n] = Idle]
    /\ UNCHANGED <<world, sweep, hints, watch, stream, daemon>>

----------------------------------------------------------------------------
\* watch_fdb: fdb_local_entries, under the lock, and where it differs from
\* what the subscriber was told, the event that says so.
Polled(n) == IF Local(fdb[n]) THEN fdb[n] ELSE None
Snapshot(n) ==
    /\ watch[n].pc = "wait" /\ ~Locked(n) /\ Polled(n) # watch[n].seen
    /\ watch' = [watch EXCEPT ![n].pc = "report", ![n].cur = Polled(n)]
    /\ UNCHANGED <<world, fdb, call, sweep, hints, stream, daemon>>
Report(n) ==
    LET w == watch[n]
    IN  /\ w.pc = "report" /\ Len(stream[n]) < MaxStream
        /\ stream' = [stream EXCEPT ![n] =
                         Append(@, IF w.cur = None THEN "aged" ELSE "learned")]
        /\ watch' = [watch EXCEPT ![n] = [pc |-> "wait", cur |-> None, seen |-> w.cur]]
        /\ UNCHANGED <<world, fdb, call, sweep, hints, daemon>>
\* A hint: the entry is reported aged whatever it is now, and polled again.
Hint(n) ==
    LET w == watch[n]
    IN  /\ w.pc = "wait" /\ hints[n] > 0 /\ Len(stream[n]) < MaxStream
        /\ hints' = [hints EXCEPT ![n] = @ - 1]
        /\ stream' = IF w.seen = None THEN stream ELSE [stream EXCEPT ![n] = Append(@, "aged")]
        /\ watch' = [watch EXCEPT ![n].seen = None]
        /\ UNCHANGED <<world, fdb, call, sweep, daemon>>
\* The channel is shared by all stations: when it overflows before the task
\* reads it, the oldest hints are lost (Lagged) and it only polls again.
Lag(n) == /\ hints[n] > 0
          /\ hints' = [hints EXCEPT ![n] = @ - 1]
          /\ lost' = (lost \/ ~ages)
          /\ UNCHANGED <<at, moves, ages, fdb, call, sweep, watch, stream, daemon>>

----------------------------------------------------------------------------
\* The BGP daemon.  A route is a node with a sequence number; routes are
\* compared by sequence number, ties by node.  own is what the node itself
\* advertises, heard what it has heard of the others.
Better(a, b) == a[2] > b[2] \/ (a[2] = b[2] /\ a[1] < b[1])
Routes(n, own, heard) ==
    {<<m, heard[m]>> : m \in {k \in Nodes \ {n} : heard[k] # None}}
        \cup (IF own = None THEN {} ELSE {<<n, own>>})
Wanted(n, own, heard) ==
    LET best == {a \in Routes(n, own, heard) :
                   \A b \in Routes(n, own, heard) \ {a} : Better(a, b)}
    IN  IF \E a \in best : a[1] # n THEN CHOOSE a \in best : TRUE ELSE None

\* It keeps the node's remote entry in step with its best route, and is done
\* with the call for one event before it takes the next.
Ready(n) == call[n] = Idle
Tee(n, want) ==
    /\ inst' = [inst EXCEPT ![n] = want]
    /\ call' = [call EXCEPT ![n] =
         IF want = inst[n] THEN Idle
         ELSE IF want = None THEN [op |-> "del", pc |-> "called"]
         ELSE [op |-> "add", pc |-> "called", node |-> want[1], displaced |-> FALSE]]

\* An event of the stream: a station learned here outbids what others say.
Originate(n) ==
    LET theirs == {rib[n][m] : m \in Nodes \ {n}} \ {None}
        seq == IF theirs = {} THEN mob[n] ELSE Max({mob[n], Max(theirs) + 1})
    IN  /\ Ready(n) /\ stream[n] # <<>> /\ Head(stream[n]) = "learned"
        /\ seq <= MaxSeq
        /\ stream' = [stream EXCEPT ![n] = Tail(@)]
        /\ adv' = [adv EXCEPT ![n] = seq] /\ mob' = [mob EXCEPT ![n] = seq]
        /\ Tee(n, Wanted(n, seq, rib[n]))
        /\ UNCHANGED <<world, fdb, sweep, hints, watch, rib>>
Withdraw(n) ==
    /\ Ready(n) /\ stream[n] # <<>> /\ Head(stream[n]) = "aged"
    /\ stream' = [stream EXCEPT ![n] = Tail(@)]
    /\ adv' = [adv EXCEPT ![n] = None]
    /\ Tee(n, Wanted(n, None, rib[n]))
    /\ UNCHANGED <<world, fdb, sweep, hints, watch, mob, rib>>
\* An update of another node's daemon, which sends the latest it has to say.
Hear(n, m) ==
    /\ Ready(n) /\ m # n /\ rib[n][m] # adv[m]
    /\ rib' = [rib EXCEPT ![n][m] = adv[m]]
    /\ Tee(n, Wanted(n, adv[n], rib'[n]))
    /\ UNCHANGED <<world, fdb, sweep, hints, watch, stream, adv, mob>>

----------------------------------------------------------------------------
Call(n) == AddRead(n) \/ AddWrite(n) \/ AddDone(n) \/ DelRead(n) \/ DelWrite(n)
Watch(n) == Snapshot(n) \/ Report(n)
Bgp(n) == Originate(n) \/ Withdraw(n) \/ \E m \in Nodes : Hear(n, m)

Next == \/ Move \/ Send
        \/ \E n \in Nodes : Age(n) \/ Sweep(n) \/ Call(n) \/ Watch(n) \/ Hint(n) \/ Lag(n)
                            \/ Bgp(n)

\* The station keeps sending; the node's tasks run (the sweep by its interval),
\* and the lock is granted in turn; the daemon reads the stream and delivers
\* its updates.
Fairness == /\ WF_vars(Send)
            /\ \A n \in Nodes : /\ SF_vars(Age(n)) /\ WF_vars(Sweep(n) \/ Call(n))
                                /\ SF_vars(Watch(n)) /\ SF_vars(Hint(n))
                                /\ SF_vars(Originate(n) \/ Withdraw(n))
                                /\ SF_vars(\E m \in Nodes : Hear(n, m))
Spec == Init /\ [][Next]_vars /\ Fairness

\* Traffic follows a station that moves away and comes back: when it stays,
\* its node ends with a learned entry for its port, and every other node with a
\* remote entry for its node or none (it then floods).  A return that no poll
\* and no hint could tell from a station that never left is not reported; it
\* is made good when the entry at the other node has aged.  So with ageing off
\* (fdb_age_secs 0) this is promised only while no hint is lost.
Converged == \A n \in Nodes :
    IF n = NodeOf[at] THEN fdb[n] = at ELSE fdb[n] \in {NodeOf[at], None}
Follows == <>[](Converged \/ lost)
=============================================================================
