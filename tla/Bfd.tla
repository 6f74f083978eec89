-------------------------------- MODULE Bfd --------------------------------
(***************************************************************************)
(* BFD Echo origination and the two in-kernel detectors.  Control calls    *)
(* (bfd_echo_arm and its kin in control.rs and dataplane.rs) fill the      *)
(* detector maps and steer the originator task (bfd_echo.rs) over a        *)
(* channel; the XDP program (cradle-ebpf/src/bfd.rs) restarts a session's  *)
(* timer on every packet, the timer raises its down flag when packets      *)
(* stop, and watch_bfd reports the flags it polls to the daemon.           *)
(*                                                                         *)
(* Map updates take the dataplane lock; the XDP program and the timers do  *)
(* not.  Time is abstract: a timer runs out only while the path is dead, a *)
(* bootstrap window ends at any moment after it began.                     *)
(***************************************************************************)
EXTENDS Naturals, Sequences, FiniteSets

CONSTANTS Discrs,    \* discriminators of Echo sessions
          Watched,   \* discriminators of sessions with a control watchdog
          Locals,    \* local addresses
          None,
          Setups,    \* which sessions a daemon may come to use, as sets of Keys
          MaxCalls,  \* how many calls the daemon makes
          MaxFlaps   \* how often the path dies or comes back

ASSUME BfdAssumption ==
    /\ None \notin Locals
    /\ IsFiniteSet(Discrs)   \* they are u32
    /\ MaxCalls \in Nat /\ MaxFlaps \in Nat

Echo(d) == <<d, "echo">>
Ctrl(d) == <<d, "ctrl">>
Keys == {Echo(d) : d \in Discrs} \cup {Ctrl(d) : d \in Watched}

VARIABLES used,       \* the sessions the daemon uses
          alive,      \* the path to the peer and back works
          flaps, calls,
          timers,     \* ECHO_TIMERS and CONTROL_TIMERS: a DetectState or None
          refs,       \* bfd_ip_refs
          ips,        \* OUR_LOCAL_IPS and its IPv6 twin
          echoLocal,  \* bfd_echo_local
          arming,     \* calls between the maps and the originator: the local
          disarming,  \* calls between the originator and the maps
          chan,       \* commands to the originator
          sessions,   \* the originator's sessions: their local, or None
          expired,    \* those whose bootstrap window has ended
          eng,        \* where the originator is: [pc, marks, cur]
          xdp,        \* how far an XDP run has come with the row of a key
          reported    \* watch_bfd's latch: what was down at the last poll

net == <<used, alive, flaps>>
maps == <<timers, xdp>>
addrs == <<refs, ips, echoLocal>>
rpcs == <<calls, arming, disarming, chan>>
origin == <<sessions, expired, eng>>
vars == <<net, maps, addrs, rpcs, origin, reported>>

DetectState == [armed : BOOLEAN, down : BOOLEAN, running : BOOLEAN]
Seed == [armed |-> FALSE, down |-> FALSE, running |-> FALSE]
Resting == [pc |-> "select", marks |-> {}, cur |-> None]

Init ==
    /\ used \in Setups
    /\ alive \in BOOLEAN /\ flaps = 0 /\ calls = 0
    /\ timers = [k \in Keys |-> None] /\ xdp = [k \in Keys |-> "idle"]
    /\ refs = [l \in Locals |-> 0] /\ ips = {}
    /\ echoLocal = [d \in Discrs |-> None]
    /\ arming = [d \in Discrs |-> None] /\ disarming = {} /\ chan = <<>>
    /\ sessions = [d \in Discrs |-> None] /\ expired = {} /\ eng = Resting
    /\ reported = {}

Flap == /\ flaps < MaxFlaps /\ flaps' = flaps + 1 /\ alive' = ~alive
        /\ UNCHANGED <<used, maps, addrs, rpcs, origin, reported>>

\* The dataplane lock: the originator holds it through its marking loop.
Unlocked == eng.pc \notin {"loop", "put"}

\* Replacing or removing a row frees the old one: its timer is cancelled, and
\* an XDP run that had found it writes to what is no longer in the map.
Replace(k, row) == /\ timers' = [timers EXCEPT ![k] = row]
                   /\ xdp' = [xdp EXCEPT ![k] = "idle"]

----------------------------------------------------------------------------
\* ArmBfdEcho: the reference and the row in one section of the lock, then the
\* command.  With ECHO_TIMERS full the call fails and keeps its reference: the
\* sessions of Discrs are some of up to 256, and a new row may be one too many.
MayBeFull(d) == timers[Echo(d)] = None
CountLocal(d, l) == /\ refs' = [refs EXCEPT ![l] = @ + 1]
                    /\ ips' = ips \cup {l}
                    /\ echoLocal' = [echoLocal EXCEPT ![d] = l]
NewCall(k) == k \in used /\ calls < MaxCalls /\ calls' = calls + 1

EchoArm(d, l) ==
    /\ NewCall(Echo(d)) /\ Unlocked /\ arming[d] = None
    /\ CountLocal(d, l)
    /\ Replace(Echo(d), Seed)
    /\ arming' = [arming EXCEPT ![d] = l]
    /\ UNCHANGED <<net, disarming, chan, origin, reported>>
EchoArmFull(d, l) ==
    /\ NewCall(Echo(d)) /\ Unlocked /\ arming[d] = None /\ MayBeFull(d)
    /\ CountLocal(d, l)
    /\ UNCHANGED <<net, maps, arming, disarming, chan, origin, reported>>
EchoArmSend(d) ==
    /\ arming[d] # None
    /\ chan' = Append(chan, [cmd |-> "add", discr |-> d, local |-> arming[d]])
    /\ arming' = [arming EXCEPT ![d] = None]
    /\ UNCHANGED <<net, maps, addrs, calls, disarming, origin, reported>>

\* DisarmBfdEcho: the command first, then the maps.
Del(d) == [cmd |-> "del", discr |-> d, local |-> None]
EchoDisarmSend(d) ==
    /\ NewCall(Echo(d)) /\ d \notin disarming
    /\ chan' = Append(chan, Del(d))
    /\ disarming' = disarming \cup {d}
    /\ UNCHANGED <<net, maps, addrs, arming, origin, reported>>
\* Mistake: the address goes with the first session that is disarmed.
ReleaseAtOnce(l) == /\ refs' = [refs EXCEPT ![l] = 0]
                    /\ ips' = ips \ {l}
Release(l) == LET left == IF refs[l] = 0 THEN 0 ELSE refs[l] - 1
              IN  /\ refs' = [refs EXCEPT ![l] = left]
                  /\ ips' = IF left = 0 THEN ips \ {l} ELSE ips
EchoDisarm(d) ==
    /\ d \in disarming /\ Unlocked
    /\ disarming' = disarming \ {d}
    /\ Replace(Echo(d), None)
    /\ IF echoLocal[d] = None THEN UNCHANGED <<refs, ips>> ELSE Release(echoLocal[d])
    /\ echoLocal' = [echoLocal EXCEPT ![d] = None]
    /\ UNCHANGED <<net, calls, arming, chan, origin, reported>>

\* ArmBfdDetect and DisarmBfdDetect.
DetectArm(d) == /\ NewCall(Ctrl(d)) /\ Unlocked /\ Replace(Ctrl(d), Seed)
                /\ UNCHANGED <<net, addrs, arming, disarming, chan, origin, reported>>
DetectDisarm(d) == /\ NewCall(Ctrl(d)) /\ Unlocked /\ Replace(Ctrl(d), None)
                   /\ UNCHANGED <<net, addrs, arming, disarming, chan, origin, reported>>

----------------------------------------------------------------------------
\* cradle_xdp: an Echo of ours comes back (its source is in OUR_LOCAL_IPS), or
\* a control packet passes; the row is found, cleared, and its timer started.
Comes(k) == CASE k[2] = "echo" -> sessions[k[1]] \in ips
              [] k[2] = "ctrl" -> TRUE
Find(k) == /\ alive /\ Comes(k) /\ timers[k] # None /\ xdp[k] = "idle"
           /\ xdp' = [xdp EXCEPT ![k] = "found"]
           /\ UNCHANGED <<net, timers, addrs, rpcs, origin, reported>>
KickClear(k) == /\ xdp[k] = "found"
                /\ xdp' = [xdp EXCEPT ![k] = "cleared"]
                /\ timers' = [timers EXCEPT ![k].armed = TRUE, ![k].down = FALSE]
                /\ UNCHANGED <<net, addrs, rpcs, origin, reported>>
KickStart(k) == /\ xdp[k] = "cleared"
                /\ xdp' = [xdp EXCEPT ![k] = "idle"]
                /\ timers' = [timers EXCEPT ![k].running = TRUE]
                /\ UNCHANGED <<net, addrs, rpcs, origin, reported>>
\* detect_timeout.
DetectTimeout(k) == /\ ~alive /\ timers[k] # None /\ timers[k].running
                    /\ timers' = [timers EXCEPT ![k].running = FALSE, ![k].down = TRUE]
                    /\ UNCHANGED <<net, xdp, addrs, rpcs, origin, reported>>

----------------------------------------------------------------------------
\* The originator takes a command, or ticks: sessions past their bootstrap
\* window are collected, and marked down under the lock if their row has not
\* been armed yet; reading the row and writing it back are two map calls.
Handle ==
    LET c == Head(chan)
    IN  /\ eng.pc = "select" /\ chan # <<>>
        /\ chan' = Tail(chan)
        /\ sessions' = [sessions EXCEPT ![c.discr] = c.local]
        /\ expired' = expired \ {c.discr}
        /\ UNCHANGED <<net, maps, addrs, calls, arming, disarming, eng, reported>>
Expire(d) == /\ sessions[d] # None /\ d \notin expired
             /\ expired' = expired \cup {d}
             /\ UNCHANGED <<net, maps, addrs, rpcs, sessions, eng, reported>>
Tick == /\ eng.pc = "select" /\ expired # {}
        /\ eng' = [eng EXCEPT !.pc = "wait", !.marks = expired]
        /\ UNCHANGED <<net, maps, addrs, rpcs, sessions, expired, reported>>
Lock == /\ eng.pc = "wait"
        /\ eng' = [eng EXCEPT !.pc = "loop"]
        /\ UNCHANGED <<net, maps, addrs, rpcs, sessions, expired, reported>>
Unarmed(d) == /\ timers[Echo(d)] # None
              /\ ~timers[Echo(d)].armed /\ ~timers[Echo(d)].down
MarkGet(d) ==
    /\ eng.pc = "loop" /\ d \in eng.marks
    /\ eng' = IF Unarmed(d) THEN [pc |-> "put", marks |-> eng.marks \ {d}, cur |-> d]
              ELSE [eng EXCEPT !.marks = @ \ {d}]
    /\ UNCHANGED <<net, maps, addrs, rpcs, sessions, expired, reported>>
MarkPut == /\ eng.pc = "put"
           /\ Replace(Echo(eng.cur), [Seed EXCEPT !.down = TRUE])
           /\ eng' = [eng EXCEPT !.pc = "loop", !.cur = None]
           /\ UNCHANGED <<net, addrs, rpcs, sessions, expired, reported>>
Unlock == /\ eng.pc = "loop" /\ eng.marks = {}
          /\ eng' = Resting
          /\ UNCHANGED <<net, maps, addrs, rpcs, sessions, expired, reported>>
Marking == Lock \/ (\E d \in Discrs : MarkGet(d)) \/ MarkPut \/ Unlock

----------------------------------------------------------------------------
\* watch_bfd: what is down and not latched is reported; the latch follows.
Down == {k \in Keys : timers[k] # None /\ timers[k].down}
\* Mistake: the latch is not cleared.
PollKeepsLatch == /\ Unlocked /\ ~(Down \subseteq reported)
                  /\ reported' = reported \cup Down
                  /\ UNCHANGED <<net, maps, addrs, rpcs, origin>>
Poll == /\ Unlocked /\ Down # reported
        /\ reported' = Down
        /\ UNCHANGED <<net, maps, addrs, rpcs, origin>>

----------------------------------------------------------------------------
Xdp(k) == Find(k) \/ KickClear(k) \/ KickStart(k)
Calling(d) == EchoArmSend(d) \/ EchoDisarm(d)

Next ==
    \/ Flap \/ Handle \/ Tick \/ Marking \/ Poll
    \/ \E d \in Discrs : \/ \E l \in Locals : EchoArm(d, l) \/ EchoArmFull(d, l)
                         \/ EchoDisarmSend(d) \/ Calling(d) \/ Expire(d)
    \/ \E d \in Watched : DetectArm(d) \/ DetectDisarm(d)
    \/ \E k \in Keys : Xdp(k) \/ DetectTimeout(k)

\* Calls that have begun end, the tasks run (select! takes a ready arm at
\* random, the lock is granted in turn), packets come while the path works.
Fairness == /\ SF_vars(Handle) /\ SF_vars(Tick) /\ WF_vars(Marking) /\ SF_vars(Poll)
            /\ \A d \in Discrs : SF_vars(Calling(d))
            /\ WF_vars(\E d \in Discrs : Expire(d))
            /\ \A k \in Keys : WF_vars(Xdp(k) \/ DetectTimeout(k))
Spec == Init /\ [][Next]_vars /\ Fairness

----------------------------------------------------------------------------
\* An address a session relies on is never taken out of OUR_LOCAL_IPS under
\* it, whatever arms twice, fails or disarms: the session's returning Echoes
\* would be reflected instead of restarting its timer.
LocalsHeld == \A d \in Discrs : timers[Echo(d)] # None => echoLocal[d] \in ips

\* The latch settles on the truth: once the path and the calls are quiet, a
\* dead session with a row is latched, so an event was sent for it after the
\* last poll that found it up, and one that works is not, so that its next
\* failure is reported; whatever the bootstrap time-out, the timers and
\* concurrent calls did to its row before.  A session that came up or was armed
\* again and failed between two polls stays latched and is reported once, not
\* again (the comment of watch_bfd promises that); one that a concurrent Arm
\* and Disarm have left without a row is not watched.  A control watchdog takes
\* part from the first packet it has seen.
Tracked(k) == timers[k] # None /\ (k[2] = "echo" \/ timers[k].armed)
Settled(k) == k \in reported <=> ~alive
Settles == <>[](\A k \in Keys : Tracked(k) => Settled(k))
=============================================================================
