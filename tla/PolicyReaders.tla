---------------------------- MODULE PolicyReaders ----------------------------
(***************************************************************************)
(* Packets being judged (ingress_policy, the egress check of               *)
(* l3_forward_v4/v6, policy_denied and policy_denied_v6 in the eBPF        *)
(* programs) while a policy is replaced.  A packet loads the endpoint's    *)
(* EP_POLICY word once and then looks six keys up in POLICY, without a     *)
(* lock.  It carries the identity its peer resolved to, and opens a flow:  *)
(* a packet of a recorded flow is let through by PCT before any of this.   *)
(***************************************************************************)
EXTENDS Policy

CONSTANTS Readers,   \* packets in flight, one per CPU
          Packets    \* what they can be (port 0: neither TCP nor UDP)

ASSUME PacketsAssumption ==
    Packets \subseteq [ep : Eps, dir : Dirs, identity : Identities,
                       proto : Protos, port : Ports \cup {0}]

VARIABLE rd    \* rd[r]: reader r's packet and how far its verdict is

rvars == <<vars, rd>>

\* POLICY_PATS: the fields each of the six probes wildcards.
POLICY_PATS == << {}, {"port"}, {"proto", "port"}, {"identity"},
                  {"identity", "port"}, {"identity", "proto", "port"} >>

Pick(pat, field, value) == IF field \in pat THEN 0 ELSE value
ProbeSlot(pkt, pat) ==
    [dir |-> pkt.dir, identity |-> Pick(pat, "identity", pkt.identity),
     proto |-> Pick(pat, "proto", pkt.proto), port |-> Pick(pat, "port", pkt.port)]

-----------------------------------------------------------------------------
(***************************************************************************)
(* What a request means for a packet (policy.md, cradle.proto): 0 in a     *)
(* rule is a wildcard; a deny wins over any allow; an enforced direction   *)
(* allows nothing else; audit reports instead of dropping.                 *)
(***************************************************************************)
RuleMatches(slot, pkt) ==
    /\ slot.dir = pkt.dir
    /\ slot.identity \in {0, pkt.identity}
    /\ slot.proto \in {0, pkt.proto}
    /\ slot.port \in {0, pkt.port}

Matching(req, pkt, verdict) ==
    {i \in DOMAIN req.rules : /\ RuleMatches(req.rules[i].slot, pkt)
                              /\ req.rules[i].verdict = verdict}

Meaning(req, pkt) ==
    IF /\ Enforced(req, pkt.dir)
       /\ Matching(req, pkt, "deny") # {} \/ Matching(req, pkt, "allow") = {}
    THEN IF req.audit THEN "audited" ELSE "dropped"
    ELSE "forwarded"

-----------------------------------------------------------------------------
\* history: `first' is what the request in force at the load means for the
\* packet, `switched' whether the EP_POLICY word has changed since.
NoPacket == [pc |-> "idle"]

RInit == Init /\ rd = [r \in Readers |-> NoPacket]

EpFlag(flags, dir) == IF dir = "ingress" THEN flags.ingress ELSE flags.egress

LoadFlags(r, pkt) ==
    LET flags == epPolicy[pkt.ep]
        meaning == Meaning(want[pkt.ep], pkt)
        loaded == [pc |-> "probe", pkt |-> pkt, flags |-> flags, i |-> 1,
                   allowed |-> FALSE, verdict |-> "none", first |-> meaning,
                   switched |-> FALSE, tainted |-> tainted[pkt.ep]]
    IN  /\ rd[r].pc = "idle"
        /\ rd' = [rd EXCEPT ![r] =
               IF EpFlag(flags, pkt.dir) THEN loaded
               ELSE [loaded EXCEPT !.pc = "done", !.verdict = "forwarded"]]
        /\ UNCHANGED vars

Rejected(l) == IF l.flags.audit THEN "audited" ELSE "dropped"

\* Mistake: the first rule that is hit decides.
AfterProbeFirstHit(l, hit) ==
    CASE "deny" \in hit  -> [l EXCEPT !.pc = "done", !.verdict = Rejected(l)]
      [] "allow" \in hit -> [l EXCEPT !.pc = "done", !.verdict = "forwarded"]
      [] hit = {} -> IF l.i = Len(POLICY_PATS)
                     THEN [l EXCEPT !.pc = "done", !.verdict = Rejected(l)]
                     ELSE [l EXCEPT !.i = @ + 1]

\* What the lookup of one key adds; `hit' is the verdict found, if any.
AfterProbe(l, hit) ==
    LET allowed == l.allowed \/ hit # {}
    IN  IF "deny" \in hit
        THEN [l EXCEPT !.pc = "done", !.verdict = Rejected(l)]
        ELSE IF l.i < Len(POLICY_PATS)
        THEN [l EXCEPT !.i = @ + 1, !.allowed = allowed]
        ELSE [l EXCEPT !.pc = "done", !.allowed = allowed,
                       !.verdict = IF allowed THEN "forwarded" ELSE Rejected(l)]

Probe(r) ==
    LET l == rd[r]
        key == [ep |-> l.pkt.ep, gen |-> l.flags.gen,
                slot |-> ProbeSlot(l.pkt, POLICY_PATS[l.i])]
    IN  /\ l.pc = "probe"
        /\ rd' = [rd EXCEPT ![r] =
                    AfterProbe(l, {x.verdict : x \in {y \in policy : y.key = key}})]
        /\ UNCHANGED vars

EndPacket(r) ==
    /\ rd[r].pc = "done"
    /\ rd' = [rd EXCEPT ![r] = NoPacket]
    /\ UNCHANGED vars

\* A step of user space, noted by the packets it overtakes.
ControlStep ==
    /\ Next
    /\ rd' = [r \in Readers |->
         IF rd[r].pc # "probe" THEN rd[r]
         ELSE LET ep == rd[r].pkt.ep
              IN  [rd[r] EXCEPT !.switched = @ \/ epPolicy'[ep] # epPolicy[ep]]]

ReaderStep(r) ==
    \/ \E pkt \in Packets : LoadFlags(r, pkt)
    \/ Probe(r)
    \/ EndPacket(r)

RNext == ControlStep \/ \E r \in Readers : ReaderStep(r)
RSpec == RInit /\ [][RNext]_rvars

-----------------------------------------------------------------------------
(***************************************************************************)
(* Properties.                                                             *)
(***************************************************************************)
\* What the six probes can express: a port only with a protocol, and, since a
\* map keeps one row per key, no allow after a deny of the same key.
Shaped(req) ==
    /\ \A i \in DOMAIN req.rules : req.rules[i].slot.port # 0 => req.rules[i].slot.proto # 0
    /\ \A i, j \in DOMAIN req.rules :
          /\ i < j /\ req.rules[i].slot = req.rules[j].slot
          /\ req.rules[i].verdict = "deny"
          => req.rules[j].verdict = "deny"

Judged(r) == rd[r].pc = "done"

\* The six probes find, while rules are inserted beside them and up to the
\* moment its endpoint is switched, exactly what the request in force means
\* for the packet.
UnovertakenVerdict ==
    \A r \in Readers : Judged(r) /\ ~rd[r].switched /\ ~rd[r].tainted
        => rd[r].verdict = rd[r].first

=============================================================================
