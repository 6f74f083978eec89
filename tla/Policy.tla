------------------------------- MODULE Policy -------------------------------
(***************************************************************************)
(* Endpoint network policy: Dataplane::endpoint_policy_set (dataplane.rs)  *)
(* on the BPF maps EP_POLICY and POLICY, one map operation per step.       *)
(*                                                                         *)
(* A replacement is an A/B generation flip: the new rules are inserted     *)
(* under the generation that is not active, one update of the EP_POLICY    *)
(* word activates them, and the other generation is swept.  The calls run  *)
(* under the dataplane mutex, one at a time; packets, which do not take    *)
(* it, are added by PolicyReaders.                                         *)
(***************************************************************************)
EXTENDS Naturals, Sequences, FiniteSets

CONSTANTS Eps,          \* endpoints (host-veth ifindexes)
          Identities,   \* peer identities; 0 is the wildcard of a rule
          Protos,       \* IP protocols; 0 is the wildcard
          Ports,        \* destination ports; 0 is the wildcard
          Requests,     \* the SetEndpointPolicy requests callers make
          MaxRules,     \* capacity of POLICY (65536)
          MaxEps        \* capacity of EP_POLICY (4096)

Dirs == {"ingress", "egress"}
Gens == {0, 1}
NoGen == 2

\* What a rule matches, and a rule: `(identity, proto, port, deny)' tagged
\* with the list (`rules' or `egress_rules') it came in.
Slot == [dir : Dirs, identity : Identities \cup {0}, proto : Protos \cup {0},
         port : Ports \cup {0}]
Verdicts == {"allow", "deny"}
Rule == [slot : Slot, verdict : Verdicts]

\* A request; its two rule lists are one after the other, in the order the
\* loop over `dirs' takes them.
Request == [enforce : BOOLEAN, enforceEgress : BOOLEAN, audit : BOOLEAN,
            rules : Seq(Rule)]

ASSUME RequestsAssumption == Requests \subseteq Request
ASSUME WildcardAssumption == 0 \notin Identities \cup Protos \cup Ports
ASSUME EpsAssumption == Eps # {}
ASSUME CapacityAssumption == MaxRules \in Nat /\ MaxEps \in Nat

Enforced(req, dir) == IF dir = "ingress" THEN req.enforce ELSE req.enforceEgress
Enforces(req) == req.enforce \/ req.enforceEgress

\* The EP_POLICY word (EP_F_* bits); NoFlags: no entry, default-allow.
Flags == [ingress : BOOLEAN, egress : BOOLEAN, audit : BOOLEAN, gen : Gens]
NoFlags == [ingress |-> FALSE, egress |-> FALSE, audit |-> FALSE, gen |-> NoGen]

Key == [ep : Eps, gen : Gens, slot : Slot]
Row == [key : Key, verdict : Verdicts]

Unenforced == [enforce |-> FALSE, enforceEgress |-> FALSE, audit |-> FALSE,
               rules |-> <<>>]

VARIABLES epPolicy,   \* EP_POLICY: Eps -> word
          policy,     \* POLICY: a set of rows, one per key
          call,       \* the endpoint_policy_set in progress
          want,       \* history: the request each endpoint was last switched to
          failed,     \* history: a call for ep failed since its last switch
          tainted     \* history: ... and then a switch succeeded

vars == <<epPolicy, policy, call, want, failed, tainted>>
history == <<want, failed, tainted>>

NoCall == [pc |-> "idle", ep |-> CHOOSE e \in Eps : TRUE, req |-> Unenforced,
           gen |-> NoGen, at |-> 0]
Idle == call = NoCall

-----------------------------------------------------------------------------
Init ==
    /\ epPolicy = [e \in Eps |-> NoFlags]
    /\ policy = {}
    /\ call = NoCall
    /\ want = [e \in Eps |-> Unenforced]
    /\ failed = [e \in Eps |-> FALSE]
    /\ tainted = [e \in Eps |-> FALSE]

\* Mistake: the generation is not flipped.
NewGenFixed(ep) == 0

NewGen(ep) == IF epPolicy[ep] # NoFlags /\ epPolicy[ep].gen = 0 THEN 1 ELSE 0

SetPolicy(ep, req) ==
    /\ Idle
    /\ Enforces(req)
    /\ call' = [pc |-> "insert", ep |-> ep, req |-> req, gen |-> NewGen(ep), at |-> 0]
    /\ UNCHANGED <<epPolicy, policy, history>>

\* Neither direction: the endpoint goes back to default-allow at once.
Unenforce(ep) ==
    /\ Idle
    /\ epPolicy' = [epPolicy EXCEPT ![ep] = NoFlags]
    /\ call' = [NoCall EXCEPT !.pc = "sweep", !.ep = ep]
    /\ want' = [want EXCEPT ![ep] = Unenforced]
    /\ failed' = [failed EXCEPT ![ep] = FALSE]
    /\ tainted' = [tainted EXCEPT ![ep] = FALSE]
    /\ UNCHANGED policy

-----------------------------------------------------------------------------
Inserting == call.pc = "insert" /\ call.at < Len(call.req.rules)
NextRule == call.req.rules[call.at + 1]
NextKey == [ep |-> call.ep, gen |-> call.gen, slot |-> NextRule.slot]

\* HashMap::insert succeeds: the key exists or there is room for it.
RuleFits == \/ \E r \in policy : r.key = NextKey
            \/ Cardinality(policy) < MaxRules

\* Mistake: the rule after a skipped one is skipped too.
SkipRuleTwice ==
    /\ Inserting
    /\ ~Enforced(call.req, NextRule.slot.dir)
    /\ call' = [call EXCEPT !.at = @ + 2]
    /\ UNCHANGED <<epPolicy, policy, history>>

\* A rule of a direction that is not enforced.
SkipRule ==
    /\ Inserting
    /\ ~Enforced(call.req, NextRule.slot.dir)
    /\ call' = [call EXCEPT !.at = @ + 1]
    /\ UNCHANGED <<epPolicy, policy, history>>

InsertRule ==
    /\ Inserting
    /\ Enforced(call.req, NextRule.slot.dir)
    /\ RuleFits
    /\ policy' = {r \in policy : r.key # NextKey}
                    \cup {[key |-> NextKey, verdict |-> NextRule.verdict]}
    /\ call' = [call EXCEPT !.at = @ + 1]
    /\ UNCHANGED <<epPolicy, history>>

\* The `?' on insert: the call returns, what it has inserted stays.
InsertFails ==
    /\ Inserting
    /\ Enforced(call.req, NextRule.slot.dir)
    /\ ~RuleFits
    /\ failed' = [failed EXCEPT ![call.ep] = TRUE]
    /\ call' = NoCall
    /\ UNCHANGED <<epPolicy, policy, want, tainted>>

-----------------------------------------------------------------------------
Flipping == call.pc = "insert" /\ call.at = Len(call.req.rules)
FlagsFit == \/ epPolicy[call.ep] # NoFlags
            \/ Cardinality({e \in Eps : epPolicy[e] # NoFlags}) < MaxEps

\* The one word that switches the endpoint.
Flip ==
    /\ Flipping
    /\ FlagsFit
    /\ epPolicy' = [epPolicy EXCEPT ![call.ep] =
           [ingress |-> call.req.enforce, egress |-> call.req.enforceEgress,
            audit |-> call.req.audit, gen |-> call.gen]]
    /\ call' = [call EXCEPT !.pc = "sweep"]
    /\ want' = [want EXCEPT ![call.ep] = call.req]
    /\ tainted' = [tainted EXCEPT ![call.ep] = failed[call.ep]]
    /\ failed' = [failed EXCEPT ![call.ep] = FALSE]
    /\ UNCHANGED policy

FlipFails ==
    /\ Flipping
    /\ ~FlagsFit
    /\ failed' = [failed EXCEPT ![call.ep] = TRUE]
    /\ call' = NoCall
    /\ UNCHANGED <<epPolicy, policy, want, tainted>>

-----------------------------------------------------------------------------
\* Mistakes: every endpoint's rows are swept; an endpoint no longer enforced
\* loses only one generation.
StaleOfAny == {r \in policy : r.key.gen # call.gen}
StaleOneGen == {r \in policy : r.key.ep = call.ep /\ r.key.gen # call.gen % 2}

\* The rows sweep(keep_gen) removes (all generations when call.gen = NoGen).
Stale == {r \in policy : r.key.ep = call.ep /\ r.key.gen # call.gen}

SweepRow ==
    /\ call.pc = "sweep"
    /\ \E r \in Stale : policy' = policy \ {r}
    /\ UNCHANGED <<epPolicy, call, history>>

SweepEnd ==
    /\ call.pc = "sweep"
    /\ Stale = {}
    /\ call' = NoCall
    /\ UNCHANGED <<epPolicy, policy, history>>

Next ==
    \/ \E ep \in Eps, req \in Requests : SetPolicy(ep, req)
    \/ \E ep \in Eps : Unenforce(ep)
    \/ SkipRule \/ InsertRule \/ InsertFails
    \/ Flip \/ FlipFails
    \/ SweepRow \/ SweepEnd

Spec == Init /\ [][Next]_vars

-----------------------------------------------------------------------------
(***************************************************************************)
(* Properties.                                                             *)
(***************************************************************************)
Call == [pc : {"idle", "insert", "sweep"}, ep : Eps, req : Request,
         gen : Gens \cup {NoGen}, at : Nat]

TypeOK ==
    /\ epPolicy \in [Eps -> Flags \cup {NoFlags}]
    /\ policy \subseteq Row
    /\ call \in Call
    /\ call.at <= Len(call.req.rules)
    /\ call.pc = "insert" => Enforces(call.req) /\ call.gen = NewGen(call.ep)
    /\ want \in [Eps -> Request]
    /\ failed \in [Eps -> BOOLEAN]
    /\ tainted \in [Eps -> BOOLEAN]

\* What the first n rules of a request put in POLICY: of two rules with one
\* key the later one is kept.
Programmed(req, n) ==
    {[slot |-> req.rules[i].slot, verdict |-> req.rules[i].verdict] :
        i \in {k \in 1..n : /\ Enforced(req, req.rules[k].slot.dir)
                            /\ \A j \in (k + 1)..n :
                                  req.rules[j].slot # req.rules[k].slot}}

RowsIn(rows, ep, gen) ==
    {[slot |-> r.key.slot, verdict |-> r.verdict] :
        r \in {x \in rows : x.key.ep = ep /\ x.key.gen = gen}}
RowsOf(ep, gen) == RowsIn(policy, ep, gen)

\* The flags and rules a packet finds active for ep belong together and are
\* those of the request ep was last switched to, at every instant of every
\* call: rows of a half-inserted, failed or half-swept set are never active.
\* Except after a failed call: the next one activates its leftovers too.
FlipAtomic ==
    \A ep \in Eps :
        IF epPolicy[ep] = NoFlags
        THEN ~Enforces(want[ep])
        ELSE /\ epPolicy[ep].ingress = want[ep].enforce
             /\ epPolicy[ep].egress = want[ep].enforceEgress
             /\ epPolicy[ep].audit = want[ep].audit
             /\ ~tainted[ep] => RowsOf(ep, epPolicy[ep].gen)
                                  = Programmed(want[ep], Len(want[ep].rules))

\* Between calls POLICY holds nothing but the active rules (and the leftovers
\* of a failed call): replacing and removing policies leaks no map entries.
NoOrphans ==
    Idle => \A r \in policy : \/ r.key.gen = epPolicy[r.key.ep].gen
                              \/ failed[r.key.ep]

-----------------------------------------------------------------------------
\* The inductive strengthening of the two: what the inactive generation holds.
InactiveSound ==
    \A ep \in Eps :
        /\ \* no call for ep: the other generation holds leftovers at most
           (call.ep # ep \/ call.pc = "idle") /\ ~failed[ep]
              => \A r \in policy : r.key.ep = ep => r.key.gen = epPolicy[ep].gen
        /\ \* ep's rules are being inserted
           (call.ep = ep /\ call.pc = "insert" /\ ~failed[ep])
              => RowsOf(ep, call.gen) = Programmed(call.req, call.at)
        /\ call.ep = ep /\ call.pc = "sweep"
              => call.gen = epPolicy[ep].gen /\ ~failed[ep]
=============================================================================
