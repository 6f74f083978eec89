---------------------------- MODULE PolicyProofs ----------------------------
(***************************************************************************)
(* The A/B flip, for any endpoints, rules, requests and map sizes: the     *)
(* active generation always holds exactly the rules of one request, and    *)
(* the six probes of a packet find what that request means for it.         *)
(***************************************************************************)
EXTENDS PolicyReaders, TLAPS, WellFoundedInduction

LEMMA FlagFacts ==
    /\ NoFlags.gen = NoGen /\ NoGen \notin Gens
    /\ \A f \in Flags : f # NoFlags /\ f.gen \in Gens
BY DEF NoFlags, NoGen, Gens, Flags

\* The generation a call inserts under is never the active one.
LEMMA NewGenInactive ==
    ASSUME TypeOK, NEW ep \in Eps
    PROVE  NewGen(ep) \in Gens /\ NewGen(ep) # epPolicy[ep].gen
BY FlagFacts DEF TypeOK, NewGen, Gens

LEMMA UnenforcedType == Unenforced \in Request /\ Len(Unenforced.rules) = 0
BY DEF Unenforced, Request

LEMMA CallFields ==
    ASSUME TypeOK
    PROVE  /\ call.ep \in Eps /\ call.req \in Request /\ call.at \in Nat
           /\ call.pc \in {"idle", "insert", "sweep"} /\ call.gen \in Gens \cup {NoGen}
           /\ call.req.rules \in Seq(Rule) /\ Len(call.req.rules) \in Nat
BY DEF TypeOK, Call, Request

LEMMA NoCallType ==
    NoCall \in Call /\ NoCall.pc = "idle" /\ NoCall.at = 0 /\ Len(NoCall.req.rules) = 0
<1>1. (CHOOSE e \in Eps : TRUE) \in Eps
  BY EpsAssumption
<1> QED
  BY <1>1, UnenforcedType DEF NoCall, Call

LEMMA NextRuleType ==
    ASSUME TypeOK, Inserting
    PROVE  /\ NextRule \in Rule /\ NextRule.slot \in Slot /\ NextRule.verdict \in Verdicts
           /\ NextKey \in Key
           /\ NextKey.ep = call.ep /\ NextKey.gen = call.gen /\ NextKey.slot = NextRule.slot
<1>1. call.at + 1 \in 1..Len(call.req.rules)
  BY CallFields DEF Inserting
<1>2. NextRule \in Rule
  BY <1>1, CallFields DEF NextRule
<1>3. call.gen \in Gens
  BY CallFields, NewGenInactive DEF Inserting, TypeOK
<1> QED
  BY <1>2, <1>3, CallFields DEF NextKey, Key, Rule

LEMMA InitTypes ==
    ASSUME Init
    PROVE  TypeOK
<1>1. call \in Call /\ call.pc = "idle" /\ call.at = 0 /\ Len(call.req.rules) = 0
  BY NoCallType DEF Init
<1> QED
  BY <1>1, UnenforcedType DEF Init, TypeOK

LEMMA NextTypes ==
    ASSUME TypeOK, [Next]_vars
    PROVE  TypeOK'
<1>1. CASE UNCHANGED vars
  BY <1>1 DEF vars, TypeOK, NewGen
<1>2. ASSUME NEW ep \in Eps, NEW req \in Requests, SetPolicy(ep, req)
      PROVE  TypeOK'
  <2>1. req \in Request /\ req.rules \in Seq(Rule) /\ Len(req.rules) \in Nat
    BY RequestsAssumption DEF Request
  <2>2. call' = [pc |-> "insert", ep |-> ep, req |-> req, gen |-> NewGen(ep), at |-> 0]
    BY <1>2 DEF SetPolicy
  <2>3. /\ call' \in Call /\ call'.req = req /\ call'.ep = ep /\ call'.at = 0
        /\ call'.gen = NewGen(ep)
    BY <2>1, <2>2, NewGenInactive DEF Call
  <2>4. NewGen(ep)' = NewGen(ep) /\ Enforces(req)
    BY <1>2 DEF SetPolicy, NewGen
  <2> QED
    BY <1>2, <2>1, <2>3, <2>4 DEF SetPolicy, TypeOK, history, NewGen
<1>3. ASSUME NEW ep \in Eps, Unenforce(ep)
      PROVE  TypeOK'
  <2>1. call' = [NoCall EXCEPT !.pc = "sweep", !.ep = ep]
    BY <1>3 DEF Unenforce
  <2>2. call' \in Call /\ call'.pc = "sweep" /\ call'.at = 0 /\ Len(call'.req.rules) = 0
    BY <2>1, NoCallType DEF Call, NoCall
  <2> QED
    BY <1>3, <2>2, UnenforcedType DEF Unenforce, TypeOK
<1>4. CASE SkipRule \/ InsertRule
  <2>1. /\ Inserting /\ call' = [call EXCEPT !.at = @ + 1]
        /\ UNCHANGED <<epPolicy, want, failed, tainted>>
    BY <1>4 DEF SkipRule, InsertRule, history
  <2>2. call \in Call
    BY DEF TypeOK
  <2>3. /\ call' \in Call /\ call'.pc = "insert" /\ call'.ep = call.ep
        /\ call'.req = call.req /\ call'.gen = call.gen /\ call'.at = call.at + 1
    BY <2>1, <2>2 DEF Call, Inserting
  <2>4. call'.at <= Len(call'.req.rules)
    BY <2>1, <2>3, CallFields DEF Inserting
  <2>5. policy' \subseteq Row
    BY <1>4, <2>1, NextRuleType DEF SkipRule, InsertRule, TypeOK, Row
  <2> QED
    BY <2>1, <2>3, <2>4, <2>5 DEF TypeOK, Inserting, NewGen
<1>5. CASE InsertFails \/ FlipFails \/ SweepEnd
  <2>1. call' = NoCall /\ UNCHANGED <<epPolicy, policy, want, tainted>>
    BY <1>5 DEF InsertFails, FlipFails, SweepEnd, history
  <2>2. failed' \in [Eps -> BOOLEAN]
    BY <1>5, CallFields DEF InsertFails, FlipFails, SweepEnd, history, TypeOK
  <2>3. call' \in Call /\ call'.pc = "idle" /\ call'.at = 0 /\ Len(call'.req.rules) = 0
    BY <2>1, CallFields, NoCallType
  <2> QED
    BY <2>1, <2>2, <2>3 DEF TypeOK
<1>6. CASE Flip
  <2>1. call \in Call /\ call.gen \in Gens
    BY <1>6, CallFields, NewGenInactive DEF TypeOK, Flip, Flipping
  <2>2. call' \in Call /\ call'.pc = "sweep" /\ call'.req = call.req /\ call'.at = call.at
    BY <1>6, <2>1 DEF Flip, Call
  <2>3. call.req.enforce \in BOOLEAN /\ call.req.enforceEgress \in BOOLEAN /\ call.req.audit \in BOOLEAN
    BY CallFields DEF Request
  <2>4. epPolicy' \in [Eps -> Flags \cup {NoFlags}]
    BY <1>6, <2>1, <2>3, CallFields DEF TypeOK, Flip, Flags
  <2> QED
    BY <1>6, <2>2, <2>4, CallFields DEF TypeOK, Flip
<1>7. CASE SweepRow
  BY <1>7 DEF SweepRow, TypeOK, history, NewGen
<1> QED
  BY <1>1, <1>2, <1>3, <1>4, <1>5, <1>6, <1>7 DEF Next

\* Every map operation keeps the maps and the call well formed (TypeOK).
THEOREM TypesHold == Spec => []TypeOK
<1>1. Init => TypeOK
  BY InitTypes
<1>2. TypeOK /\ [Next]_vars => TypeOK'
  BY NextTypes
<1> QED
  BY <1>1, <1>2, PTL DEF Spec

-----------------------------------------------------------------------------
(***************************************************************************)
(* What inserting one rule does to a generation, and to Programmed.        *)
(***************************************************************************)
LEMMA ProgrammedNone ==
    ASSUME NEW req
    PROVE  Programmed(req, 0) = {}
BY DEF Programmed

Put(rows, slot, verdict) ==
    {x \in rows : x.slot # slot} \cup {[slot |-> slot, verdict |-> verdict]}

LEMMA ProgrammedNext ==
    ASSUME NEW req \in Request, NEW n \in Nat, n < Len(req.rules)
    PROVE  LET r == req.rules[n + 1]
           IN  Programmed(req, n + 1) =
                 IF Enforced(req, r.slot.dir) THEN Put(Programmed(req, n), r.slot, r.verdict)
                 ELSE Programmed(req, n)
<1> DEFINE r == req.rules[n + 1]
           row(i) == [slot |-> req.rules[i].slot, verdict |-> req.rules[i].verdict]
           Kept(m) == {k \in 1..m : /\ Enforced(req, req.rules[k].slot.dir)
                                    /\ \A j \in (k + 1)..m :
                                          req.rules[j].slot # req.rules[k].slot}
<1>1. \A m : Programmed(req, m) = {row(i) : i \in Kept(m)}
  BY DEF Programmed
<1>2. \A k \in 1..n : k \in Kept(n + 1) <=> k \in Kept(n) /\ req.rules[k].slot # r.slot
  OBVIOUS
<1>3. n + 1 \in Kept(n + 1) <=> Enforced(req, r.slot.dir)
  OBVIOUS
<1>4. ~Enforced(req, r.slot.dir) => \A k \in Kept(n) : req.rules[k].slot # r.slot
  OBVIOUS
<1>5. Kept(n + 1) \subseteq 1..(n + 1) /\ Kept(n) \subseteq 1..n
  OBVIOUS
<1> HIDE DEF Kept
<1>6. CASE Enforced(req, r.slot.dir)
  <2>1. ASSUME NEW x \in Programmed(req, n + 1)
        PROVE  x \in Put(Programmed(req, n), r.slot, r.verdict)
    <3>1. PICK i \in Kept(n + 1) : x = row(i)
      BY <1>1
    <3>2. CASE i = n + 1
      BY <3>1, <3>2 DEF Put
    <3>3. CASE i # n + 1
      <4>1. i \in Kept(n) /\ req.rules[i].slot # r.slot
        BY <1>2, <1>5, <3>3
      <4> QED
        BY <1>1, <3>1, <4>1 DEF Put
    <3> QED
      BY <3>2, <3>3
  <2>2. ASSUME NEW x \in Put(Programmed(req, n), r.slot, r.verdict)
        PROVE  x \in Programmed(req, n + 1)
    <3>1. CASE x = row(n + 1)
      BY <1>1, <1>3, <1>6, <3>1
    <3>2. CASE x \in Programmed(req, n) /\ x.slot # r.slot
      <4>1. PICK i \in Kept(n) : x = row(i)
        BY <1>1, <3>2
      <4>2. i \in Kept(n + 1)
        BY <1>2, <1>5, <3>2, <4>1
      <4> QED
        BY <1>1, <4>1, <4>2
    <3> QED
      BY <2>2, <3>1, <3>2 DEF Put
  <2> QED
    BY <1>6, <2>1, <2>2
<1>7. CASE ~Enforced(req, r.slot.dir)
  <2>1. Kept(n + 1) = Kept(n)
    <3>1. ASSUME NEW k \in Kept(n + 1) PROVE k \in Kept(n)
      <4>1. k # n + 1
        BY <1>3, <1>7
      <4>2. k \in 1..n
        BY <1>5, <4>1
      <4> QED
        BY <1>2, <4>2
    <3>2. ASSUME NEW k \in Kept(n) PROVE k \in Kept(n + 1)
      BY <1>2, <1>4, <1>5, <1>7
    <3> QED
      BY <3>1, <3>2
  <2> QED
    BY <1>1, <1>7, <2>1
<1> QED
  BY <1>6, <1>7

LEMMA InsertRows ==
    ASSUME TypeOK, InsertRule, NEW ep \in Eps, NEW g \in Gens
    PROVE  RowsOf(ep, g)' = IF ep = call.ep /\ g = call.gen
                            THEN Put(RowsOf(ep, g), NextRule.slot, NextRule.verdict)
                            ELSE RowsOf(ep, g)
<1>1. NextKey.ep = call.ep /\ NextKey.gen = call.gen /\ NextKey.slot = NextRule.slot /\ NextKey \in Key
  BY NextRuleType DEF InsertRule
<1>2. policy' = {r \in policy : r.key # NextKey}
                   \cup {[key |-> NextKey, verdict |-> NextRule.verdict]}
  BY DEF InsertRule
<1>3. \A r \in policy : r.key \in Key
  BY DEF TypeOK, Row
<1>4. \A r \in policy : r.key = NextKey <=> /\ r.key.ep = call.ep /\ r.key.gen = call.gen
                                            /\ r.key.slot = NextRule.slot
  BY <1>1, <1>3 DEF Key
<1>5. CASE ep = call.ep /\ g = call.gen
  <2> DEFINE new == [key |-> NextKey, verdict |-> NextRule.verdict]
             pair(r) == [slot |-> r.key.slot, verdict |-> r.verdict]
  <2>1. new.key = NextKey /\ pair(new) = [slot |-> NextRule.slot, verdict |-> NextRule.verdict]
    BY <1>1
  <2>2. RowsOf(ep, g) = {pair(x) : x \in {y \in policy : y.key.ep = ep /\ y.key.gen = g}}
    BY DEF RowsOf, RowsIn
  <2>3. {y \in policy' : y.key.ep = ep /\ y.key.gen = g} =
           {y \in policy : /\ y.key.ep = ep /\ y.key.gen = g
                           /\ y.key.slot # NextRule.slot} \cup {new}
    BY <1>1, <1>2, <1>4, <1>5, <2>1
  <2>4. RowsOf(ep, g)' = {pair(x) : x \in {y \in policy' : y.key.ep = ep /\ y.key.gen = g}}
    BY DEF RowsOf, RowsIn
  <2> HIDE DEF new
  <2>5. RowsOf(ep, g)' = {pair(x) : x \in {y \in policy : /\ y.key.ep = ep /\ y.key.gen = g
                                                         /\ y.key.slot # NextRule.slot}}
                           \cup {pair(new)}
    BY <2>3, <2>4
  <2>6. {pair(x) : x \in {y \in policy : /\ y.key.ep = ep /\ y.key.gen = g
                                         /\ y.key.slot # NextRule.slot}}
          = {z \in RowsOf(ep, g) : z.slot # NextRule.slot}
    BY <2>2
  <2> QED
    BY <1>5, <2>1, <2>5, <2>6 DEF Put
<1>6. CASE ~(ep = call.ep /\ g = call.gen)
  <2>1. {x \in policy' : x.key.ep = ep /\ x.key.gen = g}
          = {x \in policy : x.key.ep = ep /\ x.key.gen = g}
    BY <1>1, <1>2, <1>4, <1>6
  <2> QED
    BY <1>6, <2>1 DEF RowsOf, RowsIn
<1> QED
  BY <1>5, <1>6

-----------------------------------------------------------------------------
PolicyInv == FlipAtomic /\ InactiveSound

\* The step leaves endpoint e's word and history alone.
SameEndpoint(e) ==
    /\ epPolicy'[e] = epPolicy[e] /\ want'[e] = want[e]
    /\ failed'[e] = failed[e] /\ tainted'[e] = tainted[e]

\* FlipAtomic for ep depends only on these.
LEMMA FlipAtomicFrame ==
    ASSUME FlipAtomic, UNCHANGED <<epPolicy, want, tainted>>, TypeOK,
           \A ep \in Eps : epPolicy[ep] # NoFlags =>
               RowsOf(ep, epPolicy[ep].gen)' = RowsOf(ep, epPolicy[ep].gen)
    PROVE  FlipAtomic'
<1> SUFFICES ASSUME NEW ep \in Eps
             PROVE  IF epPolicy[ep] = NoFlags
                    THEN ~Enforces(want[ep])
                    ELSE /\ epPolicy[ep].ingress = want[ep].enforce
                         /\ epPolicy[ep].egress = want[ep].enforceEgress
                         /\ epPolicy[ep].audit = want[ep].audit
                         /\ ~tainted[ep] => RowsOf(ep, epPolicy[ep].gen)'
                                              = Programmed(want[ep], Len(want[ep].rules))
  BY DEF FlipAtomic, RowsOf
<1> QED
  BY DEF FlipAtomic

LEMMA InitPolicyInv ==
    ASSUME Init
    PROVE  PolicyInv
<1>1. ~Enforces(Unenforced)
  BY DEF Enforces, Unenforced
<1>2. call.pc = "idle" /\ policy = {}
  BY NoCallType DEF Init
<1> QED
  BY <1>1, <1>2 DEF Init, PolicyInv, FlipAtomic, InactiveSound

LEMMA CallPolicyInv ==
    ASSUME TypeOK, PolicyInv, NEW ep \in Eps,
           Unenforce(ep) \/ \E req \in Requests : SetPolicy(ep, req)
    PROVE  PolicyInv'
<1>1. call.pc = "idle" /\ policy' = policy
  BY NoCallType DEF Unenforce, SetPolicy, Idle
<1>2. \A e \in Eps : ~failed[e] => \A r \in policy : r.key.ep = e => r.key.gen = epPolicy[e].gen
  BY <1>1 DEF PolicyInv, InactiveSound
<1>3. CASE Unenforce(ep)
  <2>1. /\ call'.pc = "sweep" /\ call'.ep = ep /\ call'.gen = NoGen
        /\ epPolicy'[ep] = NoFlags /\ want'[ep] = Unenforced /\ ~failed'[ep]
        /\ \A e \in Eps \ {ep} : SameEndpoint(e)
    BY <1>3 DEF Unenforce, NoCall, TypeOK, SameEndpoint
  <2>2. ~Enforces(Unenforced)
    BY DEF Enforces, Unenforced
  <2>3. FlipAtomic'
    <3> SUFFICES ASSUME NEW e \in Eps
                 PROVE  IF epPolicy'[e] = NoFlags
                        THEN ~Enforces(want'[e])
                        ELSE /\ epPolicy'[e].ingress = want'[e].enforce
                             /\ epPolicy'[e].egress = want'[e].enforceEgress
                             /\ epPolicy'[e].audit = want'[e].audit
                             /\ ~tainted'[e] => RowsIn(policy', e, epPolicy'[e].gen)
                                                   = Programmed(want'[e], Len(want'[e].rules))
      BY DEF FlipAtomic, RowsOf
    <3>1. CASE e = ep
      BY <2>1, <2>2, <3>1
    <3>2. CASE e # ep
      BY <1>1, <2>1, <3>2 DEF PolicyInv, FlipAtomic, RowsOf, SameEndpoint
    <3> QED
      BY <3>1, <3>2
  <2>4. InactiveSound'
    <3> SUFFICES ASSUME NEW e \in Eps
                 PROVE  /\ (call'.ep # e \/ call'.pc = "idle") /\ ~failed'[e]
                              => \A r \in policy' : r.key.ep = e => r.key.gen = epPolicy'[e].gen
                        /\ (call'.ep = e /\ call'.pc = "insert" /\ ~failed'[e])
                              => RowsIn(policy', e, call'.gen) = Programmed(call'.req, call'.at)
                        /\ call'.ep = e /\ call'.pc = "sweep"
                              => call'.gen = epPolicy'[e].gen /\ ~failed'[e]
      BY DEF InactiveSound, RowsOf
    <3>1. CASE e = ep
      BY <2>1, <3>1, FlagFacts
    <3>2. CASE e # ep
      BY <1>1, <1>2, <2>1, <3>2 DEF SameEndpoint
    <3> QED
      BY <3>1, <3>2
  <2> QED
    BY <2>3, <2>4 DEF PolicyInv
<1>4. ASSUME NEW req \in Requests, SetPolicy(ep, req)
      PROVE  PolicyInv'
  <2>1. /\ call'.pc = "insert" /\ call'.ep = ep /\ call'.gen = NewGen(ep) /\ call'.at = 0
        /\ call'.req = req /\ UNCHANGED <<epPolicy, policy, want, failed, tainted>>
    BY <1>4 DEF SetPolicy, history
  <2>2. ~failed[ep] => RowsIn(policy, ep, NewGen(ep)) = {}
    BY <1>2, NewGenInactive DEF RowsIn
  <2>3. FlipAtomic'
    BY <2>1 DEF PolicyInv, FlipAtomic, RowsOf
  <2>4. InactiveSound'
    <3>1. ~failed[ep] => RowsIn(policy', ep, call'.gen) = Programmed(call'.req, call'.at)
      BY <2>1, <2>2, ProgrammedNone
    <3> QED
      BY <1>2, <2>1, <3>1 DEF InactiveSound, RowsOf
  <2> QED
    BY <2>3, <2>4 DEF PolicyInv
<1> QED
  BY <1>3, <1>4

LEMMA RulePolicyInv ==
    ASSUME TypeOK, PolicyInv, SkipRule \/ InsertRule
    PROVE  PolicyInv'
<1>1. /\ Inserting /\ call.pc = "insert" /\ call' = [call EXCEPT !.at = @ + 1]
      /\ UNCHANGED <<epPolicy, want, failed, tainted>>
  BY DEF SkipRule, InsertRule, Inserting, history
<1>2. /\ call'.pc = "insert" /\ call'.ep = call.ep /\ call'.gen = call.gen
      /\ call'.req = call.req /\ call'.at = call.at + 1
  BY <1>1 DEF TypeOK, Call
<1>3. call.gen = NewGen(call.ep) /\ call.gen \in Gens /\ call.gen # epPolicy[call.ep].gen
  BY <1>1, CallFields, NewGenInactive DEF TypeOK
<1>4. /\ call.req \in Request /\ call.at \in Nat /\ call.at < Len(call.req.rules)
      /\ NextRule = call.req.rules[call.at + 1]
  BY <1>1, CallFields DEF Inserting, NextRule
<1>5. RowsOf(call.ep, call.gen) = Programmed(call.req, call.at)
        => RowsOf(call.ep, call.gen)' = Programmed(call.req, call.at + 1)
  <2>1. CASE SkipRule
    <3>1. RowsOf(call.ep, call.gen)' = RowsOf(call.ep, call'.gen)
      BY <1>2, <2>1 DEF SkipRule, RowsOf
    <3> QED
      BY <1>2, <1>4, <2>1, <3>1, ProgrammedNext DEF SkipRule
  <2>2. CASE InsertRule
    <3>1. Programmed(call.req, call.at + 1)
            = Put(Programmed(call.req, call.at), NextRule.slot, NextRule.verdict)
      BY <1>4, <2>2, ProgrammedNext DEF InsertRule
    <3>2. PICK e \in Eps, g \in Gens : e = call.ep /\ g = call.gen
      BY <1>3, CallFields
    <3>3. RowsOf(e, g)' = Put(RowsOf(e, g), NextRule.slot, NextRule.verdict)
      BY <2>2, <3>2, InsertRows
    <3>4. RowsOf(call.ep, call.gen)' = RowsOf(e, g)'
      BY <1>2, <3>2
    <3> QED
      BY <3>1, <3>2, <3>3, <3>4
  <2> QED
    BY <2>1, <2>2
<1>6. \A e \in Eps, g \in Gens : ~(e = call.ep /\ g = call.gen) => RowsOf(e, g)' = RowsOf(e, g)
  <2>1. CASE SkipRule
    BY <2>1 DEF SkipRule, RowsOf
  <2>2. CASE InsertRule
    BY <2>2, InsertRows
  <2> QED
    BY <2>1, <2>2
<1>7. \A r \in policy' : r \in policy \/ r.key.ep = call.ep
  <2>1. CASE SkipRule
    BY <2>1 DEF SkipRule
  <2>2. CASE InsertRule
    BY <2>2, NextRuleType DEF InsertRule
  <2> QED
    BY <2>1, <2>2
<1>8. FlipAtomic'
  <2>1. \A e \in Eps : epPolicy[e] # NoFlags =>
           RowsOf(e, epPolicy[e].gen)' = RowsOf(e, epPolicy[e].gen)
    <3> SUFFICES ASSUME NEW e \in Eps, epPolicy[e] # NoFlags
                 PROVE  RowsOf(e, epPolicy[e].gen)' = RowsOf(e, epPolicy[e].gen)
      OBVIOUS
    <3>1. PICK g \in Gens : g = epPolicy[e].gen
      BY FlagFacts DEF TypeOK
    <3>2. RowsOf(e, g)' = RowsOf(e, g)
      BY <1>3, <1>6, <3>1
    <3>3. RowsOf(e, epPolicy[e].gen)' = RowsOf(e, g)'
      BY <1>1, <3>1
    <3> QED
      BY <3>1, <3>2, <3>3
  <2> QED
    BY <1>1, <2>1, FlipAtomicFrame DEF PolicyInv
<1>9. InactiveSound'
  BY <1>1, <1>2, <1>5, <1>7 DEF PolicyInv, InactiveSound
<1> QED
  BY <1>8, <1>9 DEF PolicyInv

\* A call that fails leaves rows behind, marked by `failed'; one that ends has
\* swept everything but the active generation.
LEMMA ReturnPolicyInv ==
    ASSUME TypeOK, PolicyInv, InsertFails \/ FlipFails \/ SweepEnd
    PROVE  PolicyInv'
<1>1. /\ call'.pc = "idle" /\ UNCHANGED <<epPolicy, policy, want, tainted>>
      /\ call.ep \in Eps
  BY NoCallType, CallFields DEF InsertFails, FlipFails, SweepEnd, history
<1>2. FlipAtomic'
  BY <1>1 DEF PolicyInv, FlipAtomic, RowsOf
<1>3. CASE InsertFails \/ FlipFails
  <2>1. \A e \in Eps : failed'[e] = (e = call.ep \/ failed[e])
    BY <1>3 DEF InsertFails, FlipFails, TypeOK
  <2> QED
    BY <1>1, <1>2, <2>1 DEF PolicyInv, InactiveSound
<1>4. CASE SweepEnd
  <2>1. /\ call.pc = "sweep" /\ failed' = failed
        /\ \A r \in policy : r.key.ep = call.ep => r.key.gen = call.gen
    BY <1>4 DEF SweepEnd, Stale, history
  <2> QED
    BY <1>1, <1>2, <2>1 DEF PolicyInv, InactiveSound
<1> QED
  BY <1>3, <1>4

\* The flip activates what was inserted: the whole request, and what an
\* earlier failed call had left in that generation.
LEMMA FlipPolicyInv ==
    ASSUME TypeOK, PolicyInv, Flip
    PROVE  PolicyInv'
<1>1. /\ call.pc = "insert" /\ call.ep \in Eps /\ policy' = policy
      /\ call.at = Len(call.req.rules) /\ call.gen \in Gens
  BY CallFields, NewGenInactive DEF Flip, Flipping, TypeOK
<1> DEFINE word == [ingress |-> call.req.enforce, egress |-> call.req.enforceEgress,
                    audit |-> call.req.audit, gen |-> call.gen]
<1>2. /\ call'.pc = "sweep" /\ call'.ep = call.ep /\ call'.gen = call.gen
      /\ epPolicy'[call.ep] = word /\ want'[call.ep] = call.req /\ ~failed'[call.ep]
      /\ tainted'[call.ep] = failed[call.ep]
      /\ \A e \in Eps \ {call.ep} : SameEndpoint(e)
  BY <1>1 DEF Flip, TypeOK, Call, SameEndpoint
<1>3. /\ word # NoFlags /\ word.gen = call.gen /\ word.ingress = call.req.enforce
      /\ word.egress = call.req.enforceEgress /\ word.audit = call.req.audit
  BY <1>1, FlagFacts
<1> HIDE DEF word
<1>4. ~failed[call.ep] => RowsIn(policy, call.ep, call.gen)
                             = Programmed(call.req, Len(call.req.rules))
  BY <1>1 DEF PolicyInv, InactiveSound, RowsOf
<1>5. FlipAtomic'
  <2> SUFFICES ASSUME NEW e \in Eps
               PROVE  IF epPolicy'[e] = NoFlags
                      THEN ~Enforces(want'[e])
                      ELSE /\ epPolicy'[e].ingress = want'[e].enforce
                           /\ epPolicy'[e].egress = want'[e].enforceEgress
                           /\ epPolicy'[e].audit = want'[e].audit
                           /\ ~tainted'[e] => RowsIn(policy', e, epPolicy'[e].gen)
                                                 = Programmed(want'[e], Len(want'[e].rules))
    BY DEF FlipAtomic, RowsOf
  <2>1. CASE e = call.ep
    BY <1>1, <1>2, <1>3, <1>4, <2>1
  <2>2. CASE e # call.ep
    BY <1>1, <1>2, <2>2 DEF PolicyInv, FlipAtomic, RowsOf, SameEndpoint
  <2> QED
    BY <2>1, <2>2
<1>6. InactiveSound'
  <2> SUFFICES ASSUME NEW e \in Eps
               PROVE  /\ (call'.ep # e \/ call'.pc = "idle") /\ ~failed'[e]
                            => \A r \in policy' : r.key.ep = e => r.key.gen = epPolicy'[e].gen
                      /\ (call'.ep = e /\ call'.pc = "insert" /\ ~failed'[e])
                            => RowsIn(policy', e, call'.gen) = Programmed(call'.req, call'.at)
                      /\ call'.ep = e /\ call'.pc = "sweep"
                            => call'.gen = epPolicy'[e].gen /\ ~failed'[e]
    BY DEF InactiveSound, RowsOf
  <2>1. CASE e = call.ep
    BY <1>2, <1>3, <2>1
  <2>2. CASE e # call.ep
    BY <1>1, <1>2, <2>2 DEF PolicyInv, InactiveSound, SameEndpoint
  <2> QED
    BY <2>1, <2>2
<1> QED
  BY <1>5, <1>6 DEF PolicyInv

\* The sweep takes rows of the inactive generation only.
LEMMA SweepPolicyInv ==
    ASSUME TypeOK, PolicyInv, SweepRow
    PROVE  PolicyInv'
<1>1. PICK r \in Stale : policy' = policy \ {r}
  BY DEF SweepRow
<1>2. call.pc = "sweep" /\ UNCHANGED <<epPolicy, call, want, failed, tainted>> /\ call.ep \in Eps
  BY CallFields DEF SweepRow, history
<1>3. r.key.ep = call.ep /\ r.key.gen # epPolicy[call.ep].gen
  BY <1>1, <1>2 DEF Stale, PolicyInv, InactiveSound
<1>4. \A e \in Eps : RowsIn(policy', e, epPolicy[e].gen) = RowsIn(policy, e, epPolicy[e].gen)
  <2> TAKE e \in Eps
  <2>1. {x \in policy' : x.key.ep = e /\ x.key.gen = epPolicy[e].gen}
          = {x \in policy : x.key.ep = e /\ x.key.gen = epPolicy[e].gen}
    BY <1>1, <1>3
  <2> QED
    BY <2>1 DEF RowsIn
<1>5. FlipAtomic'
  BY <1>2, <1>4 DEF PolicyInv, FlipAtomic, RowsOf
<1>6. InactiveSound'
  BY <1>1, <1>2 DEF PolicyInv, InactiveSound
<1> QED
  BY <1>5, <1>6 DEF PolicyInv

LEMMA NextPolicyInv ==
    ASSUME TypeOK, PolicyInv, [Next]_vars
    PROVE  PolicyInv'
<1>1. CASE UNCHANGED vars
  BY <1>1 DEF vars, PolicyInv, FlipAtomic, InactiveSound, RowsOf
<1> QED
  BY <1>1, CallPolicyInv, RulePolicyInv, ReturnPolicyInv, FlipPolicyInv, SweepPolicyInv DEF Next

\* For any endpoints, requests and map sizes: at every instant the flags and
\* the rules a packet finds active are those of one request, FlipAtomic.
THEOREM FlipIsAtomic == Spec => []FlipAtomic
<1>1. Init => TypeOK /\ PolicyInv
  BY InitTypes, InitPolicyInv
<1>2. TypeOK /\ PolicyInv /\ [Next]_vars => (TypeOK /\ PolicyInv)'
  BY NextTypes, NextPolicyInv
<1>3. PolicyInv => FlipAtomic
  BY DEF PolicyInv
<1> QED
  BY <1>1, <1>2, <1>3, PTL DEF Spec

\* What the generation that is not active holds, InactiveSound: nothing
\* between calls, and a prefix of the request while it is inserted.
THEOREM InactiveIsSound == Spec => []InactiveSound
<1>1. Init => TypeOK /\ PolicyInv
  BY InitTypes, InitPolicyInv
<1>2. TypeOK /\ PolicyInv /\ [Next]_vars => (TypeOK /\ PolicyInv)'
  BY NextTypes, NextPolicyInv
<1>3. PolicyInv => InactiveSound
  BY DEF PolicyInv
<1> QED
  BY <1>1, <1>2, <1>3, PTL DEF Spec

\* Replacing and removing policies leaks no rows of POLICY (NoOrphans): the
\* sweep of each call has run to its end when the next one starts.
THEOREM NothingLeaks == Spec => []NoOrphans
<1>1. TypeOK /\ InactiveSound => NoOrphans
  <2> SUFFICES ASSUME TypeOK, InactiveSound, Idle, NEW r \in policy
               PROVE  r.key.gen = epPolicy[r.key.ep].gen \/ failed[r.key.ep]
    BY DEF NoOrphans
  <2>1. call.pc = "idle" /\ r.key.ep \in Eps
    BY NoCallType DEF Idle, TypeOK, Row, Key
  <2> QED
    BY <2>1 DEF InactiveSound
<1> QED
  BY <1>1, TypesHold, InactiveIsSound, PTL

-----------------------------------------------------------------------------
(***************************************************************************)
(* Packets.  The six probes decide what a request means for a packet,      *)
(* provided it is Shaped.                                                  *)
(***************************************************************************)

\* The request in force and the one being inserted came from a caller.
WantsShaped ==
    /\ \A ep \in Eps : Shaped(want[ep])
    /\ call.pc = "insert" => Shaped(call.req)

\* The verdict, if any, that the j-th probe finds when req is in force.
Found(pkt, req, j) ==
    {v \in Verdicts : [slot |-> ProbeSlot(pkt, POLICY_PATS[j]), verdict |-> v]
                        \in Programmed(req, Len(req.rules))}

Judgement == [pc : {"probe", "done"}, pkt : Packets, flags : Flags \cup {NoFlags},
              i : 1..6, allowed : BOOLEAN,
              verdict : {"none", "forwarded", "audited", "dropped"},
              first : {"forwarded", "audited", "dropped"},
              switched : BOOLEAN, tainted : BOOLEAN]

\* Up to its endpoint's next switch, a packet's probes so far are probes of the
\* request that was in force when it loaded the flags.
ProbesSound(l) ==
    LET req == want[l.pkt.ep]
    IN  /\ epPolicy[l.pkt.ep] = l.flags /\ l.flags \in Flags
        /\ EpFlag(l.flags, l.pkt.dir)
        /\ ~tainted[l.pkt.ep]
        /\ l.first = Meaning(req, l.pkt)
        /\ \A j \in 1..(l.i - 1) : "deny" \notin Found(l.pkt, req, j)
        /\ l.allowed <=> \E j \in 1..(l.i - 1) : Found(l.pkt, req, j) # {}

PacketSound(l) ==
    \/ l = NoPacket
    \/ /\ l \in Judgement
       /\ l.pc = "probe" /\ ~l.switched /\ ~l.tainted => ProbesSound(l)
       /\ l.pc = "done" /\ ~l.switched /\ ~l.tainted => l.verdict = l.first

PacketsSound == rd = [r \in Readers |-> rd[r]] /\ \A r \in Readers : PacketSound(rd[r])

LEMMA Patterns ==
    /\ Len(POLICY_PATS) = 6
    /\ POLICY_PATS[1] = {} /\ POLICY_PATS[2] = {"port"} /\ POLICY_PATS[3] = {"proto", "port"}
    /\ POLICY_PATS[4] = {"identity"} /\ POLICY_PATS[5] = {"identity", "port"}
    /\ POLICY_PATS[6] = {"identity", "proto", "port"}
BY DEF POLICY_PATS

LEMMA ProbeFields ==
    ASSUME NEW pkt, NEW pat
    PROVE  LET s == ProbeSlot(pkt, pat)
           IN  /\ s = [dir |-> s.dir, identity |-> s.identity, proto |-> s.proto, port |-> s.port]
               /\ s.dir = pkt.dir
               /\ s.identity = IF "identity" \in pat THEN 0 ELSE pkt.identity
               /\ s.proto = IF "proto" \in pat THEN 0 ELSE pkt.proto
               /\ s.port = IF "port" \in pat THEN 0 ELSE pkt.port
BY DEF ProbeSlot, Pick

\* A rule that matches a packet, and no other, has a slot that is probed.
LEMMA MatchIsProbe ==
    ASSUME NEW pkt, NEW slot \in Slot, slot.port # 0 => slot.proto # 0
    PROVE  RuleMatches(slot, pkt) => \E j \in 1..6 : slot = ProbeSlot(pkt, POLICY_PATS[j])
<1> SUFFICES ASSUME RuleMatches(slot, pkt)
             PROVE  \E j \in 1..6 : slot = ProbeSlot(pkt, POLICY_PATS[j])
  OBVIOUS
<1>1. /\ slot = [dir |-> slot.dir, identity |-> slot.identity,
                 proto |-> slot.proto, port |-> slot.port]
      /\ slot.dir = pkt.dir /\ slot.identity \in {0, pkt.identity}
      /\ slot.proto \in {0, pkt.proto} /\ slot.port \in {0, pkt.port}
  BY DEF Slot, RuleMatches
<1> DEFINE P(id, proto, port) ==
              [dir |-> pkt.dir, identity |-> id, proto |-> proto, port |-> port]
<1>2. /\ ProbeSlot(pkt, POLICY_PATS[1]) = P(pkt.identity, pkt.proto, pkt.port)
      /\ ProbeSlot(pkt, POLICY_PATS[2]) = P(pkt.identity, pkt.proto, 0)
      /\ ProbeSlot(pkt, POLICY_PATS[3]) = P(pkt.identity, 0, 0)
      /\ ProbeSlot(pkt, POLICY_PATS[4]) = P(0, pkt.proto, pkt.port)
      /\ ProbeSlot(pkt, POLICY_PATS[5]) = P(0, pkt.proto, 0)
      /\ ProbeSlot(pkt, POLICY_PATS[6]) = P(0, 0, 0)
  BY Patterns DEF ProbeSlot, Pick
<1>3. slot = P(slot.identity, slot.proto, slot.port)
  BY <1>1
<1>4. \/ slot.proto = pkt.proto /\ slot.port = pkt.port
      \/ slot.proto = pkt.proto /\ slot.port = 0
      \/ slot.proto = 0 /\ slot.port = 0
  BY <1>1
<1> HIDE DEF P
<1>5. /\ 1 \in 1..6 /\ 2 \in 1..6 /\ 3 \in 1..6 /\ 4 \in 1..6 /\ 5 \in 1..6 /\ 6 \in 1..6
  OBVIOUS
<1>6. CASE slot.identity = pkt.identity
  BY <1>2, <1>3, <1>4, <1>5, <1>6
<1>7. CASE slot.identity = 0
  BY <1>2, <1>3, <1>4, <1>5, <1>7
<1> QED
  BY <1>1, <1>6, <1>7

LEMMA ProbeMatches ==
    ASSUME NEW pkt, NEW pat
    PROVE  RuleMatches(ProbeSlot(pkt, pat), pkt)
BY ProbeFields DEF RuleMatches

\* Of the rules with the slot of rule i the last one is programmed.
LEMMA LastProgrammed ==
    ASSUME NEW req \in Request, NEW i \in DOMAIN req.rules,
           Enforced(req, req.rules[i].slot.dir)
    PROVE  \E k \in DOMAIN req.rules :
              /\ i <= k /\ req.rules[k].slot = req.rules[i].slot
              /\ [slot |-> req.rules[k].slot, verdict |-> req.rules[k].verdict]
                    \in Programmed(req, Len(req.rules))
<1> DEFINE n == Len(req.rules)
           S == {k \in 1..n : req.rules[k].slot = req.rules[i].slot}
           R == {ss \in Nat \X Nat : ss[1] < ss[2]}
           T == {n - x : x \in S}
<1>1. req.rules \in Seq(Rule) /\ n \in Nat /\ DOMAIN req.rules = 1..n
  BY DEF Request
<1>2. IsWellFoundedOn(R, Nat)
  BY NatLessThanWellFounded, Zenon DEF OpToRel
<1>3. i \in S /\ n - i \in T /\ T \subseteq Nat
  BY <1>1
<1>4. PICK t \in T : \A y \in T : ~(<<y, t>> \in R)
  <2> HIDE DEF R, T, S
  <2> QED
    BY <1>2, <1>3, WFMin
<1>5. PICK k \in S : t = n - k
  BY <1>4
<1>6. \A y \in S : y <= k
  <2> TAKE y \in S
  <2>1. n - y \in T /\ n - y \in Nat /\ t \in Nat
    BY <1>3
  <2>2. ~(n - y < t)
    BY <2>1, <1>4
  <2> QED
    BY <1>1, <1>5, <2>1, <2>2
<1>7. k \in 1..n /\ req.rules[k].slot = req.rules[i].slot /\ i <= k
  BY <1>3, <1>6
<1>8. \A j \in (k + 1)..n : req.rules[j].slot # req.rules[k].slot
  <2> SUFFICES ASSUME NEW j \in (k + 1)..n, req.rules[j].slot = req.rules[k].slot PROVE FALSE
    OBVIOUS
  <2>1. j \in S /\ j > k
    BY <1>1, <1>7
  <2> QED
    BY <1>1, <1>6, <1>7, <2>1
<1> HIDE DEF S, T, R, n
<1> QED
  BY <1>1, <1>7, <1>8 DEF Programmed, n

\* What is programmed came from a rule.
LEMMA ProgrammedRule ==
    ASSUME NEW req \in Request, NEW x \in Programmed(req, Len(req.rules))
    PROVE  \E k \in DOMAIN req.rules :
              /\ Enforced(req, req.rules[k].slot.dir)
              /\ x.slot = req.rules[k].slot /\ x.verdict = req.rules[k].verdict
<1>1. DOMAIN req.rules = 1..Len(req.rules)
  BY DEF Request
<1> QED
  BY <1>1 DEF Programmed

\* Together the six probes find what the request means.
LEMMA ProbesDecide ==
    ASSUME NEW req \in Request, Shaped(req), NEW pkt, Enforced(req, pkt.dir)
    PROVE  /\ (\E j \in 1..6 : "deny" \in Found(pkt, req, j))
                <=> Matching(req, pkt, "deny") # {}
           /\ Matching(req, pkt, "deny") = {} =>
                ((\E j \in 1..6 : Found(pkt, req, j) # {})
                    <=> Matching(req, pkt, "allow") # {})
<1>1. ASSUME NEW i \in DOMAIN req.rules, RuleMatches(req.rules[i].slot, pkt)
      PROVE  /\ req.rules[i].slot \in Slot /\ req.rules[i].verdict \in Verdicts
             /\ Enforced(req, req.rules[i].slot.dir)
             /\ \E j \in 1..6 : req.rules[i].slot = ProbeSlot(pkt, POLICY_PATS[j])
  <2>1. req.rules[i] \in Rule
    BY DEF Request
  <2>2. req.rules[i].slot \in Slot /\ req.rules[i].verdict \in Verdicts
    BY <2>1 DEF Rule
  <2>3. req.rules[i].slot.dir = pkt.dir
    BY <1>1 DEF RuleMatches
  <2> QED
    BY <1>1, <2>2, <2>3, MatchIsProbe DEF Shaped
<1>2. ASSUME NEW i \in Matching(req, pkt, "deny")
      PROVE  \E j \in 1..6 : "deny" \in Found(pkt, req, j)
  <2>1. i \in DOMAIN req.rules /\ RuleMatches(req.rules[i].slot, pkt)
        /\ req.rules[i].verdict = "deny"
    BY DEF Matching
  <2>2. PICK j \in 1..6 : req.rules[i].slot = ProbeSlot(pkt, POLICY_PATS[j])
    BY <1>1, <2>1
  <2>3. PICK k \in DOMAIN req.rules :
           /\ i <= k /\ req.rules[k].slot = req.rules[i].slot
           /\ [slot |-> req.rules[k].slot, verdict |-> req.rules[k].verdict]
                 \in Programmed(req, Len(req.rules))
    BY <1>1, <2>1, LastProgrammed
  <2>4. req.rules[k].verdict = "deny"
    <3>1. i \in Nat /\ k \in Nat
      BY <2>1 DEF Request
    <3>2. k = i \/ i < k
      BY <2>3, <3>1
    <3> QED
      BY <2>1, <2>3, <3>2 DEF Shaped
  <2> QED
    BY <2>2, <2>3, <2>4 DEF Found, Verdicts
<1>3. ASSUME NEW i \in Matching(req, pkt, "allow")
      PROVE  \E j \in 1..6 : Found(pkt, req, j) # {}
  <2>1. i \in DOMAIN req.rules /\ RuleMatches(req.rules[i].slot, pkt)
    BY DEF Matching
  <2>2. PICK j \in 1..6 : req.rules[i].slot = ProbeSlot(pkt, POLICY_PATS[j])
    BY <1>1, <2>1
  <2>3. PICK k \in DOMAIN req.rules :
           /\ i <= k /\ req.rules[k].slot = req.rules[i].slot
           /\ [slot |-> req.rules[k].slot, verdict |-> req.rules[k].verdict]
                 \in Programmed(req, Len(req.rules))
    BY <1>1, <2>1, LastProgrammed
  <2>4. req.rules[k].verdict \in Verdicts
    BY <1>1, <2>1, <2>3
  <2>5. req.rules[k].verdict \in Found(pkt, req, j)
    BY <2>2, <2>3, <2>4 DEF Found
  <2> QED
    BY <2>5
<1>4. ASSUME NEW j \in 1..6, NEW v \in Found(pkt, req, j)
      PROVE  Matching(req, pkt, v) # {}
  <2> DEFINE x == [slot |-> ProbeSlot(pkt, POLICY_PATS[j]), verdict |-> v]
  <2>1. x \in Programmed(req, Len(req.rules))
    BY DEF Found
  <2>2. PICK k \in DOMAIN req.rules :
           /\ ProbeSlot(pkt, POLICY_PATS[j]) = req.rules[k].slot /\ v = req.rules[k].verdict
    BY <2>1, ProgrammedRule
  <2> QED
    BY <2>2, ProbeMatches DEF Matching
<1>5. \A j : Found(pkt, req, j) \subseteq {"allow", "deny"}
  BY DEF Found, Verdicts
<1> QED
  BY <1>2, <1>3, <1>4, <1>5

LEMMA ShapedStep ==
    ASSUME \A req \in Requests : Shaped(req), TypeOK, WantsShaped, [Next]_vars
    PROVE  WantsShaped'
<1>1. Shaped(Unenforced)
  <2>1. DOMAIN Unenforced.rules = {}
    BY DEF Unenforced
  <2> QED
    BY <2>1 DEF Shaped
<1>2. CASE UNCHANGED vars
  BY <1>2 DEF vars, WantsShaped
<1>3. ASSUME NEW ep \in Eps, NEW req \in Requests, SetPolicy(ep, req)
      PROVE  WantsShaped'
  BY <1>3 DEF SetPolicy, WantsShaped, history
<1>4. ASSUME NEW ep \in Eps, Unenforce(ep)
      PROVE  WantsShaped'
  <2>1. call'.pc = "sweep"
    BY <1>4 DEF Unenforce, NoCall
  <2>2. want' = [want EXCEPT ![ep] = Unenforced]
    BY <1>4 DEF Unenforce
  <2> QED
    BY <1>1, <2>1, <2>2 DEF WantsShaped, TypeOK
<1>5. CASE SkipRule \/ InsertRule
  <2>1. want' = want /\ call.pc = "insert" /\ call'.req = call.req
    BY <1>5 DEF SkipRule, InsertRule, Inserting, history, TypeOK, Call
  <2> QED
    BY <2>1 DEF WantsShaped
<1>6. CASE InsertFails \/ FlipFails \/ SweepEnd
  <2>1. want' = want /\ call'.pc = "idle"
    BY <1>6, NoCallType DEF InsertFails, FlipFails, SweepEnd, history
  <2> QED
    BY <2>1 DEF WantsShaped
<1>7. CASE Flip
  <2>1. call'.pc = "sweep" /\ call.pc = "insert"
    BY <1>7 DEF Flip, Flipping, TypeOK, Call
  <2>2. want' = [want EXCEPT ![call.ep] = call.req]
    BY <1>7 DEF Flip
  <2> QED
    BY <2>1, <2>2 DEF WantsShaped, TypeOK
<1>8. CASE SweepRow
  BY <1>8 DEF SweepRow, history, WantsShaped
<1> QED
  BY <1>2, <1>3, <1>4, <1>5, <1>6, <1>7, <1>8 DEF Next

\* While its word stays as it is, an endpoint keeps its request.
LEMMA SwitchSeen ==
    ASSUME TypeOK, [Next]_vars, NEW ep \in Eps, epPolicy[ep] \in Flags,
           epPolicy'[ep] = epPolicy[ep]
    PROVE  want'[ep] = want[ep] /\ tainted'[ep] = tainted[ep]
<1>1. epPolicy[ep] # NoFlags
  BY FlagFacts
<1>2. ASSUME NEW e \in Eps, Unenforce(e)
      PROVE  want'[ep] = want[ep] /\ tainted'[ep] = tainted[ep]
  <2>1. e # ep
    BY <1>1, <1>2 DEF Unenforce, TypeOK
  <2> QED
    BY <1>2, <2>1 DEF Unenforce, TypeOK
<1>3. CASE Flip
  <2>1. call.ep \in Eps /\ call.gen = NewGen(call.ep)
    BY <1>3, CallFields DEF Flip, Flipping, TypeOK
  <2>2. epPolicy'[call.ep].gen = call.gen
    BY <1>3, <2>1 DEF Flip, TypeOK
  <2>3. call.ep # ep
    BY <2>1, <2>2, NewGenInactive
  <2> QED
    BY <1>3, <2>1, <2>3 DEF Flip, TypeOK
<1> QED
  BY <1>2, <1>3 DEF Next, vars, history, SetPolicy, SkipRule, InsertRule, InsertFails,
                    FlipFails, SweepRow, SweepEnd

\* Under the active generation a key is bound to what the request programs.
LEMMA RowsFound ==
    ASSUME TypeOK, FlipAtomic, NEW pkt, pkt.ep \in Eps, epPolicy[pkt.ep] \in Flags,
           ~tainted[pkt.ep], NEW j, NEW key,
           key = [ep |-> pkt.ep, gen |-> epPolicy[pkt.ep].gen,
                  slot |-> ProbeSlot(pkt, POLICY_PATS[j])]
    PROVE  {x.verdict : x \in {y \in policy : y.key = key}} = Found(pkt, want[pkt.ep], j)
<1> DEFINE ep == pkt.ep
           gen == epPolicy[pkt.ep].gen
           s == ProbeSlot(pkt, POLICY_PATS[j])
<1>1. RowsOf(ep, gen) = Programmed(want[ep], Len(want[ep].rules))
  BY FlagFacts DEF FlipAtomic
<1>2. \A y \in policy : /\ y.key = [ep |-> y.key.ep, gen |-> y.key.gen, slot |-> y.key.slot]
                        /\ y.verdict \in Verdicts
  BY DEF TypeOK, Row, Key
<1>3. key = [ep |-> ep, gen |-> gen, slot |-> s] /\ key.ep = ep /\ key.gen = gen /\ key.slot = s
  OBVIOUS
<1> HIDE DEF ep, gen, s
<1>4. \A y \in policy : y.key = key <=> y.key.ep = ep /\ y.key.gen = gen /\ y.key.slot = s
  BY <1>2, <1>3
<1>5. \A v : [slot |-> s, verdict |-> v] \in RowsOf(ep, gen)
               <=> \E y \in policy : y.key.ep = ep /\ y.key.gen = gen
                                     /\ y.key.slot = s /\ y.verdict = v
  <2> SUFFICES ASSUME NEW v
               PROVE  [slot |-> s, verdict |-> v] \in RowsOf(ep, gen)
                        <=> \E y \in policy : y.key.ep = ep /\ y.key.gen = gen
                                              /\ y.key.slot = s /\ y.verdict = v
    OBVIOUS
  <2>1. ASSUME NEW y \in policy,
               [slot |-> y.key.slot, verdict |-> y.verdict] = [slot |-> s, verdict |-> v]
        PROVE  y.key.slot = s /\ y.verdict = v
    BY <2>1
  <2> QED
    BY <2>1 DEF RowsOf, RowsIn
<1>6. Found(pkt, want[ep], j) = {v \in Verdicts : [slot |-> s, verdict |-> v] \in RowsOf(ep, gen)}
  BY <1>1 DEF Found, s
<1>7. {x.verdict : x \in {y \in policy : y.key = key}}
        = {v \in Verdicts : [slot |-> s, verdict |-> v] \in RowsOf(ep, gen)}
  BY <1>2, <1>4, <1>5
<1> QED
  BY <1>6, <1>7 DEF ep

\* A step of user space leaves a packet's judgement sound, or marks it.
LEMMA ControlSound ==
    ASSUME TypeOK, ControlStep, NEW r \in Readers, PacketSound(rd[r])
    PROVE  PacketSound(rd[r])'
<1> DEFINE l == rd[r]
           ep == l.pkt.ep
           m == rd'[r]
<1>1. m = IF l.pc # "probe" THEN l
          ELSE [l EXCEPT !.switched = @ \/ epPolicy'[ep] # epPolicy[ep]]
  BY DEF ControlStep
<1>2. CASE l.pc # "probe"
  <2>1. m = l
    BY <1>1, <1>2
  <2>2. (l = NoPacket) \/ (l \in Judgement /\ l.pc = "done" /\
                           (~l.switched /\ ~l.tainted => l.verdict = l.first))
    BY <1>2 DEF PacketSound, Judgement
  <2> QED
    BY <2>1, <2>2 DEF PacketSound, NoPacket, Judgement
<1>3. CASE l.pc = "probe"
  <2>1. l \in Judgement
    BY <1>3 DEF PacketSound, NoPacket
  <2>2. m = [l EXCEPT !.switched = @ \/ epPolicy'[ep] # epPolicy[ep]]
    BY <1>1, <1>3
  <2>3. /\ m \in Judgement /\ m.pc = "probe" /\ m.pkt = l.pkt /\ m.flags = l.flags
        /\ m.i = l.i /\ m.allowed = l.allowed /\ m.first = l.first /\ m.tainted = l.tainted
    BY <1>3, <2>1, <2>2 DEF Judgement
  <2>4. m.switched = (l.switched \/ epPolicy'[ep] # epPolicy[ep])
    BY <2>1, <2>2 DEF Judgement
  <2>5. ~m.switched => ~l.switched /\ epPolicy'[ep] = epPolicy[ep]
    <3> HIDE DEF m, l, ep
    <3> QED
      BY <2>4, Zenon
  <2>6. Judgement' = Judgement
    BY DEF Judgement
  <2>7. ep \in Eps
    BY <2>1, PacketsAssumption DEF Judgement
  <2>8. ASSUME ~m.switched, ~m.tainted PROVE ProbesSound(rd[r])'
    <3>1. ProbesSound(l)
      BY <1>3, <2>1, <2>3, <2>5, <2>8 DEF PacketSound, NoPacket
    <3>2. epPolicy[ep] \in Flags /\ epPolicy'[ep] = epPolicy[ep]
      BY <2>5, <2>8, <3>1 DEF ProbesSound
    <3>3. want'[ep] = want[ep] /\ tainted'[ep] = tainted[ep]
      BY <2>7, <3>2, SwitchSeen DEF ControlStep
    <3> QED
      BY <2>3, <3>1, <3>2, <3>3 DEF ProbesSound, m
  <2> QED
    BY <2>3, <2>6, <2>8 DEF PacketSound, m
<1> QED
  BY <1>2, <1>3

\* The flags a packet loads are those of the request in force.
LEMMA FlagsMeant ==
    ASSUME TypeOK, FlipAtomic, NEW pkt \in Packets
    PROVE  LET flags == epPolicy[pkt.ep]
               req == want[pkt.ep]
           IN  /\ pkt.ep \in Eps /\ req \in Request
               /\ flags \in Flags \cup {NoFlags}
               /\ EpFlag(flags, pkt.dir) <=> Enforced(req, pkt.dir)
               /\ EpFlag(flags, pkt.dir) => flags \in Flags /\ (flags.audit <=> req.audit)
               /\ Meaning(req, pkt) \in {"forwarded", "audited", "dropped"}
               /\ ~Enforced(req, pkt.dir) => Meaning(req, pkt) = "forwarded"
<1> DEFINE flags == epPolicy[pkt.ep]
           req == want[pkt.ep]
<1>1. pkt.ep \in Eps /\ pkt.dir \in Dirs
  BY PacketsAssumption
<1>2. flags \in Flags \cup {NoFlags} /\ req \in Request
  BY <1>1 DEF TypeOK
<1>3. CASE flags = NoFlags
  <2>1. ~Enforces(req)
    BY <1>1, <1>3 DEF FlipAtomic
  <2>2. ~Enforced(req, pkt.dir) /\ ~EpFlag(flags, pkt.dir)
    BY <1>3, <2>1 DEF Enforces, Enforced, EpFlag, NoFlags
  <2> QED
    BY <1>1, <1>2, <2>2 DEF Meaning
<1>4. CASE flags # NoFlags
  <2>1. flags.ingress = req.enforce /\ flags.egress = req.enforceEgress /\ flags.audit = req.audit
    BY <1>1, <1>4 DEF FlipAtomic
  <2>2. EpFlag(flags, pkt.dir) <=> Enforced(req, pkt.dir)
    BY <2>1 DEF EpFlag, Enforced
  <2> QED
    BY <1>1, <1>2, <1>4, <2>1, <2>2 DEF Meaning
<1> QED
  BY <1>3, <1>4

LEMMA LoadSound ==
    ASSUME TypeOK, FlipAtomic, NEW pkt \in Packets, NEW l,
           l = [pc |-> "probe", pkt |-> pkt, flags |-> epPolicy[pkt.ep], i |-> 1,
                allowed |-> FALSE, verdict |-> "none",
                first |-> Meaning(want[pkt.ep], pkt),
                switched |-> FALSE, tainted |-> tainted[pkt.ep]]
    PROVE  PacketSound(IF EpFlag(epPolicy[pkt.ep], pkt.dir) THEN l
                       ELSE [l EXCEPT !.pc = "done", !.verdict = "forwarded"])
<1> DEFINE flags == epPolicy[pkt.ep]
           req == want[pkt.ep]
<1>1. /\ pkt.ep \in Eps /\ flags \in Flags \cup {NoFlags} /\ tainted[pkt.ep] \in BOOLEAN
      /\ EpFlag(flags, pkt.dir) => flags \in Flags
      /\ Meaning(req, pkt) \in {"forwarded", "audited", "dropped"}
      /\ ~EpFlag(flags, pkt.dir) => Meaning(req, pkt) = "forwarded"
  BY FlagsMeant DEF TypeOK
<1>2. l \in Judgement
  BY <1>1 DEF Judgement
<1>3. /\ l.pc = "probe" /\ l.pkt = pkt /\ l.flags = flags /\ l.i = 1 /\ l.allowed = FALSE
      /\ l.first = Meaning(req, pkt) /\ l.tainted = tainted[pkt.ep]
  OBVIOUS
<1>4. CASE EpFlag(flags, pkt.dir)
  <2>1. 1..(l.i - 1) = {}
    BY <1>3
  <2>2. ~l.tainted => ProbesSound(l)
    BY <1>1, <1>3, <1>4, <2>1 DEF ProbesSound
  <2> QED
    BY <1>2, <1>3, <1>4, <2>2 DEF PacketSound
<1>5. CASE ~EpFlag(flags, pkt.dir)
  <2> DEFINE m == [l EXCEPT !.pc = "done", !.verdict = "forwarded"]
  <2>1. m \in Judgement /\ m.pc = "done" /\ m.verdict = "forwarded" /\ m.first = l.first
    BY <1>2 DEF Judgement
  <2> HIDE DEF m
  <2>2. PacketSound(m)
    BY <1>1, <1>3, <1>5, <2>1 DEF PacketSound
  <2> QED
    BY <1>5, <2>2 DEF m
<1> QED
  BY <1>4, <1>5

\* One more probe.
LEMMA ProbeSound ==
    ASSUME TypeOK, FlipAtomic, WantsShaped, NEW l, PacketSound(l), l.pc = "probe", NEW key,
           key = [ep |-> l.pkt.ep, gen |-> l.flags.gen,
                  slot |-> ProbeSlot(l.pkt, POLICY_PATS[l.i])]
    PROVE  PacketSound(AfterProbe(l, {x.verdict : x \in {y \in policy : y.key = key}}))
<1> DEFINE hit == {x.verdict : x \in {y \in policy : y.key = key}}
           m == AfterProbe(l, hit)
           pkt == l.pkt
           req == want[pkt.ep]
           F(j) == Found(pkt, req, j)
<1>1. l \in Judgement /\ (~l.switched /\ ~l.tainted => ProbesSound(l))
  BY DEF PacketSound, NoPacket
<1>2. /\ pkt \in Packets /\ pkt.ep \in Eps /\ l.i \in 1..6 /\ req \in Request /\ Shaped(req)
      /\ l.flags \in Flags \cup {NoFlags} /\ l.first \in {"forwarded", "audited", "dropped"}
      /\ l.allowed \in BOOLEAN
  BY <1>1, PacketsAssumption DEF Judgement, TypeOK, WantsShaped
<1>3. /\ m = IF "deny" \in hit THEN [l EXCEPT !.pc = "done", !.verdict = Rejected(l)]
             ELSE IF l.i < 6
             THEN [l EXCEPT !.i = l.i + 1, !.allowed = l.allowed \/ hit # {}]
             ELSE [l EXCEPT !.pc = "done", !.allowed = l.allowed \/ hit # {},
                            !.verdict = IF l.allowed \/ hit # {} THEN "forwarded"
                                        ELSE Rejected(l)]
  BY <1>1, Patterns DEF AfterProbe, Judgement
<1>4. Rejected(l) \in {"audited", "dropped"}
  BY DEF Rejected
<1>5. m \in Judgement /\ m.switched = l.switched /\ m.tainted = l.tainted /\ m.pkt = l.pkt
      /\ m.flags = l.flags /\ m.first = l.first
  <2>1. (l.allowed \/ hit # {}) \in BOOLEAN
    OBVIOUS
  <2>2. CASE "deny" \in hit
    BY <1>1, <1>3, <1>4, <2>2 DEF Judgement
  <2>3. CASE "deny" \notin hit /\ l.i < 6
    <3>1. l.i + 1 \in 1..6
      BY <1>2, <2>3
    <3> HIDE DEF hit
    <3> QED
      BY <1>1, <1>3, <2>1, <2>3, <3>1 DEF Judgement
  <2>4. CASE "deny" \notin hit /\ ~(l.i < 6)
    <3> DEFINE a == l.allowed \/ hit # {}
               v == IF a THEN "forwarded" ELSE Rejected(l)
    <3>1. m = [l EXCEPT !.pc = "done", !.allowed = a, !.verdict = v]
      BY <1>3, <2>4
    <3>2. a \in BOOLEAN /\ v \in {"forwarded", "audited", "dropped"}
      BY <1>4
    <3> HIDE DEF a, v, m, hit
    <3> QED
      BY <1>1, <3>1, <3>2 DEF Judgement
  <2> QED
    BY <2>2, <2>3, <2>4
<1> SUFFICES ASSUME ~l.switched, ~l.tainted
             PROVE  /\ m.pc = "probe" => ProbesSound(m)
                    /\ m.pc = "done" => m.verdict = m.first
  BY <1>5 DEF PacketSound
<1>6. /\ epPolicy[pkt.ep] = l.flags /\ l.flags \in Flags /\ EpFlag(l.flags, pkt.dir)
      /\ ~tainted[pkt.ep] /\ l.first = Meaning(req, pkt)
      /\ \A j \in 1..(l.i - 1) : "deny" \notin F(j)
      /\ l.allowed <=> \E j \in 1..(l.i - 1) : F(j) # {}
  BY <1>1 DEF ProbesSound
<1>7. hit = F(l.i)
  <2>1. key = [ep |-> pkt.ep, gen |-> epPolicy[pkt.ep].gen,
               slot |-> ProbeSlot(pkt, POLICY_PATS[l.i])]
    BY <1>6
  <2>2. epPolicy[pkt.ep] \in Flags
    BY <1>6
  <2>3. ~tainted[pkt.ep] /\ pkt.ep \in Eps
    BY <1>2, <1>6
  <2> HIDE DEF pkt
  <2>4. {x.verdict : x \in {y \in policy : y.key = key}} = Found(pkt, want[pkt.ep], l.i)
    BY <2>1, <2>2, <2>3, RowsFound
  <2> QED
    BY <2>4
<1>8. Enforced(req, pkt.dir) /\ (l.flags.audit <=> req.audit)
  BY <1>2, <1>6, FlagsMeant
<1>9. /\ (\E j \in 1..6 : "deny" \in F(j)) <=> Matching(req, pkt, "deny") # {}
      /\ Matching(req, pkt, "deny") = {} =>
           ((\E j \in 1..6 : F(j) # {}) <=> Matching(req, pkt, "allow") # {})
  BY <1>2, <1>8, ProbesDecide
<1>10. Rejected(l) = IF req.audit THEN "audited" ELSE "dropped"
  BY <1>8 DEF Rejected
<1> HIDE DEF hit, F, m
<1>11. CASE "deny" \in hit
  <2>1. Matching(req, pkt, "deny") # {}
    BY <1>2, <1>7, <1>9, <1>11
  <2>2. l.first = Rejected(l)
    BY <1>6, <1>8, <1>10, <2>1 DEF Meaning
  <2>3. m.pc = "done" /\ m.verdict = Rejected(l)
    BY <1>1, <1>3, <1>11 DEF Judgement
  <2> QED
    BY <1>5, <2>2, <2>3
<1>12. CASE "deny" \notin hit /\ l.i < 6
  <2>1. m.pc = "probe" /\ m.i = l.i + 1 /\ m.allowed = (l.allowed \/ hit # {})
    BY <1>1, <1>3, <1>12 DEF Judgement
  <2>2. \A j \in 1..(m.i - 1) : j \in 1..(l.i - 1) \/ j = l.i
    BY <1>2, <2>1
  <2>3. l.i \in 1..(m.i - 1) /\ 1..(l.i - 1) \subseteq 1..(m.i - 1)
    BY <1>2, <2>1
  <2>4. \A j \in 1..(m.i - 1) : "deny" \notin F(j)
    BY <1>6, <1>7, <1>12, <2>2
  <2>5. (l.allowed \/ hit # {}) <=> \E j \in 1..(m.i - 1) : F(j) # {}
    BY <1>6, <1>7, <2>2, <2>3
  <2>6. m.allowed <=> \E j \in 1..(m.i - 1) : F(j) # {}
    BY <2>1, <2>5
  <2> QED
    BY <1>5, <1>6, <2>1, <2>4, <2>6 DEF ProbesSound, F
<1>13. CASE "deny" \notin hit /\ ~(l.i < 6)
  <2>1. l.i = 6 /\ (\A j \in 1..6 : j \in 1..(l.i - 1) \/ j = l.i)
        /\ 1..(l.i - 1) \subseteq 1..6
    BY <1>2, <1>13
  <2>2. m.pc = "done" /\ m.verdict = IF l.allowed \/ hit # {} THEN "forwarded" ELSE Rejected(l)
    BY <1>1, <1>3, <1>13 DEF Judgement
  <2>3. Matching(req, pkt, "deny") = {}
    BY <1>6, <1>7, <1>9, <1>13, <2>1
  <2>4. (l.allowed \/ hit # {}) <=> Matching(req, pkt, "allow") # {}
    BY <1>6, <1>7, <1>9, <2>1, <2>3
  <2>5. l.first = IF Matching(req, pkt, "allow") = {} THEN Rejected(l) ELSE "forwarded"
    BY <1>6, <1>8, <1>10, <2>3 DEF Meaning
  <2> QED
    BY <1>5, <2>2, <2>4, <2>5
<1> QED
  BY <1>11, <1>12, <1>13

LEMMA PacketsStep ==
    ASSUME TypeOK, FlipAtomic, WantsShaped, PacketsSound, [RNext]_rvars
    PROVE  PacketsSound'
<1>1. CASE ControlStep
  <2>1. \A r \in Readers : PacketSound(rd[r])'
    BY <1>1, ControlSound DEF PacketsSound
  <2>2. rd' = [r \in Readers |-> rd'[r]]
    BY <1>1 DEF ControlStep
  <2> QED
    BY <2>1, <2>2 DEF PacketsSound
<1>2. ASSUME NEW r \in Readers, NEW l, PacketSound(l), rd' = [rd EXCEPT ![r] = l],
             UNCHANGED vars
      PROVE  PacketsSound'
  <2>1. rd = [q \in Readers |-> rd[q]] /\ \A q \in Readers : PacketSound(rd[q])
    BY DEF PacketsSound
  <2>2. \A q \in Readers : PacketSound(rd'[q])
    BY <1>2, <2>1
  <2>3. rd' = [q \in Readers |-> rd'[q]]
    BY <1>2, <2>1
  <2>4. epPolicy' = epPolicy /\ want' = want /\ tainted' = tainted
    BY <1>2 DEF vars
  <2>5. ASSUME NEW q \in Readers PROVE PacketSound(rd[q])'
    <3> DEFINE x == rd'[q]
    <3>1. PacketSound(x)
      BY <2>2
    <3>2. ProbesSound(x) => ProbesSound(rd[q])'
      BY <2>4 DEF ProbesSound
    <3>3. (x \in Judgement) => (rd[q] \in Judgement)'
      BY DEF Judgement
    <3> QED
      BY <3>1, <3>2, <3>3 DEF PacketSound, NoPacket
  <2> QED
    BY <2>3, <2>5 DEF PacketsSound
<1>3. ASSUME NEW r \in Readers, NEW pkt \in Packets, LoadFlags(r, pkt) PROVE PacketsSound'
  <2> DEFINE l == [pc |-> "probe", pkt |-> pkt, flags |-> epPolicy[pkt.ep], i |-> 1,
                   allowed |-> FALSE, verdict |-> "none",
                   first |-> Meaning(want[pkt.ep], pkt),
                   switched |-> FALSE, tainted |-> tainted[pkt.ep]]
             m == IF EpFlag(epPolicy[pkt.ep], pkt.dir) THEN l
                  ELSE [l EXCEPT !.pc = "done", !.verdict = "forwarded"]
  <2>1. PacketSound(m)
    BY LoadSound
  <2>2. rd' = [rd EXCEPT ![r] = m] /\ UNCHANGED vars
    BY <1>3 DEF LoadFlags
  <2> HIDE DEF m
  <2> QED
    BY <1>2, <2>1, <2>2
<1>4. ASSUME NEW r \in Readers, Probe(r) PROVE PacketsSound'
  <2> DEFINE l == rd[r]
             key == [ep |-> l.pkt.ep, gen |-> l.flags.gen,
                     slot |-> ProbeSlot(l.pkt, POLICY_PATS[l.i])]
             m == AfterProbe(l, {x.verdict : x \in {y \in policy : y.key = key}})
  <2>1. PacketSound(l) /\ l.pc = "probe"
    BY <1>4 DEF PacketsSound, Probe
  <2>2. PacketSound(m)
    BY <2>1, ProbeSound
  <2>3. rd' = [rd EXCEPT ![r] = m] /\ UNCHANGED vars
    BY <1>4 DEF Probe
  <2> HIDE DEF m
  <2> QED
    BY <1>2, <2>2, <2>3
<1>5. ASSUME NEW r \in Readers, EndPacket(r) PROVE PacketsSound'
  <2>1. PacketSound(NoPacket)
    BY DEF PacketSound
  <2> QED
    BY <1>2, <1>5, <2>1 DEF EndPacket
<1>6. CASE UNCHANGED rvars
  <2>1. rd' = rd /\ epPolicy' = epPolicy /\ want' = want /\ tainted' = tainted
    BY <1>6 DEF rvars, vars
  <2>2. Judgement' = Judgement
    BY DEF Judgement
  <2> QED
    BY <2>1, <2>2 DEF PacketsSound, PacketSound, ProbesSound
<1> QED
  BY <1>1, <1>3, <1>4, <1>5, <1>6 DEF RNext, ReaderStep

LEMMA PacketsImplement == RSpec => Spec
<1>1. RInit => Init
  BY DEF RInit
<1>2. [RNext]_rvars => [Next]_vars
  BY DEF RNext, rvars, ControlStep, ReaderStep, LoadFlags, Probe, EndPacket
<1> QED
  BY <1>1, <1>2, PTL DEF RSpec, Spec

\* Whatever is inserted, switched or swept for its endpoint or for others, and
\* however many packets are judged beside it: a packet whose endpoint is not
\* switched under it gets the verdict its request means for it
\* (UnovertakenVerdict), provided every request is Shaped.
THEOREM VerdictsAreMeant ==
    ASSUME \A req \in Requests : Shaped(req)
    PROVE  RSpec => []UnovertakenVerdict
<1>1. RInit => PacketsSound /\ WantsShaped
  <2> SUFFICES ASSUME RInit PROVE PacketsSound /\ WantsShaped
    OBVIOUS
  <2>1. PacketsSound
    BY DEF RInit, PacketsSound, PacketSound
  <2>2. DOMAIN Unenforced.rules = {}
    BY DEF Unenforced
  <2>3. Shaped(Unenforced)
    BY <2>2 DEF Shaped
  <2>4. WantsShaped
    BY <2>3, NoCallType DEF RInit, Init, WantsShaped
  <2> QED
    BY <2>1, <2>4
<1>2. TypeOK /\ WantsShaped /\ [Next]_vars => WantsShaped'
  BY ShapedStep
<1>3. TypeOK /\ FlipAtomic /\ WantsShaped /\ PacketsSound /\ [RNext]_rvars => PacketsSound'
  BY PacketsStep
<1>4. PacketsSound => UnovertakenVerdict
  BY DEF PacketsSound, PacketSound, NoPacket, UnovertakenVerdict, Judged
<1>5. RInit => Init
  BY DEF RInit
<1> QED
  BY <1>1, <1>2, <1>3, <1>4, TypesHold, FlipIsAtomic, PacketsImplement, PTL DEF RSpec, Spec
=============================================================================
