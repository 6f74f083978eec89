---------------------------- MODULE FabricProofs ----------------------------
(***************************************************************************)
(* For any network and any contents of its tables: the stages of a node    *)
(* turn a whole header stack into a whole header stack, so that nothing on *)
(* the wire has a label stack without its bottom or an SRH that points     *)
(* outside of its list.                                                    *)
(***************************************************************************)
EXTENDS Fabric, SequenceTheorems, FiniteSetTheorems, TLAPS

-----------------------------------------------------------------------------
(* Sequences of anything.                                                  *)

LEMMA SeqFacts ==
    ASSUME NEW s, IsSeq(s)
    PROVE  /\ Len(s) \in Nat /\ DOMAIN s = 1..Len(s)
           /\ s # <<>> <=> Len(s) > 0
           /\ \A i \in 1..Len(s) : s[i] \in Range(s)
<1>1. s \in Seq(Range(s))
  BY DEF IsSeq
<1> HIDE DEF Range
<1> QED
  BY <1>1, LenProperties, ElementOfSeq, EmptySeq

LEMMA SeqIn == ASSUME NEW S, NEW s \in Seq(S) PROVE IsSeq(s)
BY SeqOfRange DEF IsSeq

LEMMA CatFacts ==
    ASSUME NEW s, IsSeq(s), NEW t, IsSeq(t)
    PROVE  /\ IsSeq(s \o t) /\ Len(s \o t) = Len(s) + Len(t)
           /\ \A i \in 1..Len(s) : (s \o t)[i] = s[i]
           /\ \A i \in 1..Len(t) : (s \o t)[Len(s) + i] = t[i]
<1> DEFINE S == Range(s) \cup Range(t)
<1>1. s \in Seq(S) /\ t \in Seq(S)
  BY SeqMonotonic DEF IsSeq
<1> HIDE DEF S
<1>2. /\ s \o t \in Seq(S) /\ Len(s \o t) = Len(s) + Len(t)
      /\ \A i \in 1..Len(s) + Len(t) : (s \o t)[i] = IF i <= Len(s) THEN s[i] ELSE t[i - Len(s)]
  BY <1>1, ConcatProperties
<1>3. Len(s) \in Nat /\ Len(t) \in Nat
  BY SeqFacts
<1>4. IsSeq(s \o t)
  BY <1>2, SeqIn
<1>5. \A i \in 1..Len(t) : /\ Len(s) + i \in 1..Len(s) + Len(t)
                          /\ ~(Len(s) + i <= Len(s)) /\ Len(s) + i - Len(s) = i
  BY <1>3
<1>6. \A i \in 1..Len(s) : i \in 1..Len(s) + Len(t) /\ i <= Len(s)
  BY <1>3
<1> QED
  BY <1>2, <1>4, <1>5, <1>6

LEMMA SuffixFacts ==
    ASSUME NEW s, IsSeq(s), NEW c \in 0..Len(s) - 1
    PROVE  LET u == SubSeq(s, c + 1, Len(s))
           IN  IsSeq(u) /\ Len(u) = Len(s) - c /\ \A i \in 1..Len(s) - c : u[i] = s[c + i]
<1> DEFINE u == SubSeq(s, c + 1, Len(s))
<1>1. Len(s) \in Nat /\ \A i \in 1..Len(s) : s[i] \in Range(s)
  BY SeqFacts
<1>2. c + 1 \in Int /\ Len(s) \in Int /\ c + 1 <= Len(s) /\ Len(s) - (c + 1) + 1 = Len(s) - c
  BY <1>1
<1>3. \A i \in c + 1..Len(s) : s[i] \in Range(s)
  BY <1>1
<1> HIDE DEF Range
<1>4. /\ u \in Seq(Range(s)) /\ Len(u) = Len(s) - (c + 1) + 1
      /\ \A i \in 1..Len(s) - (c + 1) + 1 : u[i] = s[c + 1 + i - 1]
  BY <1>2, <1>3, SubSeqProperties
<1>5. IsSeq(u)
  BY <1>4, SeqIn
<1>6. \A i \in 1..Len(s) - c : c + 1 + i - 1 = c + i
  BY <1>1
<1> QED
  BY <1>2, <1>4, <1>5, <1>6

LEMMA TailFacts ==
    ASSUME NEW s, IsSeq(s), s # <<>>
    PROVE  /\ IsSeq(Tail(s)) /\ Len(Tail(s)) = Len(s) - 1
           /\ \A i \in 1..Len(s) - 1 : Tail(s)[i] = s[i + 1]
<1>1. s \in Seq(Range(s))
  BY DEF IsSeq
<1> HIDE DEF Range
<1>2. /\ Tail(s) \in Seq(Range(s)) /\ Len(Tail(s)) = Len(s) - 1
      /\ \A i \in 1..Len(Tail(s)) : Tail(s)[i] = s[i + 1]
  BY <1>1, HeadTailProperties
<1> QED
  BY <1>2, SeqIn

LEMMA ExceptFacts ==
    ASSUME NEW s, IsSeq(s), s # <<>>, NEW e
    PROVE  LET u == [s EXCEPT ![1] = e]
           IN  /\ IsSeq(u) /\ u # <<>> /\ Len(u) = Len(s) /\ u[1] = e
               /\ \A i \in 2..Len(s) : u[i] = s[i]
<1> DEFINE S == Range(s) \cup {e}
           u == [s EXCEPT ![1] = e]
<1>1. s \in Seq(S)
  BY SeqMonotonic DEF IsSeq
<1>2. Len(s) \in Nat /\ Len(s) > 0
  BY SeqFacts
<1>3. e \in S /\ 1 \in 1..Len(s)
  BY <1>2
<1> HIDE DEF S
<1>4. /\ u \in Seq(S) /\ Len(u) = Len(s)
      /\ \A j \in 1..Len(s) : u[j] = IF j = 1 THEN e ELSE s[j]
  BY <1>1, <1>3, ExceptSeq
<1>5. IsSeq(u)
  BY <1>4, SeqIn
<1> HIDE DEF u
<1>6. u # <<>>
  BY <1>2, <1>4, <1>5, SeqFacts
<1> QED
  BY <1>2, <1>4, <1>5, <1>6 DEF u

LEMMA OneFacts == ASSUME NEW e PROVE IsSeq(<<e>>) /\ Len(<<e>>) = 1 /\ <<e>>[1] = e
<1>1. <<e>> \in Seq({e})
  OBVIOUS
<1> QED
  BY <1>1, SeqIn

-----------------------------------------------------------------------------
(* Taking headers off a stack, changing the outer one, putting some on.    *)

LEMMA StackFacts ==
    ASSUME NEW hs, Whole(hs)
    PROVE  /\ IsSeq(hs) /\ hs # <<>> /\ Len(hs) \in Nat /\ Len(hs) > 0
           /\ WholeHeader(Outer(hs))
BY SeqFacts DEF Whole, Outer

LEMMA WholeSuffix ==
    ASSUME NEW hs, Whole(hs), NEW c \in 0..Len(hs) - 1
    PROVE  Whole(SubSeq(hs, c + 1, Len(hs)))
<1> DEFINE u == SubSeq(hs, c + 1, Len(hs))
<1>1. IsSeq(hs) /\ Len(hs) \in Nat /\ Len(hs) > 0
  BY StackFacts
<1>2. IsSeq(u) /\ Len(u) = Len(hs) - c /\ \A i \in 1..Len(hs) - c : u[i] = hs[c + i]
  BY <1>1, SuffixFacts
<1> HIDE DEF u
<1>3. u # <<>> /\ Len(u) \in Nat
  BY <1>1, <1>2, SeqFacts
<1>4. \A i \in 1..Len(u) : WholeHeader(u[i])
  BY <1>1, <1>2 DEF Whole
<1>5. \A i \in 1..Len(u) - 1 : MayFollow(u[i], u[i + 1])
  <2> SUFFICES ASSUME NEW i \in 1..Len(u) - 1 PROVE MayFollow(u[i], u[i + 1])
    OBVIOUS
  <2>1. /\ c + i \in 1..Len(hs) - 1 /\ c + (i + 1) = (c + i) + 1
        /\ i \in 1..Len(hs) - c /\ i + 1 \in 1..Len(hs) - c
    BY <1>1, <1>2
  <2>2. MayFollow(hs[c + i], hs[(c + i) + 1])
    BY <2>1 DEF Whole
  <2>3. u[i] = hs[c + i] /\ u[i + 1] = hs[c + (i + 1)]
    BY <1>2, <2>1
  <2> QED
    BY <2>1, <2>2, <2>3
<1>6. u[Len(u)] = hs[Len(hs)]
  BY <1>1, <1>2
<1>7. Whole(u)
  BY <1>2, <1>3, <1>4, <1>5, <1>6 DEF Whole
<1> QED
  BY <1>7 DEF u

\* decap_head of a header that carries something.
LEMMA WholeTail ==
    ASSUME NEW hs, Whole(hs), Len(hs) > 1
    PROVE  Whole(Tail(hs)) /\ Len(Tail(hs)) = Len(hs) - 1 /\ Outer(Tail(hs)) = hs[2]
<1>1. IsSeq(hs) /\ hs # <<>> /\ Len(hs) \in Nat
  BY StackFacts
<1>2. Tail(hs) = SubSeq(hs, 2, Len(hs))
  BY <1>1, TailIsSubSeq DEF IsSeq
<1>3. Whole(SubSeq(hs, 2, Len(hs)))
  <2> DEFINE c == 1
  <2>1. c \in 0..Len(hs) - 1
    BY <1>1
  <2>2. c + 1 = 2
    OBVIOUS
  <2> HIDE DEF c
  <2> QED
    BY <2>1, <2>2, WholeSuffix
<1>4. /\ Len(Tail(hs)) = Len(hs) - 1
      /\ \A i \in 1..Len(hs) - 1 : Tail(hs)[i] = hs[i + 1]
  BY <1>1, TailFacts
<1>5. Tail(hs)[1] = hs[2]
  BY <1>1, <1>4
<1> QED
  BY <1>2, <1>3, <1>4, <1>5 DEF Outer

\* What a header carries.
LEMMA Carries ==
    ASSUME NEW hs, Whole(hs), Outer(hs).k \in {"mpls", "vxlan", "eth"}
    PROVE  Len(hs) > 1 /\ MayFollow(Outer(hs), hs[2]) /\ WholeHeader(hs[2])
<1>1. Len(hs) \in Nat /\ Len(hs) > 0
  BY StackFacts
<1>2. Len(hs) # 1
  BY DEF Whole, Outer
<1> DEFINE n == Len(hs)
<1>3. 1 \in 1..n - 1 /\ 2 \in 1..n /\ n > 1
  <2> HIDE DEF n
  <2>1. n \in Nat /\ n > 0 /\ n # 1
    BY <1>1, <1>2 DEF n
  <2> QED
    BY <2>1
<1>4. MayFollow(hs[1], hs[1 + 1])
  BY <1>3 DEF Whole
<1> QED
  BY <1>3, <1>4 DEF Whole, Outer

LEMMA WholeReplaced ==
    ASSUME NEW hs, Whole(hs), NEW h, WholeHeader(h), h.k = Outer(hs).k,
           h.k = "mpls" => h.s = Outer(hs).s
    PROVE  Whole([hs EXCEPT ![1] = h]) /\ Outer([hs EXCEPT ![1] = h]) = h
<1> DEFINE u == [hs EXCEPT ![1] = h]
<1>1. IsSeq(hs) /\ hs # <<>> /\ Len(hs) \in Nat /\ Len(hs) > 0
  BY StackFacts
<1>2. /\ IsSeq(u) /\ u # <<>> /\ Len(u) = Len(hs) /\ u[1] = h
      /\ \A i \in 2..Len(hs) : u[i] = hs[i]
  BY <1>1, ExceptFacts
<1> HIDE DEF u
<1>3. \A i \in 1..Len(u) : WholeHeader(u[i])
  BY <1>1, <1>2 DEF Whole
<1>4. \A i \in 1..Len(u) - 1 : MayFollow(u[i], u[i + 1])
  <2> SUFFICES ASSUME NEW i \in 1..Len(u) - 1 PROVE MayFollow(u[i], u[i + 1])
    OBVIOUS
  <2>1. u[i + 1] = hs[i + 1] /\ MayFollow(hs[i], hs[i + 1])
    BY <1>1, <1>2 DEF Whole
  <2>2. CASE i = 1
    BY <1>2, <2>1, <2>2 DEF MayFollow, Outer
  <2>3. CASE i # 1
    BY <1>1, <1>2, <2>1, <2>3
  <2> QED
    BY <2>2, <2>3
<1>5. u[Len(u)].k = hs[Len(hs)].k
  <2>1. CASE Len(hs) = 1
    BY <1>2, <2>1 DEF Outer
  <2>2. CASE Len(hs) # 1
    BY <1>1, <1>2, <2>2
  <2> QED
    BY <2>1, <2>2
<1> QED
  BY <1>2, <1>3, <1>4, <1>5 DEF Whole, Outer, u

\* Headers put on a stack: the last of them may be followed by its outer one.
LEMMA WholeJoined ==
    ASSUME NEW top, IsSeq(top), top # <<>>, NEW hs, Whole(hs),
           \A i \in 1..Len(top) : WholeHeader(top[i]),
           \A i \in 1..Len(top) - 1 : MayFollow(top[i], top[i + 1]),
           MayFollow(top[Len(top)], Outer(hs))
    PROVE  Whole(top \o hs) /\ Outer(top \o hs) = top[1]
<1> DEFINE u == top \o hs
           n == Len(top)
<1>1. /\ IsSeq(hs) /\ hs # <<>> /\ Len(hs) \in Nat /\ Len(hs) > 0
      /\ n \in Nat /\ n > 0
  BY StackFacts, SeqFacts
<1>2. /\ IsSeq(u) /\ Len(u) = n + Len(hs)
      /\ \A i \in 1..n : u[i] = top[i]
      /\ \A i \in 1..Len(hs) : u[n + i] = hs[i]
  BY <1>1, CatFacts
<1> HIDE DEF u
<1>3. u # <<>>
  BY <1>1, <1>2, SeqFacts
<1>4. ASSUME NEW i \in 1..Len(u), ~(i <= n)
      PROVE  i - n \in 1..Len(hs) /\ u[i] = hs[i - n]
  <2>1. i - n \in 1..Len(hs) /\ n + (i - n) = i
    BY <1>1, <1>2, <1>4
  <2> QED
    BY <1>2, <2>1
<1>5. \A i \in 1..Len(u) : WholeHeader(u[i])
  <2> SUFFICES ASSUME NEW i \in 1..Len(u) PROVE WholeHeader(u[i])
    OBVIOUS
  <2>1. CASE i <= n
    BY <1>1, <1>2, <2>1
  <2>2. CASE ~(i <= n)
    BY <1>4, <2>2 DEF Whole
  <2> QED
    BY <2>1, <2>2
<1>6. \A i \in 1..Len(u) - 1 : MayFollow(u[i], u[i + 1])
  <2> SUFFICES ASSUME NEW i \in 1..Len(u) - 1 PROVE MayFollow(u[i], u[i + 1])
    OBVIOUS
  <2>1. CASE i < n
    <3>1. i \in 1..n - 1 /\ i \in 1..n /\ i + 1 \in 1..n
      BY <1>1, <2>1
    <3> QED
      BY <1>2, <3>1
  <2>2. CASE i = n
    <3>1. u[n] = top[n] /\ u[n + 1] = hs[1]
      BY <1>1, <1>2
    <3> QED
      BY <2>2, <3>1 DEF Outer
  <2>3. CASE i > n
    <3>1. /\ i \in 1..Len(u) /\ ~(i <= n) /\ i + 1 \in 1..Len(u) /\ ~(i + 1 <= n)
          /\ (i + 1) - n = (i - n) + 1 /\ i - n \in 1..Len(hs) - 1
      BY <1>1, <1>2, <2>3
    <3>2. u[i] = hs[i - n] /\ u[i + 1] = hs[(i - n) + 1]
      BY <1>4, <3>1
    <3> QED
      BY <3>1, <3>2 DEF Whole
  <2> QED
    BY <1>1, <2>1, <2>2, <2>3
<1>7. u[Len(u)] = hs[Len(hs)]
  BY <1>1, <1>2
<1>8. u[1] = top[1]
  BY <1>1, <1>2
<1>9. Whole(u) /\ Outer(u) = top[1]
  BY <1>2, <1>3, <1>5, <1>6, <1>7, <1>8 DEF Whole, Outer
<1> QED
  BY <1>9 DEF u

\* A field of the outer header changes.
WholeSrhs(q) == IsSeq(q) /\ \A j \in 1..Len(q) : WholeSrh(q[j])
LEMMA WholeSet ==
    ASSUME NEW hs, Whole(hs), NEW f, f \notin {"k", "ttl", "s"}, NEW v,
           IsIp(Outer(hs).k) /\ f = "hop" => v \in Int,
           IsIp(Outer(hs).k) /\ f = "srh" => WholeSrhs(v)
    PROVE  Whole(SetOuter(hs, f, v)) /\ Outer(SetOuter(hs, f, v)).k = Outer(hs).k
<1> DEFINE h == Outer(hs)
           g == [h EXCEPT ![f] = v]
<1>1. WholeHeader(h)
  BY StackFacts
<1>2. DOMAIN g = DOMAIN h /\ \A x \in DOMAIN h : x # f => g[x] = h[x]
  OBVIOUS
<1>3. f \in DOMAIN h => g[f] = v
  OBVIOUS
<1> HIDE DEF g
<1>4. g.k = h.k
  BY <1>1, <1>2 DEF WholeHeader
<1>5. h.k = "mpls" => g.ttl = h.ttl /\ g.s = h.s
  BY <1>1, <1>2 DEF WholeHeader
<1>6. IsIp(h.k) => g.hop \in Int
  BY <1>1, <1>2, <1>3 DEF WholeHeader
<1>7. IsIp(h.k) => WholeSrhs(g.srh)
  BY <1>1, <1>2, <1>3 DEF WholeHeader, WholeSrhs
<1>8. WholeHeader(g)
  BY <1>1, <1>2, <1>4, <1>5, <1>6, <1>7 DEF WholeHeader, WholeSrhs
<1>9. Whole([hs EXCEPT ![1] = g]) /\ Outer([hs EXCEPT ![1] = g]) = g
  BY <1>4, <1>5, <1>8, WholeReplaced
<1>10. SetOuter(hs, f, v) = [hs EXCEPT ![1] = g]
  BY DEF SetOuter, Outer, g
<1> QED
  BY <1>4, <1>9, <1>10

LEMMA WholeSetHop ==
    ASSUME NEW hs, Whole(hs), NEW v \in Int
    PROVE  Whole(SetOuter(hs, "hop", v)) /\ Outer(SetOuter(hs, "hop", v)).k = Outer(hs).k
BY WholeSet

LEMMA WholeSetDa ==
    ASSUME NEW hs, Whole(hs), NEW v
    PROVE  Whole(SetOuter(hs, "da", v)) /\ Outer(SetOuter(hs, "da", v)).k = Outer(hs).k
BY WholeSet

-----------------------------------------------------------------------------
(* Segment routing headers.                                                *)

\* An IPv6 packet, as try_srv6_xdp gets it.
Six(hs) == Whole(hs) /\ Outer(hs).k = "ip6"

LEMMA SixFacts ==
    ASSUME NEW hs, Six(hs)
    PROVE  WholeSrhs(Outer(hs).srh) /\ Outer(hs).hop \in Int /\ IsIp(Outer(hs).k)
BY StackFacts DEF Six, WholeHeader, WholeSrhs, IsIp

LEMMA SrhFacts ==
    ASSUME NEW hs, Six(hs), HasSrh(hs)
    PROVE  /\ WholeSrhs(Outer(hs).srh) /\ Outer(hs).srh # <<>>
           /\ {"list", "sl"} \subseteq DOMAIN Outer(hs).srh[1]
           /\ IsSeq(List(hs)) /\ Len(List(hs)) \in Nat
           /\ Sl(hs) \in 0..Len(List(hs)) /\ Sl(hs) \in Nat
<1> DEFINE q == Outer(hs).srh
<1>1. WholeSrhs(q)
  BY SixFacts
<1>2. q # <<>>
  BY DEF HasSrh
<1> HIDE DEF q
<1>3. 1 \in 1..Len(q)
  BY <1>1, <1>2, SeqFacts DEF WholeSrhs
<1>4. WholeSrh(q[1])
  BY <1>1, <1>3 DEF WholeSrhs
<1>5. Len(q[1].list) \in Nat
  BY <1>4, SeqFacts DEF WholeSrh
<1> QED
  BY <1>1, <1>2, <1>4, <1>5 DEF WholeSrh, List, Sl, q

LEMMA SixSet ==
    ASSUME NEW hs, Six(hs), NEW v
    PROVE  Six(SetOuter(hs, "da", v)) /\ (v \in Int => Six(SetOuter(hs, "hop", v)))
BY WholeSetDa, WholeSetHop DEF Six

LEMMA SixSetSl ==
    ASSUME NEW hs, Six(hs), HasSrh(hs), NEW sl \in 0..Len(List(hs))
    PROVE  Six(SetSl(hs, sl))
<1> DEFINE q == Outer(hs).srh
           r == [q[1] EXCEPT !.sl = sl]
           u == [q EXCEPT ![1] = r]
<1>1. /\ WholeSrhs(q) /\ q # <<>> /\ {"list", "sl"} \subseteq DOMAIN q[1]
      /\ IsSeq(q[1].list)
  BY SrhFacts DEF List
<1>2. DOMAIN r = DOMAIN q[1] /\ r.sl = sl /\ r.list = q[1].list
  BY <1>1
<1>3. WholeSrh(r)
  BY <1>1, <1>2 DEF WholeSrh, List
<1> HIDE DEF r
<1>4. IsSeq(u) /\ Len(u) = Len(q) /\ u[1] = r /\ \A i \in 2..Len(q) : u[i] = q[i]
  BY <1>1, ExceptFacts DEF WholeSrhs
<1>5. Len(q) \in Nat
  BY <1>1, SeqFacts DEF WholeSrhs
<1> HIDE DEF u
<1>6. \A j \in 1..Len(u) : WholeSrh(u[j])
  <2> SUFFICES ASSUME NEW j \in 1..Len(u) PROVE WholeSrh(u[j])
    OBVIOUS
  <2>1. CASE j = 1
    BY <1>3, <1>4, <2>1
  <2>2. CASE j # 1
    BY <1>1, <1>4, <1>5, <2>2 DEF WholeSrhs
  <2> QED
    BY <2>1, <2>2
<1>7. SetSl(hs, sl) = SetOuter(hs, "srh", u)
  BY DEF SetSl, u, r
<1>8. WholeSrhs(u)
  BY <1>4, <1>6 DEF WholeSrhs
<1>9. "srh" \notin {"k", "ttl", "s"} /\ "srh" # "hop"
  OBVIOUS
<1> HIDE DEF q
<1> QED
  BY <1>7, <1>8, <1>9, WholeSet DEF Six

LEMMA SixPopSrh ==
    ASSUME NEW hs, Six(hs)
    PROVE  Six(PopSrh(hs))
<1> DEFINE q == Outer(hs).srh
<1>1. CASE ~HasSrh(hs)
  BY <1>1 DEF PopSrh
<1>2. CASE HasSrh(hs)
  <2>1. WholeSrhs(q) /\ q # <<>>
    BY <1>2, SrhFacts
  <2> HIDE DEF q
  <2>2. /\ IsSeq(Tail(q)) /\ Len(Tail(q)) = Len(q) - 1 /\ Len(q) \in Nat
        /\ \A i \in 1..Len(q) - 1 : Tail(q)[i] = q[i + 1]
    BY <2>1, TailFacts, SeqFacts DEF WholeSrhs
  <2>3. \A j \in 1..Len(Tail(q)) : WholeSrh(Tail(q)[j])
    BY <2>1, <2>2 DEF WholeSrhs
  <2>4. WholeSrhs(Tail(q))
    BY <2>2, <2>3 DEF WholeSrhs
  <2>5. "srh" \notin {"k", "ttl", "s"} /\ "srh" # "hop"
    OBVIOUS
  <2>6. PopSrh(hs) = SetOuter(hs, "srh", Tail(q))
    BY <1>2 DEF PopSrh, q
  <2> QED
    BY <2>4, <2>5, <2>6, WholeSet DEF Six
<1> QED
  BY <1>1, <1>2

LEMMA SixNext ==
    ASSUME NEW hs, Six(hs), HasSrh(hs), Sl(hs) # 0
    PROVE  Six(NextSegment(hs))
<1>1. Sl(hs) \in 0..Len(List(hs)) /\ Len(List(hs)) \in Nat /\ Sl(hs) \in Nat
  BY SrhFacts
<1>2. Sl(hs) - 1 \in 0..Len(List(hs))
  BY <1>1
<1>3. Six(SetSl(hs, Sl(hs) - 1))
  BY <1>2, SixSetSl
<1> QED
  BY <1>3, SixSet DEF NextSegment

-----------------------------------------------------------------------------
(* Verdicts: what a stage hands on or sends is whole.                      *)

Fine(v) == v.do = "drop" \/ (v.do \in {"pass", "send"} /\ Whole(v.hs))

LEMMA FineVerdict ==
    ASSUME NEW hs, Whole(hs)
    PROVE  /\ Fine(Keep(hs))
           /\ \A m : Fine(Pass(hs, m))
           /\ \A to : Fine(Send(hs, to))
BY DEF Fine, Keep, Pass, Send

LEMMA FineDrop == Fine(Drop)
BY DEF Fine, Drop

\* The payload of an IP header whose next-header value says what it is.
LEMMA WholePayload ==
    ASSUME NEW hs, Whole(hs), Proto(hs) \notin {"l4", "routing"}
    PROVE  /\ Len(hs) > 1 /\ hs[2].k = Proto(hs)
           /\ Whole(DecapHead(hs)) /\ Outer(DecapHead(hs)) = hs[2]
<1>1. Len(hs) \in Nat /\ Len(hs) > 0
  BY StackFacts
<1>2. Len(hs) # 1 /\ hs[2].k = Proto(hs)
  BY DEF Proto
<1>3. Len(hs) > 1
  BY <1>1, <1>2
<1> QED
  BY <1>2, <1>3, WholeTail DEF DecapHead

LEMMA FineAdjacency ==
    ASSUME NEW t, NEW hs, Six(hs), NEW id
    PROVE  Fine(ForwardAdjacency(t, hs, id))
<1>1. Outer(hs).hop - 1 \in Int
  BY SixFacts
<1>2. Whole(SetOuter(hs, "hop", Outer(hs).hop - 1)) /\ Whole(hs)
  BY <1>1, SixSet DEF Six
<1> QED
  BY <1>2, FineVerdict DEF ForwardAdjacency

LEMMA FineOnward ==
    ASSUME NEW t, NEW hs, Six(hs), NEW sid, NEW meta
    PROVE  Fine(Onward(t, hs, sid, meta))
BY FineAdjacency, FineVerdict DEF Onward, Six

LEMMA FineUltimate ==
    ASSUME NEW hs, Six(hs), NEW sid, NEW mayUlt, NEW meta
    PROVE  Fine(Ultimate(hs, sid, mayUlt, meta))
<1>1. Whole(hs) /\ Whole(PopSrh(hs))
  BY SixPopSrh DEF Six
<1>2. IsIp(Proto(hs)) => Whole(DecapHead(hs))
  BY WholePayload DEF IsIp, Six
<1> QED
  BY <1>1, <1>2, FineVerdict DEF Ultimate

LEMMA FineEnd ==
    ASSUME NEW t, NEW hs, Six(hs), NEW sid
    PROVE  Fine(End(t, hs, sid))
<1> DEFINE on == NextSegment(hs)
           psp == Sl(hs) = 1 /\ "psp" \in sid.flav
           to == IF psp THEN PopSrh(on) ELSE on
<1>1. CASE Exhausted(hs)
  BY <1>1, FineUltimate DEF End
<1>2. CASE ~Exhausted(hs) /\ (Sl(hs) = 0 \/ Sl(hs) > MaxSegs)
  BY <1>2, FineVerdict DEF End, Six
<1>3. CASE ~Exhausted(hs) /\ ~(Sl(hs) = 0 \/ Sl(hs) > MaxSegs)
  <2>1. HasSrh(hs) /\ Sl(hs) # 0
    BY <1>3 DEF Exhausted
  <2>2. Six(on)
    BY <2>1, SixNext
  <2>3. Six(to)
    BY <2>2, SixPopSrh
  <2> HIDE DEF on, psp, to
  <2>4. Fine(Keep(on)) /\ Fine(Onward(t, to, sid, EndtMeta(sid, FALSE)))
    BY <2>2, <2>3, FineVerdict, FineOnward DEF Six
  <2>5. End(t, hs, sid) = IF psp /\ Oversized(hs) THEN Keep(on)
                          ELSE Onward(t, to, sid, EndtMeta(sid, FALSE))
    BY <1>3 DEF End, on, psp, to
  <2> QED
    BY <2>4, <2>5
<1> QED
  BY <1>1, <1>2, <1>3

LEMMA FineUa ==
    ASSUME NEW t, NEW hs, Six(hs), NEW sid
    PROVE  Fine(Ua(t, hs, sid))
<1>1. Six(UsidShift(hs, sid))
  BY SixSet DEF UsidShift
<1>2. Fine(End(t, hs, [sid EXCEPT !.bh = "uA"]))
  BY FineEnd
<1>3. Fine(ForwardAdjacency(t, UsidShift(hs, sid), sid.nh))
  BY <1>1, FineAdjacency
<1> QED
  BY <1>2, <1>3, FineVerdict DEF Ua, Six

LEMMA FineUn ==
    ASSUME NEW t, NEW hs, Six(hs), NEW sid
    PROVE  Fine(Un(t, hs, sid))
<1> DEFINE on == UsidShift(hs, sid)
<1>1. Six(on)
  BY SixSet DEF UsidShift
<1> HIDE DEF on
<1>2. Fine(End(t, hs, sid)) /\ Fine(Ua(t, on, LocalSid(t, on))) /\ Fine(Keep(on))
  BY <1>1, FineEnd, FineUa, FineVerdict DEF Six
<1> QED
  BY <1>2 DEF Un, on

LEMMA SixWritten ==
    ASSUME NEW hs, Six(hs), HasSrh(hs), NEW l \in 0..Len(List(hs)), NEW sid, NEW csid, NEW idx
    PROVE  Six(WriteCsid(SetSl(hs, l), sid, csid, idx))
<1>1. Six(SetSl(hs, l))
  BY SixSetSl
<1> QED
  BY <1>1, SixSet DEF WriteCsid

\* One pass of srv6_replace_once: its verdict, or the stack of the next pass.
FineActs(a) == Fine(a.v) /\ (a.again => Six(a.v.hs))
LEMMA FineAct == ASSUME NEW v, Fine(v) PROVE FineActs(Act(v))
BY DEF FineActs, Act
LEMMA FineAgain == ASSUME NEW hs, Six(hs) PROVE FineActs(Again(hs))
<1>1. Again(hs).v = Keep(hs) /\ Keep(hs).hs = hs
  BY DEF Again, Keep, Pass
<1> QED
  BY <1>1, FineVerdict DEF FineActs, Six

LEMMA FineReplaceOnce ==
    ASSUME NEW t, NEW hs, Six(hs), NEW sid
    PROVE  FineActs(ReplaceOnce(t, hs, sid))
<1> DEFINE sl == Sl(hs)
           last == Outer(hs).srh[1].last
           idx == Index(hs)
           ultimate == Act(Ultimate(hs, sid, sid.bh # "Xrep", Srv6Meta(0)))
           isLast(pos) == pos = 0 \/ (List(hs) # <<>> /\ CsidAt(hs, 0, pos - 1) = 0)
           write(l, pos) == WriteCsid(SetSl(hs, l), sid, CsidAt(hs, l, pos), pos)
           popIf(c, st) == IF c /\ "psp" \in sid.flav THEN PopSrh(st) ELSE st
           refused == \/ List(hs) = <<>> \/ sl > MaxSegs \/ last > Len(List(hs)) - 1
                      \/ (idx # 0 /\ sl > last)
                      \/ (idx = 0 /\ (sl = 0 \/ sl > last + 1))
           a == Again(popIf(sl = 1, NextSegment(hs)))
           b == Act(Onward(t, popIf(sl = 0 /\ isLast(idx - 1), write(sl, idx - 1)), sid, NoMeta))
           c == Act(Onward(t, popIf(sl = 1 /\ CsidAt(hs, 0, AddrLen - 2) = 0,
                                    write(sl - 1, AddrLen - 1)), sid, NoMeta))
<1>1. FineActs(ultimate) /\ FineActs(Act(Keep(hs)))
  BY FineUltimate, FineVerdict, FineAct DEF Six
<1>2. ASSUME NEW st, Six(st), NEW d PROVE Six(popIf(d, st))
  BY <1>2, SixPopSrh
<1>3. HasSrh(hs) => sl \in 0..Len(List(hs)) /\ Len(List(hs)) \in Nat
  BY SrhFacts
<1>4. ASSUME HasSrh(hs), ~(sl = 0 /\ isLast(idx)), ~refused, idx # 0,
             CsidAt(hs, sl, idx - 1) = 0
      PROVE  FineActs(a)
  <2>1. sl # 0
    BY <1>4
  <2>2. Six(NextSegment(hs))
    BY <1>4, <2>1, SixNext
  <2> QED
    BY <1>2, <2>2, FineAgain
<1>5. ASSUME HasSrh(hs) PROVE FineActs(b)
  <2>1. Six(write(sl, idx - 1))
    BY <1>3, <1>5, SixWritten
  <2> HIDE DEF write
  <2>2. Six(popIf(sl = 0 /\ isLast(idx - 1), write(sl, idx - 1)))
    BY <1>2, <2>1
  <2> HIDE DEF popIf, isLast
  <2> QED
    BY <2>2, FineOnward, FineAct
<1>6. ASSUME HasSrh(hs), ~refused, idx = 0 PROVE FineActs(c)
  <2>1. sl # 0
    BY <1>6
  <2>2. sl - 1 \in 0..Len(List(hs))
    BY <1>3, <1>6, <2>1
  <2>3. Six(write(sl - 1, AddrLen - 1))
    BY <1>6, <2>2, SixWritten
  <2> HIDE DEF write
  <2>4. Six(popIf(sl = 1 /\ CsidAt(hs, 0, AddrLen - 2) = 0, write(sl - 1, AddrLen - 1)))
    BY <1>2, <2>3
  <2> HIDE DEF popIf, isLast
  <2> QED
    BY <2>4, FineOnward, FineAct
<1>7. ReplaceOnce(t, hs, sid) =
        IF ~sid.geo THEN Act(Keep(hs))
        ELSE IF ~HasSrh(hs) THEN ultimate
        ELSE IF Oversized(hs) THEN Act(Keep(hs))
        ELSE IF sl = 0 /\ isLast(idx) THEN ultimate
        ELSE IF refused THEN Act(Keep(hs))
        ELSE IF idx # 0 /\ CsidAt(hs, sl, idx - 1) = 0 THEN a
        ELSE IF idx # 0 THEN b ELSE c
  BY DEF ReplaceOnce
<1> HIDE DEF ultimate, isLast, write, popIf, refused, a, b, c, sl, last, idx
<1> QED
  BY <1>1, <1>4, <1>5, <1>6, <1>7

LEMMA FineReplace ==
    ASSUME NEW t, NEW hs, Six(hs), NEW sid
    PROVE  Fine(Replace(t, hs, sid))
<1> DEFINE isRep(s) == s # None /\ s.bh \in {"rep", "Xrep"}
           finish(r, s) == IF s.bh = "Xrep" THEN ForwardAdjacency(t, r.v.hs, s.nh) ELSE r.v
           one == ReplaceOnce(t, hs, sid)
           sid2 == LocalSid(t, one.v.hs)
           two == ReplaceOnce(t, one.v.hs, sid2)
           sid3 == LocalSid(t, two.v.hs)
<1>1. FineActs(one)
  BY FineReplaceOnce
<1>2. one.again => FineActs(two)
  <2> HIDE DEF one
  <2> QED
    BY <1>1, FineReplaceOnce DEF FineActs
<1>3. ASSUME NEW r, FineActs(r), r.again, NEW s PROVE Fine(finish(r, s))
  BY <1>3, FineAdjacency DEF FineActs
<1>4. Replace(t, hs, sid) = IF ~one.again THEN one.v
                            ELSE IF ~isRep(sid2) THEN finish(one, sid)
                            ELSE IF ~two.again THEN two.v
                            ELSE IF ~isRep(sid3) THEN finish(two, sid2)
                            ELSE two.v
  BY DEF Replace
<1> HIDE DEF one, two, sid2, sid3, isRep, finish
<1> QED
  BY <1>1, <1>2, <1>3, <1>4 DEF FineActs

\* A header in front of anything: IPv6 or IPv4.
LEMMA WholeIp ==
    ASSUME NEW k \in {"ip4", "ip6"}, NEW sa, NEW da
    PROVE  /\ WholeHeader(Ip(k, sa, da, EncapHop)) /\ Ip(k, sa, da, EncapHop).k = k
           /\ \A g : MayFollow(Ip(k, sa, da, EncapHop), g)
<1> DEFINE h == Ip(k, sa, da, EncapHop)
<1>1. h.k = k /\ h.hop = EncapHop /\ h.srh = <<>> /\ {"k", "hop", "srh"} \subseteq DOMAIN h
  BY DEF Ip
<1> HIDE DEF h
<1>2. EncapHop \in Int
  BY PacketAssumption
<1>3. IsSeq(<<>>) /\ Len(<<>>) = 0
  BY SeqIn, EmptySeq
<1>4. WholeHeader(h)
  BY <1>1, <1>2, <1>3 DEF WholeHeader, IsIp
<1> QED
  BY <1>1, <1>4 DEF h, MayFollow

LEMMA WholeOnTop ==
    ASSUME NEW h, WholeHeader(h), NEW hs, Whole(hs), MayFollow(h, Outer(hs))
    PROVE  Whole(<<h>> \o hs) /\ Outer(<<h>> \o hs) = h
<1> DEFINE top == <<h>>
<1>1. IsSeq(top) /\ Len(top) = 1 /\ top[1] = h
  BY OneFacts
<1> HIDE DEF top
<1>2. /\ top # <<>>
      /\ \A i \in 1..Len(top) : WholeHeader(top[i])
      /\ \A i \in 1..Len(top) - 1 : MayFollow(top[i], top[i + 1])
      /\ MayFollow(top[Len(top)], Outer(hs))
  BY <1>1, SeqFacts
<1>3. Whole(top \o hs) /\ Outer(top \o hs) = top[1]
  BY <1>1, <1>2, WholeJoined
<1> QED
  BY <1>1, <1>3 DEF top

LEMMA ReverseFacts ==
    ASSUME NEW s, IsSeq(s)
    PROVE  IsSeq(Reverse(s)) /\ Len(Reverse(s)) = Len(s)
<1>1. Len(s) \in Nat /\ \A i \in 1..Len(s) : s[i] \in Range(s)
  BY SeqFacts
<1> HIDE DEF Range
<1> DEFINE u == [i \in 1..Len(s) |-> s[Len(s) - i + 1]]
<1>2. \A i \in 1..Len(s) : Len(s) - i + 1 \in 1..Len(s)
  BY <1>1
<1>3. u \in Seq(Range(s)) /\ Len(u) = Len(s)
  BY <1>1, <1>2
<1>4. Reverse(s) = u
  BY DEF Reverse
<1> QED
  BY <1>3, <1>4, SeqIn

\* apply_hencap: Segments Left is the length of the list it writes.
LEMMA WholeHencap ==
    ASSUME NEW t, NEW hs, Whole(hs), NEW segs, IsSeq(segs), segs # <<>>
    PROVE  Whole(Hencap(t, hs, segs))
<1> DEFINE n == Len(segs)
           h == Ip("ip6", t.src, segs[1], EncapHop)
           r == Srh(Reverse(Tail(segs)), n - 1, n - 2)
           g == [h EXCEPT !.srh = <<r>>]
<1>1. WholeHeader(h) /\ h.k = "ip6" /\ \A x : MayFollow(h, x)
  BY WholeIp
<1>2. IsSeq(Tail(segs)) /\ Len(Tail(segs)) = n - 1 /\ n \in Nat /\ n > 0
  BY TailFacts, SeqFacts
<1>3. IsSeq(Reverse(Tail(segs))) /\ Len(Reverse(Tail(segs))) = n - 1
  BY <1>2, ReverseFacts
<1>4. {"list", "sl"} \subseteq DOMAIN r /\ r.list = Reverse(Tail(segs)) /\ r.sl = n - 1
  BY DEF Srh
<1> HIDE DEF r, n
<1>5. WholeSrh(r)
  BY <1>2, <1>3, <1>4 DEF WholeSrh
<1>6. IsSeq(<<r>>) /\ Len(<<r>>) = 1 /\ <<r>>[1] = r
  BY OneFacts
<1>7. WholeSrhs(<<r>>)
  BY <1>5, <1>6 DEF WholeSrhs
<1>8. g.k = "ip6" /\ g.srh = <<r>> /\ g.hop = EncapHop /\ {"k", "hop", "srh"} \subseteq DOMAIN g
  BY DEF Ip
<1>9. EncapHop \in Int
  BY PacketAssumption
<1> HIDE DEF h, g
<1>10. WholeHeader(g) /\ \A x : MayFollow(g, x)
  BY <1>7, <1>8, <1>9 DEF WholeHeader, WholeSrhs, IsIp, MayFollow
<1>11. Whole(<<g>> \o hs) /\ Whole(<<h>> \o hs)
  BY <1>1, <1>10, WholeOnTop
<1>12. Hencap(t, hs, segs) = <<IF n = 1 THEN h ELSE g>> \o hs
  BY DEF Hencap, h, g, r, n
<1> QED
  BY <1>11, <1>12

LEMMA SrhsJoined ==
    ASSUME NEW a, WholeSrhs(a), NEW q, WholeSrhs(q)
    PROVE  WholeSrhs(a \o q)
<1> DEFINE u == a \o q
<1>1. IsSeq(q) /\ Len(q) \in Nat /\ IsSeq(a) /\ Len(a) \in Nat
  BY SeqFacts DEF WholeSrhs
<1>2. /\ IsSeq(u) /\ Len(u) = Len(a) + Len(q)
      /\ \A i \in 1..Len(a) : u[i] = a[i]
      /\ \A i \in 1..Len(q) : u[Len(a) + i] = q[i]
  BY <1>1, CatFacts
<1> HIDE DEF u
<1>3. ASSUME NEW j \in 1..Len(u) PROVE WholeSrh(u[j])
  <2>1. CASE j <= Len(a)
    BY <1>1, <1>2, <2>1 DEF WholeSrhs
  <2>2. CASE ~(j <= Len(a))
    <3>1. j - Len(a) \in 1..Len(q) /\ Len(a) + (j - Len(a)) = j
      BY <1>1, <1>2, <2>2
    <3> QED
      BY <1>2, <3>1 DEF WholeSrhs
  <2> QED
    BY <2>1, <2>2
<1> QED
  BY <1>2, <1>3 DEF WholeSrhs, u

\* srv6_insert: the list has one segment more than Segments Left.
LEMMA WholeHinsert ==
    ASSUME NEW hs, Six(hs), NEW segs, IsSeq(segs)
    PROVE  Whole(Hinsert(hs, segs))
<1> DEFINE h == Outer(hs)
           n == Len(segs)
           list == <<h.da>> \o Reverse(segs)
           r == Srh(list, n, n)
           q == <<r>> \o h.srh
           g == [h EXCEPT !.da = segs[1], !.hop = h.hop - 1, !.srh = q]
<1>1. WholeSrhs(h.srh) /\ h.hop \in Int /\ h.k = "ip6" /\ WholeHeader(h)
  BY SixFacts, StackFacts DEF Six
<1>2. IsSeq(Reverse(segs)) /\ Len(Reverse(segs)) = n /\ n \in Nat
  BY ReverseFacts, SeqFacts
<1>3. IsSeq(<<h.da>>) /\ Len(<<h.da>>) = 1
  BY OneFacts
<1>4. IsSeq(list) /\ Len(list) = 1 + n
  BY <1>2, <1>3, CatFacts
<1>5. {"list", "sl"} \subseteq DOMAIN r /\ r.list = list /\ r.sl = n
  BY DEF Srh
<1> HIDE DEF list, n, r
<1>6. WholeSrh(r)
  BY <1>2, <1>4, <1>5 DEF WholeSrh
<1>7. IsSeq(<<r>>) /\ Len(<<r>>) = 1 /\ <<r>>[1] = r
  BY OneFacts
<1>8. WholeSrhs(q)
  <2>1. WholeSrhs(<<r>>)
    BY <1>6, <1>7 DEF WholeSrhs
  <2> QED
    BY <1>1, <2>1, SrhsJoined
<1> HIDE DEF q
<1>10. {"k", "hop", "srh"} \subseteq DOMAIN h
  BY <1>1 DEF WholeHeader, IsIp
<1>11. g.k = "ip6" /\ g.srh = q /\ g.hop \in Int /\ {"k", "hop", "srh"} \subseteq DOMAIN g
  <2>1. h.hop - 1 \in Int
    BY <1>1
  <2> HIDE DEF h
  <2> QED
    BY <1>1, <1>10, <2>1
<1> HIDE DEF g
<1>12. WholeHeader(g) /\ \A x : MayFollow(g, x)
  BY <1>8, <1>11 DEF WholeHeader, WholeSrhs, IsIp, MayFollow
<1>13. Hinsert(hs, segs) = <<g>> \o Tail(hs)
  BY DEF Hinsert, g, q, r, list, n
<1>14. Len(hs) \in Nat /\ Len(hs) > 0 /\ IsSeq(hs) /\ hs # <<>> /\ Whole(hs)
  BY StackFacts DEF Six
<1>15. CASE Len(hs) > 1
  BY <1>12, <1>13, <1>14, <1>15, WholeTail, WholeOnTop
<1>16. CASE Len(hs) = 1
  <2>1. IsSeq(Tail(hs)) /\ Len(Tail(hs)) = 0
    BY <1>14, <1>16, TailFacts
  <2>2. Tail(hs) = <<>>
    <3> DEFINE w == Tail(hs)
    <3>1. IsSeq(w) /\ Len(w) = 0
      BY <2>1
    <3> HIDE DEF w
    <3>2. w = <<>>
      BY <3>1, SeqFacts
    <3> QED
      BY <3>2 DEF w
  <2>3. IsSeq(<<g>>) /\ Len(<<g>>) = 1 /\ <<g>>[1] = g
    BY OneFacts
  <2>4. <<g>> \o Tail(hs) = <<g>>
    BY <2>2, <2>3, ConcatEmptySeq DEF IsSeq
  <2> DEFINE u == <<g>>
  <2> HIDE DEF u
  <2>5. IsSeq(u) /\ Len(u) = 1 /\ u[1] = g
    BY <2>3 DEF u
  <2>6. u # <<>> /\ \A i \in 1..Len(u) : WholeHeader(u[i])
    BY <1>12, <2>5, SeqFacts
  <2>7. \A i \in 1..Len(u) - 1 : MayFollow(u[i], u[i + 1])
    BY <2>5
  <2>8. u[Len(u)].k \notin {"mpls", "vxlan", "eth"}
    BY <1>11, <2>5
  <2>9. Whole(u)
    BY <2>5, <2>6, <2>7, <2>8 DEF Whole
  <2> QED
    BY <1>13, <2>4, <2>9 DEF u
<1>17. Len(hs) > 1 \/ Len(hs) = 1
  <2> DEFINE m == Len(hs)
  <2>1. m \in Nat /\ m > 0
    BY <1>14
  <2> HIDE DEF m
  <2>2. m > 1 \/ m = 1
    BY <2>1
  <2> QED
    BY <2>2 DEF m
<1> QED
  BY <1>15, <1>16, <1>17

\* The tables hold lists where the stages read lists.
Listed(t) == /\ \A i \in DOMAIN t.nh : IsSeq(t.nh[i].labels)
             /\ \A i \in DOMAIN t.encap : IsSeq(t.encap[i].segs)

LEMMA Labels ==
    ASSUME NEW t, Listed(t), NEW id, Get(t.nh, id) # None
    PROVE  IsSeq(Get(t.nh, id).labels)
BY DEF Listed, Get

LEMMA Policy ==
    ASSUME NEW t, Listed(t), NEW id, Bindable(Get(t.encap, id))
    PROVE  IsSeq(Get(t.encap, id).segs) /\ Get(t.encap, id).segs # <<>>
<1> DEFINE q == Get(t.encap, id).segs
<1>1. IsSeq(q)
  BY DEF Listed, Get, Bindable
<1>2. Len(q) \in 1..MaxSegs
  BY DEF Bindable
<1> HIDE DEF q
<1>3. Len(q) > 0
  BY <1>2, PacketAssumption
<1>4. q # <<>>
  BY <1>1, <1>3, SeqFacts
<1> QED
  BY <1>1, <1>4 DEF q

LEMMA FineB6 ==
    ASSUME NEW t, Listed(t), NEW hs, Six(hs), NEW sid
    PROVE  Fine(B6Encaps(t, hs, sid))
<1> DEFINE enc == Get(t.encap, sid.nh)
           on == SetOuter(NextSegment(hs), "hop", Outer(hs).hop - 1)
<1>1. ASSUME HasSrh(hs), Sl(hs) # 0 PROVE Six(on)
  <2>1. Six(NextSegment(hs)) /\ Outer(hs).hop - 1 \in Int
    BY <1>1, SixNext, SixFacts
  <2> QED
    BY <2>1, SixSet
<1> HIDE DEF on
<1>2. ASSUME HasSrh(hs), Sl(hs) # 0, Bindable(enc)
      PROVE  Fine(Keep(Hencap(t, on, enc.segs))) /\ Fine(Keep(on))
  BY <1>1, <1>2, Policy, WholeHencap, FineVerdict DEF Six
<1>3. Fine(Keep(hs))
  BY FineVerdict DEF Six
<1> QED
  BY <1>2, <1>3 DEF B6Encaps, on

LEMMA FineDt ==
    ASSUME NEW hs, Six(hs), NEW sid
    PROVE  Fine(Dt(hs, sid))
<1>1. Accepts(sid.bh, Proto(hs)) => Whole(DecapHead(hs))
  BY WholePayload DEF Accepts, Six
<1> QED
  BY <1>1, FineVerdict, FineDrop DEF Dt, Six

LEMMA FineDx ==
    ASSUME NEW t, NEW hs, Six(hs), NEW sid
    PROVE  Fine(Dx(t, hs, sid))
<1>1. Accepts(sid.bh, Proto(hs)) => Whole(DecapHead(hs))
  BY WholePayload DEF Accepts, Six
<1> QED
  BY <1>1, FineVerdict, FineDrop DEF Dx, Six

LEMMA FineDx2 ==
    ASSUME NEW t, NEW hs, Six(hs), NEW sid
    PROVE  Fine(Dx2(t, hs, sid))
<1>1. Proto(hs) = "eth" => Whole(DecapHead(hs))
  BY WholePayload DEF Six
<1> QED
  BY <1>1, FineVerdict DEF Dx2, Six

LEMMA FineDt2 ==
    ASSUME NEW t, NEW hs, Six(hs), NEW sid
    PROVE  Fine(Dt2(t, hs, sid))
<1>1. Proto(hs) = "eth" => Whole(DecapHead(hs))
  BY WholePayload DEF Six
<1> QED
  BY <1>1, FineVerdict, FineDrop DEF Dt2, Six

LEMMA FineEndM ==
    ASSUME NEW t, NEW hs, Six(hs), NEW sid
    PROVE  Fine(EndM(t, hs, sid))
<1>1. Proto(hs) = "ip6" => Six(DecapHead(hs))
  BY WholePayload DEF Six
<1>2. \A hit : Proto(hs) = "ip6" => Fine(Dt(DecapHead(hs), hit))
  BY <1>1, FineDt
<1> QED
  BY <1>2, FineVerdict, FineDrop DEF EndM, Six

LEMMA FineSrv6 ==
    ASSUME NEW t, Listed(t), NEW hs, Six(hs)
    PROVE  Fine(Srv6Xdp(t, hs))
<1> DEFINE sid == LocalSid(t, hs)
<1>1. /\ Fine(Keep(hs)) /\ Fine(Pass(hs, Meta("repl", 0)))
      /\ Fine(End(t, hs, sid)) /\ Fine(Un(t, hs, sid)) /\ Fine(Ua(t, hs, sid))
      /\ Fine(Replace(t, hs, sid)) /\ Fine(B6Encaps(t, hs, sid))
  BY FineVerdict, FineEnd, FineUn, FineUa, FineReplace, FineB6 DEF Six
<1>2. /\ Fine(Dx(t, hs, sid)) /\ Fine(Dx2(t, hs, sid)) /\ Fine(Dt2(t, hs, sid))
      /\ Fine(EndM(t, hs, sid)) /\ Fine(Dt(hs, sid))
  BY FineDx, FineDx2, FineDt2, FineEndM, FineDt
<1> QED
  BY <1>1, <1>2 DEF Srv6Xdp

-----------------------------------------------------------------------------
(* Labels.                                                                 *)

\* A label entry and what is under it.
LEMMA LabelFacts ==
    ASSUME NEW hs, Whole(hs), Outer(hs).k = "mpls"
    PROVE  /\ Whole(Tail(hs)) /\ Outer(Tail(hs)) = hs[2]
           /\ Outer(hs).ttl \in Nat \ {0} /\ Outer(hs).s \in BOOLEAN
           /\ Outer(hs).s <=> hs[2].k # "mpls"
<1>1. Len(hs) > 1 /\ MayFollow(Outer(hs), hs[2])
  BY Carries
<1>2. WholeHeader(Outer(hs))
  BY StackFacts
<1> QED
  BY <1>1, <1>2, WholeTail DEF MayFollow, WholeHeader

LEMMA WholeOwnPopped ==
    ASSUME NEW t, NEW hs, Whole(hs)
    PROVE  Whole(OwnPopped(t, hs))
<1> DEFINE n == Len(hs)
           own == {i \in 1..n : \A j \in 1..i : j <= MaxLabels + 1 /\ OwnLabel(t, hs[j])}
<1>1. n \in Nat /\ n > 0 /\ hs[n].k # "mpls"
  BY StackFacts DEF Whole
<1>2. own \subseteq 1..n - 1
  <2> SUFFICES ASSUME NEW i \in own PROVE i \in 1..n - 1
    OBVIOUS
  <2>1. i \in 1..n /\ OwnLabel(t, hs[i])
    <3>1. i \in 1..n /\ \A j \in 1..i : OwnLabel(t, hs[j])
      OBVIOUS
    <3>2. i \in 1..i
      BY <3>1
    <3> QED
      BY <3>1, <3>2
  <2>2. i # n
    BY <1>1, <2>1 DEF OwnLabel
  <2> HIDE DEF n
  <2> QED
    BY <1>1, <2>1, <2>2
<1>3. Cardinality(own) \in 0..n - 1
  <2> HIDE DEF own, n
  <2>1. IsFiniteSet(1..n - 1) /\ Cardinality(1..n - 1) = n - 1
    <3> DEFINE m == n - 1
    <3>1. m \in Int /\ (IF 1 > m THEN 0 ELSE m - 1 + 1) = m /\ 1 \in Int
      BY <1>1
    <3> HIDE DEF m
    <3>2. IsFiniteSet(1..m) /\ Cardinality(1..m) = IF 1 > m THEN 0 ELSE m - 1 + 1
      BY <3>1, FS_Interval
    <3> QED
      BY <3>1, <3>2 DEF m
  <2>2. IsFiniteSet(own) /\ Cardinality(own) <= n - 1
    BY <1>2, <2>1, FS_Subset
  <2>3. Cardinality(own) \in Nat
    BY <2>2, FS_CardinalityType
  <2> QED
    BY <1>1, <2>2, <2>3
<1>4. OwnPopped(t, hs) = SubSeq(hs, Cardinality(own) + 1, n)
  BY DEF OwnPopped
<1> HIDE DEF own
<1> QED
  BY <1>3, <1>4, WholeSuffix

\* The IP header under a label takes a TTL.
LEMMA WholeUnder ==
    ASSUME NEW hs, Whole(hs), Outer(hs).k = "mpls", IsIp(Outer(DecapHead(hs)).k), NEW uniform,
           NEW ttl \in Int
    PROVE  Whole(SetOuter(DecapHead(hs), "hop",
                          IF uniform THEN ttl ELSE Outer(DecapHead(hs)).hop))
<1> DEFINE in == DecapHead(hs)
<1>1. Whole(in)
  BY LabelFacts DEF DecapHead
<1> HIDE DEF in
<1>2. IsIp(Outer(in).k) => Outer(in).hop \in Int
  BY <1>1, StackFacts DEF WholeHeader
<1>3. Outer(in).hop \in Int
  BY <1>2 DEF in
<1>4. (IF uniform THEN ttl ELSE Outer(in).hop) \in Int
  BY <1>3
<1> QED
  BY <1>1, <1>4, WholeSetHop DEF in

LEMMA FinePopDecapLocal ==
    ASSUME NEW hs, Whole(hs), Outer(hs).k = "mpls", NEW ent
    PROVE  Fine(PopDecapLocal(hs, ent))
<1> DEFINE in == DecapHead(hs)
           st == SetOuter(in, "hop", IF ent.uniform THEN Outer(hs).ttl ELSE Outer(in).hop)
<1>1. IsIp(Outer(in).k) => Whole(st)
  BY LabelFacts, WholeUnder
<1>2. PopDecapLocal(hs, ent) =
        IF ~IsIp(Outer(in).k) THEN Drop
        ELSE Pass(st, IF ent.vrf = 0 THEN NoMeta ELSE Meta("plain", ent.vrf))
  BY DEF PopDecapLocal
<1> HIDE DEF st, in
<1> QED
  BY <1>1, <1>2, FineVerdict, FineDrop

LEMMA FinePopForward ==
    ASSUME NEW hs, Whole(hs), Outer(hs).k = "mpls", NEW ent, NEW nh
    PROVE  Fine(PopForward(hs, ent, nh))
<1> DEFINE in == DecapHead(hs)
           st == SetOuter(in, "hop", IF ent.uniform THEN Outer(hs).ttl - 1 ELSE Outer(in).hop)
<1>1. Whole(in) /\ Outer(hs).ttl - 1 \in Int
  BY LabelFacts DEF DecapHead
<1>2. IsIp(Outer(in).k) => Whole(st)
  BY <1>1, WholeUnder
<1>3. PopForward(hs, ent, nh) =
        IF ~Resolved(nh) THEN Keep(hs)
        ELSE IF ~Outer(hs).s THEN Send(in, nh.to)
        ELSE IF ~IsIp(Outer(in).k) THEN Drop
        ELSE Send(st, nh.to)
  BY DEF PopForward
<1> HIDE DEF st, in
<1> QED
  BY <1>1, <1>2, <1>3, FineVerdict, FineDrop

LEMMA FinePopDecapL2 ==
    ASSUME NEW t, NEW hs, Whole(hs), Outer(hs).k = "mpls", NEW bd
    PROVE  Fine(PopDecapL2(t, hs, bd))
<1>1. Whole(Tail(hs)) /\ Outer(Tail(hs)) = hs[2] /\ (Outer(hs).s <=> hs[2].k # "mpls")
  BY LabelFacts
<1>2. ~Outer(hs).s => Whole(Tail(Tail(hs)))
  BY <1>1, LabelFacts
<1>3. Outer(hs).s => \A m : Fine(Pass(DecapHead(hs), m))
  BY <1>1, FineVerdict DEF DecapHead
<1>4. ~Outer(hs).s => \A m : Fine(Pass(Tail(Tail(hs)), m))
  BY <1>2, FineVerdict
<1> QED
  BY <1>3, <1>4, FineDrop DEF PopDecapL2

LEMMA FinePopDecapXc ==
    ASSUME NEW t, NEW hs, Whole(hs), Outer(hs).k = "mpls", NEW ent
    PROVE  Fine(PopDecapXc(t, hs, ent))
<1>1. Whole(DecapHead(hs))
  BY LabelFacts DEF DecapHead
<1> QED
  BY <1>1, FineVerdict, FineDrop DEF PopDecapXc

LEMMA LseFacts ==
    ASSUME NEW label, NEW s, NEW ttl
    PROVE  LET h == Lse(label, s, ttl)
           IN  /\ h.k = "mpls" /\ h.s = s /\ h.ttl = ttl
               /\ {"k", "ttl", "s"} \subseteq DOMAIN h
BY DEF Lse

\* Imposed labels: only the last may be the bottom, and it is when what is
\* under it is no label.
LEMMA ImposeFacts ==
    ASSUME NEW labels, IsSeq(labels), labels # <<>>, NEW s \in BOOLEAN, NEW ttl \in Nat \ {0}
    PROVE  LET u == Impose(labels, s, ttl)
           IN  /\ IsSeq(u) /\ u # <<>>
               /\ \A i \in 1..Len(u) : WholeHeader(u[i])
               /\ \A i \in 1..Len(u) - 1 : MayFollow(u[i], u[i + 1])
               /\ u[Len(u)].k = "mpls" /\ u[Len(u)].s = s
<1> DEFINE n == Len(labels)
           u == Impose(labels, s, ttl)
<1>1. n \in Nat /\ n > 0
  BY SeqFacts
<1>2. u = [i \in 1..n |-> Lse(labels[i], s /\ i = n, ttl)]
  BY DEF Impose
<1> HIDE DEF n, u
<1>3. u \in Seq({u[i] : i \in 1..n}) /\ Len(u) = n
  BY <1>1, <1>2
<1>4. IsSeq(u)
  BY <1>3, SeqIn
<1>5. u # <<>>
  BY <1>1, <1>3, <1>4, SeqFacts
<1>6. \A i \in 1..n : u[i] = Lse(labels[i], s /\ i = n, ttl)
  BY <1>2
<1>7. ASSUME NEW i \in 1..n
      PROVE  /\ u[i].k = "mpls" /\ u[i].s = (s /\ i = n) /\ u[i].ttl = ttl
             /\ {"k", "ttl", "s"} \subseteq DOMAIN u[i]
  BY <1>6, LseFacts
<1>8. \A i \in 1..n : WholeHeader(u[i])
  <2> SUFFICES ASSUME NEW i \in 1..n PROVE WholeHeader(u[i])
    OBVIOUS
  <2>1. (s /\ i = n) \in BOOLEAN
    OBVIOUS
  <2> QED
    BY <1>7, <2>1 DEF WholeHeader, IsIp
<1>9. \A i \in 1..n - 1 : MayFollow(u[i], u[i + 1])
  <2> SUFFICES ASSUME NEW i \in 1..n - 1 PROVE MayFollow(u[i], u[i + 1])
    OBVIOUS
  <2>1. i \in 1..n /\ i # n /\ i + 1 \in 1..n
    BY <1>1
  <2>2. u[i].k = "mpls" /\ ~u[i].s /\ u[i + 1].k = "mpls"
    BY <1>7, <2>1
  <2> QED
    BY <2>2 DEF MayFollow
<1>10. u[n].k = "mpls" /\ u[n].s = s
  <2>1. n \in 1..n
    BY <1>1
  <2> QED
    BY <1>7, <2>1
<1> QED
  BY <1>3, <1>4, <1>5, <1>8, <1>9, <1>10 DEF u

LEMMA WholeImposed ==
    ASSUME NEW labels, IsSeq(labels), labels # <<>>, NEW s \in BOOLEAN, NEW ttl \in Nat \ {0},
           NEW hs, Whole(hs), s <=> Outer(hs).k # "mpls"
    PROVE  Whole(Impose(labels, s, ttl) \o hs) /\ Outer(Impose(labels, s, ttl) \o hs).k = "mpls"
<1> DEFINE u == Impose(labels, s, ttl)
<1>1. /\ IsSeq(u) /\ u # <<>>
      /\ \A i \in 1..Len(u) : WholeHeader(u[i])
      /\ \A i \in 1..Len(u) - 1 : MayFollow(u[i], u[i + 1])
      /\ u[Len(u)].k = "mpls" /\ u[Len(u)].s = s
  BY ImposeFacts
<1>2. u[1].k = "mpls"
  <2>1. 1 \in 1..Len(labels)
    BY SeqFacts
  <2> QED
    BY <2>1 DEF Impose, Lse
<1> HIDE DEF u
<1>3. MayFollow(u[Len(u)], Outer(hs))
  BY <1>1 DEF MayFollow
<1>4. Whole(u \o hs) /\ Outer(u \o hs) = u[1]
  BY <1>1, <1>3, WholeJoined
<1> QED
  BY <1>2, <1>4 DEF u

LEMMA FineXmit ==
    ASSUME NEW hs, Whole(hs), NEW nh
    PROVE  Fine(Xmit(hs, nh))
BY FineVerdict DEF Xmit

LEMMA FineGrowSwap ==
    ASSUME NEW hs, Whole(hs), Outer(hs).k = "mpls", Outer(hs).ttl > 1,
           NEW nh, IsSeq(nh.labels), nh.labels # <<>>
    PROVE  Fine(GrowSwap(hs, nh))
<1> DEFINE st == Impose(nh.labels, Outer(hs).s, Outer(hs).ttl - 1) \o Tail(hs)
<1>1. /\ Whole(Tail(hs)) /\ Outer(Tail(hs)) = hs[2]
      /\ Outer(hs).ttl \in Nat \ {0} /\ Outer(hs).s \in BOOLEAN
      /\ Outer(hs).s <=> hs[2].k # "mpls"
  BY LabelFacts
<1>2. Outer(hs).ttl - 1 \in Nat \ {0}
  BY <1>1
<1>3. Whole(st)
  BY <1>1, <1>2, WholeImposed
<1> HIDE DEF st
<1> QED
  BY <1>3, FineVerdict DEF GrowSwap, st

LEMMA FineMplsOp ==
    ASSUME NEW t, Listed(t), NEW hs, Whole(hs)
    PROVE  Fine(MplsOp(t, hs))
<1> DEFINE h == Outer(hs)
           ent == Get(t.ilm, h.label)
           nh == Get(t.nh, ent.nh)
<1>1. Fine(Keep(hs))
  BY FineVerdict
<1>2. ASSUME h.k = "mpls"
      PROVE  /\ Fine(PopDecapL2(t, hs, ent.vrf)) /\ Fine(PopDecapXc(t, hs, ent))
             /\ Fine(PopDecapLocal(hs, ent)) /\ Fine(PopForward(hs, ent, nh))
  BY <1>2, FinePopDecapL2, FinePopDecapXc, FinePopDecapLocal, FinePopForward
<1>3. ASSUME h.k = "mpls", ~(h.ttl <= 1), nh # None, Len(nh.labels) > 1
      PROVE  Fine(GrowSwap(hs, nh))
  <2>1. h.ttl > 1
    BY <1>3, LabelFacts
  <2>2. IsSeq(nh.labels)
    BY <1>3, Labels
  <2>3. nh.labels # <<>>
    <3> DEFINE q == nh.labels
    <3>1. IsSeq(q) /\ Len(q) > 1
      BY <1>3, <2>2
    <3> HIDE DEF q
    <3>2. q # <<>>
      BY <3>1, SeqFacts
    <3> QED
      BY <3>2 DEF q
  <2> QED
    BY <1>3, <2>1, <2>2, <2>3, FineGrowSwap
<1> HIDE DEF ent, nh
<1> QED
  BY <1>1, <1>2, <1>3 DEF MplsOp, ent, nh

LEMMA FineMplsXdp ==
    ASSUME NEW t, Listed(t), NEW hs, Whole(hs)
    PROVE  Fine(MplsXdp(t, hs))
BY WholeOwnPopped, FineMplsOp, FineVerdict DEF MplsXdp

LEMMA FineMplsForward ==
    ASSUME NEW t, NEW hs, Whole(hs), Outer(hs).k = "mpls"
    PROVE  Fine(MplsForward(t, hs))
<1> DEFINE h == Outer(hs)
<1>1. /\ Whole(Tail(hs)) /\ Outer(Tail(hs)) = hs[2] /\ h.ttl \in Nat \ {0}
      /\ h.s \in BOOLEAN /\ (h.s <=> hs[2].k # "mpls")
  BY LabelFacts
<1>2. ASSUME NEW label, ~(h.ttl <= 1)
      PROVE  Whole(<<Lse(label, h.s, h.ttl - 1)>> \o Tail(hs))
  <2> DEFINE g == Lse(label, h.s, h.ttl - 1)
  <2>1. h.ttl - 1 \in Nat \ {0}
    BY <1>1, <1>2
  <2>2. g.k = "mpls" /\ g.s = h.s /\ g.ttl = h.ttl - 1 /\ {"k", "ttl", "s"} \subseteq DOMAIN g
    BY LseFacts
  <2> HIDE DEF g
  <2>3. WholeHeader(g) /\ MayFollow(g, Outer(Tail(hs)))
    BY <1>1, <2>1, <2>2 DEF WholeHeader, MayFollow, IsIp
  <2>4. Whole(<<g>> \o Tail(hs))
    BY <1>1, <2>3, WholeOnTop
  <2> QED
    BY <2>4 DEF g
<1>3. ASSUME NEW label, ~(h.ttl <= 1), NEW nh
      PROVE  Fine(Xmit(<<Lse(label, h.s, h.ttl - 1)>> \o Tail(hs), nh))
  BY <1>2, <1>3, FineXmit
<1>4. Fine(Keep(hs))
  BY FineVerdict
<1> QED
  BY <1>3, <1>4 DEF MplsForward

LEMMA FineMplsPush ==
    ASSUME NEW hs, Whole(hs), IsIp(Outer(hs).k), ~(Outer(hs).hop <= 1),
           NEW nh, IsSeq(nh.labels), nh.labels # <<>>
    PROVE  Fine(MplsPush(hs, nh))
<1> DEFINE ttl == IF nh.pipe THEN PipeTtl ELSE Outer(hs).hop
           st == Impose(nh.labels, TRUE, ttl) \o hs
<1>1. Outer(hs).hop \in Int
  BY StackFacts DEF WholeHeader
<1>2. Outer(hs).hop \in Nat \ {0}
  BY <1>1
<1>3. ttl \in Nat \ {0}
  BY <1>2, PacketAssumption
<1>4. TRUE <=> Outer(hs).k # "mpls"
  BY DEF IsIp
<1> HIDE DEF ttl
<1>5. Whole(st)
  BY <1>3, <1>4, WholeImposed
<1> HIDE DEF st
<1>6. MplsPush(hs, nh) = IF Len(nh.labels) > MaxLabels THEN Keep(hs) ELSE Xmit(st, nh)
  BY DEF MplsPush, st, ttl
<1> QED
  BY <1>5, <1>6, FineXmit, FineVerdict

-----------------------------------------------------------------------------
(* Tunnels.                                                                *)

LEMMA FineGtpDecap ==
    ASSUME NEW hs, Whole(hs), Proto(hs) = "gtp", NEW pdr
    PROVE  Fine(GtpDecap(hs, pdr))
<1>1. Len(hs) > 1 /\ Whole(Tail(hs)) /\ Len(Tail(hs)) = Len(hs) - 1 /\ Len(hs) \in Nat
  BY WholePayload, WholeTail, StackFacts
<1>2. ASSUME Len(hs) # 2 PROVE Whole(Tail(Tail(hs)))
  <2>1. Len(Tail(hs)) > 1
    <3> DEFINE n == Len(hs)
               m == Len(Tail(hs))
    <3>1. n > 1 /\ m = n - 1 /\ n \in Nat /\ n # 2
      BY <1>1, <1>2
    <3> HIDE DEF n, m
    <3>2. m > 1
      BY <3>1
    <3> QED
      BY <3>2 DEF m
  <2> QED
    BY <1>1, <2>1, WholeTail
<1> QED
  BY <1>2, FineVerdict, FineDrop DEF GtpDecap

\* A VXLAN header carries a frame, and the frame something.
LEMMA FineVxlanDecap ==
    ASSUME NEW t, NEW hs, Whole(hs), Proto(hs) = "vxlan", NEW vtep
    PROVE  Fine(VxlanDecap(t, hs, vtep))
<1> DEFINE a == Tail(hs)
           b == Tail(a)
           c == Tail(b)
<1>1. Whole(a) /\ Outer(a).k = "vxlan"
  BY WholePayload DEF DecapHead
<1> HIDE DEF a
<1>2. Len(a) > 1 /\ a[2].k = "eth"
  BY <1>1, Carries DEF MayFollow
<1>3. Whole(b) /\ Outer(b).k = "eth"
  BY <1>1, <1>2, WholeTail
<1> HIDE DEF b
<1>4. Whole(c)
  BY <1>3, Carries, WholeTail
<1> HIDE DEF c
<1>5. /\ Fine(Keep(hs)) /\ \A m : Fine(Pass(b, m)) /\ Fine(Pass(c, m))
  BY <1>3, <1>4, FineVerdict
<1>6. b = Tail(Tail(hs)) /\ c = Tail(Tail(Tail(hs)))
  BY DEF a, b, c
<1> QED
  BY <1>5, <1>6 DEF VxlanDecap

LEMMA WholeTwo ==
    ASSUME NEW a, WholeHeader(a), NEW b, WholeHeader(b), MayFollow(a, b),
           NEW hs, Whole(hs), MayFollow(b, Outer(hs))
    PROVE  Whole(<<a, b>> \o hs)
<1> DEFINE top == <<a, b>>
<1>1. top \in Seq({a, b}) /\ Len(top) = 2 /\ top[1] = a /\ top[2] = b
  OBVIOUS
<1> HIDE DEF top
<1>2. IsSeq(top) /\ top # <<>>
  <2>1. IsSeq(top)
    BY <1>1, SeqIn
  <2> QED
    BY <1>1, <2>1, SeqFacts
<1>3. /\ \A i \in 1..Len(top) : WholeHeader(top[i])
      /\ \A i \in 1..Len(top) - 1 : MayFollow(top[i], top[i + 1])
      /\ MayFollow(top[Len(top)], Outer(hs))
  BY <1>1
<1>4. Whole(top \o hs)
  BY <1>2, <1>3, WholeJoined
<1> QED
  BY <1>4 DEF top

LEMMA WholeThree ==
    ASSUME NEW a, WholeHeader(a), NEW b, WholeHeader(b), NEW c, WholeHeader(c),
           MayFollow(a, b), MayFollow(b, c), NEW hs, Whole(hs), MayFollow(c, Outer(hs))
    PROVE  Whole(<<a, b, c>> \o hs)
<1> DEFINE top == <<a, b, c>>
<1>1. top \in Seq({a, b, c}) /\ Len(top) = 3 /\ top[1] = a /\ top[2] = b /\ top[3] = c
  OBVIOUS
<1> HIDE DEF top
<1>2. IsSeq(top) /\ top # <<>>
  <2>1. IsSeq(top)
    BY <1>1, SeqIn
  <2> QED
    BY <1>1, <2>1, SeqFacts
<1>3. /\ \A i \in 1..Len(top) : WholeHeader(top[i])
      /\ \A i \in 1..Len(top) - 1 : MayFollow(top[i], top[i + 1])
      /\ MayFollow(top[Len(top)], Outer(hs))
  BY <1>1
<1>4. Whole(top \o hs)
  BY <1>2, <1>3, WholeJoined
<1> QED
  BY <1>4 DEF top

LEMMA WholeTunnel ==
    /\ \A teid : WholeHeader(Gtp(teid)) /\ \A g : MayFollow(Gtp(teid), g)
    /\ \A vni : /\ WholeHeader(Vxlan(vni))
                /\ \A g : g.k = "eth" => MayFollow(Vxlan(vni), g)
    /\ \A dst, src, vid : LET h == Eth(dst, src, vid)
                          IN h.k = "eth" /\ WholeHeader(h) /\ \A g : MayFollow(h, g)
<1>1. \A teid : WholeHeader(Gtp(teid)) /\ \A g : MayFollow(Gtp(teid), g)
  BY DEF Gtp, WholeHeader, MayFollow, IsIp
<1>2. \A vni : /\ WholeHeader(Vxlan(vni))
               /\ \A g : g.k = "eth" => MayFollow(Vxlan(vni), g)
  BY DEF Vxlan, WholeHeader, MayFollow, IsIp
<1>3. \A dst, src, vid : LET h == Eth(dst, src, vid)
                         IN h.k = "eth" /\ WholeHeader(h) /\ \A g : MayFollow(h, g)
  BY DEF Eth, WholeHeader, MayFollow, IsIp
<1> QED
  BY <1>1, <1>2, <1>3

LEMMA FineGtpEncaps ==
    ASSUME NEW t, NEW hs, Whole(hs), NEW id, NEW nh
    PROVE  Fine(GtpEncap(t, hs, id, nh)) /\ Fine(Gtp6Encap(t, hs, id, nh))
<1>1. ASSUME NEW k \in {"ip4", "ip6"}, NEW sa, NEW da, NEW teid
      PROVE  Fine(Xmit(<<Ip(k, sa, da, EncapHop), Gtp(teid)>> \o hs, nh))
  <2> DEFINE a == Ip(k, sa, da, EncapHop)
             b == Gtp(teid)
  <2>1. WholeHeader(a) /\ MayFollow(a, b) /\ WholeHeader(b) /\ MayFollow(b, Outer(hs))
    BY WholeIp, WholeTunnel
  <2> HIDE DEF a, b
  <2>2. Whole(<<a, b>> \o hs)
    BY <2>1, WholeTwo
  <2>3. Fine(Xmit(<<a, b>> \o hs, nh))
    BY <2>2, FineXmit
  <2> QED
    BY <2>3 DEF a, b
<1>2. Fine(Keep(hs))
  BY FineVerdict
<1>3. Fine(GtpEncap(t, hs, id, nh))
  BY <1>1, <1>2 DEF GtpEncap
<1>4. Fine(Gtp6Encap(t, hs, id, nh))
  BY <1>1, <1>2 DEF Gtp6Encap
<1> QED
  BY <1>3, <1>4

LEMMA FineVxlanL3Encap ==
    ASSUME NEW t, NEW hs, Whole(hs), NEW id, NEW nh
    PROVE  Fine(VxlanL3Encap(t, hs, id, nh))
<1>1. ASSUME NEW sa, NEW da, NEW vni, NEW dst, NEW src
      PROVE  Fine(Xmit(<<Ip("ip4", sa, da, EncapHop), Vxlan(vni), Eth(dst, src, 0)>> \o hs, nh))
  <2> DEFINE a == Ip("ip4", sa, da, EncapHop)
             b == Vxlan(vni)
             c == Eth(dst, src, 0)
  <2>1. /\ WholeHeader(a) /\ WholeHeader(b) /\ WholeHeader(c)
        /\ MayFollow(a, b) /\ MayFollow(b, c) /\ MayFollow(c, Outer(hs))
    BY WholeIp, WholeTunnel
  <2> HIDE DEF a, b, c
  <2>2. Whole(<<a, b, c>> \o hs)
    BY <2>1, WholeThree
  <2>3. Fine(Xmit(<<a, b, c>> \o hs, nh))
    BY <2>2, FineXmit
  <2> QED
    BY <2>3 DEF a, b, c
<1>2. Fine(Keep(hs))
  BY FineVerdict
<1> QED
  BY <1>1, <1>2 DEF VxlanL3Encap

-----------------------------------------------------------------------------
(* Frames into tunnels.                                                    *)

LEMMA FineL2Srv6 ==
    ASSUME NEW t, NEW hs, Whole(hs), NEW tgt, NEW nh
    PROVE  Fine(L2Srv6Encap(t, hs, tgt, nh))
<1> DEFINE h == Ip("ip6", t.src, tgt.addr, EncapHop)
<1>1. WholeHeader(h) /\ MayFollow(h, Outer(hs))
  BY WholeIp
<1> HIDE DEF h
<1>2. Whole(<<h>> \o hs)
  BY <1>1, WholeOnTop
<1>3. Fine(Send(<<h>> \o hs, nh.to)) /\ Fine(Keep(hs))
  BY <1>2, FineVerdict
<1> QED
  BY <1>3 DEF L2Srv6Encap, h

LEMMA FineL2Vxlan ==
    ASSUME NEW t, NEW hs, Whole(hs), Outer(hs).k = "eth", NEW tgt, NEW nh
    PROVE  Fine(L2VxlanEncap(t, hs, tgt, nh))
<1>1. ASSUME NEW k \in {"ip4", "ip6"}, NEW sa, NEW da, NEW vni
      PROVE  Fine(Send(<<Ip(k, sa, da, EncapHop), Vxlan(vni)>> \o hs, nh.to))
  <2> DEFINE a == Ip(k, sa, da, EncapHop)
             b == Vxlan(vni)
  <2>1. WholeHeader(a) /\ MayFollow(a, b) /\ WholeHeader(b) /\ MayFollow(b, Outer(hs))
    BY WholeIp, WholeTunnel
  <2> HIDE DEF a, b
  <2>2. Whole(<<a, b>> \o hs)
    BY <2>1, WholeTwo
  <2>3. Fine(Send(<<a, b>> \o hs, nh.to))
    BY <2>2, FineVerdict
  <2> QED
    BY <2>3 DEF a, b
<1>2. Fine(Keep(hs))
  BY FineVerdict
<1>3. Fine(L2Vxlan6Encap(t, hs, tgt, nh))
  BY <1>1, <1>2 DEF L2Vxlan6Encap
<1> QED
  BY <1>1, <1>2, <1>3 DEF L2VxlanEncap

LEMMA CatAssoc ==
    ASSUME NEW a, IsSeq(a), NEW b, IsSeq(b), NEW c, IsSeq(c)
    PROVE  (a \o b) \o c = a \o (b \o c)
<1> DEFINE S == Range(a) \cup Range(b) \cup Range(c)
<1>1. a \in Seq(S) /\ b \in Seq(S) /\ c \in Seq(S)
  BY SeqMonotonic DEF IsSeq
<1> HIDE DEF S
<1> QED
  BY <1>1, ConcatAssociative

LEMMA WholeRegrouped ==
    ASSUME NEW a, IsSeq(a), NEW b, IsSeq(b), NEW c, IsSeq(c), NEW d, IsSeq(d),
           Whole(a \o (b \o (c \o d)))
    PROVE  Whole(((a \o b) \o c) \o d)
<1> DEFINE ab == a \o b
           cd == c \o d
<1>1. IsSeq(ab) /\ IsSeq(cd)
  BY CatFacts
<1>2. (a \o b) \o cd = a \o (b \o cd)
  <2> HIDE DEF ab, cd
  <2> QED
    BY <1>1, CatAssoc, SMTT(60)
<1>3. (ab \o c) \o d = ab \o (c \o d)
  <2> HIDE DEF ab, cd
  <2> QED
    BY <1>1, CatAssoc, SMTT(60)
<1> QED
  BY <1>2, <1>3

LEMMA WholeLabel ==
    ASSUME NEW label, NEW s \in BOOLEAN, NEW hs, Whole(hs), s <=> Outer(hs).k # "mpls"
    PROVE  /\ Whole(<<Lse(label, s, PipeTtl)>> \o hs)
           /\ Outer(<<Lse(label, s, PipeTtl)>> \o hs).k = "mpls"
<1> DEFINE g == Lse(label, s, PipeTtl)
<1>1. g.k = "mpls" /\ g.s = s /\ g.ttl = PipeTtl /\ {"k", "ttl", "s"} \subseteq DOMAIN g
  BY LseFacts
<1> HIDE DEF g
<1>2. PipeTtl \in Nat \ {0}
  BY PacketAssumption
<1>3. WholeHeader(g) /\ MayFollow(g, Outer(hs))
  BY <1>1, <1>2 DEF WholeHeader, MayFollow, IsIp
<1>4. Whole(<<g>> \o hs) /\ Outer(<<g>> \o hs) = g
  BY <1>3, WholeOnTop
<1> QED
  BY <1>1, <1>4 DEF g

\* l2_mpls_encap: the bottom of stack is on the extra label or, without one,
\* on the service label; never on a transport label.
LEMMA FineL2Mpls ==
    ASSUME NEW hs, Whole(hs), Outer(hs).k = "eth", NEW tgt, NEW nh,
           nh # None => IsSeq(nh.labels)
    PROVE  Fine(L2MplsEncap(hs, tgt, nh))
<1> DEFINE svc == <<Lse(tgt.aux, tgt.extra = 0, PipeTtl)>>
           esi == IF tgt.extra = 0 THEN <<>> ELSE <<Lse(tgt.extra, TRUE, PipeTtl)>>
           top == Impose(nh.labels, FALSE, PipeTtl)
           in == esi \o hs
           base == svc \o in
<1>1. Whole(in) /\ IsSeq(esi) /\ (Outer(in).k # "mpls" <=> tgt.extra = 0)
  <2>1. CASE tgt.extra = 0
    <3>1. esi = <<>> /\ IsSeq(<<>>)
      BY <2>1, SeqIn, EmptySeq
    <3>2. <<>> \o hs = hs
      BY StackFacts, ConcatEmptySeq DEF IsSeq
    <3>3. in = hs
      BY <3>1, <3>2
    <3> HIDE DEF in, esi
    <3> QED
      BY <2>1, <3>1, <3>3
  <2>2. CASE tgt.extra # 0
    <3>1. esi = <<Lse(tgt.extra, TRUE, PipeTtl)>>
      BY <2>2
    <3>2. IsSeq(<<Lse(tgt.extra, TRUE, PipeTtl)>>)
      BY OneFacts
    <3>3. /\ Whole(<<Lse(tgt.extra, TRUE, PipeTtl)>> \o hs)
          /\ Outer(<<Lse(tgt.extra, TRUE, PipeTtl)>> \o hs).k = "mpls"
      BY WholeLabel
    <3> QED
      BY <2>2, <3>1, <3>2, <3>3
  <2> QED
    BY <2>1, <2>2
<1> HIDE DEF in, esi
<1>2. Whole(base) /\ Outer(base).k = "mpls" /\ IsSeq(svc)
  <2> DEFINE s == tgt.extra = 0
  <2>1. s \in BOOLEAN /\ (s <=> Outer(in).k # "mpls")
    BY <1>1
  <2> HIDE DEF s
  <2>2. /\ Whole(<<Lse(tgt.aux, s, PipeTtl)>> \o in)
        /\ Outer(<<Lse(tgt.aux, s, PipeTtl)>> \o in).k = "mpls"
        /\ IsSeq(<<Lse(tgt.aux, s, PipeTtl)>>)
    BY <1>1, <2>1, WholeLabel, OneFacts
  <2> QED
    BY <2>2 DEF s
<1> HIDE DEF base, svc
<1>3. ASSUME IsSeq(nh.labels) PROVE IsSeq(top) /\ Whole(top \o base)
  <2>1. CASE nh.labels = <<>>
    <3>1. top = <<>>
      BY <2>1 DEF Impose
    <3>2. <<>> \o base = base /\ IsSeq(<<>>)
      BY <1>2, StackFacts, ConcatEmptySeq, SeqIn, EmptySeq DEF IsSeq
    <3> HIDE DEF top
    <3> QED
      BY <1>2, <3>1, <3>2
  <2>2. CASE nh.labels # <<>>
    <3>1. PipeTtl \in Nat \ {0} /\ FALSE \in BOOLEAN /\ (FALSE <=> Outer(base).k # "mpls")
      BY <1>2, PacketAssumption
    <3> QED
      BY <1>2, <1>3, <2>2, <3>1, WholeImposed, ImposeFacts
  <2> QED
    BY <2>1, <2>2
<1> HIDE DEF top
<1>4. ASSUME IsSeq(nh.labels) PROVE Whole(top \o svc \o esi \o hs)
  <2>1. IsSeq(hs) /\ IsSeq(esi) /\ IsSeq(svc) /\ IsSeq(top)
    BY <1>1, <1>2, <1>3, <1>4, StackFacts
  <2>2. Whole(top \o (svc \o (esi \o hs)))
    BY <1>3, <1>4 DEF base, in
  <2> QED
    BY <2>1, <2>2, WholeRegrouped
<1>5. Resolved(nh) => Fine(Send(top \o svc \o esi \o hs, nh.to))
  BY <1>4, FineVerdict DEF Resolved
<1>6. L2MplsEncap(hs, tgt, nh) = IF ~Resolved(nh) \/ Len(nh.labels) > MaxLabels THEN Keep(hs)
                                 ELSE Send(top \o svc \o esi \o hs, nh.to)
  BY DEF L2MplsEncap, top, svc, esi
<1> QED
  BY <1>5, <1>6, FineVerdict

LEMMA FineL2Overlay ==
    ASSUME NEW t, Listed(t), NEW hs, Whole(hs), Outer(hs).k = "eth", NEW tgt, NEW id
    PROVE  Fine(L2OverlayEncap(t, hs, tgt, id))
<1> DEFINE nh == UnderlayNh(t, tgt.addr, id)
<1>1. nh # None => IsSeq(nh.labels)
  BY Labels DEF UnderlayNh
<1> HIDE DEF nh
<1>2. Fine(L2MplsEncap(hs, tgt, nh))
  BY <1>1, FineL2Mpls
<1>3. Fine(L2VxlanEncap(t, hs, tgt, nh)) /\ Fine(L2Srv6Encap(t, hs, tgt, nh))
  BY FineL2Vxlan, FineL2Srv6
<1> QED
  BY <1>2, <1>3 DEF L2OverlayEncap, nh

-----------------------------------------------------------------------------
(* The stages.                                                             *)

LEMMA WholeHopDown ==
    ASSUME NEW hs, Whole(hs)
    PROVE  Whole(SetOuter(hs, "hop", Outer(hs).hop - 1))
<1> DEFINE v == Outer(hs).hop - 1
<1>1. IsIp(Outer(hs).k) => v \in Int
  BY StackFacts DEF WholeHeader
<1>2. "hop" \notin {"k", "ttl", "s"} /\ "hop" # "srh"
  OBVIOUS
<1> HIDE DEF v
<1>3. Whole(SetOuter(hs, "hop", v))
  BY <1>1, <1>2, WholeSet
<1> QED
  BY <1>3 DEF v

LEMMA FineSrv6Encap ==
    ASSUME NEW t, Listed(t), NEW down, NEW hs, Whole(hs), NEW id, NEW nh
    PROVE  Fine(Srv6Encap(t, down, hs, id, nh))
<1> DEFINE enc == Get(t.encap, id)
           one == Hencap(t, hs, enc.segs)
           r == Fib(t, 0, enc.segs[1])
           nh2 == ResolveNh(t, down, r.nh)
           enc2 == Get(t.encap, nh2.id)
<1>1. Bindable(enc) => Whole(one)
  BY Policy, WholeHencap
<1>2. Bindable(enc) /\ Outer(hs).k = "ip6" => Fine(Xmit(Hinsert(hs, enc.segs), nh))
  BY Policy, WholeHinsert, FineXmit DEF Six
<1>3. Fine(Keep(hs))
  BY FineVerdict
<1>4. Bindable(enc) => Fine(Xmit(one, nh))
  BY <1>1, FineXmit
<1>5. Bindable(enc) /\ Bindable(enc2) => Fine(Xmit(Hencap(t, one, enc2.segs), nh2.nh))
  <2> SUFFICES ASSUME Bindable(enc), Bindable(enc2)
               PROVE  Fine(Xmit(Hencap(t, one, enc2.segs), nh2.nh))
    OBVIOUS
  <2>1. Whole(one) /\ IsSeq(enc2.segs) /\ enc2.segs # <<>>
    BY <1>1, Policy
  <2> HIDE DEF enc, enc2, one, nh2
  <2> QED
    BY <2>1, WholeHencap, FineXmit
<1> HIDE DEF enc, enc2, one, nh2, r
<1>6. Srv6Encap(t, down, hs, id, nh) =
        IF ~Bindable(enc) THEN Keep(hs)
        ELSE IF enc.insert /\ (Outer(hs).k # "ip6" \/ Outer(hs).hop <= 1) THEN Keep(hs)
        ELSE IF enc.insert THEN Xmit(Hinsert(hs, enc.segs), nh)
        ELSE IF /\ r # None /\ r.fl = "plain"
                /\ nh2.nh # None /\ nh2.nh.fl = "srv6"
                /\ Bindable(enc2) /\ ~enc2.insert
             THEN Xmit(Hencap(t, one, enc2.segs), nh2.nh)
        ELSE Xmit(one, nh)
  BY DEF Srv6Encap, enc, enc2, one, nh2, r
<1> QED
  BY <1>2, <1>3, <1>4, <1>5, <1>6

LEMMA FineForward ==
    ASSUME NEW t, Listed(t), NEW down, NEW hs, Whole(hs), IsIp(Outer(hs).k), NEW meta,
           NEW rnh, rnh.nh # None => IsSeq(rnh.nh.labels)
    PROVE  Fine(Forward(t, down, hs, meta, rnh))
<1> DEFINE nh == rnh.nh
           hop == Outer(hs).hop
<1>1. Fine(Keep(hs)) /\ Fine(Drop) /\ Fine(Send(SetOuter(hs, "hop", hop - 1), nh.to))
  BY FineVerdict, FineDrop, WholeHopDown
<1>2. Fine(Srv6Encap(t, down, hs, rnh.id, nh))
  BY FineSrv6Encap
<1>3. /\ Fine(GtpEncap(t, hs, rnh.id, nh)) /\ Fine(Gtp6Encap(t, hs, rnh.id, nh))
      /\ Fine(VxlanL3Encap(t, hs, rnh.id, nh))
  BY FineGtpEncaps, FineVxlanL3Encap
<1>4. nh # None /\ ~(hop <= 1) /\ nh.labels # <<>> => Fine(MplsPush(hs, nh))
  BY FineMplsPush
<1>5. Forward(t, down, hs, meta, rnh) =
        IF nh = None THEN Keep(hs)
        ELSE IF nh.fl = "srv6" /\ meta.magic = "gtp" THEN Drop
        ELSE IF nh.fl = "srv6"
             THEN IF hop <= 1 THEN Keep(hs) ELSE Srv6Encap(t, down, hs, rnh.id, nh)
        ELSE IF nh.fl \in {"gtp", "gtp6"} /\ meta.magic = "srv6" THEN Drop
        ELSE IF nh.fl = "gtp" THEN GtpEncap(t, hs, rnh.id, nh)
        ELSE IF nh.fl = "gtp6" THEN Gtp6Encap(t, hs, rnh.id, nh)
        ELSE IF nh.fl = "vxlan" THEN VxlanL3Encap(t, hs, rnh.id, nh)
        ELSE IF hop <= 1 THEN Keep(hs)
        ELSE IF nh.labels # <<>> THEN MplsPush(hs, nh)
        ELSE Send(SetOuter(hs, "hop", hop - 1), nh.to)
  BY DEF Forward
<1> HIDE DEF nh, hop
<1> QED
  BY <1>1, <1>2, <1>3, <1>4, <1>5

LEMMA FineL3Forward ==
    ASSUME NEW t, Listed(t), NEW down, NEW iif, NEW hs, Whole(hs), NEW meta, NEW hash
    PROVE  Fine(L3Forward(t, down, iif, hs, meta, hash))
<1>1. Fine(Keep(hs)) /\ Fine(Drop)
  BY FineVerdict, FineDrop
<1>2. Outer(hs).k = "mpls" => Fine(MplsForward(t, hs))
  BY FineMplsForward
<1>3. \A nh : Fine(Xmit(hs, nh))
  BY FineXmit
<1>4. ASSUME NEW id, IsIp(Outer(hs).k)
      PROVE  Fine(Forward(t, down, hs, meta, ResolveNh(t, down, id)))
  <2> DEFINE rnh == ResolveNh(t, down, id)
  <2>1. rnh.nh = Get(t.nh, rnh.id)
    BY DEF ResolveNh
  <2>2. rnh.nh # None => IsSeq(rnh.nh.labels)
    BY <2>1, Labels
  <2> HIDE DEF rnh
  <2>3. Fine(Forward(t, down, hs, meta, rnh))
    BY <1>4, <2>2, FineForward
  <2> QED
    BY <2>3 DEF rnh
<1> QED
  BY <1>1, <1>2, <1>3, <1>4 DEF L3Forward

LEMMA FineTc ==
    ASSUME NEW t, Listed(t), NEW down, NEW iif, NEW hs, Whole(hs), NEW meta, NEW hash
    PROVE  Fine(Tc(t, down, iif, hs, meta, hash))
BY FineVerdict, FineL3Forward DEF Tc

LEMMA FineXdpOnly ==
    ASSUME NEW t, NEW hs, Whole(hs)
    PROVE  Fine(XdpOnly(t, hs))
<1>1. Fine(Keep(hs)) /\ \A to : Fine(Send(SetOuter(hs, "hop", Outer(hs).hop - 1), to))
  BY FineVerdict, WholeHopDown
<1> QED
  BY <1>1 DEF XdpOnly

LEMMA FineXdpL3 ==
    ASSUME NEW t, Listed(t), NEW iif, NEW hs, Whole(hs)
    PROVE  Fine(XdpL3(t, iif, hs))
<1>1. Fine(Keep(hs)) /\ Fine(MplsXdp(t, hs))
  BY FineVerdict, FineMplsXdp
<1>2. Fine(Udp4Xdp(t, iif, hs))
  BY <1>1, FineGtpDecap, FineVxlanDecap DEF Udp4Xdp, GtpXdp, VxlanXdp
<1>3. Outer(hs).k = "ip6" => Fine(Ip6Xdp(t, iif, hs))
  BY FineSrv6, FineGtpDecap, FineVxlanDecap DEF Ip6Xdp, Gtp6Xdp, Vxlan6Xdp, Six
<1> QED
  BY <1>1, <1>2, <1>3 DEF XdpL3

\* try_xdp: what an attachment circuit sends is a frame.
LEMMA FineXdp ==
    ASSUME NEW t, Listed(t), NEW iif, NEW hs, Whole(hs),
           iif \in DOMAIN t.xconnect => Outer(hs).k = "eth"
    PROVE  Fine(Xdp(t, iif, hs))
<1> DEFINE vlan == IF Outer(hs).k = "eth" THEN Get(t.xvlan, <<iif, Outer(hs).vid>>) ELSE None
           tgt == IF vlan # None THEN vlan ELSE Get(t.xconnect, iif)
<1>1. Fine(XdpOnly(t, hs)) /\ Fine(XdpL3(t, iif, hs))
  BY FineXdpOnly, FineXdpL3
<1>2. tgt # None => Outer(hs).k = "eth"
  BY DEF Get
<1>3. tgt # None => Fine(L2OverlayEncap(t, hs, tgt, 0))
  BY <1>2, FineL2Overlay
<1> HIDE DEF tgt, vlan
<1> QED
  BY <1>1, <1>3 DEF Xdp, tgt, vlan

LEMMA FineReplicas ==
    ASSUME NEW t, NEW down, NEW hs, Whole(hs)
    PROVE  \A v \in Replicas(t, down, hs) : Fine(v)
<1> DEFINE st == SetOuter(hs, "hop", Outer(hs).hop - 1)
<1>1. Whole(st)
  BY WholeHopDown
<1> HIDE DEF st
<1>2. \A sid, to : Fine(Send(SetOuter(st, "da", sid), to))
  BY <1>1, WholeSetDa, FineVerdict
<1>3. \A v \in Replicas(t, down, hs) :
         \E sid, to : v = Send(SetOuter(st, "da", sid), to)
  BY DEF Replicas, st
<1> QED
  BY <1>2, <1>3

-----------------------------------------------------------------------------
(* The fabric: a packet before a stage is whole, and one that has come to  *)
(* the attachment circuit of an E-Line is a frame.                         *)

Sound(s, p) ==
    /\ {"node", "iif", "stage", "hs", "meta", "log"} \subseteq DOMAIN p
    /\ p.node \in Nodes /\ Whole(p.hs)
    /\ p.stage = "xdp" /\ p.iif \in DOMAIN s.tbl[p.node].xconnect => Outer(p.hs).k = "eth"
AllSound == scn \in Scenarios /\ \A p \in flight : Sound(scn, p)

LEMMA AtFacts ==
    ASSUME NEW n, NEW iif, NEW hs, NEW log
    PROVE  LET p == At(n, iif, hs, log)
           IN  /\ {"node", "iif", "stage", "hs", "meta", "log"} \subseteq DOMAIN p
               /\ p.node = n /\ p.iif = iif /\ p.hs = hs
BY DEF At

LEMMA WiredTables ==
    ASSUME NEW s \in Scenarios, NEW n \in Nodes
    PROVE  Listed(s.tbl[n]) /\ DOMAIN s.tbl[n].xconnect \cap Nodes = {}
BY ScenarioAssumption DEF Wired, Listed

\* A packet that comes from a node is on no circuit.
LEMMA SoundTravel ==
    ASSUME NEW s \in Scenarios, NEW p, p.node \in Nodes, NEW v, Whole(v.hs)
    PROVE  \A q \in Travel(p, v)[1] : Sound(s, q)
<1> SUFFICES ASSUME NEW q \in Travel(p, v)[1] PROVE Sound(s, q)
  OBVIOUS
<1>1. v.to \in Nodes /\ q = At(v.to, p.node, v.hs, p.log)
  BY DEF Travel
<1>2. /\ {"node", "iif", "stage", "hs", "meta", "log"} \subseteq DOMAIN q
      /\ q.node = v.to /\ q.iif = p.node /\ q.hs = v.hs
  BY <1>1, AtFacts
<1>3. p.node \notin DOMAIN s.tbl[v.to].xconnect
  BY <1>1, WiredTables
<1> QED
  BY <1>1, <1>2, <1>3 DEF Sound

\* A stage replaces one packet by what becomes of it.
LEMMA SoundStep ==
    ASSUME AllSound, NEW p, NEW ways, Step(p, ways),
           \A w \in ways : \A q \in w[1] : Sound(scn, q)
    PROVE  AllSound'
<1>1. scn' = scn /\ flight' = (flight \ {p}) \cup UNION {w[1] : w \in ways}
  BY DEF Step
<1>2. \A q \in flight' : Sound(scn, q)
  BY <1>1 DEF AllSound
<1> QED
  BY <1>1, <1>2 DEF AllSound

LEMMA LoggedFacts ==
    ASSUME NEW s \in Scenarios, NEW p, Sound(s, p), NEW v
    PROVE  LET q == Logged(p, v)
           IN  /\ {"node", "iif", "stage", "hs", "meta", "log"} \subseteq DOMAIN q
               /\ q.node = p.node
<1>1. {"node", "iif", "stage", "hs", "meta", "log"} \subseteq DOMAIN p
  BY DEF Sound
<1> DEFINE q == [p EXCEPT !.log = Append(@, p.node)]
<1>2. DOMAIN q = DOMAIN p /\ q.node = p.node
  BY <1>1
<1> HIDE DEF q
<1>3. Logged(p, v) \in {p, q}
  BY DEF Logged, q
<1> QED
  BY <1>1, <1>2, <1>3

LEMMA SoundXdp ==
    ASSUME AllSound, NEW p \in flight, XdpStage(p)
    PROVE  AllSound'
<1> DEFINE v == Xdp(scn.tbl[p.node], p.iif, p.hs)
           q == Logged(p, v)
           r == [q EXCEPT !.stage = "tc", !.hs = v.hs, !.meta = v.meta]
           way == CASE v.do = "pass" -> <<{r}, {}>>
                    [] v.do = "drop" -> <<{}, {Finish(q, "drop", p.hs)}>>
                    [] v.do = "send" -> Travel(q, v)
<1>1. scn \in Scenarios /\ Sound(scn, p) /\ p.stage = "xdp" /\ Step(p, {way})
  BY DEF AllSound, XdpStage
<1>2. Fine(v)
  BY <1>1, WiredTables, FineXdp DEF Sound
<1> HIDE DEF v
<1>3. {"node", "iif", "stage", "hs", "meta", "log"} \subseteq DOMAIN q /\ q.node = p.node
  BY <1>1, LoggedFacts
<1>4. q.node \in Nodes
  BY <1>1, <1>3 DEF Sound
<1> HIDE DEF q
<1>5. \A x \in way[1] : Sound(scn, x)
  <2>1. CASE v.do = "pass"
    <3>1. /\ DOMAIN r = DOMAIN q /\ r.node = q.node /\ r.stage = "tc" /\ r.hs = v.hs
      BY <1>3
    <3>2. Whole(v.hs)
      BY <1>2, <2>1 DEF Fine
    <3> HIDE DEF r
    <3>3. Sound(scn, r)
      BY <1>3, <1>4, <3>1, <3>2 DEF Sound
    <3>4. way = <<{r}, {}>>
      BY <2>1
    <3> HIDE DEF way
    <3> QED
      BY <3>3, <3>4
  <2>2. CASE v.do = "drop"
    <3>1. way = <<{}, {Finish(q, "drop", p.hs)}>>
      BY <2>2
    <3> HIDE DEF way
    <3> QED
      BY <3>1
  <2>3. CASE v.do = "send"
    <3>1. way = Travel(q, v)
      BY <2>3
    <3>2. Whole(v.hs)
      BY <1>2, <2>3 DEF Fine
    <3> HIDE DEF way
    <3> QED
      BY <1>1, <1>4, <3>1, <3>2, SoundTravel
  <2> QED
    BY <1>2, <2>1, <2>2, <2>3 DEF Fine
<1> HIDE DEF way
<1> QED
  BY <1>1, <1>5, SoundStep

LEMMA SoundTc ==
    ASSUME AllSound, NEW p \in flight, TcStage(p)
    PROVE  AllSound'
<1>1. scn \in Scenarios /\ Sound(scn, p)
  BY DEF AllSound
<1> DEFINE verdict(hash) ==
             Tc(scn.tbl[p.node], linkDown[p.node], p.iif, p.hs, p.meta, hash)
           way(v) == CASE v.do = "pass" -> <<{}, {Finish(p, "punt", v.hs)}>>
                       [] v.do = "drop" -> <<{}, {Finish(p, "drop", p.hs)}>>
                       [] v.do = "send" -> Travel(p, v)
<1>2. PICK hash \in 0..MaxHash : Step(p, {way(verdict(hash))})
  BY DEF TcStage
<1> DEFINE v == verdict(hash)
<1>3. Fine(v)
  BY <1>1, WiredTables, FineTc DEF Sound
<1> HIDE DEF v
<1>4. \A x \in way(v)[1] : Sound(scn, x)
  <2>1. CASE v.do = "pass"
    <3>1. way(v) = <<{}, {Finish(p, "punt", v.hs)}>>
      BY <2>1
    <3> HIDE DEF way
    <3> QED
      BY <3>1
  <2>2. CASE v.do = "drop"
    <3>1. way(v) = <<{}, {Finish(p, "drop", p.hs)}>>
      BY <2>2
    <3> HIDE DEF way
    <3> QED
      BY <3>1
  <2>3. CASE v.do = "send"
    <3>1. way(v) = Travel(p, v)
      BY <2>3
    <3>2. Whole(v.hs) /\ p.node \in Nodes
      BY <1>1, <1>3, <2>3 DEF Fine, Sound
    <3> HIDE DEF way
    <3> QED
      BY <1>1, <3>1, <3>2, SoundTravel
  <2> QED
    BY <1>3, <2>1, <2>2, <2>3 DEF Fine
<1>5. Step(p, {way(v)})
  BY <1>2 DEF v
<1> HIDE DEF way
<1> QED
  BY <1>4, <1>5, SoundStep

LEMMA SendsOnly ==
    ASSUME NEW t, NEW down, NEW hs, NEW v \in Replicas(t, down, hs)
    PROVE  v.do = "send"
<1>1. \E st, to : v = Send(st, to)
  BY DEF Replicas
<1> QED
  BY <1>1 DEF Send

LEMMA SoundReplicate ==
    ASSUME AllSound, NEW p \in flight, Replicate(p)
    PROVE  AllSound'
<1> DEFINE all == Replicas(scn.tbl[p.node], linkDown[p.node], p.hs)
<1>1. scn \in Scenarios /\ Sound(scn, p) /\ Step(p, {Travel(p, v) : v \in all})
  BY DEF AllSound, Replicate
<1>2. \A v \in all : Whole(v.hs)
  BY <1>1, FineReplicas, SendsOnly DEF Fine, Sound
<1> HIDE DEF all
<1>3. \A v \in all : \A q \in Travel(p, v)[1] : Sound(scn, q)
  BY <1>1, <1>2, SoundTravel DEF Sound
<1>4. \A w \in {Travel(p, v) : v \in all} : \A q \in w[1] : Sound(scn, q)
  BY <1>3
<1> QED
  BY <1>1, <1>4, SoundStep

LEMMA SoundInit == ASSUME Init PROVE AllSound
<1>1. scn \in Scenarios /\ flight = {At(scn.node, scn.iif, scn.hs, <<>>)}
  BY DEF Init
<1>2. /\ scn.node \in Nodes /\ Whole(scn.hs)
      /\ scn.iif \in DOMAIN scn.tbl[scn.node].xconnect => Outer(scn.hs).k = "eth"
  BY <1>1, ScenarioAssumption DEF Wired
<1> QED
  BY <1>1, <1>2, AtFacts DEF AllSound, Sound

\* What a whole stack means on the wire.
LEMMA SoundWellFormed == ASSUME AllSound PROVE WellFormed
<1> SUFFICES ASSUME NEW p \in flight, NEW i \in 1..Len(p.hs)
             PROVE  LET h == p.hs[i] IN
                    /\ h.k = "mpls" => /\ i < Len(p.hs) /\ h.ttl > 0
                                       /\ h.s <=> p.hs[i + 1].k # "mpls"
                    /\ IsIp(h.k) => \A j \in 1..Len(h.srh) : h.srh[j].sl \in 0..Len(h.srh[j].list)
  BY DEF WellFormed
<1> DEFINE hs == p.hs
           h == hs[i]
<1>1. Whole(hs) /\ Len(hs) \in Nat
  BY StackFacts DEF AllSound, Sound
<1> HIDE DEF hs
<1>2. WholeHeader(h)
  BY <1>1 DEF Whole, hs
<1>3. ASSUME h.k = "mpls" PROVE i < Len(hs) /\ h.ttl > 0 /\ (h.s <=> hs[i + 1].k # "mpls")
  <2>1. i # Len(hs)
    BY <1>1, <1>3 DEF Whole
  <2>2. i \in 1..Len(hs) - 1
    BY <1>1, <2>1 DEF hs
  <2>3. MayFollow(h, hs[i + 1])
    BY <1>1, <2>2 DEF Whole
  <2>4. h.ttl > 0
    BY <1>2, <1>3 DEF WholeHeader
  <2> QED
    BY <1>1, <1>3, <2>2, <2>3, <2>4 DEF MayFollow
<1>4. ASSUME IsIp(h.k) PROVE \A j \in 1..Len(h.srh) : h.srh[j].sl \in 0..Len(h.srh[j].list)
  BY <1>2, <1>4 DEF WholeHeader, WholeSrh
<1> QED
  BY <1>3, <1>4 DEF hs

\* No header stack on the wire is malformed, whatever the tables of the nodes,
\* the packet and the failures of links: exactly the innermost label is marked
\* bottom of stack, no label has a TTL of 0, and Segments Left never leaves the
\* segment list (try_xdp, try_srv6_xdp, try_mpls_xdp, l3_forward and all of the
\* encapsulations and decapsulations they call).
THEOREM FabricWellFormed == Spec => []WellFormed
<1>1. Init => AllSound
  BY SoundInit
<1>2. AllSound /\ [Next]_vars => AllSound'
  <2> SUFFICES ASSUME AllSound, [Next]_vars PROVE AllSound'
    OBVIOUS
  <2>1. ASSUME NEW p \in flight, XdpStage(p) \/ TcStage(p) \/ Replicate(p) PROVE AllSound'
    BY <2>1, SoundXdp, SoundTc, SoundReplicate
  <2>2. ASSUME NEW l \in scn.links, Cut(l) \/ Notice(l) PROVE AllSound'
    BY <2>2 DEF Cut, Notice, AllSound
  <2>3. CASE UNCHANGED vars
    BY <2>3 DEF vars, AllSound
  <2> QED
    BY <2>1, <2>2, <2>3 DEF Next, Over
<1>3. AllSound => WellFormed
  BY SoundWellFormed
<1> QED
  BY <1>1, <1>2, <1>3, PTL DEF Spec

=============================================================================
