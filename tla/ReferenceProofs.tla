--------------------------- MODULE ReferenceProofs ---------------------------
(***************************************************************************)
(* Proofs about the references that the comparator's constraints hold, for *)
(* any programs and any operators on types that obey TypeLaws and          *)
(* ReferenceLaws: no slot that a constraint refers to is assigned again.   *)
(***************************************************************************)
EXTENDS FinalityProofs, OwnershipProofs

(* Nothing is ever expected of a function or of a pattern, so that what is *)
(* set for them is not compared and nothing refers to their slots.         *)
Silent(n) == IsFunction(n) \/ KindOf(n) \in PatternKinds

(* What a constraint may refer to in the storage m: a slot of V.           *)
ContentIn(m, slot) == CASE slot.attr = "deduced"     -> m.deduced[slot.node]
                        [] slot.attr = "expected"    -> m.expected[slot.node].type
                        [] slot.attr = "provisional" -> m.provisional[slot.node]
                        [] OTHER -> Absent
Anchored(V, m, t, slot) ==
  slot = Owned \/ Placeholder(t) \/ (slot \in V /\ t \in PartsOf(ContentIn(m, slot)))
Anchors(V, m) ==
  \A i \in DOMAIN m.constraints :
    LET c == m.constraints[i] IN Anchored(V, m, c.lhs, c.from) /\ Anchored(V, m, c.rhs, c.to)

(* The slots that are not assigned again, when the nodes of B have been    *)
(* begun: the expected type of such a node; its provisional type once its  *)
(* visit is past its beginning; its deduced type once its visit is over.   *)
(* A variable makes its parameter be visited as long as it has no type.    *)
Settles(B, d, fs, attr, n) ==
  /\ n \in B /\ ~Silent(n)
  /\ \/ attr = "expected"
     \/ attr = "provisional" /\ KindOf(n) # "ParamDecl" /\ \A i \in DOMAIN fs : fs[i].node = n => fs[i].pc > 0
     \/ attr = "deduced" /\ (KindOf(n) = "ParamDecl" => d[n] # Absent) /\ \A i \in DOMAIN fs : fs[i].node # n
Kept(B, d, fs) ==
  {slot \in {Slot(attr, n) : attr \in {"deduced", "expected", "provisional"}, n \in Ids} :
     Settles(B, d, fs, slot.attr, slot.node)}

Store(m) ==
  /\ {"deduced", "expected", "provisional", "constraints", "raised"} \subseteq DOMAIN m
  /\ DOMAIN m.deduced = Ids /\ DOMAIN m.expected = Ids /\ DOMAIN m.provisional = Ids
  /\ IsSequence(m.constraints)
Unasked(B, m) ==
  \A n \in Ids : IF Silent(n) THEN m.expected[n] = NoExpectation ELSE n \notin B => m.deduced[n] = Absent
Tied(B, V, m) == Store(m) /\ (m.raised = OK => Anchors(V, m) /\ Unasked(B, m))

(* In the course of a visit.                                               *)
Linked(B, V, m) == Tied(B, V, m) /\ (m.raised = OK => m.expected[This].type = Expected)

-----------------------------------------------------------------------------
(* The operations on the storage.                                          *)
Tables(r, m) == r.deduced = m.deduced /\ r.expected = m.expected /\ r.provisional = m.provisional

(* The constraints of a comparison of s and t.                             *)
Compares(c, s, from, t, to) ==
  /\ c.from = from /\ c.to = to /\ c.lhs \in PartsOf(s) /\ c.rhs \in PartsOf(t)
  /\ IsAuto(s) \/ IsAuto(t) \/ (c.lhs \in Below(s) /\ c.rhs \in Below(t))
Adds(r, m, s, from, t, to) ==
  \A i \in DOMAIN r.constraints :
    \/ \E j \in DOMAIN m.constraints : r.constraints[i] = m.constraints[j]
    \/ Compares(r.constraints[i], s, from, t, to)

LEMMA RaiseStores ==
  ASSUME NEW m, Store(m), NEW code
  PROVE  LET r == Raise(m, code) IN
         Store(r) /\ Tables(r, m) /\ r.constraints = m.constraints /\ (r.raised = OK => m.raised = OK)
BY DEF Raise, Store, Tables

LEMMA EmitStores ==
  ASSUME ReferenceLaws, TypeLaws, NEW m, Store(m), NEW s, NEW from, NEW t, NEW to, IsType(s), IsType(t)
  PROVE  LET r == Emit(m, s, from, t, to) IN
         /\ Store(r) /\ Tables(r, m) /\ r.raised = m.raised /\ Adds(r, m, s, from, t, to)
         /\ None_ \in {s, t} => r = m
<1> DEFINE es == Emitted(s, t)
           cs == Between(from, to, es)
           old == m.constraints
           v == old \o cs
           q == [m EXCEPT !.constraints = v]
<1>1. EmittedLaw(s, t) /\ ComparedLaw(s, t)
  BY DEF TypeLaws, ReferenceLaws
<1>2. IsSequence(es) /\ \A i \in DOMAIN es :
        /\ es[i].lhs \in PartsOf(s) /\ es[i].rhs \in PartsOf(t)
        /\ IsAuto(s) \/ IsAuto(t) \/ (es[i].lhs \in Below(s) /\ es[i].rhs \in Below(t))
  BY <1>1 DEF EmittedLaw, ComparedLaw, IsSequence
<1> HIDE DEF es
<1>3. IsSequence(cs) /\ \A i \in DOMAIN cs : Compares(cs[i], s, from, t, to)
  <2>1. Len(es) \in Nat /\ DOMAIN es = 1..Len(es)
    BY <1>2, SequenceFacts
  <2> DEFINE e(i) == [lhs |-> es[i].lhs, rhs |-> es[i].rhs, from |-> from, to |-> to]
             S == {e(i) : i \in 1..Len(es)}
  <2>2. \A i \in DOMAIN es : Compares(e(i), s, from, t, to)
    BY <1>2 DEF Compares
  <2>3. cs = [i \in 1..Len(es) |-> e(i)] /\ \A i \in 1..Len(es) : e(i) \in S
    BY <2>1 DEF Between
  <2> HIDE DEF S, e, cs
  <2>4. cs \in Seq(S) /\ DOMAIN cs = 1..Len(es) /\ \A i \in DOMAIN cs : cs[i] = e(i)
    BY <2>1, <2>3
  <2> QED BY <2>1, <2>2, <2>4 DEF IsSequence
<1> HIDE DEF cs
<1>4. IsSequence(old)
  BY DEF Store
<1>5. PICK S : old \in Seq(S) /\ cs \in Seq(S)
  BY <1>3, <1>4, CommonElements
<1>6. /\ v \in Seq(S) /\ Len(old) \in Nat /\ DOMAIN old = 1..Len(old)
      /\ DOMAIN cs = 1..Len(cs) /\ Len(cs) \in Nat /\ DOMAIN v = 1..(Len(old) + Len(cs))
      /\ \A i \in 1..(Len(old) + Len(cs)) : v[i] = IF i <= Len(old) THEN old[i] ELSE cs[i - Len(old)]
  BY <1>5
<1>7. \A i \in DOMAIN v : (\E j \in DOMAIN old : v[i] = old[j]) \/ Compares(v[i], s, from, t, to)
  <2>1. ASSUME NEW i \in DOMAIN v, ~(i <= Len(old)) PROVE Compares(v[i], s, from, t, to)
    <3>1. i - Len(old) \in DOMAIN cs /\ v[i] = cs[i - Len(old)]
      BY <1>6, <2>1
    <3> QED BY <1>3, <3>1
  <2>2. ASSUME NEW i \in DOMAIN v, i <= Len(old) PROVE i \in DOMAIN old /\ v[i] = old[i]
    BY <1>6, <2>2
  <2> QED BY <2>1, <2>2
<1>8. IsSequence(v)
  BY <1>6 DEF IsSequence
<1> HIDE DEF v
<1>9. Store(q) /\ Tables(q, m) /\ q.raised = m.raised /\ q.constraints = v
  BY <1>8 DEF Store, Tables
<1>10. Adds(q, m, s, from, t, to) /\ Adds(m, m, s, from, t, to)
  BY <1>7, <1>9 DEF Adds
<1>11. Tables(m, m)
  BY DEF Tables
<1>12. Emit(m, s, from, t, to) \in {m, q} /\ (None_ \in {s, t} => Emit(m, s, from, t, to) = m)
  BY DEF Emit, v, cs, es
<1> HIDE DEF q
<1> QED BY <1>9, <1>10, <1>11, <1>12

LEMMA CheckedStores ==
  ASSUME ReferenceLaws, TypeLaws, NEW m, Store(m), NEW n, NEW attr, NEW t, NEW e,
         e = NoExpectation \/ (IsType(t) /\ IsType(e.type))
  PROVE  LET r == Checked(m, n, attr, t, e) IN
         /\ Store(r) /\ Tables(r, m) /\ (r.raised = OK => m.raised = OK)
         /\ e = NoExpectation => r = m
         /\ e # NoExpectation => Adds(r, m, t, Slot(attr, n), e.type, Slot("expected", n))
<1> DEFINE q == Raise(m, Reported(Incompatible(t, e.type), e))
           r == Emit(q, t, Slot(attr, n), e.type, Slot("expected", n))
<1>1. Store(q) /\ Tables(q, m) /\ q.constraints = m.constraints /\ (q.raised = OK => m.raised = OK)
  BY RaiseStores
<1>2. Checked(m, n, attr, t, e) = IF e = NoExpectation THEN m ELSE r
  BY DEF Checked
<1> HIDE DEF q
<1>3. CASE e = NoExpectation
  BY <1>2, <1>3 DEF Tables
<1>4. CASE e # NoExpectation
  <2>1. Store(r) /\ Tables(r, q) /\ r.raised = q.raised /\ Adds(r, q, t, Slot(attr, n), e.type, Slot("expected", n))
    BY <1>1, <1>4, EmitStores
  <2> HIDE DEF r
  <2> QED BY <1>1, <1>2, <1>4, <2>1 DEF Tables, Adds
<1> QED BY <1>3, <1>4

LEMMA AssignedStores ==
  ASSUME NEW m, Store(m), NEW n \in Ids, NEW v
  PROVE  /\ LET r == StoreExpected(m, n, v) IN
              /\ Store(r) /\ r.raised = m.raised /\ r.constraints = m.constraints
              /\ r.deduced = m.deduced /\ r.provisional = m.provisional
              /\ m.raised = OK => \A k \in Ids : r.expected[k] = IF k = n THEN v ELSE m.expected[k]
         /\ LET r == StoreDeduced(m, n, v) IN
              /\ Store(r) /\ r.raised = m.raised /\ r.constraints = m.constraints
              /\ r.expected = m.expected /\ r.provisional = m.provisional
              /\ m.raised = OK => \A k \in Ids : r.deduced[k] = IF k = n THEN v ELSE m.deduced[k]
         /\ LET r == StoreProvisional(m, n, v) IN
              /\ Store(r) /\ r.raised = m.raised /\ r.constraints = m.constraints
              /\ r.deduced = m.deduced /\ r.expected = m.expected
              /\ m.raised = OK => \A k \in Ids : r.provisional[k] = IF k = n THEN v ELSE m.provisional[k]
BY DEF StoreExpected, StoreDeduced, StoreProvisional, Store

(* Nothing is done while an error is thrown.                               *)
LEMMA ThrownStays ==
  ASSUME NEW m, m.raised # OK
  PROVE  /\ \A code : Raise(m, code) = m
         /\ \A s, from, t, to : Emit(m, s, from, t, to) = m
         /\ \A n, attr, t, e : Checked(m, n, attr, t, e) = m
         /\ \A n, e : ExpectType(m, n, e) = m
         /\ \A n, t : SetDeduced(m, n, t) = m
         /\ \A t : SetProvisional(m, t) = m
<1>1. /\ \A code : Raise(m, code) = m
      /\ \A s, from, t, to : Emit(m, s, from, t, to) = m
      /\ \A n, v : StoreExpected(m, n, v) = m /\ StoreDeduced(m, n, v) = m /\ StoreProvisional(m, n, v) = m
  BY DEF Raise, Emit, StoreExpected, StoreDeduced, StoreProvisional
<1>2. \A n, attr, t, e : Checked(m, n, attr, t, e) = m
  BY <1>1 DEF Checked
<1> QED BY <1>1, <1>2 DEF ExpectType, SetDeduced, SetProvisional

-----------------------------------------------------------------------------
(* The slots of V are of nodes that have been begun; a node that has not   *)
(* may still get an expectation.                                           *)
OnBegun(B, V) ==
  \A slot \in V : /\ slot = Slot(slot.attr, slot.node)
                  /\ slot.node \in B /\ slot.node \in Ids /\ ~Silent(slot.node)
                  /\ slot.attr \in {"deduced", "expected", "provisional"}
Coming(B, n) == n \in Ids /\ n \notin B /\ ~Silent(n)

LEMMA LinkedOn ==
  ASSUME NEW B, NEW V, NEW W, V \subseteq W, NEW m, Linked(B, V, m), NEW r, Store(r),
         r.raised = OK =>
           /\ m.raised = OK /\ r.expected[This].type = m.expected[This].type
           /\ \A slot \in V : ContentIn(r, slot) = ContentIn(m, slot)
           /\ \A n \in Ids : IF Silent(n) THEN r.expected[n] = m.expected[n]
                             ELSE n \notin B => r.deduced[n] = m.deduced[n]
           /\ \A i \in DOMAIN r.constraints :
                LET c == r.constraints[i] IN
                \/ \E j \in DOMAIN m.constraints : c = m.constraints[j]
                \/ Anchored(W, r, c.lhs, c.from) /\ Anchored(W, r, c.rhs, c.to)
  PROVE  Linked(B, W, r)
<1>1. SUFFICES ASSUME r.raised = OK
               PROVE  Anchors(W, r) /\ Unasked(B, r) /\ r.expected[This].type = Expected
  BY DEF Linked, Tied
<1>2. Anchors(V, m) /\ Unasked(B, m) /\ m.expected[This].type = Expected
  BY <1>1 DEF Linked, Tied
<1>3. \A t, slot : Anchored(V, m, t, slot) => Anchored(W, r, t, slot)
  BY <1>1 DEF Anchored
<1>4. ASSUME NEW i \in DOMAIN r.constraints
      PROVE  LET c == r.constraints[i] IN Anchored(W, r, c.lhs, c.from) /\ Anchored(W, r, c.rhs, c.to)
  <2>1. CASE \E j \in DOMAIN m.constraints : r.constraints[i] = m.constraints[j]
    BY <1>2, <1>3, <2>1 DEF Anchors
  <2> QED BY <1>1, <2>1
<1>5. Unasked(B, r)
  BY <1>1, <1>2 DEF Unasked
<1> QED BY <1>1, <1>2, <1>4, <1>5 DEF Anchors

(* What adds no constraint.                                                *)
LEMMA Links ==
  ASSUME ReferenceLaws, TypeLaws, NEW B, This \in Ids, This \in B, NEW V, OnBegun(B, V),
         NEW m, Linked(B, V, m)
  PROVE  /\ \A code : Linked(B, V, Raise(m, code))
         /\ \A t : Linked(B, V, CheckType(m, t))
         /\ \A n : Coming(B, n) => /\ \A e : Linked(B, V, ExpectType(m, n, e))
                                   /\ \A t : Linked(B, V, Expect(m, n, t))
                                   /\ Linked(B, V, Propagate(m, n))
         /\ \A n \in Ids : Silent(n) => \A t : /\ Linked(B, V, SetDeduced(m, n, t))
                                               /\ Linked(B, V, StoreDeduced(m, n, t))
         /\ Silent(This) => \A t : Linked(B, V, SetProvisional(m, t))
         /\ Linked(B, V, mem) => Linked(B, V, Entry(m))
<1>1. Store(m)
  BY DEF Linked, Tied
<1>2. ASSUME NEW r, Store(r), Tables(r, m), r.constraints = m.constraints, r.raised = OK => m.raised = OK
      PROVE  Linked(B, V, r)
  <2>1. \A slot : ContentIn(r, slot) = ContentIn(m, slot)
    BY <1>2 DEF Tables, ContentIn
  <2> QED BY <1>2, <2>1, LinkedOn DEF Tables
<1>3. ASSUME NEW code PROVE Linked(B, V, Raise(m, code))
  <2> DEFINE r == Raise(m, code)
  <2>1. Store(r) /\ Tables(r, m) /\ r.constraints = m.constraints /\ (r.raised = OK => m.raised = OK)
    BY <1>1, RaiseStores
  <2> HIDE DEF r
  <2>2. Linked(B, V, r)
    BY <1>2, <2>1
  <2> QED BY <2>2 DEF r
<1>4. \A t : Linked(B, V, CheckType(m, t))
  BY <1>3 DEF CheckType
<1>5. ASSUME NEW n, Coming(B, n), NEW e PROVE Linked(B, V, ExpectType(m, n, e))
  <2>1. n \in Ids /\ n \notin B /\ ~Silent(n) /\ n # This
    BY <1>5 DEF Coming
  <2>2. CASE m.raised # OK
    BY <2>2, ThrownStays
  <2>3. CASE e.type = None_ /\ m.raised = OK
    <3> DEFINE r == Raise(m, CRASH)
    <3>1. r.raised # OK /\ ExpectType(m, n, e) = StoreExpected(r, n, e)
      <4>1. CRASH # OK
        BY DEF CRASH, OK
      <4>2. r = [m EXCEPT !.raised = CRASH] /\ r.raised = CRASH
        BY <1>1, <2>3 DEF Raise, Store
      <4> HIDE DEF r
      <4>3. ExpectType(m, n, e) = StoreExpected(r, n, e)
        BY <2>3 DEF ExpectType, r
      <4> QED BY <4>1, <4>2, <4>3
    <3>2. Linked(B, V, r)
      BY <1>3
    <3> HIDE DEF r
    <3> QED BY <3>1, <3>2 DEF StoreExpected
  <2>4. CASE e.type # None_ /\ m.raised = OK
    <3>1. m.deduced[n] = Absent
      BY <2>1, <2>4 DEF Linked, Tied, Unasked
    <3> DEFINE r == StoreExpected(m, n, e)
    <3>2. ExpectType(m, n, e) = r
      BY <2>4, <3>1 DEF ExpectType
    <3>3. /\ Store(r) /\ r.raised = m.raised /\ r.constraints = m.constraints
          /\ r.deduced = m.deduced /\ r.provisional = m.provisional
          /\ \A k \in Ids : r.expected[k] = IF k = n THEN e ELSE m.expected[k]
      BY <1>1, <2>1, <2>4, AssignedStores
    <3> HIDE DEF r
    <3>4. \A slot \in V : ContentIn(r, slot) = ContentIn(m, slot)
      BY <2>1, <3>3 DEF OnBegun, ContentIn
    <3>5. Linked(B, V, r)
      BY <2>1, <2>4, <3>3, <3>4, LinkedOn
    <3> QED BY <3>2, <3>5
  <2> QED BY <2>2, <2>3, <2>4
<1>6. ASSUME NEW n, Coming(B, n)
      PROVE  (\A t : Linked(B, V, Expect(m, n, t))) /\ Linked(B, V, Propagate(m, n))
  BY <1>5, <1>6 DEF Expect, Propagate
<1>7. ASSUME NEW n \in Ids, Silent(n), NEW t PROVE Linked(B, V, StoreDeduced(m, n, t))
  <2> DEFINE r == StoreDeduced(m, n, t)
  <2>1. CASE m.raised # OK
    BY <2>1 DEF StoreDeduced
  <2>2. CASE m.raised = OK
    <3>1. /\ Store(r) /\ r.raised = m.raised /\ r.constraints = m.constraints
          /\ r.expected = m.expected /\ r.provisional = m.provisional
          /\ \A k \in Ids : r.deduced[k] = IF k = n THEN t ELSE m.deduced[k]
      BY <1>1, <2>2, AssignedStores
    <3> HIDE DEF r
    <3>2. \A slot \in V : ContentIn(r, slot) = ContentIn(m, slot)
      BY <1>7, <3>1 DEF OnBegun, ContentIn
    <3>3. \A k \in Ids : ~Silent(k) => r.deduced[k] = m.deduced[k]
      BY <1>7, <3>1
    <3>4. \A i \in DOMAIN r.constraints : \E j \in DOMAIN m.constraints : r.constraints[i] = m.constraints[j]
      BY <3>1
    <3>5. /\ Store(r) /\ r.raised = OK /\ m.raised = OK /\ r.expected[This].type = m.expected[This].type
          /\ \A k \in Ids : r.expected[k] = m.expected[k]
      BY <2>2, <3>1
    <3>6. Linked(B, V, r)
      BY <3>2, <3>3, <3>4, <3>5, LinkedOn
    <3> QED BY <3>6 DEF r
  <2> QED BY <2>1, <2>2
<1>8. ASSUME NEW n \in Ids, Silent(n), NEW t, NEW attr
      PROVE  Checked(m, n, attr, t, m.expected[n]) = m
  <2>1. m.raised = OK => m.expected[n] = NoExpectation
    BY <1>8 DEF Linked, Tied, Unasked
  <2>2. m.raised = OK => Checked(m, n, attr, t, m.expected[n]) = m
    BY <2>1 DEF Checked
  <2> QED BY <2>2, ThrownStays
<1>9. ASSUME NEW n \in Ids, Silent(n), NEW t PROVE Linked(B, V, SetDeduced(m, n, t))
  <2>1. Checked(m, n, "deduced", t, m.expected[n]) = m
    BY <1>8, <1>9
  <2>2. SetDeduced(m, n, t) = StoreDeduced(m, n, t)
    BY <2>1 DEF SetDeduced
  <2> QED BY <1>7, <1>9, <2>2
<1>10. ASSUME Silent(This), NEW t PROVE Linked(B, V, SetProvisional(m, t))
  <2> DEFINE r == StoreProvisional(m, This, t)
  <2>1. SetProvisional(m, t) = r
    BY <1>8, <1>10 DEF SetProvisional
  <2>2. CASE m.raised # OK
    BY <2>1, <2>2 DEF StoreProvisional
  <2>3. CASE m.raised = OK
    <3>1. /\ Store(r) /\ r.raised = m.raised /\ r.constraints = m.constraints
          /\ r.deduced = m.deduced /\ r.expected = m.expected
          /\ \A k \in Ids : r.provisional[k] = IF k = This THEN t ELSE m.provisional[k]
      BY <1>1, <2>3, AssignedStores
    <3> HIDE DEF r
    <3>2. \A slot \in V : ContentIn(r, slot) = ContentIn(m, slot)
      BY <1>10, <3>1 DEF OnBegun, ContentIn
    <3>3. Linked(B, V, r)
      BY <2>3, <3>1, <3>2, LinkedOn
    <3> QED BY <2>1, <3>3
  <2> QED BY <2>2, <2>3
<1>11. Linked(B, V, mem) => Linked(B, V, Entry(m))
  BY DEF Entry
<1> QED BY <1>3, <1>4, <1>5, <1>6, <1>7, <1>9, <1>10, <1>11

(* What adds constraints: their sides are parts of the two types, whose    *)
(* slots are kept.                                                         *)
LEMMA EmitLinks ==
  ASSUME ReferenceLaws, TypeLaws, NEW B, NEW V, NEW m, Linked(B, V, m),
         NEW s, NEW from, NEW t, NEW to, IsType(s), IsType(t),
         \A p \in PartsOf(s) : (IsAuto(s) \/ IsAuto(t) \/ p \in Below(s)) => Anchored(V, m, p, from),
         \A p \in PartsOf(t) : Anchored(V, m, p, to)
  PROVE  Linked(B, V, Emit(m, s, from, t, to))
<1> DEFINE r == Emit(m, s, from, t, to)
<1>1. /\ Store(r) /\ Tables(r, m) /\ r.raised = m.raised /\ Adds(r, m, s, from, t, to)
  BY EmitStores DEF Linked, Tied
<1> HIDE DEF r
<1>2. \A slot : ContentIn(r, slot) = ContentIn(m, slot)
  BY <1>1 DEF Tables, ContentIn
<1>3. \A p, slot : Anchored(V, m, p, slot) => Anchored(V, r, p, slot)
  BY <1>2 DEF Anchored
<1>4. ASSUME NEW i \in DOMAIN r.constraints
      PROVE  LET c == r.constraints[i] IN
             \/ \E j \in DOMAIN m.constraints : c = m.constraints[j]
             \/ Anchored(V, r, c.lhs, c.from) /\ Anchored(V, r, c.rhs, c.to)
  <2>1. CASE Compares(r.constraints[i], s, from, t, to)
    BY <1>3, <2>1 DEF Compares
  <2> QED BY <1>1, <2>1 DEF Adds
<1>5. r.expected = m.expected /\ r.deduced = m.deduced
  BY <1>1 DEF Tables
<1>6. Linked(B, V, r)
  BY <1>1, <1>2, <1>4, <1>5, LinkedOn
<1> QED BY <1>6 DEF r

LEMMA SetLinks ==
  ASSUME ReferenceLaws, TypeLaws, NEW B, This \in Ids, This \in B, IsType(Expected), ~Silent(This),
         NEW V, OnBegun(B, V), Slot("expected", This) \in V, NEW W, V \subseteq W,
         NEW m, Linked(B, V, m), NEW t, IsType(t)
  PROVE  /\ /\ Slot("provisional", This) \notin V
            /\ Slot("provisional", This) \in W \/ \A p \in PartsOf(t) : Placeholder(p)
            => Linked(B, W, SetProvisional(m, t))
         /\ Slot("deduced", This) \notin V /\ Slot("deduced", This) \in W
            => Linked(B, W, SetDeduced(m, This, t))
<1> DEFINE e == m.expected[This]
<1>1. Store(m)
  BY DEF Linked, Tied
<1>2. CASE m.raised # OK
  <2>1. Linked(B, W, m)
    BY <1>2 DEF Linked, Tied
  <2> QED BY <1>2, <2>1, ThrownStays
<1>3. ASSUME m.raised = OK,
             NEW attr \in {"provisional", "deduced"}, Slot(attr, This) \notin V,
             Slot(attr, This) \in W \/ \A p \in PartsOf(t) : Placeholder(p),
             NEW c, c = Checked(m, This, attr, t, e),
             NEW r, Store(r), r.raised = c.raised, r.constraints = c.constraints, r.expected = c.expected,
             r.raised = OK =>
               /\ IF attr = "deduced" THEN r.provisional = c.provisional ELSE r.deduced = c.deduced
               /\ IF attr = "deduced" THEN \A k \in Ids : r.deduced[k] = IF k = This THEN t ELSE c.deduced[k]
                  ELSE \A k \in Ids : r.provisional[k] = IF k = This THEN t ELSE c.provisional[k]
      PROVE  Linked(B, W, r)
  <2> SUFFICES ASSUME r.raised = OK PROVE Linked(B, W, r)
    BY <1>3 DEF Linked, Tied
  <2>1. e.type = Expected
    BY <1>3 DEF Linked
  <2>2. /\ Tables(c, m) /\ c.raised = OK
        /\ e = NoExpectation => c = m
        /\ e # NoExpectation => Adds(c, m, t, Slot(attr, This), Expected, Slot("expected", This))
    <3> HIDE DEF e
    <3> QED BY <1>1, <1>3, <2>1, CheckedStores
  <2>3. \A slot \in V : ContentIn(r, slot) = ContentIn(m, slot)
    <3>1. ASSUME NEW slot \in V PROVE ContentIn(r, slot) = ContentIn(c, slot)
      <4>1. slot.node \in Ids /\ slot.attr \in {"deduced", "expected", "provisional"} /\ slot \in V
        BY <3>1 DEF OnBegun
      <4>2. slot.attr = attr => slot.node # This
        BY <1>3, <4>1 DEF OnBegun
      <4> QED BY <1>3, <4>1, <4>2 DEF ContentIn
    <3> QED BY <2>2, <3>1 DEF Tables, ContentIn
  <2>4. ContentIn(r, Slot(attr, This)) = t /\ ContentIn(r, Slot("expected", This)) = Expected
    <3>1. r.expected[This].type = Expected
      BY <1>3, <2>1, <2>2 DEF Tables
    <3>2. attr = "deduced" => r.deduced[This] = t
      BY <1>3
    <3>3. attr = "provisional" => r.provisional[This] = t
      BY <1>3
    <3> QED BY <3>1, <3>2, <3>3 DEF ContentIn, Slot
  <2>5. ASSUME NEW i \in DOMAIN r.constraints
        PROVE  LET x == r.constraints[i] IN
               \/ \E j \in DOMAIN m.constraints : x = m.constraints[j]
               \/ Anchored(W, r, x.lhs, x.from) /\ Anchored(W, r, x.rhs, x.to)
    <3> DEFINE x == r.constraints[i]
    <3>1. CASE Compares(x, t, Slot(attr, This), Expected, Slot("expected", This))
      <4>1. x.from = Slot(attr, This) /\ x.to = Slot("expected", This) /\ x.lhs \in PartsOf(t) /\ x.rhs \in PartsOf(Expected)
        BY <3>1 DEF Compares
      <4>2. Anchored(W, r, x.lhs, x.from)
        BY <1>3, <2>4, <4>1 DEF Anchored
      <4>3. Anchored(W, r, x.rhs, x.to)
        BY <2>4, <4>1 DEF Anchored
      <4> QED BY <4>2, <4>3
    <3>2. CASE \E j \in DOMAIN m.constraints : x = m.constraints[j]
      BY <3>2
    <3> QED BY <1>3, <2>2, <3>1, <3>2 DEF Adds
  <2>6. /\ \A k \in Ids : r.expected[k] = m.expected[k]
        /\ \A k \in Ids : k \notin B => r.deduced[k] = m.deduced[k]
    BY <1>3, <2>2 DEF Tables
  <2> HIDE DEF e
  <2> QED BY <1>3, <2>3, <2>5, <2>6, LinkedOn
<1>4. ASSUME m.raised = OK, Slot("provisional", This) \notin V,
             Slot("provisional", This) \in W \/ \A p \in PartsOf(t) : Placeholder(p)
      PROVE  Linked(B, W, SetProvisional(m, t))
  <2> DEFINE c == Checked(m, This, "provisional", t, e)
             r == StoreProvisional(c, This, t)
  <2>1. Store(c)
    <3>1. e.type = Expected
      BY <1>4 DEF Linked
    <3> HIDE DEF e
    <3> QED BY <1>1, <3>1, CheckedStores
  <2>2. SetProvisional(m, t) = r
    BY DEF SetProvisional
  <2> HIDE DEF c
  <2>3. /\ Store(r) /\ r.raised = c.raised /\ r.constraints = c.constraints
        /\ r.deduced = c.deduced /\ r.expected = c.expected
        /\ r.raised = OK => \A k \in Ids : r.provisional[k] = IF k = This THEN t ELSE c.provisional[k]
    BY <2>1, AssignedStores
  <2> HIDE DEF r
  <2>4. Linked(B, W, r)
    BY <1>3, <1>4, <2>3 DEF c
  <2> QED BY <2>2, <2>4
<1>5. ASSUME m.raised = OK, Slot("deduced", This) \notin V, Slot("deduced", This) \in W
      PROVE  Linked(B, W, SetDeduced(m, This, t))
  <2> DEFINE c == Checked(m, This, "deduced", t, e)
             r == StoreDeduced(c, This, t)
  <2>1. Store(c)
    <3>1. e.type = Expected
      BY <1>5 DEF Linked
    <3> HIDE DEF e
    <3> QED BY <1>1, <3>1, CheckedStores
  <2>2. SetDeduced(m, This, t) = r
    BY DEF SetDeduced
  <2> HIDE DEF c
  <2>3. /\ Store(r) /\ r.raised = c.raised /\ r.constraints = c.constraints
        /\ r.expected = c.expected /\ r.provisional = c.provisional
        /\ r.raised = OK => \A k \in Ids : r.deduced[k] = IF k = This THEN t ELSE c.deduced[k]
    BY <2>1, AssignedStores
  <2> HIDE DEF r
  <2>4. Linked(B, W, r)
    BY <1>3, <1>5, <2>3 DEF c
  <2> QED BY <2>2, <2>4
<1> QED BY <1>2, <1>4, <1>5

LEMMA InferLinks ==
  ASSUME NEW B, NEW V, Linked(B, V, mem), NEW t, NEW new, NEW k
  PROVE  Linked(B, V, Infer(t, new, k))
<1> DEFINE c == [lhs |-> t, rhs |-> new, from |-> Owned, to |-> Owned]
           s == mem.constraints
           cs == Append(s, c)
           ns == mem.new_types \cup {new}
           j == mem.fresh + k
           r == [mem EXCEPT !.constraints = cs, !.new_types = ns, !.fresh = j]
<1>1. Infer(t, new, k) = IF Unresolved(t) THEN r ELSE mem
  BY DEF Infer
<1>2. Store(mem) /\ IsSequence(s)
  BY DEF Linked, Tied, Store
<1>3. IsSequence(cs) /\ \A i \in DOMAIN cs : (\E h \in DOMAIN s : cs[i] = s[h]) \/ cs[i] = c
  <2>1. PICK S : s \in Seq(S)
    BY <1>2 DEF IsSequence
  <2> DEFINE X == S \cup {c}
  <2>2. s \in Seq(X) /\ c \in X
    BY <2>1
  <2> HIDE DEF c, X, s
  <2>3. /\ cs \in Seq(X) /\ Len(s) \in Nat /\ DOMAIN s = 1..Len(s)
        /\ DOMAIN cs = 1..(Len(s) + 1) /\ cs[Len(s) + 1] = c
        /\ \A i \in 1..Len(s) : cs[i] = s[i]
    BY <2>2
  <2>4. \A i \in DOMAIN cs : i \in 1..Len(s) \/ i = Len(s) + 1
    BY <2>3
  <2> QED BY <2>3, <2>4 DEF IsSequence
<1> HIDE DEF cs, ns, j
<1>4. /\ Store(r) /\ Tables(r, mem) /\ r.raised = mem.raised /\ r.constraints = cs
  BY <1>2, <1>3 DEF Store, Tables
<1> HIDE DEF r
<1>5. \A slot : ContentIn(r, slot) = ContentIn(mem, slot)
  BY <1>4 DEF Tables, ContentIn
<1>6. c.from = Owned /\ c.to = Owned
  OBVIOUS
<1> HIDE DEF c
<1>7. Anchored(V, r, c.lhs, c.from) /\ Anchored(V, r, c.rhs, c.to)
  BY <1>6 DEF Anchored
<1>8. r.expected = mem.expected /\ r.deduced = mem.deduced
  BY <1>4 DEF Tables
<1>9. \A i \in DOMAIN r.constraints :
        LET x == r.constraints[i] IN
        \/ \E h \in DOMAIN mem.constraints : x = mem.constraints[h]
        \/ Anchored(V, r, x.lhs, x.from) /\ Anchored(V, r, x.rhs, x.to)
  BY <1>3, <1>4, <1>7
<1>10. Linked(B, V, r)
  BY <1>4, <1>5, <1>8, <1>9, LinkedOn
<1> QED BY <1>1, <1>10

LEMMA TiedMore ==
  ASSUME NEW B, NEW C, B \subseteq C, NEW V, NEW W, V \subseteq W, NEW m, Tied(B, V, m)
  PROVE  Tied(C, W, m)
<1>1. Anchors(V, m) => Anchors(W, m)
  BY DEF Anchors, Anchored
<1>2. Unasked(B, m) => Unasked(C, m)
  BY DEF Unasked
<1> QED BY <1>1, <1>2 DEF Tied

-----------------------------------------------------------------------------
(* The slots that are kept in the course of the visit on top, and when it  *)
(* has made its step.                                                      *)
Tracks(B) ==
  /\ B \in SUBSET Ids /\ Settled(B, mem.deduced, frames)
  /\ Tied(B, Kept(B, mem.deduced, frames), mem)

Left == Len(frames') = Len(frames) - 1
Provided(B) ==
  Kept(B, mem.deduced, frames) \cup
    (IF Silent(This) \/ KindOf(This) = "ParamDecl" THEN {} ELSE {Slot("provisional", This)})
Finished(B) == Provided(B) \cup (IF Silent(This) \/ ~Left THEN {} ELSE {Slot("deduced", This)})

Resumes(f) == {"node", "pc"} \subseteq DOMAIN f /\ f.node = This /\ f.pc \in Nat
Traced(B) ==
  mem'.raised = OK =>
    /\ Tied(B, Finished(B), mem')
    /\ Left \/ \E f, k, hs : Resumes(f) /\ Leaves(mem', f, k, hs)
    /\ Left /\ KindOf(This) = "ParamDecl" => mem'.deduced[This] # Absent

LEMMA Resuming ==
  /\ Inv /\ ~Done => Resumes(Top)
  /\ \A f : Resumes(f) =>
       /\ \A x : /\ Resumes([f EXCEPT !.tvs = x]) /\ Resumes([f EXCEPT !.guards = x])
                 /\ Resumes([f EXCEPT !.result = x]) /\ Resumes([f EXCEPT !.was_in_body = x])
       /\ \A pc \in Nat : Resumes([f EXCEPT !.pc = pc])
<1>1. Inv /\ ~Done => Resumes(Top)
  BY TopTyped DEF Resumes, TypedFrame, IsFrame, This
<1> QED BY <1>1 DEF Resumes

LEMMA SlotsOf ==
  /\ \A attr, n : Slot(attr, n).attr = attr /\ Slot(attr, n).node = n
  /\ \A B, d, fs : \A slot : slot \in Kept(B, d, fs) <=>
       /\ slot = Slot(slot.attr, slot.node) /\ slot.node \in Ids
       /\ slot.attr \in {"deduced", "expected", "provisional"}
       /\ Settles(B, d, fs, slot.attr, slot.node)
<1>1. \A attr, n : Slot(attr, n).attr = attr /\ Slot(attr, n).node = n
  BY DEF Slot
<1>2. ASSUME NEW slot
      PROVE  slot \in {Slot(attr, n) : attr \in {"deduced", "expected", "provisional"}, n \in Ids} <=>
               /\ slot = Slot(slot.attr, slot.node) /\ slot.node \in Ids
               /\ slot.attr \in {"deduced", "expected", "provisional"}
  BY <1>1
<1> QED BY <1>1, <1>2 DEF Kept

(* What a visitor begins with.                                             *)
LEMMA Outset ==
  ASSUME TypeLaws, Inv, Owning, ~Done, NEW B, Tracks(B)
  PROVE  /\ This \in Ids /\ This \in B /\ prog \in Programs /\ IsType(Expected) /\ Kids = KidsOf(This)
         /\ OnBegun(B, Kept(B, mem.deduced, frames)) /\ Linked(B, Kept(B, mem.deduced, frames), mem)
         /\ OnBegun(B, Provided(B)) /\ Linked(B, Provided(B), mem)
         /\ ~Silent(This) => Slot("expected", This) \in Kept(B, mem.deduced, frames)
         /\ Slot("deduced", This) \notin Provided(B)
         /\ Top.pc = 0 => Slot("provisional", This) \notin Kept(B, mem.deduced, frames)
<1> DEFINE K == Kept(B, mem.deduced, frames)
<1>1. /\ This \in Ids /\ This \in B /\ prog \in Programs /\ Kids = KidsOf(This)
  BY TopSettled DEF Tracks
<1>2. IsType(Expected)
  BY Knowledge DEF Known, Fits, Within
<1>3. Linked(B, K, mem)
  BY DEF Tracks, Linked, Expected
<1>4. \A slot : slot \in K <=>
       /\ slot = Slot(slot.attr, slot.node) /\ slot.node \in Ids
       /\ slot.attr \in {"deduced", "expected", "provisional"}
       /\ Settles(B, mem.deduced, frames, slot.attr, slot.node)
  BY SlotsOf
<1>5. \A attr, n : Slot(attr, n).attr = attr /\ Slot(attr, n).node = n
  BY SlotsOf
<1> HIDE DEF K
<1>6. OnBegun(B, K)
  BY <1>4 DEF OnBegun, Settles
<1>7. Provided(B) = K \cup (IF Silent(This) \/ KindOf(This) = "ParamDecl" THEN {} ELSE {Slot("provisional", This)})
  BY DEF Provided, K
<1>8. OnBegun(B, Provided(B))
  BY <1>1, <1>5, <1>6, <1>7 DEF OnBegun
<1>9. Linked(B, Provided(B), mem)
  BY <1>3, <1>7, TiedMore DEF Linked
<1>10. ~Silent(This) => Slot("expected", This) \in K
  BY <1>1, <1>4, <1>5 DEF Settles
<1>11. Len(frames) \in DOMAIN frames /\ Top = frames[Len(frames)] /\ This = frames[Len(frames)].node
  BY TopFrame DEF Inv, Top, This
<1>12. Slot("deduced", This) \notin K
  BY <1>4, <1>5, <1>11 DEF Settles
<1>13. Slot("deduced", This) \notin Provided(B)
  BY <1>5, <1>7, <1>12
<1>14. Top.pc = 0 => Slot("provisional", This) \notin K
  BY <1>4, <1>5, <1>11 DEF Settles
<1> QED BY <1>1, <1>2, <1>3, <1>6, <1>8, <1>9, <1>10, <1>13, <1>14 DEF K

(* The slots that are kept stay so, and so does what a visitor added.      *)
LEMMA KeptOn ==
  ASSUME Inv, ~Done, NEW B, Tracks(B), Traced(B), mem'.raised = OK, Final(mem'),
         Left => Leave, NEW C, Outgrows(B, C)
  PROVE  Finished(B) \subseteq Kept(C, mem'.deduced, frames')
<1> DEFINE l == Len(frames)
           d == mem.deduced
           e == mem'.deduced
<1>1. /\ l \in Nat \ {0} /\ DOMAIN frames = 1..l /\ This = frames[l].node /\ Top = frames[l]
  BY TopFrame DEF Inv, Top, This
<1>2. /\ This \in Ids /\ This \in B
      /\ \A i, j \in DOMAIN frames : frames[i].node = frames[j].node => i = j
  BY TopSettled DEF Tracks, Settled, Stacked
<1>3. /\ B \subseteq C /\ \A i, j \in DOMAIN frames' : frames'[i].node = frames'[j].node => i = j
      /\ \A i \in DOMAIN frames' \ DOMAIN frames :
           frames'[i].node \notin B \/ RootFunction(frames'[i].node) \/ KindOf(frames'[i].node) \in Flat
  BY DEF Outgrows, Settled, Stacked
<1>4. ASSUME Left
      PROVE  DOMAIN frames' = 1..(l - 1) /\ \A i \in 1..(l - 1) : frames'[i] = frames[i]
  <2>1. IsSequence(frames') /\ Len(frames') = l - 1 /\ \A i \in 1..(l - 1) : frames'[i] = frames[i]
    BY <1>4, LeaveStack
  <2> QED BY <2>1, SequenceFacts
<1>5. ASSUME ~Left
      PROVE  /\ l \in DOMAIN frames' /\ frames'[l].node = This /\ frames'[l].pc > 0
             /\ \A i \in 1..(l - 1) : frames'[i] = frames[i]
             /\ \A i \in DOMAIN frames' \ DOMAIN frames : e[frames'[i].node] = Absent
  <2>1. PICK f, k, hs : Resumes(f) /\ Leaves(mem', f, k, hs)
    BY <1>5 DEF Traced
  <2> DEFINE ns == Push(Release(names, Top.guards), f.guards)
             g == [f EXCEPT !.pc = @ + 1]
             x == Frame(k, ns)
  <2>2. g.node = This /\ g.pc = f.pc + 1 /\ f.pc \in Nat /\ x.node = k
    BY <2>1 DEF Resumes, Frame
  <2>3. /\ IsSequence(hs) /\ Len(hs) = l /\ hs[l] = g /\ \A i \in 1..(l - 1) : hs[i] = frames[i]
        /\ e[k] # Absent => frames' = hs
        /\ e[k] = Absent => /\ IsSequence(frames') /\ Len(frames') = l + 1 /\ frames'[l + 1] = x
                            /\ \A i \in 1..l : frames'[i] = hs[i]
    BY <2>1 DEF Leaves
  <2> HIDE DEF g, x, d, e
  <2>4. DOMAIN hs = 1..l
    BY <2>3, SequenceFacts
  <2>5. CASE e[k] # Absent
    BY <1>1, <2>2, <2>3, <2>4, <2>5
  <2>6. CASE e[k] = Absent
    <3>1. DOMAIN frames' = 1..(l + 1)
      BY <2>3, <2>6, SequenceFacts
    <3> HIDE DEF l
    <3> QED BY <1>1, <2>2, <2>3, <2>6, <3>1
  <2> QED BY <2>5, <2>6
<1> HIDE DEF l
<1>6. \A i \in DOMAIN frames' \cap DOMAIN frames :
        frames'[i].node = frames[i].node /\ (frames[i].pc > 0 => frames'[i].pc > 0)
  <2>1. ASSUME NEW i \in DOMAIN frames' \cap DOMAIN frames
        PROVE  frames'[i] = frames[i] \/ (i = l /\ ~Left)
    BY <1>1, <1>4, <1>5
  <2> QED BY <1>1, <1>5, <2>1
<1>7. \A n \in Ids : ~IsFunction(n) /\ d[n] # Absent => e[n] # Absent
  BY DEF Final
<1>8. ASSUME NEW i \in DOMAIN frames' \ DOMAIN frames, frames'[i].node \in B
      PROVE  /\ e[frames'[i].node] = Absent
             /\ Silent(frames'[i].node) \/ KindOf(frames'[i].node) = "ParamDecl"
  <2>1. e[frames'[i].node] = Absent
    BY <1>1, <1>4, <1>5
  <2>2. RootFunction(frames'[i].node) \/ KindOf(frames'[i].node) \in Flat
    BY <1>3, <1>8
  <2> QED BY <2>1, <2>2 DEF Silent, Flat, Binders, PatternKinds, RootFunction
<1> HIDE DEF d, e
<1>9. ASSUME NEW attr, NEW n \in Ids, Settles(B, d, frames, attr, n)
      PROVE  Settles(C, e, frames', attr, n)
  <2>1. n \in B /\ n \in C /\ ~Silent(n) /\ ~IsFunction(n)
    BY <1>3, <1>9 DEF Settles, Silent
  <2>2. CASE attr = "expected"
    BY <2>1, <2>2 DEF Settles
  <2>3. CASE attr = "provisional"
    <3>1. KindOf(n) # "ParamDecl" /\ \A i \in DOMAIN frames : frames[i].node = n => frames[i].pc > 0
      BY <1>9, <2>3 DEF Settles
    <3>2. ASSUME NEW i \in DOMAIN frames', frames'[i].node = n PROVE frames'[i].pc > 0
      <4>1. i \in DOMAIN frames
        BY <1>8, <2>1, <3>1, <3>2
      <4> QED BY <1>6, <3>1, <3>2, <4>1
    <3> QED BY <2>1, <2>3, <3>1, <3>2 DEF Settles
  <2>4. CASE attr = "deduced"
    <3>1. /\ KindOf(n) = "ParamDecl" => d[n] # Absent
          /\ \A i \in DOMAIN frames : frames[i].node # n
      BY <1>9, <2>4 DEF Settles
    <3>2. KindOf(n) = "ParamDecl" => e[n] # Absent
      BY <1>7, <2>1, <3>1
    <3>3. ASSUME NEW i \in DOMAIN frames' PROVE frames'[i].node # n
      <4>1. CASE i \in DOMAIN frames
        BY <1>6, <3>1, <4>1
      <4>2. CASE i \notin DOMAIN frames
        BY <1>8, <2>1, <3>2, <4>2
      <4> QED BY <4>1, <4>2
    <3> QED BY <2>1, <2>4, <3>2, <3>3 DEF Settles
  <2> QED BY <1>9, <2>2, <2>3, <2>4 DEF Settles
<1>10. ASSUME ~Silent(This), KindOf(This) # "ParamDecl" PROVE Settles(C, e, frames', "provisional", This)
  <2>1. ASSUME NEW i \in DOMAIN frames', frames'[i].node = This PROVE frames'[i].pc > 0
    <3>1. CASE Left
      <4>1. i \in DOMAIN frames /\ frames'[i] = frames[i] /\ i # l
        BY <1>1, <1>4, <3>1
      <4> QED BY <1>1, <1>2, <2>1, <4>1
    <3>2. CASE ~Left
      BY <1>3, <1>5, <2>1, <3>2
    <3> QED BY <3>1, <3>2
  <2> QED BY <1>2, <1>3, <1>10, <2>1 DEF Settles
<1>11. ASSUME ~Silent(This), Left PROVE Settles(C, e, frames', "deduced", This)
  <2>1. ASSUME NEW i \in DOMAIN frames' PROVE frames'[i].node # This
    <3>1. i \in DOMAIN frames /\ frames'[i] = frames[i] /\ i # l
      BY <1>1, <1>4, <1>11
    <3> QED BY <1>1, <1>2, <3>1
  <2>2. KindOf(This) = "ParamDecl" => e[This] # Absent
    BY <1>11 DEF Traced, e
  <2> QED BY <1>2, <1>3, <1>11, <2>1, <2>2 DEF Settles
<1>12. ASSUME NEW slot \in Finished(B) PROVE slot \in Kept(C, e, frames')
  <2>1. CASE slot \in Kept(B, d, frames)
    BY <1>9, <2>1, SlotsOf
  <2>2. CASE slot \notin Kept(B, d, frames)
    <3>1. \/ slot = Slot("provisional", This) /\ ~Silent(This) /\ KindOf(This) # "ParamDecl"
          \/ slot = Slot("deduced", This) /\ ~Silent(This) /\ Left
      BY <1>12, <2>2 DEF Finished, Provided, d
    <3> QED BY <1>2, <1>10, <1>11, <3>1, SlotsOf
  <2> QED BY <2>1, <2>2
<1> QED BY <1>12 DEF e

(* What the visitors are built from.                                       *)
LEMMA Tracing ==
  ASSUME ReferenceLaws, TypeLaws, Inv, Owning, Moves, ~Done, mem.raised = OK, NEW B, Tracks(B),
         KindOf(This) # "ParamDecl"
  PROVE  /\ \A m, f, k : Call(m, f, k) /\ Linked(B, Provided(B), m) /\ Resumes(f) => Traced(B)
         /\ \A m, t : Finish(SetDeduced(m, This, t)) /\ Linked(B, Provided(B), m) => Traced(B)
         /\ \A m, f, k : VisitWith(m, f, k) /\ Linked(B, Provided(B), m) /\ Resumes(f) => Traced(B)
         /\ \A m, k : Visit(m, k) /\ Linked(B, Provided(B), m) => Traced(B)
         /\ \A m, t : ReturnFrom(m, t) /\ Linked(B, Provided(B), m) => Traced(B)
         /\ \A t : Return(t) => Traced(B)
         /\ \A m, t, code : AmbiguousFrom(m, t, code) /\ Linked(B, Provided(B), m) => Traced(B)
         /\ \A code : code # OK /\ Throw(code) => Traced(B)
         /\ \A kind, t : Constant(kind, t) => Traced(B)
<1> DEFINE V == Provided(B)
<1>1. /\ This \in Ids /\ This \in B /\ IsType(Expected) /\ OnBegun(B, V) /\ Linked(B, V, mem)
      /\ ~Silent(This) => Slot("expected", This) \in V
      /\ Slot("deduced", This) \notin V
  BY Outset DEF Provided
<1>2. V \subseteq Finished(B) /\ (~Silent(This) /\ Left => Finished(B) = V \cup {Slot("deduced", This)})
  BY DEF Finished
<1> HIDE DEF V
<1>3. ASSUME NEW m, NEW f, NEW k, Call(m, f, k), Linked(B, V, m), Resumes(f) PROVE Traced(B)
  <2> SUFFICES ASSUME mem'.raised = OK PROVE Traced(B)
    BY DEF Traced
  <2>1. mem' = m
    BY <1>3 DEF Call
  <2>2. PICK hs : Leaves(m, f, k, hs)
    BY <1>3, <2>1, CallStack
  <2>3. Tied(B, V, mem')
    BY <1>3, <2>1 DEF Linked
  <2>4. Tied(B, Finished(B), mem')
    BY <1>2, <2>3, TiedMore
  <2>5. ~Left
    <3> DEFINE l == Len(frames)
    <3>1. l \in Nat
      BY TopFrame DEF Inv
    <3>2. Len(frames') = l \/ Len(frames') = l + 1
      BY <2>2 DEF Leaves
    <3> HIDE DEF l
    <3> QED BY <3>1, <3>2 DEF Left, l
  <2> QED BY <1>3, <2>1, <2>2, <2>4, <2>5 DEF Traced
<1>4. ASSUME NEW m, NEW t, Finish(SetDeduced(m, This, t)), Linked(B, V, m) PROVE Traced(B)
  <2> SUFFICES ASSUME mem'.raised = OK PROVE Traced(B)
    BY DEF Traced
  <2> DEFINE r == SetDeduced(m, This, t)
  <2>1. mem' = r /\ Leave
    BY <1>4 DEF Finish
  <2>2. Left
    BY <2>1, LeaveStack DEF Left
  <2>3. Linked(B, Finished(B), r)
    <3>1. CASE Silent(This)
      <4>1. Linked(B, V, r)
        BY <1>1, <1>4, <3>1, Links
      <4> HIDE DEF r
      <4> QED BY <1>2, <4>1, TiedMore DEF Linked
    <3>2. CASE ~Silent(This)
      <4>1. IsType(t)
        <5> DEFINE c == Checked(m, This, "deduced", t, m.expected[This])
        <5>1. IsType(mem'.deduced[This])
          <6>1. SlotsFit(mem')
            BY DEF Moves, Reached, Held
          <6>2. Fits(mem', mem'.deduced[This])
            BY <1>1, <6>1 DEF SlotsFit
          <6> QED BY <6>2 DEF Fits, Within
        <5>2. IsStorage(m)
          BY <1>4 DEF Linked, Tied, Store, IsStorage
        <5>3. r.raised = OK => r.deduced = [m.deduced EXCEPT ![This] = t]
          BY <5>2, SetDeducedFields
        <5>4. DOMAIN m.deduced = Ids
          BY <5>2 DEF IsStorage
        <5> HIDE DEF r
        <5>5. r.deduced[This] = t
          BY <1>1, <2>1, <5>3, <5>4
        <5> QED BY <2>1, <5>1, <5>5
      <4>2. Slot("deduced", This) \in Finished(B)
        BY <1>2, <2>2, <3>2
      <4> HIDE DEF r
      <4> QED BY <1>1, <1>2, <1>4, <3>2, <4>1, <4>2, SetLinks DEF r
    <3> QED BY <3>1, <3>2
  <2> HIDE DEF r
  <2> QED BY <2>1, <2>2, <2>3 DEF Traced, Linked
<1>5. ASSUME NEW m, NEW f, NEW k, VisitWith(m, f, k), Linked(B, V, m), Resumes(f) PROVE Traced(B)
  BY <1>3, <1>5 DEF VisitWith
<1>6. ASSUME NEW m, NEW k, Visit(m, k), Linked(B, V, m) PROVE Traced(B)
  BY <1>5, <1>6, Resuming DEF Visit
<1>7. ASSUME NEW m, NEW t, ReturnFrom(m, t), Linked(B, V, m) PROVE Traced(B)
  BY <1>4, <1>7 DEF ReturnFrom
<1>8. ASSUME NEW t, Return(t) PROVE Traced(B)
  BY <1>1, <1>7, <1>8 DEF Return
<1>9. ASSUME NEW m, NEW t, NEW code, AmbiguousFrom(m, t, code), Linked(B, V, m) PROVE Traced(B)
  <2>1. Linked(B, V, Raise(m, code))
    BY <1>1, <1>9, Links
  <2> QED BY <1>7, <1>9, <2>1 DEF AmbiguousFrom
<1>10. ASSUME NEW code, code # OK, Throw(code) PROVE Traced(B)
  <2>1. mem' = Raise(mem, code) /\ Store(mem)
    BY <1>1, <1>10 DEF Throw, Linked, Tied
  <2>2. mem'.raised # OK
    BY <1>10, <2>1 DEF Raise, Store
  <2> QED BY <2>2 DEF Traced
<1>11. ASSUME NEW kind, NEW t, Constant(kind, t) PROVE Traced(B)
  BY <1>8, <1>11 DEF Constant
<1> QED BY <1>3, <1>4, <1>5, <1>6, <1>7, <1>8, <1>9, <1>10, <1>11 DEF V

-----------------------------------------------------------------------------
(* A visitor of anything but a parameter makes a step, and what it may     *)
(* leave in the storage on the way.                                        *)
Underway(B) ==
  /\ ReferenceLaws /\ TypeLaws /\ Inv /\ Owning /\ Moves /\ ~Done /\ mem.raised = OK
  /\ Tracks(B) /\ KindOf(This) # "ParamDecl"
Sane(B, m) == Linked(B, Provided(B), m)

LEMMA Operating ==
  ASSUME NEW B, Underway(B)
  PROVE  /\ Sane(B, mem)
         /\ \A m : Sane(B, m) =>
              /\ \A code : Sane(B, Raise(m, code))
              /\ \A t : Sane(B, CheckType(m, t))
              /\ \A n : Coming(B, n) => /\ \A e : Sane(B, ExpectType(m, n, e))
                                        /\ \A t : Sane(B, Expect(m, n, t))
                                        /\ Sane(B, Propagate(m, n))
              /\ \A n \in Ids : Silent(n) => \A t : /\ Sane(B, SetDeduced(m, n, t))
                                                    /\ Sane(B, StoreDeduced(m, n, t))
              /\ Sane(B, Entry(m))
         /\ \A t, new, k : Sane(B, Infer(t, new, k))
<1> DEFINE V == Provided(B)
<1>1. This \in Ids /\ This \in B /\ OnBegun(B, V) /\ Linked(B, V, mem)
  BY Outset DEF Underway
<1>2. ReferenceLaws /\ TypeLaws
  BY DEF Underway
<1> HIDE DEF V
<1>3. \A m : Linked(B, V, m) =>
        /\ \A code : Linked(B, V, Raise(m, code))
        /\ \A t : Linked(B, V, CheckType(m, t))
        /\ \A n : Coming(B, n) => /\ \A e : Linked(B, V, ExpectType(m, n, e))
                                  /\ \A t : Linked(B, V, Expect(m, n, t))
                                  /\ Linked(B, V, Propagate(m, n))
        /\ \A n \in Ids : Silent(n) => \A t : /\ Linked(B, V, SetDeduced(m, n, t))
                                              /\ Linked(B, V, StoreDeduced(m, n, t))
        /\ Linked(B, V, Entry(m))
  BY <1>1, <1>2, Links
<1>4. \A t, new, k : Linked(B, V, Infer(t, new, k))
  BY <1>1, InferLinks
<1> QED BY <1>1, <1>3, <1>4 DEF Sane, V

LEMMA Beginning ==
  ASSUME NEW B, Underway(B), NEW t, IsType(t)
  PROVE  /\ Top.pc = 0 => Sane(B, SetProvisional(mem, t))
         /\ Sane(B, Entry(SetProvisional(mem, t)))
<1> DEFINE V == Provided(B)
           K == Kept(B, mem.deduced, frames)
<1>1. /\ This \in Ids /\ This \in B /\ IsType(Expected) /\ OnBegun(B, V) /\ Linked(B, V, mem)
      /\ OnBegun(B, K) /\ Linked(B, K, mem)
      /\ ~Silent(This) => Slot("expected", This) \in K
      /\ Top.pc = 0 => Slot("provisional", This) \notin K
  BY Outset DEF Underway
<1>2. ReferenceLaws /\ TypeLaws
  BY DEF Underway
<1>3. K \subseteq V /\ (~Silent(This) => Slot("provisional", This) \in V)
  BY DEF Provided, Underway
<1> HIDE DEF V, K
<1>4. ASSUME Top.pc = 0 PROVE Linked(B, V, SetProvisional(mem, t))
  <2>1. CASE Silent(This)
    BY <1>1, <1>2, <2>1, Links
  <2>2. CASE ~Silent(This)
    BY <1>1, <1>2, <1>3, <1>4, <2>2, SetLinks
  <2> QED BY <2>1, <2>2
<1> QED BY <1>1, <1>4 DEF Sane, V, Entry

LEMMA Building ==
  ASSUME NEW B, Underway(B)
  PROVE  /\ \A m, f, k : Call(m, f, k) /\ Sane(B, m) /\ Resumes(f) => Traced(B)
         /\ \A m, t : Finish(SetDeduced(m, This, t)) /\ Sane(B, m) => Traced(B)
         /\ \A m, f, k : VisitWith(m, f, k) /\ Sane(B, m) /\ Resumes(f) => Traced(B)
         /\ \A m, k : Visit(m, k) /\ Sane(B, m) => Traced(B)
         /\ \A m, t : ReturnFrom(m, t) /\ Sane(B, m) => Traced(B)
         /\ \A t : Return(t) => Traced(B)
         /\ \A m, t, code : AmbiguousFrom(m, t, code) /\ Sane(B, m) => Traced(B)
         /\ \A code : code # OK /\ Throw(code) => Traced(B)
         /\ \A kind, t : Constant(kind, t) => Traced(B)
         /\ Resumes(Top)
BY Tracing, Resuming DEF Underway, Sane

(* What is still to come.                                                  *)
LEMMA PatternPlaces ==
  ASSUME NEW p, WellBuilt(p), NEW n \in 1..Len(p.node)
  PROVE  \A i \in DOMAIN p.node[n].kids :
           p.node[p.node[n].kids[i]].kind \in PatternKinds \cup {"ParamDecl"} =>
             \/ p.node[n].kind \in PatternKinds
             \/ p.node[n].kind \in FunctionKinds \cup {"Abstraction"} /\ i = 1
             \/ p.node[n].kind \in {"Let", "TryCatch", "TryCastAs"} /\ i = 2
             \/ p.node[n].kind = "Match" /\ i % 2 = 0
BY SMTT(30) DEF WellBuilt

LEMMA KidSpeaks ==
  ASSUME prog \in Programs, This \in Ids, NEW j \in DOMAIN Kids,
         KindOf(This) \notin PatternKinds \cup {"Program"}, IsFunction(This) => j # 1 /\ ~IsFunction(Kid(j)),
         KindOf(This) \in Patterned => j # 2,
         KindOf(This) = "Match" => j % 2 # 0
  PROVE  ~Silent(Kid(j))
<1> DEFINE n == This
<1>1. WellBuilt(prog)
  BY GrammarAssumption
<1>2. /\ n \in 1..Len(prog.node) /\ j \in DOMAIN prog.node[n].kids /\ Kid(j) = prog.node[n].kids[j]
      /\ KindOf(n) = prog.node[n].kind /\ \A k : KindOf(k) = prog.node[k].kind
  BY DEF Ids, Kids, Kid, KindOf, Node
<1>3. /\ KindOf(n) \notin PatternKinds \cup {"Program"}
      /\ KindOf(n) \in {"Let", "TryCatch", "TryCastAs"} => j # 2
      /\ KindOf(n) = "Match" => j % 2 # 0
  BY DEF Patterned
<1>4. IsFunction(n) => j # 1 /\ ~IsFunction(Kid(j))
  OBVIOUS
<1>5. KindOf(n) = "Abstraction" => KindOf(Kids[1]) = "ParamDecl"
  <2>1. KindOf(This) = "Abstraction" => KindOf(KidsOf(This)[1]) = "ParamDecl"
    BY ProgramTree
  <2>2. Kids = KidsOf(This)
    BY DEF Kids, KidsOf
  <2> QED BY <2>1, <2>2
<1>6. Kid(j) = Kids[j]
  BY DEF Kid
<1>7. ~IsFunction(n) => ~IsFunction(Kid(j))
  <2>1. ~IsFunction(This) => Child(Kid(j))
    <3>1. Node(This).kind # "Program"
      BY DEF KindOf
    <3> QED BY <3>1, Nodes DEF Kids, Kid
  <2> QED BY <2>1 DEF Child
<1> HIDE DEF n
<1>8. \A i \in DOMAIN prog.node[n].kids :
        prog.node[prog.node[n].kids[i]].kind \in PatternKinds \cup {"ParamDecl"} =>
          \/ prog.node[n].kind \in PatternKinds
          \/ prog.node[n].kind \in FunctionKinds \cup {"Abstraction"} /\ i = 1
          \/ prog.node[n].kind \in {"Let", "TryCatch", "TryCastAs"} /\ i = 2
          \/ prog.node[n].kind = "Match" /\ i % 2 = 0
  BY <1>1, <1>2, PatternPlaces
<1>9. KindOf(Kid(j)) = prog.node[prog.node[n].kids[j]].kind
  BY <1>2
<1>10. KindOf(Kid(j)) \in PatternKinds => KindOf(n) = "Abstraction" /\ j = 1
  BY <1>2, <1>3, <1>4, <1>8, <1>9, Kinds
<1>11. KindOf(Kid(j)) \notin PatternKinds
  BY <1>5, <1>6, <1>10 DEF PatternKinds
<1> QED BY <1>4, <1>7, <1>11 DEF Silent

LEMMA KidComing ==
  ASSUME Inv, ~Done, NEW B, Tracks(B), NEW j \in DOMAIN Kids, Passed(This, Top.pc) < j,
         KindOf(This) \notin PatternKinds \cup {"Program"}, IsFunction(This) => j # 1 /\ ~IsFunction(Kid(j)),
         KindOf(This) \in Patterned => j # 2,
         KindOf(This) = "Match" => j % 2 # 0
  PROVE  Coming(B, Kid(j))
<1>1. This \in Ids /\ prog \in Programs /\ Settled(B, mem.deduced, frames)
  BY TopSettled DEF Tracks
<1>2. ~Silent(Kid(j))
  BY <1>1, KidSpeaks
<1>3. Kid(j) \in Ids /\ Kid(j) \notin B
  BY <1>1, <1>2, Untouched, Kinds DEF Silent
<1> QED BY <1>2, <1>3 DEF Coming

LEMMA MembersComing ==
  ASSUME Inv, ~Done, NEW B, Tracks(B), NEW kind \in DOMAIN Arity, kind \notin Patterned \cup PatternKinds,
         NEW pc, At(kind, pc), NEW j \in 1..Arity[kind], pc < j
  PROVE  Coming(B, Kid(j))
<1>1. KindOf(This) = kind /\ Top.pc = pc
  BY DEF At, KindOf
<1>2. kind \notin Flat \cup Patterned \cup {"Match"} \cup PatternKinds \cup FunctionKinds \cup {"Program"}
  BY DEF Flat, Binders, FunctionKinds, Arity, PatternKinds
<1>3. Passed(This, Top.pc) = pc
  BY <1>1, <1>2, PassedValues
<1>4. j \in DOMAIN Kids
  <2>1. DOMAIN Kids = 1..Len(Kids)
    BY TopSettled DEF Tracks
  <2> QED BY <2>1, Members
<1>5. ~IsFunction(This)
  BY <1>1, <1>2, Kinds
<1> QED BY <1>1, <1>2, <1>3, <1>4, <1>5, KidComing

LEMMA UnaryComing ==
  ASSUME Inv, NEW B, Tracks(B),
         NEW kind \in {"Fix", "TypeAsc", "IsZero", "Succ", "Pred", "TypeAbstraction", "TypeApplication",
                   "Head", "Tail", "IsEmpty", "DotTuple", "DotRecord", "Inl", "Inr", "Throw",
                   "TypeCast", "Ref", "Deref"}
  PROVE  At(kind, 0) => Coming(B, Kid(1))
<1>1. kind \in DOMAIN Arity /\ Arity[kind] = 1 /\ kind \notin Patterned \cup PatternKinds
  BY Arities DEF Patterned, PatternKinds
<1>2. 1 \in 1..Arity[kind] /\ 0 < 1
  BY <1>1
<1>3. At(kind, 0) => ~Done
  BY DEF At
<1> QED BY <1>1, <1>2, <1>3, MembersComing

LEMMA BinaryComing ==
  ASSUME Inv, NEW B, Tracks(B),
         NEW kind \in {"Abstraction", "Application", "Sequence", "ConsList", "TryWith", "Assign"}
  PROVE  /\ At(kind, 0) => Coming(B, Kid(1)) /\ Coming(B, Kid(2))
         /\ At(kind, 1) => Coming(B, Kid(2))
<1>1. kind \in DOMAIN Arity /\ Arity[kind] = 2 /\ kind \notin Patterned \cup PatternKinds
  BY Arities DEF Patterned, PatternKinds
<1>2. 1 \in 1..Arity[kind] /\ 2 \in 1..Arity[kind] /\ 0 < 1 /\ 0 < 2 /\ 1 < 2
  BY <1>1
<1>3. \A pc : At(kind, pc) => ~Done
  BY DEF At
<1> QED BY <1>1, <1>2, <1>3, MembersComing

LEMMA TernaryComing ==
  ASSUME Inv, NEW B, Tracks(B), NEW kind \in {"If", "NatRec"}
  PROVE  /\ At(kind, 0) => Coming(B, Kid(1))
         /\ At(kind, 1) => Coming(B, Kid(2))
         /\ At(kind, 2) => Coming(B, Kid(3))
<1>1. kind \in DOMAIN Arity /\ Arity[kind] = 3 /\ kind \notin Patterned \cup PatternKinds
  BY Arities DEF Patterned, PatternKinds
<1>2. 1 \in 1..Arity[kind] /\ 2 \in 1..Arity[kind] /\ 3 \in 1..Arity[kind] /\ 0 < 1 /\ 1 < 2 /\ 2 < 3
  BY <1>1
<1>3. \A pc : At(kind, pc) => ~Done
  BY DEF At
<1> QED BY <1>1, <1>2, <1>3, MembersComing

LEMMA PatternedComing ==
  ASSUME Inv, NEW B, Tracks(B), NEW kind \in Patterned
  PROVE  /\ At(kind, 0) => Coming(B, Kid(1))
         /\ At(kind, 1) => Coming(B, Kid(3)) /\ Kid(2) \in Ids
         /\ At("TryCastAs", 1) \/ At("TryCastAs", 2) => Coming(B, Kid(4))
<1>1. ASSUME NEW k \in Patterned, NEW pc, At(k, pc)
      PROVE  /\ ~Done /\ KindOf(This) = k /\ Top.pc = pc /\ k \in DOMAIN Arity
             /\ KindOf(This) \notin PatternKinds \cup FunctionKinds \cup {"Program", "Match"}
             /\ DOMAIN Kids = 1..Arity[k]
             /\ Passed(This, Top.pc) = IF pc > 1 THEN pc + 1 ELSE pc
             /\ \A i \in 1..Arity[k] : Kid(i) \in Ids
  <2>1. ~Done /\ KindOf(This) = k /\ Top.pc = pc
    BY <1>1 DEF At, KindOf
  <2>2. k \in DOMAIN Arity
    BY <1>1, Arities DEF Patterned
  <2>3. k \notin PatternKinds \cup FunctionKinds \cup {"Program", "Match"}
    BY <1>1 DEF Patterned, PatternKinds, FunctionKinds
  <2>4. DOMAIN Kids = 1..Len(Kids)
    BY <2>1, TopSettled DEF Tracks
  <2>5. Len(Kids) = Arity[k] /\ \A i \in 1..Arity[k] : Kid(i) \in Ids
    BY <1>1, <2>2, Members DEF Child
  <2>6. Passed(This, Top.pc) = IF pc > 1 THEN pc + 1 ELSE pc
    BY <1>1, <2>1, PassedValues
  <2> QED BY <2>1, <2>2, <2>3, <2>4, <2>5, <2>6
<1>2. ASSUME NEW k \in Patterned, NEW pc \in Nat, At(k, pc), NEW i \in 1..Arity[k], i # 2,
             (IF pc > 1 THEN pc + 1 ELSE pc) < i
      PROVE  Coming(B, Kid(i))
  <2>1. /\ i \in DOMAIN Kids /\ Passed(This, Top.pc) < i
        /\ KindOf(This) \notin PatternKinds \cup FunctionKinds \cup {"Program"} /\ KindOf(This) # "Match"
        /\ ~Done
    BY <1>1, <1>2
  <2>2. ~IsFunction(This)
    BY <2>1, Kinds
  <2> QED BY <1>2, <2>1, <2>2, KidComing
<1>3. \A k \in Patterned : 1 \in 1..Arity[k] /\ 2 \in 1..Arity[k] /\ 3 \in 1..Arity[k]
  <2>1. \A k \in Patterned : Arity[k] \in {3, 4}
    BY Arities DEF Patterned
  <2> QED BY <2>1
<1>4. "TryCastAs" \in Patterned /\ 4 \in 1..Arity["TryCastAs"]
  BY Arities DEF Patterned
<1>5. At(kind, 0) => Coming(B, Kid(1))
  BY <1>2, <1>3
<1>6. At(kind, 1) => Coming(B, Kid(3))
  BY <1>2, <1>3
<1>7. At(kind, 1) => Kid(2) \in Ids
  BY <1>1, <1>3
<1>8. At("TryCastAs", 1) => Coming(B, Kid(4))
  BY <1>2, <1>4
<1>9. At("TryCastAs", 2) => Coming(B, Kid(4))
  BY <1>2, <1>4
<1> QED BY <1>5, <1>6, <1>7, <1>8, <1>9
-----------------------------------------------------------------------------
(* The visitors, one by one.                                               *)
LEMMA Simple ==
  ASSUME TypeLaws
  PROVE  (\A f : IsType(Sentinel_(f))) /\ IsType(Bool_) /\ IsType(Nat_) /\ IsType(None_) /\ IsType(Unknown_)
BY Leaves_ DEF Within

LEMMA AbstractionTraces ==
  ASSUME NEW B, Underway(B), VisitExprAbstraction
  PROVE  Traced(B)
<1>1. /\ TypeLaws /\ ReferenceLaws /\ Inv /\ Owning /\ ~Done /\ Tracks(B) /\ KindOf(This) # "ParamDecl"
      /\ mem.raised = OK
  BY DEF Underway
<1>2. KindOf(This) = "Abstraction"
  BY DEF VisitExprAbstraction, At, KindOf
<1>3. ~Silent(This)
  BY <1>2, Kinds DEF Silent, PatternKinds, IsFunction, FunctionKinds
<1>4. CASE At("Abstraction", 0)
  <2> DEFINE e  == mem.expected[This]
             v  == EqualsToOr(e.type, "ERROR_UNEXPECTED_LAMBDA")
             m0 == IF ConcreteExpected /\ ~Expects("Fun") /\ ~e.explicit
                   THEN [mem EXCEPT !.expected[This] = v] ELSE mem
             m1 == SetProvisional(m0, Sentinel_("Fun"))
             m2 == CheckType(m1, Node(Param).types[1])
             m3 == IF Concrete("Fun") THEN ExpectType(m2, Param, EqualsToOr(Part(e.type, 1), PARAM))
                   ELSE m2
             K == Kept(B, mem.deduced, frames)
  <2>1. Visit(m3, Param)
    BY <1>4 DEF VisitExprAbstraction, At
  <2>2. /\ This \in Ids /\ This \in B /\ IsType(Expected) /\ OnBegun(B, K) /\ Linked(B, K, mem)
        /\ Slot("expected", This) \in K /\ Slot("provisional", This) \notin K
    BY <1>1, <1>3, <1>4, Outset DEF At
  <2>3. K \subseteq Provided(B) /\ Slot("provisional", This) \in Provided(B)
    BY <1>1, <1>3 DEF Provided
  <2> HIDE DEF K
  <2>4. Linked(B, K, m0)
    <3>1. v.type = e.type
      BY DEF EqualsToOr
    <3> HIDE DEF v
    <3> DEFINE r == [mem EXCEPT !.expected[This] = v]
    <3>2. Store(mem)
      BY <2>2 DEF Linked, Tied
    <3>3. /\ Store(r) /\ r.raised = mem.raised /\ r.constraints = mem.constraints
          /\ r.deduced = mem.deduced /\ r.provisional = mem.provisional
      BY <3>2 DEF Store
    <3>4. \A n \in Ids : r.expected[n] = IF n = This THEN v ELSE mem.expected[n]
      BY <2>2, <3>2 DEF Store
    <3>5. m0 \in {mem, r}
      OBVIOUS
    <3> HIDE DEF r
    <3>6. \A n \in Ids : r.expected[n].type = mem.expected[n].type /\ (Silent(n) => r.expected[n] = mem.expected[n])
      BY <1>3, <3>1, <3>4
    <3>7. \A slot \in K : ContentIn(r, slot) = ContentIn(mem, slot)
      BY <2>2, <3>3, <3>6 DEF OnBegun, ContentIn
    <3>8. Linked(B, K, r)
      <4>1. \A i \in DOMAIN r.constraints : \E j \in DOMAIN mem.constraints : r.constraints[i] = mem.constraints[j]
        BY <3>3
      <4>2. \A n \in Ids : IF Silent(n) THEN r.expected[n] = mem.expected[n]
                          ELSE n \notin B => r.deduced[n] = mem.deduced[n]
        BY <3>3, <3>6
      <4>3. r.raised = OK /\ mem.raised = OK /\ r.expected[This].type = mem.expected[This].type
        BY <1>1, <2>2, <3>3, <3>6
      <4>4. Store(r)
        BY <3>3
      <4> QED BY <2>2, <3>7, <4>1, <4>2, <4>3, <4>4, LinkedOn
    <3> HIDE DEF m0
    <3> QED BY <2>2, <3>5, <3>8
  <2> HIDE DEF m0
  <2>5. Sane(B, m1)
    BY <1>1, <1>3, <2>2, <2>3, <2>4, Simple, SetLinks DEF Sane
  <2> HIDE DEF m1
  <2>6. Sane(B, m2)
    BY <2>5, Operating
  <2> HIDE DEF m2
  <2>7. Coming(B, Param)
    BY <1>1, <1>4, BinaryComing DEF Param
  <2>8. Sane(B, m3)
    BY <2>6, <2>7, Operating
  <2> HIDE DEF m3
  <2> QED BY <2>1, <2>8, Building
<1>5. CASE At("Abstraction", 1)
  <2> DEFINE result == IF Expects("Fun") THEN Part(Expected, 2) ELSE None_
             m == IF result = None_ THEN mem ELSE Expect(mem, Body, result)
             f == [Top EXCEPT !.guards = Guard(NameOf(Param), Param)]
  <2>1. VisitWith(m, f, Body)
    BY <1>5 DEF VisitExprAbstraction, At
  <2>2. Coming(B, Body)
    BY <1>1, <1>5, BinaryComing, Binary_ DEF Body, Kid
  <2> HIDE DEF result
  <2>3. Sane(B, m)
    BY <2>2, Operating
  <2>4. Resumes(f)
    BY <1>1, Resuming
  <2> HIDE DEF m, f
  <2> QED BY <2>1, <2>3, <2>4, Building
<1>6. CASE At("Abstraction", 2) /\ Return(Built(Fun_(Deduced(Param), Deduced(Body))))
  BY <1>6, Building
<1> QED BY <1>4, <1>5, <1>6 DEF VisitExprAbstraction

(* The two sides are parts of the function's deduced type, which is final. *)
LEMMA FixTraces ==
  ASSUME NEW B, Underway(B), VisitExprFix
  PROVE  Traced(B)
<1>1. /\ TypeLaws /\ ReferenceLaws /\ Inv /\ Owning /\ ~Done /\ Tracks(B) /\ KindOf(This) # "ParamDecl"
  BY DEF Underway
<1>2. CASE At("Fix", 0)
  <2> DEFINE m0 == Expect(mem, Kid(1), Sentinel_("Fun"))
             m == IF Concrete("Fun") THEN Expect(m0, Kid(1), Fun_(Expected, Expected)) ELSE m0
  <2>1. Visit(m, Kid(1))
    BY <1>2 DEF VisitExprFix, At
  <2>2. Coming(B, Kid(1))
    BY <1>1, <1>2, UnaryComing
  <2>3. Sane(B, m0)
    BY <2>2, Operating
  <2> HIDE DEF m0
  <2>4. Sane(B, m)
    BY <2>2, <2>3, Operating
  <2> HIDE DEF m
  <2> QED BY <2>1, <2>4, Building
<1>3. CASE At("Fix", 1)
  <2> DEFINE k == Kid(1)
             t == Deduced(k)
             slot == Slot("deduced", k)
             V == Provided(B)
             m0 == Raise(mem, Incompatible(Part(t, 2), Part(t, 1)))
             m == Emit(m0, Part(t, 2), slot, Part(t, 1), slot)
  <2>1. Throw(INTERNAL) \/ (Family(t) = "Fun" /\ ReturnFrom(m, Part(t, 2)))
    BY <1>3 DEF VisitExprFix, At
  <2>2. CASE Throw(INTERNAL)
    <3>1. INTERNAL # OK
      BY DEF INTERNAL, OK
    <3> QED BY <2>2, <3>1, Building
  <2>3. CASE Family(t) = "Fun" /\ ReturnFrom(m, Part(t, 2))
    <3>1. Sane(B, m0)
      BY Operating
    <3>2. m0.deduced = mem.deduced
      BY <3>1, Operating, RaiseStores DEF Sane, Linked, Tied, Tables
    <3> HIDE DEF m0
    <3>3. k \in Ids /\ KindOf(This) = "Fix"
      BY <1>1, <1>3, Unary_ DEF Child, At, KindOf
    <3>4. Known(t) /\ Known(Part(t, 1)) /\ Known(Part(t, 2))
      BY <1>1, <2>3, <3>3, Knowledge, KnownTypes
    <3>5. CASE IsSentinel(t)
      <4>1. Part(t, 1) = None_
        BY <3>5 DEF Part
      <4>2. m = m0
        BY <4>1 DEF Emit
      <4> QED BY <2>3, <3>1, <4>2, Building
    <3>6. CASE ~IsSentinel(t)
      <4>1. slot \in V
        <5>1. t # Absent
          BY <2>3, <3>6 DEF Absent, Leaf, Term, Family, IsSentinel
        <5>2. k \in B
          BY <1>1, <3>3, <5>1 DEF Tracks, Settled, Begun, Deduced
        <5>3. /\ This \in Ids /\ prog \in Programs /\ Kids = KidsOf(This) /\ DOMAIN Kids = 1..Len(Kids)
              /\ Settled(B, mem.deduced, frames)
          BY <1>1, TopSettled DEF Tracks
        <5>4. 1 \in DOMAIN Kids
          <6>1. "Fix" \in DOMAIN Arity /\ Arity["Fix"] = 1
            BY Arities
          <6> QED BY <1>1, <1>3, <5>3, <6>1, Members
        <5>5. ~Silent(k)
          <6>1. /\ KindOf(This) \notin PatternKinds \cup FunctionKinds \cup {"Program", "Match"} \cup Patterned
            BY <3>3 DEF PatternKinds, FunctionKinds, Patterned
          <6> QED BY <5>3, <5>4, <6>1, KidSpeaks, Kinds
        <5>6. \A i \in DOMAIN frames : frames[i].node # k
          <6>1. IsSequence(frames) /\ Len(frames) # 0 /\ This = frames[Len(frames)].node
            BY <1>1, TopFrame DEF Inv, Mirror, This, Top
          <6>2. KindOf(This) \notin Binders
            BY <3>3 DEF Binders
          <6>3. \A i \in DOMAIN frames : frames[i].node # KidsOf(This)[1]
            BY <5>3, <5>4, <6>1, <6>2, KidOffStack
          <6> QED BY <5>3, <6>3 DEF Kid
        <5>7. Settles(B, mem.deduced, frames, "deduced", k)
          BY <5>1, <5>2, <5>5, <5>6 DEF Settles, Deduced
        <5> HIDE DEF k
        <5>8. slot \in Kept(B, mem.deduced, frames)
          BY <3>3, <5>7, SlotsOf
        <5> QED BY <5>8 DEF Provided
      <4>2. ContentIn(m0, slot) = t
        BY <3>2 DEF ContentIn, Slot, Deduced
      <4> HIDE DEF slot, V
      <4>3. \A i \in 1..2 : PartsOf(Part(t, i)) \subseteq PartsOf(t)
        <5>1. IsType(t)
          BY <3>4 DEF Known, Fits, Within
        <5> HIDE DEF t
        <5>2. PartsLaw(t) /\ Shaped(t) /\ t.tag = "Fun"
          BY <1>1, <2>3, <3>6, <5>1 DEF ReferenceLaws, TypeLaws, IsTypeLaw, Family
        <5>3. DOMAIN t.args = 1..2
          BY <5>2 DEF Shaped
        <5> QED BY <3>6, <5>2, <5>3 DEF PartsLaw, Below, Part
      <4>4. \A i \in 1..2 : \A p \in PartsOf(Part(t, i)) : Anchored(V, m0, p, slot)
        BY <4>1, <4>2, <4>3 DEF Anchored
      <4>5. IsType(Part(t, 1)) /\ IsType(Part(t, 2))
        BY <3>4 DEF Known, Fits, Within
      <4> HIDE DEF t
      <4>6. Linked(B, V, m0)
        BY <3>1 DEF Sane, V
      <4>7. \A p \in PartsOf(Part(t, 1)) : Anchored(V, m0, p, slot)
        BY <4>4
      <4>8. \A p \in PartsOf(Part(t, 2)) : Anchored(V, m0, p, slot)
        BY <4>4
      <4>9. Linked(B, V, m)
        BY <1>1, <4>5, <4>6, <4>7, <4>8, EmitLinks
      <4> HIDE DEF m
      <4> QED BY <2>3, <4>9, Building DEF Sane, V
    <3> QED BY <3>5, <3>6
  <2> QED BY <2>1, <2>2, <2>3
<1> QED BY <1>2, <1>3 DEF VisitExprFix

LEMMA DeclareFunctionTraces ==
  ASSUME NEW B, Underway(B), NEW kind \in FunctionKinds, NEW params, DeclareFunction(kind, params)
  PROVE  Traced(B)
<1>1. /\ TypeLaws /\ ReferenceLaws /\ Inv /\ Owning /\ ~Done /\ Tracks(B)
      /\ mem.raised = OK /\ KindOf(This) = kind
  BY DEF Underway, DeclareFunction, At, KindOf
<1>2. /\ This \in Ids /\ prog \in Programs /\ Top.pc \in Nat /\ IsFunction(This) /\ Silent(This)
      /\ DOMAIN Kids = 1..Len(Kids) /\ Len(Kids) \in Nat /\ Len(Kids) >= 2 /\ Kids = KidsOf(This)
      /\ ~IsFunction(Body)
  <2>1. /\ This \in Ids /\ prog \in Programs /\ Top.pc \in Nat
        /\ DOMAIN Kids = 1..Len(Kids) /\ Len(Kids) \in Nat /\ Kids = KidsOf(This)
    BY <1>1, TopSettled DEF Tracks
  <2>2. IsFunction(This)
    BY <1>1, Kinds
  <2>3. Len(Kids) >= 2 /\ Child(Kids[Len(Kids)])
    BY <2>1, <2>2, Nodes DEF Kids
  <2> QED BY <2>1, <2>2, <2>3 DEF Silent, Body, Child
<1>3. \A pc : Passed(This, pc) = pc
  BY <1>1, PassedValues DEF Flat, Binders, Patterned, FunctionKinds
<1>4. CASE At(kind, 0)
  <2> DEFINE s == Sentinel_(IF kind = "DeclFun" THEN "Fun" ELSE "ForAll")
             m0 == SetProvisional(mem, s)
             m == Raise(m0, TypesError(<<TypeArg, Node(Param).types[1]>>, tvars \o params))
             f == [Top EXCEPT !.tvs = params]
  <2>1. VisitWith(m, f, Param)
    BY <1>1, <1>2, <1>4 DEF DeclareFunction, At, Positions
  <2>2. IsType(s)
    BY <1>1, Simple
  <2> HIDE DEF s
  <2>3. Sane(B, m0)
    BY <1>4, <2>2, Beginning DEF At
  <2> HIDE DEF m0
  <2>4. Sane(B, m)
    BY <2>3, Operating
  <2>5. Resumes(f)
    BY <1>1, Resuming
  <2> HIDE DEF m, f
  <2> QED BY <2>1, <2>4, <2>5, Building
<1>5. ASSUME NEW i \in Positions, At(kind, i), i < Len(Kids),
             NEW t, NEW known, known = (IF i > 1 THEN mem ELSE [mem EXCEPT !.deduced[This] = t]),
             NEW m, m = (IF Kid(i + 1) = Body THEN Expect(known, Body, TypeArg) ELSE known),
             NEW f, f = (IF i > 1 THEN Top
                         ELSE [Top EXCEPT !.guards = Guard(NameOf(Param), Param), !.was_in_body = in_body]),
             Call(m, f, Kid(i + 1))
      PROVE  Traced(B)
  <2>1. i \in Nat /\ i >= 1 /\ i + 1 \in DOMAIN Kids /\ Top.pc = i
    BY <1>1, <1>2, <1>5 DEF Positions, At
  <2>2. Sane(B, known)
    <3>1. StoreDeduced(mem, This, t) = [mem EXCEPT !.deduced[This] = t]
      BY <1>1 DEF StoreDeduced
    <3>2. Sane(B, StoreDeduced(mem, This, t))
      BY <1>2, Operating
    <3> QED BY <1>5, <3>1, <3>2, Operating
  <2>3. Kid(i + 1) = Body => Coming(B, Body)
    <3>1. ASSUME Kid(i + 1) = Body PROVE Coming(B, Kid(i + 1))
      <4>1. KindOf(This) \notin PatternKinds \cup {"Program", "Match"} \cup Patterned
        BY <1>1 DEF PatternKinds, FunctionKinds, Patterned
      <4>2. Passed(This, Top.pc) < i + 1 /\ i + 1 # 1 /\ ~IsFunction(Kid(i + 1))
        BY <1>2, <1>3, <2>1, <3>1
      <4>3. i + 1 \in DOMAIN Kids
        BY <2>1
      <4> QED BY <1>1, <4>1, <4>2, <4>3, KidComing
    <3> QED BY <3>1
  <2>4. Sane(B, m)
    BY <1>5, <2>2, <2>3, Operating
  <2>5. Resumes(f)
    <3> DEFINE h == [Top EXCEPT !.guards = Guard(NameOf(Param), Param)]
    <3>1. Resumes(h)
      BY <1>1, Resuming
    <3>2. f = (IF i > 1 THEN Top ELSE [h EXCEPT !.was_in_body = in_body])
      BY <1>5
    <3> HIDE DEF h
    <3> QED BY <1>1, <3>1, <3>2, Resuming
  <2> QED BY <1>5, <2>4, <2>5, Building
<1>6. ASSUME NEW t, Finish(SetDeduced(mem, This, t))
      PROVE  Traced(B)
  BY <1>6, Building, Operating
<1>7. CASE \E i \in Positions :
             /\ At(kind, i) /\ i < Len(Kids)
             /\ LET known == IF i > 1 THEN mem
                             ELSE [mem EXCEPT !.deduced[This] = Generalised(kind, params, Fun_(Deduced(Param), TypeArg))]
                    m == IF Kid(i + 1) = Body THEN Expect(known, Body, TypeArg) ELSE known
                    f == IF i > 1 THEN Top
                         ELSE [Top EXCEPT !.guards = Guard(NameOf(Param), Param),
                                          !.was_in_body = in_body]
                IN  Call(m, f, Kid(i + 1))
             /\ in_body' = TRUE
             /\ UNCHANGED exn
  BY <1>5, <1>7
<1>8. CASE /\ At(kind, Len(Kids))
           /\ Finish(SetDeduced(mem, This, Generalised(kind, params, Built(Fun_(Deduced(Param), Deduced(Body))))))
           /\ in_body' = Top.was_in_body
           /\ UNCHANGED exn
  BY <1>6, <1>8
<1> QED BY <1>4, <1>7, <1>8 DEF DeclareFunction

LEMMA ApplicationTraces ==
  ASSUME NEW B, Underway(B), VisitExprApplication
  PROVE  Traced(B)
<1>1. Inv /\ ~Done /\ Tracks(B)
  BY DEF Underway
<1>2. CASE At("Application", 0) /\ Visit(Expect(mem, Kid(1), Sentinel_("Fun")), Kid(1))
  <2>1. Coming(B, Kid(1))
    BY <1>1, <1>2, BinaryComing
  <2>2. Sane(B, Expect(mem, Kid(1), Sentinel_("Fun")))
    BY <2>1, Operating
  <2> QED BY <1>2, <2>2, Building
<1>3. CASE At("Application", 1)
  <2> DEFINE t == Deduced(Kid(1))
             fun_type == IF Unresolved(t) THEN Fun_(Fresh(1), Fresh(2)) ELSE t
             m0 == Infer(t, fun_type, 2)
             m1 == Expect(m0, Kid(2), Part(fun_type, 1))
             f == [Top EXCEPT !.result = fun_type]
  <2>1. Throw(INTERNAL) \/ VisitWith(m1, f, Kid(2))
    BY <1>3 DEF VisitExprApplication, At
  <2>2. INTERNAL # OK
    BY DEF INTERNAL, OK
  <2>3. Coming(B, Kid(2))
    BY <1>1, <1>3, BinaryComing
  <2> HIDE DEF t, fun_type
  <2>4. Sane(B, m0)
    BY Operating
  <2> HIDE DEF m0
  <2>5. Sane(B, m1)
    BY <2>3, <2>4, Operating
  <2>6. Resumes(f)
    BY <1>1, Resuming
  <2> HIDE DEF m1, f
  <2> QED BY <2>1, <2>2, <2>5, <2>6, Building
<1>4. CASE At("Application", 2) /\ Return(Part(Top.result, 2))
  BY <1>4, Building
<1> QED BY <1>2, <1>3, <1>4 DEF VisitExprApplication

LEMMA LetTraces ==
  ASSUME NEW B, Underway(B), VisitExprLet
  PROVE  Traced(B)
<1>1. Inv /\ ~Done /\ Tracks(B) /\ "Let" \in Patterned
  BY DEF Underway, Patterned
<1>2. CASE At("Let", 0) /\ Visit(mem, Kid(1))
  BY <1>2, Building, Operating
<1>3. CASE At("Let", 1)
  <2> DEFINE m0 == SetDeduced(mem, Kid(2), Deduced(Kid(1)))
             m == Propagate(m0, Kid(3))
             f == [Top EXCEPT !.guards = Guard(NameOf(Kid(2)), Kid(2))]
  <2>1. VisitWith(m, f, Kid(3))
    BY <1>3 DEF VisitExprLet, At
  <2>2. Coming(B, Kid(3)) /\ Kid(2) \in Ids
    BY <1>1, <1>3, PatternedComing
  <2>3. Silent(Kid(2))
    <3>1. /\ This \in Ids /\ prog \in Programs /\ Kids = KidsOf(This) /\ KindOf(This) = "Let"
      BY <1>1, <1>3, TopSettled DEF Tracks, At, KindOf
    <3>2. KindOf(Kid(2)) = "PatternVar"
      BY <3>1, ProgramTree DEF Kid
    <3> QED BY <3>2 DEF Silent, PatternKinds
  <2>4. Sane(B, m0)
    BY <2>2, <2>3, Operating
  <2> HIDE DEF m0
  <2>5. Sane(B, m)
    BY <2>2, <2>4, Operating
  <2>6. Resumes(f)
    BY <1>1, Resuming
  <2> HIDE DEF m, f
  <2> QED BY <2>1, <2>5, <2>6, Building
<1>4. CASE At("Let", 2) /\ Return(Deduced(Kid(3)))
  BY <1>4, Building
<1> QED BY <1>2, <1>3, <1>4 DEF VisitExprLet

LEMMA FunctionTraces ==
  ASSUME NEW B, Underway(B), VisitFunction
  PROVE  Traced(B)
<1>1. TypeLaws /\ Inv /\ ~Done /\ Tracks(B) /\ KindOf(This) # "ParamDecl"
  BY DEF Underway
<1> USE Building
<1>2. CASE VisitDeclFun \/ VisitDeclFunGeneric
  <2>1. \A kind \in {"DeclFun", "DeclFunGeneric"} : kind \in FunctionKinds
    BY DEF FunctionKinds
  <2> QED BY <1>2, <2>1, DeclareFunctionTraces DEF VisitDeclFun, VisitDeclFunGeneric
<1>3. CASE VisitParamDecl
  BY <1>1, <1>3 DEF VisitParamDecl, Constant, At, KindOf
<1>4. CASE VisitExprAbstraction \/ VisitExprApplication \/ VisitExprFix \/ VisitExprLet
  BY <1>4, AbstractionTraces, ApplicationTraces, FixTraces, LetTraces
<1>5. CASE VisitExprVar
  <2>1. "ERROR_UNDEFINED_VARIABLE" # OK
    BY DEF OK
  <2> QED BY <1>5, <2>1, Operating DEF VisitExprVar
<1>6. CASE VisitExprTypeAsc
  <2>1. CASE At("TypeAsc", 0) /\ Visit(Expect(CheckType(mem, TypeArg), Kid(1), TypeArg), Kid(1))
    <3>1. Coming(B, Kid(1))
      BY <1>1, <2>1, UnaryComing
    <3>2. Sane(B, CheckType(mem, TypeArg))
      BY Operating
    <3>3. Sane(B, Expect(CheckType(mem, TypeArg), Kid(1), TypeArg))
      BY <3>1, <3>2, Operating
    <3> QED BY <2>1, <3>3
  <2> QED BY <1>6, <2>1 DEF VisitExprTypeAsc
<1>7. CASE VisitExprSequence
  <2>1. /\ At("Sequence", 0) => Coming(B, Kid(1))
        /\ At("Sequence", 1) => Coming(B, Kid(2))
    BY <1>1, BinaryComing
  <2>2. CASE At("Sequence", 0) /\ Visit(Expect(mem, Kid(1), Unit_), Kid(1))
    BY <2>1, <2>2, Operating
  <2>3. CASE At("Sequence", 1) /\ Visit(Propagate(mem, Kid(2)), Kid(2))
    BY <2>1, <2>3, Operating
  <2> QED BY <1>7, <2>2, <2>3 DEF VisitExprSequence
<1>8. CASE VisitExprConstUnit \/ VisitExprConstTrue \/ VisitExprConstFalse \/ VisitExprConstInt
  BY <1>8 DEF VisitExprConstUnit, VisitExprConstTrue, VisitExprConstFalse, VisitExprConstInt
<1>9. CASE VisitExprIf
  <2>1. /\ At("If", 0) => Coming(B, Kid(1))
        /\ At("If", 1) => Coming(B, Kid(2))
        /\ At("If", 2) => Coming(B, Kid(3))
    BY <1>1, TernaryComing
  <2>2. CASE At("If", 0) /\ Visit(Expect(mem, Kid(1), Bool_), Kid(1))
    BY <2>1, <2>2, Operating
  <2>3. CASE At("If", 1) /\ Visit(Propagate(mem, Kid(2)), Kid(2))
    BY <2>1, <2>3, Operating
  <2>4. CASE At("If", 2) /\ Visit(Expect(mem, Kid(3), Deduced(Kid(2))), Kid(3))
    BY <2>1, <2>4, Operating
  <2> QED BY <1>9, <2>2, <2>3, <2>4 DEF VisitExprIf
<1>10. CASE VisitExprIsZero \/ VisitExprSucc \/ VisitExprPred
  <2>1. ASSUME NEW kind \in {"IsZero", "Succ", "Pred"}, NEW s, NEW t, IsType(t), VisitOperator(kind, s, t)
        PROVE  Traced(B)
    <3>1. CASE At(kind, 0) /\ Visit(Expect(SetProvisional(mem, t), Kid(1), s), Kid(1))
      <4>1. Coming(B, Kid(1))
        BY <1>1, <3>1, UnaryComing
      <4>2. Sane(B, SetProvisional(mem, t))
        BY <2>1, <3>1, Beginning DEF At
      <4>3. Sane(B, Expect(SetProvisional(mem, t), Kid(1), s))
        BY <4>1, <4>2, Operating
      <4> QED BY <3>1, <4>3
    <3> QED BY <2>1, <3>1 DEF VisitOperator
  <2>2. IsType(Bool_) /\ IsType(Nat_)
    BY <1>1, Simple
  <2> QED BY <1>10, <2>1, <2>2 DEF VisitExprIsZero, VisitExprSucc, VisitExprPred
<1>11. CASE VisitExprNatRec
  <2>1. /\ At("NatRec", 0) => Coming(B, Kid(1))
        /\ At("NatRec", 1) => Coming(B, Kid(2))
        /\ At("NatRec", 2) => Coming(B, Kid(3))
    BY <1>1, TernaryComing
  <2>2. CASE At("NatRec", 0) /\ Visit(Expect(mem, Kid(1), Nat_), Kid(1))
    BY <2>1, <2>2, Operating
  <2>3. CASE /\ At("NatRec", 1)
             /\ Visit(IF Expects("Fun") THEN mem ELSE Propagate(mem, Kid(2)), Kid(2))
    BY <2>1, <2>3, Operating
  <2>4. CASE At("NatRec", 2)
    <3> DEFINE m == ExpectType(mem, Kid(3), EqualsToOr(StepType(Deduced(Kid(2))), MISMATCH))
    <3>1. Visit(m, Kid(3))
      BY <1>11, <2>4 DEF VisitExprNatRec, At
    <3>2. Sane(B, m)
      BY <2>1, <2>4, Operating
    <3> HIDE DEF m
    <3> QED BY <3>1, <3>2
  <2> QED BY <1>11, <2>2, <2>3, <2>4 DEF VisitExprNatRec
<1>12. CASE VisitExprTypeAbstraction
  <2> DEFINE m == SetProvisional(mem, Sentinel_("ForAll"))
             f == [Top EXCEPT !.tvs = Node(This).labs]
  <2>1. CASE At("TypeAbstraction", 0) /\ VisitWith(m, f, Kid(1))
    <3>1. Sane(B, m)
      BY <1>1, <2>1, Simple, Beginning DEF At
    <3>2. Resumes(f)
      BY <1>1, Resuming
    <3> HIDE DEF m, f
    <3> QED BY <2>1, <3>1, <3>2
  <2> QED BY <1>12, <2>1 DEF VisitExprTypeAbstraction
<1>13. CASE VisitExprTypeApplication
  <2> DEFINE m == ExpectType(mem, Kid(1), EqualsToOr(Sentinel_("ForAll"), "ERROR_NOT_A_GENERIC_FUNCTION"))
             t == Deduced(Kid(1))
             args == Node(This).types
             r == Substitute(t.args[1], t.lab, args)
             n == Raise(mem, TypesError(args, tvars))
  <2>1. CASE At("TypeApplication", 0) /\ Visit(m, Kid(1))
    <3>1. Coming(B, Kid(1))
      BY <1>1, <2>1, UnaryComing
    <3>2. Sane(B, m)
      BY <3>1, Operating
    <3> HIDE DEF m
    <3> QED BY <2>1, <3>2
  <2>2. Sane(B, n)
    BY Operating
  <2>3. /\ "ERROR_NOT_A_GENERIC_FUNCTION" # OK /\ CRASH # OK
        /\ "ERROR_INCORRECT_NUMBER_OF_TYPE_ARGUMENTS" # OK
    BY DEF OK, CRASH
  <2>4. CASE At("TypeApplication", 1) /\ \/ Throw(IF t = None_ THEN CRASH ELSE "ERROR_NOT_A_GENERIC_FUNCTION")
                                         \/ Throw("ERROR_INCORRECT_NUMBER_OF_TYPE_ARGUMENTS")
                                         \/ ReturnFrom(n, r)
    <3> HIDE DEF n, r, t
    <3> QED BY <2>2, <2>3, <2>4
  <2> QED BY <1>13, <2>1, <2>4 DEF VisitExprTypeApplication
<1> QED BY <1>2, <1>3, <1>4, <1>5, <1>6, <1>7, <1>8, <1>9, <1>10, <1>11, <1>12, <1>13 DEF VisitFunction

LEMMA ProgramTraces ==
  ASSUME NEW B, Underway(B), VisitProgram
  PROVE  Traced(B)
<1>1. Inv /\ ~Done /\ Sane(B, mem)
  BY Operating DEF Underway
<1>2. "ERROR_DUPLICATE_FUNCTION_DECLARATION" # OK /\ "ERROR_MISSING_MAIN" # OK
  BY DEF OK
<1>3. \A g : Resumes([Top EXCEPT !.guards = g])
  BY <1>1, Resuming
<1>4. CASE VisitWith(mem, [Top EXCEPT !.guards = Hoisted], Kid(1))
  BY <1>1, <1>3, <1>4, Building
<1> QED BY <1>1, <1>2, <1>4, Building DEF VisitProgram
LEMMA AnyComing ==
  ASSUME Inv, NEW B, Tracks(B), NEW kind \in {"List", "Tuple", "Record", "Variant"},
         NEW i \in Positions, At(kind, i - 1)
  PROVE  Coming(B, Kid(i))
<1>1. ~Done /\ KindOf(This) = kind /\ Top.pc = i - 1 /\ i \in DOMAIN Kids
  BY DEF At, KindOf, Positions
<1>2. kind \notin Flat \cup Patterned \cup {"Match"} \cup PatternKinds \cup FunctionKinds \cup {"Program"}
  BY DEF Flat, Binders, FunctionKinds, Patterned, PatternKinds
<1>3. Passed(This, Top.pc) = i - 1
  BY <1>1, <1>2, PassedValues
<1>4. i \in Nat
  <2>1. DOMAIN Kids = 1..Len(Kids) /\ Len(Kids) \in Nat
    BY <1>1, TopSettled DEF Tracks
  <2> QED BY <1>1, <2>1
<1>5. ~IsFunction(This) /\ Passed(This, Top.pc) < i
  BY <1>1, <1>2, <1>3, <1>4, Kinds
<1> QED BY <1>1, <1>2, <1>5, KidComing

LEMMA ListTraces ==
  ASSUME NEW B, Underway(B), VisitExprList
  PROVE  Traced(B)
<1> DEFINE hint == IF Expects("List") THEN Part(Expected, 1) ELSE None_
           m == Entry(SetProvisional(mem, Sentinel_("List")))
           elem == IF Top.pc = 0 THEN hint ELSE FirstType(Deduced(Kid(Top.pc)))
           f == [Top EXCEPT !.result = elem]
<1>1. TypeLaws /\ Inv /\ Tracks(B)
  BY DEF Underway
<1>2. Sane(B, m)
  BY <1>1, Simple, Beginning
<1>3. Resumes(f)
  BY Building, Resuming
<1>4. \/ \E i \in Positions :
           At("List", i - 1) /\ VisitWith(IF elem = None_ THEN m ELSE Expect(m, Kid(i), elem), f, Kid(i))
      \/ AmbiguousFrom(m, List_(Bot_), "ERROR_AMBIGUOUS_LIST")
      \/ ReturnFrom(m, Built(List_(elem)))
  BY DEF VisitExprList
<1> HIDE DEF m, elem, f
<1>5. ASSUME NEW i \in Positions, At("List", i - 1),
             VisitWith(IF elem = None_ THEN m ELSE Expect(m, Kid(i), elem), f, Kid(i))
      PROVE  Traced(B)
  <2>1. Coming(B, Kid(i))
    BY <1>1, <1>5, AnyComing
  <2>2. Sane(B, Expect(m, Kid(i), elem))
    BY <1>2, <2>1, Operating
  <2> QED BY <1>2, <1>3, <1>5, <2>2, Building
<1> QED BY <1>2, <1>4, <1>5, Building

LEMMA ConsListTraces ==
  ASSUME NEW B, Underway(B), VisitExprConsList
  PROVE  Traced(B)
<1> DEFINE hint == IF Concrete("List") THEN Part(Expected, 1) ELSE None_
           Listed(m, t) == Expect(m, Kid(2), Built(List_(t)))
           list_type == Built(List_(IF hint = None_ THEN Deduced(Kid(1)) ELSE hint))
<1>1. TypeLaws /\ Inv /\ Tracks(B)
  BY DEF Underway
<1>2. /\ At("ConsList", 0) => Coming(B, Kid(1)) /\ Coming(B, Kid(2))
      /\ At("ConsList", 1) => Coming(B, Kid(2))
  BY <1>1, BinaryComing
<1> HIDE DEF hint, list_type
<1>3. CASE At("ConsList", 0)
  <2> DEFINE m0 == SetProvisional(mem, Sentinel_("List"))
             m == Expect(m0, Kid(2), Sentinel_("List"))
             m1 == Expect(m, Kid(1), hint)
  <2>1. Visit(IF hint = None_ THEN m ELSE Listed(m1, hint), Kid(1))
    BY <1>3 DEF VisitExprConsList, At, hint
  <2>2. Sane(B, m0)
    BY <1>1, <1>3, Simple, Beginning DEF At
  <2> HIDE DEF m0
  <2>3. Sane(B, m)
    BY <1>2, <1>3, <2>2, Operating
  <2> HIDE DEF m
  <2>4. Sane(B, m1)
    BY <1>2, <1>3, <2>3, Operating
  <2> HIDE DEF m1
  <2>5. Sane(B, Listed(m1, hint))
    BY <1>2, <1>3, <2>4, Operating
  <2> QED BY <2>1, <2>3, <2>5, Building
<1>4. CASE At("ConsList", 1)
  <2>1. Visit(IF hint = None_ THEN Listed(mem, Deduced(Kid(1))) ELSE mem, Kid(2))
    BY <1>4 DEF VisitExprConsList, At, hint
  <2>2. Sane(B, mem) /\ Sane(B, Listed(mem, Deduced(Kid(1))))
    BY <1>2, <1>4, Operating
  <2> QED BY <2>1, <2>2, Building
<1>5. CASE At("ConsList", 2)
  <2>1. Throw(INTERNAL) \/ ReturnFrom(Infer(Deduced(Kid(2)), list_type, 0), list_type)
    BY <1>5 DEF VisitExprConsList, At, hint, list_type
  <2>2. Sane(B, Infer(Deduced(Kid(2)), list_type, 0))
    BY Operating
  <2>3. INTERNAL # OK
    BY DEF INTERNAL, OK
  <2> QED BY <2>1, <2>2, <2>3, Building
<1> QED BY <1>3, <1>4, <1>5 DEF VisitExprConsList

LEMMA OnListTraces ==
  ASSUME NEW B, Underway(B), NEW kind \in {"Head", "Tail"}, NEW e, NEW t, OnList(kind, e, t)
  PROVE  Traced(B)
<1>1. At(kind, 0) => Coming(B, Kid(1))
  BY UnaryComing DEF Underway
<1>2. CASE At(kind, 0) /\ Visit(Expect(mem, Kid(1), e), Kid(1))
  BY <1>1, <1>2, Operating, Building
<1>3. CASE Throw(INTERNAL) \/ \E s, new : ReturnFrom(Infer(s, new, 1), t)
  <2>1. INTERNAL # OK
    BY DEF INTERNAL, OK
  <2> QED BY <1>3, <2>1, Operating, Building
<1> QED BY <1>2, <1>3 DEF OnList

LEMMA TupleTraces ==
  ASSUME NEW B, Underway(B), VisitExprTuple
  PROVE  Traced(B)
<1> DEFINE ts == [j \in DOMAIN Kids |-> Unknown_]
           m0 == SetProvisional(mem, Sentinel_("Tuple"))
           m1 == SetProvisional(m0, Tuple_(ts))
           m == Entry(m1)
           K == Kept(B, mem.deduced, frames)
<1>1. TypeLaws /\ ReferenceLaws /\ Inv /\ ~Done /\ Tracks(B)
  BY DEF Underway
<1>2. KindOf(This) = "Tuple" /\ ~Silent(This) /\ KindOf(This) # "ParamDecl"
  <2>1. KindOf(This) = "Tuple"
    BY DEF VisitExprTuple, At, KindOf
  <2> QED BY <2>1, Kinds DEF Silent, PatternKinds, FunctionKinds
<1>3. /\ This \in Ids /\ This \in B /\ IsType(Expected) /\ OnBegun(B, K) /\ Linked(B, K, mem)
      /\ Slot("expected", This) \in K /\ (Top.pc = 0 => Slot("provisional", This) \notin K)
  BY <1>1, <1>2, Outset DEF Underway
<1>4. K \subseteq Provided(B) /\ Slot("provisional", This) \in Provided(B)
  BY <1>2 DEF Provided
<1>5. IsType(Sentinel_("Tuple")) /\ \A p \in PartsOf(Sentinel_("Tuple")) : Placeholder(p)
  <2>1. IsType(Sentinel_("Tuple")) /\ PartsOf(Sentinel_("Tuple")) = {Sentinel_("Tuple")}
    <3> DEFINE t == Sentinel_("Tuple")
    <3>1. t.args = <<>> /\ IsType(t)
      BY <1>1, Simple DEF Sentinel_, Term
    <3> HIDE DEF t
    <3>2. DOMAIN t.args = {}
      BY <3>1
    <3>3. Below(t) = {} /\ PartsOf(t) = {t} \cup Below(t)
      BY <1>1, <3>1, <3>2 DEF Below, ReferenceLaws, PartsLaw
    <3>4. IsType(t) /\ PartsOf(t) = {t}
      BY <3>1, <3>3
    <3> QED BY <3>4 DEF t
  <2> QED BY <2>1 DEF Placeholder
<1>6. IsType(Tuple_(ts))
  <2>1. /\ Len(Kids) \in Nat /\ DOMAIN Kids = 1..Len(Kids)
    BY <1>1, TopSettled DEF Tracks
  <2>2. Indexed(ts) /\ \A i \in DOMAIN ts : Known(ts[i])
    BY <1>1, <2>1, KnownTypes DEF Indexed
  <2> HIDE DEF ts
  <2>3. Known(Tuple_(ts))
    BY <1>1, <2>2, KnownTypes
  <2> QED BY <2>3 DEF Known, Fits, Within
<1> HIDE DEF K, ts
<1>7. Top.pc = 0 => Linked(B, K, m0)
  BY <1>1, <1>2, <1>3, <1>5, SetLinks
<1> HIDE DEF m0
<1>8. Top.pc = 0 => Linked(B, Provided(B), m1)
  BY <1>1, <1>2, <1>3, <1>4, <1>6, <1>7, SetLinks
<1> HIDE DEF m1
<1>9. Sane(B, m)
  BY <1>8, Operating DEF Sane, Entry
<1>10. \/ \E i \in Positions :
           At("Tuple", i - 1)
           /\ Visit(IF Concrete("Tuple") /\ i <= Len(Expected.args)
                    THEN Expect(m, Kid(i), Expected.args[i]) ELSE m, Kid(i))
       \/ ReturnFrom(m, Tuple_(KidTypes))
  BY DEF VisitExprTuple, m, m1, m0, ts
<1> HIDE DEF m
<1>11. ASSUME NEW i \in Positions, At("Tuple", i - 1),
              Visit(IF Concrete("Tuple") /\ i <= Len(Expected.args)
                    THEN Expect(m, Kid(i), Expected.args[i]) ELSE m, Kid(i))
       PROVE  Traced(B)
  <2>1. Coming(B, Kid(i))
    BY <1>1, <1>11, AnyComing
  <2>2. Sane(B, Expect(m, Kid(i), Expected.args[i]))
    BY <1>9, <2>1, Operating
  <2> QED BY <1>9, <1>11, <2>2, Building
<1> QED BY <1>9, <1>10, <1>11, Building

LEMMA RecordTraces ==
  ASSUME NEW B, Underway(B), VisitExprRecord
  PROVE  Traced(B)
<1> DEFINE ls == Node(This).labs
           ts == [i \in DOMAIN ls |-> Unknown_]
           shape == Record_(ls, ts)
           m0 == SetProvisional(mem, Sentinel_("Record"))
           m1 == Raise(m0, Incompatible(shape, Expected))
           to == Slot("expected", This)
           m2 == IF Repeated(ls) THEN Raise(m0, "ERROR_DUPLICATE_RECORD_FIELDS")
                 ELSE IF ~Concrete("Record") THEN m0
                 ELSE Emit(m1, shape, Nowhere, Expected, to)
           m == Entry(m2)
           V == Provided(B)
<1>1. TypeLaws /\ ReferenceLaws /\ Inv /\ Owning /\ ~Done /\ Tracks(B)
  BY DEF Underway
<1>2. KindOf(This) = "Record" /\ Node(This).kind = "Record" /\ ~Silent(This) /\ \E pc : At("Record", pc)
  <2>1. KindOf(This) = "Record" /\ Node(This).kind = "Record" /\ \E pc : At("Record", pc)
    BY DEF VisitExprRecord, At, KindOf
  <2> QED BY <2>1, Kinds DEF Silent, PatternKinds, FunctionKinds
<1>3. This \in Ids /\ prog \in Programs /\ IsType(Expected) /\ to \in V
  BY <1>1, <1>2, Outset DEF Provided
<1>4. IsType(shape) /\ shape.tag = "Record" /\ shape.args = ts
  <2>1. Len(Kids) \in Nat /\ DOMAIN Kids = 1..Len(Kids)
    BY <1>1, <1>2, AnyMembers
  <2>2. Indexed(ls)
    <3>1. WellBuilt(prog)
      BY <1>3, GrammarAssumption
    <3>2. DOMAIN ls = DOMAIN Kids
      BY <1>2, <1>3, <3>1, Zenon DEF WellBuilt, Ids, Node, Kids
    <3> HIDE DEF ls
    <3>3. DOMAIN ls = 1..Len(Kids)
      BY <2>1, <3>2
    <3> QED BY <2>1, <3>2, <3>3 DEF Indexed
  <2>3. DOMAIN ls = DOMAIN ts /\ \A i \in DOMAIN ts : Known(ts[i])
    BY <1>1, KnownTypes
  <2> HIDE DEF ls, ts
  <2>4. Known(Record_(ls, ts))
    BY <1>1, <2>2, <2>3, KnownTypes
  <2> QED BY <2>4 DEF Known, Fits, Within, Record_, Term
<1>5. ASSUME Top.pc = 0 PROVE Sane(B, m2)
  <2>1. Sane(B, m0)
    BY <1>1, <1>5, Simple, Beginning
  <2> HIDE DEF m0, shape, to
  <2>2. Sane(B, m1) /\ Sane(B, Raise(m0, "ERROR_DUPLICATE_RECORD_FIELDS"))
    BY <2>1, Operating
  <2> HIDE DEF m1
  <2>3. ASSUME Concrete("Record") PROVE Sane(B, Emit(m1, shape, Nowhere, Expected, to))
    <3>1. CASE m1.raised # OK
      BY <2>2, <3>1, ThrownStays
    <3>2. CASE m1.raised = OK
      <4>1. Expected.tag = "Record"
        BY <2>3 DEF Concrete, Expects, Family
      <4>2. ~IsAuto(shape) /\ ~IsAuto(Expected)
        BY <1>4, <4>1 DEF IsAuto
      <4>3. Linked(B, V, m1) /\ m1.expected[This].type = Expected
        BY <2>2, <3>2 DEF Sane, Linked
      <4> HIDE DEF V
      <4>4. ASSUME NEW p \in Below(shape) PROVE Anchored(V, m1, p, Nowhere)
        <5>1. PICK i \in DOMAIN ts : p \in PartsOf(ts[i])
          BY <1>4, <4>4 DEF Below
        <5>2. p \in PartsOf(Unknown_)
          BY <5>1
        <5>3. IsType(Unknown_) /\ Unknown_.args = <<>>
          BY <1>1, Simple DEF Unknown_, Leaf, Term
        <5>4. PartsOf(Unknown_) = {Unknown_} \cup Below(Unknown_) /\ DOMAIN Unknown_.args = {}
          BY <1>1, <5>3 DEF ReferenceLaws, PartsLaw
        <5>5. p = Unknown_
          BY <5>2, <5>4 DEF Below
        <5> QED BY <5>5 DEF Anchored, Placeholder
      <4>5. ASSUME NEW p \in PartsOf(Expected) PROVE Anchored(V, m1, p, to)
        <5>1. ContentIn(m1, to) = Expected
          BY <4>3 DEF ContentIn, to, Slot
        <5> QED BY <1>3, <4>5, <5>1 DEF Anchored
      <4>6. /\ \A p \in PartsOf(shape) :
                 (IsAuto(shape) \/ IsAuto(Expected) \/ p \in Below(shape)) => Anchored(V, m1, p, Nowhere)
            /\ \A p \in PartsOf(Expected) : Anchored(V, m1, p, to)
        BY <4>2, <4>4, <4>5
      <4>7. Linked(B, V, Emit(m1, shape, Nowhere, Expected, to))
        BY <1>1, <1>3, <1>4, <4>3, <4>6, EmitLinks
      <4> QED BY <4>7 DEF Sane, V
    <3> QED BY <3>1, <3>2
  <2> QED BY <2>1, <2>2, <2>3
<1> HIDE DEF m2
<1>6. Sane(B, m)
  BY <1>5, Operating DEF Entry
<1>7. \/ \E i \in Positions :
           LET j == IF Concrete("Record") THEN FieldAt(Expected.lab, ls[i]) ELSE 0 IN
           /\ At("Record", i - 1)
           /\ Visit(IF j = 0 THEN m ELSE Expect(m, Kid(i), Expected.args[j]), Kid(i))
      \/ ReturnFrom(m, Record_(ls, KidTypes))
  BY DEF VisitExprRecord, m2
<1> HIDE DEF m
<1>8. ASSUME NEW i \in Positions, NEW j, At("Record", i - 1),
             Visit(IF j = 0 THEN m ELSE Expect(m, Kid(i), Expected.args[j]), Kid(i))
      PROVE  Traced(B)
  <2>1. Coming(B, Kid(i))
    BY <1>1, <1>8, AnyComing
  <2>2. Sane(B, Expect(m, Kid(i), Expected.args[j]))
    BY <1>6, <2>1, Operating
  <2> QED BY <1>6, <1>8, <2>2, Building
<1> QED BY <1>6, <1>7, <1>8, Building

LEMMA InjectTraces ==
  ASSUME NEW B, Underway(B), NEW kind \in {"Inl", "Inr"}, NEW side, Inject(kind, side)
  PROVE  Traced(B)
<1> DEFINE m0 == SetProvisional(mem, Sentinel_("Sum"))
           m == IF Concrete("Sum") THEN Expect(m0, Kid(1), Expected.args[side]) ELSE m0
<1>1. At(kind, 0) => Coming(B, Kid(1)) /\ Sane(B, m0)
  <2>1. TypeLaws /\ Inv /\ Tracks(B)
    BY DEF Underway
  <2> HIDE DEF m0
  <2>2. At(kind, 0) => Coming(B, Kid(1))
    BY <2>1, UnaryComing
  <2>3. At(kind, 0) => Sane(B, m0)
    BY <2>1, Simple, Beginning DEF At, m0
  <2> QED BY <2>2, <2>3
<1>2. CASE At(kind, 0) /\ Visit(m, Kid(1))
  <2> HIDE DEF m0
  <2>1. Sane(B, m)
    BY <1>1, <1>2, Operating
  <2> QED BY <1>2, <2>1, Building
<1>3. CASE (\E t : Return(t)) \/ \E t, code : AmbiguousFrom(mem, t, code)
  BY <1>3, Operating, Building
<1> QED BY <1>2, <1>3 DEF Inject

LEMMA VariantTraces ==
  ASSUME NEW B, Underway(B), VisitExprVariant
  PROVE  Traced(B)
<1> DEFINE known == Concrete("Variant")
           i == IF known THEN FieldAt(Expected.lab, Lab) ELSE 0
           m0 == SetProvisional(mem, Sentinel_("Variant"))
           m1 == Raise(m0, IF known /\ i = 0 THEN VARIANT_LABEL ELSE OK)
           m == Entry(m1)
           r == IF i = 0 THEN m ELSE IF Expected.args[i] = None_ THEN m ELSE Expect(m, Kid(1), Expected.args[i])
<1>1. TypeLaws /\ Inv /\ ~Done /\ Tracks(B)
  BY DEF Underway
<1>2. Top.pc = 0 => Sane(B, m0)
  BY <1>1, Simple, Beginning
<1> HIDE DEF m0
<1>3. Top.pc = 0 => Sane(B, m1)
  BY <1>2, Operating
<1> HIDE DEF m1
<1>4. Sane(B, m)
  BY <1>3, Operating DEF Entry
<1>5. \/ At("Variant", 0) /\ Kids # <<>> /\ Visit(r, Kid(1))
      \/ ReturnFrom(m, Expected)
      \/ AmbiguousFrom(m, Bot_, "ERROR_AMBIGUOUS_VARIANT_TYPE")
  BY DEF VisitExprVariant, m1, m0
<1> HIDE DEF m
<1>6. CASE At("Variant", 0) /\ Kids # <<>> /\ Visit(r, Kid(1))
  <2>1. 1 \in Positions
    BY <1>1, <1>6, TopSettled DEF Positions, Tracks
  <2>2. Coming(B, Kid(1))
    BY <1>1, <1>6, <2>1, AnyComing
  <2>3. Sane(B, r)
    BY <1>4, <2>2, Operating
  <2> QED BY <1>6, <2>3, Building
<1> QED BY <1>4, <1>5, <1>6, Building

LEMMA PatternCastTraces ==
  ASSUME NEW B, Underway(B), VisitPatternCastAs
  PROVE  Traced(B)
<1> DEFINE t == TypeArg
           m == CheckType(mem, t)
           r == IF IsVar(Kid(1)) THEN SetDeduced(m, Kid(1), t) ELSE m
<1>1. Inv /\ ~Done /\ Tracks(B) /\ KindOf(This) = "PatternCastAs"
  BY DEF Underway, VisitPatternCastAs, At, KindOf
<1>2. Kid(1) \in Ids
  BY <1>1, CastKid, TopSettled DEF Tracks, Kid
<1>3. Sane(B, m)
  BY Operating
<1> HIDE DEF m
<1>4. IsVar(Kid(1)) => Silent(Kid(1))
  BY DEF IsVar, Silent, KindOf, PatternKinds
<1>5. Sane(B, r)
  BY <1>2, <1>3, <1>4, Operating
<1>6. ReturnFrom(r, t)
  BY DEF VisitPatternCastAs, m
<1> QED BY <1>5, <1>6, Building

LEMMA MatchArmTraces ==
  ASSUME NEW B, Underway(B), NEW k \in Positions, At("Match", k), k <= ArmCount,
         NEW b, b = Binding(Pattern(k)), VisitMatchArm(k, b)
  PROVE  Traced(B)
<1> DEFINE bound == b.var # 0 /\ b.type # None_
           first == IF k = 1 THEN None_ ELSE FirstType(Deduced(ArmExpr(k - 1)))
           m0 == IF bound THEN SetDeduced(mem, b.var, b.type) ELSE mem
           m1 == IF first = None_ THEN m0 ELSE Expect(m0, ArmExpr(k), first)
           m2 == Propagate(m1, ArmExpr(k))
           g == IF bound THEN Guard(NameOf(b.var), b.var) ELSE NoGuards
           h == [Top EXCEPT !.guards = g]
           f == [h EXCEPT !.result = first]
           j == 2 * k + 1
<1>1. Inv /\ ~Done /\ Tracks(B) /\ Visiting /\ mem.raised = OK
  BY DEF Underway, Tracks, Visiting
<1>2. VisitWith(m2, f, ArmExpr(k))
  BY DEF VisitMatchArm
<1>3. b.var # 0 => b.var \in Ids /\ Silent(b.var)
  <2>1. b.var # 0 => b.var \in Ids /\ KindOf(b.var) = "PatternVar"
    BY <1>1, BoundVariable
  <2> QED BY <2>1 DEF Silent, PatternKinds
<1>4. Coming(B, ArmExpr(k))
  <2>1. /\ KindOf(This) = "Match" /\ ~IsFunction(This) /\ k \in Nat /\ j \in DOMAIN Kids
        /\ Passed(This, k) = IF Mode = "cast" THEN 2 * k ELSE 2 * k - 1
    BY <1>1, ArmsOf
  <2>2. Top.pc = k /\ ArmExpr(k) = Kid(j)
    BY DEF At, ArmExpr
  <2>3. Passed(This, Top.pc) < j /\ j % 2 # 0
    BY <2>1, <2>2
  <2>4. KindOf(This) \notin PatternKinds \cup {"Program"} \cup Patterned
    BY <2>1 DEF PatternKinds, Patterned
  <2> HIDE DEF j
  <2> QED BY <1>1, <2>1, <2>2, <2>3, <2>4, KidComing
<1>5. Resumes(f)
  BY Building, Resuming
<1> HIDE DEF f, first
<1>6. Sane(B, m0)
  BY <1>3, Operating
<1> HIDE DEF m0
<1>7. Sane(B, m1)
  BY <1>4, <1>6, Operating
<1> HIDE DEF m1
<1>8. Sane(B, m2)
  BY <1>4, <1>7, Operating
<1> HIDE DEF m2
<1> QED BY <1>2, <1>5, <1>8, Building

LEMMA MatchTraces ==
  ASSUME NEW B, Underway(B), VisitExprMatch
  PROVE  Traced(B)
<1>1. Inv /\ ~Done /\ Tracks(B)
  BY DEF Underway
<1>2. /\ "ERROR_ILLEGAL_EMPTY_MATCHING" # OK /\ UNEXPECTED_PATTERN # OK
      /\ "ERROR_NONEXHAUSTIVE_MATCH_PATTERNS" # OK
  BY DEF OK, UNEXPECTED_PATTERN
<1>3. ASSUME NEW k \in Positions, At("Match", k), k <= ArmCount, VisitCase(k)
      PROVE  Traced(B)
  <2>1. \/ Binding(Pattern(k)).error # OK /\ Throw(Binding(Pattern(k)).error)
        \/ VisitWith(mem, [Top EXCEPT !.guards = NoGuards, !.pc = k - 1], Pattern(k))
        \/ VisitMatchArm(k, Binding(Pattern(k)))
    BY <1>3, Zenon DEF VisitCase
  <2>2. CASE VisitWith(mem, [Top EXCEPT !.guards = NoGuards, !.pc = k - 1], Pattern(k))
    <3> DEFINE h == [Top EXCEPT !.guards = NoGuards]
               f == [h EXCEPT !.pc = k - 1]
    <3>1. VisitWith(mem, f, Pattern(k))
      BY <2>2
    <3>2. k - 1 \in Nat
      <4>1. k \in Nat /\ k > 0
        BY <1>1, <1>3, ArmsOf
      <4> QED BY <4>1
    <3>3. Resumes(h)
      BY Building, Resuming
    <3> HIDE DEF h
    <3>4. Resumes(f)
      BY <3>2, <3>3, Resuming
    <3> HIDE DEF f
    <3> QED BY <3>1, <3>4, Operating, Building
  <2>3. CASE VisitMatchArm(k, Binding(Pattern(k)))
    BY <1>3, <2>3, MatchArmTraces
  <2> QED BY <2>1, <2>2, <2>3, Building
<1>4. CASE \/ At("Match", 0) /\ (Throw("ERROR_ILLEGAL_EMPTY_MATCHING") \/ Visit(mem, Kid(1)))
           \/ Throw(UNEXPECTED_PATTERN) \/ Throw("ERROR_NONEXHAUSTIVE_MATCH_PATTERNS") \/ \E t : Return(t)
  BY <1>2, <1>4, Operating, Building
<1> QED BY <1>3, <1>4 DEF VisitExprMatch

LEMMA DataTraces ==
  ASSUME NEW B, Underway(B), VisitData
  PROVE  Traced(B)
<1>1. TypeLaws /\ Inv /\ Tracks(B)
  BY DEF Underway
<1>2. /\ INTERNAL # OK /\ "ERROR_NOT_A_TUPLE" # OK /\ UNDEFINED_BEHAVIOUR # OK
      /\ "ERROR_TUPLE_INDEX_OUT_OF_BOUNDS" # OK /\ "ERROR_UNEXPECTED_FIELD_ACCESS" # OK
  BY DEF INTERNAL, OK, UNDEFINED_BEHAVIOUR
<1>3. CASE VisitExprList \/ VisitExprConsList \/ VisitExprTuple \/ VisitExprRecord
           \/ VisitExprVariant \/ VisitExprMatch \/ VisitPatternCastAs
  BY <1>3, ListTraces, ConsListTraces, TupleTraces, RecordTraces, VariantTraces, MatchTraces, PatternCastTraces
<1>4. CASE VisitExprHead \/ VisitExprTail
  BY <1>4, OnListTraces DEF VisitExprHead, VisitExprTail
<1>5. CASE VisitExprIsEmpty
  <2> DEFINE m0 == SetProvisional(mem, Bool_)
             m == Expect(m0, Kid(1), Sentinel_("List"))
  <2>1. CASE At("IsEmpty", 0) /\ Visit(m, Kid(1))
    <3>1. Sane(B, m0)
      BY <1>1, <2>1, Simple, Beginning DEF At
    <3>2. Coming(B, Kid(1))
      BY <1>1, <2>1, UnaryComing
    <3> HIDE DEF m0
    <3>3. Sane(B, m)
      BY <3>1, <3>2, Operating
    <3> QED BY <2>1, <3>3, Building
  <2> QED BY <1>5, <2>1, Building DEF VisitExprIsEmpty
<1>6. CASE VisitExprDotTuple \/ VisitExprDotRecord
  <2>1. \A kind \in {"DotTuple", "DotRecord"} : At(kind, 0) => Coming(B, Kid(1))
    BY <1>1, UnaryComing
  <2>2. \A kind \in {"DotTuple", "DotRecord"} : \A t : At(kind, 0) /\ Visit(Expect(mem, Kid(1), t), Kid(1)) => Traced(B)
    BY <2>1, Operating, Building
  <2>3. CASE VisitExprDotTuple
    <3>1. \/ \E t : At("DotTuple", 0) /\ Visit(Expect(mem, Kid(1), t), Kid(1))
          \/ Throw("ERROR_NOT_A_TUPLE") \/ Throw(UNDEFINED_BEHAVIOUR) \/ Throw("ERROR_TUPLE_INDEX_OUT_OF_BOUNDS")
          \/ \E s, new, t : ReturnFrom(Infer(s, new, 2), t)
      BY <2>3, Zenon DEF VisitExprDotTuple
    <3> QED BY <1>2, <2>2, <3>1, Operating, Building
  <2>4. CASE VisitExprDotRecord
    <3>1. \/ \E t : At("DotRecord", 0) /\ Visit(Expect(mem, Kid(1), t), Kid(1))
          \/ Throw(INTERNAL) \/ Throw(UNDEFINED_BEHAVIOUR) \/ Throw("ERROR_UNEXPECTED_FIELD_ACCESS")
          \/ \E t : Return(t)
      BY <2>4, Zenon DEF VisitExprDotRecord
    <3> QED BY <1>2, <2>2, <3>1, Building
  <2> QED BY <1>6, <2>3, <2>4
<1>7. CASE VisitExprInl \/ VisitExprInr
  BY <1>7, InjectTraces DEF VisitExprInl, VisitExprInr
<1> QED BY <1>3, <1>4, <1>5, <1>6, <1>7 DEF VisitData

LEMMA TryTraces ==
  ASSUME NEW B, Underway(B), VisitExprTryCatch \/ VisitExprTryCastAs
  PROVE  Traced(B)
<1>1. /\ Inv /\ ~Done /\ Tracks(B) /\ mem.raised = OK
      /\ "TryCatch" \in Patterned /\ "TryCastAs" \in Patterned
  BY DEF Underway, Patterned
<1>2. Resumes(Bound) /\ Resumes([Top EXCEPT !.guards = NoGuards])
  BY <1>1, Resuming DEF Bound
<1>3. /\ At("TryCatch", 1) \/ At("TryCastAs", 1) => Coming(B, Kid(3)) /\ Kid(2) \in Ids
      /\ At("TryCastAs", 1) \/ At("TryCastAs", 2) => Coming(B, Kid(4))
      /\ At("TryCatch", 0) => Coming(B, Kid(1))
  BY <1>1, PatternedComing
<1>4. NOT_DECLARED # OK
  BY DEF NOT_DECLARED, OK
<1> DEFINE m0 == Raise(mem, BadPatternUnless(VarPattern))
<1>5. Sane(B, m0) /\ (VarPattern => Silent(Kid(2))) /\ (~VarPattern => m0.raised # OK)
  <2>1. VarPattern => Silent(Kid(2))
    BY DEF VarPattern, Silent, KindOf, PatternKinds
  <2>2. ASSUME ~VarPattern PROVE m0.raised # OK
    <3> DEFINE code == BadPatternUnless(VarPattern)
    <3>1. code # OK
      BY <2>2 DEF BadPatternUnless, OK
    <3>2. Store(mem)
      BY <1>1 DEF Tracks, Tied
    <3> HIDE DEF code
    <3>3. Raise(mem, code).raised = code
      BY <1>1, <3>2 DEF Raise, Store
    <3> QED BY <3>1, <3>3 DEF code
  <2>3. Sane(B, m0)
    <3> HIDE DEF m0
    <3> QED BY Operating DEF m0
  <2> QED BY <2>1, <2>2, <2>3
<1> HIDE DEF m0
<1>6. ASSUME NEW m, Sane(B, m), ~VarPattern => m.raised # OK, Kid(2) \in Ids, NEW t
      PROVE  Sane(B, SetDeduced(m, Kid(2), t))
  BY <1>5, <1>6, Operating, ThrownStays
<1>7. CASE At("TryCatch", 1) /\ VisitExprTryCatch
  <2> DEFINE m == SetDeduced(m0, Kid(2), exn.type)
             r == Expect(m, Kid(3), Deduced(Kid(1)))
  <2>1. Sane(B, m)
    BY <1>3, <1>5, <1>6, <1>7
  <2>2. VisitWith(r, Bound, Kid(3))
    BY <1>7 DEF VisitExprTryCatch, At, m0
  <2> HIDE DEF m
  <2>3. Sane(B, r)
    BY <1>3, <1>7, <2>1, Operating
  <2> HIDE DEF r
  <2> QED BY <1>2, <2>2, <2>3, Building
<1>8. CASE At("TryCastAs", 1) /\ VisitExprTryCastAs
  <2> DEFINE m1 == Propagate(m0, Kid(3))
             m2 == Propagate(m1, Kid(4))
             m == SetDeduced(m2, Kid(2), TypeArg)
  <2>1. VisitWith(m, Bound, Kid(3))
    BY <1>8 DEF VisitExprTryCastAs, At, m0
  <2>2. \A x, n : x.raised # OK => Propagate(x, n) = x
    BY ThrownStays DEF Propagate
  <2>3. Sane(B, m1) /\ (~VarPattern => m1.raised # OK)
    BY <1>3, <1>5, <1>8, <2>2, Operating
  <2> HIDE DEF m1
  <2>4. Sane(B, m2) /\ (~VarPattern => m2.raised # OK)
    BY <1>3, <1>8, <2>2, <2>3, Operating
  <2> HIDE DEF m2
  <2>5. Sane(B, m)
    BY <1>3, <1>6, <1>8, <2>4
  <2> HIDE DEF m
  <2> QED BY <1>2, <2>1, <2>5, Building
<1>9. CASE At("TryCatch", 0) /\ (Throw(NOT_DECLARED) \/ Visit(Propagate(mem, Kid(1)), Kid(1)))
  BY <1>3, <1>4, <1>9, Operating, Building
<1>10. CASE At("TryCastAs", 0) /\ Visit(CheckType(mem, TypeArg), Kid(1))
  BY <1>10, Operating, Building
<1>11. CASE /\ At("TryCastAs", 2)
            /\ VisitWith(Expect(mem, Kid(4), Deduced(Kid(3))), [Top EXCEPT !.guards = NoGuards], Kid(4))
  BY <1>2, <1>3, <1>11, Operating, Building
<1>12. CASE \E t : Return(t)
  BY <1>12, Building
<1>13. \/ At("TryCatch", 1) /\ VisitExprTryCatch
       \/ At("TryCastAs", 1) /\ VisitExprTryCastAs
       \/ At("TryCatch", 0) /\ (Throw(NOT_DECLARED) \/ Visit(Propagate(mem, Kid(1)), Kid(1)))
       \/ At("TryCastAs", 0) /\ Visit(CheckType(mem, TypeArg), Kid(1))
       \/ /\ At("TryCastAs", 2)
          /\ VisitWith(Expect(mem, Kid(4), Deduced(Kid(3))), [Top EXCEPT !.guards = NoGuards], Kid(4))
       \/ \E t : Return(t)
  BY Zenon DEF VisitExprTryCatch, VisitExprTryCastAs
<1> QED BY <1>7, <1>8, <1>9, <1>10, <1>11, <1>12, <1>13

LEMMA EffectTraces ==
  ASSUME NEW B, Underway(B), VisitEffect
  PROVE  Traced(B)
<1>1. TypeLaws /\ Inv /\ Tracks(B)
  BY DEF Underway
<1>2. NOT_DECLARED # OK /\ INTERNAL # OK /\ CRASH # OK /\ "ERROR_UNEXPECTED_MEMORY_ADDRESS" # OK
  BY DEF NOT_DECLARED, INTERNAL, CRASH, OK
<1>3. ASSUME NEW code, Diverge(code) PROVE Traced(B)
  BY <1>3, Operating, Building DEF Diverge
<1>4. \A kind \in {"Throw", "TypeCast", "Ref", "Deref"} : At(kind, 0) => Coming(B, Kid(1))
  BY <1>1, UnaryComing
<1>5. \A kind \in {"TryWith", "Assign"} : /\ At(kind, 0) => Coming(B, Kid(1))
                                          /\ At(kind, 1) => Coming(B, Kid(2))
  BY <1>1, BinaryComing
<1>6. ASSUME NEW kind \in {"Throw", "Ref", "Deref", "TryWith", "Assign"}, At(kind, 0),
             \/ \E t : Visit(Expect(mem, Kid(1), t), Kid(1))
             \/ \E e : Visit(ExpectType(mem, Kid(1), e), Kid(1))
             \/ Visit(Propagate(mem, Kid(1)), Kid(1))
      PROVE  Traced(B)
  <2>1. Coming(B, Kid(1))
    BY <1>4, <1>5, <1>6
  <2> QED BY <1>6, <2>1, Operating, Building
<1>7. ASSUME NEW kind \in {"TryWith", "Assign"}, At(kind, 1), NEW t, Visit(Expect(mem, Kid(2), t), Kid(2))
      PROVE  Traced(B)
  BY <1>5, <1>7, Operating, Building
<1>8. CASE VisitExprPanic
  BY <1>3, <1>8 DEF VisitExprPanic
<1>9. CASE VisitDeclExceptionType \/ VisitDeclExceptionVariant
  <2>1. PICK error, e : Declare(error, e)
    BY <1>9 DEF VisitDeclExceptionType, VisitDeclExceptionVariant
  <2>2. Sane(B, Raise(mem, error))
    BY Operating
  <2> QED BY <2>1, <2>2, Building DEF Declare
<1>10. CASE VisitExprThrow
  <2>1. \/ Throw(NOT_DECLARED)
        \/ At("Throw", 0) /\ Visit(Expect(mem, Kid(1), exn.type), Kid(1))
        \/ Diverge("ERROR_AMBIGUOUS_THROW_TYPE")
    BY <1>10, Zenon DEF VisitExprThrow
  <2> QED BY <1>2, <1>3, <1>6, <2>1, Building
<1>11. CASE VisitExprTryWith
  <2>1. \/ At("TryWith", 0) /\ Visit(Propagate(mem, Kid(1)), Kid(1))
        \/ At("TryWith", 1) /\ Visit(Expect(mem, Kid(2), Deduced(Kid(1))), Kid(2))
        \/ \E t : Return(t)
    BY <1>11, Zenon DEF VisitExprTryWith
  <2> QED BY <1>6, <1>7, <2>1, Building
<1>12. CASE VisitExprTryCatch \/ VisitExprTryCastAs
  BY <1>12, TryTraces
<1>13. CASE VisitExprTypeCast
  BY <1>13, Operating, Building DEF VisitExprTypeCast
<1>14. CASE VisitExprRef
  <2> DEFINE m0 == SetProvisional(mem, Sentinel_("Ref"))
             m == IF Concrete("Ref") THEN Expect(m0, Kid(1), Part(Expected, 1)) ELSE m0
  <2>1. \/ At("Ref", 0) /\ Visit(m, Kid(1))
        \/ Throw(CRASH) \/ \E t : Return(t)
    BY <1>14, Zenon DEF VisitExprRef
  <2>2. ASSUME At("Ref", 0) PROVE Sane(B, m)
    <3>1. Sane(B, m0)
      BY <1>1, <2>2, Simple, Beginning DEF At
    <3> HIDE DEF m0
    <3> QED BY <1>4, <2>2, <3>1, Operating
  <2> HIDE DEF m
  <2> QED BY <1>2, <2>1, <2>2, Building
<1>15. CASE VisitExprDeref
  <2>1. \/ \E e : At("Deref", 0) /\ Visit(ExpectType(mem, Kid(1), e), Kid(1))
        \/ Throw(INTERNAL) \/ \E t : Return(t)
    BY <1>15, Zenon DEF VisitExprDeref
  <2> QED BY <1>2, <1>6, <2>1, Building
<1>16. CASE VisitExprAssign
  <2>1. \/ \E t : At("Assign", 0) /\ Visit(Expect(mem, Kid(1), t), Kid(1))
        \/ \E t : At("Assign", 1) /\ Visit(Expect(mem, Kid(2), t), Kid(2))
        \/ Throw(INTERNAL) \/ \E t : Return(t)
    BY <1>16, Zenon DEF VisitExprAssign
  <2> QED BY <1>2, <1>6, <1>7, <2>1, Building
<1>17. CASE VisitExprConstMemory
  <2>1. \/ Throw("ERROR_UNEXPECTED_MEMORY_ADDRESS") \/ (\E t : Return(t))
        \/ \E t, code : AmbiguousFrom(mem, t, code)
    BY <1>17, Zenon DEF VisitExprConstMemory
  <2> QED BY <1>2, <2>1, Operating, Building
<1> QED BY <1>8, <1>9, <1>10, <1>11, <1>12, <1>13, <1>14, <1>15, <1>16, <1>17 DEF VisitEffect

LEMMA DeducedSet ==
  ASSUME NEW m, IsStorage(m), NEW n \in DOMAIN m.deduced, NEW t
  PROVE  SetDeduced(m, n, t).raised = OK => SetDeduced(m, n, t).deduced[n] = t
<1> DEFINE r == SetDeduced(m, n, t)
<1>1. r.raised = OK => r.deduced = [m.deduced EXCEPT ![n] = t]
  BY SetDeducedFields
<1> HIDE DEF r
<1>2. r.raised = OK => r.deduced[n] = t
  BY <1>1
<1> QED BY <1>2 DEF r

(* The type of a parameter is written in the program.                      *)
LEMMA ParameterTraces ==
  ASSUME ReferenceLaws, TypeLaws, Inv, Owning, ~Done, mem.raised = OK, NEW B, Tracks(B), VisitParamDecl
  PROVE  Traced(B)
<1> DEFINE V == Provided(B)
           t == TypeArg
           r == SetDeduced(mem, This, t)
<1> SUFFICES ASSUME mem'.raised = OK PROVE Traced(B)
  BY DEF Traced
<1>1. /\ This \in Ids /\ This \in B /\ prog \in Programs /\ IsType(Expected) /\ OnBegun(B, V) /\ Linked(B, V, mem)
      /\ ~Silent(This) => Slot("expected", This) \in V
      /\ Slot("deduced", This) \notin V
  BY Outset DEF Provided
<1>2. KindOf(This) = "ParamDecl" /\ ~Silent(This) /\ Finish(r)
  <2>1. KindOf(This) = "ParamDecl" /\ Finish(r)
    BY DEF VisitParamDecl, Constant, At, KindOf, Return, ReturnFrom
  <2> QED BY <2>1, Kinds DEF Silent, PatternKinds, FunctionKinds
<1>3. IsType(t) /\ t # Absent
  <2>1. 1 \in DOMAIN Node(This).types
    <3>1. WellBuilt(prog) /\ Node(This).kind \in TypedKinds
      BY <1>1, <1>2, GrammarAssumption DEF TypedKinds, KindOf
    <3> QED BY <1>1, <3>1, Zenon DEF WellBuilt, Ids, Node
  <2> QED BY <1>1, <2>1, ProgramTypesAssumption DEF TypeArg, Ids, Node
<1>4. mem' = r /\ Leave
  BY <1>2 DEF Finish
<1>5. Left
  BY <1>4, LeaveStack DEF Left
<1>6. V \subseteq Finished(B) /\ Slot("deduced", This) \in Finished(B)
  BY <1>2, <1>5 DEF Finished
<1> HIDE DEF V, t
<1>7. Linked(B, Finished(B), r)
  BY <1>1, <1>2, <1>3, <1>6, SetLinks
<1>8. r.raised = OK => r.deduced[This] = t
  <2>1. IsStorage(mem)
    BY <1>1 DEF Linked, Tied, Store, IsStorage
  <2>2. DOMAIN mem.deduced = Ids
    BY <2>1 DEF IsStorage
  <2> QED BY <1>1, <2>1, <2>2, DeducedSet
<1> HIDE DEF r
<1> QED BY <1>3, <1>4, <1>5, <1>7, <1>8 DEF Traced, Linked

-----------------------------------------------------------------------------
(* What every step does.                                                   *)
LEMMA OnlyParameter ==
  ASSUME VisitProgram \/ VisitFunction \/ VisitData \/ VisitEffect
  PROVE  VisitParamDecl \/ KindOf(This) # "ParamDecl"
<1> DEFINE Other == KindOf(This) # "ParamDecl"
<1>1. \A kind, pc : At(kind, pc) /\ kind # "ParamDecl" => Other
  BY DEF At, KindOf
<1> HIDE DEF Other
<1>2. VisitProgram => Other
  BY <1>1 DEF VisitProgram
<1>3. VisitFunction => VisitParamDecl \/ Other
  BY <1>1 DEF VisitFunction, VisitDeclFun, VisitDeclFunGeneric, DeclareFunction,
              VisitExprAbstraction, VisitExprFix, VisitExprApplication,
              VisitExprVar, VisitExprLet, VisitExprTypeAsc, VisitExprSequence,
              VisitExprConstUnit, VisitExprConstTrue, VisitExprConstFalse,
              VisitExprConstInt, VisitExprIf, VisitExprIsZero, VisitExprSucc,
              VisitExprPred, VisitExprNatRec,
              VisitExprTypeAbstraction, VisitExprTypeApplication,
              VisitOperator, Constant
<1>4. VisitData => Other
  <2>1. VisitExprList \/ VisitExprConsList \/ VisitExprHead \/ VisitExprTail \/ VisitExprIsEmpty => Other
    BY <1>1 DEF VisitExprList, VisitExprConsList, VisitExprHead, VisitExprTail, VisitExprIsEmpty, OnList
  <2>2. VisitExprTuple \/ VisitExprDotTuple \/ VisitExprRecord \/ VisitExprDotRecord => Other
    BY <1>1 DEF VisitExprTuple, VisitExprDotTuple, VisitExprRecord, VisitExprDotRecord
  <2>3. VisitExprInl \/ VisitExprInr \/ VisitExprVariant => Other
    BY <1>1 DEF VisitExprInl, VisitExprInr, VisitExprVariant, Inject
  <2>4. VisitExprMatch \/ VisitPatternCastAs => Other
    BY <1>1 DEF VisitExprMatch, VisitPatternCastAs
  <2> QED BY <2>1, <2>2, <2>3, <2>4 DEF VisitData
<1>5. VisitEffect => Other
  BY <1>1 DEF VisitEffect, VisitExprPanic, VisitDeclExceptionType,
              VisitDeclExceptionVariant, VisitExprThrow, VisitExprTryWith,
              VisitExprTryCatch, VisitExprTypeCast, VisitExprTryCastAs,
              VisitExprRef, VisitExprDeref, VisitExprAssign,
              VisitExprConstMemory
<1> QED BY <1>2, <1>3, <1>4, <1>5 DEF Other

LEMMA Unhindered ==
  ASSUME VisitProgram \/ VisitFunction \/ VisitData \/ VisitEffect
  PROVE  mem.raised = OK
<1>1. CASE VisitDeclFun \/ VisitDeclFunGeneric
  BY <1>1 DEF VisitDeclFun, VisitDeclFunGeneric, DeclareFunction, At
<1>2. CASE ~VisitDeclFun /\ ~VisitDeclFunGeneric
  BY <1>2, VisitedKind
<1> QED BY <1>1, <1>2

LEMMA VisitTraces ==
  ASSUME ReferenceLaws, TypeLaws, Inv, Owning, Moves, NEW B, Tracks(B),
         VisitProgram \/ VisitFunction \/ VisitData \/ VisitEffect
  PROVE  mem.raised = OK /\ Traced(B)
<1>1. ~Done
  BY VisitsHaveFrames
<1>2. mem.raised = OK
  BY Unhindered
<1>3. CASE KindOf(This) # "ParamDecl"
  BY <1>1, <1>2, <1>3, ProgramTraces, FunctionTraces, DataTraces, EffectTraces DEF Underway
<1>4. CASE KindOf(This) = "ParamDecl"
  <2>1. VisitParamDecl
    BY <1>4, OnlyParameter
  <2> QED BY <1>1, <1>2, <2>1, ParameterTraces
<1> QED BY <1>2, <1>3, <1>4

(* The same of the next state, when the program is the same.               *)
LEMMA TracksLater ==
  ASSUME prog' = prog, NEW C \in SUBSET Ids, Settled(C, mem'.deduced, frames'),
         Tied(C, Kept(C, mem'.deduced, frames'), mem')
  PROVE  Tracks(C)'
<1>1. Ids' = Ids /\ (\A n : KindOf(n)' = KindOf(n)) /\ \A n : IsFunction(n)' <=> IsFunction(n)
  BY DEF Ids, KindOf, Node, IsFunction
<1>2. \A n : Silent(n)' <=> Silent(n)
  BY <1>1 DEF Silent
<1>3. \A attr, n : Settles(C, mem.deduced, frames, attr, n)' <=> Settles(C, mem'.deduced, frames', attr, n)
  BY <1>1, <1>2 DEF Settles
<1>4. Kept(C, mem.deduced, frames)' = Kept(C, mem'.deduced, frames')
  BY <1>1, <1>3 DEF Kept
<1> DEFINE V == Kept(C, mem'.deduced, frames')
<1> HIDE DEF V
<1>5. Tied(C, V, mem')
  BY DEF V
<1>6. Store(mem)'
  BY <1>1, <1>5 DEF Tied, Store
<1>7. mem'.raised = OK => Unasked(C, mem)'
  BY <1>1, <1>2, <1>5 DEF Tied, Unasked
<1>8. mem'.raised = OK => Anchors(Kept(C, mem.deduced, frames), mem)'
  <2>1. ASSUME NEW t, NEW slot, Anchored(V, mem', t, slot)
        PROVE  Anchored(Kept(C, mem.deduced, frames), mem, t, slot)'
    BY <1>4, <2>1 DEF Anchored, ContentIn, V
  <2> QED BY <1>5, <2>1 DEF Tied, Anchors
<1>9. Tied(C, Kept(C, mem.deduced, frames), mem)'
  BY <1>6, <1>7, <1>8 DEF Tied
<1>10. Settled(C, mem.deduced, frames)'
  BY SettledLater
<1> QED BY <1>1, <1>9, <1>10 DEF Tracks

Tracked == mem.raised = OK => \E B \in SUBSET Ids : Tracks(B)

LEMMA VisitTracked ==
  ASSUME ReferenceLaws, TypeLaws, Together, Visiting, NEW B, Tracks(B),
         VisitProgram \/ VisitFunction \/ VisitData \/ VisitEffect, mem'.raised = OK
  PROVE  \E C \in SUBSET Ids : Tracks(C)'
<1>1. Inv /\ Owning /\ Moves /\ ~Done /\ Advances
  BY VisitMoves, VisitAdvances DEF Together
<1>2. Traced(B) /\ mem.raised = OK
  BY <1>1, VisitTraces
<1>3. prog' = prog /\ Final(mem') /\ SettlesOn
  <2>1. [Next]_vars
    BY DEF Next, Step
  <2> QED BY <1>1, <2>1, StepStays DEF Stays
<1>4. PICK C \in SUBSET Ids : Outgrows(B, C)
  BY <1>3 DEF SettlesOn, Tracks
<1>5. Left => Leave
  <2> DEFINE l == Len(frames)
  <2>1. l \in Nat
    BY <1>1, TopFrame DEF Inv
  <2>2. CASE \E m, f, k : Call(m, f, k)
    <3>1. PICK m, f, k : Call(m, f, k)
      BY <2>2
    <3>2. m.raised = OK
      BY <3>1 DEF Call
    <3>3. Len(frames') = l \/ Len(frames') = l + 1
      BY <1>1, <3>1, <3>2, CallStack DEF Leaves
    <3> HIDE DEF l
    <3> QED BY <2>1, <3>3 DEF Left, l
  <2>3. CASE \E m : Finish(m)
    BY <2>3 DEF Finish
  <2>4. CASE UNCHANGED <<frames, names>>
    <3>1. Len(frames') = l
      BY <2>4
    <3> HIDE DEF l
    <3> QED BY <2>1, <3>1 DEF Left, l
  <2> QED BY <1>1, <2>2, <2>3, <2>4 DEF Advances
<1>6. Finished(B) \subseteq Kept(C, mem'.deduced, frames')
  BY <1>1, <1>2, <1>3, <1>4, <1>5, KeptOn
<1>7. B \subseteq C /\ Settled(C, mem'.deduced, frames')
  BY <1>4 DEF Outgrows
<1>8. Tied(B, Finished(B), mem')
  BY <1>2 DEF Traced
<1>9. Tied(C, Kept(C, mem'.deduced, frames'), mem')
  BY <1>6, <1>7, <1>8, TiedMore
<1> QED BY <1>3, <1>7, <1>9, TracksLater

LEMMA StepTracked ==
  ASSUME ReferenceLaws, TypeLaws, Together, Visiting, Tracked, [Next]_vars
  PROVE  Tracked'
<1> SUFFICES ASSUME mem'.raised = OK PROVE \E C \in SUBSET Ids : Tracks(C)'
  BY StepKeeps DEF Tracked, Together, Keeps, Ids
<1>1. CASE VisitProgram \/ VisitFunction \/ VisitData \/ VisitEffect
  <2>1. PICK B \in SUBSET Ids : Tracks(B)
    BY <1>1, Unhindered DEF Tracked
  <2> QED BY <1>1, <2>1, VisitTracked
<1>2. CASE Unwind
  BY <1>2 DEF Unwind
<1>3. CASE Exit \/ UNCHANGED vars
  <2>1. prog' = prog /\ frames' = frames /\ mem' = mem
    BY <1>3 DEF Exit, vars
  <2>2. PICK B \in SUBSET Ids : Tracks(B)
    BY <2>1 DEF Tracked
  <2> QED BY <2>1, <2>2, TracksLater DEF Tracks
<1> QED BY <1>1, <1>2, <1>3 DEF Next, Step

LEMMA InitTracked ==
  ASSUME Init
  PROVE  Tracked
<1>1. mem = NewStorage
  BY DEF Init, Begin
<1>2. /\ {"deduced", "expected", "provisional", "constraints", "raised"} \subseteq DOMAIN NewStorage
      /\ NewStorage.deduced = [n \in Ids |-> Absent]
      /\ NewStorage.expected = [n \in Ids |-> NoExpectation]
      /\ NewStorage.provisional = [n \in Ids |-> Absent]
      /\ NewStorage.constraints = <<>>
  BY DEF NewStorage
<1>3. Store(mem)
  <2>1. IsSequence(<<>>)
    <3>1. <<>> \in Seq({})
      OBVIOUS
    <3> QED BY <3>1 DEF IsSequence
  <2> QED BY <1>1, <1>2, <2>1 DEF Store
<1>4. \A V : Anchors(V, mem)
  <2>1. DOMAIN <<>> = {}
    OBVIOUS
  <2> QED BY <1>1, <1>2, <2>1 DEF Anchors
<1>5. \A B : Unasked(B, mem)
  BY <1>1, <1>2 DEF Unasked
<1> QED BY <1>3, <1>4, <1>5, InitVisiting DEF Visiting, Tracked, Tracks, Tied

(* Every step of the two machines.                                         *)
LEMMA ProceedTracked ==
  ASSUME ReferenceLaws, TypeLaws, Together, Visiting, Tracked, [Proceed \/ Stopped]_all
  PROVE  Visiting' /\ Tracked'
<1>1. ASSUME [Next]_vars PROVE Visiting' /\ Tracked'
  BY <1>1, StepVisiting, StepTracked DEF Together
<1>2. CASE ThrowFromUnifyAll
  <2>1. ~Done /\ Throw(phase)
    BY <1>2 DEF ThrowFromUnifyAll, AtUnifyAll, At
  <2>2. mem' = Raise(mem, phase) /\ prog' = prog /\ frames' = frames /\ names' = names /\ tvars' = tvars /\ UNCHANGED decls
    BY <2>1 DEF Throw
  <2>3. CASE mem'.raised # OK
    BY <2>3 DEF Visiting, Tracked
  <2>4. CASE mem'.raised = OK
    <3>1. mem.raised = OK
      BY <2>2, <2>4 DEF Raise
    <3>2. PICK B \in SUBSET Ids : Tracks(B)
      BY <3>1 DEF Tracked
    <3> DEFINE V == Kept(B, mem.deduced, frames)
    <3> HIDE DEF V
    <3>3. Store(mem) /\ Anchors(V, mem) /\ Unasked(B, mem) /\ Settled(B, mem.deduced, frames)
      BY <3>1, <3>2 DEF Tracks, Tied, V
    <3>4. Store(mem') /\ Tables(mem', mem) /\ mem'.constraints = mem.constraints
      BY <2>2, <3>3, RaiseStores
    <3>5. Tied(B, V, mem')
      BY <3>3, <3>4 DEF Tied, Tables, Anchors, Anchored, ContentIn, Unasked
    <3>6. mem'.deduced = mem.deduced /\ frames' = frames
      BY <2>2, <3>4 DEF Tables
    <3>7. Tracks(B)'
      BY <2>2, <3>3, <3>5, <3>6, TracksLater DEF V
    <3>8. Ids' = Ids
      BY <2>2 DEF Ids
    <3> QED BY <3>7, <3>8 DEF Tracked, Visiting, Tracks
  <2> QED BY <2>3, <2>4
<1>3. CASE \/ Traverse \/ CallUnifyAll \/ Unify \/ ReturnFromUnifyAll \/ Leaving \/ Stopped
           \/ UNCHANGED all
  BY <1>1, <1>3 DEF Traverse, CallUnifyAll, Unify, ReturnFromUnifyAll, Leaving, Stopped, all, Next, Step
<1> QED BY <1>2, <1>3 DEF Proceed

(* A constraint refers to the types that it compares without owning them:  *)
(* an expected type, a provisional or a deduced one, in the slot of the    *)
(* attribute storage where the visitor found it.  In any program, under    *)
(* any comparators that obey the laws, such a slot is never given another  *)
(* type while the constraint may still be read, so that no reference       *)
(* dangles; all but those to the placeholders of literals, as in           *)
(* ReferencesAlive (ReconstructionComparator, AddConstraint, TypesStorage). *)
THEOREM ReferencesStayAlive ==
  ASSUME TypeLaws, ReferenceLaws
  PROVE  Reconstruct => []ReferencesAlive
<1> DEFINE J == Together /\ Supplied /\ Visiting /\ Tracked
<1>1. Start => J
  BY StartSupplied, InitVisiting, InitTracked DEF Start
<1>2. J /\ [Proceed \/ Stopped]_all => J'
  BY ProceedSupplied, ProceedTracked
<1>3. J => ReferencesAlive
  <2> SUFFICES ASSUME J, mem.raised = OK, NEW i \in DOMAIN mem.constraints
               PROVE  LET c == mem.constraints[i] IN
                      /\ Placeholder(c.lhs) \/ Alive(c.lhs, c.from)
                      /\ Placeholder(c.rhs) \/ Alive(c.rhs, c.to)
    BY DEF ReferencesAlive
  <2>1. \E V : Anchors(V, mem)
    BY DEF Tracked, Tracks, Tied
  <2>2. \A slot : ContentIn(mem, slot) = Content(slot)
    BY DEF ContentIn, Content
  <2> QED BY <2>1, <2>2 DEF Anchors, Anchored, Alive
<1> QED BY <1>1, <1>2, <1>3, PTL DEF Reconstruct

=============================================================================
