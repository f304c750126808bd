-------------------------- MODULE OwnershipProofs ---------------------------
(***************************************************************************)
(* Proofs about the checker and the unifier together, for any programs and *)
(* any operators on types that obey TypeLaws: every type variable that the *)
(* visitors put anywhere belongs to the program or was saved with          *)
(* SaveNewType, so that it is registered when a constraint names it and    *)
(* still registered when UnifyAll looks for unbound variables.             *)
(***************************************************************************)
EXTENDS StorageProofs, TypeReconstruction, WellFoundedInduction

(* The variables owned by what outlives the constraints, whatever the      *)
(* slots hold; and a type with no others.                                  *)
Roots(m)   == UNION {AutosOf(t) : t \in ProgramTypes \cup m.new_types}
Fits(m, t) == Within(Roots(m), t)
Known(t)   == Fits(mem, t)

Slots(m) ==
  /\ {"deduced", "expected", "provisional", "constraints", "new_types", "fresh", "raised"} \subseteq DOMAIN m
  /\ DOMAIN m.deduced = Ids /\ DOMAIN m.expected = Ids /\ DOMAIN m.provisional = Ids
  /\ \A t \in m.new_types : IsType(t)
SlotsFit(m) ==
  \A n \in Ids : Fits(m, m.deduced[n]) /\ Fits(m, m.expected[n].type) /\ Fits(m, m.provisional[n])
ConstraintsFit(m) ==
  /\ IsSequence(m.constraints)
  /\ \A i \in DOMAIN m.constraints : Relates(Roots(m), m.constraints[i])
Held(m) == Slots(m) /\ SlotsFit(m) /\ ConstraintsFit(m) /\ m.fresh \in Nat

(* s is the beginning of t.                                                *)
Begins(s, t) == Len(s) <= Len(t) /\ \A i \in DOMAIN s : t[i] = s[i]

(* What one operation makes of m, and what a visitor has made of mem.      *)
Follows(r, m) == Held(r) /\ r.new_types = m.new_types /\ Begins(m.constraints, r.constraints)
Reached(m)    == Held(m) /\ mem.new_types \subseteq m.new_types /\ Begins(mem.constraints, m.constraints)

-----------------------------------------------------------------------------
(* Types.                                                                  *)
LEMMA Component ==
  ASSUME TypeLaws, NEW S, NEW t, Within(S, t), NEW i \in DOMAIN t.args
  PROVE  Within(S, t.args[i])
<1>1. IsTypeLaw(t) /\ ContainsLaw(t)
  BY DEF TypeLaws
<1>2. IsType(t.args[i]) /\ ~IsAuto(t)
  BY <1>1 DEF IsTypeLaw, Shaped, Within
<1>3. AutosOf(t.args[i]) \subseteq AutosOf(t)
  BY <1>1, <1>2 DEF ContainsLaw
<1> QED BY <1>2, <1>3 DEF Within

LEMMA Composed ==
  ASSUME TypeLaws, NEW S, NEW t, ~IsAuto(t), Shaped(t), \A i \in DOMAIN t.args : Within(S, t.args[i])
  PROVE  Within(S, t)
<1>1. IsTypeLaw(t) /\ ContainsLaw(t)
  BY DEF TypeLaws
<1>2. IsType(t)
  BY <1>1 DEF IsTypeLaw, Within
<1>3. AutosOf(t) \subseteq S
  BY <1>1 DEF ContainsLaw, Within
<1> QED BY <1>2, <1>3 DEF Within

LEMMA Leaves_ ==
  ASSUME TypeLaws, NEW S
  PROVE  /\ \A f : Within(S, Sentinel_(f))
         /\ Within(S, None_) /\ Within(S, Absent) /\ Within(S, Unknown_) /\ Within(S, Bot_)
         /\ Within(S, Unit_) /\ Within(S, Bool_) /\ Within(S, Nat_)
<1>1. ASSUME NEW tag \in {"Sentinel", "None", "Absent", "Unknown", "Bot", "Unit", "Bool", "Nat"}, NEW lab
      PROVE  Within(S, Term(tag, lab, <<>>))
  <2> DEFINE t == Term(tag, lab, <<>>)
  <2>1. t.tag = tag /\ t.args = <<>> /\ DOMAIN t.args = {}
    BY DEF Term
  <2> HIDE DEF t
  <2>2. ~IsAuto(t) /\ Shaped(t)
    BY <2>1 DEF IsAuto, Shaped
  <2>3. Within(S, t)
    BY <2>1, <2>2, Composed
  <2> QED BY <2>3 DEF t
<1> QED BY <1>1 DEF Sentinel_, None_, Absent, Unknown_, Bot_, Unit_, Bool_, Nat_, Leaf

LEMMA Composites ==
  ASSUME TypeLaws, NEW S
  PROVE  /\ \A s, t : Within(S, s) /\ Within(S, t) => Within(S, Fun_(s, t)) /\ Within(S, Sum_(s, t))
         /\ \A t : Within(S, t) => Within(S, List_(t)) /\ Within(S, Ref_(t))
         /\ \A ls, t : Within(S, t) => Within(S, ForAll_(ls, t))
         /\ \A ts : DOMAIN ts = 1..Len(ts) /\ (\A i \in DOMAIN ts : Within(S, ts[i])) => Within(S, Tuple_(ts))
         /\ \A ls, ts : /\ Indexed(ls) /\ DOMAIN ls = DOMAIN ts
                         /\ \A i \in DOMAIN ts : Within(S, ts[i])
              => Within(S, Record_(ls, ts)) /\ Within(S, Variant_(ls, ts))
<1>1. ASSUME NEW tag \in {"Fun", "Sum", "List", "Ref", "ForAll", "Tuple", "Record", "Variant"},
             NEW lab, NEW ts, \A i \in DOMAIN ts : Within(S, ts[i]),
             tag \in {"Fun", "Sum"} => DOMAIN ts = 1..2,
             tag \in {"List", "Ref", "ForAll"} => DOMAIN ts = {1},
             tag = "Tuple" => DOMAIN ts = 1..Len(ts),
             tag \in {"Record", "Variant"} => Indexed(lab) /\ DOMAIN lab = DOMAIN ts
      PROVE  Within(S, Term(tag, lab, ts))
  <2> DEFINE t == Term(tag, lab, ts)
  <2>1. t.tag = tag /\ t.args = ts /\ t.lab = lab
    BY DEF Term
  <2> HIDE DEF t
  <2>2. ~IsAuto(t) /\ Shaped(t)
    BY <1>1, <2>1 DEF IsAuto, Shaped
  <2>3. Within(S, t)
    BY <1>1, <2>1, <2>2, Composed
  <2> QED BY <2>3 DEF t
<1>2. ASSUME NEW s, NEW t, Within(S, s), Within(S, t)
      PROVE  DOMAIN <<s, t>> = 1..2 /\ \A i \in DOMAIN <<s, t>> : Within(S, <<s, t>>[i])
  <2>1. DOMAIN <<s, t>> = 1..2 /\ <<s, t>>[1] = s /\ <<s, t>>[2] = t
    OBVIOUS
  <2>2. \A i \in 1..2 : i = 1 \/ i = 2
    OBVIOUS
  <2> QED BY <1>2, <2>1, <2>2
<1>3. ASSUME NEW t, Within(S, t)
      PROVE  DOMAIN <<t>> = {1} /\ \A i \in DOMAIN <<t>> : Within(S, <<t>>[i])
  BY <1>3
<1>4. ASSUME NEW s, NEW t, Within(S, s), Within(S, t)
      PROVE  Within(S, Fun_(s, t)) /\ Within(S, Sum_(s, t))
  <2> DEFINE ts == <<s, t>>
  <2>1. DOMAIN ts = 1..2 /\ \A i \in DOMAIN ts : Within(S, ts[i])
    BY <1>2, <1>4
  <2> HIDE DEF ts
  <2>2. Within(S, Term("Fun", <<>>, ts)) /\ Within(S, Term("Sum", <<>>, ts))
    BY <1>1, <2>1
  <2> QED BY <2>2 DEF ts, Fun_, Sum_
<1>5. ASSUME NEW t, NEW ls, Within(S, t)
      PROVE  Within(S, List_(t)) /\ Within(S, Ref_(t)) /\ Within(S, ForAll_(ls, t))
  <2> DEFINE ts == <<t>>
  <2>1. DOMAIN ts = {1} /\ \A i \in DOMAIN ts : Within(S, ts[i])
    BY <1>3, <1>5
  <2> HIDE DEF ts
  <2>2. /\ Within(S, Term("List", <<>>, ts)) /\ Within(S, Term("Ref", <<>>, ts))
        /\ Within(S, Term("ForAll", ls, ts))
    BY <1>1, <2>1
  <2> QED BY <2>2 DEF ts, List_, Ref_, ForAll_
<1>6. ASSUME NEW ts, DOMAIN ts = 1..Len(ts), \A i \in DOMAIN ts : Within(S, ts[i])
      PROVE  Within(S, Tuple_(ts))
  BY <1>1, <1>6 DEF Tuple_
<1>7. ASSUME NEW ls, NEW ts, Indexed(ls), DOMAIN ls = DOMAIN ts, \A i \in DOMAIN ts : Within(S, ts[i])
      PROVE  Within(S, Record_(ls, ts)) /\ Within(S, Variant_(ls, ts))
  BY <1>1, <1>7 DEF Record_, Variant_
<1> QED BY <1>4, <1>5, <1>6, <1>7

(* Components by place, where a type's class has them.                     *)
LEMMA Parts ==
  ASSUME TypeLaws, NEW S, NEW t, Within(S, t)
  PROVE  /\ Family(t) \in {"Fun", "Sum"} => Within(S, Part(t, 1)) /\ Within(S, Part(t, 2))
         /\ Family(t) \in {"List", "Ref"} => Within(S, Part(t, 1))
         /\ t.tag = "Sum" => Within(S, t.args[1]) /\ Within(S, t.args[2])
         /\ t.tag = "ForAll" => Within(S, t.args[1])
         /\ Within(S, Built(t))
<1>1. Shaped(t)
  BY DEF TypeLaws, IsTypeLaw, Within
<1>2. t.tag \in {"Fun", "Sum"} => 1 \in DOMAIN t.args /\ 2 \in DOMAIN t.args
  BY <1>1 DEF Shaped
<1>3. t.tag \in {"List", "Ref", "ForAll"} => 1 \in DOMAIN t.args
  BY <1>1 DEF Shaped
<1>4. Within(S, None_) /\ \A f : Within(S, Sentinel_(f))
  BY Leaves_
<1> QED BY <1>2, <1>3, <1>4, Component DEF Part, Built, Family

-----------------------------------------------------------------------------
(* The operations on the storage, by the field they assign.                *)
LEMMA FieldsSet ==
  ASSUME NEW m, Slots(m), NEW v
  PROVE  /\ LET r == [m EXCEPT !.deduced = v] IN
              /\ DOMAIN r = DOMAIN m /\ r.deduced = v /\ r.expected = m.expected
              /\ r.provisional = m.provisional /\ r.constraints = m.constraints
              /\ r.new_types = m.new_types /\ r.fresh = m.fresh
         /\ LET r == [m EXCEPT !.expected = v] IN
              /\ DOMAIN r = DOMAIN m /\ r.deduced = m.deduced /\ r.expected = v
              /\ r.provisional = m.provisional /\ r.constraints = m.constraints
              /\ r.new_types = m.new_types /\ r.fresh = m.fresh
         /\ LET r == [m EXCEPT !.provisional = v] IN
              /\ DOMAIN r = DOMAIN m /\ r.deduced = m.deduced /\ r.expected = m.expected
              /\ r.provisional = v /\ r.constraints = m.constraints
              /\ r.new_types = m.new_types /\ r.fresh = m.fresh
         /\ LET r == [m EXCEPT !.constraints = v] IN
              /\ DOMAIN r = DOMAIN m /\ r.deduced = m.deduced /\ r.expected = m.expected
              /\ r.provisional = m.provisional /\ r.constraints = v
              /\ r.new_types = m.new_types /\ r.fresh = m.fresh
         /\ LET r == [m EXCEPT !.raised = v] IN
              /\ DOMAIN r = DOMAIN m /\ r.deduced = m.deduced /\ r.expected = m.expected
              /\ r.provisional = m.provisional /\ r.constraints = m.constraints
              /\ r.new_types = m.new_types /\ r.fresh = m.fresh
BY DEF Slots

LEMMA BeginsItself ==
  ASSUME NEW s, IsSequence(s)
  PROVE  Begins(s, s)
<1>1. Len(s) \in Nat
  BY SequenceFacts
<1> QED BY <1>1 DEF Begins

LEMMA BeginsLonger ==
  ASSUME NEW s, NEW t, NEW u, IsSequence(s), IsSequence(t), IsSequence(u), Begins(s, t), Begins(t, u)
  PROVE  Begins(s, u)
<1>1. /\ Len(s) \in Nat /\ Len(t) \in Nat /\ Len(u) \in Nat
      /\ DOMAIN s = 1..Len(s) /\ DOMAIN t = 1..Len(t)
  BY SequenceFacts
<1>2. Len(s) <= Len(t) /\ Len(t) <= Len(u)
  BY DEF Begins
<1>3. DOMAIN s \subseteq DOMAIN t
  BY <1>1, <1>2
<1> QED BY <1>1, <1>2, <1>3 DEF Begins

(* A field assigned, when its new value has the types of the old.          *)
LEMMA SlotsSet ==
  ASSUME NEW m, Held(m), NEW v
  PROVE  /\ DOMAIN v = Ids /\ (\A n \in Ids : Fits(m, v[n]))
              => Follows([m EXCEPT !.deduced = v], m) /\ Follows([m EXCEPT !.provisional = v], m)
         /\ DOMAIN v = Ids /\ (\A n \in Ids : Fits(m, v[n].type))
              => Follows([m EXCEPT !.expected = v], m)
         /\ Follows([m EXCEPT !.raised = v], m)
<1>1. Begins(m.constraints, m.constraints)
  BY BeginsItself DEF Held, ConstraintsFit
<1>2. ASSUME NEW r, DOMAIN r = DOMAIN m, r.constraints = m.constraints, r.new_types = m.new_types,
             r.fresh = m.fresh, DOMAIN r.deduced = Ids, DOMAIN r.expected = Ids,
             DOMAIN r.provisional = Ids,
             \A n \in Ids : Fits(m, r.deduced[n]) /\ Fits(m, r.expected[n].type)
                            /\ Fits(m, r.provisional[n])
      PROVE  Follows(r, m)
  <2>1. Roots(r) = Roots(m)
    BY <1>2 DEF Roots
  <2> QED BY <1>1, <1>2, <2>1 DEF Follows, Held, Slots, SlotsFit, ConstraintsFit, Fits
<1>3. Slots(m) /\ SlotsFit(m)
  BY DEF Held
<1>4. ASSUME DOMAIN v = Ids, \A n \in Ids : Fits(m, v[n])
      PROVE  Follows([m EXCEPT !.deduced = v], m)
  <2> DEFINE r == [m EXCEPT !.deduced = v]
  <2>1. /\ DOMAIN r = DOMAIN m /\ r.deduced = v /\ r.expected = m.expected
        /\ r.provisional = m.provisional /\ r.constraints = m.constraints
        /\ r.new_types = m.new_types /\ r.fresh = m.fresh
    BY <1>3, FieldsSet
  <2> HIDE DEF r
  <2>2. Follows(r, m)
    BY <1>2, <1>3, <1>4, <2>1 DEF Slots, SlotsFit
  <2> QED BY <2>2 DEF r
<1>5. ASSUME DOMAIN v = Ids, \A n \in Ids : Fits(m, v[n])
      PROVE  Follows([m EXCEPT !.provisional = v], m)
  <2> DEFINE r == [m EXCEPT !.provisional = v]
  <2>1. /\ DOMAIN r = DOMAIN m /\ r.deduced = m.deduced /\ r.expected = m.expected
        /\ r.provisional = v /\ r.constraints = m.constraints
        /\ r.new_types = m.new_types /\ r.fresh = m.fresh
    BY <1>3, FieldsSet
  <2> HIDE DEF r
  <2>2. Follows(r, m)
    BY <1>2, <1>3, <1>5, <2>1 DEF Slots, SlotsFit
  <2> QED BY <2>2 DEF r
<1>6. ASSUME DOMAIN v = Ids, \A n \in Ids : Fits(m, v[n].type)
      PROVE  Follows([m EXCEPT !.expected = v], m)
  <2> DEFINE r == [m EXCEPT !.expected = v]
  <2>1. /\ DOMAIN r = DOMAIN m /\ r.deduced = m.deduced /\ r.expected = v
        /\ r.provisional = m.provisional /\ r.constraints = m.constraints
        /\ r.new_types = m.new_types /\ r.fresh = m.fresh
    BY <1>3, FieldsSet
  <2> HIDE DEF r
  <2>2. Follows(r, m)
    BY <1>2, <1>3, <1>6, <2>1 DEF Slots, SlotsFit
  <2> QED BY <2>2 DEF r
<1>7. Follows([m EXCEPT !.raised = v], m)
  <2> DEFINE r == [m EXCEPT !.raised = v]
  <2>1. /\ DOMAIN r = DOMAIN m /\ r.deduced = m.deduced /\ r.expected = m.expected
        /\ r.provisional = m.provisional /\ r.constraints = m.constraints
        /\ r.new_types = m.new_types /\ r.fresh = m.fresh
    BY <1>3, FieldsSet
  <2> HIDE DEF r
  <2>2. Follows(r, m)
    BY <1>2, <1>3, <2>1 DEF Slots, SlotsFit
  <2> QED BY <2>2 DEF r
<1> QED BY <1>4, <1>5, <1>6, <1>7

LEMMA ConstraintsAdded ==
  ASSUME NEW m, Held(m), NEW cs, IsSequence(cs), \A i \in DOMAIN cs : Relates(Roots(m), cs[i])
  PROVE  Follows([m EXCEPT !.constraints = m.constraints \o cs], m)
<1> DEFINE s == m.constraints
           v == s \o cs
           r == [m EXCEPT !.constraints = v]
<1>1. IsSequence(s) /\ \A i \in DOMAIN s : Relates(Roots(m), s[i])
  BY DEF Held, ConstraintsFit
<1>2. PICK S : s \in Seq(S) /\ cs \in Seq(S)
  BY <1>1, CommonElements
<1>3. /\ v \in Seq(S) /\ Len(v) = Len(s) + Len(cs) /\ Len(s) \in Nat /\ Len(cs) \in Nat
      /\ DOMAIN s = 1..Len(s) /\ DOMAIN cs = 1..Len(cs) /\ DOMAIN v = 1..Len(v)
      /\ \A i \in 1..Len(v) : v[i] = IF i <= Len(s) THEN s[i] ELSE cs[i - Len(s)]
  BY <1>2
<1>4. IsSequence(v) /\ Begins(s, v)
  BY <1>3 DEF IsSequence, Begins
<1>5. \A i \in DOMAIN v : Relates(Roots(m), v[i])
  <2>1. ASSUME NEW i \in DOMAIN v, i <= Len(s) PROVE Relates(Roots(m), v[i])
    BY <1>1, <1>3, <2>1
  <2>2. ASSUME NEW i \in DOMAIN v, ~(i <= Len(s)) PROVE Relates(Roots(m), v[i])
    <3>1. i - Len(s) \in DOMAIN cs /\ v[i] = cs[i - Len(s)]
      BY <1>3, <2>2
    <3> QED BY <3>1
  <2> QED BY <2>1, <2>2
<1>6. /\ DOMAIN r = DOMAIN m /\ r.deduced = m.deduced /\ r.expected = m.expected
      /\ r.provisional = m.provisional /\ r.constraints = v
      /\ r.new_types = m.new_types /\ r.fresh = m.fresh
  <2> HIDE DEF v
  <2>1. Slots(m)
    BY DEF Held
  <2> QED BY <2>1, FieldsSet
<1> HIDE DEF r
<1>7. Roots(r) = Roots(m)
  BY <1>6 DEF Roots
<1> HIDE DEF v
<1>8. Follows(r, m)
  BY <1>4, <1>5, <1>6, <1>7 DEF Follows, Held, Slots, SlotsFit, ConstraintsFit, Fits
<1> QED BY <1>8 DEF r, v
LEMMA FollowsOn ==
  ASSUME NEW m, NEW r, Follows(r, m)
  PROVE  /\ Held(r)
         /\ \A t : Fits(r, t) <=> Fits(m, t)
         /\ Held(m) => \A q : Follows(q, r) => Follows(q, m)
<1>1. Held(r) /\ r.new_types = m.new_types
  BY DEF Follows
<1>2. Roots(r) = Roots(m)
  BY <1>1 DEF Roots
<1>3. ASSUME Held(m), NEW q, Follows(q, r)
      PROVE  Follows(q, m)
  <2>1. Begins(m.constraints, q.constraints)
    BY <1>1, <1>3, BeginsLonger DEF Follows, Held, ConstraintsFit
  <2> QED BY <1>1, <1>3, <2>1 DEF Follows
<1> QED BY <1>1, <1>2, <1>3 DEF Fits

LEMMA HeldFollows ==
  ASSUME NEW m, Held(m)
  PROVE  Follows(m, m)
BY BeginsItself DEF Follows, Held, ConstraintsFit

LEMMA RaiseFollows ==
  ASSUME NEW m, Held(m), NEW code
  PROVE  Follows(Raise(m, code), m)
BY SlotsSet, HeldFollows DEF Raise

LEMMA EmitFollows ==
  ASSUME TypeLaws, NEW m, Held(m), NEW s, NEW from, NEW t, NEW to, Fits(m, s), Fits(m, t)
  PROVE  Follows(Emit(m, s, from, t, to), m)
<1> DEFINE es == Emitted(s, t)
           cs == Between(from, to, es)
<1>1. IsType(s) /\ IsType(t) /\ AutosOf(s) \cup AutosOf(t) \subseteq Roots(m)
  BY DEF Fits, Within
<1>2. EmittedLaw(s, t)
  BY <1>1 DEF TypeLaws
<1>3. \A i \in DOMAIN es : Relates(Roots(m), es[i])
  BY <1>1, <1>2 DEF EmittedLaw, Relates, Within
<1>4. IsSequence(es)
  BY <1>2 DEF EmittedLaw, IsSequence
<1> HIDE DEF es
<1>5. IsSequence(cs) /\ \A i \in DOMAIN cs : Relates(Roots(m), cs[i])
  <2>1. Len(es) \in Nat /\ DOMAIN es = 1..Len(es)
    BY <1>4, SequenceFacts
  <2> DEFINE e(i) == [lhs |-> es[i].lhs, rhs |-> es[i].rhs, from |-> from, to |-> to]
             S == {e(i) : i \in 1..Len(es)}
  <2>2. \A i \in DOMAIN es : Relates(Roots(m), e(i))
    BY <1>3 DEF Relates
  <2>3. cs = [i \in 1..Len(es) |-> e(i)] /\ \A i \in 1..Len(es) : e(i) \in S
    BY <2>1 DEF Between
  <2> HIDE DEF S, e, cs
  <2>4. cs \in Seq(S) /\ DOMAIN cs = 1..Len(es) /\ \A i \in DOMAIN cs : cs[i] = e(i)
    BY <2>1, <2>3
  <2> QED BY <2>1, <2>2, <2>4 DEF IsSequence
<1> HIDE DEF cs
<1>6. Follows([m EXCEPT !.constraints = m.constraints \o cs], m)
  BY <1>5, ConstraintsAdded
<1>7. Emit(m, s, from, t, to) \in {m, [m EXCEPT !.constraints = m.constraints \o cs]}
  BY DEF Emit, cs, es
<1> QED BY <1>6, <1>7, HeldFollows

LEMMA AssignedFollows ==
  ASSUME NEW m, Held(m), NEW n, NEW v
  PROVE  /\ Fits(m, v) => /\ Follows([m EXCEPT !.deduced[n] = v], m)
                          /\ Follows([m EXCEPT !.provisional[n] = v], m)
         /\ Fits(m, v.type) => Follows([m EXCEPT !.expected[n] = v], m)
<1>1. Slots(m) /\ SlotsFit(m)
  BY DEF Held
<1>2. ASSUME NEW w, DOMAIN w = Ids
      PROVE  LET x == [w EXCEPT ![n] = v]
             IN  DOMAIN x = Ids /\ \A k \in Ids : x[k] = IF k = n THEN v ELSE w[k]
  BY <1>2
<1>3. ASSUME Fits(m, v) PROVE Follows([m EXCEPT !.deduced[n] = v], m)
  <2> DEFINE x == [m.deduced EXCEPT ![n] = v]
  <2>1. DOMAIN x = Ids /\ \A k \in Ids : Fits(m, x[k])
    BY <1>1, <1>2, <1>3 DEF Slots, SlotsFit
  <2>2. [m EXCEPT !.deduced[n] = v] = [m EXCEPT !.deduced = x]
    OBVIOUS
  <2> HIDE DEF x
  <2> QED BY <2>1, <2>2, SlotsSet
<1>4. ASSUME Fits(m, v) PROVE Follows([m EXCEPT !.provisional[n] = v], m)
  <2> DEFINE x == [m.provisional EXCEPT ![n] = v]
  <2>1. DOMAIN x = Ids /\ \A k \in Ids : Fits(m, x[k])
    BY <1>1, <1>2, <1>4 DEF Slots, SlotsFit
  <2>2. [m EXCEPT !.provisional[n] = v] = [m EXCEPT !.provisional = x]
    OBVIOUS
  <2> HIDE DEF x
  <2> QED BY <2>1, <2>2, SlotsSet
<1>5. ASSUME Fits(m, v.type) PROVE Follows([m EXCEPT !.expected[n] = v], m)
  <2> DEFINE x == [m.expected EXCEPT ![n] = v]
  <2>1. DOMAIN x = Ids /\ \A k \in Ids : Fits(m, x[k].type)
    BY <1>1, <1>2, <1>5 DEF Slots, SlotsFit
  <2>2. [m EXCEPT !.expected[n] = v] = [m EXCEPT !.expected = x]
    OBVIOUS
  <2> HIDE DEF x
  <2> QED BY <2>1, <2>2, SlotsSet
<1> QED BY <1>3, <1>4, <1>5
LEMMA StoresFollow ==
  ASSUME NEW m, Held(m), NEW n, NEW v
  PROVE  /\ Fits(m, v) => Follows(StoreDeduced(m, n, v), m) /\ Follows(StoreProvisional(m, n, v), m)
         /\ Fits(m, v.type) => Follows(StoreExpected(m, n, v), m)
BY AssignedFollows, HeldFollows DEF StoreDeduced, StoreProvisional, StoreExpected

LEMMA CheckedFollows ==
  ASSUME TypeLaws, NEW m, Held(m), NEW n, NEW attr, NEW t, Fits(m, t), NEW e, Fits(m, e.type)
  PROVE  Follows(Checked(m, n, attr, t, e), m)
<1> DEFINE r == Raise(m, Reported(Incompatible(t, e.type), e))
           q == Emit(r, t, Slot(attr, n), e.type, Slot("expected", n))
<1>1. Follows(r, m)
  BY RaiseFollows
<1> HIDE DEF r
<1>2. Held(r) /\ Fits(r, t) /\ Fits(r, e.type)
  BY <1>1, FollowsOn
<1>3. Follows(q, r)
  BY <1>2, EmitFollows
<1>4. Checked(m, n, attr, t, e) \in {m, q}
  BY DEF Checked, r
<1> HIDE DEF q
<1> QED BY <1>1, <1>3, <1>4, FollowsOn, HeldFollows

LEMMA ExpectTypeFollows ==
  ASSUME TypeLaws, NEW m, Held(m), NEW n \in Ids, NEW e, Fits(m, e.type)
  PROVE  Follows(ExpectType(m, n, e), m)
<1> DEFINE c == IF e.type = None_ THEN Raise(m, CRASH)
                ELSE IF m.deduced[n] = Absent THEN m ELSE Checked(m, n, "deduced", m.deduced[n], e)
<1>1. Fits(m, m.deduced[n])
  BY DEF Held, SlotsFit
<1>2. Follows(c, m)
  BY <1>1, RaiseFollows, HeldFollows, CheckedFollows
<1>3. ExpectType(m, n, e) = StoreExpected(c, n, e)
  BY DEF ExpectType
<1> HIDE DEF c
<1>4. Held(c) /\ Fits(c, e.type)
  BY <1>2, FollowsOn
<1>5. Follows(StoreExpected(c, n, e), c)
  BY <1>4, StoresFollow
<1> QED BY <1>2, <1>3, <1>5, FollowsOn

LEMMA SetDeducedFollows ==
  ASSUME TypeLaws, NEW m, Held(m), NEW n \in Ids, NEW t, Fits(m, t)
  PROVE  Follows(SetDeduced(m, n, t), m)
<1> DEFINE e == m.expected[n]
           c == Checked(m, n, "deduced", t, e)
<1>1. Fits(m, e.type)
  BY DEF Held, SlotsFit
<1>2. SetDeduced(m, n, t) = StoreDeduced(c, n, t)
  BY DEF SetDeduced
<1> HIDE DEF e
<1>3. Follows(c, m)
  BY <1>1, CheckedFollows
<1> HIDE DEF c
<1>4. Held(c) /\ Fits(c, t)
  BY <1>3, FollowsOn
<1>5. Follows(StoreDeduced(c, n, t), c)
  BY <1>4, StoresFollow
<1> QED BY <1>2, <1>3, <1>5, FollowsOn

LEMMA SetProvisionalFollows ==
  ASSUME TypeLaws, NEW m, Held(m), This \in Ids, NEW t, Fits(m, t)
  PROVE  Follows(SetProvisional(m, t), m)
<1> DEFINE e == m.expected[This]
           c == Checked(m, This, "provisional", t, e)
<1>1. Fits(m, e.type)
  BY DEF Held, SlotsFit
<1>2. SetProvisional(m, t) = StoreProvisional(c, This, t)
  BY DEF SetProvisional
<1> HIDE DEF e
<1>3. Follows(c, m)
  BY <1>1, CheckedFollows
<1> HIDE DEF c
<1>4. Held(c) /\ Fits(c, t)
  BY <1>3, FollowsOn
<1>5. Follows(StoreProvisional(c, This, t), c)
  BY <1>4, StoresFollow
<1> QED BY <1>2, <1>3, <1>5, FollowsOn

LEMMA PropagateFollows ==
  ASSUME TypeLaws, NEW m, Held(m), This \in Ids, NEW n \in Ids
  PROVE  Follows(Propagate(m, n), m)
<1> DEFINE e == m.expected[This]
<1>1. Fits(m, e.type)
  BY DEF Held, SlotsFit
<1>2. Propagate(m, n) \in {m, ExpectType(m, n, e)}
  BY DEF Propagate
<1> HIDE DEF e
<1>3. Follows(ExpectType(m, n, e), m)
  BY <1>1, ExpectTypeFollows
<1> QED BY <1>2, <1>3, HeldFollows

LEMMA ExpectFollows ==
  ASSUME TypeLaws, NEW m, Held(m), NEW n \in Ids, NEW t, Fits(m, t), NEW code
  PROVE  /\ Follows(Expect(m, n, t), m)
         /\ Follows(ExpectType(m, n, EqualsToOr(t, code)), m)
<1>1. EqualsTo(t).type = t /\ EqualsToOr(t, code).type = t
  BY DEF EqualsTo, EqualsToOr
<1> HIDE DEF EqualsTo, EqualsToOr
<1> QED BY <1>1, ExpectTypeFollows DEF Expect

-----------------------------------------------------------------------------
(* What a visitor has made of mem so far; what it read before still fits.  *)
LEMMA Continues ==
  ASSUME Held(mem), NEW m, Reached(m)
  PROVE  /\ \A t : Known(t) => Fits(m, t)
         /\ \A r : Follows(r, m) => Reached(r)
<1>1. Roots(mem) \subseteq Roots(m)
  BY DEF Reached, Roots
<1>2. ASSUME NEW r, Follows(r, m) PROVE Reached(r)
  <2>1. r.new_types = m.new_types /\ Held(r) /\ Begins(m.constraints, r.constraints)
    BY <1>2 DEF Follows
  <2>2. Begins(mem.constraints, r.constraints)
    BY <2>1, BeginsLonger DEF Reached, Held, ConstraintsFit
  <2> QED BY <2>1, <2>2 DEF Reached
<1> QED BY <1>1, <1>2 DEF Known, Fits, Within

LEMMA MemReached ==
  ASSUME Held(mem)
  PROVE  Reached(mem)
BY BeginsItself DEF Reached, Held, ConstraintsFit

LEMMA OperationsReach ==
  ASSUME TypeLaws, Held(mem), This \in Ids, NEW m, Reached(m)
  PROVE  /\ \A code : Reached(Raise(m, code))
         /\ \A s, from, t, to : Known(s) /\ Known(t) => Reached(Emit(m, s, from, t, to))
         /\ \A n \in Ids : \A t : Known(t) => Reached(SetDeduced(m, n, t))
         /\ \A t : Known(t) => Reached(SetProvisional(m, t))
         /\ \A t : Reached(CheckType(m, t))
         /\ \A n \in Ids : \A t : Known(t) => Reached(Expect(m, n, t))
         /\ \A n \in Ids : \A t, code : Known(t) => Reached(ExpectType(m, n, EqualsToOr(t, code)))
         /\ \A n \in Ids : Reached(Propagate(m, n))
         /\ Reached(Entry(m))
<1>1. Held(m) /\ \A t : Known(t) => Fits(m, t)
  BY Continues DEF Reached
<1>2. \A r : Follows(r, m) => Reached(r)
  BY Continues
<1>3. \A code : Reached(Raise(m, code))
  BY <1>1, <1>2, RaiseFollows
<1>4. \A s, from, t, to : Known(s) /\ Known(t) => Reached(Emit(m, s, from, t, to))
  BY <1>1, <1>2, EmitFollows
<1>5. \A n \in Ids : \A t : Known(t) => Reached(SetDeduced(m, n, t))
  BY <1>1, <1>2, SetDeducedFollows
<1>6. \A t : Known(t) => Reached(SetProvisional(m, t))
  BY <1>1, <1>2, SetProvisionalFollows
<1>7. \A n \in Ids : \A t, code : Known(t) => /\ Reached(Expect(m, n, t))
                                              /\ Reached(ExpectType(m, n, EqualsToOr(t, code)))
  BY <1>1, <1>2, ExpectFollows
<1>8. \A n \in Ids : Reached(Propagate(m, n))
  BY <1>1, <1>2, PropagateFollows
<1>9. Reached(Entry(m))
  BY MemReached DEF Entry
<1> QED BY <1>3, <1>4, <1>5, <1>6, <1>7, <1>8, <1>9 DEF CheckType

(* A type made by a visitor is saved along with its constraint.            *)
LEMMA InferReaches ==
  ASSUME TypeLaws, Held(mem), NEW t, Known(t), NEW new, IsType(new), NEW k \in Nat
  PROVE  /\ Reached(Infer(t, new, k))
         /\ Unresolved(t) => Fits(Infer(t, new, k), new)
<1> DEFINE c == [lhs |-> t, rhs |-> new, from |-> Owned, to |-> Owned]
           s == mem.constraints
           cs == Append(s, c)
           ns == mem.new_types \cup {new}
           j == mem.fresh + k
           r == [mem EXCEPT !.constraints = cs, !.new_types = ns, !.fresh = j]
<1>1. Infer(t, new, k) = IF Unresolved(t) THEN r ELSE mem
  BY DEF Infer
<1>2. /\ Slots(r) /\ r.deduced = mem.deduced /\ r.expected = mem.expected
      /\ r.provisional = mem.provisional /\ r.constraints = cs
      /\ r.new_types = ns /\ r.fresh = j
  <2>1. \A u \in ns : IsType(u)
    BY DEF Held, Slots
  <2> HIDE DEF cs, ns, j
  <2> QED BY <2>1 DEF Held, Slots
<1>3. j \in Nat
  BY DEF Held
<1>4. /\ IsSequence(cs) /\ Begins(s, cs)
      /\ \A i \in DOMAIN cs : (i \in DOMAIN s /\ cs[i] = s[i]) \/ cs[i] = c
  <2>1. IsSequence(s)
    BY DEF Held, ConstraintsFit
  <2>2. PICK S : s \in Seq(S)
    BY <2>1 DEF IsSequence
  <2> DEFINE V == S \cup {c}
  <2>3. s \in Seq(V) /\ c \in V
    BY <2>2
  <2> HIDE DEF c, V, s
  <2>4. /\ cs \in Seq(V) /\ Len(cs) = Len(s) + 1 /\ Len(s) \in Nat /\ DOMAIN s = 1..Len(s)
        /\ DOMAIN cs = 1..(Len(s) + 1) /\ cs[Len(s) + 1] = c
        /\ \A i \in 1..Len(s) : cs[i] = s[i]
    BY <2>3
  <2>5. Begins(s, cs)
    BY <2>4 DEF Begins
  <2>6. \A i \in DOMAIN cs : i \in 1..Len(s) \/ i = Len(s) + 1
    BY <2>4
  <2> QED BY <2>4, <2>5, <2>6 DEF IsSequence
<1> HIDE DEF r, j, cs
<1>5. Roots(r) = Roots(mem) \cup AutosOf(new)
  BY <1>2 DEF Roots
<1>6. \A u : Known(u) => Fits(r, u)
  BY <1>5 DEF Known, Fits, Within
<1>7. Fits(r, new)
  BY <1>5 DEF Fits, Within
<1>8. SlotsFit(r)
  BY <1>2, <1>6 DEF SlotsFit, Held, Known
<1>9. ASSUME Unresolved(t) PROVE ConstraintsFit(r)
  <2>1. Relates(Roots(r), c)
    BY <1>6, <1>7, <1>9 DEF Relates, Unresolved, Fits
  <2>2. \A i \in DOMAIN s : Relates(Roots(r), s[i])
    BY <1>5 DEF Held, ConstraintsFit, Relates, Within
  <2> HIDE DEF c
  <2> QED BY <1>2, <1>4, <2>1, <2>2 DEF ConstraintsFit
<1>10. ASSUME Unresolved(t) PROVE Reached(r)
  BY <1>2, <1>3, <1>4, <1>8, <1>9, <1>10 DEF Reached, Held
<1> QED BY <1>1, <1>7, <1>10, MemReached

-----------------------------------------------------------------------------
(* The frames after a call and after a return.                             *)
LEMMA FramesCalled ==
  ASSUME Inv, ~Done, NEW m, NEW f, NEW k, Call(m, f, k)
  PROVE  \A i \in DOMAIN frames' :
           \/ i \in DOMAIN frames /\ frames'[i] = frames[i]
           \/ frames'[i] = [f EXCEPT !.pc = @ + 1]
           \/ \E ns : frames'[i] = Frame(k, ns)
<1> DEFINE n  == Len(frames)
           ns == Push(Release(names, Top.guards), f.guards)
           g  == [f EXCEPT !.pc = @ + 1]
           kept  == [frames EXCEPT ![n] = g]
           added == IF m.deduced[k] = Absent THEN <<Frame(k, ns)>> ELSE <<>>
<1>1. CASE UNCHANGED <<frames, names>>
  BY <1>1
<1>2. CASE frames' = kept \o added
  <2>1. n \in Nat \ {0} /\ DOMAIN frames = 1..n
    BY TopFrame DEF Inv
  <2> HIDE DEF g
  <2>2. IsSequence(kept) /\ Len(kept) = n /\ kept[n] = g
        /\ \A i \in 1..(n - 1) : kept[i] = frames[i]
    <3>1. IsSequence(frames) /\ Len(frames) # 0
      BY <2>1 DEF Inv, Mirror
    <3> QED BY <3>1, Updated
  <2> HIDE DEF ns, kept, n
  <2>3. \A i \in 1..n : (i \in DOMAIN frames /\ kept[i] = frames[i]) \/ kept[i] = g
    <3>1. \A i \in 1..n : i \in 1..(n - 1) \/ i = n
      BY <2>1
    <3> QED BY <2>1, <2>2, <3>1
  <2>4. CASE added = <<>>
    <3>1. frames' = kept /\ DOMAIN kept = 1..n
      BY <1>2, <2>2, <2>4, ConcatEmpty, SequenceFacts
    <3> QED BY <2>3, <3>1 DEF g
  <2>5. CASE added = <<Frame(k, ns)>>
    <3> HIDE DEF added
    <3>1. /\ IsSequence(frames') /\ Len(frames') = n + 1
          /\ \A i \in 1..n : frames'[i] = kept[i]
          /\ frames'[n + 1] = Frame(k, ns)
      BY <1>2, <2>2, <2>5, Extended
    <3>2. DOMAIN frames' = 1..(n + 1)
      BY <3>1, SequenceFacts
    <3>3. \A i \in 1..(n + 1) : i \in 1..n \/ i = n + 1
      BY <2>1 DEF n
    <3> QED BY <2>3, <3>1, <3>2, <3>3 DEF g
  <2> QED BY <2>4, <2>5
<1> QED BY <1>1, <1>2 DEF Call

LEMMA FramesLeft ==
  ASSUME Inv, ~Done, Leave
  PROVE  \A i \in DOMAIN frames' : i \in DOMAIN frames /\ frames'[i] = frames[i]
<1> DEFINE n == Len(frames)
<1>1. n \in Nat \ {0} /\ DOMAIN frames = 1..n
  BY TopFrame DEF Inv
<1>2. PICK S : frames \in Seq(S)
  BY DEF Inv, Mirror, IsSequence
<1>3. DOMAIN frames' = 1..(n - 1) /\ \A i \in 1..(n - 1) : frames'[i] = frames[i]
  BY <1>1, <1>2 DEF Leave
<1> QED BY <1>1, <1>3

-----------------------------------------------------------------------------
(* What a visit still needs while it waits for another: the name that a    *)
(* variable refers to stays in scope, and the applied type is a function's. *)
Waits(f) ==
  /\ Node(f.node).kind = "Var" /\ f.pc # 0 => Push(f.base, f.guards)[NameOf(f.node)] # <<>>
  /\ Node(f.node).kind = "Application" /\ f.pc = 2 => Family(f.result) = "Fun"
Waiting == \A i \in DOMAIN frames : Waits(frames[i])

LEMMA WaitersVisit ==
  ASSUME VisitProgram \/ VisitFunction \/ VisitData \/ VisitEffect,
         Node(This).kind \in {"Var", "Application"}
  PROVE  VisitExprVar \/ VisitExprApplication
<1>1. \A kind, pc : At(kind, pc) => kind \in {"Var", "Application"}
  BY DEF At
<1>2. ~VisitProgram
  BY <1>1 DEF VisitProgram
<1>3. VisitFunction => VisitExprVar \/ VisitExprApplication
  BY <1>1 DEF VisitFunction, VisitDeclFun, VisitParamDecl,
              VisitExprAbstraction, VisitExprFix,
              VisitExprLet, VisitExprTypeAsc, VisitExprSequence,
              VisitExprConstUnit, VisitExprConstTrue, VisitExprConstFalse,
              VisitExprConstInt, VisitExprIf, VisitExprIsZero, VisitExprSucc,
              VisitExprPred, VisitExprNatRec, VisitDeclFunGeneric,
              VisitExprTypeAbstraction, VisitExprTypeApplication,
              DeclareFunction, VisitOperator, Constant
<1>4. ~VisitData
  BY <1>1 DEF VisitData, VisitExprList, VisitExprConsList, VisitExprHead,
              VisitExprTail, VisitExprIsEmpty, VisitExprTuple,
              VisitExprDotTuple, VisitExprRecord, VisitExprDotRecord,
              VisitExprInl, VisitExprInr, VisitExprVariant, VisitExprMatch,
              VisitPatternCastAs, OnList, Inject
<1>5. ~VisitEffect
  BY <1>1 DEF VisitEffect, VisitExprPanic, VisitDeclExceptionType,
              VisitDeclExceptionVariant, VisitExprThrow, VisitExprTryWith,
              VisitExprTryCatch, VisitExprTypeCast, VisitExprTryCastAs,
              VisitExprRef, VisitExprDeref, VisitExprAssign,
              VisitExprConstMemory
<1> QED BY <1>2, <1>3, <1>4, <1>5

LEMMA VisitAdvances ==
  ASSUME Inv, VisitProgram \/ VisitFunction \/ VisitData \/ VisitEffect
  PROVE  ~Done /\ Advances
<1>1. ~Done
  BY VisitsHaveFrames
<1>2. CASE VisitDeclFun \/ VisitDeclFunGeneric
  <2>1. \A kind \in {"DeclFun", "DeclFunGeneric"} : kind \in FunctionKinds
    BY DEF FunctionKinds
  <2> QED BY <1>1, <1>2, <2>1, DeclareFunctionAdvances DEF VisitDeclFun, VisitDeclFunGeneric
<1>3. CASE ~VisitDeclFun /\ ~VisitDeclFunGeneric
  BY <1>1, <1>3, ProgramAdvances, FunctionAdvances, DataAdvances, EffectAdvances
<1> QED BY <1>1, <1>2, <1>3

LEMMA StepWaiting ==
  ASSUME Inv, Waiting, [Next]_vars
  PROVE  Waiting'
<1>1. prog' = prog
  BY StepKeeps DEF Keeps
<1>2. ASSUME \A i \in DOMAIN frames' : Waits(frames'[i]) PROVE Waiting'
  BY <1>1, <1>2 DEF Waiting, Waits, Node, NameOf
<1>3. CASE ~Done /\ Leave
  BY <1>2, <1>3, FramesLeft DEF Waiting
<1>4. CASE UNCHANGED frames
  BY <1>2, <1>4 DEF Waiting
<1>5. ASSUME ~Done, NEW m, NEW f, NEW k, Call(m, f, k), Waits([f EXCEPT !.pc = @ + 1])
      PROVE  Waiting'
  <2>1. \A ns : Waits(Frame(k, ns))
    BY DEF Waits, Frame
  <2>2. \A i \in DOMAIN frames' :
          \/ i \in DOMAIN frames /\ frames'[i] = frames[i]
          \/ frames'[i] = [f EXCEPT !.pc = @ + 1]
          \/ \E ns : frames'[i] = Frame(k, ns)
    BY <1>5, FramesCalled
  <2> QED BY <1>2, <1>5, <2>1, <2>2 DEF Waiting
<1>6. CASE VisitProgram \/ VisitFunction \/ VisitData \/ VisitEffect
  <2>1. ~Done /\ Advances /\ IsFrame(Top) /\ TypedFrame(Top) /\ names = Own(Top)
    BY <1>6, VisitAdvances, TopFrame, TopTyped DEF Inv
  <2>2. ASSUME NEW t, Return(t) PROVE Waiting'
    BY <1>3, <1>4, <2>1, <2>2 DEF Return, ReturnFrom, Finish
  <2>3. ASSUME NEW code, Throw(code) PROVE Waiting'
    BY <1>4, <2>3 DEF Throw
  <2>4. CASE Node(This).kind \notin {"Var", "Application"}
    <3>1. ASSUME NEW m, NEW f, NEW k, Call(m, f, k), Calls(f, k) PROVE Waiting'
      <4>1. IsFrame(f) /\ f.node = This
        BY <3>1 DEF Calls, TypedFrame
      <4>2. [f EXCEPT !.pc = @ + 1].node = This
        BY <4>1 DEF IsFrame
      <4> QED BY <1>5, <2>1, <2>4, <3>1, <4>2 DEF Waits
    <3> QED BY <1>3, <1>4, <2>1, <3>1 DEF Advances, Finish
  <2>5. CASE VisitExprVar
    <3>1. ASSUME At("Var", 0), names[Lab] # <<>>, Visit(mem, Resolve(Lab)) PROVE Waiting'
      <4> DEFINE g == [Top EXCEPT !.pc = @ + 1]
      <4>1. g.node = This /\ g.base = Top.base /\ g.guards = Top.guards
        BY <2>1 DEF IsFrame, This
      <4>2. Push(g.base, g.guards)[NameOf(This)] # <<>>
        BY <2>1, <3>1, <4>1 DEF Own, NameOf, Lab
      <4>3. Node(This).kind = "Var"
        BY <3>1 DEF At
      <4>4. Waits(g)
        BY <4>1, <4>2, <4>3 DEF Waits
      <4>5. Call(mem, Top, Resolve(Lab))
        BY <3>1 DEF Visit, VisitWith
      <4> HIDE DEF g
      <4> QED BY <1>5, <2>1, <4>4, <4>5 DEF g
    <3> QED BY <2>2, <2>3, <2>5, <3>1 DEF VisitExprVar
  <2>6. CASE VisitExprApplication
    <3> DEFINE t == Deduced(Kid(1))
               fun_type == IF Unresolved(t) THEN Fun_(Fresh(1), Fresh(2)) ELSE t
               m == Expect(Infer(t, fun_type, 2), Kid(2), Part(fun_type, 1))
               f == [Top EXCEPT !.result = fun_type]
    <3>1. ASSUME At("Application", 0), NEW n, NEW k, Visit(n, k) PROVE Waiting'
      <4> DEFINE g == [Top EXCEPT !.pc = @ + 1]
      <4>1. g.node = This /\ g.pc = 1
        BY <2>1, <3>1 DEF IsFrame, This, At
      <4>2. Node(This).kind = "Application"
        BY <3>1 DEF At
      <4>3. Waits(g)
        BY <4>1, <4>2 DEF Waits
      <4>4. Call(n, Top, k)
        BY <3>1 DEF Visit, VisitWith
      <4> HIDE DEF g
      <4> QED BY <1>5, <2>1, <4>3, <4>4 DEF g
    <3>2. ASSUME At("Application", 1), Family(fun_type) = "Fun", VisitWith(m, f, Kid(2))
          PROVE  Waiting'
      <4> DEFINE g == [f EXCEPT !.pc = @ + 1]
      <4> HIDE DEF fun_type
      <4>1. g.node = This /\ g.result = fun_type
        BY <2>1 DEF IsFrame, This
      <4>2. Node(This).kind = "Application"
        BY <3>2 DEF At
      <4>3. Waits(g)
        BY <3>2, <4>1, <4>2 DEF Waits
      <4>4. Call(m, f, Kid(2))
        BY <3>2 DEF VisitWith
      <4> HIDE DEF g, m, f
      <4> QED BY <1>5, <2>1, <4>3, <4>4 DEF g
    <3> HIDE DEF m, f, fun_type
    <3> QED BY <2>2, <2>3, <2>6, <3>1, <3>2 DEF VisitExprApplication, m, f, fun_type, t
  <2> QED BY <1>6, <2>4, <2>5, <2>6, WaitersVisit
<1>7. CASE Unwind
  BY <1>3, <1>7 DEF Unwind
<1>8. CASE Exit \/ UNCHANGED vars
  BY <1>4, <1>8 DEF Exit, vars
<1> QED BY <1>6, <1>7, <1>8 DEF Next, Step

-----------------------------------------------------------------------------
(* The inductive invariant: whatever the storage, the frames and the       *)
(* exception type hold is owned.                                           *)
Owning ==
  /\ Held(mem) /\ Known(exn.type)
  /\ \A i \in DOMAIN frames : Known(frames[i].result)

(* What a step makes of it.                                                *)
Moves ==
  /\ Reached(mem') /\ Fits(mem', exn'.type)
  /\ \A i \in DOMAIN frames' : Fits(mem', frames'[i].result)

Hands(f, m) == "result" \in DOMAIN f /\ Fits(m, f.result)

(* What a visitor knows.                                                   *)
LEMMA Knowledge ==
  ASSUME TypeLaws, Inv, Owning, ~Done
  PROVE  /\ This \in Ids /\ prog \in Programs /\ Held(mem) /\ Reached(mem)
         /\ Known(Expected) /\ \A n \in Ids : Known(Deduced(n))
         /\ Known(Top.result) /\ Known(exn.type) /\ Known(None_) /\ Known(Absent)
         /\ "result" \in DOMAIN Top /\ Hands(Top, mem)
<1>1. This \in Ids /\ prog \in Programs /\ TypedFrame(Top)
  BY TopTyped
<1>2. Held(mem) /\ Reached(mem) /\ Known(exn.type)
  BY MemReached DEF Owning
<1>3. Known(Expected) /\ \A n \in Ids : Known(Deduced(n))
  BY <1>1, <1>2 DEF Held, SlotsFit, Known, Expected, Deduced
<1>4. Known(Top.result)
  <2>1. Len(frames) \in DOMAIN frames
    BY TopFrame DEF Inv
  <2> QED BY <2>1 DEF Owning, Top
<1>5. "result" \in DOMAIN Top
  BY <1>1 DEF TypedFrame, IsFrame
<1>6. Known(None_) /\ Known(Absent)
  BY Leaves_ DEF Known, Fits
<1> QED BY <1>1, <1>2, <1>3, <1>4, <1>5, <1>6 DEF Hands, Known

LEMMA Later ==
  ASSUME Owning, NEW m, Reached(m)
  PROVE  /\ \A t : Known(t) => Fits(m, t)
         /\ \A f : Hands(f, mem) => Hands(f, m)
BY Continues DEF Owning, Hands, Known

(* Frames with something else in them.                                     *)
LEMMA HandedOn ==
  ASSUME NEW m, NEW f, Hands(f, m)
  PROVE  /\ \A x : /\ Hands([f EXCEPT !.tvs = x], m) /\ Hands([f EXCEPT !.guards = x], m)
                   /\ Hands([f EXCEPT !.pc = x], m) /\ Hands([f EXCEPT !.was_in_body = x], m)
         /\ \A r : Fits(m, r) => Hands([f EXCEPT !.result = r], m)
<1>1. \A x : /\ "result" \in DOMAIN [f EXCEPT !.tvs = x] /\ [f EXCEPT !.tvs = x].result = f.result
             /\ "result" \in DOMAIN [f EXCEPT !.guards = x] /\ [f EXCEPT !.guards = x].result = f.result
             /\ "result" \in DOMAIN [f EXCEPT !.pc = x] /\ [f EXCEPT !.pc = x].result = f.result
             /\ "result" \in DOMAIN [f EXCEPT !.was_in_body = x]
             /\ [f EXCEPT !.was_in_body = x].result = f.result
             /\ "result" \in DOMAIN [f EXCEPT !.result = x] /\ [f EXCEPT !.result = x].result = x
  BY DEF Hands
<1> QED BY <1>1 DEF Hands

LEMMA CallMoves ==
  ASSUME TypeLaws, Inv, Owning, ~Done, NEW m, NEW f, NEW k, Call(m, f, k), Reached(m), Hands(f, m),
         exn' = exn
  PROVE  Moves
<1>1. mem' = m
  BY DEF Call
<1>2. \A t : Known(t) => Fits(m, t)
  BY Later
<1>3. ASSUME NEW i \in DOMAIN frames' PROVE Fits(m, frames'[i].result)
  <2>1. \/ i \in DOMAIN frames /\ frames'[i] = frames[i]
        \/ frames'[i] = [f EXCEPT !.pc = @ + 1]
        \/ \E ns : frames'[i] = Frame(k, ns)
    BY FramesCalled
  <2>2. CASE i \in DOMAIN frames /\ frames'[i] = frames[i]
    BY <1>2, <2>2 DEF Owning
  <2>3. CASE frames'[i] = [f EXCEPT !.pc = @ + 1]
    BY <2>3, HandedOn DEF Hands
  <2>4. CASE \E ns : frames'[i] = Frame(k, ns)
    BY <1>2, <2>4, Knowledge DEF Frame
  <2> QED BY <2>1, <2>2, <2>3, <2>4
<1> QED BY <1>1, <1>2, <1>3 DEF Moves, Owning

LEMMA FinishMoves ==
  ASSUME TypeLaws, Inv, Owning, ~Done, NEW m, Finish(m), Reached(m), Fits(m, exn'.type)
  PROVE  Moves
<1>1. mem' = m
  BY DEF Finish
<1>2. \A t : Known(t) => Fits(m, t)
  BY Later
<1>3. ASSUME NEW i \in DOMAIN frames' PROVE Fits(m, frames'[i].result)
  <2>1. i \in DOMAIN frames /\ frames'[i] = frames[i]
    BY FramesLeft DEF Finish
  <2> QED BY <1>2, <2>1 DEF Owning
<1> QED BY <1>1, <1>2, <1>3 DEF Moves

LEMMA MadeFrom ==
  ASSUME TypeLaws, Inv, Owning, ~Done
  PROVE  /\ \A m, k : Visit(m, k) /\ Reached(m) => Moves
         /\ \A m, f, k : VisitWith(m, f, k) /\ Reached(m) /\ Hands(f, m) => Moves
         /\ \A m, t : ReturnFrom(m, t) /\ Reached(m) /\ Fits(m, t) => Moves
         /\ \A t : Return(t) /\ Known(t) => Moves
         /\ \A m, t, code : AmbiguousFrom(m, t, code) /\ Reached(m) /\ Known(t) => Moves
         /\ \A code : Throw(code) => Moves
         /\ \A kind, t : Constant(kind, t) /\ Known(t) => Moves
<1> USE Knowledge
<1>1. ASSUME NEW m, NEW f, NEW k, VisitWith(m, f, k), Reached(m), Hands(f, m)
      PROVE  Moves
  BY <1>1, CallMoves, BuildersKeepExn DEF VisitWith
<1>2. ASSUME NEW m, NEW k, Visit(m, k), Reached(m)
      PROVE  Moves
  BY <1>1, <1>2, Later DEF Visit
<1>3. ASSUME NEW m, NEW t, ReturnFrom(m, t), Reached(m), Fits(m, t)
      PROVE  Moves
  <2> DEFINE r == SetDeduced(m, This, t)
  <2>1. Held(m)
    BY <1>3 DEF Reached
  <2>2. Follows(r, m)
    BY <1>3, <2>1, SetDeducedFollows
  <2>3. Finish(r) /\ exn' = exn
    BY <1>3, BuildersKeepExn DEF ReturnFrom
  <2> HIDE DEF r
  <2>4. Reached(r)
    BY <1>3, <2>2, Continues
  <2>5. Fits(r, exn'.type)
    BY <2>3, <2>4, Later
  <2> QED BY <2>3, <2>4, <2>5, FinishMoves
<1>4. ASSUME NEW t, Return(t), Known(t) PROVE Moves
  BY <1>3, <1>4 DEF Return, Known
<1>5. ASSUME NEW m, NEW t, NEW code, AmbiguousFrom(m, t, code), Reached(m), Known(t) PROVE Moves
  <2>1. Reached(Raise(m, code))
    BY <1>5, OperationsReach
  <2> QED BY <1>3, <1>5, <2>1, Later DEF AmbiguousFrom
<1>6. ASSUME NEW code, Throw(code) PROVE Moves
  <2>1. mem' = Raise(mem, code) /\ frames' = frames /\ exn' = exn
    BY <1>6 DEF Throw, decls
  <2>2. Reached(mem')
    BY <2>1, OperationsReach
  <2> QED BY <2>1, <2>2, Later DEF Moves, Owning
<1>7. ASSUME NEW kind, NEW t, Constant(kind, t), Known(t) PROVE Moves
  BY <1>4, <1>7 DEF Constant
<1> QED BY <1>1, <1>2, <1>3, <1>4, <1>5, <1>6, <1>7

-----------------------------------------------------------------------------
(* What the visitors make types from.                                      *)
LEMMA KnownTypes ==
  ASSUME TypeLaws
  PROVE  /\ \A f : Known(Sentinel_(f))
         /\ Known(None_) /\ Known(Absent) /\ Known(Unknown_) /\ Known(Bot_)
         /\ Known(Unit_) /\ Known(Bool_) /\ Known(Nat_)
         /\ \A s, t : Known(s) /\ Known(t) => Known(Fun_(s, t)) /\ Known(Sum_(s, t))
         /\ \A t : Known(t) => Known(List_(t)) /\ Known(Ref_(t)) /\ Known(Built(t))
         /\ \A ls, t : Known(t) => Known(ForAll_(ls, t))
         /\ \A ts : DOMAIN ts = 1..Len(ts) /\ (\A i \in DOMAIN ts : Known(ts[i])) => Known(Tuple_(ts))
         /\ \A ls, ts : /\ Indexed(ls) /\ DOMAIN ls = DOMAIN ts
                        /\ \A i \in DOMAIN ts : Known(ts[i])
              => Known(Record_(ls, ts)) /\ Known(Variant_(ls, ts))
         /\ \A t : /\ Known(t)
                   /\ Family(t) \in {"Fun", "Sum"}
              => Known(Part(t, 1)) /\ Known(Part(t, 2))
         /\ \A t : Known(t) /\ Family(t) \in {"List", "Ref"} => Known(Part(t, 1))
         /\ \A t : Known(t) /\ t.tag = "Sum" => Known(t.args[1]) /\ Known(t.args[2])
         /\ \A t : Known(t) /\ t.tag = "ForAll" => Known(t.args[1])
<1> DEFINE S == Roots(mem)
<1>1. \A t : Known(t) <=> Within(S, t)
  BY DEF Known, Fits
<1> HIDE DEF S
<1> QED BY <1>1, Leaves_, Composites, Parts

LEMMA Least ==
  ASSUME NEW T \in SUBSET Nat, T # {}
  PROVE  \E n \in T : \A m \in T : n <= m
<1> DEFINE R == {ss \in Nat \X Nat : ss[1] < ss[2]}
<1>1. IsWellFoundedOn(R, Nat)
  BY NatLessThanWellFounded DEF OpToRel
<1>2. \E n \in T : \A m \in T : <<m, n>> \notin R
  <2> HIDE DEF R
  <2> QED BY <1>1, WFMin
<1>3. \A m, n \in Nat : <<m, n>> \notin R => n <= m
  OBVIOUS
<1> QED BY <1>2, <1>3

(* A label that is found has its type.                                     *)
LEMMA FieldFound ==
  ASSUME TypeLaws, NEW t, Known(t), t.tag \in {"Record", "Variant"}, NEW l, FieldAt(t.lab, l) # 0
  PROVE  FieldAt(t.lab, l) \in DOMAIN t.args /\ Known(t.args[FieldAt(t.lab, l)])
<1> DEFINE ls == t.lab
           P(i) == ls[i] = l /\ \A j \in 1..(i - 1) : ls[j] # l
           T == {i \in DOMAIN ls : ls[i] = l}
<1>1. Indexed(ls) /\ DOMAIN ls \subseteq DOMAIN t.args
  BY DEF TypeLaws, IsTypeLaw, Shaped, Known, Fits, Within
<1>2. FieldAt(ls, l) = CHOOSE i \in DOMAIN ls : P(i)
  BY DEF FieldAt
<1>3. \E i \in DOMAIN ls : P(i)
  <2>1. T \in SUBSET Nat /\ T # {}
    BY <1>1 DEF Indexed, FieldAt
  <2> HIDE DEF T
  <2>2. PICK i \in T : \A m \in T : i <= m
    BY <2>1, Least
  <2>3. i \in DOMAIN ls /\ ls[i] = l /\ i \in Nat /\ 1..i \subseteq DOMAIN ls
    BY <1>1, <2>1 DEF Indexed, T
  <2>4. \A j \in 1..(i - 1) : ls[j] # l
    <3>1. ASSUME NEW j \in 1..(i - 1), ls[j] = l PROVE FALSE
      <4>1. j \in DOMAIN ls /\ ~(i <= j)
        BY <2>3
      <4> QED BY <2>2, <3>1, <4>1 DEF T
    <3> QED BY <3>1
  <2> QED BY <2>3, <2>4
<1> HIDE DEF P
<1>4. FieldAt(ls, l) \in DOMAIN ls
  BY <1>2, <1>3
<1> QED BY <1>1, <1>4, Component DEF Known, Fits

(* The types that the program's author wrote.                              *)
LEMMA Written ==
  ASSUME TypeLaws, prog \in Programs, NEW n \in Ids
  PROVE  /\ \A i \in DOMAIN Node(n).types : Known(Node(n).types[i])
         /\ Node(n).kind \in TypedKinds => Known(Node(n).types[1])
<1>1. ASSUME NEW i \in DOMAIN Node(n).types PROVE Known(Node(n).types[i])
  <2> DEFINE t == Node(n).types[i]
  <2>1. IsType(t)
    BY <1>1, ProgramTypesAssumption DEF Ids, Node
  <2>2. t \in ProgramTypes
    BY <1>1 DEF ProgramTypes
  <2> HIDE DEF t
  <2>3. AutosOf(t) \subseteq Roots(mem)
    BY <2>2 DEF Roots
  <2>4. Known(t)
    BY <2>1, <2>3 DEF Known, Fits, Within
  <2> QED BY <2>4 DEF t
<1>2. Node(n).kind \in TypedKinds => 1 \in DOMAIN Node(n).types
  <2>1. WellBuilt(prog)
    BY GrammarAssumption
  <2> QED BY <2>1, Zenon DEF WellBuilt, Ids, Node
<1> QED BY <1>1, <1>2

(* A type that may stand for a type variable.                              *)
LEMMA FreshTypes ==
  ASSUME TypeLaws, Held(mem)
  PROVE  IsType(Fun_(Fresh(1), Fresh(2))) /\ IsType(List_(Fresh(1))) /\ IsType(Tuple_(<<Fresh(1), Fresh(2)>>))
<1> DEFINE S == AutosOf(Fresh(1)) \cup AutosOf(Fresh(2))
<1>1. IsType(Fresh(1)) /\ IsType(Fresh(2))
  <2>1. mem.fresh + 1 \in Nat \ {0} /\ mem.fresh + 2 \in Nat \ {0}
    BY DEF Held
  <2> QED BY <2>1 DEF TypeLaws, Fresh
<1>2. Within(S, Fresh(1)) /\ Within(S, Fresh(2))
  BY <1>1 DEF Within
<1> HIDE DEF S
<1>3. Within(S, Fun_(Fresh(1), Fresh(2))) /\ Within(S, List_(Fresh(1)))
  BY <1>2, Composites
<1>4. Within(S, Tuple_(<<Fresh(1), Fresh(2)>>))
  <2> DEFINE ts == <<Fresh(1), Fresh(2)>>
  <2>1. DOMAIN ts = 1..2 /\ Len(ts) = 2 /\ ts[1] = Fresh(1) /\ ts[2] = Fresh(2)
    OBVIOUS
  <2>2. \A i \in 1..2 : i = 1 \/ i = 2
    OBVIOUS
  <2>3. \A i \in DOMAIN ts : Within(S, ts[i])
    BY <1>2, <2>1, <2>2
  <2> HIDE DEF ts
  <2> QED BY <2>1, <2>3, Composites DEF ts
<1> QED BY <1>3, <1>4 DEF Within

LEMMA Inferred ==
  ASSUME TypeLaws, Owning, NEW t, Known(t), NEW fresh, IsType(fresh), NEW k \in Nat,
         NEW new, new = IF Unresolved(t) THEN fresh ELSE t
  PROVE  Reached(Infer(t, new, k)) /\ Fits(Infer(t, new, k), new)
<1>1. Held(mem) /\ IsType(new)
  BY DEF Owning, Known, Fits, Within
<1>2. Reached(Infer(t, new, k)) /\ (Unresolved(t) => Fits(Infer(t, new, k), new))
  BY <1>1, InferReaches
<1> QED BY <1>1, <1>2, Continues

-----------------------------------------------------------------------------
(* The visitors, one by one.                                               *)
LEMMA Operations ==
  ASSUME TypeLaws, Inv, Owning, ~Done, NEW m, Reached(m)
  PROVE  /\ \A code : Reached(Raise(m, code))
         /\ \A n \in Ids : \A t : Known(t) => Reached(SetDeduced(m, n, t))
         /\ \A t : Known(t) => Reached(SetProvisional(m, t))
         /\ \A t : Reached(CheckType(m, t))
         /\ \A n \in Ids : \A t : Known(t) => Reached(Expect(m, n, t))
         /\ \A n \in Ids : \A t, code : Known(t) => Reached(ExpectType(m, n, EqualsToOr(t, code)))
         /\ \A n \in Ids : Reached(Propagate(m, n))
         /\ Reached(Entry(m))
BY Knowledge, OperationsReach

LEMMA DeclareFunctionMoves ==
  ASSUME TypeLaws, Inv, Owning, NEW kind \in FunctionKinds, NEW params, DeclareFunction(kind, params)
  PROVE  Moves
<1>1. ~Done /\ Node(This).kind = kind
  BY DEF DeclareFunction, At
<1>2. /\ This \in Ids /\ prog \in Programs /\ Held(mem) /\ Reached(mem) /\ Hands(Top, mem)
      /\ \A n \in Ids : Known(Deduced(n))
  BY <1>1, Knowledge
<1>3. Param \in Ids /\ Body \in Ids
  BY <1>1, <1>2, Nodes DEF Kids, Kid, Param, Body, Child, IsFunction
<1>4. Known(TypeArg) /\ \A t : Known(t) => Known(Generalised(kind, params, t))
  BY <1>1, <1>2, Written, KnownTypes DEF TypeArg, TypedKinds, Generalised
<1>5. CASE At(kind, 0)
  <2> DEFINE m0 == SetProvisional(mem, Sentinel_(IF kind = "DeclFun" THEN "Fun" ELSE "ForAll"))
             m == Raise(m0, TypesError(<<TypeArg, Node(Param).types[1]>>, tvars \o params))
  <2>1. VisitWith(m, [Top EXCEPT !.tvs = params], Param)
    <3>1. ~At(kind, Len(Kids)) /\ \A i \in Positions : ~At(kind, i)
      <4>1. Len(Kids) # 0 /\ 0 \notin DOMAIN Kids
        BY <1>1, <1>2, Nodes DEF Kids, IsFunction
      <4> QED BY <1>1, <1>5, <4>1 DEF At, Positions
    <3> QED BY <1>5, <3>1 DEF DeclareFunction
  <2>2. Reached(m0)
    BY <1>1, <1>2, Operations, KnownTypes
  <2> HIDE DEF m0
  <2>3. Reached(m)
    BY <1>1, <2>2, Operations
  <2> HIDE DEF m
  <2>4. Hands([Top EXCEPT !.tvs = params], m)
    BY <1>2, <2>3, Later, HandedOn
  <2> QED BY <1>1, <2>1, <2>3, <2>4, MadeFrom
<1>6. ASSUME NEW i, NEW k,
             NEW known, known = (IF i > 1 THEN mem
                ELSE [mem EXCEPT !.deduced[This] = Generalised(kind, params, Fun_(Deduced(Param), TypeArg))]),
             NEW m, m \in {known, Expect(known, Body, TypeArg)},
             NEW f, f = (IF i > 1 THEN Top
                         ELSE [Top EXCEPT !.guards = Guard(NameOf(Param), Param), !.was_in_body = in_body]),
             Call(m, f, k), exn' = exn
      PROVE  Moves
  <2>1. Reached(known)
    <3> DEFINE t == Generalised(kind, params, Fun_(Deduced(Param), TypeArg))
    <3>1. Known(t)
      BY <1>2, <1>3, <1>4, KnownTypes
    <3> HIDE DEF t
    <3>2. Follows([mem EXCEPT !.deduced[This] = t], mem)
      BY <1>2, <3>1, AssignedFollows DEF Known
    <3>3. Reached([mem EXCEPT !.deduced[This] = t])
      BY <1>2, <3>2, Continues
    <3> QED BY <1>2, <1>6, <3>3 DEF t
  <2>2. Reached(m)
    <3>1. CASE m = known BY <2>1, <3>1
    <3>2. CASE m = Expect(known, Body, TypeArg)
      BY <1>1, <1>3, <1>4, <2>1, <3>2, Operations
    <3> QED BY <1>6, <3>1, <3>2
  <2>3. Hands(f, mem)
    <3> DEFINE h == [Top EXCEPT !.guards = Guard(NameOf(Param), Param)]
    <3>1. Hands(h, mem)
      BY <1>2, HandedOn
    <3>2. f = (IF i > 1 THEN Top ELSE [h EXCEPT !.was_in_body = in_body])
      BY <1>6
    <3> HIDE DEF h
    <3> QED BY <1>2, <3>1, <3>2, HandedOn
  <2> QED BY <1>1, <1>6, <2>2, <2>3, Later, CallMoves
<1>7. ASSUME NEW t, Known(t), Finish(SetDeduced(mem, This, t)), exn' = exn
      PROVE  Moves
  <2>1. Reached(SetDeduced(mem, This, t))
    BY <1>1, <1>2, <1>7, Operations
  <2> QED BY <1>1, <1>7, <2>1, Later, FinishMoves DEF Owning
<1>8. Known(Generalised(kind, params, Built(Fun_(Deduced(Param), Deduced(Body)))))
  BY <1>2, <1>3, <1>4, KnownTypes
<1>9. CASE \E i \in Positions :
             /\ At(kind, i) /\ i < Len(Kids)
             /\ LET known == IF i > 1 THEN mem
                             ELSE [mem EXCEPT !.deduced[This] = Generalised(kind, params, Fun_(Deduced(Param), TypeArg))]
                    m == IF Kid(i + 1) = Body THEN Expect(known, Body, TypeArg) ELSE known
                    f == IF i > 1 THEN Top
                         ELSE [Top EXCEPT !.guards = Guard(NameOf(Param), Param),
                                          !.was_in_body = in_body]
                IN  Call(m, f, Kid(i + 1))
             /\ in_body' = TRUE
             /\ UNCHANGED exn
  BY <1>6, <1>9
<1>10. CASE /\ At(kind, Len(Kids))
            /\ Finish(SetDeduced(mem, This, Generalised(kind, params, Built(Fun_(Deduced(Param), Deduced(Body))))))
            /\ in_body' = Top.was_in_body
            /\ UNCHANGED exn
  BY <1>7, <1>8, <1>10
<1> QED BY <1>5, <1>9, <1>10 DEF DeclareFunction

LEMMA AbstractionMoves ==
  ASSUME TypeLaws, Inv, Owning, VisitExprAbstraction
  PROVE  Moves
<1>1. ~Done
  BY DEF VisitExprAbstraction, At
<1>2. /\ This \in Ids /\ prog \in Programs /\ Held(mem) /\ Reached(mem) /\ Hands(Top, mem)
      /\ Known(Expected) /\ \A n \in Ids : Known(Deduced(n))
  BY <1>1, Knowledge
<1>3. Expects("Fun") => Known(Part(Expected, 1)) /\ Known(Part(Expected, 2))
  BY <1>2, KnownTypes DEF Expects
<1>4. CASE At("Abstraction", 0)
  <2> DEFINE e  == mem.expected[This]
             v  == EqualsToOr(e.type, "ERROR_UNEXPECTED_LAMBDA")
             m0 == IF ConcreteExpected /\ ~Expects("Fun") /\ ~e.explicit
                   THEN [mem EXCEPT !.expected[This] = v] ELSE mem
             m1 == CheckType(SetProvisional(m0, Sentinel_("Fun")), Node(Param).types[1])
             m2 == IF Concrete("Fun") THEN ExpectType(m1, Param, EqualsToOr(Part(e.type, 1), PARAM))
                   ELSE m1
  <2>1. Visit(m2, Param)
    BY <1>4 DEF VisitExprAbstraction, At
  <2>2. Reached(m0)
    <3>1. Fits(mem, v.type)
      BY <1>2 DEF EqualsToOr, Known, Expected
    <3> HIDE DEF v
    <3>2. Follows([mem EXCEPT !.expected[This] = v], mem)
      BY <1>2, <3>1, AssignedFollows
    <3> QED BY <1>2, <3>2, Continues
  <2> HIDE DEF m0
  <2>3. Reached(SetProvisional(m0, Sentinel_("Fun")))
    BY <1>1, <2>2, Operations, KnownTypes
  <2>4. Reached(m1)
    BY <1>1, <2>3, Operations
  <2> HIDE DEF m1
  <2>5. Param \in Ids
    BY <1>4, Binary_ DEF Param, Child
  <2>6. Reached(m2)
    BY <1>1, <1>3, <2>4, <2>5, Operations DEF Concrete, Expected
  <2> HIDE DEF m2
  <2> QED BY <1>1, <2>1, <2>6, MadeFrom
<1>5. CASE At("Abstraction", 1)
  <2> DEFINE result == IF Expects("Fun") THEN Part(Expected, 2) ELSE None_
             m == IF result = None_ THEN mem ELSE Expect(mem, Body, result)
             f == [Top EXCEPT !.guards = Guard(NameOf(Param), Param)]
  <2>1. VisitWith(m, f, Body)
    BY <1>5 DEF VisitExprAbstraction, At
  <2>2. Body \in Ids
    BY <1>5, Binary_ DEF Body, Kid, Child
  <2>3. Known(result)
    BY <1>3, KnownTypes
  <2> HIDE DEF result
  <2>4. Reached(m)
    BY <1>1, <1>2, <2>2, <2>3, Operations
  <2>5. Hands(f, m)
    BY <1>2, <2>4, Later, HandedOn
  <2> HIDE DEF m, f
  <2> QED BY <1>1, <2>1, <2>4, <2>5, MadeFrom
<1>6. CASE At("Abstraction", 2) /\ Return(Built(Fun_(Deduced(Param), Deduced(Body))))
  <2>1. Body \in Ids /\ Param \in Ids
    BY <1>6, Binary_ DEF Body, Param, Kid, Child
  <2> QED BY <1>1, <1>2, <1>6, <2>1, KnownTypes, MadeFrom
<1> QED BY <1>4, <1>5, <1>6 DEF VisitExprAbstraction

LEMMA ApplicationMoves ==
  ASSUME TypeLaws, Inv, Waiting, Owning, VisitExprApplication
  PROVE  Moves
<1>1. ~Done
  BY DEF VisitExprApplication, At
<1>2. /\ Held(mem) /\ Reached(mem) /\ Hands(Top, mem) /\ Known(Top.result)
      /\ \A n \in Ids : Known(Deduced(n))
  BY <1>1, Knowledge
<1>3. CASE At("Application", 0) /\ Visit(Expect(mem, Kid(1), Sentinel_("Fun")), Kid(1))
  <2>1. Kid(1) \in Ids
    BY <1>3, Binary_ DEF Child
  <2>2. Reached(Expect(mem, Kid(1), Sentinel_("Fun")))
    BY <1>1, <1>2, <2>1, Operations, KnownTypes
  <2> QED BY <1>1, <1>3, <2>2, MadeFrom
<1>4. CASE At("Application", 1)
  <2> DEFINE t == Deduced(Kid(1))
             fresh == Fun_(Fresh(1), Fresh(2))
             fun_type == IF Unresolved(t) THEN fresh ELSE t
             m0 == Infer(t, fun_type, 2)
             m1 == Expect(m0, Kid(2), Part(fun_type, 1))
             f == [Top EXCEPT !.result = fun_type]
  <2>1. Throw(INTERNAL) \/ (Family(fun_type) = "Fun" /\ VisitWith(m1, f, Kid(2)))
    BY <1>4 DEF VisitExprApplication, At
  <2>2. CASE Throw(INTERNAL)
    BY <1>1, <2>2, MadeFrom
  <2>3. CASE Family(fun_type) = "Fun" /\ VisitWith(m1, f, Kid(2))
    <3>1. Kid(1) \in Ids /\ Kid(2) \in Ids
      BY <1>4, Binary_ DEF Child
    <3>2. Reached(m0) /\ Fits(m0, fun_type)
      <4>1. Known(t) /\ IsType(fresh)
        BY <1>2, <3>1, FreshTypes
      <4> HIDE DEF t, fresh
      <4> QED BY <4>1, Inferred
    <3> HIDE DEF m0, fun_type
    <3>3. Held(m0) /\ Fits(m0, Part(fun_type, 1))
      BY <2>3, <3>2, Parts DEF Reached, Fits
    <3>4. Follows(m1, m0)
      BY <3>1, <3>3, ExpectFollows
    <3> HIDE DEF m1
    <3>5. Reached(m1) /\ Fits(m1, fun_type)
      BY <1>2, <3>2, <3>4, Continues, FollowsOn
    <3>6. Hands(f, m1)
      BY <1>2, <3>5, Later, HandedOn
    <3> HIDE DEF f
    <3> QED BY <1>1, <2>3, <3>5, <3>6, MadeFrom
  <2> QED BY <2>1, <2>2, <2>3
<1>5. CASE At("Application", 2) /\ Return(Part(Top.result, 2))
  <2>1. Len(frames) \in DOMAIN frames /\ Node(This).kind = "Application" /\ Top.pc = 2
    BY <1>1, <1>5, TopFrame DEF Inv, At
  <2>2. Family(Top.result) = "Fun"
    BY <2>1 DEF Waiting, Waits, Top, This
  <2>3. Known(Part(Top.result, 2))
    BY <1>2, <2>2, KnownTypes
  <2> QED BY <1>1, <1>5, <2>3, MadeFrom
<1> QED BY <1>3, <1>4, <1>5 DEF VisitExprApplication

LEMMA FunctionMoves ==
  ASSUME TypeLaws, Inv, Waiting, Owning, VisitFunction, ~Done
  PROVE  Moves
<1>1. /\ This \in Ids /\ prog \in Programs /\ Held(mem) /\ Reached(mem) /\ Hands(Top, mem)
      /\ Known(Expected) /\ \A n \in Ids : Known(Deduced(n))
  BY Knowledge
<1>2. Node(This).kind \in TypedKinds => Known(TypeArg)
  BY <1>1, Written DEF TypeArg
<1> USE MadeFrom, KnownTypes, <1>1
<1>3. CASE VisitDeclFun \/ VisitDeclFunGeneric
  <2>1. \A kind \in {"DeclFun", "DeclFunGeneric"} : kind \in FunctionKinds
    BY DEF FunctionKinds
  <2> QED BY <1>3, <2>1, DeclareFunctionMoves DEF VisitDeclFun, VisitDeclFunGeneric
<1>4. CASE VisitParamDecl
  BY <1>2, <1>4 DEF VisitParamDecl, Constant, At, TypedKinds
<1>5. CASE VisitExprAbstraction \/ VisitExprApplication
  BY <1>5, AbstractionMoves, ApplicationMoves
<1>6. CASE VisitExprFix
  <2>1. CASE At("Fix", 0)
    <3> DEFINE m0 == Expect(mem, Kid(1), Sentinel_("Fun"))
               m == IF Concrete("Fun") THEN Expect(m0, Kid(1), Fun_(Expected, Expected)) ELSE m0
    <3>1. Visit(m, Kid(1))
      BY <1>6, <2>1 DEF VisitExprFix, At
    <3>2. Kid(1) \in Ids
      BY <2>1, Unary_ DEF Child
    <3>3. Reached(m0)
      BY <3>2, Operations
    <3> HIDE DEF m0
    <3>4. Reached(m)
      BY <3>2, <3>3, Operations
    <3> HIDE DEF m
    <3> QED BY <3>1, <3>4
  <2>2. CASE At("Fix", 1)
    <3> DEFINE t == Deduced(Kid(1))
               slot == Slot("deduced", Kid(1))
               m0 == Raise(mem, Incompatible(Part(t, 2), Part(t, 1)))
               m == Emit(m0, Part(t, 2), slot, Part(t, 1), slot)
    <3>1. Throw(INTERNAL) \/ (Family(t) = "Fun" /\ ReturnFrom(m, Part(t, 2)))
      BY <1>6, <2>2 DEF VisitExprFix, At
    <3>2. Known(t)
      BY <2>2, Unary_ DEF Child
    <3>3. CASE Family(t) = "Fun" /\ ReturnFrom(m, Part(t, 2))
      <4>1. Known(Part(t, 1)) /\ Known(Part(t, 2))
        BY <3>2, <3>3
      <4>2. Reached(m0)
        BY Operations
      <4> HIDE DEF m0, t, slot
      <4>3. Reached(m)
        BY <4>1, <4>2, OperationsReach
      <4> HIDE DEF m
      <4> QED BY <3>3, <4>1, <4>3, Later
    <3> QED BY <3>1, <3>3
  <2> QED BY <1>6, <2>1, <2>2 DEF VisitExprFix
<1>7. CASE VisitExprVar
  <2>1. CASE At("Var", 0)
    BY <1>7, <2>1 DEF VisitExprVar, At
  <2>2. CASE At("Var", 1) /\ Return(Deduced(Resolve(Lab)))
    <3>1. Len(frames) \in DOMAIN frames /\ Node(This).kind = "Var" /\ Top.pc = 1 /\ names = Own(Top)
      BY <2>2, TopFrame DEF Inv, At
    <3>2. names[Lab] # <<>>
      BY <3>1 DEF Waiting, Waits, Top, This, Own, NameOf, Lab
    <3>3. Lab \in Names
      BY <3>1, Nodes DEF Lab
    <3>4. names[Lab] \in Seq(Ids)
      BY <3>3 DEF Inv, Typed, Scopes
    <3>5. Resolve(Lab) \in Ids
      BY <3>2, <3>4 DEF Resolve
    <3> QED BY <2>2, <3>5
  <2> QED BY <1>7, <2>1, <2>2 DEF VisitExprVar
<1>8. CASE VisitExprLet
  <2>1. CASE At("Let", 1)
    <3> DEFINE m0 == SetDeduced(mem, Kid(2), Deduced(Kid(1)))
               m == Propagate(m0, Kid(3))
               f == [Top EXCEPT !.guards = Guard(NameOf(Kid(2)), Kid(2))]
    <3>1. Kid(1) \in Ids /\ Kid(2) \in Ids /\ Kid(3) \in Ids
      BY <2>1, Ternary DEF Child
    <3>2. VisitWith(m, f, Kid(3))
      BY <1>8, <2>1 DEF VisitExprLet, At
    <3>3. Reached(m0)
      BY <3>1, Operations
    <3> HIDE DEF m0
    <3>4. Reached(m)
      BY <3>1, <3>3, Operations
    <3> HIDE DEF m
    <3>5. Hands(f, m)
      BY <3>4, Later, HandedOn
    <3> HIDE DEF f
    <3> QED BY <3>2, <3>4, <3>5
  <2>2. CASE At("Let", 0) /\ Visit(mem, Kid(1))
    BY <2>2
  <2>3. CASE At("Let", 2) /\ Return(Deduced(Kid(3)))
    BY <2>3, Ternary DEF Child
  <2> QED BY <1>8, <2>1, <2>2, <2>3 DEF VisitExprLet
<1>9. CASE VisitExprTypeAsc
  <2>1. Known(TypeArg)
    BY <1>2, <1>9 DEF VisitExprTypeAsc, At, TypedKinds
  <2>2. CASE At("TypeAsc", 0) /\ Visit(Expect(CheckType(mem, TypeArg), Kid(1), TypeArg), Kid(1))
    <3>1. Kid(1) \in Ids
      BY <2>2, Unary_ DEF Child
    <3>2. Reached(CheckType(mem, TypeArg))
      BY Operations
    <3>3. Reached(Expect(CheckType(mem, TypeArg), Kid(1), TypeArg))
      BY <2>1, <3>1, <3>2, Operations
    <3> QED BY <2>2, <3>3
  <2> QED BY <1>9, <2>1, <2>2 DEF VisitExprTypeAsc
<1>10. CASE VisitExprSequence
  BY <1>10, Binary_, Operations DEF VisitExprSequence, Child
<1>11. CASE VisitExprConstUnit \/ VisitExprConstTrue \/ VisitExprConstFalse \/ VisitExprConstInt
  BY <1>11 DEF VisitExprConstUnit, VisitExprConstTrue, VisitExprConstFalse, VisitExprConstInt
<1>12. CASE VisitExprIf
  BY <1>12, Ternary, Operations DEF VisitExprIf, Child
<1>13. CASE VisitExprIsZero \/ VisitExprSucc \/ VisitExprPred
  <2>1. ASSUME NEW kind \in {"IsZero", "Succ", "Pred"}, NEW s, NEW t, Known(s), Known(t),
               VisitOperator(kind, s, t)
        PROVE  Moves
    <3>1. CASE At(kind, 0) /\ Visit(Expect(SetProvisional(mem, t), Kid(1), s), Kid(1))
      <4>1. Kid(1) \in Ids
        BY <3>1, Unary_ DEF Child
      <4>2. Reached(SetProvisional(mem, t))
        BY <2>1, Operations
      <4>3. Reached(Expect(SetProvisional(mem, t), Kid(1), s))
        BY <2>1, <4>1, <4>2, Operations
      <4> QED BY <3>1, <4>3
    <3> QED BY <2>1, <3>1 DEF VisitOperator
  <2> QED BY <1>13, <2>1 DEF VisitExprIsZero, VisitExprSucc, VisitExprPred
<1>14. CASE VisitExprNatRec
  <2>1. CASE At("NatRec", 2)
    <3> DEFINE t == StepType(Deduced(Kid(2)))
               m == ExpectType(mem, Kid(3), EqualsToOr(t, MISMATCH))
    <3>1. Kid(2) \in Ids /\ Kid(3) \in Ids
      BY <2>1, Ternary DEF Child
    <3>2. Visit(m, Kid(3))
      BY <1>14, <2>1 DEF VisitExprNatRec, At
    <3>3. Known(t)
      BY <3>1 DEF StepType
    <3> HIDE DEF t
    <3>4. Reached(m)
      BY <3>1, <3>3, Operations
    <3> HIDE DEF m
    <3> QED BY <3>2, <3>4
  <2>2. CASE At("NatRec", 0) /\ Visit(Expect(mem, Kid(1), Nat_), Kid(1))
    BY <2>2, Ternary, Operations DEF Child
  <2>3. CASE /\ At("NatRec", 1)
             /\ Visit(IF Expects("Fun") THEN mem ELSE Propagate(mem, Kid(2)), Kid(2))
    BY <2>3, Ternary, Operations DEF Child
  <2>4. CASE At("NatRec", 3) /\ Return(Deduced(Kid(2)))
    BY <2>4, Ternary DEF Child
  <2> QED BY <1>14, <2>1, <2>2, <2>3, <2>4 DEF VisitExprNatRec
<1>15. CASE VisitExprTypeAbstraction
  <2> DEFINE m == SetProvisional(mem, Sentinel_("ForAll"))
             f == [Top EXCEPT !.tvs = Node(This).labs]
  <2>1. Reached(m)
    BY Operations
  <2> HIDE DEF m
  <2>2. CASE At("TypeAbstraction", 0) /\ VisitWith(m, f, Kid(1))
    <3>1. Hands(f, m)
      BY <2>1, Later, HandedOn
    <3> HIDE DEF f
    <3> QED BY <2>1, <2>2, <3>1
  <2>3. CASE At("TypeAbstraction", 1) /\ Return(Built(ForAll_(Node(This).labs, Deduced(Kid(1)))))
    BY <2>3, Unary_ DEF Child
  <2> QED BY <1>15, <2>2, <2>3 DEF VisitExprTypeAbstraction, m
<1>16. CASE VisitExprTypeApplication
  <2> DEFINE m == ExpectType(mem, Kid(1), EqualsToOr(Sentinel_("ForAll"), "ERROR_NOT_A_GENERIC_FUNCTION"))
             t == Deduced(Kid(1))
             args == Node(This).types
             r == Substitute(t.args[1], t.lab, args)
             n == Raise(mem, TypesError(args, tvars))
  <2>1. CASE At("TypeApplication", 0) /\ Visit(m, Kid(1))
    <3>1. Kid(1) \in Ids
      BY <2>1, Unary_ DEF Child
    <3>2. Reached(m)
      BY <3>1, Operations
    <3> HIDE DEF m
    <3> QED BY <2>1, <3>2
  <2>2. CASE At("TypeApplication", 1) /\ t.tag = "ForAll" /\ Len(t.lab) = Len(args) /\ ReturnFrom(n, r)
    <3>1. Known(t) /\ \A i \in DOMAIN args : Known(args[i])
      BY <2>2, Unary_, Written DEF Child
    <3>2. Known(t.args[1])
      BY <2>2, <3>1
    <3> DEFINE u == t.args[1]
    <3>3. SubstituteLaw(u, t.lab, args)
      BY <2>2, <3>1, <3>2 DEF TypeLaws, Known, Fits, Within
    <3>4. Known(r)
      BY <3>1, <3>2, <3>3 DEF SubstituteLaw, Known, Fits, Within
    <3>5. Reached(n)
      BY Operations
    <3> HIDE DEF r, n
    <3> QED BY <2>2, <3>4, <3>5, Later
  <2> QED BY <1>16, <2>1, <2>2 DEF VisitExprTypeApplication
<1> QED BY <1>3, <1>4, <1>5, <1>6, <1>7, <1>8, <1>9, <1>10, <1>11, <1>12, <1>13, <1>14, <1>15,
           <1>16 DEF VisitFunction

LEMMA ProgramMoves ==
  ASSUME TypeLaws, Inv, Owning, VisitProgram
  PROVE  Moves
<1>1. ~Done /\ Node(This).kind = "Program"
  BY DEF VisitProgram, At
<1>2. This \in Ids /\ prog \in Programs /\ Reached(mem) /\ Hands(Top, mem) /\ \A n \in Ids : Known(Deduced(n))
  BY <1>1, Knowledge
<1>3. CASE VisitWith(mem, [Top EXCEPT !.guards = Hoisted], Kid(1))
  BY <1>1, <1>2, <1>3, HandedOn, MadeFrom
<1>4. CASE \E k : Visit(mem, k)
  BY <1>1, <1>2, <1>4, MadeFrom
<1>5. CASE Mains # {} /\ Return(Deduced(CHOOSE n \in Mains : TRUE))
  <2>1. (CHOOSE n \in Mains : TRUE) \in Mains
    BY <1>5
  <2>2. Mains \subseteq Ids
    BY <1>2, Nodes DEF Mains, Kid, Kids
  <2> QED BY <1>1, <1>2, <1>5, <2>1, <2>2, MadeFrom
<1>6. CASE \E code : Throw(code)
  BY <1>1, <1>6, MadeFrom
<1> QED BY <1>3, <1>4, <1>5, <1>6 DEF VisitProgram

LEMMA ListMoves ==
  ASSUME TypeLaws, Inv, Owning, VisitExprList
  PROVE  Moves
<1> DEFINE hint == IF Expects("List") THEN Part(Expected, 1) ELSE None_
           m == Entry(SetProvisional(mem, Sentinel_("List")))
           elem == IF Top.pc = 0 THEN hint ELSE FirstType(Deduced(Kid(Top.pc)))
<1>1. ~Done
  BY DEF VisitExprList, At
<1>2. /\ Reached(mem) /\ Hands(Top, mem) /\ Known(Top.result) /\ Known(Expected)
      /\ \A n \in Ids : Known(Deduced(n))
  BY <1>1, Knowledge
<1>3. Reached(m)
  <2>1. Reached(SetProvisional(mem, Sentinel_("List")))
    BY <1>1, <1>2, KnownTypes, Operations
  <2> QED BY <1>1, <2>1, Operations
<1>4. ASSUME NEW i, At("List", i), i \in 0..Len(Kids)
      PROVE  Known(elem) /\ Top.pc = i
  <2>1. Known(hint)
    BY <1>2, KnownTypes DEF Expects
  <2>2. Top.pc = i /\ (i # 0 => Kid(i) \in Ids)
    BY <1>4, AnyMembers
  <2>3. i # 0 => Known(FirstType(Deduced(Kid(Top.pc))))
    BY <1>2, <2>2 DEF FirstType
  <2> QED BY <2>1, <2>2, <2>3
<1> HIDE DEF m, elem
<1>5. ASSUME NEW i \in Positions, At("List", i - 1),
             VisitWith(IF elem = None_ THEN m ELSE Expect(m, Kid(i), elem),
                       [Top EXCEPT !.result = elem], Kid(i))
      PROVE  Moves
  <2> DEFINE r == IF elem = None_ THEN m ELSE Expect(m, Kid(i), elem)
             f == [Top EXCEPT !.result = elem]
  <2>1. Kid(i) \in Ids /\ i - 1 \in 0..Len(Kids)
    BY <1>1, <1>5, AnyMembers DEF Positions
  <2>2. Known(elem)
    BY <1>4, <1>5, <2>1
  <2>3. Reached(r)
    BY <1>1, <1>3, <2>1, <2>2, Operations
  <2>4. VisitWith(r, f, Kid(i))
    BY <1>5
  <2> HIDE DEF r
  <2>5. Hands(f, r)
    BY <1>2, <2>2, <2>3, Later, HandedOn
  <2> HIDE DEF f
  <2> QED BY <1>1, <2>3, <2>4, <2>5, MadeFrom
<1>6. CASE AmbiguousFrom(m, List_(Bot_), "ERROR_AMBIGUOUS_LIST")
  BY <1>1, <1>3, <1>6, KnownTypes, MadeFrom
<1>7. CASE At("List", Len(Kids)) /\ ReturnFrom(m, Built(List_(elem)))
  <2>1. Len(Kids) \in 0..Len(Kids)
    BY <1>7, AnyMembers
  <2>2. Known(Built(List_(elem)))
    BY <1>4, <1>7, <2>1, KnownTypes
  <2> QED BY <1>1, <1>3, <1>7, <2>2, Later, MadeFrom
<1> QED BY <1>5, <1>6, <1>7 DEF VisitExprList, m, elem

LEMMA ConsListMoves ==
  ASSUME TypeLaws, Inv, Owning, VisitExprConsList
  PROVE  Moves
<1> DEFINE hint == IF Concrete("List") THEN Part(Expected, 1) ELSE None_
           Listed(m, t) == Expect(m, Kid(2), Built(List_(t)))
<1>1. ~Done
  BY DEF VisitExprConsList, At
<1>2. Held(mem) /\ Reached(mem) /\ Known(Expected) /\ \A n \in Ids : Known(Deduced(n))
  BY <1>1, Knowledge
<1>3. Known(hint)
  BY <1>2, KnownTypes DEF Concrete, Expects
<1>4. ASSUME NEW pc, At("ConsList", pc) PROVE Kid(1) \in Ids /\ Kid(2) \in Ids
  BY <1>4, Binary_ DEF Child
<1> USE <1>1, MadeFrom, KnownTypes
<1> HIDE DEF hint
<1>5. ASSUME NEW m, Reached(m), Kid(2) \in Ids, NEW t, Known(t) PROVE Reached(Listed(m, t))
  BY <1>5, Operations
<1> HIDE DEF Listed
<1>6. CASE At("ConsList", 0)
  <2> DEFINE m0 == SetProvisional(mem, Sentinel_("List"))
             m1 == Expect(m0, Kid(2), Sentinel_("List"))
             m2 == IF hint = None_ THEN m1 ELSE Listed(Expect(m1, Kid(1), hint), hint)
  <2>1. Visit(m2, Kid(1))
    BY <1>6 DEF VisitExprConsList, At, hint, Listed
  <2>2. Reached(m0)
    BY <1>2, Operations
  <2> HIDE DEF m0
  <2>3. Reached(m1)
    BY <1>4, <1>6, <2>2, Operations
  <2> HIDE DEF m1
  <2>4. Reached(m2)
    <3>1. Reached(Expect(m1, Kid(1), hint))
      BY <1>3, <1>4, <1>6, <2>3, Operations
    <3>2. Reached(Listed(Expect(m1, Kid(1), hint), hint))
      BY <1>3, <1>4, <1>5, <1>6, <3>1
    <3> QED BY <2>3, <3>2
  <2> HIDE DEF m2
  <2> QED BY <2>1, <2>4
<1>7. CASE At("ConsList", 1)
  <2> DEFINE m == IF hint = None_ THEN Listed(mem, Deduced(Kid(1))) ELSE mem
  <2>1. Visit(m, Kid(2))
    BY <1>7 DEF VisitExprConsList, At, hint, Listed
  <2>2. Reached(m)
    BY <1>2, <1>4, <1>5, <1>7
  <2> HIDE DEF m
  <2> QED BY <2>1, <2>2
<1>8. CASE At("ConsList", 2)
  <2> DEFINE t == Deduced(Kid(2))
             list_type == Built(List_(IF hint = None_ THEN Deduced(Kid(1)) ELSE hint))
             m == Infer(t, list_type, 0)
  <2>1. Throw(INTERNAL) \/ ReturnFrom(m, list_type)
    BY <1>8 DEF VisitExprConsList, At, hint
  <2>2. Known(t) /\ Known(list_type)
    BY <1>2, <1>3, <1>4, <1>8
  <2> HIDE DEF t, list_type
  <2>3. Reached(m)
    BY <1>2, <2>2, InferReaches DEF Known, Fits, Within
  <2> HIDE DEF m
  <2> QED BY <2>1, <2>2, <2>3, Later
<1> QED BY <1>6, <1>7, <1>8 DEF VisitExprConsList

LEMMA OnListMoves ==
  ASSUME TypeLaws, Inv, Owning, VisitExprHead \/ VisitExprTail
  PROVE  Moves
<1> DEFINE t == Deduced(Kid(1))
           m == Infer(t, ListType(t), 1)
<1>1. ~Done
  BY DEF VisitExprHead, VisitExprTail, OnList, At
<1>2. Held(mem) /\ Reached(mem) /\ Known(Expected) /\ \A n \in Ids : Known(Deduced(n))
  BY <1>1, Knowledge
<1>3. ASSUME NEW kind \in {"Head", "Tail"}, NEW e, Known(e), NEW r, OnList(kind, e, r),
             Family(ListType(t)) = "List" => r \in {Part(ListType(t), 1), ListType(t)}
      PROVE  Moves
  <2>1. CASE At(kind, 0) /\ Visit(Expect(mem, Kid(1), e), Kid(1))
    <3>1. Kid(1) \in Ids
      BY <2>1, Unary_ DEF Child
    <3>2. Reached(Expect(mem, Kid(1), e))
      BY <1>1, <1>2, <1>3, <3>1, Operations
    <3> QED BY <1>1, <2>1, <3>2, MadeFrom
  <2>2. CASE Throw(INTERNAL)
    BY <1>1, <2>2, MadeFrom
  <2>3. CASE At(kind, 1) /\ Family(ListType(t)) = "List" /\ ReturnFrom(m, r)
    <3>1. Known(t)
      BY <1>2, <2>3, Unary_ DEF Child
    <3>2. IsType(List_(Fresh(1)))
      BY <1>2, FreshTypes
    <3> HIDE DEF t
    <3>3. Reached(m) /\ Fits(m, ListType(t))
      BY <3>1, <3>2, Inferred DEF ListType
    <3> HIDE DEF m
    <3>4. Fits(m, Part(ListType(t), 1))
      BY <2>3, <3>3, Parts DEF Fits
    <3>5. Fits(m, r)
      BY <1>3, <2>3, <3>3, <3>4
    <3> QED BY <1>1, <2>3, <3>3, <3>5, MadeFrom
  <2> QED BY <1>3, <2>1, <2>2, <2>3 DEF OnList
<1>4. Known(Sentinel_("List")) /\ Known(List_(Expected))
  BY <1>2, KnownTypes
<1>5. CASE VisitExprHead
  BY <1>2, <1>3, <1>4, <1>5 DEF VisitExprHead
<1>6. CASE VisitExprTail
  BY <1>2, <1>3, <1>4, <1>6 DEF VisitExprTail
<1> QED BY <1>5, <1>6

LEMMA TupleMoves ==
  ASSUME TypeLaws, Inv, Owning, VisitExprTuple
  PROVE  Moves
<1> DEFINE unknown == Tuple_([j \in DOMAIN Kids |-> Unknown_])
           m0 == SetProvisional(mem, Sentinel_("Tuple"))
           m1 == SetProvisional(m0, unknown)
           m == Entry(m1)
<1>1. ~Done /\ \E pc : At("Tuple", pc)
  BY DEF VisitExprTuple, At
<1>2. Reached(mem) /\ Known(Expected) /\ This \in Ids /\ prog \in Programs /\ \A n \in Ids : Known(Deduced(n))
  BY <1>1, Knowledge
<1>3. /\ Len(Kids) \in Nat /\ DOMAIN Kids = 1..Len(Kids)
      /\ \A i \in 1..Len(Kids) : Kid(i) \in Ids
  BY <1>1, AnyMembers
<1>4. ASSUME NEW ts, ts = [j \in DOMAIN Kids |-> ts[j]], \A i \in DOMAIN Kids : Known(ts[i])
      PROVE  Known(Tuple_(ts))
  <2>1. \E S : ts \in Seq(S)
    <3> DEFINE S == {ts[j] : j \in DOMAIN Kids}
    <3>1. \A j \in 1..Len(Kids) : ts[j] \in S
      BY <1>3
    <3> HIDE DEF S
    <3>2. [j \in 1..Len(Kids) |-> ts[j]] \in Seq(S)
      BY <1>3, <3>1
    <3> QED BY <1>3, <1>4, <3>2
  <2>2. DOMAIN ts = 1..Len(ts) /\ \A i \in DOMAIN ts : Known(ts[i])
    BY <1>4, <2>1
  <2> QED BY <2>2, KnownTypes
<1>5. Reached(m)
  <2>1. Known(unknown)
    <3> DEFINE ts == [j \in DOMAIN Kids |-> Unknown_]
    <3>1. ts = [j \in DOMAIN Kids |-> ts[j]] /\ \A i \in DOMAIN Kids : Known(ts[i])
      BY KnownTypes
    <3> HIDE DEF ts
    <3>2. Known(Tuple_(ts))
      BY <1>4, <3>1
    <3> QED BY <3>2 DEF ts
  <2> HIDE DEF unknown
  <2>2. Reached(m0)
    BY <1>1, <1>2, KnownTypes, Operations
  <2> HIDE DEF m0
  <2>3. Reached(m1)
    BY <1>1, <2>1, <2>2, Operations
  <2> HIDE DEF m1
  <2> QED BY <1>1, <2>3, Operations
<1> HIDE DEF m
<1>6. ASSUME NEW i \in Positions, At("Tuple", i - 1),
             Visit(IF Concrete("Tuple") /\ i <= Len(Expected.args)
                   THEN Expect(m, Kid(i), Expected.args[i]) ELSE m, Kid(i))
      PROVE  Moves
  <2>1. i \in 1..Len(Kids) /\ Kid(i) \in Ids
    BY <1>1, <1>3, <1>6 DEF Positions
  <2>2. CASE Concrete("Tuple") /\ i <= Len(Expected.args)
    <3>1. Expected.tag = "Tuple"
      BY <2>2 DEF Concrete, Expects, Family
    <3>2. DOMAIN Expected.args = 1..Len(Expected.args)
      BY <1>2, <3>1 DEF TypeLaws, IsTypeLaw, Shaped, Known, Fits, Within
    <3>3. i \in DOMAIN Expected.args
      <4> DEFINE k == Len(Expected.args)
      <4>1. k \in Nat \/ k \notin Nat
        OBVIOUS
      <4>2. i \in Nat /\ 1 <= i
        BY <1>3, <2>1
      <4> QED BY <2>2, <3>2, <4>2
    <3>4. Known(Expected.args[i])
      BY <1>2, <3>3, Component DEF Known, Fits
    <3>5. Reached(Expect(m, Kid(i), Expected.args[i]))
      BY <1>1, <1>5, <2>1, <3>4, Operations
    <3> QED BY <1>1, <1>6, <2>2, <3>5, MadeFrom
  <2>3. CASE ~(Concrete("Tuple") /\ i <= Len(Expected.args))
    BY <1>1, <1>5, <1>6, <2>3, MadeFrom
  <2> QED BY <2>2, <2>3
<1>7. CASE ReturnFrom(m, Tuple_(KidTypes))
  <2>1. KidTypes = [j \in DOMAIN Kids |-> KidTypes[j]] /\ \A i \in DOMAIN Kids : Known(KidTypes[i])
    BY <1>2, <1>3 DEF KidTypes
  <2>2. Known(Tuple_(KidTypes))
    BY <1>4, <2>1
  <2> QED BY <1>1, <1>5, <1>7, <2>2, Later, MadeFrom
<1> QED BY <1>6, <1>7 DEF VisitExprTuple, m

LEMMA DotTupleMoves ==
  ASSUME TypeLaws, Inv, Owning, VisitExprDotTuple
  PROVE  Moves
<1>1. ~Done
  BY DEF VisitExprDotTuple, At
<1>2. Held(mem) /\ Reached(mem) /\ \A n \in Ids : Known(Deduced(n))
  BY <1>1, Knowledge
<1>3. CASE At("DotTuple", 0) /\ Visit(Expect(mem, Kid(1), Sentinel_("Tuple")), Kid(1))
  <2>1. Kid(1) \in Ids
    BY <1>3, Unary_ DEF Child
  <2>2. Reached(Expect(mem, Kid(1), Sentinel_("Tuple")))
    BY <1>1, <1>2, <2>1, KnownTypes, Operations
  <2> QED BY <1>1, <1>3, <2>2, MadeFrom
<1>4. CASE At("DotTuple", 1)
  <2> DEFINE t == Deduced(Kid(1))
             fresh == Tuple_(<<Fresh(1), Fresh(2)>>)
             tuple_type == IF Unresolved(t) THEN fresh ELSE t
             m == Infer(t, tuple_type, 2)
  <2>1. (\E code : Throw(code)) \/ (Lab \in DOMAIN tuple_type.args /\ ReturnFrom(m, tuple_type.args[Lab]))
    <3> DEFINE r == tuple_type.args[Lab]
    <3> HIDE DEF tuple_type, m, r
    <3> QED BY <1>4 DEF VisitExprDotTuple, At, tuple_type, m, r
  <2>2. CASE \E code : Throw(code)
    BY <1>1, <2>2, MadeFrom
  <2>3. CASE Lab \in DOMAIN tuple_type.args /\ ReturnFrom(m, tuple_type.args[Lab])
    <3>1. Known(t) /\ IsType(fresh)
      BY <1>2, <1>4, Unary_, FreshTypes DEF Child
    <3> HIDE DEF t, fresh
    <3>2. Reached(m) /\ Fits(m, tuple_type)
      BY <3>1, Inferred
    <3> HIDE DEF m, tuple_type
    <3>3. Fits(m, tuple_type.args[Lab])
      BY <2>3, <3>2, Component DEF Fits
    <3> QED BY <1>1, <2>3, <3>2, <3>3, MadeFrom
  <2> QED BY <2>1, <2>2, <2>3
<1> QED BY <1>3, <1>4 DEF VisitExprDotTuple

LEMMA RecordMoves ==
  ASSUME TypeLaws, Inv, Owning, VisitExprRecord
  PROVE  Moves
<1> DEFINE ls == Node(This).labs
           shape == Record_(ls, [i \in DOMAIN ls |-> Unknown_])
           m0 == SetProvisional(mem, Sentinel_("Record"))
           m1 == Raise(m0, Incompatible(shape, Expected))
           m2 == IF Repeated(ls) THEN Raise(m0, "ERROR_DUPLICATE_RECORD_FIELDS")
                 ELSE IF ~Concrete("Record") THEN m0
                 ELSE Emit(m1, shape, Nowhere, Expected, Slot("expected", This))
           m == Entry(m2)
<1>1. ~Done /\ \E pc : At("Record", pc)
  BY DEF VisitExprRecord, At
<1>2. Reached(mem) /\ Held(mem) /\ Known(Expected) /\ This \in Ids /\ prog \in Programs
      /\ \A n \in Ids : Known(Deduced(n))
  BY <1>1, Knowledge
<1>3. /\ Len(Kids) \in Nat /\ DOMAIN Kids = 1..Len(Kids)
      /\ \A i \in 1..Len(Kids) : Kid(i) \in Ids
  BY <1>1, AnyMembers
<1>4. Indexed(ls) /\ DOMAIN ls = DOMAIN Kids
  <2>1. WellBuilt(prog) /\ Node(This).kind = "Record"
    BY <1>1, <1>2, GrammarAssumption DEF At
  <2>2. DOMAIN ls = DOMAIN Kids
    BY <1>2, <2>1, Zenon DEF WellBuilt, Ids, Node, Kids
  <2> HIDE DEF ls
  <2>3. DOMAIN ls = 1..Len(Kids)
    BY <1>3, <2>2
  <2> QED BY <1>3, <2>2, <2>3 DEF Indexed
<1>5. Reached(m)
  <2>1. Known(shape)
    <3> DEFINE ts == [i \in DOMAIN ls |-> Unknown_]
    <3>1. DOMAIN ls = DOMAIN ts /\ \A i \in DOMAIN ts : Known(ts[i])
      BY KnownTypes
    <3> HIDE DEF ls, ts
    <3>2. Known(Record_(ls, ts))
      BY <1>4, <3>1, KnownTypes
    <3> QED BY <3>2 DEF ts
  <2> HIDE DEF shape
  <2>2. Reached(m0)
    BY <1>1, <1>2, KnownTypes, Operations
  <2> HIDE DEF m0
  <2>3. Reached(m1) /\ Reached(Raise(m0, "ERROR_DUPLICATE_RECORD_FIELDS"))
    BY <1>1, <2>2, Operations
  <2> HIDE DEF m1
  <2>4. Reached(Emit(m1, shape, Nowhere, Expected, Slot("expected", This)))
    BY <1>2, <2>1, <2>3, OperationsReach
  <2>5. Reached(m2)
    BY <2>2, <2>3, <2>4
  <2> HIDE DEF m2
  <2> QED BY <1>1, <2>5, Operations
<1> HIDE DEF m
<1>6. ASSUME NEW i \in Positions, NEW j, j = (IF Concrete("Record") THEN FieldAt(Expected.lab, ls[i]) ELSE 0),
             At("Record", i - 1),
             Visit(IF j = 0 THEN m ELSE Expect(m, Kid(i), Expected.args[j]), Kid(i))
      PROVE  Moves
  <2>1. Kid(i) \in Ids
    BY <1>1, <1>3 DEF Positions
  <2>2. CASE j = 0
    BY <1>1, <1>5, <1>6, <2>2, MadeFrom
  <2>3. CASE j # 0
    <3>1. Concrete("Record") /\ j = FieldAt(Expected.lab, ls[i])
      BY <1>6, <2>3
    <3>2. Expected.tag = "Record"
      BY <3>1 DEF Concrete, Expects, Family
    <3>3. Known(Expected.args[j])
      BY <1>2, <2>3, <3>1, <3>2, FieldFound
    <3>4. Reached(Expect(m, Kid(i), Expected.args[j]))
      BY <1>1, <1>5, <2>1, <3>3, Operations
    <3> QED BY <1>1, <1>6, <2>3, <3>4, MadeFrom
  <2> QED BY <2>2, <2>3
<1>7. CASE ReturnFrom(m, Record_(ls, KidTypes))
  <2>1. DOMAIN KidTypes = DOMAIN ls /\ \A i \in DOMAIN KidTypes : Known(KidTypes[i])
    BY <1>2, <1>3, <1>4 DEF KidTypes
  <2> HIDE DEF ls
  <2>2. Known(Record_(ls, KidTypes))
    BY <1>4, <2>1, KnownTypes
  <2> QED BY <1>1, <1>5, <1>7, <2>2, Later, MadeFrom
<1> QED BY <1>6, <1>7 DEF VisitExprRecord, m

LEMMA DotRecordMoves ==
  ASSUME TypeLaws, Inv, Owning, VisitExprDotRecord
  PROVE  Moves
<1>1. ~Done
  BY DEF VisitExprDotRecord, At
<1>2. Reached(mem) /\ \A n \in Ids : Known(Deduced(n))
  BY <1>1, Knowledge
<1>3. CASE At("DotRecord", 0) /\ Visit(Expect(mem, Kid(1), Sentinel_("Record")), Kid(1))
  <2>1. Kid(1) \in Ids
    BY <1>3, Unary_ DEF Child
  <2>2. Reached(Expect(mem, Kid(1), Sentinel_("Record")))
    BY <1>1, <1>2, <2>1, KnownTypes, Operations
  <2> QED BY <1>1, <1>3, <2>2, MadeFrom
<1>4. CASE At("DotRecord", 1)
  <2> DEFINE t == Deduced(Kid(1))
             j == FieldAt(t.lab, Lab)
  <2>1. (\E code : Throw(code)) \/ (Family(t) = "Record" /\ ~IsSentinel(t) /\ j # 0 /\ Return(t.args[j]))
    BY <1>4 DEF VisitExprDotRecord, At
  <2>2. CASE \E code : Throw(code)
    BY <1>1, <2>2, MadeFrom
  <2>3. CASE Family(t) = "Record" /\ ~IsSentinel(t) /\ j # 0 /\ Return(t.args[j])
    <3>1. Known(t) /\ t.tag = "Record"
      BY <1>2, <1>4, <2>3, Unary_ DEF Child, Family
    <3>2. Known(t.args[j])
      BY <2>3, <3>1, FieldFound
    <3> QED BY <1>1, <2>3, <3>2, MadeFrom
  <2> QED BY <2>1, <2>2, <2>3
<1> QED BY <1>3, <1>4 DEF VisitExprDotRecord

LEMMA InjectMoves ==
  ASSUME TypeLaws, Inv, Owning, NEW kind \in {"Inl", "Inr"}, NEW side \in {1, 2}, Inject(kind, side)
  PROVE  Moves
<1> DEFINE m0 == SetProvisional(mem, Sentinel_("Sum"))
           m == IF Concrete("Sum") THEN Expect(m0, Kid(1), Expected.args[side]) ELSE m0
           t == Deduced(Kid(1))
           r == IF side = 1 THEN Built(Sum_(t, Bot_)) ELSE Sum_(Bot_, t)
<1>1. ~Done
  BY DEF Inject, At
<1>2. Reached(mem) /\ Known(Expected) /\ \A n \in Ids : Known(Deduced(n))
  BY <1>1, Knowledge
<1>3. ASSUME NEW pc, At(kind, pc) PROVE Kid(1) \in Ids
  BY <1>3, Unary_ DEF Child
<1>4. Concrete("Sum") => Known(Expected.args[side])
  BY <1>2, KnownTypes DEF Concrete, Expects, Family
<1>5. CASE At(kind, 0) /\ Visit(m, Kid(1))
  <2>1. Reached(m0)
    BY <1>1, <1>2, KnownTypes, Operations
  <2> HIDE DEF m0
  <2>2. Reached(m)
    BY <1>1, <1>3, <1>4, <1>5, <2>1, Operations
  <2> HIDE DEF m
  <2> QED BY <1>1, <1>5, <2>2, MadeFrom
<1>6. CASE At(kind, 1) /\ Return(Expected)
  BY <1>1, <1>2, <1>6, MadeFrom
<1>7. CASE At(kind, 1) /\ AmbiguousFrom(mem, r, "ERROR_AMBIGUOUS_SUM_TYPE")
  <2>1. Known(r)
    BY <1>2, <1>3, <1>7, KnownTypes
  <2> HIDE DEF r
  <2> QED BY <1>1, <1>2, <1>7, <2>1, MadeFrom
<1> QED BY <1>5, <1>6, <1>7 DEF Inject

LEMMA VariantMoves ==
  ASSUME TypeLaws, Inv, Owning, VisitExprVariant
  PROVE  Moves
<1> DEFINE known == Concrete("Variant")
           i == IF known THEN FieldAt(Expected.lab, Lab) ELSE 0
           m0 == SetProvisional(mem, Sentinel_("Variant"))
           m1 == Raise(m0, IF known /\ i = 0 THEN VARIANT_LABEL ELSE OK)
           m == Entry(m1)
           r == IF i = 0 THEN m
                ELSE IF Expected.args[i] = None_ THEN m ELSE Expect(m, Kid(1), Expected.args[i])
<1>1. ~Done /\ \E pc : At("Variant", pc)
  BY DEF VisitExprVariant, At
<1>2. Reached(mem) /\ Known(Expected) /\ This \in Ids /\ prog \in Programs
  BY <1>1, Knowledge
<1>3. Reached(m)
  <2>1. Reached(m0)
    BY <1>1, <1>2, KnownTypes, Operations
  <2> HIDE DEF m0
  <2>2. Reached(m1)
    BY <1>1, <2>1, Operations
  <2> HIDE DEF m1
  <2> QED BY <1>1, <2>2, Operations
<1>4. i # 0 => Known(Expected.args[i])
  BY <1>2, FieldFound DEF Concrete, Expects, Family
<1> HIDE DEF m, i
<1>5. CASE Kids # <<>> /\ Visit(r, Kid(1))
  <2>1. Kid(1) \in Ids
    <3>1. Kids \in Seq(Ids)
      BY <1>2, Nodes DEF Kids
    <3> QED BY <1>5, <3>1 DEF Kid
  <2>2. Reached(r)
    BY <1>1, <1>3, <1>4, <2>1, Operations
  <2> HIDE DEF r
  <2> QED BY <1>1, <1>5, <2>2, MadeFrom
<1>6. CASE ReturnFrom(m, Expected)
  BY <1>1, <1>2, <1>3, <1>6, Later, MadeFrom
<1>7. CASE AmbiguousFrom(m, Bot_, "ERROR_AMBIGUOUS_VARIANT_TYPE")
  BY <1>1, <1>3, <1>7, KnownTypes, MadeFrom
<1> QED BY <1>5, <1>6, <1>7 DEF VisitExprVariant, m, i

LEMMA BindingKnown ==
  ASSUME TypeLaws, Inv, Owning, ~Done, NEW k \in Arms, Child(Pattern(k)), Kid(1) \in Ids
  PROVE  Known(Binding(Pattern(k)).type)
<1> DEFINE p == Pattern(k)
           t == Deduced(Kid(1))
<1>1. p \in Ids /\ Known(t) /\ prog \in Programs
  BY Knowledge DEF Child
<1>2. Mode = "cast" => Node(p).kind = "PatternCastAs"
  BY DEF Mode, AllAre
<1>3. Mode = "variant" => Family(t) = "Variant"
  BY DEF Mode
<1>4. Mode = "sum" => Family(t) = "Sum"
  BY DEF Mode
<1>5. \A v, u : Binds(v, u).type = u
  BY DEF Binds
<1>6. Known(BindsNothing.type) /\ Known(BadPattern.type)
      /\ Known([BindsNothing EXCEPT !.error = UNDEFINED_BEHAVIOUR].type)
  <2>1. BindsNothing.type = None_ /\ BadPattern.type = None_
        /\ [BindsNothing EXCEPT !.error = UNDEFINED_BEHAVIOUR].type = None_
    BY DEF BindsNothing, Binds, BadPattern
  <2> QED BY <2>1, KnownTypes
<1>7. \A q, u : Known(u) => Known(BindVar(q, u).type)
  BY <1>5, <1>6 DEF BindVar
<1> HIDE DEF p, t
<1>8. Mode = "cast" => Known(CastBinding(p).type)
  <2>1. Mode = "cast" => Known(Node(p).types[1])
    BY <1>1, <1>2, Written DEF TypedKinds
  <2> QED BY <1>5, <1>6, <2>1 DEF CastBinding
<1>9. Mode = "variant" => Known(VariantBinding(p, t).type)
  <2>1. ASSUME Mode = "variant", ~IsSentinel(t), FieldAt(t.lab, NameOf(p)) # 0
        PROVE  Known(t.args[FieldAt(t.lab, NameOf(p))])
    <3>1. t.tag = "Variant"
      BY <1>3, <2>1 DEF Family
    <3> QED BY <1>1, <2>1, <3>1, FieldFound
  <2> QED BY <1>6, <1>7, <2>1 DEF VariantBinding
<1>10. Mode = "sum" => Known(SumBinding(p, t).type)
  <2>1. Mode = "sum" => Known(Part(t, 1)) /\ Known(Part(t, 2))
    BY <1>1, <1>4, KnownTypes
  <2> QED BY <1>6, <1>7, <2>1 DEF SumBinding
<1>11. Mode \in {"cast", "variant", "sum", "other"}
  BY DEF Mode
<1>12. Known(Binding(p).type)
  BY <1>1, <1>5, <1>6, <1>8, <1>9, <1>10, <1>11 DEF Binding, t
<1> QED BY <1>12 DEF p

LEMMA MatchArmMoves ==
  ASSUME TypeLaws, Inv, Owning, NEW k \in Positions, At("Match", k), k <= ArmCount,
         NEW b, b.var \in Ids \cup {0}, Known(b.type), VisitMatchArm(k, b)
  PROVE  Moves
<1> DEFINE bound == b.var # 0 /\ b.type # None_
           first == IF k = 1 THEN None_ ELSE FirstType(Deduced(ArmExpr(k - 1)))
           m0 == IF bound THEN SetDeduced(mem, b.var, b.type) ELSE mem
           m1 == IF first = None_ THEN m0 ELSE Expect(m0, ArmExpr(k), first)
           m2 == Propagate(m1, ArmExpr(k))
           g == IF bound THEN Guard(NameOf(b.var), b.var) ELSE NoGuards
           f == [Top EXCEPT !.guards = g, !.result = first]
<1>1. ~Done /\ ArmExpr(k) \in Ids /\ k \in Nat /\ k > 0
  BY Arm DEF Child
<1>2. Reached(mem) /\ Hands(Top, mem) /\ Known(Top.result) /\ \A n \in Ids : Known(Deduced(n))
  BY <1>1, Knowledge
<1>3. VisitWith(m2, f, ArmExpr(k))
  BY DEF VisitMatchArm
<1>4. Known(first)
  <2>1. k # 1 => ArmExpr(k - 1) \in Ids
    <3>1. /\ Len(Kids) \in Nat /\ \A i \in 1..Len(Kids) : Kid(i) \in Ids
          /\ DOMAIN Kids = 1..Len(Kids)
      BY AnyMembers
    <3> DEFINE l == Len(Kids)
    <3>2. k \in 1..l
      BY <1>1, <3>1 DEF Positions
    <3>3. k <= (l - 1) \div 2
      BY DEF ArmCount
    <3> HIDE DEF l
    <3>4. l \in Nat
      BY <3>1 DEF l
    <3>5. k # 1 => 2 * (k - 1) + 1 \in 1..l
      BY <1>1, <3>2, <3>3, <3>4
    <3> QED BY <3>1, <3>5 DEF ArmExpr, l
  <2> QED BY <1>2, <2>1, KnownTypes DEF FirstType
<1> HIDE DEF first
<1>5. Reached(m2)
  <2>1. Reached(m0)
    BY <1>1, <1>2, Operations
  <2> HIDE DEF m0
  <2>2. Reached(m1)
    BY <1>1, <1>4, <2>1, Operations
  <2> HIDE DEF m1
  <2> QED BY <1>1, <2>2, Operations
<1> HIDE DEF m2
<1>6. Hands(f, m2)
  <2> HIDE DEF g
  <2> DEFINE h == [Top EXCEPT !.guards = g]
  <2>1. Hands(h, mem)
    BY <1>2, HandedOn
  <2>2. f = [h EXCEPT !.result = first]
    OBVIOUS
  <2> HIDE DEF h, f
  <2>3. Hands(f, mem)
    BY <1>4, <2>1, <2>2, HandedOn DEF Known
  <2> QED BY <1>5, <2>3, Later
<1> HIDE DEF f
<1> QED BY <1>1, <1>3, <1>5, <1>6, MadeFrom

LEMMA MatchMoves ==
  ASSUME TypeLaws, Inv, Owning, VisitExprMatch
  PROVE  Moves
<1>1. ~Done /\ \E pc : At("Match", pc)
  BY DEF VisitExprMatch, At
<1>2. /\ Reached(mem) /\ Hands(Top, mem) /\ Known(Top.result) /\ This \in Ids /\ prog \in Programs
      /\ \A n \in Ids : Known(Deduced(n))
  BY <1>1, Knowledge
<1> DEFINE l == Len(Kids)
<1>3. l \in Nat /\ \A i \in 1..l : Kid(i) \in Ids
  BY <1>1, AnyMembers
<1>4. l >= 1
  BY <1>1, <1>2, Nodes DEF At, Kids
<1>5. ASSUME NEW k \in Positions, At("Match", k), k <= ArmCount, VisitCase(k)
      PROVE  Moves
  <2> DEFINE b == Binding(Pattern(k))
  <2>1. k \in Arms /\ Child(Pattern(k)) /\ Kid(1) \in Ids
    BY <1>3, <1>4, <1>5, Arm
  <2>2. b.var \in Ids \cup {0} /\ Known(b.type)
    BY <1>1, <1>2, <2>1, BindingNode, BindingKnown
  <2> HIDE DEF b
  <2>3. CASE Throw(b.error)
    BY <1>1, <2>3, MadeFrom
  <2>4. CASE VisitWith(mem, [Top EXCEPT !.guards = NoGuards, !.pc = k - 1], Pattern(k))
    <3> DEFINE h == [Top EXCEPT !.guards = NoGuards]
    <3>1. Hands(h, mem)
      BY <1>2, HandedOn
    <3>2. [Top EXCEPT !.guards = NoGuards, !.pc = k - 1] = [h EXCEPT !.pc = k - 1]
      OBVIOUS
    <3> HIDE DEF h
    <3>3. Hands([h EXCEPT !.pc = k - 1], mem)
      BY <3>1, HandedOn
    <3> QED BY <1>1, <1>2, <2>4, <3>2, <3>3, MadeFrom
  <2>5. CASE VisitMatchArm(k, b)
    BY <1>5, <2>2, <2>5, MatchArmMoves
  <2> QED BY <1>5, <2>3, <2>4, <2>5 DEF VisitCase, b
<1>6. CASE \E code : Throw(code)
  BY <1>1, <1>6, MadeFrom
<1>7. CASE Visit(mem, Kid(1))
  BY <1>1, <1>2, <1>7, MadeFrom
<1>8. CASE Return(FirstType(Deduced(ArmExpr(ArmCount))))
  <2>1. ArmExpr(ArmCount) \in Ids
    <3> DEFINE i == 2 * ((l - 1) \div 2) + 1
    <3> HIDE DEF l
    <3>1. i \in 1..l
      BY <1>3, <1>4
    <3>2. Kid(i) \in Ids
      BY <1>3, <3>1
    <3> QED BY <3>2 DEF ArmExpr, ArmCount, l
  <2>2. Known(FirstType(Deduced(ArmExpr(ArmCount))))
    BY <1>2, <2>1 DEF FirstType
  <2> QED BY <1>1, <1>8, <2>2, MadeFrom
<1> QED BY <1>5, <1>6, <1>7, <1>8 DEF VisitExprMatch

LEMMA DataMoves ==
  ASSUME TypeLaws, Inv, Owning, VisitData, ~Done
  PROVE  Moves
<1> USE MadeFrom
<1>1. CASE VisitExprList \/ VisitExprConsList \/ VisitExprHead \/ VisitExprTail
           \/ VisitExprTuple \/ VisitExprDotTuple \/ VisitExprRecord \/ VisitExprDotRecord
           \/ VisitExprVariant \/ VisitExprMatch
  BY <1>1, ListMoves, ConsListMoves, OnListMoves, TupleMoves, DotTupleMoves, RecordMoves,
     DotRecordMoves, VariantMoves, MatchMoves
<1>2. CASE VisitExprIsEmpty
  <2>1. CASE At("IsEmpty", 0) /\ Visit(Expect(SetProvisional(mem, Bool_), Kid(1), Sentinel_("List")), Kid(1))
    <3>1. Kid(1) \in Ids
      BY <2>1, Unary_ DEF Child
    <3>2. Reached(SetProvisional(mem, Bool_))
      BY Knowledge, KnownTypes, Operations
    <3>3. Reached(Expect(SetProvisional(mem, Bool_), Kid(1), Sentinel_("List")))
      BY <3>1, <3>2, KnownTypes, Operations
    <3> QED BY <2>1, <3>3
  <2> QED BY <1>2, <2>1, KnownTypes DEF VisitExprIsEmpty
<1>3. CASE VisitExprInl \/ VisitExprInr
  BY <1>3, InjectMoves DEF VisitExprInl, VisitExprInr
<1>4. CASE VisitPatternCastAs
  <2> DEFINE m0 == CheckType(mem, TypeArg)
             m == IF IsVar(Kid(1)) THEN SetDeduced(m0, Kid(1), TypeArg) ELSE m0
  <2>1. At("PatternCastAs", 0) /\ ReturnFrom(m, TypeArg)
    BY <1>4 DEF VisitPatternCastAs
  <2>2. Kid(1) \in Ids /\ Known(TypeArg)
    BY <2>1, Unary_, Knowledge, Written DEF Child, At, TypedKinds, TypeArg
  <2>3. Reached(m0)
    BY Knowledge, Operations
  <2> HIDE DEF m0
  <2>4. Reached(m)
    BY <2>2, <2>3, Operations
  <2> HIDE DEF m
  <2> QED BY <2>1, <2>2, <2>4, Later
<1> QED BY <1>1, <1>2, <1>3, <1>4 DEF VisitData

(* A declaration: the new exception type, unless there is an error.        *)
LEMMA StoredUnlessRaised ==
  ASSUME NEW m, m.raised # OK, NEW n, NEW t
  PROVE  SetDeduced(m, n, t) = m
BY DEF SetDeduced, StoreDeduced, Checked, Emit, Raise

LEMMA DeclareMoves ==
  ASSUME TypeLaws, Inv, Owning, ~Done, mem.raised = OK, NEW error, NEW e, error = OK => Known(e.type),
         Declare(error, e)
  PROVE  Moves
<1> DEFINE m0 == Raise(mem, error)
           m == SetDeduced(m0, This, e.type)
<1>1. This \in Ids /\ Reached(mem) /\ Known(exn.type)
  BY Knowledge
<1>2. Reached(m0) /\ (error # OK => m0.raised # OK)
  <2>1. error # OK => m0.raised # OK
    BY RaiseFields DEF Inv, Typed, Sound
  <2> QED BY <1>1, <2>1, Operations
<1> HIDE DEF m0
<1>3. Reached(m)
  <2>1. CASE error = OK
    BY <1>1, <1>2, <2>1, Operations
  <2>2. CASE error # OK
    BY <1>2, <2>2, StoredUnlessRaised
  <2> QED BY <2>1, <2>2
<1>4. Finish(m) /\ exn' \in {exn, e} /\ (exn' = e \/ exn' = exn) /\ (error # OK => exn' = exn)
  BY DEF Declare, m0
<1> HIDE DEF m
<1>5. Known(exn'.type)
  BY <1>1, <1>4
<1> QED BY <1>3, <1>4, <1>5, Later, FinishMoves

LEMMA ExceptionTypeMoves ==
  ASSUME TypeLaws, Inv, Agree, Owning, VisitDeclExceptionType
  PROVE  Moves
<1> DEFINE e == [exn EXCEPT !.type = TypeArg, !.monotype = TRUE]
<1>1. ~Done /\ mem.raised = OK /\ Node(This).kind = "DeclExceptionType"
  BY DEF VisitDeclExceptionType, At
<1>2. \E error : Declare(error, e)
  BY DEF VisitDeclExceptionType
<1>3. e.type = TypeArg
  BY FieldsUpdated
<1>4. Known(TypeArg)
  BY <1>1, Knowledge, Written DEF TypeArg, TypedKinds
<1> HIDE DEF e
<1> QED BY <1>1, <1>2, <1>3, <1>4, DeclareMoves

LEMMA ExceptionVariantMoves ==
  ASSUME TypeLaws, Inv, Agree, Owning, VisitDeclExceptionVariant
  PROVE  Moves
<1> DEFINE labs == IF Family(exn.type) = "Variant" THEN exn.type.lab ELSE <<>>
           args == IF Family(exn.type) = "Variant" THEN exn.type.args ELSE <<>>
           ls == Append(labs, Lab)
           as == Append(args, TypeArg)
           t == Variant_(ls, as)
           e == [exn EXCEPT !.type = t, !.labels = @ \cup {Lab}]
           error == IF in_body THEN "ERROR_ILLEGAL_LOCAL_OPEN_VARIANT_EXCEPTION"
                    ELSE IF exn.monotype THEN "ERROR_CONFLICTING_EXCEPTION_DECLARATIONS"
                    ELSE IF Lab \in exn.labels THEN "ERROR_DUPLICATE_EXCEPTION_VARIANT"
                    ELSE OK
<1>1. ~Done /\ mem.raised = OK /\ Node(This).kind = "DeclExceptionVariant"
  BY DEF VisitDeclExceptionVariant, At
<1>2. Declare(error, e)
  BY DEF VisitDeclExceptionVariant
<1>3. e.type = t
  <2> HIDE DEF t
  <2> QED BY FieldsUpdated
<1>4. Known(TypeArg) /\ Known(exn.type)
  BY <1>1, Knowledge, Written DEF TypeArg, TypedKinds
<1>5. error = OK => ~exn.monotype
  BY DEF OK
<1>6. ASSUME ~exn.monotype
      PROVE  /\ IsSequence(labs) /\ IsSequence(args) /\ Len(args) = Len(labs)
             /\ \A i \in DOMAIN args : Known(args[i])
  <2>1. CASE exn.labels = {}
    <3>1. exn.type = None_
      BY <1>6, <2>1 DEF Agree
    <3>2. Family(None_) # "Variant"
      BY DEF Family, None_, Leaf, Term, IsSentinel
    <3>3. labs = <<>> /\ args = <<>>
      BY <3>1, <3>2
    <3> QED BY <3>3, ShortSequences
  <2>2. CASE exn.labels # {}
    <3>1. Family(exn.type) = "Variant"
      BY <2>2 DEF Agree, Family, IsSentinel
    <3>2. labs = exn.type.lab /\ args = exn.type.args
      BY <3>1
    <3> HIDE DEF labs, args
    <3>3. \A i \in DOMAIN args : Known(args[i])
      BY <1>4, <3>2, Component DEF Known, Fits
    <3> QED BY <2>2, <3>2, <3>3 DEF Agree
  <2> QED BY <2>1, <2>2
<1> HIDE DEF e, error, labs, args
<1>7. ASSUME ~exn.monotype PROVE Known(t)
  <2>1. PICK S : labs \in Seq(S) /\ args \in Seq(S)
    BY <1>6, <1>7, CommonElements
  <2> DEFINE V == S \cup {Lab, TypeArg}
             n == Len(labs)
  <2>2. S \subseteq V /\ Lab \in V /\ TypeArg \in V
    OBVIOUS
  <2> HIDE DEF V
  <2>3. labs \in Seq(V) /\ args \in Seq(V)
    BY <2>1, <2>2
  <2>4. /\ n \in Nat /\ DOMAIN ls = 1..(n + 1) /\ DOMAIN as = 1..(n + 1)
        /\ as[n + 1] = TypeArg /\ \A i \in 1..n : i \in DOMAIN args /\ as[i] = args[i]
    BY <1>6, <1>7, <2>2, <2>3
  <2> HIDE DEF ls, as, n
  <2>5. \A i \in 1..(n + 1) : i \in 1..n \/ i = n + 1
    BY <2>4
  <2>6. \A i \in DOMAIN as : Known(as[i])
    BY <1>4, <1>6, <1>7, <2>4, <2>5
  <2>7. Indexed(ls) /\ DOMAIN ls = DOMAIN as
    BY <2>4 DEF Indexed
  <2> QED BY <2>6, <2>7, KnownTypes
<1> HIDE DEF t
<1> QED BY <1>1, <1>2, <1>3, <1>5, <1>7, DeclareMoves

LEMMA EffectMoves ==
  ASSUME TypeLaws, Inv, Agree, Owning, VisitEffect, ~Done
  PROVE  Moves
<1>1. /\ This \in Ids /\ prog \in Programs /\ Held(mem) /\ Reached(mem) /\ Hands(Top, mem)
      /\ Known(Expected) /\ Known(exn.type) /\ \A n \in Ids : Known(Deduced(n))
  BY Knowledge
<1>2. Node(This).kind \in TypedKinds => Known(TypeArg)
  BY <1>1, Written DEF TypeArg
<1> USE MadeFrom, KnownTypes, <1>1
<1>3. ASSUME NEW code, Diverge(code) PROVE Moves
  BY <1>3 DEF Diverge
<1>4. CASE VisitExprPanic
  BY <1>3, <1>4 DEF VisitExprPanic
<1>5. CASE VisitDeclExceptionType \/ VisitDeclExceptionVariant
  BY <1>5, ExceptionTypeMoves, ExceptionVariantMoves
<1>6. CASE VisitExprThrow
  <2>1. CASE At("Throw", 0) /\ Visit(Expect(mem, Kid(1), exn.type), Kid(1))
    <3>1. Kid(1) \in Ids
      BY <2>1, Unary_ DEF Child
    <3> QED BY <2>1, <3>1, Operations
  <2> QED BY <1>3, <1>6, <2>1 DEF VisitExprThrow
<1>7. CASE VisitExprTryWith
  BY <1>7, Binary_, Operations DEF VisitExprTryWith, Child
<1>8. ASSUME NEW m, Reached(m), NEW k, VisitWith(m, Bound, k) PROVE Moves
  <2> DEFINE g == IF VarPattern THEN Guard(NameOf(Kid(2)), Kid(2)) ELSE NoGuards
  <2> HIDE DEF g
  <2>1. Hands([Top EXCEPT !.guards = g], m)
    BY <1>8, Later, HandedOn
  <2>2. Bound = [Top EXCEPT !.guards = g]
    BY DEF Bound, g
  <2> QED BY <1>8, <2>1, <2>2
<1>9. CASE VisitExprTryCatch
  <2>1. CASE At("TryCatch", 0)
    <3>1. Kid(1) \in Ids
      BY <2>1, Ternary DEF Child
    <3>2. Throw(NOT_DECLARED) \/ Visit(Propagate(mem, Kid(1)), Kid(1))
      BY <1>9, <2>1 DEF VisitExprTryCatch, At
    <3> QED BY <3>1, <3>2, Operations
  <2>2. CASE At("TryCatch", 1)
    <3> DEFINE m0 == Raise(mem, BadPatternUnless(VarPattern))
               m1 == SetDeduced(m0, Kid(2), exn.type)
               m2 == Expect(m1, Kid(3), Deduced(Kid(1)))
    <3>1. Kid(1) \in Ids /\ Kid(2) \in Ids /\ Kid(3) \in Ids
      BY <2>2, Ternary DEF Child
    <3>2. VisitWith(m2, Bound, Kid(3))
      BY <1>9, <2>2 DEF VisitExprTryCatch, At
    <3>3. Reached(m0)
      BY Operations
    <3> HIDE DEF m0
    <3>4. Reached(m1)
      BY <3>1, <3>3, Operations
    <3> HIDE DEF m1
    <3>5. Reached(m2)
      BY <3>1, <3>4, Operations
    <3> HIDE DEF m2
    <3> QED BY <1>8, <3>2, <3>5
  <2>3. CASE At("TryCatch", 2) /\ Return(Deduced(Kid(1)))
    BY <2>3, Ternary DEF Child
  <2> QED BY <1>9, <2>1, <2>2, <2>3 DEF VisitExprTryCatch
<1>10. CASE VisitExprTypeCast
  <2>1. Known(TypeArg)
    BY <1>2, <1>10 DEF VisitExprTypeCast, At, TypedKinds
  <2> QED BY <1>10, <2>1, Operations DEF VisitExprTypeCast
<1>11. CASE VisitExprTryCastAs
  <2>1. CASE At("TryCastAs", 0) /\ Visit(CheckType(mem, TypeArg), Kid(1))
    BY <2>1, Operations
  <2>2. CASE At("TryCastAs", 1)
    <3> DEFINE m0 == Raise(mem, BadPatternUnless(VarPattern))
               m1 == Propagate(m0, Kid(3))
               m2 == Propagate(m1, Kid(4))
               m3 == SetDeduced(m2, Kid(2), TypeArg)
    <3>1. Kid(2) \in Ids /\ Kid(3) \in Ids /\ Kid(4) \in Ids
      BY <2>2, Quaternary DEF Child
    <3>2. VisitWith(m3, Bound, Kid(3))
      BY <1>11, <2>2 DEF VisitExprTryCastAs, At
    <3>3. Known(TypeArg)
      BY <1>2, <2>2 DEF At, TypedKinds
    <3>4. Reached(m0)
      BY Operations
    <3> HIDE DEF m0
    <3>5. Reached(m1)
      BY <3>1, <3>4, Operations
    <3> HIDE DEF m1
    <3>6. Reached(m2)
      BY <3>1, <3>5, Operations
    <3> HIDE DEF m2
    <3>7. Reached(m3)
      BY <3>1, <3>3, <3>6, Operations
    <3> HIDE DEF m3
    <3> QED BY <1>8, <3>2, <3>7
  <2>3. CASE At("TryCastAs", 2)
    <3> DEFINE m == Expect(mem, Kid(4), Deduced(Kid(3)))
               f == [Top EXCEPT !.guards = NoGuards]
    <3>1. Kid(3) \in Ids /\ Kid(4) \in Ids
      BY <2>3, Quaternary DEF Child
    <3>2. VisitWith(m, f, Kid(4))
      BY <1>11, <2>3 DEF VisitExprTryCastAs, At
    <3>3. Reached(m)
      BY <3>1, Operations
    <3> HIDE DEF m
    <3>4. Hands(f, m)
      BY <3>3, Later, HandedOn
    <3> HIDE DEF f
    <3> QED BY <3>2, <3>3, <3>4
  <2>4. CASE At("TryCastAs", 3) /\ Return(Deduced(Kid(3)))
    BY <2>4, Quaternary DEF Child
  <2> QED BY <1>11, <2>1, <2>2, <2>3, <2>4 DEF VisitExprTryCastAs
<1>12. CASE VisitExprRef
  <2>1. CASE At("Ref", 0)
    <3> DEFINE m0 == SetProvisional(mem, Sentinel_("Ref"))
               m == IF Concrete("Ref") THEN Expect(m0, Kid(1), Part(Expected, 1)) ELSE m0
    <3>1. Visit(m, Kid(1))
      BY <1>12, <2>1 DEF VisitExprRef, At
    <3>2. Kid(1) \in Ids
      BY <2>1, Unary_ DEF Child
    <3>3. Concrete("Ref") => Known(Part(Expected, 1))
      BY DEF Concrete, Expects
    <3>4. Reached(m0)
      BY Operations
    <3> HIDE DEF m0
    <3>5. Reached(m)
      BY <3>2, <3>3, <3>4, Operations
    <3> HIDE DEF m
    <3> QED BY <3>1, <3>5
  <2>2. CASE At("Ref", 1)
    <3> DEFINE t == Deduced(Kid(1))
               asked == Part(Expected, 1)
    <3>1. Throw(CRASH) \/ (Concrete("Ref") /\ Return(Ref_(asked))) \/ Return(Built(Ref_(t)))
      BY <1>12, <2>2 DEF VisitExprRef, At
    <3>2. Known(t)
      BY <2>2, Unary_ DEF Child
    <3>3. Concrete("Ref") => Known(Ref_(asked))
      BY DEF Concrete, Expects
    <3>4. Known(Built(Ref_(t)))
      BY <3>2
    <3> HIDE DEF t, asked
    <3> QED BY <3>1, <3>3, <3>4
  <2> QED BY <1>12, <2>1, <2>2 DEF VisitExprRef
<1>13. CASE VisitExprDeref
  <2>1. CASE At("Deref", 0)
    <3> DEFINE t == IF ConcreteExpected /\ ~Has("#structural-subtyping") THEN Ref_(Expected)
                    ELSE Sentinel_("Ref")
               m == ExpectType(mem, Kid(1), EqualsToOr(t, "ERROR_NOT_A_REFERENCE"))
    <3>1. Visit(m, Kid(1))
      BY <1>13, <2>1 DEF VisitExprDeref, At
    <3>2. Kid(1) \in Ids /\ Known(t)
      BY <2>1, Unary_ DEF Child
    <3> HIDE DEF t
    <3>3. Reached(m)
      BY <3>2, Operations
    <3> HIDE DEF m
    <3> QED BY <3>1, <3>3
  <2>2. CASE At("Deref", 1)
    <3> DEFINE t == Deduced(Kid(1))
    <3>1. Throw(INTERNAL) \/ (Family(t) = "Ref" /\ Return(Part(t, 1)))
      BY <1>13, <2>2 DEF VisitExprDeref, At
    <3>2. Known(t)
      BY <2>2, Unary_ DEF Child
    <3> QED BY <3>1, <3>2
  <2> QED BY <1>13, <2>1, <2>2 DEF VisitExprDeref
<1>14. CASE VisitExprAssign
  <2>1. CASE At("Assign", 0) /\ Visit(Expect(mem, Kid(1), Sentinel_("Ref")), Kid(1))
    BY <2>1, Binary_, Operations DEF Child
  <2>2. CASE At("Assign", 1)
    <3> DEFINE t == Deduced(Kid(1))
               m == Expect(mem, Kid(2), Part(t, 1))
    <3>1. Throw(INTERNAL) \/ (Family(t) = "Ref" /\ Visit(m, Kid(2)))
      BY <1>14, <2>2 DEF VisitExprAssign, At
    <3>2. Known(t) /\ Kid(2) \in Ids
      BY <2>2, Binary_ DEF Child
    <3>3. Family(t) = "Ref" => Reached(m)
      BY <3>2, Operations
    <3> HIDE DEF m, t
    <3> QED BY <3>1, <3>3
  <2> QED BY <1>14, <2>1, <2>2 DEF VisitExprAssign
<1>15. CASE VisitExprConstMemory
  BY <1>15 DEF VisitExprConstMemory
<1> QED BY <1>4, <1>5, <1>6, <1>7, <1>9, <1>10, <1>11, <1>12, <1>13, <1>14, <1>15 DEF VisitEffect

-----------------------------------------------------------------------------
(* Every step.                                                             *)
LEMMA VisitMoves ==
  ASSUME TypeLaws, Inv, Agree, Waiting, Owning,
         VisitProgram \/ VisitFunction \/ VisitData \/ VisitEffect
  PROVE  Moves
<1>1. ~Done
  BY VisitsHaveFrames
<1> QED BY <1>1, ProgramMoves, FunctionMoves, DataMoves, EffectMoves

LEMMA MovesOwning ==
  ASSUME Moves, prog' = prog
  PROVE  Owning'
<1>1. Roots(mem') = Roots(mem)'
  BY DEF Roots, ProgramTypes, Ids, Node
<1>2. Held(mem') => Held(mem)'
  BY <1>1 DEF Held, Slots, SlotsFit, ConstraintsFit, Fits, Ids
<1>3. Held(mem)'
  BY <1>2 DEF Moves, Reached
<1> QED BY <1>1, <1>3 DEF Moves, Owning, Known, Fits

LEMMA StepMoves ==
  ASSUME TypeLaws, Inv, Agree, Waiting, Owning, [Next]_vars
  PROVE  Moves
<1>1. CASE VisitProgram \/ VisitFunction \/ VisitData \/ VisitEffect
  BY <1>1, VisitMoves
<1>2. CASE Unwind
  <2>1. mem' = mem /\ exn' = exn
    BY <1>2 DEF Unwind, decls
  <2>2. \A i \in DOMAIN frames' : i \in DOMAIN frames /\ frames'[i] = frames[i]
    BY <1>2, FramesLeft DEF Unwind
  <2>3. Reached(mem)
    BY MemReached DEF Owning
  <2> QED BY <2>1, <2>2, <2>3 DEF Moves, Owning, Known
<1>3. CASE Exit \/ UNCHANGED vars
  <2>1. mem' = mem /\ exn' = exn /\ frames' = frames
    BY <1>3 DEF Exit, vars
  <2>2. Reached(mem)
    BY MemReached DEF Owning
  <2> QED BY <2>1, <2>2 DEF Moves, Owning, Known
<1> QED BY <1>1, <1>2, <1>3 DEF Next, Step

LEMMA StepOwning ==
  ASSUME TypeLaws, Inv, Agree, Waiting, Owning, [Next]_vars
  PROVE  Owning'
BY StepMoves, MovesOwning, StepKeeps DEF Keeps

LEMMA InitOwning ==
  ASSUME TypeLaws, Init
  PROVE  Waiting /\ Owning
<1> DEFINE f == Frame(1, NoNames)
<1>1. frames = <<f>> /\ mem = NewStorage /\ exn = NoExceptions
  BY DEF Init, Begin
<1>2. f.pc = 0 /\ f.result = None_
  BY DEF Frame
<1> HIDE DEF f
<1>3. DOMAIN frames = {1} /\ frames[1] = f
  BY <1>1
<1>4. Waiting
  BY <1>2, <1>3 DEF Waiting, Waits
<1>5. Known(Absent) /\ Known(None_)
  BY Leaves_ DEF Known, Fits
<1>6. NoExpectation.type = Absent /\ NoExceptions.type = None_
  BY DEF NoExpectation, EqualsTo, NoExceptions
<1> HIDE DEF NoExpectation, NoExceptions
<1>7. /\ {"deduced", "expected", "provisional", "constraints", "new_types", "fresh", "raised"}
           \subseteq DOMAIN NewStorage
      /\ NewStorage.deduced = [n \in Ids |-> Absent]
      /\ NewStorage.expected = [n \in Ids |-> NoExpectation]
      /\ NewStorage.provisional = [n \in Ids |-> Absent]
      /\ NewStorage.constraints = <<>> /\ NewStorage.fresh = 0 /\ NewStorage.new_types = {}
  BY DEF NewStorage
<1>8. Slots(mem) /\ SlotsFit(mem) /\ mem.fresh \in Nat
  BY <1>1, <1>5, <1>6, <1>7 DEF Slots, SlotsFit, Known
<1>9. ConstraintsFit(mem)
  <2>1. mem.constraints = <<>>
    BY <1>1, <1>7
  <2>2. IsSequence(<<>>) /\ DOMAIN <<>> = {}
    <3>1. <<>> \in Seq({})
      OBVIOUS
    <3> QED BY <3>1 DEF IsSequence
  <2> QED BY <2>1, <2>2 DEF ConstraintsFit
<1> QED BY <1>1, <1>2, <1>3, <1>4, <1>5, <1>6, <1>8, <1>9 DEF Owning, Held

(* An exception of UnifyAll, which no visitor throws.                      *)
LEMMA ThrowKeeps ==
  ASSUME Inv, Agree, Waiting, Owning, ~Done, NEW code, Throw(code)
  PROVE  (Inv /\ Agree /\ Waiting /\ Owning)' /\ Roots(mem)' = Roots(mem)
<1>1. mem' = Raise(mem, code) /\ UNCHANGED <<prog, frames, names, in_body, exn>>
  BY DEF Throw, decls
<1>2. Sound(mem')
  BY <1>1, RaiseSound DEF Inv, Typed
<1>3. Inv'
  <2>1. UNCHANGED <<frames, names>> /\ in_body' \in BOOLEAN
    BY <1>1 DEF Inv, Typed
  <2>2. Keeps
    BY <1>1, <1>2, <2>1, AdvancesKeeps DEF Advances
  <2>3. Mirror'
    BY <1>1 DEF Inv, Mirror, Done, Before, Own, Top
  <2>4. Sound(mem)'
    BY <1>1, <1>2, SoundLater
  <2>5. \A i \in (DOMAIN frames)' : TypedFrame(frames[i])'
    <3>1. ASSUME NEW i \in DOMAIN frames' PROVE TypedFrame(frames[i])'
      <4>1. TypedFrame(frames'[i])
        BY <2>2, <3>1 DEF Keeps
      <4> QED BY <1>1, <4>1, FrameLater DEF TypedFrame
    <3> QED BY <3>1
  <2>6. prog' \in Programs /\ names' \in Scopes'
    BY <1>1 DEF Inv, Typed, Scopes, Ids
  <2> QED BY <2>1, <2>3, <2>4, <2>5, <2>6 DEF Inv, Typed
<1>4. Agree' /\ Waiting'
  BY <1>1 DEF Agree, Waiting, Waits, Node, NameOf, Family
<1>5. Follows(mem', mem)
  BY <1>1, RaiseFollows DEF Owning
<1>6. Reached(mem')
  BY <1>5, MemReached, Continues DEF Owning
<1>7. Owning'
  <2>1. Moves
    BY <1>1, <1>6, Later DEF Moves, Owning, Known
  <2> QED BY <1>1, <2>1, MovesOwning
<1>8. Roots(mem)' = Roots(mem)
  BY <1>1, <1>5 DEF Follows, Roots, ProgramTypes, Ids, Node
<1> QED BY <1>3, <1>4, <1>7, <1>8

-----------------------------------------------------------------------------
(* The registry: what the slots and the constraints hold adds nothing.     *)
LEMMA RegisteredRoots ==
  ASSUME NEW m, Held(m)
  PROVE  Registered(m) = Roots(m)
<1>1. \A t \in SlotTypes(m) : AutosOf(t) \subseteq Roots(m)
  BY DEF Held, SlotsFit, Fits, Within, SlotTypes
<1>2. \A t \in Shared(m) : AutosOf(t) \subseteq Roots(m)
  BY DEF Held, ConstraintsFit, Relates, Within, Shared
<1>3. \A t \in ProgramTypes \cup m.new_types : AutosOf(t) \subseteq Roots(m)
  BY DEF Roots
<1>4. Registered(m) \subseteq Roots(m)
  BY <1>1, <1>2, <1>3 DEF Registered, Lasting
<1>5. Roots(m) \subseteq Registered(m)
  BY DEF Registered, Lasting, Roots
<1> QED BY <1>4, <1>5

LEMMA RootsGrow ==
  ASSUME TypeLaws, Inv, Agree, Waiting, Owning, [Next]_vars
  PROVE  Roots(mem) \subseteq Roots(mem)' /\ Begins(mem.constraints, mem'.constraints)
<1>1. prog' = prog
  BY StepKeeps DEF Keeps
<1>2. mem.new_types \subseteq mem'.new_types /\ Begins(mem.constraints, mem'.constraints)
  BY StepMoves DEF Moves, Reached
<1> QED BY <1>1, <1>2 DEF Roots, ProgramTypes, Ids, Node

(* The inductive invariant of the checker with its unifier.                *)
Together == Inv /\ Agree /\ Waiting /\ Owning
Supplied ==
  /\ registry \subseteq Roots(mem)
  /\ phase = "visit" => registry = Roots(mem) /\ constraints = Plain(mem.constraints)

LEMMA UnifyPhases ==
  ASSUME U!StartUnify \/ U!UnifyStep
  PROVE  phase' # "visit" /\ registry' = registry
<1>1. CASE U!StartUnify
  BY <1>1 DEF U!StartUnify
<1>2. CASE U!NextRound
  BY <1>2 DEF U!NextRound
<1>3. CASE U!Finish
  BY <1>3 DEF U!Finish
<1>4. CASE U!MergeSame \/ U!MergeFree
  BY <1>4 DEF U!MergeSame, U!MergeFree, U!Merging, U!Serve
<1>5. CASE U!MergeBound
  <2>1. PICK a, b \in TypeAuto :
          /\ U!Merging(a, b)
          /\ \/ phase' = "ERROR_OCCURS_CHECK_INFINITE_TYPE"
             \/ phase' = "ERROR_UNEXPECTED_TYPE_FOR_EXPRESSION"
             \/ phase' = phase
    BY <1>5, ZenonT(60) DEF U!MergeBound
  <2>2. phase = "unify" /\ registry' = registry
    BY <2>1 DEF U!Merging, U!Serve
  <2> QED BY <2>1, <2>2
<1>6. CASE U!BindBound \/ U!BindFree
  BY <1>6 DEF U!BindBound, U!BindFree, U!Binding, U!Serve
<1> QED BY <1>1, <1>2, <1>3, <1>4, <1>5, <1>6 DEF U!UnifyStep

(* A visitor's step keeps the registry and the constraints up to date.     *)
LEMMA TraverseSupplied ==
  ASSUME TypeLaws, Together, Traverse
  PROVE  Together' /\ Supplied'
<1>1. [Next]_vars
  BY DEF Traverse, Next
<1>2. Together'
  BY <1>1, StepInv, StepAgree, StepWaiting, StepOwning DEF Together
<1>3. prog' = prog
  BY <1>1, StepKeeps DEF Together, Keeps
<1>4. Held(mem')
  BY <1>1, StepMoves DEF Together, Moves, Reached
<1>5. registry' = Roots(mem')
  BY <1>4, RegisteredRoots DEF Traverse
<1>6. Roots(mem') = Roots(mem)'
  BY <1>3 DEF Roots, ProgramTypes, Ids, Node
<1> QED BY <1>2, <1>5, <1>6 DEF Traverse, Supplied, Plain

LEMMA PlainSequence ==
  ASSUME NEW cs, IsSequence(cs)
  PROVE  /\ DOMAIN Plain(cs) = DOMAIN cs /\ Len(Plain(cs)) = Len(cs)
         /\ \A i \in DOMAIN cs : Plain(cs)[i].lhs = cs[i].lhs /\ Plain(cs)[i].rhs = cs[i].rhs
<1>1. DOMAIN cs = 1..Len(cs) /\ Len(cs) \in Nat
  BY SequenceFacts
<1> QED BY <1>1 DEF Plain

LEMMA StartSupplied ==
  ASSUME TypeLaws, Start
  PROVE  Together /\ Supplied
<1>1. exn = NoExceptions => Agree
  <2>1. NoExceptions = [type |-> None_, monotype |-> FALSE, labels |-> {}]
    BY DEF NoExceptions
  <2>2. exn = NoExceptions => exn.type = None_ /\ exn.monotype = FALSE /\ exn.labels = {}
    BY <2>1
  <2> QED BY <2>1, <2>2 DEF Agree
<1>2. Together
  BY <1>1, InitInv, InitOwning DEF Start, Together, Init, Begin
<1>3. registry = Roots(mem)
  BY <1>2, RegisteredRoots DEF Start, NewUnifier, Together, Owning
<1>4. constraints = Plain(mem.constraints)
  <2>1. mem.constraints = <<>>
    BY DEF Start, Init, Begin, NewStorage
  <2>2. Plain(<<>>) = <<>>
    BY DEF Plain
  <2> QED BY <2>1, <2>2 DEF Start, NewUnifier
<1> QED BY <1>2, <1>3, <1>4 DEF Supplied

(* Every step of the two machines.                                         *)
LEMMA ProceedSupplied ==
  ASSUME TypeLaws, Together, Supplied, [Proceed \/ Stopped]_all
  PROVE  Together' /\ Supplied'
<1>1. CASE Traverse
  BY <1>1, TraverseSupplied
<1>2. ASSUME [Next]_vars, registry' = registry, phase' = "visit" => UNCHANGED all
      PROVE  Together' /\ Supplied'
  <2>1. Together'
    BY <1>2, StepInv, StepAgree, StepWaiting, StepOwning DEF Together
  <2>2. Roots(mem) \subseteq Roots(mem)'
    BY <1>2, RootsGrow DEF Together
  <2>3. UNCHANGED all => Roots(mem)' = Roots(mem) /\ Plain(mem.constraints)' = Plain(mem.constraints)
    BY DEF all, vars, unifier, Roots, ProgramTypes, Ids, Node, Plain
  <2> QED BY <1>2, <2>1, <2>2, <2>3 DEF Supplied, all, unifier
<1>3. CASE CallUnifyAll \/ Unify
  BY <1>2, <1>3, UnifyPhases DEF CallUnifyAll, Unify
<1>4. CASE ReturnFromUnifyAll \/ Leaving
  <2>1. phase # "visit" /\ UNCHANGED unifier /\ Next
    BY <1>4 DEF ReturnFromUnifyAll, Leaving, Next, Step
  <2>2. registry' = registry /\ phase' = phase
    BY <2>1 DEF unifier
  <2> QED BY <1>2, <2>1, <2>2
<1>5. CASE ThrowFromUnifyAll
  <2>1. ~Done /\ phase # "visit" /\ Throw(phase) /\ registry' = registry /\ phase' = phase
    BY <1>5 DEF ThrowFromUnifyAll, AtUnifyAll, At, unifier
  <2>2. Together' /\ Roots(mem)' = Roots(mem)
    BY <2>1, ThrowKeeps DEF Together
  <2> QED BY <2>1, <2>2 DEF Supplied
<1>6. CASE Stopped \/ UNCHANGED all
  <2>1. UNCHANGED all /\ [Next]_vars /\ registry' = registry
    BY <1>6 DEF Stopped, all, unifier
  <2> QED BY <1>2, <2>1
<1> QED BY <1>1, <1>3, <1>4, <1>5, <1>6 DEF Proceed

(* UnifyAll takes the constraints out of constraints_ and drops them one   *)
(* by one, and with them the ownership of their types; every variable      *)
(* registered is still in the program or among new_types_, so that the     *)
(* final loop of UnifyAll finds it and reports it when it is unbound       *)
(* (SaveNewType, TypeAuto::Registry).                                      *)
THEOREM RegistryOutlives ==
  ASSUME TypeLaws
  PROVE  Reconstruct => []VariablesOutliveConstraints
<1>1. Start => Together /\ Supplied
  BY StartSupplied
<1>2. Together /\ Supplied /\ [Proceed \/ Stopped]_all => (Together /\ Supplied)'
  BY ProceedSupplied
<1>3. Supplied => VariablesOutliveConstraints
  BY DEF Supplied, VariablesOutliveConstraints, Roots, Lasting
<1> QED BY <1>1, <1>2, <1>3, PTL DEF Reconstruct

(* While the visitors run no variable disappears, constraints_ only grows, *)
(* and each new constraint has a type variable on a side and mentions      *)
(* registered variables only: what UnifyAll, UnifyOne and the Unifier      *)
(* module rely on (AddConstraint, ReconstructionComparator, FreshTypeVar). *)
THEOREM UnifierFed ==
  ASSUME TypeLaws
  PROVE  Reconstruct => VisitorsFeedUnifier
<1> DEFINE Feeds ==
      phase' = "visit" =>
        /\ registry \subseteq registry'
        /\ Len(constraints) <= Len(constraints')
        /\ \A i \in DOMAIN constraints : constraints'[i] = constraints[i]
        /\ \A i \in DOMAIN constraints' \ DOMAIN constraints : Legal(constraints'[i])
<1>1. Start => Together /\ Supplied
  BY StartSupplied
<1>2. Together /\ Supplied /\ [Proceed \/ Stopped]_all => (Together /\ Supplied)'
  BY ProceedSupplied
<1>3. Together /\ Supplied /\ [Proceed \/ Stopped]_all => [Feeds]_all
  <2> SUFFICES ASSUME Together, Supplied, Proceed \/ Stopped, phase' = "visit", ~UNCHANGED all
               PROVE  /\ registry \subseteq registry'
                      /\ Len(constraints) <= Len(constraints')
                      /\ \A i \in DOMAIN constraints : constraints'[i] = constraints[i]
                      /\ \A i \in DOMAIN constraints' \ DOMAIN constraints : Legal(constraints'[i])
    OBVIOUS
  <2>1. Traverse
    BY UnifyPhases DEF Proceed, Stopped, CallUnifyAll, Unify, ReturnFromUnifyAll,
                       ThrowFromUnifyAll, Leaving, unifier
  <2>2. [Next]_vars /\ phase = "visit"
    BY <2>1 DEF Traverse, Next
  <2>3. Roots(mem) \subseteq Roots(mem)' /\ Begins(mem.constraints, mem'.constraints)
    BY <2>2, RootsGrow DEF Together
  <2>4. Together' /\ Supplied'
    BY <1>2
  <2>5. /\ registry = Roots(mem) /\ registry' = Roots(mem)'
        /\ constraints = Plain(mem.constraints) /\ constraints' = Plain(mem'.constraints)
    BY <2>2, <2>4 DEF Supplied, Plain
  <2>6. Held(mem') /\ IsSequence(mem.constraints) /\ IsSequence(mem'.constraints)
    <3>1. Held(mem')
      BY <2>2, StepMoves DEF Together, Moves, Reached
    <3> QED BY <3>1 DEF Together, Owning, Held, ConstraintsFit
  <2>7. registry' = Roots(mem')
    BY <2>1, <2>6, RegisteredRoots DEF Traverse
  <2>8. Len(constraints) <= Len(constraints')
    BY <2>3, <2>5, <2>6, PlainSequence DEF Begins
  <2>9. \A i \in DOMAIN constraints : constraints'[i] = constraints[i]
    <3>1. ASSUME NEW i \in DOMAIN constraints PROVE constraints'[i] = constraints[i]
      <4>1. i \in DOMAIN mem.constraints /\ mem'.constraints[i] = mem.constraints[i]
        BY <2>3, <2>5, <2>6, <3>1, PlainSequence DEF Begins
      <4>2. i \in DOMAIN mem'.constraints
        BY <2>3, <2>6, <4>1, SequenceFacts DEF Begins
      <4> QED BY <2>5, <4>1, <4>2 DEF Plain
    <3> QED BY <3>1
  <2>10. ASSUME NEW i \in DOMAIN constraints' PROVE Legal(constraints'[i])
    <3>1. i \in DOMAIN mem'.constraints
      BY <2>5, <2>6, <2>10, PlainSequence
    <3> DEFINE c == mem'.constraints[i]
    <3>2. Relates(Roots(mem'), c)
      BY <2>6, <3>1 DEF Held, ConstraintsFit
    <3>3. constraints'[i].lhs = c.lhs /\ constraints'[i].rhs = c.rhs
      BY <2>5, <2>6, <3>1, PlainSequence
    <3> HIDE DEF c
    <3>4. c.lhs \in TypeAuto \/ c.rhs \in TypeAuto
      BY <3>2 DEF Relates, Within, TypeLaws, IsTypeLaw, Shaped
    <3> QED BY <2>7, <3>2, <3>3, <3>4 DEF Legal, Relates, Within
  <2> QED BY <2>3, <2>5, <2>8, <2>9, <2>10
<1> QED BY <1>1, <1>2, <1>3, PTL DEF Reconstruct, VisitorsFeedUnifier
=============================================================================
