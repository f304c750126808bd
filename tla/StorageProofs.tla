--------------------------- MODULE StorageProofs ---------------------------
(***************************************************************************)
(* Proofs about the checker's storage and state, for any programs that the *)
(* node classes allow and any relations on types: the state is well typed, *)
(* and deduced types meet the last expectation.                            *)
(***************************************************************************)
EXTENDS CheckerProofs

IsFunction(n) == Node(n).kind \in FunctionKinds

(* A storage with the three attributes that matter.                        *)
IsStorage(m) ==
  /\ {"deduced", "expected", "provisional", "constraints", "raised"} \subseteq DOMAIN m
  /\ DOMAIN m.deduced = Ids /\ DOMAIN m.expected = Ids

(* ExpectationsMet, strengthened: no expectation brings a code that is no  *)
(* error, and nothing is expected of a function declaration, whose type is *)
(* replaced without a comparison.                                          *)
Met(m) ==
  m.raised = OK =>
    \A n \in Ids : Absent \notin {m.deduced[n], m.expected[n].type}
                     => Incompatible(m.deduced[n], m.expected[n].type) = OK
Sound(m) ==
  /\ IsStorage(m)
  /\ \A n \in Ids : /\ m.expected[n].code # OK
                    /\ IsFunction(n) => m.expected[n].type = Absent
  /\ Met(m)

-----------------------------------------------------------------------------
LEMMA RaiseFields ==
  ASSUME NEW m, IsStorage(m), NEW code
  PROVE  /\ IsStorage(Raise(m, code))
         /\ Raise(m, code).deduced = m.deduced /\ Raise(m, code).expected = m.expected
         /\ Raise(m, code).raised = IF m.raised = OK THEN code ELSE m.raised
BY DEF Raise, IsStorage

LEMMA EmitFields ==
  ASSUME NEW m, IsStorage(m), NEW s, NEW from, NEW t, NEW to
  PROVE  LET r == Emit(m, s, from, t, to) IN
         /\ IsStorage(r)
         /\ r.deduced = m.deduced /\ r.expected = m.expected /\ r.raised = m.raised
<1> DEFINE x(cs) == [m EXCEPT !.constraints = cs]
<1>1. \A cs : IsStorage(x(cs)) /\ x(cs).deduced = m.deduced /\ x(cs).expected = m.expected
              /\ x(cs).raised = m.raised
  BY DEF IsStorage
<1>2. Emit(m, s, from, t, to) = m \/ \E cs : Emit(m, s, from, t, to) = x(cs)
  BY DEF Emit
<1> HIDE DEF x
<1> QED BY <1>1, <1>2

LEMMA StoreExpectedFields ==
  ASSUME NEW m, IsStorage(m), NEW n, NEW v
  PROVE  LET r == StoreExpected(m, n, v) IN
         /\ IsStorage(r) /\ r.deduced = m.deduced /\ r.raised = m.raised
         /\ r.expected = IF m.raised = OK THEN [m.expected EXCEPT ![n] = v] ELSE m.expected
BY DEF StoreExpected, IsStorage

LEMMA StoreDeducedFields ==
  ASSUME NEW m, IsStorage(m), NEW n, NEW v
  PROVE  LET r == StoreDeduced(m, n, v) IN
         /\ IsStorage(r) /\ r.expected = m.expected /\ r.raised = m.raised
         /\ r.deduced = IF m.raised = OK THEN [m.deduced EXCEPT ![n] = v] ELSE m.deduced
BY DEF StoreDeduced, IsStorage

LEMMA StoreProvisionalFields ==
  ASSUME NEW m, IsStorage(m), NEW n, NEW v
  PROVE  LET r == StoreProvisional(m, n, v) IN
         IsStorage(r) /\ r.deduced = m.deduced /\ r.expected = m.expected /\ r.raised = m.raised
BY DEF StoreProvisional, IsStorage

(* A check leaves the attributes alone and finds what is incompatible.     *)
LEMMA CheckedFields ==
  ASSUME NEW m, IsStorage(m), NEW n, NEW attr, NEW t, NEW e
  PROVE  LET r == Checked(m, n, attr, t, e) IN
         /\ IsStorage(r) /\ r.deduced = m.deduced /\ r.expected = m.expected
         /\ m.raised # OK => r.raised = m.raised
         /\ r.raised = OK /\ e.code # OK => e = NoExpectation \/ Incompatible(t, e.type) = OK
<1> DEFINE code == Reported(Incompatible(t, e.type), e)
           raised == Raise(m, code)
           emitted == Emit(raised, t, Slot(attr, n), e.type, Slot("expected", n))
<1>1. code = OK /\ e.code # OK => Incompatible(t, e.type) = OK
  BY DEF Reported
<1>2. /\ IsStorage(raised) /\ raised.deduced = m.deduced /\ raised.expected = m.expected
      /\ raised.raised = IF m.raised = OK THEN code ELSE m.raised
  BY RaiseFields
<1> HIDE DEF raised, code
<1>3. /\ IsStorage(emitted) /\ emitted.deduced = raised.deduced
      /\ emitted.expected = raised.expected /\ emitted.raised = raised.raised
  BY <1>2, EmitFields
<1>4. Checked(m, n, attr, t, e) = IF e = NoExpectation THEN m ELSE emitted
  BY DEF Checked, raised, code
<1> HIDE DEF emitted
<1> QED BY <1>1, <1>2, <1>3, <1>4

-----------------------------------------------------------------------------
(* Every operation on the storage keeps it sound.                          *)
LEMMA RaiseSound ==
  ASSUME NEW m, Sound(m), NEW code
  PROVE  Sound(Raise(m, code))
<1>1. IsStorage(m)
  BY DEF Sound
<1> QED BY <1>1, RaiseFields DEF Sound, Met

LEMMA EmitSound ==
  ASSUME NEW m, Sound(m), NEW s, NEW from, NEW t, NEW to
  PROVE  Sound(Emit(m, s, from, t, to))
<1>1. IsStorage(m)
  BY DEF Sound
<1> QED BY <1>1, EmitFields DEF Sound, Met

LEMMA CheckedSound ==
  ASSUME NEW m, Sound(m), NEW n, NEW attr, NEW t, NEW e
  PROVE  Sound(Checked(m, n, attr, t, e))
<1>1. IsStorage(m)
  BY DEF Sound
<1> QED BY <1>1, CheckedFields DEF Sound, Met

LEMMA ExpectTypeSound ==
  ASSUME NEW m, Sound(m), NEW n, ~IsFunction(n), NEW e, e.code # OK
  PROVE  Sound(ExpectType(m, n, e))
<1> DEFINE c == IF e.type = None_ THEN Raise(m, CRASH)
                ELSE IF m.deduced[n] = Absent THEN m ELSE Checked(m, n, "deduced", m.deduced[n], e)
           r == StoreExpected(c, n, e)
<1>1. IsStorage(m)
  BY DEF Sound
<1>2. /\ Sound(c) /\ c.deduced = m.deduced /\ c.expected = m.expected
      /\ c.raised = OK /\ Absent \notin {m.deduced[n], e.type} => Incompatible(m.deduced[n], e.type) = OK
  <2>1. CASE e.type = None_
    <3>1. c = Raise(m, CRASH)
      BY <2>1
    <3>2. CRASH # OK
      BY DEF CRASH, OK
    <3> HIDE DEF c
    <3>3. c.raised # OK
      BY <1>1, <3>1, <3>2, RaiseFields
    <3> QED BY <1>1, <3>1, <3>3, RaiseFields, RaiseSound
  <2>2. CASE e.type # None_ /\ m.deduced[n] = Absent
    BY <2>2
  <2>3. CASE e.type # None_ /\ m.deduced[n] # Absent
    <3>1. c = Checked(m, n, "deduced", m.deduced[n], e)
      BY <2>3
    <3>2. e = NoExpectation => e.type = Absent
      BY DEF NoExpectation, EqualsTo
    <3> HIDE DEF c
    <3> QED BY <1>1, <3>1, <3>2, CheckedFields, CheckedSound
  <2> QED BY <2>1, <2>2, <2>3
<1> HIDE DEF c
<1>3. IsStorage(c)
  BY <1>2 DEF Sound
<1>4. /\ IsStorage(r) /\ r.deduced = c.deduced /\ r.raised = c.raised
      /\ r.expected = IF c.raised = OK THEN [c.expected EXCEPT ![n] = e] ELSE c.expected
  BY <1>3, StoreExpectedFields
<1>5. ExpectType(m, n, e) = r
  BY DEF ExpectType, c
<1> HIDE DEF r
<1>6. CASE c.raised # OK
  BY <1>2, <1>4, <1>5, <1>6 DEF Sound, Met
<1>7. CASE c.raised = OK
  <2>1. \A k \in Ids : r.expected[k] = IF k = n THEN e ELSE m.expected[k]
    BY <1>2, <1>3, <1>4, <1>7 DEF IsStorage
  <2>2. \A k \in Ids : r.expected[k].code # OK /\ (IsFunction(k) => r.expected[k].type = Absent)
    BY <2>1 DEF Sound
  <2>3. Met(r)
    BY <1>2, <1>4, <1>7, <2>1 DEF Sound, Met
  <2> QED BY <1>4, <1>5, <2>2, <2>3 DEF Sound
<1> QED BY <1>6, <1>7

LEMMA SetDeducedSound ==
  ASSUME NEW m, Sound(m), NEW n, NEW t
  PROVE  Sound(SetDeduced(m, n, t))
<1> DEFINE e == m.expected[n]
           c == Checked(m, n, "deduced", t, e)
           r == StoreDeduced(c, n, t)
<1>1. IsStorage(m)
  BY DEF Sound
<1>2. SetDeduced(m, n, t) = r
  BY DEF SetDeduced
<1>3. /\ Sound(c) /\ c.deduced = m.deduced /\ c.expected = m.expected
      /\ c.raised = OK /\ e.code # OK => e = NoExpectation \/ Incompatible(t, e.type) = OK
  <2> HIDE DEF e
  <2> QED BY <1>1, CheckedFields, CheckedSound
<1> HIDE DEF c
<1>4. IsStorage(c)
  BY <1>3 DEF Sound
<1>5. /\ IsStorage(r) /\ r.expected = c.expected /\ r.raised = c.raised
      /\ r.deduced = IF c.raised = OK THEN [c.deduced EXCEPT ![n] = t] ELSE c.deduced
  <2> HIDE DEF e
  <2> QED BY <1>4, StoreDeducedFields
<1> HIDE DEF r
<1>6. CASE c.raised # OK
  BY <1>2, <1>3, <1>5, <1>6 DEF Sound, Met
<1>7. CASE c.raised = OK
  <2>1. \A k \in Ids : r.deduced[k] = IF k = n THEN t ELSE c.deduced[k]
    BY <1>4, <1>5, <1>7 DEF IsStorage
  <2>2. n \in Ids /\ Absent # e.type => Incompatible(t, e.type) = OK
    <3>1. n \in Ids => e.code # OK
      BY DEF Sound
    <3> QED BY <1>3, <1>7, <3>1 DEF NoExpectation, EqualsTo
  <2>3. Met(r)
    BY <1>3, <1>5, <1>7, <2>1, <2>2 DEF Sound, Met
  <2> QED BY <1>2, <1>3, <1>5, <2>3 DEF Sound
<1> QED BY <1>6, <1>7

(* The operations of the visitors on a node k that is no function.         *)
LEMMA OperationsSound ==
  ASSUME NEW m, Sound(m)
  PROVE  /\ \A code : Sound(Raise(m, code))
         /\ \A s, from, t, to : Sound(Emit(m, s, from, t, to))
         /\ \A n, t : Sound(SetDeduced(m, n, t))
         /\ \A t : Sound(SetProvisional(m, t))
         /\ \A t : Sound(CheckType(m, t))
         /\ \A n, t : ~IsFunction(n) => Sound(Expect(m, n, t))
         /\ \A n : ~IsFunction(n) /\ This \in Ids => Sound(Propagate(m, n))
<1>1. ASSUME NEW t PROVE Sound(SetProvisional(m, t))
  <2> DEFINE c == Checked(m, This, "provisional", t, m.expected[This])
  <2>1. Sound(c)
    BY CheckedSound
  <2> HIDE DEF c
  <2>2. Sound(StoreProvisional(c, This, t))
    <3>1. IsStorage(c)
      BY <2>1 DEF Sound
    <3> QED BY <2>1, <3>1, StoreProvisionalFields DEF Sound, Met
  <2> QED BY <2>2 DEF SetProvisional, c
<1>2. ASSUME NEW t PROVE Sound(CheckType(m, t))
  BY RaiseSound DEF CheckType
<1>3. ASSUME NEW n, NEW t, ~IsFunction(n) PROVE Sound(Expect(m, n, t))
  <2>1. EqualsTo(t).code # OK
    BY DEF EqualsTo, MISMATCH, OK
  <2> QED BY <1>3, <2>1, ExpectTypeSound DEF Expect
<1>4. ASSUME NEW n, ~IsFunction(n), This \in Ids PROVE Sound(Propagate(m, n))
  <2>1. m.expected[This].code # OK
    BY <1>4 DEF Sound
  <2> QED BY <1>4, <2>1, ExpectTypeSound DEF Propagate
<1> QED BY <1>1, <1>2, <1>3, <1>4, RaiseSound, EmitSound, SetDeducedSound

LEMMA InferSound ==
  ASSUME Sound(mem), NEW t, NEW new, NEW k
  PROVE  Sound(Infer(t, new, k))
<1> DEFINE x(cs, ns, j) == [mem EXCEPT !.constraints = cs, !.new_types = ns, !.fresh = j]
<1>1. \A cs, ns, j : IsStorage(x(cs, ns, j)) /\ x(cs, ns, j).deduced = mem.deduced
        /\ x(cs, ns, j).expected = mem.expected /\ x(cs, ns, j).raised = mem.raised
  BY DEF IsStorage, Sound
<1>2. \E cs, ns, j : Infer(t, new, k) \in {mem, x(cs, ns, j)}
  BY DEF Infer
<1> HIDE DEF x
<1> QED BY <1>1, <1>2 DEF Sound, Met

-----------------------------------------------------------------------------
(* The state of the checker: TypeOK, with what it rests on.                *)
Scopes   == [Names -> Seq(Ids)]
Steps(n) == Len(Node(n).kids) + Detours(n)
Child(k) == k \in Ids /\ ~IsFunction(k)

TypedFrame(f) ==
  /\ IsFrame(f)
  /\ f.node \in Ids /\ f.pc \in 0..Steps(f.node)
  /\ f.was_in_body \in BOOLEAN
  /\ f.guards \in Scopes /\ f.base \in Scopes

Typed ==
  /\ prog \in Programs
  /\ \A i \in DOMAIN frames : TypedFrame(frames[i])
  /\ names \in Scopes
  /\ in_body \in BOOLEAN
  /\ Sound(mem)

Inv == Mirror /\ Typed

(* What a step of a visitor does: it visits a node of the program with a   *)
(* part of its own still to come, it finishes, or it does neither; and it  *)
(* leaves a sound storage.                                                 *)
Calls(f, k) == TypedFrame(f) /\ f.node = This /\ f.pc < Steps(This) /\ k \in Ids
Advances ==
  /\ prog' = prog /\ in_body' \in BOOLEAN
  /\ Sound(mem')
  /\ \/ \E m, f, k : Call(m, f, k) /\ Calls(f, k)
     \/ \E m : Finish(m)
     \/ UNCHANGED <<frames, names>>

(* The node classes.                                                       *)
LEMMA Nodes ==
  ASSUME prog \in Programs, NEW n \in Ids
  PROVE  /\ Node(n).kids \in Seq(Ids) /\ Len(Node(n).kids) \in Nat
         /\ DOMAIN Node(n).kids = 1..Len(Node(n).kids) /\ Steps(n) \in Nat
         /\ \A i \in DOMAIN Node(n).kids : Node(n).kids[i] \in Ids
         /\ Node(n).kind \in DOMAIN Arity => Len(Node(n).kids) = Arity[Node(n).kind]
         /\ Node(n).kind = "Variant" => Len(Node(n).kids) <= 1
         /\ Node(n).kind = "Match" => Len(Node(n).kids) >= 1
         /\ Node(n).kind = "Var" => Node(n).labs[1] \in Names
         /\ IsFunction(n) => /\ Len(Node(n).kids) >= 2
                             /\ Child(Node(n).kids[1])
                             /\ Child(Node(n).kids[Len(Node(n).kids)])
         /\ ~IsFunction(n) /\ Node(n).kind # "Program" =>
               \A i \in DOMAIN Node(n).kids : Child(Node(n).kids[i])
<1>1. WellBuilt(prog)
  BY GrammarAssumption
<1>2. /\ Node(n).kids \in Seq(Ids)
      /\ Node(n).kind \in DOMAIN Arity => Len(Node(n).kids) = Arity[Node(n).kind]
      /\ Node(n).kind = "Variant" => Len(Node(n).kids) <= 1
      /\ Node(n).kind = "Match" => Len(Node(n).kids) >= 1
      /\ Node(n).kind = "Var" => Node(n).labs[1] \in Names
      /\ IsFunction(n) => /\ Len(Node(n).kids) >= 2
                          /\ ~IsFunction(Node(n).kids[1])
                          /\ ~IsFunction(Node(n).kids[Len(Node(n).kids)])
      /\ ~IsFunction(n) /\ Node(n).kind # "Program" =>
            \A i \in DOMAIN Node(n).kids : ~IsFunction(Node(n).kids[i])
  BY <1>1, Zenon DEF WellBuilt, Ids, Node, IsFunction
<1>3. /\ Len(Node(n).kids) \in Nat /\ DOMAIN Node(n).kids = 1..Len(Node(n).kids)
      /\ \A i \in DOMAIN Node(n).kids : Node(n).kids[i] \in Ids
  BY <1>2
<1>4. Steps(n) \in Nat
  <2>1. Detours(n) \in Nat
    BY DEF Detours
  <2> QED BY <1>3, <2>1 DEF Steps
<1> QED BY <1>2, <1>3, <1>4 DEF Child

LEMMA Arities ==
  /\ \A kind \in {"Fix", "TypeAsc", "IsZero", "Succ", "Pred", "TypeAbstraction", "TypeApplication",
                   "Head", "Tail", "IsEmpty", "DotTuple", "DotRecord", "Inl", "Inr", "Throw",
                   "TypeCast", "Ref", "Deref", "PatternCastAs", "PatternInl", "PatternInr"} :
        kind \in DOMAIN Arity /\ Arity[kind] = 1
  /\ \A kind \in {"Abstraction", "Application", "Sequence", "ConsList", "TryWith", "Assign"} :
        kind \in DOMAIN Arity /\ Arity[kind] = 2
  /\ \A kind \in {"Let", "If", "NatRec", "TryCatch"} : kind \in DOMAIN Arity /\ Arity[kind] = 3
  /\ "TryCastAs" \in DOMAIN Arity /\ Arity["TryCastAs"] = 4
BY DEF Arity

LEMMA TopTyped ==
  ASSUME Inv, ~Done
  PROVE  /\ TypedFrame(Top) /\ This \in Ids /\ prog \in Programs /\ Sound(mem)
         /\ Steps(This) \in Nat /\ Top.pc \in Nat
<1>1. Len(frames) \in DOMAIN frames
  BY TopFrame DEF Inv
<1>2. TypedFrame(Top) /\ This \in Ids /\ prog \in Programs /\ Sound(mem)
  BY <1>1 DEF Inv, Typed, Top, This, TypedFrame
<1> QED BY <1>2, Nodes DEF TypedFrame

(* A node of a class with n members.                                       *)
LEMMA Members ==
  ASSUME Inv, NEW kind, NEW pc, At(kind, pc), kind \in DOMAIN Arity
  PROVE  /\ Len(Kids) = Arity[kind] /\ Steps(This) = Arity[kind]
         /\ \A i \in 1..Arity[kind] : Child(Kid(i))
<1>1. ~Done /\ Node(This).kind = kind
  BY DEF At
<1>2. kind \notin FunctionKinds /\ kind # "Program" /\ kind # "Var"
  BY DEF FunctionKinds, Arity
<1>3. This \in Ids /\ prog \in Programs
  BY <1>1, TopTyped
<1>4. Len(Kids) = Arity[kind] /\ DOMAIN Kids = 1..Len(Kids) /\ \A i \in DOMAIN Kids : Child(Kids[i])
  BY <1>1, <1>2, <1>3, Nodes DEF Kids, IsFunction
<1>5. Steps(This) = Len(Kids)
  <2>1. Len(Kids) \in Nat
    BY <1>3, Nodes DEF Kids
  <2> QED BY <1>1, <1>2, <2>1 DEF Steps, Detours, Kids
<1> QED BY <1>4, <1>5 DEF Kid

LEMMA Unary_ ==
  ASSUME Inv, NEW pc,
         NEW kind \in {"Fix", "TypeAsc", "IsZero", "Succ", "Pred", "TypeAbstraction", "TypeApplication",
                   "Head", "Tail", "IsEmpty", "DotTuple", "DotRecord", "Inl", "Inr", "Throw",
                   "TypeCast", "Ref", "Deref", "PatternCastAs"},
         At(kind, pc)
  PROVE  Steps(This) = 1 /\ Child(Kid(1)) /\ Top.pc = pc
<1>1. kind \in DOMAIN Arity /\ Arity[kind] = 1
  BY Arities
<1>2. Steps(This) = 1 /\ \A i \in 1..1 : Child(Kid(i))
  BY <1>1, Members
<1> QED BY <1>2 DEF At

LEMMA Binary_ ==
  ASSUME Inv, NEW pc,
         NEW kind \in {"Abstraction", "Application", "Sequence", "ConsList", "TryWith", "Assign"},
         At(kind, pc)
  PROVE  Steps(This) = 2 /\ Len(Kids) = 2 /\ Child(Kid(1)) /\ Child(Kid(2)) /\ Top.pc = pc
<1>1. kind \in DOMAIN Arity /\ Arity[kind] = 2
  BY Arities
<1>2. Steps(This) = 2 /\ Len(Kids) = 2 /\ \A i \in 1..2 : Child(Kid(i))
  BY <1>1, Members
<1> QED BY <1>2 DEF At

LEMMA Ternary ==
  ASSUME Inv, NEW pc, NEW kind \in {"Let", "If", "NatRec", "TryCatch"}, At(kind, pc)
  PROVE  Steps(This) = 3 /\ Child(Kid(1)) /\ Child(Kid(2)) /\ Child(Kid(3)) /\ Top.pc = pc
<1>1. kind \in DOMAIN Arity /\ Arity[kind] = 3
  BY Arities
<1>2. Steps(This) = 3 /\ \A i \in 1..3 : Child(Kid(i))
  BY <1>1, Members
<1> QED BY <1>2 DEF At

(* What the visitors are built from.                                       *)
LEMMA BuiltFrom ==
  ASSUME Inv, ~Done
  PROVE  /\ \A m, k : Visit(m, k) /\ Sound(m) /\ k \in Ids /\ Top.pc < Steps(This) => Advances
         /\ \A m, f, k : VisitWith(m, f, k) /\ Sound(m) /\ Calls(f, k) => Advances
         /\ \A m, t : ReturnFrom(m, t) /\ Sound(m) => Advances
         /\ \A t : Return(t) => Advances
         /\ \A m, t, code : AmbiguousFrom(m, t, code) /\ Sound(m) => Advances
         /\ \A code : Throw(code) => Advances
         /\ \A kind, t : Constant(kind, t) => Advances
<1>1. TypedFrame(Top) /\ This \in Ids /\ Sound(mem) /\ in_body \in BOOLEAN
  BY TopTyped DEF Inv, Typed
<1>2. ASSUME NEW m, NEW f, NEW k, VisitWith(m, f, k), Sound(m), Calls(f, k)
      PROVE  Advances
  <2>1. mem' = m /\ prog' = prog /\ in_body' = in_body /\ Call(m, f, k)
    BY <1>2 DEF VisitWith, Call, decls
  <2> QED BY <1>1, <1>2, <2>1 DEF Advances
<1>3. ASSUME NEW m, NEW k, Visit(m, k), Sound(m), k \in Ids, Top.pc < Steps(This)
      PROVE  Advances
  <2>1. Calls(Top, k)
    BY <1>1, <1>3 DEF Calls, This
  <2> QED BY <1>2, <1>3, <2>1 DEF Visit
<1>4. ASSUME NEW m, NEW t, ReturnFrom(m, t), Sound(m)
      PROVE  Advances
  <2> DEFINE r == SetDeduced(m, This, t)
  <2>1. Sound(r)
    BY <1>4, OperationsSound
  <2> HIDE DEF r
  <2>2. Finish(r) /\ mem' = r /\ prog' = prog /\ in_body' = in_body
    BY <1>4 DEF ReturnFrom, Finish, decls, r
  <2> QED BY <1>1, <2>1, <2>2 DEF Advances
<1>5. ASSUME NEW t, Return(t) PROVE Advances
  BY <1>1, <1>4, <1>5 DEF Return
<1>6. ASSUME NEW m, NEW t, NEW code, AmbiguousFrom(m, t, code), Sound(m) PROVE Advances
  BY <1>4, <1>6, RaiseSound DEF AmbiguousFrom
<1>7. ASSUME NEW code, Throw(code) PROVE Advances
  BY <1>1, <1>7, RaiseSound DEF Throw, decls, Advances
<1>8. ASSUME NEW kind, NEW t, Constant(kind, t) PROVE Advances
  BY <1>5, <1>8 DEF Constant
<1> QED BY <1>2, <1>3, <1>4, <1>5, <1>6, <1>7, <1>8

(* The frames visitors call with.                                          *)
LEMMA GuardsTyped ==
  /\ NoGuards \in Scopes
  /\ \A x : \A n \in Ids : Guard(x, n) \in Scopes
<1>1. <<>> \in Seq(Ids) /\ \A n \in Ids : <<n>> \in Seq(Ids)
  OBVIOUS
<1> QED BY <1>1 DEF NoGuards, Scopes, Guard

LEMMA FramesTyped ==
  ASSUME NEW f, TypedFrame(f)
  PROVE  /\ \A ts : LET h == [f EXCEPT !.tvs = ts]
                     IN  TypedFrame(h) /\ h.node = f.node /\ h.pc = f.pc
         /\ \A r : LET h == [f EXCEPT !.result = r]
                    IN  TypedFrame(h) /\ h.node = f.node /\ h.pc = f.pc
         /\ \A g \in Scopes : LET h == [f EXCEPT !.guards = g]
                              IN  TypedFrame(h) /\ h.node = f.node /\ h.pc = f.pc
         /\ \A b \in BOOLEAN : LET h == [f EXCEPT !.was_in_body = b]
                               IN  TypedFrame(h) /\ h.node = f.node /\ h.pc = f.pc
         /\ \A pc \in 0..Steps(f.node) : LET h == [f EXCEPT !.pc = pc]
                              IN  TypedFrame(h) /\ h.node = f.node /\ h.pc = pc
<1>1. ASSUME NEW ts
      PROVE  LET h == [f EXCEPT !.tvs = ts] IN TypedFrame(h) /\ h.node = f.node /\ h.pc = f.pc
  BY DEF TypedFrame, IsFrame
<1>2. ASSUME NEW r
      PROVE  LET h == [f EXCEPT !.result = r] IN TypedFrame(h) /\ h.node = f.node /\ h.pc = f.pc
  BY DEF TypedFrame, IsFrame
<1>3. ASSUME NEW g \in Scopes
      PROVE  LET h == [f EXCEPT !.guards = g] IN TypedFrame(h) /\ h.node = f.node /\ h.pc = f.pc
  <2>1. Stacks(g)
    BY DEF Scopes, Stacks, IsSequence
  <2> QED BY <2>1 DEF TypedFrame, IsFrame
<1>4. ASSUME NEW b \in BOOLEAN
      PROVE  LET h == [f EXCEPT !.was_in_body = b] IN TypedFrame(h) /\ h.node = f.node /\ h.pc = f.pc
  BY DEF TypedFrame, IsFrame
<1>5. ASSUME NEW pc \in 0..Steps(f.node)
      PROVE  LET h == [f EXCEPT !.pc = pc] IN TypedFrame(h) /\ h.node = f.node /\ h.pc = pc
  BY DEF TypedFrame, IsFrame
<1> QED BY <1>1, <1>2, <1>3, <1>4, <1>5

LEMMA CallFrames ==
  ASSUME Inv, ~Done, Top.pc < Steps(This), NEW k \in Ids
  PROVE  /\ Calls(Top, k)
         /\ \A ts : Calls([Top EXCEPT !.tvs = ts], k)
         /\ \A r : Calls([Top EXCEPT !.result = r], k)
         /\ \A g \in Scopes : Calls([Top EXCEPT !.guards = g], k)
BY TopTyped, FramesTyped DEF Calls, This

(* An expectation with an error code of its own.                           *)
LEMMA ExplicitSound ==
  ASSUME NEW m, Sound(m), NEW n, ~IsFunction(n), NEW t, NEW code, code # OK
  PROVE  Sound(ExpectType(m, n, EqualsToOr(t, code)))
<1>1. EqualsToOr(t, code).code # OK
  BY DEF EqualsToOr
<1> HIDE DEF EqualsToOr
<1> QED BY <1>1, ExpectTypeSound

-----------------------------------------------------------------------------
(* The visitors, one by one.                                               *)
LEMMA AbstractionAdvances ==
  ASSUME Inv, VisitExprAbstraction
  PROVE  Advances
<1>1. ~Done
  BY DEF VisitExprAbstraction, At
<1> USE TopTyped, BuiltFrom, <1>1
<1>2. CASE At("Abstraction", 0)
  <2> DEFINE e  == mem.expected[This]
             m0 == IF ConcreteExpected /\ ~Expects("Fun") /\ ~e.explicit
                   THEN [mem EXCEPT !.expected[This] = EqualsToOr(e.type, "ERROR_UNEXPECTED_LAMBDA")]
                   ELSE mem
             m1 == CheckType(SetProvisional(m0, Sentinel_("Fun")), Node(Param).types[1])
             m2 == IF Concrete("Fun") THEN ExpectType(m1, Param, EqualsToOr(Part(e.type, 1), PARAM))
                   ELSE m1
  <2>1. Visit(m2, Param)
    BY <1>2 DEF VisitExprAbstraction, At
  <2>2. Sound(m0)
    <3> DEFINE x(v) == [mem EXCEPT !.expected = v]
               v0 == [mem.expected EXCEPT ![This] = EqualsToOr(e.type, "ERROR_UNEXPECTED_LAMBDA")]
    <3>1. IsStorage(mem) /\ This \in Ids
      BY DEF Sound
    <3>2. /\ DOMAIN v0 = Ids
          /\ \A n \in Ids : v0[n].code # OK /\ v0[n].type = mem.expected[n].type
      <4>1. \A n \in Ids : v0[n] = IF n = This THEN EqualsToOr(e.type, "ERROR_UNEXPECTED_LAMBDA")
                                   ELSE mem.expected[n]
        BY <3>1 DEF IsStorage
      <4>2. \A n \in Ids : mem.expected[n].code # OK
        BY DEF Sound
      <4>3. DOMAIN v0 = Ids
        BY <3>1 DEF IsStorage
      <4>4. /\ EqualsToOr(e.type, "ERROR_UNEXPECTED_LAMBDA").type = e.type
            /\ EqualsToOr(e.type, "ERROR_UNEXPECTED_LAMBDA").code # OK
        BY DEF EqualsToOr, OK
      <4> HIDE DEF v0
      <4> QED BY <4>1, <4>2, <4>3, <4>4
    <3> HIDE DEF v0
    <3>3. \A v : DOMAIN v = Ids => IsStorage(x(v)) /\ x(v).expected = v
                    /\ x(v).deduced = mem.deduced /\ x(v).raised = mem.raised
      BY <3>1 DEF IsStorage
    <3>4. [mem EXCEPT !.expected[This] = EqualsToOr(e.type, "ERROR_UNEXPECTED_LAMBDA")] = x(v0)
      BY DEF v0
    <3>5. Sound(x(v0))
      <4> HIDE DEF x
      <4> QED BY <3>2, <3>3 DEF Sound, Met
    <3> QED BY <3>4, <3>5
  <2> HIDE DEF m0
  <2>3. Sound(m1)
    BY <2>2, OperationsSound
  <2> HIDE DEF m1
  <2>4. Steps(This) = 2 /\ Child(Param) /\ Top.pc = 0
    BY <1>2, Binary_ DEF Param
  <2>5. Sound(m2)
    <3>1. \A t : EqualsToOr(t, PARAM).code # OK
      BY DEF EqualsToOr, PARAM, OK
    <3> QED BY <2>3, <2>4, <3>1, ExpectTypeSound DEF Child
  <2> HIDE DEF m2
  <2> QED BY <2>1, <2>4, <2>5 DEF Child
<1>3. CASE At("Abstraction", 1)
  <2> DEFINE result == IF Expects("Fun") THEN Part(Expected, 2) ELSE None_
             m == IF result = None_ THEN mem ELSE Expect(mem, Body, result)
             g == Guard(NameOf(Param), Param)
             f == [Top EXCEPT !.guards = g]
  <2>1. VisitWith(m, f, Body)
    BY <1>3 DEF VisitExprAbstraction, At
  <2>2. Steps(This) = 2 /\ Child(Param) /\ Child(Body) /\ Top.pc = 1
    BY <1>3, Binary_ DEF Param, Body, Kid
  <2>3. Sound(m)
    BY <2>2, OperationsSound DEF Child
  <2>4. g \in Scopes
    BY <2>2, GuardsTyped DEF Child
  <2> HIDE DEF g, m
  <2>5. Calls(f, Body)
    BY <2>2, <2>4, FramesTyped DEF Calls, This, Child
  <2> HIDE DEF f
  <2> QED BY <2>1, <2>3, <2>5
<1>4. CASE At("Abstraction", 2) /\ Return(Built(Fun_(Deduced(Param), Deduced(Body))))
  BY <1>4
<1> QED BY <1>2, <1>3, <1>4 DEF VisitExprAbstraction

LEMMA FunctionAdvances ==
  ASSUME Inv, VisitFunction, ~Done, ~VisitDeclFun, ~VisitDeclFunGeneric
  PROVE  Advances
<1> USE TopTyped, BuiltFrom
<1>1. CASE VisitParamDecl
  BY <1>1 DEF VisitParamDecl
<1>2. CASE VisitExprAbstraction
  BY <1>2, AbstractionAdvances
<1>3. CASE VisitExprFix
  BY <1>3, Unary_, OperationsSound DEF VisitExprFix, Child
<1>4. CASE VisitExprApplication
  <2> DEFINE t == Deduced(Kid(1))
             fun_type == IF Unresolved(t) THEN Fun_(Fresh(1), Fresh(2)) ELSE t
             inferred == Infer(t, fun_type, 2)
  <2>1. Sound(inferred)
    BY InferSound
  <2> HIDE DEF inferred
  <2>2. CASE At("Application", 1)
    <3>1. Steps(This) = 2 /\ Child(Kid(2)) /\ Top.pc = 1
      BY <2>2, Binary_
    <3>2. Calls([Top EXCEPT !.result = fun_type], Kid(2))
      BY <3>1, CallFrames DEF Child
    <3>3. Sound(Expect(inferred, Kid(2), Part(fun_type, 1)))
      BY <2>1, <3>1, OperationsSound DEF Child
    <3>4. \/ Throw(INTERNAL)
          \/ VisitWith(Expect(inferred, Kid(2), Part(fun_type, 1)),
                       [Top EXCEPT !.result = fun_type], Kid(2))
      BY <1>4, <2>2 DEF VisitExprApplication, At, inferred
    <3> QED BY <3>2, <3>3, <3>4
  <2>3. CASE At("Application", 0) /\ Visit(Expect(mem, Kid(1), Sentinel_("Fun")), Kid(1))
    BY <2>3, Binary_, OperationsSound DEF Child
  <2> QED BY <1>4, <2>2, <2>3 DEF VisitExprApplication
<1>6. CASE VisitExprVar
  <2>1. CASE At("Var", 0) /\ names[Lab] # <<>> /\ Visit(mem, Resolve(Lab))
    <3>1. Lab \in Names /\ Top.pc = 0 /\ Steps(This) \in Nat /\ Steps(This) >= 1
      <4>1. Node(This).kind = "Var" /\ This \in Ids /\ prog \in Programs /\ Top.pc = 0
        BY <2>1 DEF At
      <4>2. Len(Node(This).kids) \in Nat /\ Detours(This) = 1
        BY <4>1, Nodes DEF Detours
      <4> QED BY <4>1, <4>2, Nodes DEF Lab, Steps
    <3>2. names[Lab] \in Seq(Ids)
      BY <3>1 DEF Inv, Typed, Scopes
    <3>3. Resolve(Lab) \in Ids
      BY <2>1, <3>2 DEF Resolve
    <3> QED BY <2>1, <3>1, <3>3
  <2> QED BY <1>6, <2>1 DEF VisitExprVar
<1>7. CASE VisitExprLet
  <2>1. CASE At("Let", 1)
    <3> DEFINE m == Propagate(SetDeduced(mem, Kid(2), Deduced(Kid(1))), Kid(3))
               g == Guard(NameOf(Kid(2)), Kid(2))
    <3>1. Steps(This) = 3 /\ Child(Kid(2)) /\ Child(Kid(3)) /\ Top.pc = 1
      BY <2>1, Ternary
    <3>2. VisitWith(m, [Top EXCEPT !.guards = g], Kid(3))
      BY <1>7, <2>1 DEF VisitExprLet, At
    <3>3. Sound(m) /\ g \in Scopes
      BY <3>1, OperationsSound, GuardsTyped DEF Child
    <3> HIDE DEF m, g
    <3> QED BY <3>1, <3>2, <3>3, CallFrames DEF Child
  <2>2. CASE At("Let", 0) /\ Visit(mem, Kid(1))
    BY <2>2, Ternary DEF Child
  <2> QED BY <1>7, <2>1, <2>2 DEF VisitExprLet
<1>8. CASE VisitExprTypeAsc
  BY <1>8, Unary_, OperationsSound DEF VisitExprTypeAsc, Child
<1>9. CASE VisitExprSequence
  BY <1>9, Binary_, OperationsSound DEF VisitExprSequence, Child
<1>10. CASE VisitExprConstUnit \/ VisitExprConstTrue \/ VisitExprConstFalse \/ VisitExprConstInt
  BY <1>10 DEF VisitExprConstUnit, VisitExprConstTrue, VisitExprConstFalse, VisitExprConstInt
<1>14. CASE VisitExprIf
  BY <1>14, Ternary, OperationsSound DEF VisitExprIf, Child
<1>15. CASE VisitExprIsZero
  BY <1>15, Unary_, OperationsSound DEF VisitExprIsZero, VisitOperator, Child
<1>16. CASE VisitExprSucc
  BY <1>16, Unary_, OperationsSound DEF VisitExprSucc, VisitOperator, Child
<1>17. CASE VisitExprPred
  BY <1>17, Unary_, OperationsSound DEF VisitExprPred, VisitOperator, Child
<1>18. CASE VisitExprNatRec
  <2>1. CASE At("NatRec", 2)
    <3> DEFINE m == ExpectType(mem, Kid(3), EqualsToOr(StepType(Deduced(Kid(2))), MISMATCH))
    <3>1. Steps(This) = 3 /\ Child(Kid(3)) /\ Top.pc = 2
      BY <2>1, Ternary
    <3>2. Visit(m, Kid(3))
      BY <1>18, <2>1 DEF VisitExprNatRec, At
    <3>3. Sound(m)
      <4>1. MISMATCH # OK
        BY DEF MISMATCH, OK
      <4> QED BY <3>1, <4>1, ExplicitSound DEF Child
    <3> HIDE DEF m
    <3> QED BY <3>1, <3>2, <3>3 DEF Child
  <2>2. CASE At("NatRec", 0) /\ Visit(Expect(mem, Kid(1), Nat_), Kid(1))
    BY <2>2, Ternary, OperationsSound DEF Child
  <2>3. CASE /\ At("NatRec", 1)
             /\ Visit(IF Expects("Fun") THEN mem ELSE Propagate(mem, Kid(2)), Kid(2))
    BY <2>3, Ternary, OperationsSound DEF Child
  <2> QED BY <1>18, <2>1, <2>2, <2>3 DEF VisitExprNatRec
<1>20. CASE VisitExprTypeAbstraction
  <2> DEFINE m == SetProvisional(mem, Sentinel_("ForAll"))
  <2>1. Sound(m)
    BY OperationsSound
  <2> HIDE DEF m
  <2>2. CASE At("TypeAbstraction", 0) /\ VisitWith(m, [Top EXCEPT !.tvs = Node(This).labs], Kid(1))
    BY <2>1, <2>2, Unary_, CallFrames DEF Child
  <2> QED BY <1>20, <2>2 DEF VisitExprTypeAbstraction, m
<1>21. CASE VisitExprTypeApplication
  <2> DEFINE m == ExpectType(mem, Kid(1), EqualsToOr(Sentinel_("ForAll"), "ERROR_NOT_A_GENERIC_FUNCTION"))
  <2>1. CASE At("TypeApplication", 0) /\ Visit(m, Kid(1))
    <3>1. Steps(This) = 1 /\ Child(Kid(1)) /\ Top.pc = 0
      BY <2>1, Unary_
    <3>2. Sound(m)
      <4>1. "ERROR_NOT_A_GENERIC_FUNCTION" # OK
        BY DEF OK
      <4> QED BY <3>1, <4>1, ExplicitSound DEF Child
    <3> HIDE DEF m
    <3> QED BY <2>1, <3>1, <3>2 DEF Child
  <2> QED BY <1>21, <2>1, OperationsSound DEF VisitExprTypeApplication
<1> QED BY <1>1, <1>2, <1>3, <1>4, <1>6, <1>7, <1>8, <1>9, <1>10, <1>14, <1>15, <1>16, <1>17,
           <1>18, <1>20, <1>21 DEF VisitFunction

(* A function declaration gives itself a type without a comparison: there  *)
(* is nothing to compare it with.                                          *)
LEMMA KnownSound ==
  ASSUME Inv, ~Done, IsFunction(This), NEW t
  PROVE  Sound([mem EXCEPT !.deduced[This] = t])
<1> DEFINE x(v) == [mem EXCEPT !.deduced = v]
           v0 == [mem.deduced EXCEPT ![This] = t]
<1>1. Sound(mem) /\ IsStorage(mem) /\ This \in Ids
  BY TopTyped DEF Sound
<1>2. DOMAIN v0 = Ids /\ \A n \in Ids : n # This => v0[n] = mem.deduced[n]
  BY <1>1 DEF IsStorage
<1> HIDE DEF v0
<1>3. \A v : DOMAIN v = Ids => IsStorage(x(v)) /\ x(v).deduced = v
                /\ x(v).expected = mem.expected /\ x(v).raised = mem.raised
  BY <1>1 DEF IsStorage
<1>4. [mem EXCEPT !.deduced[This] = t] = x(v0)
  BY DEF v0
<1> HIDE DEF x
<1>5. mem.expected[This].type = Absent
  BY <1>1 DEF Sound
<1>6. Met(x(v0))
  BY <1>1, <1>2, <1>3, <1>5 DEF Sound, Met
<1> QED BY <1>1, <1>2, <1>3, <1>4, <1>6 DEF Sound

LEMMA DeclareFunctionAdvances ==
  ASSUME Inv, NEW kind \in FunctionKinds, NEW params, DeclareFunction(kind, params)
  PROVE  Advances
<1>1. ~Done /\ Node(This).kind = kind
  BY DEF DeclareFunction, At
<1>2. IsFunction(This) /\ This \in Ids /\ prog \in Programs /\ Sound(mem) /\ TypedFrame(Top)
  BY <1>1, TopTyped DEF IsFunction
<1>3. /\ Len(Kids) \in Nat /\ Len(Kids) >= 2 /\ DOMAIN Kids = 1..Len(Kids)
      /\ \A i \in 1..Len(Kids) : Kid(i) \in Ids
      /\ Child(Param) /\ Child(Body) /\ Steps(This) = Len(Kids)
  <2>1. /\ Len(Kids) \in Nat /\ Len(Kids) >= 2 /\ DOMAIN Kids = 1..Len(Kids)
        /\ \A i \in 1..Len(Kids) : Kid(i) \in Ids
        /\ Child(Param) /\ Child(Body)
    BY <1>2, Nodes DEF Kids, Kid, Param, Body
  <2>2. Detours(This) = 0
    BY <1>1 DEF Detours, FunctionKinds
  <2> QED BY <2>1, <2>2 DEF Steps, Kids
<1>4. CASE At(kind, 0)
  <2> DEFINE m == Raise(SetProvisional(mem, Sentinel_(IF kind = "DeclFun" THEN "Fun" ELSE "ForAll")),
                        TypesError(<<TypeArg, Node(Param).types[1]>>, tvars \o params))
  <2>1. Top.pc = 0 /\ 0 \notin Positions /\ Len(Kids) # 0
    BY <1>1, <1>3, <1>4 DEF At, Positions
  <2>2. VisitWith(m, [Top EXCEPT !.tvs = params], Param)
    BY <1>4, <2>1 DEF DeclareFunction, At
  <2>3. Sound(m)
    BY <1>2, OperationsSound
  <2>4. Calls([Top EXCEPT !.tvs = params], Param)
    BY <1>1, <1>3, <2>1, CallFrames DEF Child
  <2> HIDE DEF m
  <2> QED BY <1>1, <2>2, <2>3, <2>4, BuiltFrom
<1>5. ASSUME NEW i \in Positions, At(kind, i), i < Len(Kids),
             NEW known, known = (IF i > 1 THEN mem
                ELSE [mem EXCEPT !.deduced[This] = Generalised(kind, params, Fun_(Deduced(Param), TypeArg))]),
             NEW m, m = (IF Kid(i + 1) = Body THEN Expect(known, Body, TypeArg) ELSE known),
             NEW f, f = (IF i > 1 THEN Top
                         ELSE [Top EXCEPT !.guards = Guard(NameOf(Param), Param), !.was_in_body = in_body]),
             Call(m, f, Kid(i + 1)), in_body' = TRUE
      PROVE  Advances
  <2>1. i \in 1..Len(Kids) /\ i + 1 \in 1..Len(Kids) /\ Top.pc = i
    BY <1>1, <1>3, <1>5 DEF Positions, At
  <2>2. Sound(known)
    BY <1>1, <1>2, <1>5, KnownSound
  <2>3. Sound(m)
    BY <1>3, <1>5, <2>2, OperationsSound DEF Child
  <2>4. Calls(f, Kid(i + 1))
    <3> DEFINE g == Guard(NameOf(Param), Param)
               h == [Top EXCEPT !.guards = g]
    <3>1. g \in Scopes /\ in_body \in BOOLEAN
      BY <1>3, GuardsTyped DEF Child, Inv, Typed
    <3>2. TypedFrame(h) /\ h.node = Top.node /\ h.pc = Top.pc
      <4> HIDE DEF g
      <4> QED BY <1>2, <3>1, FramesTyped
    <3>3. [Top EXCEPT !.guards = g, !.was_in_body = in_body] = [h EXCEPT !.was_in_body = in_body]
      OBVIOUS
    <3> HIDE DEF h
    <3> DEFINE b == [h EXCEPT !.was_in_body = in_body]
    <3>4. TypedFrame(b) /\ b.node = h.node /\ b.pc = h.pc
      BY <3>1, <3>2, FramesTyped
    <3>5. f \in {Top, b}
      BY <1>5, <3>3
    <3> HIDE DEF b
    <3> QED BY <1>2, <1>3, <2>1, <3>2, <3>4, <3>5 DEF Calls, This
  <2>5. mem' = m /\ prog' = prog
    BY <1>5 DEF Call
  <2> QED BY <1>5, <2>3, <2>4, <2>5 DEF Advances
<1>6. ASSUME NEW t, Finish(SetDeduced(mem, This, t)), in_body' = Top.was_in_body
      PROVE  Advances
  <2> DEFINE m == SetDeduced(mem, This, t)
  <2>1. Sound(m)
    BY <1>2, OperationsSound
  <2> HIDE DEF m
  <2>2. Finish(m) /\ mem' = m /\ prog' = prog
    BY <1>6 DEF Finish, m
  <2>3. in_body' \in BOOLEAN
    BY <1>2, <1>6 DEF TypedFrame
  <2> QED BY <2>1, <2>2, <2>3 DEF Advances
<1> QED BY <1>4, <1>5, <1>6 DEF DeclareFunction

LEMMA ProgramAdvances ==
  ASSUME Inv, VisitProgram
  PROVE  Advances
<1>1. ~Done /\ Node(This).kind = "Program"
  BY DEF VisitProgram, At
<1>2. This \in Ids /\ prog \in Programs /\ Sound(mem)
  BY <1>1, TopTyped
<1>3. /\ Len(Kids) \in Nat /\ DOMAIN Kids = 1..Len(Kids) /\ Kids \in Seq(Ids)
      /\ \A i \in 1..Len(Kids) : Kid(i) \in Ids
      /\ Steps(This) = Len(Kids)
  <2>1. /\ Len(Kids) \in Nat /\ DOMAIN Kids = 1..Len(Kids) /\ Kids \in Seq(Ids)
        /\ \A i \in 1..Len(Kids) : Kid(i) \in Ids
    BY <1>2, Nodes DEF Kids, Kid
  <2>2. Detours(This) = 0
    BY <1>1 DEF Detours
  <2> QED BY <2>1, <2>2 DEF Steps, Kids
<1> USE BuiltFrom
<1>4. CASE /\ At("Program", 0) /\ Kids # <<>>
           /\ VisitWith(mem, [Top EXCEPT !.guards = Hoisted], Kid(1))
  <2>1. Top.pc = 0 /\ Len(Kids) # 0
    BY <1>3, <1>4 DEF At
  <2>2. Hoisted \in Scopes
    <3>1. ASSUME NEW x \in Names, \E i \in FunDecls : NameOf(Kid(i)) = x
          PROVE  <<Kid(CHOOSE i \in FunDecls : NameOf(Kid(i)) = x)>> \in Seq(Ids)
      <4>1. (CHOOSE i \in FunDecls : NameOf(Kid(i)) = x) \in DOMAIN Kids
        BY <3>1 DEF FunDecls
      <4> QED BY <1>3, <4>1
    <3>2. <<>> \in Seq(Ids)
      OBVIOUS
    <3> QED BY <3>1, <3>2 DEF Hoisted, Scopes
  <2> QED BY <1>1, <1>2, <1>3, <1>4, <2>1, <2>2, CallFrames
<1>5. ASSUME NEW i \in Positions, At("Program", i), i < Len(Kids), Visit(mem, Kid(i + 1))
      PROVE  Advances
  <2>1. i + 1 \in 1..Len(Kids) /\ Top.pc = i
    BY <1>1, <1>3, <1>5 DEF At, Positions
  <2> QED BY <1>1, <1>2, <1>3, <1>5, <2>1
<1>6. CASE \E code : Throw(code)
  BY <1>1, <1>6
<1>7. CASE \E t : Return(t)
  BY <1>1, <1>7
<1> QED BY <1>4, <1>5, <1>6, <1>7 DEF VisitProgram

-----------------------------------------------------------------------------
(* A node of a class with any number of members.                           *)
LEMMA AnyMembers ==
  ASSUME Inv, NEW pc, NEW kind \in {"List", "Tuple", "Record", "Variant", "Match"}, At(kind, pc)
  PROVE  /\ ~Done /\ This \in Ids /\ Sound(mem) /\ Top.pc = pc
         /\ Len(Kids) \in Nat /\ DOMAIN Kids = 1..Len(Kids) /\ Steps(This) = Len(Kids)
         /\ \A i \in 1..Len(Kids) : Child(Kid(i)) /\ Kid(i) \in Ids
<1>1. ~Done /\ Node(This).kind = kind /\ Top.pc = pc
  BY DEF At
<1>2. This \in Ids /\ prog \in Programs /\ Sound(mem)
  BY <1>1, TopTyped
<1>3. /\ Len(Kids) \in Nat /\ DOMAIN Kids = 1..Len(Kids)
      /\ \A i \in 1..Len(Kids) : Child(Kid(i))
  BY <1>1, <1>2, Nodes DEF Kids, Kid, IsFunction, FunctionKinds
<1>4. Steps(This) = Len(Kids)
  <2>1. Detours(This) = 0
    BY <1>1 DEF Detours
  <2> QED BY <1>3, <2>1 DEF Steps, Kids
<1> QED BY <1>1, <1>2, <1>3, <1>4 DEF Child

LEMMA EntrySound ==
  ASSUME Sound(mem), NEW m, Sound(m)
  PROVE  Sound(Entry(m))
BY DEF Entry

LEMMA ListAdvances ==
  ASSUME Inv, VisitExprList
  PROVE  Advances
<1> DEFINE hint == IF Expects("List") THEN Part(Expected, 1) ELSE None_
           m == Entry(SetProvisional(mem, Sentinel_("List")))
           elem == IF Top.pc = 0 THEN hint ELSE FirstType(Deduced(Kid(Top.pc)))
<1>1. ~Done
  BY DEF VisitExprList, At
<1>2. Sound(m)
  BY <1>1, TopTyped, OperationsSound, EntrySound
<1> HIDE DEF m, elem
<1>3. ASSUME NEW i \in Positions, At("List", i - 1),
             VisitWith(IF elem = None_ THEN m ELSE Expect(m, Kid(i), elem),
                       [Top EXCEPT !.result = elem], Kid(i))
      PROVE  Advances
  <2>1. i \in 1..Len(Kids) /\ Child(Kid(i)) /\ Top.pc < Steps(This)
    BY <1>1, <1>3, AnyMembers DEF Positions
  <2>2. Sound(IF elem = None_ THEN m ELSE Expect(m, Kid(i), elem))
    BY <1>2, <2>1, OperationsSound DEF Child
  <2> QED BY <1>1, <1>3, <2>1, <2>2, BuiltFrom, CallFrames DEF Child
<1>4. CASE \E t, code : AmbiguousFrom(m, t, code)
  BY <1>1, <1>2, <1>4, BuiltFrom
<1>5. CASE \E t : ReturnFrom(m, t)
  BY <1>1, <1>2, <1>5, BuiltFrom
<1> QED BY <1>3, <1>4, <1>5 DEF VisitExprList, m, elem

LEMMA ConsListAdvances ==
  ASSUME Inv, VisitExprConsList
  PROVE  Advances
<1>1. ~Done
  BY DEF VisitExprConsList, At
<1> USE <1>1, TopTyped, BuiltFrom
<1> DEFINE hint == IF Concrete("List") THEN Part(Expected, 1) ELSE None_
           Listed(m, t) == Expect(m, Kid(2), Built(List_(t)))
<1>2. CASE At("ConsList", 0)
  <2> DEFINE m0 == SetProvisional(mem, Sentinel_("List"))
             m1 == Expect(m0, Kid(2), Sentinel_("List"))
             m2 == IF hint = None_ THEN m1 ELSE Listed(Expect(m1, Kid(1), hint), hint)
  <2>1. Steps(This) = 2 /\ Child(Kid(1)) /\ Child(Kid(2)) /\ Top.pc = 0
    BY <1>2, Binary_
  <2>2. Visit(m2, Kid(1))
    BY <1>2 DEF VisitExprConsList, At
  <2>3. Sound(m1)
    BY <2>1, OperationsSound DEF Child
  <2> HIDE DEF m1
  <2>4. Sound(m2)
    <3>1. Sound(Expect(m1, Kid(1), hint))
      BY <2>1, <2>3, OperationsSound DEF Child
    <3>2. Sound(Listed(Expect(m1, Kid(1), hint), hint))
      BY <2>1, <3>1, OperationsSound DEF Child
    <3> QED BY <2>3, <3>2
  <2> HIDE DEF m2
  <2> QED BY <2>1, <2>2, <2>4 DEF Child
<1>3. CASE At("ConsList", 1)
  <2> DEFINE m == IF hint = None_ THEN Listed(mem, Deduced(Kid(1))) ELSE mem
  <2>1. Steps(This) = 2 /\ Child(Kid(2)) /\ Top.pc = 1
    BY <1>3, Binary_
  <2>2. Visit(m, Kid(2))
    BY <1>3 DEF VisitExprConsList, At
  <2>3. Sound(m)
    BY <2>1, OperationsSound DEF Child
  <2> HIDE DEF m
  <2> QED BY <2>1, <2>2, <2>3 DEF Child
<1>4. CASE At("ConsList", 2)
  <2>1. Throw(INTERNAL) \/ \E t, new, k, r : ReturnFrom(Infer(t, new, k), r)
    BY <1>4 DEF VisitExprConsList, At
  <2> QED BY <2>1, InferSound
<1> QED BY <1>2, <1>3, <1>4 DEF VisitExprConsList

LEMMA OnListAdvances ==
  ASSUME Inv, NEW kind \in {"Head", "Tail"}, NEW e, NEW r, OnList(kind, e, r)
  PROVE  Advances
<1>1. ~Done
  BY DEF OnList, At
<1> USE <1>1, TopTyped, BuiltFrom
<1>2. CASE At(kind, 0) /\ Visit(Expect(mem, Kid(1), e), Kid(1))
  BY <1>2, Unary_, OperationsSound DEF Child
<1>3. CASE Throw(INTERNAL) \/ \E t, new, k : ReturnFrom(Infer(t, new, k), r)
  BY <1>3, InferSound
<1> QED BY <1>2, <1>3 DEF OnList

LEMMA TupleAdvances ==
  ASSUME Inv, VisitExprTuple
  PROVE  Advances
<1> DEFINE m == Entry(SetProvisional(SetProvisional(mem, Sentinel_("Tuple")),
                                     Tuple_([j \in DOMAIN Kids |-> Unknown_])))
<1>1. ~Done
  BY DEF VisitExprTuple, At
<1>2. Sound(m)
  BY <1>1, TopTyped, OperationsSound, EntrySound
<1> HIDE DEF m
<1>3. ASSUME NEW i \in Positions, At("Tuple", i - 1),
             NEW t, Visit(m, Kid(i)) \/ Visit(Expect(m, Kid(i), t), Kid(i))
      PROVE  Advances
  <2>1. i \in 1..Len(Kids) /\ Child(Kid(i)) /\ Top.pc < Steps(This)
    BY <1>1, <1>3, AnyMembers DEF Positions
  <2> QED BY <1>1, <1>2, <1>3, <2>1, BuiltFrom, OperationsSound DEF Child
<1>4. CASE \E t : ReturnFrom(m, t)
  BY <1>1, <1>2, <1>4, BuiltFrom
<1> QED BY <1>3, <1>4 DEF VisitExprTuple, m

LEMMA RecordAdvances ==
  ASSUME Inv, VisitExprRecord
  PROVE  Advances
<1> DEFINE ls == Node(This).labs
           shape == Record_(ls, [i \in DOMAIN ls |-> Unknown_])
           m0 == SetProvisional(mem, Sentinel_("Record"))
           m1 == IF Repeated(ls) THEN Raise(m0, "ERROR_DUPLICATE_RECORD_FIELDS")
                 ELSE IF ~Concrete("Record") THEN m0
                 ELSE Emit(Raise(m0, Incompatible(shape, Expected)),
                           shape, Nowhere, Expected, Slot("expected", This))
           m == Entry(m1)
<1>1. ~Done
  BY DEF VisitExprRecord, At
<1>2. Sound(m)
  <2>1. Sound(m0)
    BY <1>1, TopTyped, OperationsSound
  <2> HIDE DEF m0
  <2>2. Sound(m1)
    BY <2>1, OperationsSound
  <2> HIDE DEF m1
  <2> QED BY <1>1, <2>2, TopTyped, EntrySound
<1> HIDE DEF m
<1>3. ASSUME NEW i \in Positions, At("Record", i - 1),
             NEW t, Visit(m, Kid(i)) \/ Visit(Expect(m, Kid(i), t), Kid(i))
      PROVE  Advances
  <2>1. i \in 1..Len(Kids) /\ Child(Kid(i)) /\ Top.pc < Steps(This)
    BY <1>1, <1>3, AnyMembers DEF Positions
  <2> QED BY <1>1, <1>2, <1>3, <2>1, BuiltFrom, OperationsSound DEF Child
<1>4. CASE \E t : ReturnFrom(m, t)
  BY <1>1, <1>2, <1>4, BuiltFrom
<1> QED BY <1>3, <1>4 DEF VisitExprRecord, m

LEMMA InjectAdvances ==
  ASSUME Inv, NEW kind \in {"Inl", "Inr"}, NEW side, Inject(kind, side)
  PROVE  Advances
<1>1. ~Done
  BY DEF Inject, At
<1> USE <1>1, TopTyped, BuiltFrom
<1> DEFINE m0 == SetProvisional(mem, Sentinel_("Sum"))
           m == IF Concrete("Sum") THEN Expect(m0, Kid(1), Expected.args[side]) ELSE m0
<1>2. CASE At(kind, 0) /\ Visit(m, Kid(1))
  <2>1. Steps(This) = 1 /\ Child(Kid(1)) /\ Top.pc = 0
    BY <1>2, Unary_
  <2>2. Sound(m)
    <3>1. Sound(m0)
      BY OperationsSound
    <3> HIDE DEF m0
    <3> QED BY <2>1, <3>1, OperationsSound DEF Child
  <2> HIDE DEF m
  <2> QED BY <1>2, <2>1, <2>2 DEF Child
<1>3. CASE \E t, code : Return(t) \/ AmbiguousFrom(mem, t, code)
  BY <1>3
<1> QED BY <1>2, <1>3 DEF Inject

LEMMA VariantAdvances ==
  ASSUME Inv, VisitExprVariant
  PROVE  Advances
<1> DEFINE known == Concrete("Variant")
           i == IF known THEN FieldAt(Expected.lab, Lab) ELSE 0
           m == Entry(Raise(SetProvisional(mem, Sentinel_("Variant")),
                            IF known /\ i = 0 THEN VARIANT_LABEL ELSE OK))
<1>1. ~Done
  BY DEF VisitExprVariant, At
<1>2. Sound(m)
  BY <1>1, TopTyped, OperationsSound, EntrySound
<1> HIDE DEF m
<1>3. ASSUME At("Variant", 0), Kids # <<>>,
             NEW t, Visit(m, Kid(1)) \/ Visit(Expect(m, Kid(1), t), Kid(1))
      PROVE  Advances
  <2>1. Kids \in Seq(Ids)
    BY <1>1, TopTyped, Nodes DEF Kids
  <2>2. 1 \in 1..Len(Kids)
    BY <1>3, <2>1
  <2>3. Child(Kid(1)) /\ Top.pc < Steps(This)
    BY <1>3, <2>2, AnyMembers
  <2> QED BY <1>1, <1>2, <1>3, <2>3, BuiltFrom, OperationsSound DEF Child
<1>4. CASE \E t, code : ReturnFrom(m, t) \/ AmbiguousFrom(m, t, code)
  BY <1>1, <1>2, <1>4, BuiltFrom
<1> QED BY <1>3, <1>4 DEF VisitExprVariant, m

(* Match.                                                                  *)
LEMMA Arm ==
  ASSUME Inv, NEW k \in Positions, At("Match", k), k <= ArmCount
  PROVE  /\ ~Done /\ Sound(mem) /\ k \in Nat /\ k \in Arms /\ Top.pc = k
         /\ Child(Pattern(k)) /\ Child(ArmExpr(k))
         /\ k < Steps(This) /\ k > 0
<1>1. /\ ~Done /\ Sound(mem) /\ Top.pc = k /\ Len(Kids) \in Nat /\ DOMAIN Kids = 1..Len(Kids)
      /\ Steps(This) = Len(Kids) /\ \A i \in 1..Len(Kids) : Child(Kid(i))
  BY AnyMembers
<1>2. k \in 1..Len(Kids) /\ Len(Kids) >= 1
  BY <1>1 DEF Positions
<1> DEFINE l == Len(Kids)
<1>3. k <= (l - 1) \div 2
  BY DEF ArmCount
<1> HIDE DEF l
<1>4. l \in Nat /\ k \in Nat /\ k >= 1 /\ l >= 1
  BY <1>1, <1>2 DEF l
<1>5. 2 * k \in 1..l /\ 2 * k + 1 \in 1..l /\ k < l /\ (l - 1) \div 2 \in Nat
  BY <1>3, <1>4
<1>6. Child(Kid(2 * k)) /\ Child(Kid(2 * k + 1))
  BY <1>1, <1>5 DEF l
<1>7. k \in Arms
  BY <1>3, <1>4, <1>5 DEF Arms, ArmCount, l
<1> QED BY <1>1, <1>4, <1>5, <1>6, <1>7 DEF Pattern, ArmExpr, l

LEMMA InnerNode ==
  ASSUME prog \in Programs, NEW p \in Ids
  PROVE  /\ Node(p).kind \in {"PatternCastAs", "PatternInl", "PatternInr"} => Inner(p) \in Ids
         /\ Node(p).kids # <<>> => Inner(p) \in Ids
<1>1. Node(p).kids \in Seq(Ids)
  BY Nodes
<1>2. Node(p).kind \in {"PatternCastAs", "PatternInl", "PatternInr"} => Len(Node(p).kids) = 1
  BY Nodes, Arities
<1>3. Node(p).kids # <<>> => Node(p).kids[1] \in Ids
  BY <1>1
<1>4. Node(p).kind \in {"PatternCastAs", "PatternInl", "PatternInr"} => Node(p).kids[1] \in Ids
  <2>1. /\ DOMAIN Node(p).kids = 1..Len(Node(p).kids)
        /\ \A i \in DOMAIN Node(p).kids : Node(p).kids[i] \in Ids
    BY Nodes
  <2>2. 1 \in 1..1
    OBVIOUS
  <2> QED BY <1>2, <2>1, <2>2
<1> QED BY <1>3, <1>4 DEF Inner

LEMMA BindingNode ==
  ASSUME prog \in Programs, NEW k \in Arms, Child(Pattern(k))
  PROVE  Binding(Pattern(k)).var \in Ids \cup {0}
<1> DEFINE p == Pattern(k)
           t == Deduced(Kid(1))
<1>1. p \in Ids
  BY DEF Child
<1>2. Mode = "cast" => Node(p).kind = "PatternCastAs"
  BY DEF Mode, AllAre
<1> HIDE DEF p
<1>3. \A v, u : Binds(v, u).var = v
  BY DEF Binds
<1>4. BindsNothing.var = 0 /\ BadPattern.var = 0
      /\ [BindsNothing EXCEPT !.error = UNDEFINED_BEHAVIOUR].var = 0
  BY DEF BindsNothing, Binds, BadPattern
<1>5. \A q \in Ids : \A u : BindVar(q, u).var \in Ids \cup {0}
  BY <1>3, <1>4 DEF BindVar
<1>6. CastBinding(p).var \in Ids \cup {0} \/ Mode # "cast"
  BY <1>1, <1>2, <1>3, <1>4, InnerNode DEF CastBinding
<1>7. VariantBinding(p, t).var \in Ids \cup {0}
  BY <1>1, <1>4, <1>5, InnerNode DEF VariantBinding
<1>8. SumBinding(p, t).var \in Ids \cup {0}
  BY <1>1, <1>4, <1>5, InnerNode DEF SumBinding
<1>9. Mode \in {"cast", "variant", "sum", "other"}
  BY DEF Mode
<1>10. Binding(p).var \in Ids \cup {0}
  BY <1>1, <1>3, <1>4, <1>6, <1>7, <1>8, <1>9 DEF Binding
<1> QED BY <1>10 DEF p

LEMMA MatchArmAdvances ==
  ASSUME Inv, NEW k \in Positions, At("Match", k), k <= ArmCount,
         NEW b, b.var \in Ids \cup {0}, VisitMatchArm(k, b)
  PROVE  Advances
<1> DEFINE bound == b.var # 0 /\ b.type # None_
           first == IF k = 1 THEN None_ ELSE FirstType(Deduced(ArmExpr(k - 1)))
           m0 == IF bound THEN SetDeduced(mem, b.var, b.type) ELSE mem
           m1 == IF first = None_ THEN m0 ELSE Expect(m0, ArmExpr(k), first)
           m2 == Propagate(m1, ArmExpr(k))
           g == IF bound THEN Guard(NameOf(b.var), b.var) ELSE NoGuards
           f == [Top EXCEPT !.guards = g, !.result = first]
<1>1. /\ ~Done /\ Sound(mem) /\ Child(ArmExpr(k)) /\ Top.pc < Steps(This)
      /\ This \in Ids /\ TypedFrame(Top)
  BY Arm, TopTyped
<1>2. VisitWith(m2, f, ArmExpr(k))
  BY DEF VisitMatchArm
<1>3. Sound(m2)
  <2>1. Sound(m0)
    BY <1>1, OperationsSound
  <2> HIDE DEF m0, first
  <2>2. Sound(m1)
    BY <1>1, <2>1, OperationsSound DEF Child
  <2> HIDE DEF m1
  <2> QED BY <1>1, <2>2, OperationsSound DEF Child
<1> HIDE DEF m2
<1>4. Calls(f, ArmExpr(k))
  <2>1. g \in Scopes
    BY GuardsTyped
  <2> HIDE DEF g, first
  <2> DEFINE h == [Top EXCEPT !.guards = g]
  <2>2. TypedFrame(h) /\ h.node = Top.node /\ h.pc = Top.pc
    BY <1>1, <2>1, FramesTyped
  <2>3. f = [h EXCEPT !.result = first]
    OBVIOUS
  <2> HIDE DEF h, f
  <2>4. TypedFrame(f) /\ f.node = Top.node /\ f.pc = Top.pc
    BY <2>2, <2>3, FramesTyped
  <2> QED BY <1>1, <2>4 DEF Calls, This, Child
<1> HIDE DEF f
<1> QED BY <1>1, <1>2, <1>3, <1>4, BuiltFrom

LEMMA CaseAdvances ==
  ASSUME Inv, NEW k \in Positions, At("Match", k), k <= ArmCount, VisitCase(k)
  PROVE  Advances
<1> DEFINE b == Binding(Pattern(k))
<1>1. /\ ~Done /\ Sound(mem) /\ k \in Nat /\ k \in Arms /\ k < Steps(This) /\ k > 0
      /\ Child(Pattern(k)) /\ TypedFrame(Top) /\ prog \in Programs /\ Steps(This) \in Nat
  BY Arm, TopTyped
<1>2. b.var \in Ids \cup {0}
  BY <1>1, BindingNode
<1> HIDE DEF b
<1>3. CASE Throw(b.error)
  BY <1>1, <1>3, BuiltFrom
<1>4. CASE VisitWith(mem, [Top EXCEPT !.guards = NoGuards, !.pc = k - 1], Pattern(k))
  <2> DEFINE h == [Top EXCEPT !.guards = NoGuards]
             f == [h EXCEPT !.pc = k - 1]
  <2>1. TypedFrame(h) /\ h.node = Top.node
    BY <1>1, GuardsTyped, FramesTyped
  <2>2. [Top EXCEPT !.guards = NoGuards, !.pc = k - 1] = f
    OBVIOUS
  <2> HIDE DEF h
  <2>3. k - 1 \in 0..Steps(h.node)
    BY <1>1, <2>1 DEF This
  <2>4. TypedFrame(f) /\ f.node = h.node /\ f.pc = k - 1
    BY <2>1, <2>3, FramesTyped
  <2> HIDE DEF f
  <2>5. Calls(f, Pattern(k))
    BY <1>1, <2>1, <2>4 DEF Calls, This, Child
  <2> QED BY <1>1, <1>4, <2>2, <2>5, BuiltFrom
<1>5. CASE VisitMatchArm(k, b)
  BY <1>2, <1>5, MatchArmAdvances
<1> QED BY <1>3, <1>4, <1>5 DEF VisitCase, b

LEMMA MatchAdvances ==
  ASSUME Inv, VisitExprMatch
  PROVE  Advances
<1>1. ~Done
  BY DEF VisitExprMatch, At
<1>2. CASE At("Match", 0) /\ Visit(mem, Kid(1))
  <2>1. /\ This \in Ids /\ prog \in Programs /\ Sound(mem) /\ Top.pc = 0
        /\ Len(Kids) \in Nat /\ Steps(This) = Len(Kids)
        /\ \A i \in 1..Len(Kids) : Child(Kid(i))
    BY <1>1, <1>2, AnyMembers, TopTyped
  <2>2. Len(Kids) >= 1
    BY <1>2, <2>1, Nodes DEF At, Kids
  <2> QED BY <1>1, <1>2, <2>1, <2>2, BuiltFrom DEF Child
<1>3. CASE \E k \in Positions : At("Match", k) /\ k <= ArmCount /\ VisitCase(k)
  BY <1>3, CaseAdvances
<1>4. CASE (\E code : Throw(code)) \/ (\E t : Return(t))
  BY <1>1, <1>4, BuiltFrom
<1> QED BY <1>2, <1>3, <1>4 DEF VisitExprMatch

LEMMA DataAdvances ==
  ASSUME Inv, VisitData, ~Done
  PROVE  Advances
<1> USE TopTyped, BuiltFrom
<1>1. CASE VisitExprList \/ VisitExprConsList \/ VisitExprTuple \/ VisitExprRecord
           \/ VisitExprVariant \/ VisitExprMatch
  BY <1>1, ListAdvances, ConsListAdvances, TupleAdvances, RecordAdvances, VariantAdvances,
     MatchAdvances
<1>2. CASE VisitExprHead \/ VisitExprTail
  BY <1>2, OnListAdvances DEF VisitExprHead, VisitExprTail
<1>3. CASE VisitExprIsEmpty
  BY <1>3, Unary_, OperationsSound DEF VisitExprIsEmpty, Child
<1>4. CASE VisitExprDotTuple
  BY <1>4, Unary_, OperationsSound, InferSound DEF VisitExprDotTuple, Child
<1>5. CASE VisitExprDotRecord
  BY <1>5, Unary_, OperationsSound DEF VisitExprDotRecord, Child
<1>6. CASE VisitExprInl \/ VisitExprInr
  BY <1>6, InjectAdvances DEF VisitExprInl, VisitExprInr
<1>7. CASE VisitPatternCastAs
  BY <1>7, OperationsSound DEF VisitPatternCastAs
<1> QED BY <1>1, <1>2, <1>3, <1>4, <1>5, <1>6, <1>7 DEF VisitData

LEMMA Quaternary ==
  ASSUME Inv, NEW pc, At("TryCastAs", pc)
  PROVE  /\ Steps(This) = 4 /\ Top.pc = pc
         /\ Child(Kid(1)) /\ Child(Kid(2)) /\ Child(Kid(3)) /\ Child(Kid(4))
<1>1. Steps(This) = 4 /\ \A i \in 1..4 : Child(Kid(i))
  BY Arities, Members
<1> QED BY <1>1 DEF At

LEMMA BoundFrame ==
  ASSUME Inv, ~Done, Top.pc < Steps(This), Child(Kid(2)), NEW k \in Ids
  PROVE  Calls(Bound, k)
<1> DEFINE g == IF VarPattern THEN Guard(NameOf(Kid(2)), Kid(2)) ELSE NoGuards
<1>1. g \in Scopes
  BY GuardsTyped DEF Child
<1> HIDE DEF g
<1>2. Calls([Top EXCEPT !.guards = g], k)
  BY <1>1, CallFrames
<1> QED BY <1>2 DEF Bound, g

LEMMA EffectAdvances ==
  ASSUME Inv, VisitEffect, ~Done
  PROVE  Advances
<1> USE TopTyped, BuiltFrom
<1>1. CASE VisitExprPanic
  BY <1>1 DEF VisitExprPanic, Diverge
<1>2. CASE VisitDeclExceptionType \/ VisitDeclExceptionVariant
  <2>1. \E error, e : Declare(error, e)
    BY <1>2 DEF VisitDeclExceptionType, VisitDeclExceptionVariant
  <2>2. PICK error, e : Declare(error, e)
    BY <2>1
  <2> DEFINE m == SetDeduced(Raise(mem, error), This, e.type)
  <2>3. Sound(m)
    BY OperationsSound
  <2>4. Finish(m) /\ in_body' = in_body
    BY <2>2 DEF Declare
  <2> HIDE DEF m
  <2>5. mem' = m /\ prog' = prog /\ in_body' \in BOOLEAN
    BY <2>4 DEF Finish, Inv, Typed
  <2> QED BY <2>3, <2>4, <2>5 DEF Advances
<1>4. CASE VisitExprThrow
  BY <1>4, Unary_, OperationsSound DEF VisitExprThrow, Diverge, Child
<1>5. CASE VisitExprTryWith
  BY <1>5, Binary_, OperationsSound DEF VisitExprTryWith, Child
<1>6. CASE VisitExprTryCatch
  <2>1. CASE At("TryCatch", 0)
    <3>1. Steps(This) = 3 /\ Child(Kid(1)) /\ Top.pc = 0
      BY <2>1, Ternary
    <3>2. Throw(NOT_DECLARED) \/ Visit(Propagate(mem, Kid(1)), Kid(1))
      BY <1>6, <2>1 DEF VisitExprTryCatch, At
    <3> QED BY <3>1, <3>2, OperationsSound DEF Child
  <2>2. CASE At("TryCatch", 1)
    <3> DEFINE m0 == Raise(mem, BadPatternUnless(VarPattern))
               m1 == SetDeduced(m0, Kid(2), exn.type)
               m2 == Expect(m1, Kid(3), Deduced(Kid(1)))
    <3>1. Steps(This) = 3 /\ Child(Kid(2)) /\ Child(Kid(3)) /\ Top.pc = 1
      BY <2>2, Ternary
    <3>2. VisitWith(m2, Bound, Kid(3))
      BY <1>6, <2>2 DEF VisitExprTryCatch, At
    <3>3. Sound(m1)
      BY OperationsSound
    <3> HIDE DEF m1
    <3>4. Sound(m2)
      BY <3>1, <3>3, OperationsSound DEF Child
    <3> HIDE DEF m2
    <3> QED BY <3>1, <3>2, <3>4, BoundFrame DEF Child
  <2>3. CASE \E t : Return(t)
    BY <2>3
  <2> QED BY <1>6, <2>1, <2>2, <2>3 DEF VisitExprTryCatch
<1>7. CASE VisitExprTypeCast
  BY <1>7, Unary_, OperationsSound DEF VisitExprTypeCast, Child
<1>8. CASE VisitExprTryCastAs
  <2>1. CASE At("TryCastAs", 0) /\ Visit(CheckType(mem, TypeArg), Kid(1))
    BY <2>1, Quaternary, OperationsSound DEF Child
  <2>2. CASE At("TryCastAs", 1)
    <3> DEFINE m0 == Raise(mem, BadPatternUnless(VarPattern))
               m1 == Propagate(m0, Kid(3))
               m2 == Propagate(m1, Kid(4))
               m3 == SetDeduced(m2, Kid(2), TypeArg)
    <3>1. /\ Steps(This) = 4 /\ Child(Kid(2)) /\ Child(Kid(3)) /\ Child(Kid(4)) /\ Top.pc = 1
      BY <2>2, Quaternary
    <3>2. VisitWith(m3, Bound, Kid(3))
      BY <1>8, <2>2 DEF VisitExprTryCastAs, At
    <3>3. Sound(m1)
      BY <3>1, OperationsSound DEF Child
    <3> HIDE DEF m1
    <3>4. Sound(m3)
      BY <3>1, <3>3, OperationsSound DEF Child
    <3> HIDE DEF m3
    <3> QED BY <3>1, <3>2, <3>4, BoundFrame DEF Child
  <2>3. CASE At("TryCastAs", 2)
    <3> DEFINE m == Expect(mem, Kid(4), Deduced(Kid(3)))
    <3>1. Steps(This) = 4 /\ Child(Kid(4)) /\ Top.pc = 2
      BY <2>3, Quaternary
    <3>2. VisitWith(m, [Top EXCEPT !.guards = NoGuards], Kid(4))
      BY <1>8, <2>3 DEF VisitExprTryCastAs, At
    <3>3. Sound(m)
      BY <3>1, OperationsSound DEF Child
    <3> HIDE DEF m
    <3>4. Calls([Top EXCEPT !.guards = NoGuards], Kid(4))
      BY <3>1, CallFrames, GuardsTyped DEF Child
    <3> QED BY <3>2, <3>3, <3>4
  <2>4. CASE \E t : Return(t)
    BY <2>4
  <2> QED BY <1>8, <2>1, <2>2, <2>3, <2>4 DEF VisitExprTryCastAs
<1>9. CASE VisitExprRef
  BY <1>9, Unary_, OperationsSound DEF VisitExprRef, Child
<1>10. CASE VisitExprDeref
  <2>1. ASSUME NEW t, At("Deref", 0),
               Visit(ExpectType(mem, Kid(1), EqualsToOr(t, "ERROR_NOT_A_REFERENCE")), Kid(1))
        PROVE  Advances
    <3> DEFINE m == ExpectType(mem, Kid(1), EqualsToOr(t, "ERROR_NOT_A_REFERENCE"))
    <3>1. Steps(This) = 1 /\ Child(Kid(1)) /\ Top.pc = 0
      BY <2>1, Unary_
    <3>2. Sound(m)
      <4>1. "ERROR_NOT_A_REFERENCE" # OK
        BY DEF OK
      <4> QED BY <3>1, <4>1, ExplicitSound DEF Child
    <3>3. Visit(m, Kid(1))
      BY <2>1
    <3> HIDE DEF m
    <3> QED BY <3>1, <3>2, <3>3 DEF Child
  <2>2. CASE Throw(INTERNAL) \/ \E t : Return(t)
    BY <2>2
  <2>3. CASE At("Deref", 0)
    <3>1. \E t : Visit(ExpectType(mem, Kid(1), EqualsToOr(t, "ERROR_NOT_A_REFERENCE")), Kid(1))
      <4>1. ~At("Deref", 1)
        BY <2>3 DEF At
      <4> QED BY <1>10, <4>1 DEF VisitExprDeref
    <3> QED BY <2>1, <2>3, <3>1
  <2>4. CASE ~At("Deref", 0)
    BY <1>10, <2>2, <2>4 DEF VisitExprDeref
  <2> QED BY <2>3, <2>4
<1>11. CASE VisitExprAssign
  BY <1>11, Binary_, OperationsSound DEF VisitExprAssign, Child
<1>12. CASE VisitExprConstMemory
  BY <1>12 DEF VisitExprConstMemory
<1> QED BY <1>1, <1>2, <1>4, <1>5, <1>6, <1>7, <1>8, <1>9, <1>10, <1>11, <1>12 DEF VisitEffect
-----------------------------------------------------------------------------
(* What a call, a return and an unwinding keep.                            *)
LEMMA SoundLater ==
  ASSUME prog' = prog, Sound(mem')
  PROVE  Sound(mem)'
BY DEF Sound, IsStorage, Met, Ids, IsFunction, Node, Incompatible, Has

LEMMA FrameLater ==
  ASSUME prog' = prog, NEW f, TypedFrame(f)
  PROVE  /\ f.node \in Ids' /\ f.pc \in 0..Steps(f.node)' /\ f.was_in_body \in BOOLEAN
         /\ IsFrame(f) /\ f.guards \in Scopes' /\ f.base \in Scopes'
BY DEF TypedFrame, Steps, Detours, Scopes, Ids, Node

LEMMA PushTyped ==
  ASSUME NEW b \in Scopes, NEW g \in Scopes
  PROVE  Push(b, g) \in Scopes
<1>1. \A x \in Names : b[x] \o g[x] \in Seq(Ids)
  BY DEF Scopes
<1> QED BY <1>1 DEF Push, Scopes

LEMMA LeaveTyped ==
  ASSUME Inv, ~Done, Leave
  PROVE  /\ \A i \in DOMAIN frames' : TypedFrame(frames'[i])
         /\ names' \in Scopes
<1> DEFINE n == Len(frames)
<1>1. n \in Nat \ {0} /\ DOMAIN frames = 1..n
  BY TopFrame DEF Inv
<1>2. PICK S : frames \in Seq(S)
  BY DEF Inv, Mirror, IsSequence
<1>3. DOMAIN frames' = 1..(n - 1) /\ \A i \in 1..(n - 1) : frames'[i] = frames[i]
  BY <1>1, <1>2 DEF Leave
<1>4. names' = Top.base
  BY TopFrame DEF Leave, Inv
<1> QED BY <1>1, <1>3, <1>4, TopTyped DEF Inv, Typed, TypedFrame

LEMMA CallTyped ==
  ASSUME Inv, ~Done, NEW m, NEW f, NEW k, Call(m, f, k), Calls(f, k)
  PROVE  /\ \A i \in DOMAIN frames' : TypedFrame(frames'[i])
         /\ names' \in Scopes
<1> DEFINE n  == Len(frames)
           ns == Push(Release(names, Top.guards), f.guards)
           g  == [f EXCEPT !.pc = @ + 1]
           kept  == [frames EXCEPT ![n] = g]
           added == IF m.deduced[k] = Absent THEN <<Frame(k, ns)>> ELSE <<>>
<1>1. CASE UNCHANGED <<frames, names>>
  BY <1>1 DEF Inv, Typed
<1>2. CASE names' = ns /\ frames' = kept \o added
  <2>1. n \in Nat \ {0} /\ DOMAIN frames = 1..n
    BY TopFrame DEF Inv
  <2>2. ns \in Scopes
    <3>1. Release(names, Top.guards) = Top.base
      BY TopFrame DEF Inv
    <3> QED BY <3>1, TopTyped, PushTyped DEF Calls, TypedFrame
  <2>3. TypedFrame(g)
    <3>1. f.pc + 1 \in 0..Steps(f.node)
      BY TopTyped DEF Calls, TypedFrame
    <3> QED BY <3>1, FramesTyped DEF Calls
  <2>4. TypedFrame(Frame(k, ns))
    <3> HIDE DEF ns
    <3>1. Stacks(ns) /\ Stacks(NoGuards) /\ NoGuards \in Scopes
      BY <2>2, NoGuardsStacks, GuardsTyped DEF Scopes, Stacks, IsSequence
    <3>2. k \in Ids /\ 0 \in 0..Steps(k)
      BY TopTyped, Nodes DEF Calls
    <3> QED BY <2>2, <3>1, <3>2 DEF TypedFrame, IsFrame, Frame
  <2> HIDE DEF g
  <2>5. IsSequence(kept) /\ Len(kept) = n /\ kept[n] = g
        /\ \A i \in 1..(n - 1) : kept[i] = frames[i]
    <3>1. IsSequence(frames) /\ Len(frames) # 0
      BY <2>1 DEF Inv, Mirror
    <3> QED BY <3>1, Updated
  <2>6. \A i \in 1..n : TypedFrame(kept[i])
    BY <2>1, <2>3, <2>5 DEF Inv, Typed
  <2> HIDE DEF ns, kept, n
  <2>7. CASE added = <<>>
    <3>1. frames' = kept /\ DOMAIN kept = 1..n
      BY <1>2, <2>5, <2>7, ConcatEmpty, SequenceFacts
    <3> QED BY <1>2, <2>2, <2>6, <3>1
  <2>8. CASE added = <<Frame(k, ns)>>
    <3> HIDE DEF added
    <3>1. /\ IsSequence(frames') /\ Len(frames') = n + 1
          /\ \A i \in 1..n : frames'[i] = kept[i]
          /\ frames'[n + 1] = Frame(k, ns)
      BY <1>2, <2>5, <2>8, Extended
    <3>2. DOMAIN frames' = 1..(n + 1)
      BY <3>1, SequenceFacts
    <3>3. \A i \in 1..(n + 1) : i \in 1..n \/ i = n + 1
      BY <2>1 DEF n
    <3> QED BY <1>2, <2>2, <2>4, <2>6, <3>1, <3>2, <3>3
  <2> QED BY <2>7, <2>8
<1> QED BY <1>1, <1>2 DEF Call

-----------------------------------------------------------------------------
LEMMA InitInv ==
  ASSUME Init
  PROVE  Inv
<1> DEFINE f == Frame(1, NoNames)
<1>1. /\ prog \in Programs /\ frames = <<f>> /\ names = NoNames
      /\ in_body = FALSE /\ mem = NewStorage
  BY DEF Init, Begin
<1>2. 1 \in Ids
  <2>1. WellBuilt(prog)
    BY <1>1, GrammarAssumption
  <2>2. Len(prog.node) \in Nat \ {0}
    BY <2>1 DEF WellBuilt
  <2> QED BY <2>2 DEF Ids
<1>3. NoNames \in Scopes
  BY NoGuardsStacks, GuardsTyped
<1>4. TypedFrame(f)
  <2>1. Stacks(NoNames) /\ Stacks(NoGuards) /\ NoGuards = NoNames
    BY NoGuardsStacks
  <2>2. 0 \in 0..Steps(1)
    BY <1>1, <1>2, Nodes
  <2> QED BY <1>2, <1>3, <2>1, <2>2 DEF TypedFrame, IsFrame, Frame
<1>5. Sound(mem)
  <2>1. /\ IsStorage(NewStorage)
        /\ \A n \in Ids : NewStorage.deduced[n] = Absent /\ NewStorage.expected[n] = NoExpectation
    BY DEF NewStorage, IsStorage
  <2>2. NoExpectation.type = Absent /\ NoExpectation.code # OK
    BY DEF NoExpectation, EqualsTo, MISMATCH, OK
  <2> HIDE DEF NewStorage, NoExpectation
  <2> QED BY <1>1, <2>1, <2>2 DEF Sound, Met
<1> HIDE DEF f
<1>6. DOMAIN frames = {1} /\ frames[1] = f
  BY <1>1
<1> QED BY <1>1, <1>3, <1>4, <1>5, <1>6, InitMirror DEF Inv, Typed

(* What every step keeps.                                                  *)
Keeps ==
  /\ prog' = prog /\ in_body' \in BOOLEAN /\ Sound(mem')
  /\ \A i \in DOMAIN frames' : TypedFrame(frames'[i])
  /\ names' \in Scopes

LEMMA AdvancesKeeps ==
  ASSUME Inv, ~Done, Advances
  PROVE  Keeps
<1>1. /\ prog' = prog /\ in_body' \in BOOLEAN /\ Sound(mem')
  BY DEF Advances
<1>2. CASE \E m, f, k : Call(m, f, k) /\ Calls(f, k)
  BY <1>1, <1>2, CallTyped DEF Keeps
<1>3. CASE \E m : Finish(m)
  <2>1. Leave \/ UNCHANGED <<frames, names>>
    BY <1>3 DEF Finish
  <2> QED BY <1>1, <2>1, LeaveTyped DEF Keeps, Inv, Typed
<1>4. CASE UNCHANGED <<frames, names>>
  BY <1>1, <1>4 DEF Keeps, Inv, Typed
<1> QED BY <1>2, <1>3, <1>4 DEF Advances

LEMMA StepKeeps ==
  ASSUME Inv, [Next]_vars
  PROVE  Keeps
<1>1. CASE Unwind
  BY <1>1, LeaveTyped DEF Unwind, decls, Keeps, Inv, Typed
<1>2. CASE Exit \/ UNCHANGED vars
  BY <1>2 DEF Exit, vars, Keeps, Inv, Typed
<1>3. CASE VisitProgram \/ VisitFunction \/ VisitData \/ VisitEffect
  <2>1. ~Done
    BY <1>3, VisitsHaveFrames
  <2>2. CASE VisitDeclFun \/ VisitDeclFunGeneric
    <3>1. \A kind \in {"DeclFun", "DeclFunGeneric"} : kind \in FunctionKinds
      BY DEF FunctionKinds
    <3> QED BY <2>1, <2>2, <3>1, DeclareFunctionAdvances, AdvancesKeeps
            DEF VisitDeclFun, VisitDeclFunGeneric
  <2>3. CASE ~VisitDeclFun /\ ~VisitDeclFunGeneric
    BY <1>3, <2>1, <2>3, ProgramAdvances, FunctionAdvances, DataAdvances, EffectAdvances, AdvancesKeeps
  <2> QED BY <2>2, <2>3
<1> QED BY <1>1, <1>2, <1>3 DEF Next, Step

LEMMA StepInv ==
  ASSUME Inv, [Next]_vars
  PROVE  Inv'
<1>1. Mirror'
  BY StepMirror DEF Inv
<1>2. Keeps
  BY StepKeeps
<1>3. Sound(mem)'
  BY <1>2, SoundLater DEF Keeps
<1>4. \A i \in (DOMAIN frames)' : TypedFrame(frames[i])'
  <2>1. ASSUME NEW i \in (DOMAIN frames)' PROVE TypedFrame(frames[i])'
    <3>1. TypedFrame(frames'[i]) /\ prog' = prog
      BY <1>2, <2>1 DEF Keeps
    <3> QED BY <3>1, FrameLater DEF TypedFrame
  <2> QED BY <2>1
<1>5. prog' \in Programs /\ names' \in Scopes' /\ in_body' \in BOOLEAN
  BY <1>2 DEF Keeps, Inv, Typed, Scopes, Ids
<1> QED BY <1>1, <1>3, <1>4, <1>5 DEF Inv, Typed

-----------------------------------------------------------------------------
(* The call stack, the name contexts and the storage have their types: in  *)
(* any program every frame stands inside its node, every name in scope is  *)
(* a node of the program, every visit a node that exists (Visit,           *)
(* NameContext, AttributeStorage::Get).                                    *)
THEOREM StateTyped == Spec => []TypeOK
<1>1. Init => Inv
  BY InitInv
<1>2. Inv /\ [Next]_vars => Inv'
  BY StepInv
<1>3. Inv => TypeOK
  BY DEF Inv, Typed, TypedFrame, Sound, IsStorage, Steps, Scopes, TypeOK
<1> QED BY <1>1, <1>2, <1>3, PTL DEF Spec

(* Whatever the order of visits and expectations, and whatever the         *)
(* relation on types, a deduced type is compatible with the last           *)
(* expectation of its node unless an error is on its way (ExpectType,      *)
(* SetDeducedType).                                                        *)
THEOREM DeducedMeetExpected == Spec => []ExpectationsMet
<1>1. Init => Inv
  BY InitInv
<1>2. Inv /\ [Next]_vars => Inv'
  BY StepInv
<1>3. Inv => ExpectationsMet
  BY DEF Inv, Typed, Sound, Met, ExpectationsMet
<1> QED BY <1>1, <1>2, <1>3, PTL DEF Spec

-----------------------------------------------------------------------------
(* The exception declarations: the three fields of the checker about       *)
(* exceptions agree.                                                       *)
Elements(s) == {s[i] : i \in DOMAIN s}

(* ExceptionsConsistent, strengthened: the fields are there, and the open  *)
(* variant has sequences of labels and types to append to.                 *)
Agree ==
  /\ exn = [type |-> exn.type, monotype |-> exn.monotype, labels |-> exn.labels]
  /\ exn.monotype \in BOOLEAN
  /\ IF exn.labels = {} THEN exn.monotype = (exn.type # None_)
     ELSE /\ ~exn.monotype /\ exn.type.tag = "Variant"
          /\ IsSequence(exn.type.lab) /\ IsSequence(exn.type.args)
          /\ exn.labels = Elements(exn.type.lab)
          /\ ~Repeated(exn.type.lab) /\ Len(exn.type.args) = Len(exn.type.lab)

-----------------------------------------------------------------------------
(* Only the two declarations change the fields.                            *)
LEMMA BuildersKeepExn ==
  /\ \A m, k : Visit(m, k) => exn' = exn
  /\ \A m, f, k : VisitWith(m, f, k) => exn' = exn
  /\ \A m, t : ReturnFrom(m, t) => exn' = exn
  /\ \A t : Return(t) => exn' = exn
  /\ \A m, t, code : AmbiguousFrom(m, t, code) => exn' = exn
  /\ \A code : Throw(code) => exn' = exn
  /\ \A kind, t : Constant(kind, t) => exn' = exn
<1>1. \A m, f, k : VisitWith(m, f, k) => exn' = exn
  BY DEF VisitWith, decls
<1>2. \A m, t : ReturnFrom(m, t) => exn' = exn
  BY DEF ReturnFrom, decls
<1>3. \A t : Return(t) => exn' = exn
  BY <1>2 DEF Return
<1> QED BY <1>1, <1>2, <1>3 DEF Visit, AmbiguousFrom, Throw, Constant, decls

LEMMA ProgramKeepsExn ==
  ASSUME VisitProgram
  PROVE  exn' = exn
BY BuildersKeepExn DEF VisitProgram

LEMMA FunctionsKeepExn ==
  ASSUME VisitFunction
  PROVE  exn' = exn
<1> USE BuildersKeepExn
<1>1. CASE VisitDeclFun \/ VisitDeclFunGeneric
  <2>1. \A kind, params : DeclareFunction(kind, params) => exn' = exn
    BY DEF DeclareFunction
  <2> QED BY <1>1, <2>1 DEF VisitDeclFun, VisitDeclFunGeneric
<1>2. CASE VisitExprAbstraction
  BY <1>2 DEF VisitExprAbstraction
<1>3. CASE VisitExprFix \/ VisitExprApplication
  BY <1>3 DEF VisitExprFix, VisitExprApplication
<1>4. CASE VisitExprVar \/ VisitExprLet \/ VisitExprTypeAsc \/ VisitExprSequence
  BY <1>4 DEF VisitExprVar, VisitExprLet, VisitExprTypeAsc, VisitExprSequence
<1>5. CASE VisitParamDecl \/ VisitExprConstUnit \/ VisitExprConstTrue \/ VisitExprConstFalse
           \/ VisitExprConstInt
  BY <1>5 DEF VisitParamDecl, VisitExprConstUnit, VisitExprConstTrue, VisitExprConstFalse,
              VisitExprConstInt
<1>6. CASE VisitExprIf \/ VisitExprNatRec
  BY <1>6 DEF VisitExprIf, VisitExprNatRec
<1>7. CASE VisitExprIsZero \/ VisitExprSucc \/ VisitExprPred
  BY <1>7 DEF VisitExprIsZero, VisitExprSucc, VisitExprPred, VisitOperator
<1>8. CASE VisitExprTypeAbstraction \/ VisitExprTypeApplication
  BY <1>8 DEF VisitExprTypeAbstraction, VisitExprTypeApplication
<1> QED BY <1>1, <1>2, <1>3, <1>4, <1>5, <1>6, <1>7, <1>8 DEF VisitFunction

LEMMA DataKeepsExn ==
  ASSUME VisitData
  PROVE  exn' = exn
<1> USE BuildersKeepExn
<1>1. CASE VisitExprList \/ VisitExprConsList
  BY <1>1 DEF VisitExprList, VisitExprConsList
<1>2. CASE VisitExprHead \/ VisitExprTail \/ VisitExprIsEmpty
  BY <1>2 DEF VisitExprHead, VisitExprTail, VisitExprIsEmpty, OnList
<1>3. CASE VisitExprTuple \/ VisitExprDotTuple
  BY <1>3 DEF VisitExprTuple, VisitExprDotTuple
<1>4. CASE VisitExprRecord \/ VisitExprDotRecord
  BY <1>4 DEF VisitExprRecord, VisitExprDotRecord
<1>5. CASE VisitExprInl \/ VisitExprInr
  BY <1>5 DEF VisitExprInl, VisitExprInr, Inject
<1>6. CASE VisitExprVariant
  BY <1>6 DEF VisitExprVariant
<1>7. CASE VisitExprMatch
  <2>1. \A k, b : VisitMatchArm(k, b) => exn' = exn
    BY DEF VisitMatchArm
  <2>2. \A k : VisitCase(k) => exn' = exn
    BY <2>1 DEF VisitCase
  <2> QED BY <1>7, <2>2 DEF VisitExprMatch
<1>8. CASE VisitPatternCastAs
  BY <1>8 DEF VisitPatternCastAs
<1> QED BY <1>1, <1>2, <1>3, <1>4, <1>5, <1>6, <1>7, <1>8 DEF VisitData

LEMMA EffectsKeepExn ==
  ASSUME VisitEffect, ~VisitDeclExceptionType, ~VisitDeclExceptionVariant
  PROVE  exn' = exn
<1> USE BuildersKeepExn
<1>1. CASE VisitExprPanic \/ VisitExprThrow
  <2>1. \A code : Diverge(code) => exn' = exn
    BY DEF Diverge
  <2> QED BY <1>1, <2>1 DEF VisitExprPanic, VisitExprThrow
<1>2. CASE VisitExprTryWith \/ VisitExprTryCatch
  BY <1>2 DEF VisitExprTryWith, VisitExprTryCatch
<1>3. CASE VisitExprTypeCast \/ VisitExprTryCastAs
  BY <1>3 DEF VisitExprTypeCast, VisitExprTryCastAs
<1>4. CASE VisitExprRef
  BY <1>4 DEF VisitExprRef
<1>5. CASE VisitExprDeref \/ VisitExprAssign \/ VisitExprConstMemory
  BY <1>5 DEF VisitExprDeref, VisitExprAssign, VisitExprConstMemory
<1> QED BY <1>1, <1>2, <1>3, <1>4, <1>5 DEF VisitEffect

-----------------------------------------------------------------------------
(* The declarations.                                                       *)
LEMMA Declared ==
  ASSUME Agree, NEW error, NEW e, Declare(error, e)
  PROVE  exn' = IF error = OK THEN e ELSE exn
BY DEF Declare

LEMMA FieldsUpdated ==
  ASSUME Agree, NEW x, NEW y
  PROVE  /\ [exn EXCEPT !.type = x, !.labels = y]
            = [type |-> x, monotype |-> exn.monotype, labels |-> y]
         /\ [exn EXCEPT !.type = x, !.monotype = y]
            = [type |-> x, monotype |-> y, labels |-> exn.labels]
<1> DEFINE s == [exn EXCEPT !.type = x]
<1>1. s = [type |-> x, monotype |-> exn.monotype, labels |-> exn.labels]
  BY DEF Agree
<1>2. /\ [exn EXCEPT !.type = x, !.labels = y] = [s EXCEPT !.labels = y]
      /\ [exn EXCEPT !.type = x, !.monotype = y] = [s EXCEPT !.monotype = y]
  OBVIOUS
<1> HIDE DEF s
<1>3. [s EXCEPT !.labels = y] = [type |-> x, monotype |-> exn.monotype, labels |-> y]
  BY <1>1
<1>4. [s EXCEPT !.monotype = y] = [type |-> x, monotype |-> y, labels |-> exn.labels]
  BY <1>1
<1> QED BY <1>2, <1>3, <1>4

LEMMA TypeDeclared ==
  ASSUME Inv, Agree, VisitDeclExceptionType
  PROVE  Agree'
<1> DEFINE e == [exn EXCEPT !.type = TypeArg, !.monotype = TRUE]
<1>1. exn' = exn \/ (exn' = e /\ exn.labels = {})
  <2> DEFINE error == IF in_body THEN "ERROR_ILLEGAL_LOCAL_EXCEPTION_TYPE"
                      ELSE IF exn.labels # {} THEN "ERROR_CONFLICTING_EXCEPTION_DECLARATIONS"
                      ELSE IF exn.monotype THEN "ERROR_DUPLICATE_EXCEPTION_TYPE"
                      ELSE OK
  <2>1. Declare(error, e)
    BY DEF VisitDeclExceptionType
  <2>2. error = OK => exn.labels = {}
    BY DEF OK
  <2> HIDE DEF e, error
  <2> QED BY <2>1, <2>2, Declared
<1>2. TypeArg # None_
  <2>1. ~Done /\ Node(This).kind = "DeclExceptionType"
    BY DEF VisitDeclExceptionType, At
  <2>2. This \in Ids /\ prog \in Programs
    BY <2>1, TopTyped
  <2>3. WellBuilt(prog)
    BY <2>2, GrammarAssumption
  <2> QED BY <2>1, <2>2, <2>3, Zenon DEF WellBuilt, Ids, Node, TypeArg
<1>3. e = [type |-> TypeArg, monotype |-> TRUE, labels |-> exn.labels]
  BY FieldsUpdated
<1> HIDE DEF e
<1>4. CASE exn' = e /\ exn.labels = {}
  BY <1>2, <1>3, <1>4 DEF Agree
<1>5. CASE exn' = exn
  BY <1>5 DEF Agree
<1> QED BY <1>1, <1>4, <1>5

(* One label more.                                                         *)
LEMMA LabelAdded ==
  ASSUME NEW ls, IsSequence(ls), NEW l, ~Repeated(ls), l \notin Elements(ls),
         NEW m, m = Append(ls, l)
  PROVE  /\ IsSequence(m) /\ Len(m) = Len(ls) + 1
         /\ Elements(m) = Elements(ls) \cup {l}
         /\ ~Repeated(m)
<1> DEFINE n == Len(ls)
<1>1. PICK S : ls \in Seq(S)
  BY DEF IsSequence
<1>2. PICK U : ls \in Seq(U) /\ l \in U
  <2> DEFINE V == S \cup {l}
  <2>1. S \subseteq V /\ l \in V
    OBVIOUS
  <2> HIDE DEF V
  <2>2. ls \in Seq(V)
    BY <1>1, <2>1
  <2> QED BY <2>1, <2>2
<1>3. /\ m \in Seq(U) /\ Len(m) = n + 1 /\ n \in Nat /\ DOMAIN ls = 1..n /\ DOMAIN m = 1..(n + 1)
      /\ m[n + 1] = l /\ \A i \in 1..n : m[i] = ls[i]
  BY <1>2
<1> HIDE DEF n
<1>4. \A i \in 1..(n + 1) : i \in 1..n \/ i = n + 1
  BY <1>3
<1>5. Elements(m) = Elements(ls) \cup {l}
  BY <1>3, <1>4 DEF Elements
<1>6. ~Repeated(m)
  BY <1>3, <1>4 DEF Repeated, Elements
<1> QED BY <1>3, <1>5, <1>6 DEF IsSequence, n

LEMMA VariantDeclared ==
  ASSUME Agree, VisitDeclExceptionVariant
  PROVE  Agree'
<1> DEFINE labs == IF Family(exn.type) = "Variant" THEN exn.type.lab ELSE <<>>
           args == IF Family(exn.type) = "Variant" THEN exn.type.args ELSE <<>>
           t == Variant_(Append(labs, Lab), Append(args, TypeArg))
           e == [exn EXCEPT !.type = t, !.labels = @ \cup {Lab}]
<1>1. exn' = exn \/ (exn' = e /\ ~exn.monotype /\ Lab \notin exn.labels)
  BY Declared DEF VisitDeclExceptionVariant, Declare, OK
<1>2. ASSUME ~exn.monotype
      PROVE  /\ IsSequence(labs) /\ IsSequence(args) /\ Len(args) = Len(labs)
             /\ exn.labels = Elements(labs) /\ ~Repeated(labs)
  <2>1. CASE exn.labels = {}
    <3>1. exn.type = None_
      BY <1>2, <2>1 DEF Agree
    <3>2. Family(None_) # "Variant"
      BY DEF Family, None_, Leaf, Term, IsSentinel
    <3>3. labs = <<>> /\ args = <<>>
      BY <3>1, <3>2
    <3> QED BY <2>1, <3>3, ShortSequences DEF Repeated, Elements
  <2>2. CASE exn.labels # {}
    <3>1. Family(exn.type) = "Variant"
      BY <2>2 DEF Agree, Family, IsSentinel
    <3>2. labs = exn.type.lab /\ args = exn.type.args
      BY <3>1
    <3> HIDE DEF labs, args
    <3> QED BY <2>2, <3>2 DEF Agree
  <2> QED BY <2>1, <2>2
<1>3. e = [type |-> t, monotype |-> exn.monotype, labels |-> exn.labels \cup {Lab}]
  <2> HIDE DEF t
  <2> QED BY FieldsUpdated
<1>4. t = [tag |-> "Variant", lab |-> Append(labs, Lab), args |-> Append(args, TypeArg)]
  BY DEF Variant_, Term
<1> HIDE DEF e, t, labs, args
<1>5. CASE exn' = e /\ ~exn.monotype /\ Lab \notin exn.labels
  <2> DEFINE ls == Append(labs, Lab)
             as == Append(args, TypeArg)
  <2>1. /\ IsSequence(ls) /\ Len(ls) = Len(labs) + 1 /\ ~Repeated(ls)
        /\ Elements(ls) = exn.labels \cup {Lab}
    <3>1. IsSequence(labs) /\ ~Repeated(labs) /\ exn.labels = Elements(labs)
      BY <1>2, <1>5
    <3>2. Lab \notin Elements(labs)
      BY <1>5, <3>1
    <3>3. ls = Append(labs, Lab)
      OBVIOUS
    <3> HIDE DEF ls
    <3>4. /\ IsSequence(ls) /\ Len(ls) = Len(labs) + 1 /\ ~Repeated(ls)
          /\ Elements(ls) = Elements(labs) \cup {Lab}
      BY <3>1, <3>2, <3>3, LabelAdded
    <3> QED BY <3>1, <3>4, Zenon
  <2>2. IsSequence(as) /\ Len(as) = Len(args) + 1
    <3>1. PICK S : args \in Seq(S)
      BY <1>2, <1>5 DEF IsSequence
    <3> DEFINE V == S \cup {TypeArg}
    <3>2. S \subseteq V /\ TypeArg \in V
      OBVIOUS
    <3> HIDE DEF V
    <3>3. args \in Seq(V)
      BY <3>1, <3>2
    <3>4. as \in Seq(V) /\ Len(as) = Len(args) + 1
      BY <3>2, <3>3
    <3> QED BY <3>4 DEF IsSequence
  <2> HIDE DEF ls, as
  <2>3. exn' = [type |-> t, monotype |-> FALSE, labels |-> exn.labels \cup {Lab}]
    BY <1>3, <1>5 DEF Agree
  <2>4. t.tag = "Variant" /\ t.lab = ls /\ t.args = as
    BY <1>4 DEF ls, as
  <2>5. Len(as) = Len(ls)
    BY <1>2, <1>5, <2>1, <2>2
  <2> QED BY <2>1, <2>2, <2>3, <2>4, <2>5 DEF Agree
<1>6. CASE exn' = exn
  BY <1>6 DEF Agree
<1> QED BY <1>1, <1>5, <1>6

LEMMA StepAgree ==
  ASSUME Inv, Agree, [Next]_vars
  PROVE  Agree'
<1>1. CASE exn' = exn
  BY <1>1 DEF Agree
<1>2. CASE VisitDeclExceptionType \/ VisitDeclExceptionVariant
  BY <1>2, TypeDeclared, VariantDeclared
<1>3. CASE Unwind \/ Exit \/ UNCHANGED vars
  BY <1>1, <1>3 DEF Unwind, Exit, vars, decls
<1>4. CASE VisitProgram \/ VisitFunction \/ VisitData \/ VisitEffect
  BY <1>1, <1>2, <1>4, ProgramKeepsExn, FunctionsKeepExn, DataKeepsExn, EffectsKeepExn
<1> QED BY <1>3, <1>4 DEF Next, Step

(* After exception declarations in any order and number, with any          *)
(* expression between them, there is one exception type, or one open       *)
(* variant with exactly the declared labels, each once                     *)
(* (VisitDeclExceptionType, VisitDeclExceptionVariant).                    *)
THEOREM ExceptionsAgree == Spec => []ExceptionsConsistent
<1>1. Init => Inv /\ Agree
  <2>1. Init => exn = NoExceptions
    BY DEF Init, Begin
  <2>2. NoExceptions = [type |-> None_, monotype |-> FALSE, labels |-> {}]
    BY DEF NoExceptions
  <2>3. exn = NoExceptions => Agree
    <3>1. exn = NoExceptions => exn.type = None_ /\ exn.monotype = FALSE /\ exn.labels = {}
      BY <2>2
    <3> QED BY <2>2, <3>1 DEF Agree
  <2> QED BY <2>1, <2>3, InitInv
<1>2. Inv /\ Agree /\ [Next]_vars => (Inv /\ Agree)'
  BY StepInv, StepAgree
<1>3. Agree => ExceptionsConsistent
  BY DEF Agree, ExceptionsConsistent, Elements
<1> QED BY <1>1, <1>2, <1>3, PTL DEF Spec
=============================================================================
