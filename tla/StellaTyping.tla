--------------------------- MODULE StellaTyping ----------------------------
(***************************************************************************)
(* What the checker promises: the declarative typing rules of Stella.      *)
(*                                                                         *)
(* Types(c, n) is the set of all types the expression n has in a context   *)
(* c, by the typing rules alone: no expectations, no order of visits, no   *)
(* storage; names are scoped lexically and functions have their declared   *)
(* types.  A rule that lets an expression have any type of a family ranges *)
(* over Universe.  Only TLC evaluates this module.                         *)
(***************************************************************************)
EXTENDS TypeChecker, StellaTypes, TypeRules

CONSTANT Universe

(* Every type variable is bound, no label is repeated.                     *)
RECURSIVE WellFormed(_, _)
WellFormed(t, scope) ==
  CASE t.tag = "Var" -> t.lab[1] \in scope
    [] t.tag = "ForAll" -> WellFormed(t.args[1], scope \cup Range(t.lab))
    [] OTHER -> /\ t.tag \in {"Record", "Variant"} => ~Repeated(t.lab)
                /\ \A i \in DOMAIN t.args : WellFormed(t.args[i], scope)

(* The subsumption rule.                                                   *)
Subsumed(ts) ==
  IF ~Has("#structural-subtyping") THEN ts
  ELSE ts \cup {t \in Universe : \E s \in ts : Subtype(s, t)}

Tagged(ts, tag) == {t \in ts : t.tag = tag}
When(condition, ts) == IF condition THEN ts ELSE {}

(* One type for every component.                                           *)
ComponentTypes(sets) == {f \in [DOMAIN sets -> UNION Range(sets)] : \A i \in DOMAIN sets : f[i] \in sets[i]}

RECURSIVE Types(_, _)
Types(c, n) ==
  LET kind == Node(n).kind
      labs == Node(n).labs
      kids == Node(n).kids
      Of(i) == Types(c, kids[i])
      Binding_(x, t, k) == Types([c EXCEPT !.env[x] = t], k)
      Declared == Node(n).types[1]
      Formed(t) == WellFormed(t, c.scope)
      \* match: the types of the arms, given the scrutinee's type s
      Arm(k, s) ==
        LET p == Node(kids[2 * k])
            e == kids[2 * k + 1]
            Bind(q, t) == IF Node(q).kind = "PatternVar" THEN Binding_(NameOf(q), t, e) ELSE {}
            i == FieldOf(s, p.labs[1])
        IN  CASE p.kind = "PatternCastAs" -> When(Formed(p.types[1]),
                                                 IF Node(p.kids[1]).kind = "PatternVar"
                                                 THEN Bind(p.kids[1], p.types[1]) ELSE Types(c, e))
              [] p.kind = "PatternInl" -> When(s.tag = "Sum", Bind(p.kids[1], s.args[1]))
              [] p.kind = "PatternInr" -> When(s.tag = "Sum", Bind(p.kids[1], s.args[2]))
              [] p.kind = "PatternVariant" ->
                   IF s.tag # "Variant" \/ i = 0 THEN {}
                   ELSE IF p.kids = <<>> THEN Types(c, e)
                   ELSE Bind(p.kids[1], s.args[i])
              [] OTHER -> {}
      arms == 1..((Len(kids) - 1) \div 2)
      ArmKinds == {Node(kids[2 * k]).kind : k \in arms}
      Complete(s) ==
        \/ ArmKinds = {"PatternCastAs"}
        \/ s.tag = "Sum" /\ ArmKinds = {"PatternInl", "PatternInr"}
        \/ s.tag = "Variant" /\ ArmKinds = {"PatternVariant"}
           /\ Range(s.lab) \subseteq {NameOf(kids[2 * k]) : k \in arms}
      raw ==
        CASE kind = "Var" -> {c.env[labs[1]]} \ {Absent}
          [] kind = "ConstUnit" -> {Unit_}
          [] kind \in {"ConstTrue", "ConstFalse"} -> {Bool_}
          [] kind = "ConstInt" -> {Nat_}
          [] kind = "If" -> When(Bool_ \in Of(1), Of(2) \cap Of(3))
          [] kind \in {"Succ", "Pred"} -> When(Nat_ \in Of(1), {Nat_})
          [] kind = "IsZero" -> When(Nat_ \in Of(1), {Bool_})
          [] kind = "NatRec" -> When(Nat_ \in Of(1), {t \in Of(2) : StepType(t) \in Of(3)})
          [] kind = "Abstraction" ->
               LET p == Node(kids[1]).types[1]
               IN  When(Formed(p), {Fun_(p, r) : r \in Binding_(NameOf(kids[1]), p, kids[2])})
          [] kind = "Application" -> {f.args[2] : f \in {g \in Tagged(Of(1), "Fun") : g.args[1] \in Of(2)}}
          [] kind = "Fix" -> {f.args[1] : f \in {g \in Tagged(Of(1), "Fun") : g.args[1] = g.args[2]}}
          [] kind = "Let" -> UNION {Binding_(NameOf(kids[2]), t, kids[3]) : t \in Of(1)}
          [] kind = "TypeAsc" -> When(Formed(Declared) /\ Declared \in Of(1), {Declared})
          [] kind = "Sequence" -> When(Unit_ \in Of(1), Of(2))
          [] kind = "TypeAbstraction" ->
               {ForAll_(labs, t) : t \in Types([c EXCEPT !.scope = @ \cup Range(labs)], kids[1])}
          [] kind = "TypeApplication" ->
               LET args == Node(n).types
               IN  When(\A i \in DOMAIN args : Formed(args[i]),
                        {Substitute(f.args[1], f.lab, args) :
                           f \in {g \in Tagged(Of(1), "ForAll") : Len(g.lab) = Len(args)}})
          [] kind = "List" ->
               IF kids = <<>> THEN Tagged(Universe, "List")
               ELSE {List_(t) : t \in {s \in Of(1) : \A i \in DOMAIN kids : s \in Of(i)}}
          [] kind = "ConsList" -> {l \in Tagged(Of(2), "List") : l.args[1] \in Of(1)}
          [] kind = "Head" -> {l.args[1] : l \in Tagged(Of(1), "List")}
          [] kind = "Tail" -> Tagged(Of(1), "List")
          [] kind = "IsEmpty" -> When(Tagged(Of(1), "List") # {}, {Bool_})
          [] kind = "Tuple" -> {Tuple_(f) : f \in ComponentTypes([i \in DOMAIN kids |-> Of(i)])}
          [] kind = "DotTuple" ->
               {t.args[labs[1]] : t \in {s \in Tagged(Of(1), "Tuple") : labs[1] \in DOMAIN s.args}}
          [] kind = "Record" ->
               When(~Repeated(labs), {Record_(labs, f) : f \in ComponentTypes([i \in DOMAIN kids |-> Of(i)])})
          [] kind = "DotRecord" ->
               {t.args[FieldOf(t, labs[1])] :
                  t \in {s \in Tagged(Of(1), "Record") : FieldOf(s, labs[1]) # 0}}
          [] kind = "Inl" -> {s \in Tagged(Universe, "Sum") : s.args[1] \in Of(1)}
          [] kind = "Inr" -> {s \in Tagged(Universe, "Sum") : s.args[2] \in Of(1)}
          [] kind = "Variant" ->
               {v \in Tagged(Universe \cup {c.exn}, "Variant") :
                  LET i == FieldOf(v, labs[1])
                  IN  i # 0 /\ (IF kids = <<>> THEN v.args[i] = None_ ELSE v.args[i] \in Of(1))}
          [] kind = "Match" ->
               UNION {{t \in Arm(1, s) : \A k \in arms : t \in Arm(k, s)} : s \in {s \in Of(1) : Complete(s)}}
          [] kind = "Panic" -> Universe
          [] kind = "Throw" -> When(c.exn \in Of(1), Universe)
          [] kind = "TryWith" -> Of(1) \cap Of(2)
          [] kind = "TryCatch" ->
               When(c.exn # None_ /\ Node(kids[2]).kind = "PatternVar",
                    Of(1) \cap Binding_(NameOf(kids[2]), c.exn, kids[3]))
          [] kind = "TypeCast" -> When(Formed(Declared) /\ Of(1) # {}, {Declared})
          [] kind = "TryCastAs" ->
               When(Formed(Declared) /\ Of(1) # {} /\ Node(kids[2]).kind = "PatternVar",
                    Binding_(NameOf(kids[2]), Declared, kids[3]) \cap Of(4))
          [] kind = "Ref" -> {Ref_(t) : t \in Of(1)}
          [] kind = "Deref" -> {r.args[1] : r \in Tagged(Of(1), "Ref")}
          [] kind = "Assign" -> When(\E r \in Tagged(Of(1), "Ref") : r.args[1] \in Of(2), {Unit_})
          [] kind = "ConstMemory" -> Tagged(Universe, "Ref")
  IN  Subsumed(raw)

-----------------------------------------------------------------------------
(* Programs.                                                               *)
Declarations == Range(Node(1).kids)
IsFun(n) == Node(n).kind \in {"DeclFun", "DeclFunGeneric"}
TypeParams(n) == Tail(Node(n).labs)

Signature(n) ==
  LET t == Fun_(Node(Node(n).kids[1]).types[1], Node(n).types[1])
  IN  IF Node(n).kind = "DeclFun" THEN t ELSE ForAll_(TypeParams(n), t)

Globals == [x \in Names |-> IF \E n \in Declarations : IsFun(n) /\ NameOf(n) = x
                            THEN Signature(CHOOSE n \in Declarations : IsFun(n) /\ NameOf(n) = x)
                            ELSE Absent]

(* The exception type: the declared one, or the open variant of all the    *)
(* declared labels.                                                        *)
ExceptionDecls(kind) == SelectSeq(Node(1).kids, LAMBDA n : Node(n).kind = kind)
Monotypes == ExceptionDecls("DeclExceptionType")
Variants  == ExceptionDecls("DeclExceptionVariant")
ExceptionsFormed ==
  /\ Len(Monotypes) <= 1
  /\ Monotypes = <<>> \/ Variants = <<>>
  /\ ~Repeated([i \in DOMAIN Variants |-> NameOf(Variants[i])])
ExceptionType ==
  IF Monotypes # <<>> THEN Node(Monotypes[1]).types[1]
  ELSE IF Variants # <<>>
  THEN Variant_([i \in DOMAIN Variants |-> NameOf(Variants[i])],
                [i \in DOMAIN Variants |-> Node(Variants[i]).types[1]])
  ELSE None_

RECURSIVE FunctionTyped(_)
FunctionTyped(n) ==
  LET kids  == Node(n).kids
      param == kids[1]
      scope == Range(TypeParams(n))
      p == Node(param).types[1]
      r == Node(n).types[1]
      locals == {kids[i] : i \in 2..(Len(kids) - 1)}
  IN  /\ WellFormed(p, scope) /\ WellFormed(r, scope)
      /\ \A l \in locals : Node(l).kind = "DeclFun" /\ FunctionTyped(l)
      /\ r \in Types([env |-> [Globals EXCEPT ![NameOf(param)] = p],
                      scope |-> scope, exn |-> ExceptionType], kids[Len(kids)])

WellTyped ==
  LET funs == SelectSeq(Node(1).kids, IsFun)
  IN  /\ ~Repeated([i \in DOMAIN funs |-> NameOf(funs[i])])
      /\ \E n \in Declarations : Node(n).kind = "DeclFun" /\ NameOf(n) = "main"
      /\ ExceptionsFormed
      /\ \A i \in DOMAIN funs : FunctionTyped(funs[i])

-----------------------------------------------------------------------------
(* The errors that ask for a type annotation.                              *)
AmbiguousErrors ==
  {"ERROR_AMBIGUOUS_" \o s : s \in {"LIST", "SUM_TYPE", "VARIANT_TYPE", "PANIC_TYPE",
                                    "THROW_TYPE", "REFERENCE_TYPE"}}

(* Soundness: an accepted program is well-typed, whatever the order in     *)
(* which types were expected, propagated and deduced (all visitors).       *)
AcceptedTyped == Accepted => WellTyped

(* Where types are compared up to subtyping, a node that was given a type  *)
(* has it by the declarative rules: whatever was expected of the node is a *)
(* supertype of what was deduced (SubtypeChecker's rules, and its use of   *)
(* CheckCompatible as reflexivity).                                        *)
ExpectedIsSupertype ==
  mem.raised = OK /\ Has("#structural-subtyping") =>
    \A n \in Ids :
      LET t == mem.deduced[n]
          e == mem.expected[n].type
      IN  Absent \notin {t, e} =>
            IF IsSentinel(e) THEN Family(t) = Family(e) ELSE Subtype(t, e)

(* Completeness: a rejected program is ill-typed, unless the error asks    *)
(* for an annotation.  With subtyping the checker asks for more than the    *)
(* rules, which may use subsumption anywhere.                              *)
RejectedUntyped ==
  Done /\ mem.raised \notin {OK} \cup AmbiguousErrors /\ ~Has("#structural-subtyping") => ~WellTyped
=============================================================================
