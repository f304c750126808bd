------------------------- MODULE TypeReconstruction -------------------------
(***************************************************************************)
(* #type-reconstruction end to end: the checker's visitors create type     *)
(* variables and add constraints while they walk the program; at its end   *)
(* VisitProgram calls UnifyAll, whose verdict is the program's.            *)
(*                                                                         *)
(* The checker (TypeChecker) and the unifier (Unifier) are two machines    *)
(* with shared data: the constraints, and the variables alive.  The latter *)
(* follow from ownership: TypeAuto::Registry holds a variable exactly      *)
(* while some object that lives owns it.                                   *)
(***************************************************************************)
EXTENDS TypeChecker

CONSTANTS
  TypeAuto,     \* bound: the type variables, parsed and fresh
  Ctor,         \* the other types
  NoType,       \* a class without a bound type
  AutosOf(_),   \* the type variables in a type
  PartsOf(_),   \* a type and all its components
  IsType(_),    \* whether a value is a type term
  Subtyping     \* whether the programs also use #structural-subtyping

ASSUME OneSubtypingMode ==
  \A p \in Programs : ("#structural-subtyping" \in p.ext) = Subtyping

ASSUME ProgramTypesAssumption ==
  \A p \in Programs : \A n \in 1..Len(p.node) : \A i \in DOMAIN p.node[n].types :
    IsType(p.node[n].types[i]) /\ p.node[n].types[i] # Absent

ASSUME VariablesAssumption == \A v \in TypeAuto : v \notin Ctor

VARIABLES registry, constraints, worklist, classes, class_of, phase, input

unifier == <<registry, constraints, worklist, classes, class_of, phase, input>>
all     == <<vars, unifier>>

(* UnifyAll's comparator: the same as the visitors'.                       *)
CmpOk(s, t)    == (IF Subtyping THEN SubtypeError(s, t) ELSE CompatError(s, t)) = OK
CmpEmits(s, t) == IF Subtyping THEN <<>> ELSE Emitted(s, t)

U == INSTANCE Unifier WITH Inputs <- {}, MaxConstraints <- 0

-----------------------------------------------------------------------------
(* Ownership.  The program owns its types, the storage those in its slots, *)
(* new_types_ those made by the visitors.                                  *)
ProgramTypes == UNION {{Node(n).types[i] : i \in DOMAIN Node(n).types} : n \in Ids}
SlotTypes(m) == UNION {{m.deduced[n], m.expected[n].type, m.provisional[n]} : n \in Ids}
LastingNoSyntax(m) == SlotTypes(m) \cup m.new_types    \* seeded bug: the AST does not own its types
Lasting(m)   == ProgramTypes \cup SlotTypes(m) \cup m.new_types

Shared(m) == UNION {{m.constraints[i].lhs, m.constraints[i].rhs} :
                      i \in {j \in DOMAIN m.constraints : m.constraints[j].from = Owned}}

Registered(m) == UNION {AutosOf(t) : t \in Lasting(m) \cup Shared(m)}

Plain(cs) == [i \in DOMAIN cs |-> [lhs |-> cs[i].lhs, rhs |-> cs[i].rhs]]

(* Seeded bug: nothing to unify, so UnifyAll is not called.                *)
AtUnifyAllOnConstraints ==
  Reconstructing /\ At("Program", Len(Kids)) /\ Mains # {} /\ mem.constraints # <<>>

(* All declarations are visited.                                           *)
AtUnifyAll == Reconstructing /\ At("Program", Len(Kids)) /\ Mains # {}

NewUnifier ==
  /\ registry = Registered(mem)
  /\ constraints = <<>> /\ worklist = <<>> /\ classes = <<>>
  /\ class_of = [v \in TypeAuto |-> 0]
  /\ phase = "visit" /\ input = {}
Start == Init /\ NewUnifier

(* A visitor, with what it tells the unifier.                              *)
Traverse ==
  /\ phase = "visit" /\ ~AtUnifyAll
  /\ Step
  /\ registry' = Registered(mem')
  /\ constraints' = Plain(mem'.constraints)
  /\ input' = {constraints'[i] : i \in DOMAIN constraints'}
  /\ UNCHANGED <<worklist, classes, class_of, phase>>

CallUnifyAll == AtUnifyAll /\ U!StartUnify /\ UNCHANGED vars
Unify        == U!UnifyStep /\ UNCHANGED vars

(* UnifyAll returns, or throws.                                            *)
ReturnFromUnifyAll ==
  /\ phase = "Well-typed" /\ AtUnifyAll
  /\ VisitProgram /\ UNCHANGED unifier
ThrowFromUnifyAll ==
  /\ phase \notin {"visit", "unify", "Well-typed"} /\ AtUnifyAll
  /\ Throw(phase) /\ UNCHANGED unifier
Leaving == phase # "visit" /\ Unwind /\ UNCHANGED unifier

Stopped == Done /\ UNCHANGED all

Proceed == \/ Traverse \/ CallUnifyAll \/ Unify
           \/ ReturnFromUnifyAll \/ ThrowFromUnifyAll \/ Leaving

Reconstruct == Start /\ [][Proceed \/ Stopped]_all

-----------------------------------------------------------------------------
(* What the unifier relies on, and its own module assumes: the visitors    *)
(* only append constraints, each with a type variable on one side (UnifyOne *)
(* drops any other) and between variables that are registered; and no      *)
(* variable goes while the visitors run (AddConstraint, TypeAuto::Registry).*)
Legal(c) == /\ c.lhs \in TypeAuto \/ c.rhs \in TypeAuto
            /\ AutosOf(c.lhs) \cup AutosOf(c.rhs) \subseteq registry'
VisitorsFeedUnifier ==
  [][phase' = "visit" =>
       /\ registry \subseteq registry'
       /\ Len(constraints) <= Len(constraints')
       /\ \A i \in DOMAIN constraints : constraints'[i] = constraints[i]
       /\ \A i \in DOMAIN constraints' \ DOMAIN constraints : Legal(constraints'[i])]_all

(* When UnifyAll reads a constraint that the comparator made from          *)
(* references, the type is still part of what its slot holds; a constraint *)
(* of new types shares their ownership (AddConstraint's two overloads).    *)
(* Exempt are the placeholders of literals, which do not live that long:   *)
(* the tuple sentinel that the next SetProvisionalType of VisitExprTuple   *)
(* replaces, and the unknown field types of VisitExprRecord.               *)
Content(slot) == CASE slot.attr = "deduced"     -> mem.deduced[slot.node]
                   [] slot.attr = "expected"    -> mem.expected[slot.node].type
                   [] slot.attr = "provisional" -> mem.provisional[slot.node]
                   [] OTHER -> Absent
Alive(t, slot) == slot = Owned \/ t \in PartsOf(Content(slot))
Placeholder(t) == t \in {Unknown_, Sentinel_("Tuple")}
ReferencesAlive ==
  mem.raised = OK =>
    \A i \in DOMAIN mem.constraints :
      LET c == mem.constraints[i]
      IN  /\ Placeholder(c.lhs) \/ Alive(c.lhs, c.from)
          /\ Placeholder(c.rhs) \/ Alive(c.rhs, c.to)

(* UnifyAll moves the constraints away and drops them one by one; every    *)
(* variable it knows is owned by something that outlives them, so that the *)
(* final check finds it in the registry, bound or not (SaveNewType).       *)
VariablesOutliveConstraints ==
  phase # "visit" => registry \subseteq UNION {AutosOf(t) : t \in Lasting(mem)}

(* A program is only accepted after UnifyAll has returned: the end of the  *)
(* outermost visit does not pass it by (VisitProgram).                     *)
AcceptedUnified == Reconstructing /\ Accepted => phase = "Well-typed"

-----------------------------------------------------------------------------
(* What the proofs use of the operators on types, which are parameters: a  *)
(* type has the components of its class, and they are types; Contains      *)
(* enters every component; the constraints of a comparison and the result  *)
(* of SubstituteType hold no variable that was not given, and a constraint *)
(* has a variable on one side; the variables are types, and a fresh one is *)
(* never missing.                                                          *)
Indexed(s) == DOMAIN s \subseteq Nat /\ \A i \in DOMAIN s : 1..i \subseteq DOMAIN s
Shaped(t) ==
  /\ t.tag \in {"Fun", "Sum"} => DOMAIN t.args = 1..2
  /\ t.tag \in {"List", "Ref", "ForAll"} => DOMAIN t.args = {1}
  /\ t.tag = "Tuple" => DOMAIN t.args = 1..Len(t.args)
  /\ t.tag \in {"Record", "Variant"} => Indexed(t.lab) /\ DOMAIN t.lab \subseteq DOMAIN t.args
  /\ IsAuto(t) => t \in TypeAuto /\ t.args = <<>>

IsTypeLaw(t)   == IsType(t) <=> Shaped(t) /\ \A i \in DOMAIN t.args : IsType(t.args[i])
ContainsLaw(t) ==
  AutosOf(t) = IF IsAuto(t) THEN {t} ELSE UNION {AutosOf(t.args[i]) : i \in DOMAIN t.args}

Within(S, t) == IsType(t) /\ AutosOf(t) \subseteq S
Relates(S, c) == Within(S, c.lhs) /\ Within(S, c.rhs) /\ (IsAuto(c.lhs) \/ IsAuto(c.rhs))
EmittedLaw(s, t) ==
  LET cs == Emitted(s, t)
  IN  /\ cs \in Seq({cs[i] : i \in DOMAIN cs})
      /\ \A i \in DOMAIN cs : Relates(AutosOf(s) \cup AutosOf(t), cs[i])
SubstituteLaw(t, params, args) ==
  Within(AutosOf(t) \cup UNION {AutosOf(args[i]) : i \in DOMAIN args}, Substitute(t, params, args))

TypeLaws ==
  /\ \A t : IsTypeLaw(t) /\ ContainsLaw(t) /\ (IsType(t) => AutosOf(t) \subseteq TypeAuto)
  /\ \A v \in TypeAuto : IsType(v) /\ IsAuto(v)
  /\ \A s, t : IsType(s) /\ IsType(t) => EmittedLaw(s, t)
  /\ \A t, params, args :
       IsType(t) /\ (\A i \in DOMAIN args : IsType(args[i])) /\ Len(params) = Len(args)
         => SubstituteLaw(t, params, args)
  /\ \A i \in Nat \ {0} : FreshVars[i] \in TypeAuto

(* And of its references: a type and the components of its components are  *)
(* its parts; the constraints of a comparison refer to parts of the two    *)
(* types, below their roots unless one of them is a variable.              *)
Below(t)    == UNION {PartsOf(t.args[i]) : i \in DOMAIN t.args}
PartsLaw(t) == PartsOf(t) = {t} \cup Below(t)
ComparedLaw(s, t) ==
  LET cs == Emitted(s, t) IN
  \A i \in DOMAIN cs :
    /\ cs[i].lhs \in PartsOf(s) /\ cs[i].rhs \in PartsOf(t)
    /\ IsAuto(s) \/ IsAuto(t) \/ (cs[i].lhs \in Below(s) /\ cs[i].rhs \in Below(t))
ReferenceLaws ==
  /\ \A t : IsType(t) => PartsLaw(t)
  /\ \A s, t : IsType(s) /\ IsType(t) => ComparedLaw(s, t)
=============================================================================
