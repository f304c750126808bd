------------------------------ MODULE Unifier ------------------------------
(***************************************************************************)
(* The unifier behind #type-reconstruction (typechecker/checker,           *)
(* unifier.cpp).  While the visitors walk the program they create type     *)
(* variables (TypeAuto objects, which register themselves) and add         *)
(* constraints; VisitProgram then calls UnifyAll once.  UnifyAll takes the *)
(* pending constraints as a work list, serves it from the back, may add    *)
(* new constraints while comparing two bound types, and repeats until none *)
(* is left; then every registered variable must have a bound type.         *)
(*                                                                         *)
(* The type terms are left abstract, so that the module can be proved      *)
(* about: AutosOf, CmpOk and CmpEmits are Type::Contains and               *)
(* ReconstructionComparator.  StellaTypes defines them for TLC.            *)
(***************************************************************************)
EXTENDS Naturals, Sequences

CONSTANTS
  TypeAuto,        \* the TypeAuto objects, by identity
  Ctor,            \* the other types of the program
  NoType,          \* a class without a bound type
  AutosOf(_),      \* the type variables a type contains
  CmpOk(_, _),     \* ReconstructionComparator finds no error ...
  CmpEmits(_, _),  \* ... and adds these constraints
  Inputs,          \* the constraints the visitors may add
  MaxConstraints   \* bound: how many of them they add

Type       == TypeAuto \cup Ctor
Constraint == [lhs : Type, rhs : Type]
HasAuto(c) == c.lhs \in TypeAuto \/ c.rhs \in TypeAuto
VarsOf(t)  == IF t \in TypeAuto THEN {t} ELSE AutosOf(t)

ASSUME TermsAssumption ==
  /\ TypeAuto \cap Ctor = {}
  /\ NoType \notin Type
  /\ \A t \in Ctor : AutosOf(t) \subseteq TypeAuto

ASSUME ComparatorAssumption ==
  \A s, t \in Ctor :
    /\ CmpOk(s, t) \in BOOLEAN
    /\ CmpEmits(s, t) \in Seq(Constraint)
    /\ \A i \in 1..Len(CmpEmits(s, t)) :
         LET c == CmpEmits(s, t)[i]
         IN  HasAuto(c) /\ VarsOf(c.lhs) \cup VarsOf(c.rhs) \subseteq AutosOf(s) \cup AutosOf(t)

(* Every call of AddConstraint has a type variable on one side.            *)
ASSUME InputsAssumption ==
  /\ Inputs \subseteq {c \in Constraint : HasAuto(c)}
  /\ MaxConstraints \in Nat

VARIABLES
  registry,     \* TypeAuto::Registry: the variables alive
  constraints,  \* constraints_
  worklist,     \* UnifyAll's local copy, served from the back
  classes,      \* classes_: members and bound type of every class
  class_of,     \* class_of_: index of a variable's class, 0 when it has none
  phase,        \* "visit" (AST traversal), "unify", or the verdict
  input         \* history: every constraint the visitors added

vars  == <<registry, constraints, worklist, classes, class_of, phase, input>>
store == <<classes, class_of>>

Verdicts == {"Well-typed", "ERROR_OCCURS_CHECK_INFINITE_TYPE",
             "ERROR_UNEXPECTED_TYPE_FOR_EXPRESSION", "ERROR_AMBIGUOUS_TYPE"}
Decided  == phase \in Verdicts

EqClass == [members : SUBSET TypeAuto, bound : Ctor \cup {NoType}]

TypeOK ==
  /\ registry \subseteq TypeAuto
  /\ constraints \in Seq(Constraint)
  /\ worklist \in Seq(Constraint)
  /\ classes \in Seq(EqClass)
  /\ class_of \in [TypeAuto -> Nat]
  /\ phase \in {"visit", "unify"} \cup Verdicts
  /\ input \subseteq Constraint

Init ==
  /\ registry = {}
  /\ constraints = <<>>
  /\ worklist = <<>>
  /\ classes = <<>>
  /\ class_of = [v \in TypeAuto |-> 0]
  /\ phase = "visit"
  /\ input = {}

-----------------------------------------------------------------------------
(* The traversal.                                                          *)

(* TypeAuto's constructor: a parsed `auto` or Unifier::FreshTypeVar.       *)
FreshTypeVar(v) ==
  /\ phase = "visit" /\ v \notin registry
  /\ registry' = registry \cup {v}
  /\ UNCHANGED <<constraints, worklist, store, phase, input>>

(* A constraint is built from variables that exist.                        *)
AddConstraint(c) ==
  /\ phase = "visit" /\ Len(constraints) < MaxConstraints
  /\ VarsOf(c.lhs) \cup VarsOf(c.rhs) \subseteq registry
  /\ constraints' = Append(constraints, c)
  /\ input' = input \cup {c}
  /\ UNCHANGED <<registry, worklist, store, phase>>

(* VisitProgram has visited every declaration and calls UnifyAll.          *)
StartUnify ==
  /\ phase = "visit"
  /\ phase' = "unify"
  /\ worklist' = constraints /\ constraints' = <<>>
  /\ UNCHANGED <<registry, store, input>>

-----------------------------------------------------------------------------
(* Classes.                                                                *)

(* FindClass: a variable met for the first time gets a class of its own.   *)
(* s is the pair <<classes_, class_of_>>.                                  *)
FindClass(s, v) ==
  IF s[2][v] # 0 THEN s
  ELSE <<Append(s[1], [members |-> {v}, bound |-> NoType]),
         [s[2] EXCEPT ![v] = Len(s[1]) + 1]>>

Found2(a, b) == FindClass(FindClass(store, a), b)

(* Seeded bugs, which the runs must notice: the class that is merged away  *)
(* is not reset; its bound type is forgotten.                              *)
AbsorbNoReset(s, i, j) ==
  <<[s[1] EXCEPT ![i].members = @ \cup s[1][j].members],
    [v \in TypeAuto |-> IF v \in s[1][j].members THEN i ELSE s[2][v]]>>
AbsorbNoBound(s, i, j) ==
  <<[s[1] EXCEPT ![i].members = @ \cup s[1][j].members,
                 ![j] = [members |-> {}, bound |-> NoType]],
    [v \in TypeAuto |-> IF v \in s[1][j].members THEN i ELSE s[2][v]]>>

(* The tail of MergeClasses: the members of class j move to class i, its   *)
(* bound type too if i has none, and j stays behind empty.                 *)
Absorb(s, i, j) ==
  <<[s[1] EXCEPT
       ![i] = [members |-> s[1][i].members \cup s[1][j].members,
               bound   |-> IF s[1][i].bound = NoType THEN s[1][j].bound ELSE s[1][i].bound],
       ![j] = [members |-> {}, bound |-> NoType]],
    [v \in TypeAuto |-> IF v \in s[1][j].members THEN i ELSE s[2][v]]>>

(* Seeded bug: any variable counts as an occurrence.                       *)
OccursAny(members, t) == AutosOf(t) # {}
Occurs(members, t) == members \cap AutosOf(t) # {}

-----------------------------------------------------------------------------
(* UnifyAll.  Each action below serves the last constraint of worklist.    *)
(* UnifyOne would drop a constraint without a type variable: none is ever  *)
(* added, so the checker would deadlock here if one were.                  *)

Served    == worklist[Len(worklist)]
Serve     == /\ phase = "unify" /\ worklist # <<>>
             /\ worklist' = SubSeq(worklist, 1, Len(worklist) - 1)
             /\ UNCHANGED <<registry, input>>
SetStore(s) == classes' = s[1] /\ class_of' = s[2]

(* Two variables.  MergeClasses is split by what it finds.                 *)
Merging(a, b) == Serve /\ Served.lhs \in TypeAuto /\ Served.rhs \in TypeAuto
                 /\ a = Served.lhs /\ b = Served.rhs

MergeSame ==
  \E a, b \in TypeAuto :
    LET s == Found2(a, b) IN
    /\ Merging(a, b) /\ s[2][a] = s[2][b]
    /\ SetStore(s)
    /\ UNCHANGED <<constraints, phase>>

(* At most one of the classes has a bound type: no occurs check, no        *)
(* comparison.                                                             *)
MergeFree ==
  \E a, b \in TypeAuto :
    LET s == Found2(a, b)
        i == s[2][a]
        j == s[2][b] IN
    /\ Merging(a, b) /\ i # j
    /\ NoType \in {s[1][i].bound, s[1][j].bound}
    /\ SetStore(Absorb(s, i, j))
    /\ UNCHANGED <<constraints, phase>>

(* Both are bound: the occurs check of each bound type against the other   *)
(* class, then the comparison, whose constraints join the pending ones.    *)
MergeBound ==
  \E a, b \in TypeAuto :
    LET s == Found2(a, b)
        ca == s[1][s[2][a]]
        cb == s[1][s[2][b]] IN
    /\ Merging(a, b) /\ s[2][a] # s[2][b]
    /\ ca.bound # NoType /\ cb.bound # NoType
    /\ \/ /\ Occurs(cb.members, ca.bound) \/ Occurs(ca.members, cb.bound)
          /\ phase' = "ERROR_OCCURS_CHECK_INFINITE_TYPE"
          /\ SetStore(s) /\ UNCHANGED constraints
       \/ /\ ~Occurs(cb.members, ca.bound) /\ ~Occurs(ca.members, cb.bound)
          /\ ~CmpOk(ca.bound, cb.bound)
          /\ phase' = "ERROR_UNEXPECTED_TYPE_FOR_EXPRESSION"
          /\ SetStore(s) /\ UNCHANGED constraints
       \/ /\ ~Occurs(cb.members, ca.bound) /\ ~Occurs(ca.members, cb.bound)
          /\ CmpOk(ca.bound, cb.bound)
          /\ constraints' = constraints \o CmpEmits(ca.bound, cb.bound)
          /\ SetStore(Absorb(s, s[2][a], s[2][b])) /\ UNCHANGED phase

(* One variable and one type: BindClass(var, concrete).                    *)
Concrete == IF worklist = <<>> THEN {} ELSE {t \in {Served.lhs, Served.rhs} : t \in Ctor}
Binding(v, t) == /\ Serve
                 /\ \/ Served = [lhs |-> v, rhs |-> t]
                    \/ Served = [lhs |-> t, rhs |-> v]

(* The class is bound already: compare, and keep the first bound type.     *)
BindBound ==
  \E v \in TypeAuto, t \in Concrete :
    LET s == FindClass(store, v)
        bound == s[1][s[2][v]].bound IN
    /\ Binding(v, t) /\ bound # NoType
    /\ SetStore(s)
    /\ \/ /\ ~CmpOk(bound, t)
          /\ phase' = "ERROR_UNEXPECTED_TYPE_FOR_EXPRESSION"
          /\ UNCHANGED constraints
       \/ /\ CmpOk(bound, t)
          /\ constraints' = constraints \o CmpEmits(bound, t)
          /\ UNCHANGED phase

(* Seeded bug: the right-hand side is bound, whichever side the variable   *)
(* is on.                                                                  *)
BindFreeRight ==
  \E v \in TypeAuto, t \in Concrete :
    LET s == FindClass(store, v)
        i == s[2][v] IN
    /\ Binding(v, t) /\ s[1][i].bound = NoType
    /\ SetStore(<<[s[1] EXCEPT ![i].bound = Served.rhs], s[2]>>)
    /\ UNCHANGED <<constraints, phase>>

BindFree ==
  \E v \in TypeAuto, t \in Concrete :
    LET s == FindClass(store, v)
        i == s[2][v] IN
    /\ Binding(v, t) /\ s[1][i].bound = NoType
    /\ \/ /\ Occurs(s[1][i].members, t)
          /\ phase' = "ERROR_OCCURS_CHECK_INFINITE_TYPE"
          /\ SetStore(s)
       \/ /\ ~Occurs(s[1][i].members, t)
          /\ SetStore(<<[s[1] EXCEPT ![i].bound = t], s[2]>>)
          /\ UNCHANGED phase
    /\ UNCHANGED constraints

(* Seeded bug: the pending constraints are not cleared.                    *)
NextRoundNoClear ==
  /\ phase = "unify" /\ worklist = <<>> /\ constraints # <<>>
  /\ worklist' = constraints
  /\ UNCHANGED <<constraints, registry, store, phase, input>>

(* The loop's next round: the constraints added meanwhile.                 *)
NextRound ==
  /\ phase = "unify" /\ worklist = <<>> /\ constraints # <<>>
  /\ worklist' = constraints /\ constraints' = <<>>
  /\ UNCHANGED <<registry, store, phase, input>>

(* Seeded bugs: only variables that have a class are looked at; the loop   *)
(* ends with constraints pending.                                          *)
UnboundClass(v) == class_of[v] # 0 /\ classes[class_of[v]].bound = NoType
FinishOneRound ==
  /\ phase = "unify" /\ worklist = <<>>
  /\ phase' = IF \E v \in registry : UnboundClass(v) THEN "ERROR_AMBIGUOUS_TYPE" ELSE "Well-typed"
  /\ UNCHANGED <<registry, constraints, worklist, store, input>>

(* Nothing is left: a registered variable without a bound type is          *)
(* ambiguous, otherwise UnifyAll returns and the program is accepted.      *)
Unbound(v) == IF class_of[v] = 0 THEN TRUE ELSE classes[class_of[v]].bound = NoType

Finish ==
  /\ phase = "unify" /\ worklist = <<>> /\ constraints = <<>>
  /\ phase' = IF \E v \in registry : Unbound(v) THEN "ERROR_AMBIGUOUS_TYPE" ELSE "Well-typed"
  /\ UNCHANGED <<registry, constraints, worklist, store, input>>

UnifyStep == \/ MergeSame \/ MergeFree \/ MergeBound
             \/ BindBound \/ BindFree \/ NextRound \/ Finish

Exit == Decided /\ UNCHANGED vars

Next == \/ \E v \in TypeAuto : FreshTypeVar(v)
        \/ \E c \in Inputs : AddConstraint(c)
        \/ StartUnify
        \/ UnifyStep
        \/ Exit

(* A single thread runs UnifyAll to its end once the traversal is over.    *)
Spec     == Init /\ [][Next]_vars
FairSpec == Spec /\ WF_vars(UnifyStep)

-----------------------------------------------------------------------------
(* class_of_ and classes_ describe the same partition: a variable is a     *)
(* member of the class it points to and of no other, and the class that    *)
(* MergeClasses leaves behind keeps no bound type, so that no binding is   *)
(* out of reach of every variable (FindClass, MergeClasses).               *)
Partition(s) ==
  /\ \A v \in TypeAuto : s[2][v] \in 0..Len(s[1])
  /\ \A i \in 1..Len(s[1]) :
       /\ s[1][i].members = {v \in TypeAuto : s[2][v] = i}
       /\ s[1][i].members = {} => s[1][i].bound = NoType

ClassesPartition == Partition(store)
=============================================================================
