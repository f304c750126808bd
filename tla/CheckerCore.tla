---------------------------- MODULE CheckerCore ----------------------------
(***************************************************************************)
(* The core of stella::typecheck::TypeChecker: the attribute storage, the  *)
(* two name contexts, the recursion of Visit, and the way an error leaves  *)
(* it (type_checker.cpp, expected_type.hpp, name_context.hpp).             *)
(*                                                                         *)
(* The C++ call stack is the variable frames: one frame per active Visit,  *)
(* with the number of the calls it has finished (pc) and the RAII guards   *)
(* it holds.  A visitor is an action with one disjunct per stretch of code *)
(* between two recursive visits.  A thrown error is mem.raised; the frames *)
(* are then popped one by one, as the guards' destructors run.             *)
(*                                                                         *)
(* With #type-reconstruction the comparisons add constraints to the        *)
(* unifier; solving them is left to Unifier (see TypeReconstruction).  The *)
(* relations on types are parameters; StellaTypes gives them to TLC.       *)
(***************************************************************************)
EXTENDS StellaTerms

CONSTANTS
  Programs,            \* the parsed programs
  Names,               \* the identifiers they use
  CompatError(_, _),   \* Type::CheckCompatible(given, expected): OK or an error
  SubtypeError(_, _),  \* SubtypeChecker::IsSubtypeOrError(sub, super)
  Emitted(_, _),       \* the constraints ReconstructionComparator adds for them
  TypeError(_, _),     \* visiting a type with these type variables in scope
  Substitute(_, _, _), \* SubstituteType(type, parameters, arguments)
  FreshVars            \* bound: the type variables the visitors may create

VARIABLES
  prog,     \* the program: ext, its extensions; node, its AST nodes, root first
  frames,   \* the active visits, innermost last
  mem,      \* types_storage_, the unifier's constraints_ and new_types_, and
            \* the error being thrown
  names,    \* name_context_: a stack of nodes for every name
  tvars,    \* type_var_context_: the type variables in scope
  in_body,  \* in_function_body_
  exn       \* exception_type_, exception_type_is_monotype_, exception_variant_labels_

vars  == <<prog, frames, mem, names, tvars, in_body, exn>>
decls == <<in_body, exn>>

(* A node is [kind, kids, labs, types]: its class, its child nodes in      *)
(* source order, its names (or a tuple index) and its syntactic types.     *)
Ids     == 1..Len(prog.node)
Node(n) == prog.node[n]
Has(extension) == extension \in prog.ext

Top     == frames[Len(frames)]
This    == Top.node
Kids    == Node(This).kids
Kid(i)  == Kids[i]
Lab     == Node(This).labs[1]
TypeArg == Node(This).types[1]
Done    == frames = <<>>
Positions == IF Done THEN {} ELSE DOMAIN Kids
At(kind, pc) == /\ ~Done /\ mem.raised = OK
                /\ Node(This).kind = kind /\ Top.pc = pc

-----------------------------------------------------------------------------
(* Attributes.  Every operation maps a storage to a storage and does       *)
(* nothing once an error is being thrown.                                  *)
Absent == Leaf("Absent")     \* a slot that was never set
INTERNAL == "ERROR_UNKNOWN"

Raise(m, code) == IF m.raised = OK THEN [m EXCEPT !.raised = code] ELSE m

EqualsTo(t)       == [type |-> t, code |-> MISMATCH, explicit |-> FALSE]
EqualsToOr(t, code) == [type |-> t, code |-> code, explicit |-> TRUE]
NoExpectation     == EqualsTo(Absent)

(* TypeChecker::CheckCompatible: its error.                                *)
Incompatible(given, expected) ==
  IF None_ \in {given, expected} THEN OK
  ELSE IF Has("#structural-subtyping") THEN SubtypeError(given, expected)
  ELSE CompatError(given, expected)

(* Its constraints: the comparator passes references to the two types, or  *)
(* to parts of them, so a constraint depends on where they are kept.  The  *)
(* subtype checker compares parts without the unifier.                     *)
Slot(attr, n) == [attr |-> attr, node |-> n]
Owned         == Slot("unifier", 0)    \* the constraint shares ownership
Nowhere       == Slot("local", 0)      \* a temporary of the visitor
Reconstructing == Has("#type-reconstruction")

EmitAlways(m, given, from, expected, to) ==    \* seeded bug: no variable is needed
  IF ~Reconstructing \/ m.raised # OK \/ None_ \in {given, expected} THEN m
  ELSE [m EXCEPT !.constraints = Append(@, [lhs |-> given, rhs |-> expected, from |-> from, to |-> to])]
Between(from, to, cs) ==
  [i \in DOMAIN cs |-> [lhs |-> cs[i].lhs, rhs |-> cs[i].rhs, from |-> from, to |-> to]]
Emit(m, given, from, expected, to) ==
  LET silent == \/ ~Reconstructing \/ m.raised # OK \/ None_ \in {given, expected}
                \/ Has("#structural-subtyping") /\ ~IsAuto(given) /\ ~IsAuto(expected)
  IN  IF silent THEN m
      ELSE [m EXCEPT !.constraints = @ \o Between(from, to, Emitted(given, expected))]

(* An explicit mismatch error of the expectation, and its default one for  *)
(* a structural mismatch, replace the comparison's error.                  *)
Structural == {UNEXPECTED_FIELDS, PARAM}
Reported(error, e) == IF error # OK /\ (e.explicit \/ error \in Structural) THEN e.code ELSE error
Checked(m, n, attr, t, e) ==
  IF e = NoExpectation THEN m
  ELSE Emit(Raise(m, Reported(Incompatible(t, e.type), e)),
            t, Slot(attr, n), e.type, Slot("expected", n))

StoreExpected(m, n, e) == IF m.raised = OK THEN [m EXCEPT !.expected[n] = e] ELSE m
ExpectType(m, n, e) ==
  StoreExpected(IF e.type = None_ THEN Raise(m, CRASH)
                ELSE IF m.deduced[n] = Absent THEN m ELSE Checked(m, n, "deduced", m.deduced[n], e), n, e)
Expect(m, n, t) == ExpectType(m, n, EqualsTo(t))

(* The provisional type only serves this check, but constraints may refer  *)
(* to its slot.                                                            *)
StoreProvisional(m, n, t) == IF m.raised = OK THEN [m EXCEPT !.provisional[n] = t] ELSE m
SetProvisional(m, t) ==
  StoreProvisional(Checked(m, This, "provisional", t, m.expected[This]), This, t)

StoreDeduced(m, n, t) == IF m.raised = OK THEN [m EXCEPT !.deduced[n] = t] ELSE m
SetDeducedUnchecked(m, n, t) == StoreDeduced(m, n, t)    \* a seeded bug
SetDeduced(m, n, t)   == StoreDeduced(Checked(m, n, "deduced", t, m.expected[n]), n, t)

Propagate(m, n) ==
  LET e == m.expected[This]
  IN  IF e = NoExpectation \/ IsSentinel(e.type) THEN m ELSE ExpectType(m, n, e)

(* Where a type variable stands for a type with parts: fresh variables for *)
(* the parts, and a constraint that owns its types (FreshTypeVar,          *)
(* AddConstraint of shared pointers, SaveNewType).                         *)
Fresh(i)       == FreshVars[mem.fresh + i]
Unresolved(t)  == Reconstructing /\ IsAuto(t)
InferUnsaved(t, new, k) ==    \* a seeded bug: no SaveNewType
  IF ~Unresolved(t) THEN mem
  ELSE [mem EXCEPT !.constraints = Append(@, [lhs |-> t, rhs |-> new, from |-> Owned, to |-> Owned]),
                   !.fresh = @ + k]
InferUnlinked(t, new, k) ==    \* a seeded bug: no AddConstraint
  IF ~Unresolved(t) THEN mem
  ELSE [mem EXCEPT !.new_types = @ \cup {new}, !.fresh = @ + k]
Infer(t, new, k) ==
  IF ~Unresolved(t) THEN mem
  ELSE [mem EXCEPT !.constraints = Append(@, [lhs |-> t, rhs |-> new, from |-> Owned, to |-> Owned]),
                   !.new_types = @ \cup {new},
                   !.fresh = @ + k]

(* Visiting types: the first error counts.                                 *)
TypesError(ts, scope) ==
  LET bad == {i \in DOMAIN ts : TypeError(ts[i], scope) # OK}
  IN  IF bad = {} THEN OK ELSE TypeError(ts[CHOOSE i \in bad : \A j \in bad : i <= j], scope)
CheckType(m, t) == Raise(m, TypeError(t, tvars))

Deduced(n) == mem.deduced[n]
Expected   == mem.expected[This].type
Expects(family)  == Expected # Absent /\ Family(Expected) = family
Concrete(family) == Expects(family) /\ ~IsSentinel(Expected)
ConcreteExpected == Expected # Absent /\ ~IsSentinel(Expected)

(* A component of a type: null for a sentinel.  A type built from a null   *)
(* first component is a sentinel: that is how IsSentinel tells.            *)
Part(t, i) == IF IsSentinel(t) THEN None_ ELSE t.args[i]
Built(t)   == IF t.args[1] = None_ THEN Sentinel_(t.tag) ELSE t

-----------------------------------------------------------------------------
(* Name contexts.  The guards of a frame are, for every name, the nodes it *)
(* pushed.                                                                 *)
NoGuards    == [x \in Names |-> <<>>]
Guard(x, n) == [NoGuards EXCEPT ![x] = <<n>>]
Push(ns, guards)    == [x \in Names |-> ns[x] \o guards[x]]
Release(ns, guards) == [x \in Names |-> SubSeq(ns[x], 1, Len(ns[x]) - Len(guards[x]))]

(* base is a history field: the name context when the visit began.         *)
Frame(n, ns) == [node |-> n, pc |-> 0, guards |-> NoGuards, tvs |-> <<>>,
                 result |-> None_, was_in_body |-> FALSE, base |-> ns]

Outside(ts, frame) == SubSeq(ts, 1, Len(ts) - Len(frame.tvs))

(* Seeded bugs: a child is skipped; a child is visited for ever.           *)
CallSkips(m, f, k) ==
  /\ mem' = m
  /\ frames' = IF m.raised # OK THEN frames
               ELSE [frames EXCEPT ![Len(frames)] = [f EXCEPT !.pc = @ + 2]] \o <<Frame(k, names)>>
  /\ UNCHANGED <<names, tvars, prog>>
CallRepeats(m, f, k) ==
  /\ mem' = m
  /\ frames' = IF m.raised # OK \/ m.deduced[k] # Absent THEN frames ELSE Append(frames, Frame(k, names))
  /\ UNCHANGED <<names, tvars, prog>>

(* This visit, now holding what f says, visits k after leaving m in the    *)
(* storage.  A node with a deduced type is not visited again.              *)
Call(m, f, k) ==
  /\ mem' = m
  /\ IF m.raised # OK THEN UNCHANGED <<frames, names, tvars>>
     ELSE LET ns == Push(Release(names, Top.guards), f.guards) IN
          /\ names' = ns
          /\ tvars' = Outside(tvars, Top) \o f.tvs
          /\ frames' = [frames EXCEPT ![Len(frames)] = [f EXCEPT !.pc = @ + 1]]
                       \o (IF m.deduced[k] = Absent THEN <<Frame(k, ns)>> ELSE <<>>)
  /\ UNCHANGED prog

(* Seeded bug: the guards do not pop when an error unwinds the stack.      *)
LeaveNoPop ==
  /\ frames' = SubSeq(frames, 1, Len(frames) - 1)
  /\ names' = IF mem.raised = OK THEN Release(names, Top.guards) ELSE names
  /\ tvars' = Outside(tvars, Top)

(* Leaving a visit runs the destructors of its guards.                     *)
Leave ==
  /\ frames' = SubSeq(frames, 1, Len(frames) - 1)
  /\ names' = Release(names, Top.guards)
  /\ tvars' = Outside(tvars, Top)

Finish(m) ==
  /\ mem' = m
  /\ IF m.raised = OK THEN Leave ELSE UNCHANGED <<frames, names, tvars>>
  /\ UNCHANGED prog

VisitWith(m, f, k) == Call(m, f, k) /\ UNCHANGED decls
Visit(m, k)        == VisitWith(m, Top, k)
ReturnFrom(m, t)   == Finish(SetDeduced(m, This, t)) /\ UNCHANGED decls
Return(t)          == ReturnFrom(mem, t)
Throw(code)        == /\ mem' = Raise(mem, code)
                      /\ UNCHANGED <<prog, frames, names, tvars, decls>>

(* SetAmbiguousOrError.                                                    *)
AmbiguousFrom(m, t, code) ==
  ReturnFrom(IF Has("#ambiguous-type-as-bottom") THEN m ELSE Raise(m, code), t)

(* The storage m at the beginning of a visit, mem later.                   *)
Entry(m) == IF Top.pc = 0 THEN m ELSE mem

(* An expression without subexpressions.                                   *)
Constant(kind, t) == At(kind, 0) /\ Return(t)

Unwind ==
  /\ ~Done /\ mem.raised # OK
  /\ Leave
  /\ UNCHANGED <<prog, mem, decls>>

-----------------------------------------------------------------------------
(* VisitProgram: the names of all functions are pushed first, then the     *)
(* declarations are visited in order.                                      *)
FunDeclsPlain == {i \in DOMAIN Kids : Node(Kid(i)).kind = "DeclFun"}    \* a seeded bug: no generics
FunDecls == {i \in DOMAIN Kids : Node(Kid(i)).kind \in {"DeclFun", "DeclFunGeneric"}}
NameOf(n) == Node(n).labs[1]
Duplicate == \E i, j \in FunDecls : i # j /\ NameOf(Kid(i)) = NameOf(Kid(j))
Hoisted == [x \in Names |->
              IF \E i \in FunDecls : NameOf(Kid(i)) = x
              THEN <<Kid(CHOOSE i \in FunDecls : NameOf(Kid(i)) = x)>> ELSE <<>>]
Mains == {n \in {Kid(i) : i \in DOMAIN Kids} : Node(n).kind = "DeclFun" /\ NameOf(n) = "main"}

VisitProgram ==
  \/ /\ At("Program", 0) /\ Kids # <<>>
     /\ IF Duplicate THEN Throw("ERROR_DUPLICATE_FUNCTION_DECLARATION")
        ELSE VisitWith(mem, [Top EXCEPT !.guards = Hoisted], Kid(1))
  \/ \E i \in Positions : At("Program", i) /\ i < Len(Kids) /\ Visit(mem, Kid(i + 1))
  \/ /\ At("Program", Len(Kids))
     /\ IF Mains = {} THEN Throw("ERROR_MISSING_MAIN")
        ELSE Return(Deduced(CHOOSE n \in Mains : TRUE))

NoNames == [x \in Names |-> <<>>]

(* A new TypeChecker, about to visit prog.                                 *)
NewStorage ==
  [deduced |-> [n \in Ids |-> Absent], expected |-> [n \in Ids |-> NoExpectation],
   provisional |-> [n \in Ids |-> Absent],
   constraints |-> <<>>, new_types |-> {}, fresh |-> 0, raised |-> OK]
NoExceptions == [type |-> None_, monotype |-> FALSE, labels |-> {}]
Begin ==
  /\ frames = <<Frame(1, NoNames)>>
  /\ mem = NewStorage
  /\ names = NoNames
  /\ tvars = <<>>
  /\ in_body = FALSE
  /\ exn = NoExceptions

Init == prog \in Programs /\ Begin

-----------------------------------------------------------------------------
(* What the node classes of stella/ast make sure of: the members that are  *)
(* not optional are there, parameters and patterns are of classes of their *)
(* own and stand where no expression does, and function declarations are   *)
(* children of programs and of function declarations only.  Nodes are      *)
(* immutable and the parser gives each to one parent: the program is a     *)
(* tree, numbered from the root.                                           *)
Arity ==
  [Abstraction |-> 2, Fix |-> 1, Application |-> 2, Let |-> 3, TypeAsc |-> 1, Sequence |-> 2,
   If |-> 3, IsZero |-> 1, Succ |-> 1, Pred |-> 1, NatRec |-> 3, TypeAbstraction |-> 1,
   TypeApplication |-> 1, ConsList |-> 2, Head |-> 1, Tail |-> 1, IsEmpty |-> 1, DotTuple |-> 1,
   DotRecord |-> 1, Inl |-> 1, Inr |-> 1, Throw |-> 1, TryWith |-> 2, TryCatch |-> 3,
   TypeCast |-> 1, TryCastAs |-> 4, Ref |-> 1, Deref |-> 1, Assign |-> 2,
   PatternCastAs |-> 1, PatternInl |-> 1, PatternInr |-> 1]
FunctionKinds == {"DeclFun", "DeclFunGeneric"}
PatternKinds == {"PatternVar", "PatternCastAs", "PatternInl", "PatternInr", "PatternVariant"}
TypedKinds == FunctionKinds \cup {"ParamDecl", "TypeAsc", "DeclExceptionType", "DeclExceptionVariant",
                                  "TypeCast", "TryCastAs", "PatternCastAs"}

WellBuilt(p) ==
  LET ids == 1..Len(p.node)
      IsFunction(n) == p.node[n].kind \in FunctionKinds IN
  /\ Len(p.node) \in Nat \ {0} /\ DOMAIN p.node = ids /\ p.node[1].kind = "Program"
  /\ \A n \in ids :
       LET kind == p.node[n].kind
           kids == p.node[n].kids IN
       /\ kids \in Seq(ids) /\ \A i \in DOMAIN kids : n < kids[i]
       /\ \A m \in ids : \A i \in DOMAIN kids, j \in DOMAIN p.node[m].kids :
            kids[i] = p.node[m].kids[j] => n = m /\ i = j
       /\ kind = "Program" => n = 1
       /\ kind \in DOMAIN Arity => Len(kids) = Arity[kind]
       /\ kind = "Variant" => Len(kids) <= 1
       /\ kind = "Match" => Len(kids) >= 1
       /\ kind = "Var" => p.node[n].labs[1] \in Names
       /\ kind = "Record" => DOMAIN p.node[n].labs = DOMAIN kids
       /\ kind \in FunctionKinds \cup {"Abstraction"} => p.node[kids[1]].kind = "ParamDecl"
       /\ kind = "Let" => p.node[kids[2]].kind = "PatternVar"
       /\ \A i \in DOMAIN kids : p.node[kids[i]].kind \in PatternKinds \cup {"ParamDecl"} =>
            \/ kind \in PatternKinds
            \/ kind \in FunctionKinds \cup {"Abstraction"} /\ i = 1
            \/ kind \in {"Let", "TryCatch", "TryCastAs"} /\ i = 2
            \/ kind = "Match" /\ i % 2 = 0
       /\ kind \in TypedKinds => 1 \in DOMAIN p.node[n].types
       /\ kind = "DeclExceptionType" => p.node[n].types[1] # None_
       /\ IF IsFunction(n) THEN Len(kids) >= 2 /\ ~IsFunction(kids[1]) /\ ~IsFunction(kids[Len(kids)])
          ELSE kind # "Program" => \A i \in DOMAIN kids : ~IsFunction(kids[i])

ASSUME GrammarAssumption == \A p \in Programs : WellBuilt(p)

Accepted == Done /\ mem.raised = OK
=============================================================================
