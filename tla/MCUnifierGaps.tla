--------------------------- MODULE MCUnifierGaps ---------------------------
(***************************************************************************)
(* Three small programs on which the unifier does not do what the code     *)
(* says of itself.  Two type variables a and b, the parameters of a        *)
(* function; each program adds its constraints in any order.               *)
(***************************************************************************)
EXTENDS Unifier, StellaTypes

CONSTANT Program   \* the constraints of the program

a == Auto_("a")
b == Auto_("b")

MCAuto == {a, b}
MCCtor == UNION {SubTerms(e.lhs) \cup SubTerms(e.rhs) : e \in Program} \ MCAuto
MCCmpOk(s, t) == CheckCompatible(s, t) = OK

(* cons(y, x) and if _ then x else y                                       *)
CycleProgram    == {Eqn(a, List_(b)), Eqn(a, b)}
(* List::isempty(x) and List::isempty(y)                                   *)
SentinelProgram == {Eqn(a, Sentinel_("List")), Eqn(b, Sentinel_("List"))}
(* cons(List::head(y), x), List::tail(x) as b, and the conditional         *)
DivergeProgram  == {Eqn(a, List_(List_(b))), Eqn(a, List_(b)), Eqn(a, b)}

(* One binding mentions the other's class.                                 *)
Mentions(u, v) == \E w \in AutosOf(classes[class_of[u]].bound) : class_of[w] = class_of[v]

(* Error message of the golden tests: a program whose constraints need an  *)
(* infinite type is rejected, so no accepted binding leads back to itself. *)
(* MergeClasses makes no occurs check when only one class is bound.        *)
NoInfiniteType ==
  phase = "Well-typed" =>
    \A u, v \in registry : ~(Mentions(u, v) /\ Mentions(v, u))

(* unifier.cpp: "check that all TypeAuto instances have been bound to a    *)
(* concrete type".  A family sentinel stands for no concrete type.         *)
AllBoundConcrete ==
  phase = "Well-typed" =>
    \A v \in registry : ~IsSentinel(classes[class_of[v]].bound)

(* UnifyAll comes to an end: it returns or throws.                         *)
UnifyAllEnds == phase = "unify" ~> Decided
=============================================================================
