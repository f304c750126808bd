-------------------------- MODULE UnifierSemantics --------------------------
(***************************************************************************)
(* What the unifier computes, in terms of solutions.  A solution assigns a *)
(* finite type to every type variable, Value(x, t) is the finite type that *)
(* t stands for under solution x, and Sat(s, t) is the set of solutions    *)
(* under which s and t become the same type.  The assumptions say that a   *)
(* value is put together from the values of the variables in t, that a     *)
(* component is smaller than the whole, and that one call of               *)
(* ReconstructionComparator is exact.  They hold for types without         *)
(* sentinels, Unknown and subtyping; the runs of MCUnifierGaps show what   *)
(* sentinels do.                                                           *)
(***************************************************************************)
EXTENDS Unifier

CONSTANTS
  Sol, Sat(_, _),
  Value(_, _),
  Instance(_, _),   \* t with its variables replaced by finite types
  Size(_)           \* of a finite type

ASSUME SatAssumption ==
  \A s, t \in Type : Sat(s, t) = {x \in Sol : Value(x, s) = Value(x, t)}

ASSUME ValueAssumption ==
  /\ \A x \in Sol : \A t \in Type : Size(Value(x, t)) \in Nat
  /\ \A x \in Sol : \A t \in Ctor :
       /\ Value(x, t) = Instance(t, [v \in AutosOf(t) |-> Value(x, v)])
       /\ \A v \in AutosOf(t) : Size(Value(x, v)) < Size(Value(x, t))

ASSUME ExactAssumption ==
  \A s, t \in Ctor :
    Sat(s, t) = {x \in Sol : /\ CmpOk(s, t)
                             /\ \A i \in 1..Len(CmpEmits(s, t)) :
                                  x \in Sat(CmpEmits(s, t)[i].lhs, CmpEmits(s, t)[i].rhs)}

-----------------------------------------------------------------------------
SolvesSeq(x, cs)   == \A i \in 1..Len(cs) : x \in Sat(cs[i].lhs, cs[i].rhs)
SolvesClass(x, e)  ==
  \A u \in e.members : /\ \A v \in e.members : x \in Sat(u, v)
                       /\ e.bound # NoType => x \in Sat(u, e.bound)
SolvesStore(x, s)  == \A i \in 1..Len(s[1]) : SolvesClass(x, s[1][i])

InputSolutions   == {x \in Sol : \A c \in input : x \in Sat(c.lhs, c.rhs)}
BindingSolutions == {x \in Sol : SolvesStore(x, store)}
Remaining        == {x \in BindingSolutions : SolvesSeq(x, constraints) /\ SolvesSeq(x, worklist)}

TypeError == {"ERROR_OCCURS_CHECK_INFINITE_TYPE", "ERROR_UNEXPECTED_TYPE_FOR_EXPRESSION"}

(* Whatever the order in which UnifyAll serves, merges and re-queues       *)
(* constraints, the pending constraints and the classes together have the  *)
(* solutions of the constraints the visitors added: none is lost, none is  *)
(* invented, until an error is reported.                                   *)
SolutionsPreserved == phase \notin TypeError => Remaining = InputSolutions

(* ReportUnificationError is only reached on constraints without any       *)
(* solution: no well-typed program is rejected by reconstruction.          *)
ErrorsJustified == phase \in TypeError => InputSolutions = {}

(* An accepted program leaves no choice: all solutions of the constraints  *)
(* give every registered variable the same type (the last loop of UnifyAll *)
(* and its "ambiguous" error).                                             *)
AcceptedDetermined ==
  phase = "Well-typed" =>
    \A x, y \in InputSolutions : \A v \in registry : Value(x, v) = Value(y, v)

(* The unifier implements the promise of type reconstruction.              *)
Promise == INSTANCE Reconstruction WITH
  Equations <- Inputs,
  sols    <- InputSolutions,
  verdict <- CASE phase = "Well-typed"           -> "accepted"
               [] phase \in TypeError            -> "type error"
               [] phase = "ERROR_AMBIGUOUS_TYPE" -> "ambiguous"
               [] OTHER                          -> "none",
  typing  <- IF phase = "Well-typed" THEN BindingSolutions ELSE {}

ImplementsReconstruction == Promise!Spec

(* Every solvable system of constraints gets its verdict: the rounds of    *)
(* UnifyAll do not re-queue constraints for ever.                          *)
SolvableDecided == (phase = "unify" /\ InputSolutions # {}) ~> Decided
=============================================================================
