---------------------------- MODULE StellaTypes ----------------------------
(***************************************************************************)
(* The pure relations on type terms: Type::CheckCompatible with its error  *)
(* codes, the constraints ReconstructionComparator emits while it          *)
(* compares, and SubtypeChecker::IsSubtypeOrError.                         *)
(*                                                                         *)
(* Only TLC evaluates this module: its operators are RECURSIVE.            *)
(***************************************************************************)
EXTENDS StellaTerms, FiniteSets, SequencesExt

(* What Type::Contains finds with the predicate "is that type variable":   *)
(* the search enters every component, and nothing of a sentinel.           *)
RECURSIVE AutosIn(_)
AutosIn(t) == IF IsAuto(t) THEN {t} ELSE UNION {AutosIn(t.args[i]) : i \in DOMAIN t.args}

RECURSIVE SubTerms(_)
SubTerms(t) == {t} \cup UNION {SubTerms(t.args[i]) : i \in DOMAIN t.args}

-----------------------------------------------------------------------------
(* One level of a comparison is a sequence of checks done in order: either *)
(* a failure met on the way, or a pair handed to the comparator, whose     *)
(* error is reported as itself ("same") or replaced by another code.       *)
Pair(a, b)         == [lhs |-> a, rhs |-> b, code |-> "same"]
PairAs(a, b, code) == [lhs |-> a, rhs |-> b, code |-> code]
Fail(code)         == [lhs |-> Leaf("Failed"), rhs |-> Leaf("Failed"), code |-> code]
IsFail(c)          == c.lhs = Leaf("Failed")

(* e is what the comparator says of a pair.  The first error is the result. *)
Outcome(c, e) ==
  IF IsFail(c) THEN c.code ELSE IF e \in {OK, CRASH} \/ c.code = "same" THEN e ELSE c.code
FirstError(outcomes) ==
  LET i == SelectInSeq(outcomes, LAMBDA e : e # OK) IN IF i = 0 THEN OK ELSE outcomes[i]

FieldOf(t, l) == SelectInSeq(t.lab, LAMBDA m : m = l)   \* 0 if there is none
Pairwise(as, bs)   == [i \in 1..Len(bs) |-> Pair(as[i], bs[i])]

RecordChecks(a, b) ==
  CASE Len(a.lab) < Len(b.lab) -> <<Fail(MISSING_FIELDS)>>
    [] Len(a.lab) > Len(b.lab) -> <<Fail(UNEXPECTED_FIELDS)>>
    [] OTHER -> [i \in DOMAIN b.lab |->
                   LET j == FieldOf(a, b.lab[i])
                   IN  IF j = 0 THEN Fail(UNEXPECTED_FIELDS)
                       ELSE Pair(a.args[j], b.args[i])]

VariantChecks(a, b) ==
  LET Field(i) ==
        CASE a.lab[i] # b.lab[i] -> <<Fail(VARIANT_LABEL)>>
          [] (a.args[i] = None_) # (b.args[i] = None_) -> <<Fail(MISMATCH)>>
          [] a.args[i] = None_ -> <<>>
          [] OTHER -> <<Pair(a.args[i], b.args[i])>>
  IN  IF Len(a.lab) # Len(b.lab) THEN <<Fail(MISMATCH)>>
      ELSE FlattenSeq([i \in DOMAIN a.lab |-> Field(i)])

FunChecks(a, b)    == <<PairAs(a.args[1], b.args[1], PARAM), Pair(a.args[2], b.args[2])>>
TupleChecks(a, b)  == IF Len(a.args) # Len(b.args) THEN <<Fail(TUPLE_LENGTH)>> ELSE Pairwise(a.args, b.args)
VarChecks(a, b)    == IF a.lab # b.lab THEN <<Fail(MISMATCH)>> ELSE <<>>
ForAllChecks(a, b) == Pairwise(a.args, b.args)    \* the parameters are not compared

(* The CheckCompatibleImpl overrides of every type class.                  *)
Checks(a, b) ==
  IF Family(a) # Family(b) THEN <<Fail(FamilyMismatchError(a, b))>>
  ELSE IF IsSentinel(a) \/ IsSentinel(b) THEN <<>>
  ELSE CASE a.tag = "Fun"     -> FunChecks(a, b)
         [] a.tag = "Tuple"   -> TupleChecks(a, b)
         [] a.tag = "Record"  -> RecordChecks(a, b)
         [] a.tag = "Variant" -> VariantChecks(a, b)
         [] a.tag = "Var"     -> VarChecks(a, b)
         [] a.tag = "ForAll"  -> ForAllChecks(a, b)
         [] OTHER -> Pairwise(a.args, b.args)    \* List, Ref, Sum; leaves have no args

(* Type::CheckCompatible with the default comparator.  A component may be  *)
(* a null pointer, which the comparison dereferences.                      *)
RECURSIVE CheckCompatible(_, _)
Compared(cs) ==
  FirstError([i \in DOMAIN cs |-> Outcome(cs[i], CheckCompatible(cs[i].lhs, cs[i].rhs))])
CheckCompatible(a, b) ==
  CASE None_ \in {a, b} -> CRASH
    [] None_ \notin {a, b} /\ (MatchesAny(a) \/ MatchesAny(b)) -> OK
    [] OTHER -> Compared(Checks(a, b))

(* The constraints a comparison under ReconstructionComparator (without a  *)
(* subtype checker) adds to the unifier, in order, when it finds no error. *)
(* Its error code is CheckCompatible's: a type variable on either side     *)
(* becomes a constraint exactly where the default comparator accepts it.   *)
Eqn(l, r) == [lhs |-> l, rhs |-> r]

RECURSIVE Emits(_, _)
AllEmits(cs) ==
  FlattenSeq([i \in DOMAIN cs |-> IF IsFail(cs[i]) THEN <<>> ELSE Emits(cs[i].lhs, cs[i].rhs)])
Emits(a, b) ==
  IF IsAuto(a) \/ IsAuto(b) THEN <<Eqn(a, b)>>
  ELSE IF MatchesAny(a) \/ MatchesAny(b) THEN <<>>
  ELSE AllEmits(Checks(a, b))

-----------------------------------------------------------------------------
(* SubtypeChecker: the structural rules, one level at a time.              *)
RecordSubChecksInOrder(a, b) ==    \* seeded bug: fields are found by their place
  IF Len(a.lab) < Len(b.lab) THEN <<Fail(MISSING_FIELDS)>>
  ELSE [i \in DOMAIN b.lab |->
          IF a.lab[i] # b.lab[i] THEN Fail(MISSING_FIELDS) ELSE Pair(a.args[i], b.args[i])]
RecordSubChecks(a, b) ==
  [i \in DOMAIN b.lab |->
     LET j == FieldOf(a, b.lab[i])
     IN  IF j = 0 THEN Fail(MISSING_FIELDS) ELSE Pair(a.args[j], b.args[i])]

VariantSubChecks(a, b) ==
  LET Field(i) ==
        LET j == FieldOf(b, a.lab[i])
        IN  CASE j = 0 -> <<Fail(VARIANT_LABEL)>>
              [] j # 0 /\ None_ \in {a.args[i], b.args[j]} -> <<>>
              [] OTHER -> <<Pair(a.args[i], b.args[j])>>
  IN  FlattenSeq([i \in DOMAIN a.lab |-> Field(i)])

(* Parameters are contravariant and references invariant; each is preceded *)
(* by a seeded bug that makes it covariant.                                *)
FunCovariant(a, b) == Pairwise(a.args, b.args)
FunSubChecks(a, b) == <<Pair(b.args[1], a.args[1]), Pair(a.args[2], b.args[2])>>
RefCovariant(a, b) == Pairwise(a.args, b.args)
RefSubChecks(a, b) == <<Pair(a.args[1], b.args[1]), Pair(b.args[1], a.args[1])>>

SubChecks(a, b) ==
  CASE a.tag = "Fun"     -> FunSubChecks(a, b)
    [] a.tag = "Tuple"   -> TupleChecks(a, b)    \* RuleTuple makes the same checks
    [] a.tag = "Record"  -> RecordSubChecks(a, b)
    [] a.tag = "Variant" -> VariantSubChecks(a, b)
    [] a.tag = "Ref"     -> RefSubChecks(a, b)
    [] a.tag \in {"List", "Sum"} -> Pairwise(a.args, b.args)
    [] OTHER -> <<Fail(SUBTYPE)>>          \* no rule applies

RECURSIVE IsSubtypeOrError(_, _)
SubCompared(cs) ==
  FirstError([i \in DOMAIN cs |-> Outcome(cs[i], IsSubtypeOrError(cs[i].lhs, cs[i].rhs))])
IsSubtypeOrError(sub, super) ==
  IF None_ \in {sub, super} THEN CRASH
  ELSE IF \/ "Unknown" \in {sub.tag, super.tag}        \* RuleUnknown
          \/ sub.tag = "Bot" \/ super.tag = "Top"       \* RuleBot, RuleTop
          \/ CheckCompatible(sub, super) = OK           \* RuleReflexivity, sentinels
  THEN OK
  ELSE IF Family(sub) # Family(super) THEN SUBTYPE
  ELSE SubCompared(SubChecks(sub, super))
=============================================================================
