-------------------------- MODULE EffectVisitors ---------------------------
(***************************************************************************)
(* The visitors of exceptions, casts, references and panic!                *)
(* (type_checker_exception, _cast, _reference and _panic.cpp).             *)
(***************************************************************************)
EXTENDS CheckerCore

(* panic! and throw take whatever type is expected of them.                *)
Diverge(code) ==
  IF Expected = Absent THEN AmbiguousFrom(mem, Bot_, code) ELSE Return(Expected)

VisitExprPanic == At("Panic", 0) /\ Diverge("ERROR_AMBIGUOUS_PANIC_TYPE")

-----------------------------------------------------------------------------
(* Exception declarations, in the order of the program.                    *)
Declare(error, e) ==
  LET m == Raise(mem, error) IN
  /\ Finish(SetDeduced(m, This, e.type))
  /\ exn' = IF error = OK THEN e ELSE exn
  /\ UNCHANGED in_body

VisitDeclExceptionType ==
  /\ At("DeclExceptionType", 0)
  /\ Declare(IF in_body THEN "ERROR_ILLEGAL_LOCAL_EXCEPTION_TYPE"
             ELSE IF exn.labels # {} THEN "ERROR_CONFLICTING_EXCEPTION_DECLARATIONS"
             ELSE IF exn.monotype THEN "ERROR_DUPLICATE_EXCEPTION_TYPE"
             ELSE OK,
             [exn EXCEPT !.type = TypeArg, !.monotype = TRUE])

(* Seeded bug: a variant may follow an exception type.                     *)
VisitDeclExceptionVariantMixed ==
  LET t == exn.type
      labs == IF Family(t) = "Variant" THEN t.lab ELSE <<>>
      args == IF Family(t) = "Variant" THEN t.args ELSE <<>> IN
  /\ At("DeclExceptionVariant", 0)
  /\ Declare(IF in_body THEN "ERROR_ILLEGAL_LOCAL_OPEN_VARIANT_EXCEPTION"
             ELSE IF Lab \in exn.labels THEN "ERROR_DUPLICATE_EXCEPTION_VARIANT"
             ELSE OK,
             [exn EXCEPT !.type = Variant_(Append(labs, Lab), Append(args, TypeArg)),
                         !.labels = @ \cup {Lab}])

VisitDeclExceptionVariant ==
  LET t == exn.type
      labs == IF Family(t) = "Variant" THEN t.lab ELSE <<>>
      args == IF Family(t) = "Variant" THEN t.args ELSE <<>> IN
  /\ At("DeclExceptionVariant", 0)
  /\ Declare(IF in_body THEN "ERROR_ILLEGAL_LOCAL_OPEN_VARIANT_EXCEPTION"
             ELSE IF exn.monotype THEN "ERROR_CONFLICTING_EXCEPTION_DECLARATIONS"
             ELSE IF Lab \in exn.labels THEN "ERROR_DUPLICATE_EXCEPTION_VARIANT"
             ELSE OK,
             [exn EXCEPT !.type = Variant_(Append(labs, Lab), Append(args, TypeArg)),
                         !.labels = @ \cup {Lab}])

NOT_DECLARED == "ERROR_EXCEPTION_TYPE_NOT_DECLARED"

VisitExprThrow ==
  \/ /\ At("Throw", 0)
     /\ IF exn.type = None_ THEN Throw(NOT_DECLARED) ELSE Visit(Expect(mem, Kid(1), exn.type), Kid(1))
  \/ At("Throw", 1) /\ Diverge("ERROR_AMBIGUOUS_THROW_TYPE")

VisitExprTryWith ==
  \/ At("TryWith", 0) /\ Visit(Propagate(mem, Kid(1)), Kid(1))
  \/ At("TryWith", 1) /\ Visit(Expect(mem, Kid(2), Deduced(Kid(1))), Kid(2))
  \/ At("TryWith", 2) /\ Return(Deduced(Kid(1)))

(* Children <<try, pattern, fallback>>.                                    *)
BadPatternUnless(isVar) == IF isVar THEN OK ELSE "ERROR_UNEXPECTED_PATTERN_FOR_TYPE"
VarPattern == Node(Kid(2)).kind = "PatternVar"
Bound      == [Top EXCEPT !.guards = IF VarPattern THEN Guard(NameOf(Kid(2)), Kid(2)) ELSE NoGuards]

VisitExprTryCatch ==
  \/ /\ At("TryCatch", 0)
     /\ IF exn.type = None_ THEN Throw(NOT_DECLARED) ELSE Visit(Propagate(mem, Kid(1)), Kid(1))
  \/ /\ At("TryCatch", 1)
     /\ LET m == SetDeduced(Raise(mem, BadPatternUnless(VarPattern)), Kid(2), exn.type)
        IN  VisitWith(Expect(m, Kid(3), Deduced(Kid(1))), Bound, Kid(3))
  \/ At("TryCatch", 2) /\ Return(Deduced(Kid(1)))

-----------------------------------------------------------------------------
VisitExprTypeCast ==
  \/ At("TypeCast", 0) /\ Visit(CheckType(mem, TypeArg), Kid(1))
  \/ At("TypeCast", 1) /\ Return(TypeArg)

(* Children <<try, pattern, success, fallback>>.                           *)
VisitExprTryCastAs ==
  \/ At("TryCastAs", 0) /\ Visit(CheckType(mem, TypeArg), Kid(1))
  \/ /\ At("TryCastAs", 1)
     /\ LET m == Raise(mem, BadPatternUnless(VarPattern))
        IN  VisitWith(SetDeduced(Propagate(Propagate(m, Kid(3)), Kid(4)), Kid(2), TypeArg),
                      Bound, Kid(3))
  \/ /\ At("TryCastAs", 2)
     /\ VisitWith(Expect(mem, Kid(4), Deduced(Kid(3))), [Top EXCEPT !.guards = NoGuards], Kid(4))
  \/ At("TryCastAs", 3) /\ Return(Deduced(Kid(3)))

-----------------------------------------------------------------------------
VisitExprRef ==
  \/ /\ At("Ref", 0)
     /\ LET m == SetProvisional(mem, Sentinel_("Ref"))
        IN  Visit(IF Concrete("Ref") THEN Expect(m, Kid(1), Part(Expected, 1)) ELSE m, Kid(1))
  \/ /\ At("Ref", 1)
     /\ LET t == Deduced(Kid(1))
            asked == Part(Expected, 1)
            upcast == Concrete("Ref") /\ Has("#structural-subtyping") IN
        IF upcast /\ t = None_ THEN Throw(CRASH)
        ELSE IF upcast /\ ~IsSentinel(t) /\ ~IsSentinel(asked) /\ SubtypeError(t, asked) = OK
        THEN Return(Ref_(asked))
        ELSE Return(Built(Ref_(t)))

VisitExprDeref ==
  \/ /\ At("Deref", 0)
     /\ LET t == IF ConcreteExpected /\ ~Has("#structural-subtyping") THEN Ref_(Expected)
                 ELSE Sentinel_("Ref")
        IN  Visit(ExpectType(mem, Kid(1), EqualsToOr(t, "ERROR_NOT_A_REFERENCE")), Kid(1))
  \/ /\ At("Deref", 1)
     /\ LET t == Deduced(Kid(1))
        IN  IF Family(t) # "Ref" THEN Throw(INTERNAL) ELSE Return(Part(t, 1))

VisitExprAssign ==
  \/ At("Assign", 0) /\ Visit(Expect(mem, Kid(1), Sentinel_("Ref")), Kid(1))
  \/ /\ At("Assign", 1)
     /\ LET t == Deduced(Kid(1)) IN
        IF Family(t) # "Ref" THEN Throw(INTERNAL) ELSE Visit(Expect(mem, Kid(2), Part(t, 1)), Kid(2))
  \/ At("Assign", 2) /\ Return(Unit_)

VisitExprConstMemory ==
  /\ At("ConstMemory", 0)
  /\ IF Concrete("Ref") THEN Return(Expected)
     ELSE IF Expected # Absent /\ ~Expects("Ref") THEN Throw("ERROR_UNEXPECTED_MEMORY_ADDRESS")
     ELSE AmbiguousFrom(mem, Ref_(Bot_), "ERROR_AMBIGUOUS_REFERENCE_TYPE")
=============================================================================
