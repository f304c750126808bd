--------------------------- MODULE DataVisitors ----------------------------
(***************************************************************************)
(* The visitors of lists, tuples, records, sums, variants and match        *)
(* (type_checker_list, _tuple, _record, _sum, _variant and _match.cpp).    *)
(***************************************************************************)
EXTENDS CheckerCore

UNEXPECTED_PATTERN == "ERROR_UNEXPECTED_PATTERN_FOR_TYPE"
UNDEFINED_BEHAVIOUR == "undefined behaviour"

FieldAt(ls, l) == IF \E i \in DOMAIN ls : ls[i] = l
                  THEN CHOOSE i \in DOMAIN ls : ls[i] = l /\ \A j \in 1..(i - 1) : ls[j] # l
                  ELSE 0
Repeated(ls) == \E i, j \in DOMAIN ls : i # j /\ ls[i] = ls[j]
KidTypes == [i \in DOMAIN Kids |-> Deduced(Kid(i))]

(* What a loop over children takes as their common type: the first found.  *)
FirstType(previous) == IF Top.result # None_ THEN Top.result ELSE previous

-----------------------------------------------------------------------------
VisitExprList ==
  LET hint == IF Expects("List") THEN Part(Expected, 1) ELSE None_
      m == Entry(SetProvisional(mem, Sentinel_("List")))
      elem == IF Top.pc = 0 THEN hint ELSE FirstType(Deduced(Kid(Top.pc))) IN
  \/ \E i \in Positions :
       /\ At("List", i - 1)
       /\ VisitWith(IF elem = None_ THEN m ELSE Expect(m, Kid(i), elem),
                    [Top EXCEPT !.result = elem], Kid(i))
  \/ /\ At("List", Len(Kids))
     /\ IF Kids = <<>> /\ hint = None_
        THEN AmbiguousFrom(m, List_(Bot_), "ERROR_AMBIGUOUS_LIST")
        ELSE ReturnFrom(m, Built(List_(elem)))

(* Children <<head, tail>>.                                                *)
VisitExprConsList ==
  LET hint == IF Concrete("List") THEN Part(Expected, 1) ELSE None_
      Listed(m, t) == Expect(m, Kid(2), Built(List_(t))) IN
  \/ /\ At("ConsList", 0)
     /\ LET m == Expect(SetProvisional(mem, Sentinel_("List")), Kid(2), Sentinel_("List"))
        IN  Visit(IF hint = None_ THEN m ELSE Listed(Expect(m, Kid(1), hint), hint), Kid(1))
  \/ /\ At("ConsList", 1)
     /\ Visit(IF hint = None_ THEN Listed(mem, Deduced(Kid(1))) ELSE mem, Kid(2))
  \/ /\ At("ConsList", 2)
     /\ LET t == Deduced(Kid(2))
            list_type == Built(List_(IF hint = None_ THEN Deduced(Kid(1)) ELSE hint)) IN
        IF Family(t) # "List" /\ ~Unresolved(t) THEN Throw(INTERNAL)
        ELSE ReturnFrom(Infer(t, list_type, 0), list_type)

(* An operation on one list, of a fresh element type where it is unknown.  *)
ListType(t) == IF Unresolved(t) THEN List_(Fresh(1)) ELSE t
OnList(kind, expectation, result) ==
  \/ At(kind, 0) /\ Visit(Expect(mem, Kid(1), expectation), Kid(1))
  \/ /\ At(kind, 1)
     /\ LET t == Deduced(Kid(1)) IN
        IF Family(ListType(t)) # "List" THEN Throw(INTERNAL)
        ELSE ReturnFrom(Infer(t, ListType(t), 1), result)

VisitExprHead ==
  OnList("Head", IF ConcreteExpected THEN List_(Expected) ELSE Sentinel_("List"),
         Part(ListType(Deduced(Kid(1))), 1))
VisitExprTail ==
  OnList("Tail", IF ConcreteExpected THEN Expected ELSE Sentinel_("List"),
         ListType(Deduced(Kid(1))))

VisitExprIsEmpty ==
  \/ /\ At("IsEmpty", 0)
     /\ Visit(Expect(SetProvisional(mem, Bool_), Kid(1), Sentinel_("List")), Kid(1))
  \/ At("IsEmpty", 1) /\ Return(Bool_)

-----------------------------------------------------------------------------
VisitExprTuple ==
  LET m == Entry(SetProvisional(SetProvisional(mem, Sentinel_("Tuple")),
                                Tuple_([j \in DOMAIN Kids |-> Unknown_]))) IN
  \/ \E i \in Positions :
       /\ At("Tuple", i - 1)
       /\ Visit(IF Concrete("Tuple") /\ i <= Len(Expected.args)
                THEN Expect(m, Kid(i), Expected.args[i]) ELSE m, Kid(i))
  \/ At("Tuple", Len(Kids)) /\ ReturnFrom(m, Tuple_(KidTypes))

(* An unknown tuple is taken for a pair.  Reading the components of a      *)
(* sentinel is undefined behaviour: the model stops there.                 *)
VisitExprDotTuple ==
  \/ At("DotTuple", 0) /\ Visit(Expect(mem, Kid(1), Sentinel_("Tuple")), Kid(1))
  \/ /\ At("DotTuple", 1)
     /\ LET t == Deduced(Kid(1))
            tuple_type == IF Unresolved(t) THEN Tuple_(<<Fresh(1), Fresh(2)>>) ELSE t IN
        IF Family(tuple_type) # "Tuple" THEN Throw("ERROR_NOT_A_TUPLE")
        ELSE IF IsSentinel(tuple_type) THEN Throw(UNDEFINED_BEHAVIOUR)
        ELSE IF Lab \notin DOMAIN tuple_type.args THEN Throw("ERROR_TUPLE_INDEX_OUT_OF_BOUNDS")
        ELSE ReturnFrom(Infer(t, tuple_type, 2), tuple_type.args[Lab])

(* The labels are compared with the expected ones before any field is      *)
(* visited, every field type being unknown.                                *)
VisitExprRecord ==
  LET ls == Node(This).labs
      shape == Record_(ls, [i \in DOMAIN ls |-> Unknown_])
      m0 == SetProvisional(mem, Sentinel_("Record"))
      m1 == IF Repeated(ls) THEN Raise(m0, "ERROR_DUPLICATE_RECORD_FIELDS")
            ELSE IF ~Concrete("Record") THEN m0
            ELSE Emit(Raise(m0, Incompatible(shape, Expected)),
                      shape, Nowhere, Expected, Slot("expected", This))
      m == Entry(m1) IN
  \/ \E i \in Positions :
       LET j == IF Concrete("Record") THEN FieldAt(Expected.lab, ls[i]) ELSE 0 IN
       /\ At("Record", i - 1)
       /\ Visit(IF j = 0 THEN m ELSE Expect(m, Kid(i), Expected.args[j]), Kid(i))
  \/ At("Record", Len(Kids)) /\ ReturnFrom(m, Record_(ls, KidTypes))

VisitExprDotRecord ==
  \/ At("DotRecord", 0) /\ Visit(Expect(mem, Kid(1), Sentinel_("Record")), Kid(1))
  \/ /\ At("DotRecord", 1)
     /\ LET t == Deduced(Kid(1)) IN
        IF Family(t) # "Record" THEN Throw(INTERNAL)
        ELSE IF IsSentinel(t) THEN Throw(UNDEFINED_BEHAVIOUR)
        ELSE IF FieldAt(t.lab, Lab) = 0 THEN Throw("ERROR_UNEXPECTED_FIELD_ACCESS")
        ELSE Return(t.args[FieldAt(t.lab, Lab)])

-----------------------------------------------------------------------------
(* Injections: side 1 is inl.                                              *)
Inject(kind, side) ==
  \/ /\ At(kind, 0)
     /\ LET m == SetProvisional(mem, Sentinel_("Sum"))
        IN  Visit(IF Concrete("Sum") THEN Expect(m, Kid(1), Expected.args[side]) ELSE m, Kid(1))
  \/ /\ At(kind, 1)
     /\ LET t == Deduced(Kid(1)) IN
        IF Concrete("Sum") THEN Return(Expected)
        ELSE AmbiguousFrom(mem, IF side = 1 THEN Built(Sum_(t, Bot_)) ELSE Sum_(Bot_, t),
                           "ERROR_AMBIGUOUS_SUM_TYPE")

VisitExprInl == Inject("Inl", 1)
VisitExprInrLeft == Inject("Inr", 1)    \* a seeded bug
VisitExprInr == Inject("Inr", 2)

(* The payload is optional: no child.                                      *)
VisitExprVariant ==
  LET known == Concrete("Variant")
      i == IF known THEN FieldAt(Expected.lab, Lab) ELSE 0
      m == Entry(Raise(SetProvisional(mem, Sentinel_("Variant")),
                       IF known /\ i = 0 THEN VARIANT_LABEL ELSE OK)) IN
  \/ /\ At("Variant", 0) /\ Kids # <<>>
     /\ Visit(IF i = 0 THEN m
              ELSE IF Expected.args[i] = None_ THEN m ELSE Expect(m, Kid(1), Expected.args[i]),
              Kid(1))
  \/ /\ At("Variant", Len(Kids))
     /\ IF known THEN ReturnFrom(m, Expected)
        ELSE AmbiguousFrom(m, Bot_, "ERROR_AMBIGUOUS_VARIANT_TYPE")

-----------------------------------------------------------------------------
(* Match: children <<scrutinee, pattern 1, expression 1, pattern 2, ...>>. *)
ArmCount   == (Len(Kids) - 1) \div 2
Arms       == 1..ArmCount
Pattern(k) == Kid(2 * k)
ArmExpr(k) == Kid(2 * k + 1)
AllAre(kind) == \A k \in Arms : Node(Pattern(k)).kind = kind
Mode == LET t == Deduced(Kid(1)) IN
        IF AllAre("PatternCastAs") THEN "cast"
        ELSE IF Family(t) = "Variant" THEN "variant"
        ELSE IF Family(t) = "Sum" THEN "sum"
        ELSE "other"

(* What an arm binds: [error, var, type]; no variable is node 0.           *)
Binds(v, t)     == [error |-> OK, var |-> v, type |-> t]
BindsNothing    == Binds(0, None_)
BadPattern      == [BindsNothing EXCEPT !.error = UNEXPECTED_PATTERN]
IsVar(p)        == Node(p).kind = "PatternVar"
Inner(p)        == Node(p).kids[1]
BindVar(p, t)   == IF IsVar(p) THEN Binds(p, t) ELSE BadPattern

VariantBinding(p, t) ==
  IF IsSentinel(t) THEN [BindsNothing EXCEPT !.error = UNDEFINED_BEHAVIOUR]
  ELSE IF Node(p).kind # "PatternVariant" THEN BadPattern
  ELSE IF FieldAt(t.lab, NameOf(p)) = 0 THEN BadPattern
  ELSE IF Node(p).kids = <<>> THEN BindsNothing
  ELSE BindVar(Inner(p), t.args[FieldAt(t.lab, NameOf(p))])

SumBinding(p, t) ==
  CASE Node(p).kind = "PatternInl" -> BindVar(Inner(p), Part(t, 1))
    [] Node(p).kind = "PatternInr" -> BindVar(Inner(p), Part(t, 2))
    [] OTHER -> BadPattern

CastBinding(p) ==
  IF IsVar(Inner(p)) THEN Binds(Inner(p), Node(p).types[1]) ELSE BindsNothing

Binding(p) ==
  LET t == Deduced(Kid(1)) IN
  CASE Mode = "cast"    -> CastBinding(p)
    [] Mode = "variant" -> VariantBinding(p, t)
    [] Mode = "sum"     -> SumBinding(p, t)
    [] Mode = "other"   -> IF AllAre("PatternVar") THEN Binds(p, t) ELSE BadPattern

VisitPatternCastAs ==
  LET t == TypeArg
      m == CheckType(mem, t) IN
  /\ At("PatternCastAs", 0)
  /\ ReturnFrom(IF IsVar(Kid(1)) THEN SetDeduced(m, Kid(1), t) ELSE m, t)

(* VisitMatchArm: the type of the first arm is expected of the others,     *)
(* unless the match's own expectation takes its place.                     *)
VisitMatchArm(k, b) ==
  LET bound == b.var # 0 /\ b.type # None_
      first == IF k = 1 THEN None_ ELSE FirstType(Deduced(ArmExpr(k - 1)))
      m == IF bound THEN SetDeduced(mem, b.var, b.type) ELSE mem
      f == [Top EXCEPT !.guards = IF bound THEN Guard(NameOf(b.var), b.var) ELSE NoGuards,
                       !.result = first]
  IN  VisitWith(Propagate(IF first = None_ THEN m ELSE Expect(m, ArmExpr(k), first), ArmExpr(k)),
                f, ArmExpr(k))

(* A cast pattern is visited before its arm.                               *)
VisitCase(k) ==
  LET b == Binding(Pattern(k)) IN
  IF b.error # OK THEN Throw(b.error)
  ELSE IF Mode = "cast" /\ Deduced(Pattern(k)) = Absent
  THEN VisitWith(mem, [Top EXCEPT !.guards = NoGuards, !.pc = k - 1], Pattern(k))
  ELSE VisitMatchArm(k, b)

Covered(kind) == \E k \in Arms : Node(Pattern(k)).kind = kind
(* Seeded bug: one side of a sum is enough.                                *)
ExhaustiveOneSide ==
  CASE Mode = "sum"     -> Covered("PatternInl") \/ Covered("PatternInr")
    [] Mode = "variant" -> \A i \in DOMAIN Deduced(Kid(1)).lab :
                             \E k \in Arms : NameOf(Pattern(k)) = Deduced(Kid(1)).lab[i]
    [] OTHER -> TRUE
Exhaustive ==
  CASE Mode = "sum"     -> Covered("PatternInl") /\ Covered("PatternInr")
    [] Mode = "variant" -> \A i \in DOMAIN Deduced(Kid(1)).lab :
                             \E k \in Arms : NameOf(Pattern(k)) = Deduced(Kid(1)).lab[i]
    [] OTHER -> TRUE

VisitExprMatch ==
  \/ /\ At("Match", 0)
     /\ IF Arms = {} THEN Throw("ERROR_ILLEGAL_EMPTY_MATCHING") ELSE Visit(mem, Kid(1))
  \/ \E k \in Positions : At("Match", k) /\ k <= ArmCount /\ VisitCase(k)
  \/ /\ At("Match", ArmCount + 1)
     /\ IF Mode = "other" THEN Throw(UNEXPECTED_PATTERN)
        ELSE IF ~Exhaustive THEN Throw("ERROR_NONEXHAUSTIVE_MATCH_PATTERNS")
        ELSE Return(FirstType(Deduced(ArmExpr(ArmCount))))
=============================================================================
