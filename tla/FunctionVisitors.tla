------------------------- MODULE FunctionVisitors --------------------------
(***************************************************************************)
(* The visitors of functions, variables and bindings, of the Boolean and   *)
(* Nat expressions, and of generics (type_checker_fun, _var, _let, _asc,   *)
(* _sequence, _bool, _nat, _unit and _generic.cpp).                        *)
(***************************************************************************)
EXTENDS CheckerCore

(* Declarations: children <<parameter, local declarations ..., body>>.     *)
(* The function has a first deduced type, from its declared parameter and  *)
(* return types, while its body is visited; the type deduced for the body  *)
(* replaces it.  Local declarations are visited, never named.              *)
Body  == Kids[Len(Kids)]
Param == Kid(1)

(* A generic function has the type of its function under ForAll.           *)
Generalised(kind, params, t) == IF kind = "DeclFun" THEN t ELSE Built(ForAll_(params, t))

DeclareFunction(kind, params) ==
  \/ /\ At(kind, 0)
     /\ VisitWith(Raise(SetProvisional(mem, Sentinel_(IF kind = "DeclFun" THEN "Fun" ELSE "ForAll")),
                        TypesError(<<TypeArg, Node(Param).types[1]>>, tvars \o params)),
                  [Top EXCEPT !.tvs = params], Param)
  \/ \E i \in Positions :
       /\ At(kind, i) /\ i < Len(Kids)
       /\ LET known == IF i > 1 THEN mem
                       ELSE [mem EXCEPT !.deduced[This] = Generalised(kind, params, Fun_(Deduced(Param), TypeArg))]
              m == IF Kid(i + 1) = Body THEN Expect(known, Body, TypeArg) ELSE known
              f == IF i > 1 THEN Top
                   ELSE [Top EXCEPT !.guards = Guard(NameOf(Param), Param),
                                    !.was_in_body = in_body]
          IN  Call(m, f, Kid(i + 1))
       /\ in_body' = TRUE
       /\ UNCHANGED exn
  \/ /\ At(kind, Len(Kids))
     /\ Finish(SetDeduced(mem, This, Generalised(kind, params, Built(Fun_(Deduced(Param), Deduced(Body))))))
     /\ in_body' = Top.was_in_body
     /\ UNCHANGED exn

VisitDeclFun == DeclareFunction("DeclFun", <<>>)

VisitParamDecl == Constant("ParamDecl", TypeArg)

(* A lambda where a type of another family is expected is an unexpected    *)
(* lambda, unless the expectation brings an error of its own.              *)
VisitExprAbstraction ==
  \/ /\ At("Abstraction", 0)
     /\ LET e == mem.expected[This]
            m0 == IF ConcreteExpected /\ ~Expects("Fun") /\ ~e.explicit
                  THEN [mem EXCEPT !.expected[This] = EqualsToOr(e.type, "ERROR_UNEXPECTED_LAMBDA")]
                  ELSE mem
            m1 == CheckType(SetProvisional(m0, Sentinel_("Fun")), Node(Param).types[1])
            m2 == IF Concrete("Fun") THEN ExpectType(m1, Param, EqualsToOr(Part(e.type, 1), PARAM))
                  ELSE m1
        IN  Visit(m2, Param)
  \/ /\ At("Abstraction", 1)
     /\ LET result == IF Expects("Fun") THEN Part(Expected, 2) ELSE None_
        IN  VisitWith(IF result = None_ THEN mem ELSE Expect(mem, Body, result),
                      [Top EXCEPT !.guards = Guard(NameOf(Param), Param)], Body)
  \/ /\ At("Abstraction", 2)
     /\ Return(Built(Fun_(Deduced(Param), Deduced(Body))))

VisitExprFix ==
  \/ /\ At("Fix", 0)
     /\ LET m == Expect(mem, Kid(1), Sentinel_("Fun"))
        IN  Visit(IF Concrete("Fun") THEN Expect(m, Kid(1), Fun_(Expected, Expected)) ELSE m, Kid(1))
  \/ /\ At("Fix", 1)
     /\ LET t == Deduced(Kid(1)) IN
        IF Family(t) # "Fun" THEN Throw(INTERNAL)
        ELSE LET slot == Slot("deduced", Kid(1))
                 m == Raise(mem, Incompatible(Part(t, 2), Part(t, 1)))
             IN  ReturnFrom(Emit(m, Part(t, 2), slot, Part(t, 1), slot), Part(t, 2))

(* fun_type, which the visitor keeps while it visits the argument.         *)
VisitExprApplication ==
  \/ At("Application", 0) /\ Visit(Expect(mem, Kid(1), Sentinel_("Fun")), Kid(1))
  \/ /\ At("Application", 1)
     /\ LET t == Deduced(Kid(1))
            fun_type == IF Unresolved(t) THEN Fun_(Fresh(1), Fresh(2)) ELSE t IN
        IF Family(fun_type) # "Fun" THEN Throw(INTERNAL)
        ELSE VisitWith(Expect(Infer(t, fun_type, 2), Kid(2), Part(fun_type, 1)),
                       [Top EXCEPT !.result = fun_type], Kid(2))
  \/ At("Application", 2) /\ Return(Part(Top.result, 2))

(* A name resolves to what was pushed last, whoever pushed it.  A function *)
(* that has no deduced type yet is visited here.                           *)
Resolve(x) == names[x][Len(names[x])]

VisitExprVar ==
  \/ /\ At("Var", 0)
     /\ IF names[Lab] = <<>> THEN Throw("ERROR_UNDEFINED_VARIABLE") ELSE Visit(mem, Resolve(Lab))
  \/ At("Var", 1) /\ Return(Deduced(Resolve(Lab)))

(* Children <<init, pattern, body>>.  First a seeded bug: the pattern is   *)
(* given the type of the body once the body is checked.                    *)
VisitExprLetRetypes ==
  \/ At("Let", 0) /\ Visit(mem, Kid(1))
  \/ /\ At("Let", 1)
     /\ VisitWith(Propagate(SetDeduced(mem, Kid(2), Deduced(Kid(1))), Kid(3)),
                  [Top EXCEPT !.guards = Guard(NameOf(Kid(2)), Kid(2))], Kid(3))
  \/ At("Let", 2) /\ ReturnFrom(SetDeduced(mem, Kid(2), Deduced(Kid(3))), Deduced(Kid(3)))

(* Seeded bug: the body's expectation is replaced once the body is checked. *)
VisitExprLetRefines ==
  \/ At("Let", 0) /\ Visit(mem, Kid(1))
  \/ /\ At("Let", 1)
     /\ VisitWith(Propagate(SetDeduced(mem, Kid(2), Deduced(Kid(1))), Kid(3)),
                  [Top EXCEPT !.guards = Guard(NameOf(Kid(2)), Kid(2))], Kid(3))
  \/ At("Let", 2) /\ ReturnFrom(Expect(mem, Kid(3), Deduced(Kid(3))), Deduced(Kid(3)))

VisitExprLet ==
  \/ At("Let", 0) /\ Visit(mem, Kid(1))
  \/ /\ At("Let", 1)
     /\ VisitWith(Propagate(SetDeduced(mem, Kid(2), Deduced(Kid(1))), Kid(3)),
                  [Top EXCEPT !.guards = Guard(NameOf(Kid(2)), Kid(2))], Kid(3))
  \/ At("Let", 2) /\ Return(Deduced(Kid(3)))

VisitExprTypeAsc ==
  \/ At("TypeAsc", 0) /\ Visit(Expect(CheckType(mem, TypeArg), Kid(1), TypeArg), Kid(1))
  \/ At("TypeAsc", 1) /\ Return(TypeArg)

VisitExprSequence ==
  \/ At("Sequence", 0) /\ Visit(Expect(mem, Kid(1), Unit_), Kid(1))
  \/ At("Sequence", 1) /\ Visit(Propagate(mem, Kid(2)), Kid(2))
  \/ At("Sequence", 2) /\ Return(Deduced(Kid(2)))

-----------------------------------------------------------------------------
VisitExprConstUnit  == Constant("ConstUnit", Unit_)
VisitExprConstTrue  == Constant("ConstTrue", Bool_)
VisitExprConstFalse == Constant("ConstFalse", Bool_)
VisitExprConstInt   == Constant("ConstInt", Nat_)

(* Seeded bug: nothing is expected of the else branch.                     *)
VisitExprIfLoose ==
  \/ At("If", 0) /\ Visit(Expect(mem, Kid(1), Bool_), Kid(1))
  \/ At("If", 1) /\ Visit(Propagate(mem, Kid(2)), Kid(2))
  \/ At("If", 2) /\ Visit(mem, Kid(3))
  \/ At("If", 3) /\ Return(Deduced(Kid(2)))

VisitExprIf ==
  \/ At("If", 0) /\ Visit(Expect(mem, Kid(1), Bool_), Kid(1))
  \/ At("If", 1) /\ Visit(Propagate(mem, Kid(2)), Kid(2))
  \/ At("If", 2) /\ Visit(Expect(mem, Kid(3), Deduced(Kid(2))), Kid(3))
  \/ At("If", 3) /\ Return(Deduced(Kid(2)))

(* One operand of a known type.                                            *)
VisitOperator(kind, operand, t) ==
  \/ At(kind, 0) /\ Visit(Expect(SetProvisional(mem, t), Kid(1), operand), Kid(1))
  \/ At(kind, 1) /\ Return(t)

VisitExprIsZero == VisitOperator("IsZero", Nat_, Bool_)
VisitExprSucc   == VisitOperator("Succ", Nat_, Nat_)
VisitExprPred   == VisitOperator("Pred", Nat_, Nat_)

(* Children <<n, initial, step>>; step : Nat -> T -> T.                    *)
StepType(t) == Fun_(Nat_, Built(Fun_(t, t)))

VisitExprNatRec ==
  \/ At("NatRec", 0) /\ Visit(Expect(mem, Kid(1), Nat_), Kid(1))
  \/ At("NatRec", 1) /\ Visit(IF Expects("Fun") THEN mem ELSE Propagate(mem, Kid(2)), Kid(2))
  \/ At("NatRec", 2)
     /\ Visit(ExpectType(mem, Kid(3), EqualsToOr(StepType(Deduced(Kid(2))), MISMATCH)), Kid(3))
  \/ At("NatRec", 3) /\ Return(Deduced(Kid(2)))

-----------------------------------------------------------------------------
(* Generics: labs are the names, after the function's own in a declaration.*)
VisitDeclFunGeneric ==
  LET params == Tail(Node(This).labs) IN DeclareFunction("DeclFunGeneric", params)

VisitExprTypeAbstraction ==
  LET params == Node(This).labs IN
  \/ /\ At("TypeAbstraction", 0)
     /\ VisitWith(SetProvisional(mem, Sentinel_("ForAll")), [Top EXCEPT !.tvs = params], Kid(1))
  \/ At("TypeAbstraction", 1) /\ Return(Built(ForAll_(params, Deduced(Kid(1)))))

VisitExprTypeApplication ==
  LET NotGeneric == "ERROR_NOT_A_GENERIC_FUNCTION"
      t == Deduced(Kid(1))
      args == Node(This).types IN
  \/ /\ At("TypeApplication", 0)
     /\ Visit(ExpectType(mem, Kid(1), EqualsToOr(Sentinel_("ForAll"), NotGeneric)), Kid(1))
  \/ /\ At("TypeApplication", 1)
     /\ IF t.tag # "ForAll" THEN Throw(IF t = None_ THEN CRASH ELSE NotGeneric)
        ELSE IF Len(t.lab) # Len(args) THEN Throw("ERROR_INCORRECT_NUMBER_OF_TYPE_ARGUMENTS")
        ELSE ReturnFrom(Raise(mem, TypesError(args, tvars)), Substitute(t.args[1], t.lab, args))
=============================================================================
