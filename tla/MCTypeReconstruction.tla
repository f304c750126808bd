------------------------ MODULE MCTypeReconstruction ------------------------
(***************************************************************************)
(* Type reconstruction end to end, for TLC: programs whose parameters,     *)
(* results and lambdas are declared auto, and the verdict that the typing  *)
(* rules call for; the programs of the golden tests, and their verdicts.   *)
(***************************************************************************)
EXTENDS TypeReconstruction, MCTypeChecker

(* Every auto the parser meets is a type variable of its own.              *)
Autos == [i \in 1..8 |-> Auto_(<<"a", "b", "c", "d", "e", "f", "g", "h">>[i])]
MCFresh == [i \in 1..6 |-> Auto_(<<"t1", "t2", "t3", "t4", "t5", "t6">>[i])]
MCTypeAuto == Range(Autos) \cup Range(MCFresh)
A == Autos[1]
B == Autos[2]
C == Autos[3]
D == Autos[4]

(* The types, and those on which TLC tests what the proofs use of them.    *)
RECURSIVE IsTerm(_)
IsTerm(t) == Shaped(t) /\ \A i \in DOMAIN t.args : IsTerm(t.args[i])

(* The other types, up to a depth that the programs do not reach.          *)
OtherTags == {"Nat", "Bool", "Unit", "Unknown", "Sentinel", "List", "Ref", "Fun", "Sum",
              "Tuple", "Record"}
Over(S)   == [tag : OtherTags \cup {"Auto"}, lab : Seq(STRING), args : Seq(S)]
MCCtor    == [tag : OtherTags, lab : Seq(STRING), args : Seq(Over(Over(Over(Over(Over({}))))))]

Reconstructed(ds) == Program({"#type-reconstruction"}, ds)
AutoMains(ts, rs, es) == {Reconstructed(<<Fn("main", "x", t, r, e)>>) : t \in ts, r \in rs, e \in es}

-----------------------------------------------------------------------------
Operands  == {x, Zero, Yes}
Computed  == Operands \cup Unary({"Succ", "IsZero"}, {x, Yes})
NatRecs(steps) == {Op("NatRec", <<a, b, s>>) : a, b \in Operands, s \in steps}
FlatExprs ==
  Computed
  \cup {Op("If", <<c, a, b>>) : c \in Operands, a \in Computed, b \in Operands}
  \cup {Let("y", e, b) : e \in Computed, b \in {y, Op("Succ", <<y>>), Op("If", <<y, x, Zero>>)}}
  \cup {Op("Application", <<x, e>>) : e \in Operands} \cup {Op("Fix", <<x>>)}
  \cup NatRecs({Lambda("x", Nat_, Lambda("y", Nat_, e)) : e \in {x, y}})
  \cup {As(x, Nat_)} \cup {Op("Sequence", <<x, e>>) : e \in Operands}
AutoLambdas == {Lambda("y", C, e) : e \in {x, y, Zero, Op("Succ", <<y>>), Op("IsZero", <<x>>),
                                          Op("If", <<y, x, Zero>>)}}
LambdaExprs ==
  AutoLambdas \cup Unary({"Fix"}, AutoLambdas)
  \cup {Op("Application", <<l, e>>) : l \in AutoLambdas, e \in Operands}
  \cup NatRecs({Lambda("x", C, Lambda("y", D, e)) : e \in {x, y, Op("Succ", <<y>>)}})
  \cup {As(x, C)}

(* Two functions in either order, recursive and mutually recursive.        *)
AutoPairs ==
  LET Fs == {Fn("f", "y", C, D, e) : e \in {y, Zero, Op("Succ", <<y>>), Call_("f", Zero),
                                            Call_("main", y), Lambda("x", Nat_, y)}}
      Ms == {Fn("main", "x", t, Nat_, e) : t \in {A, Nat_},
               e \in {x, Call_("f", x), Call_("f", Yes), Op("Application", <<Call_("f", x), Yes>>)}}
            \cup {Fn("main", "x", t, B, Call_("f", x)) : t \in {A, Nat_}}
  IN  UNION {{Reconstructed(<<f, m>>), Reconstructed(<<m, f>>)} : f \in Fs, m \in Ms}

AutoFunctions ==
  AutoMains({A}, {B, Nat_}, FlatExprs) \cup AutoMains({A}, {Nat_, Fun_(Nat_, Nat_)}, LambdaExprs)
  \cup AutoMains({Nat_}, {B}, LambdaExprs) \cup AutoPairs

Empty == Op("List", <<>>)
AutoLists ==
  Binary({"ConsList"}, Operands, {x, Empty, Op("List", <<Zero>>)})
  \cup Unary({"Head", "Tail"}, {x, Op("List", <<x>>), Op("ConsList", <<x, Empty>>), Op("Tail", <<x>>)})
  \cup {Op("List", <<a, b>>) : a, b \in Operands}
  \cup {Op("If", <<Yes, Op("Head", <<x>>), e>>) : e \in Operands}
AutoProjections ==
  {At_(e, i) : e \in {x, Op("Tuple", <<x, Zero>>)}, i \in 0..3}
  \cup {Op("If", <<c, At_(x, 2), e>>) : c \in {Yes, At_(x, 1)}, e \in {At_(x, 1), Zero, Yes}}
AutoData ==
  AutoMains({A}, {B, Nat_}, AutoLists \cup AutoProjections \cup {Field(x, "a"), Rec(<<"a">>, <<x>>)})
  \cup AutoMains({List_(A)}, {B, Nat_}, AutoLists)
  \cup AutoMains({Tuple_(<<A, B>>)}, {C, Nat_}, AutoProjections)
  \cup {Reconstructed(<<Fn("f", "y", Tuple_(<<Bool_, Nat_>>), Nat_, Zero),
                        Fn("main", "x", A, B, Op("If", <<At_(x, i), At_(x, 2), Call_("f", x)>>))>>) : i \in 1..2}

(* Literals of every kind where an auto, or a type with autos, is expected. *)
AutoLiterals ==
  LET Two(e) == Op("Tuple", <<e, Zero>>)
      Es == Operands \cup {Two(e) : e \in Operands} \cup {Two(Two(x)), At_(Two(Two(x)), 1), At_(x, 1)}
            \cup {Rec(<<"a">>, <<e>>) : e \in Operands} \cup {Field(Rec(<<"a">>, <<x>>), "a")}
            \cup {Empty, Op("List", <<x>>), Op("List", <<Op("List", <<x>>)>>), Panic}
            \cup Unary({"Inl", "Inr", "Ref"}, Operands) \cup {Op("Deref", <<Op("Ref", <<x>>)>>)}
            \cup {Lambda("y", t, e) : t \in {Nat_, D}, e \in {x, y}}
            \cup {Let("y", Two(x), At_(y, 1)), Let("y", Op("List", <<x>>), Op("ConsList", <<Zero, y>>))}
  IN  AutoMains({A, Nat_}, {B, Nat_, Tuple_(<<B, C>>), Record_(<<"a">>, <<B>>), List_(B), Ref_(B),
                            Sum_(B, Nat_), Fun_(B, C)}, Es)
      \cup {Reconstructed(<<Fn("f", "y", t, C, y), Fn("main", "x", A, B, Call_("f", e))>>) :
               t \in {D, Tuple_(<<Nat_, D>>)}, e \in Es}

Scalars   == {Nat_, Bool_}
FunGround == Scalars \cup {Unit_} \cup {Fun_(s, t) : s, t \in Scalars}
DataGround == Scalars \cup {List_(t) : t \in Scalars} \cup {Tuple_(<<s, t>>) : s, t \in Scalars}
              \cup {Record_(<<"a">>, <<t>>) : t \in Scalars}
DataNodes  == {"List", "ConsList", "Head", "Tail", "Tuple", "DotTuple", "Record", "DotRecord"}
AutoUniverse == MCUniverse \cup {List_(List_(Bool_))}

(* The laws that the proofs assume of every type, on some.                 *)
Tested ==
  LET Atoms == {A, B, Nat_, Unknown_, None_, Sentinel_("Fun"), Var_("T")}
      Flat == Atoms \cup {Fun_(s, t) : s, t \in Atoms} \cup {List_(t) : t \in Atoms}
              \cup {Tuple_(<<s, A>>) : s \in Atoms} \cup {ForAll_(<<"T">>, t) : t \in Atoms}
              \cup {Record_(ls, <<s, B>>) : ls \in {<<"a", "b">>, <<"b", "a">>}, s \in Atoms}
              \cup {Variant_(<<"a", "b">>, <<s, B>>) : s \in Atoms}
  IN  Flat \cup {Sum_(t, A) : t \in Flat} \cup {ForAll_(<<"U">>, t) : t \in Flat}
ASSUME TypeLawsHold ==
  /\ \A t \in Tested : IsTypeLaw(t) /\ ContainsLaw(t) /\ (IsType(t) => AutosOf(t) \subseteq TypeAuto)
  /\ \A s, t \in Tested : IsType(s) /\ IsType(t) => EmittedLaw(s, t) /\ ComparedLaw(s, t)
  /\ \A t \in Tested : IsType(t) => PartsLaw(t)
  /\ \A t, s \in Tested : \A ps \in {<<"T">>, <<"U">>} :
       IsType(t) /\ IsType(s) => SubstituteLaw(t, ps, <<s>>)
  /\ \A v \in TypeAuto : IsType(v) /\ IsAuto(v)
  /\ \A i \in DOMAIN FreshVars : FreshVars[i] \in TypeAuto

-----------------------------------------------------------------------------
(* tests/golden/type-reconstruction: each program with its verdict.        *)
Golden(verdict, ds) == [program |-> Reconstructed(ds), verdict |-> verdict]
Auto_Main(e) == <<Fn("main", "x", A, B, e)>>
Adder(n, base, step) == Op("NatRec", <<n, base, Lambda("y", C, Lambda("x", D, step))>>)
Goldens ==
  LET E == Autos[5]
      F == Autos[6]
      G == Autos[7]
      HeadHead == Op("Head", <<Op("Head", <<x>>)>>)
      Pairs(l, i, j) == Fn("f", "y", l, C, Op("If", <<At_(y, i), At_(y, j), Zero>>))
      MainPair == Fn("main", "x", A, B, Op("If", <<At_(x, 1), At_(x, 2), Call_("f", x)>>))
      Id == Fn("f", "y", C, D, y)
  IN
  {Golden(OK, ds) : ds \in
     {Auto_Main(Op("If", <<x, Zero, Op("Succ", <<Zero>>)>>)),                          \* if_auto
      Auto_Main(Let("y", Op("Succ", <<x>>), y)),                                       \* let_auto
      Auto_Main(Op("Head", <<Op("ConsList", <<x, Op("ConsList",
                  <<Op("Succ", <<x>>), As(Empty, List_(Nat_))>>)>>)>>)),                \* list_auto
      <<Fn("f", "y", E, Nat_, Adder(y, Zero, Op("Succ", <<Op("Succ", <<x>>)>>))),
        Fn("main", "x", A, B, Call_("f", x))>>,                                        \* mixed_auto_concrete
      <<Id, Fn("main", "x", A, B,
               Op("If", <<Call_("f", No), Op("If", <<Call_("f", x), Op("List", <<x>>), Empty>>), Empty>>))>>,
      <<Fn("f", "x", E, Fun_(F, G), Lambda("y", A, Adder(x, y, Op("Succ", <<x>>)))),
        Fn("main", "x", Autos[8], B, Op("Application", <<Call_("f", x), x>>))>>,      \* nat_add
      Auto_Main(Op("Succ", <<x>>)),                                                    \* nat_param
      Auto_Main(Adder(x, Zero, Op("Succ", <<x>>))),                                    \* natrec_auto
      Auto_Main(At_(Op("Tuple", <<x, Op("Succ", <<x>>)>>), 1)),                        \* pair_auto
      <<Pairs(Tuple_(<<Bool_, Nat_>>), 1, 2), MainPair>>}}                                   \* pair_deduction
  \cup {Golden("ERROR_AMBIGUOUS_TYPE", ds) : ds \in
     {<<Fn("f", "y", E, F, Op("Application", <<y, Zero>>)),
        Fn("main", "x", A, B, Call_("f", Lambda("x", C, Op("Succ", <<x>>))))>>,         \* higher_order_auto
      <<Id, Fn("main", "x", A, B, Call_("f", x))>>,                                    \* identity
      Auto_Main(Op("Head", <<Op("ConsList", <<x, Empty>>)>>)),                         \* list_ambigous_auto
      Auto_Main(As(Op("Inl", <<x>>), Sum_(C, Bool_))),                                 \* sum_inl_auto
      Auto_Main(As(Op("Inr", <<x>>), Sum_(Nat_, C)))}}                                 \* sum_inr_auto
  \cup {Golden("ERROR_OCCURS_CHECK_INFINITE_TYPE", Auto_Main(e)) :
           e \in {Op("ConsList", <<x, x>>), Op("Application", <<x, x>>)}}
  \cup {Golden(MISMATCH, ds) : ds \in
     {Auto_Main(Op("If", <<x, Zero, No>>)),                                            \* branch_mismatch
      <<Id, Fn("main", "x", Nat_, B,
               Op("If", <<Call_("f", No), Call_("f", Zero), Call_("f", Op("Succ", <<Zero>>))>>))>>,
      Auto_Main(Op("If", <<Op("Succ", <<x>>), Zero, Zero>>)),                          \* if_condition_not_bool
      <<Fn("main", "x", A, Nat_, Op("If", <<HeadHead, HeadHead, Zero>>))>>,            \* list_values_mismatch
      <<Fn("main", "x", A, Nat_,
           Op("If", <<Op("Head", <<x>>), Op("Application", <<Op("Head", <<x>>), Zero>>), Zero>>))>>,
      <<Pairs(Tuple_(<<Nat_, Bool_>>), 2, 1), MainPair>>,                                    \* err_pair
      <<Fn("f", "x", Nat_, Nat_, Op("Succ", <<x>>)), Fn("main", "x", A, B, Call_("f", No))>>,
      <<Fn("main", "x", A, Nat_, No)>>,                                                \* type_mismatch_return
      Auto_Main(Op("Succ", <<No>>))}}                                                  \* type_mismatch_succ_bool
GoldenPrograms == {g.program : g \in Goldens}
AutoPrograms   == AutoFunctions \cup AutoData \cup AutoLiterals \cup GoldenPrograms

-----------------------------------------------------------------------------
(* Every way of giving the autos of the program a ground type, and those   *)
(* with which the typing rules accept it.                                  *)
WithTypes(s) ==
  LET Given(t) == IF IsAuto(t) THEN s[t]
                  ELSE [t EXCEPT !.args = [i \in DOMAIN @ |-> IF IsAuto(@[i]) THEN s[@[i]] ELSE @[i]]]
  IN  [prog EXCEPT !.node = [n \in DOMAIN @ |->
         [@[n] EXCEPT !.types = [i \in DOMAIN @ |-> Given(@[i])]]]]
Typing(s)   == INSTANCE StellaTyping WITH prog <- WithTypes(s)
Ground      == IF \E n \in Ids : Node(n).kind \in DataNodes THEN DataGround ELSE FunGround
Assignments == [UNION {AutosIn(t) : t \in ProgramTypes} -> Ground]
Typings     == {s \in Assignments : Typing(s)!WellTyped}

(* The verdict is exact: a program is accepted when the typing rules leave *)
(* one choice of types for its autos, ambiguous when they leave several,   *)
(* and an error when they leave none, whatever the order in which the      *)
(* visitors made variables and constraints and UnifyAll solved them.       *)
(* Exempt are the errors that ask for an annotation, the constructs without *)
(* reconstruction, which end in an internal error, and literals where an   *)
(* auto is expected.                                                       *)
VerdictExact ==
  Done /\ mem.raised \notin AmbiguousErrors \cup {INTERNAL} /\ prog \in AutoFunctions \cup AutoData =>
    LET found == Cardinality(Typings)
    IN  CASE mem.raised = OK -> found = 1
          [] mem.raised = "ERROR_AMBIGUOUS_TYPE" -> found # 1
          [] OTHER -> found = 0

-----------------------------------------------------------------------------
(* Where the code does not do what it says.                                *)
LiteralPrograms == AutoMains({Nat_, A}, {Tuple_(<<B, C>>)}, {Op("Tuple", <<x, Zero>>)})

(* unifier.cpp: "check that all TypeAuto instances have been bound to a    *)
(* concrete type".  The placeholders that VisitExprTuple compares with the *)
(* expected type reach the unifier, and a variable bound to one counts as  *)
(* resolved.                                                               *)
AllResolved ==
  phase = "Well-typed" =>
    \A v \in registry : classes[class_of[v]].bound.tag \notin {"Unknown", "Sentinel"}

MixedPrograms ==
  {Program({"#type-reconstruction", "#structural-subtyping"},
           <<Fn("f", "y", List_(A), Nat_, Op("Succ", <<Op("Head", <<y>>)>>)),
             Fn("main", "x", List_(t), Nat_, Call_("f", x))>>) : t \in Scalars}

(* An accepted program has types for its autos, also when it uses          *)
(* structural subtyping (VisitProgram's call of UnifyAll; the golden test  *)
(* err_pair, whose functions disagree about the components of a type).     *)
AcceptedTypable == Accepted => Typings # {}
=============================================================================
