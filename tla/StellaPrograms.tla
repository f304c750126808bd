--------------------------- MODULE StellaPrograms ---------------------------
(***************************************************************************)
(* Families of Stella programs for TLC, generated from a few leaves,       *)
(* well-typed and ill-typed alike.                                         *)
(***************************************************************************)
EXTENDS StellaTrees

Op(kind, kids) == Tree(kind, <<>>, <<>>, kids)
Var(x)         == Tree("Var", <<x>>, <<>>, <<>>)
PVar(x)        == Tree("PatternVar", <<x>>, <<>>, <<>>)
Parameter(x, t) == Tree("ParamDecl", <<x>>, <<t>>, <<>>)
Fn(f, x, t, r, e)       == Tree("DeclFun", <<f>>, <<r>>, <<Parameter(x, t), e>>)
FnWith(f, x, t, r, l, e) == Tree("DeclFun", <<f>>, <<r>>, <<Parameter(x, t), l, e>>)
Generic(f, ps, x, t, r, e) == Tree("DeclFunGeneric", <<f>> \o ps, <<r>>, <<Parameter(x, t), e>>)
Lambda(x, t, e) == Tree("Abstraction", <<>>, <<>>, <<Parameter(x, t), e>>)
Let(x, e, b)   == Op("Let", <<e, PVar(x), b>>)
As(e, t)       == Tree("TypeAsc", <<>>, <<t>>, <<e>>)
Cast(e, t)     == Tree("TypeCast", <<>>, <<t>>, <<e>>)
Field(e, l)    == Tree("DotRecord", <<l>>, <<>>, <<e>>)
At_(e, i)      == Tree("DotTuple", <<i>>, <<>>, <<e>>)
Rec(ls, es)    == Tree("Record", ls, <<>>, es)
Tag(l, es)     == Tree("Variant", <<l>>, <<>>, es)
PTag(l, ps)    == Tree("PatternVariant", <<l>>, <<>>, ps)
PInl(p)        == Op("PatternInl", <<p>>)
PInr(p)        == Op("PatternInr", <<p>>)
PCast(p, t)    == Tree("PatternCastAs", <<>>, <<t>>, <<p>>)
TryCast(e, t, p, s, f) == Tree("TryCastAs", <<>>, <<t>>, <<e, p, s, f>>)
TyAbs(ps, e)   == Tree("TypeAbstraction", ps, <<>>, <<e>>)
TyApp(e, ts)   == Tree("TypeApplication", <<>>, ts, <<e>>)
Raises(t)      == Tree("DeclExceptionType", <<>>, <<t>>, <<>>)
RaisesTag(l, t) == Tree("DeclExceptionVariant", <<l>>, <<t>>, <<>>)

x == Var("x")
y == Var("y")
Zero  == Op("ConstInt", <<>>)
Yes   == Op("ConstTrue", <<>>)
No    == Op("ConstFalse", <<>>)
Unit  == Op("ConstUnit", <<>>)
Panic == Op("Panic", <<>>)
Memory == Op("ConstMemory", <<>>)
Unary(kinds, es)  == {Op(k, <<e>>) : k \in kinds, e \in es}
Binary(kinds, as, bs) == {Op(k, <<a, b>>) : k \in kinds, a \in as, b \in bs}

-----------------------------------------------------------------------------
NatFun == Fun_(Nat_, Nat_)
NatOrBool == Sum_(Nat_, Bool_)
Tagged_ == Variant_(<<"a", "b">>, <<Nat_, Bool_>>)
Point == Record_(<<"a", "b">>, <<Nat_, Bool_>>)
Couple == Tuple_(<<Nat_, Bool_>>)

Base == {Nat_, Bool_, Unit_, NatFun, List_(Nat_), Ref_(Nat_), NatOrBool, Tagged_,
         Variant_(<<"a">>, <<Nat_>>), Point, Couple}
MCUniverse == Base \cup {List_(t) : t \in Base} \cup {Ref_(t) : t \in Base}
MCNames == {"main", "f", "x", "y"}
NoFreshVars == <<>>    \* these programs have no auto

(* fn main(x : t) -> r { return e }                                        *)
Mains_(ts, rs, es) == {Program({}, <<Fn("main", "x", t, r, e)>>) : t \in ts, r \in rs, e \in es}

Leaves == {x, Zero, Yes}
Small  == Leaves \cup Unary({"Succ", "IsZero"}, {x, Yes})
Steps  == {Lambda("x", Nat_, Lambda("y", Nat_, e)) : e \in {x, Yes}}

Branches == {Op("If", <<c, a, b>>) : c \in {Yes, x}, a \in Small, b \in Leaves}
Lambdas  == {Lambda("y", t, e) : t \in {Nat_, Bool_}, e \in Small \cup {y}}
CoreExprs ==
  Small \cup Branches \cup Lambdas
  \cup {Op("Application", <<l, e>>) : l \in Lambdas \cup {x}, e \in Leaves}
  \cup {Op("Fix", <<e>>) : e \in Lambdas \cup {Zero}}
  \cup {Let("y", e, b) : e \in Small, b \in {y, x, Unit, Op("Succ", <<y>>), Let("x", y, x)}}
  \cup {Op("NatRec", <<a, b, s>>) : a \in {x, Yes}, b \in {Zero, Yes}, s \in Steps \cup {Zero}}
  \cup {As(e, t) : e \in Small \cup Lambdas, t \in {Nat_, NatFun}}
  \cup {Op("Sequence", <<a, b>>) : a \in {Unit, Zero}, b \in Leaves}
  \cup {Op("ConstFalse", <<>>), Op("Pred", <<x>>), Op("Pred", <<Unit>>)}
CorePrograms == Mains_({Nat_, NatFun}, {Nat_, Bool_, NatFun}, CoreExprs)

(* Two functions in either order, calling each other and themselves; local *)
(* declarations; duplicate and missing names.                              *)
Call_(f, e) == Op("Application", <<Var(f), e>>)
FunPrograms ==
  LET Bodies == {y, Yes, Call_("main", y), Call_("f", y), Op("Succ", <<Call_("f", y)>>)}
      MainBodies == {x, Var("f"), Call_("f", x), Call_("main", x), Let("y", Yes, Call_("f", x))}
      Fs == {Fn("f", "y", Nat_, t, e) : t \in {Nat_, Bool_}, e \in Bodies}
      Ms == {Fn("main", "x", Nat_, t, e) : t \in {Nat_, NatFun}, e \in MainBodies}
  IN  {Program({}, <<f, m>>) : f \in Fs, m \in Ms} \cup {Program({}, <<m, f>>) : f \in Fs, m \in Ms}
      \cup {Program({}, <<f, g>>) : f, g \in {Fn("f", "x", Nat_, Nat_, x), Fn("main", "x", Nat_, Nat_, x)}}
      \cup {Program({}, <<FnWith("main", "x", Nat_, Nat_, l, x)>>) :
              l \in {Fn("f", "y", Nat_, t, y) : t \in {Nat_, Bool_}}
                    \cup {Raises(Nat_), RaisesTag("a", Nat_)}}

DataLeaves == {x, Zero, Yes, Panic}
Lists == Unary({"List"}, DataLeaves) \cup {Op("List", <<>>)} \cup Binary({"List"}, DataLeaves, {Zero, Yes})
ListExprs ==
  Lists \cup Binary({"ConsList"}, DataLeaves, Lists \cup {x, Zero})
  \cup Unary({"Head", "Tail", "IsEmpty"}, Lists \cup {x, Zero, Panic})
  \cup {Op("IsEmpty", <<Op(k, <<e>>)>>) : k \in {"Head", "Tail"}, e \in {x, Op("List", <<x>>)}}
Tuples == Binary({"Tuple"}, DataLeaves, DataLeaves) \cup Unary({"Tuple"}, DataLeaves)
TupleExprs == Tuples \cup {At_(e, i) : e \in {x, Zero, Op("Tuple", <<Zero, Yes>>)}, i \in 0..3}
Records == {Rec(ls, <<a, b>>) : ls \in {<<"a", "b">>, <<"a", "a">>, <<"a", "c">>}, a \in DataLeaves, b \in DataLeaves}
           \cup {Rec(<<"a">>, <<Zero>>), Rec(<<"a", "b", "c">>, <<Zero, Yes, Zero>>)}
RecordExprs == Records \cup {Field(e, l) : e \in {x, Zero, Rec(<<"a">>, <<x>>)}, l \in {"a", "b", "c"}}
DataPrograms ==
  Mains_({Nat_, List_(Nat_)}, {Nat_, Bool_, List_(Nat_)}, ListExprs)
  \cup Mains_({Nat_, Couple}, {Nat_, Couple}, TupleExprs)
  \cup Mains_({Bool_, Point}, {Nat_, Point}, RecordExprs)

Injections == Unary({"Inl", "Inr"}, DataLeaves)
Tags == {Tag(l, <<e>>) : l \in {"a", "b", "c"}, e \in DataLeaves}
Match(e, arms) == Op("Match", <<e>> \o FlattenSeq(arms))
Patterns == {PInl(PVar("y")), PInr(PVar("y")), PTag("a", <<PVar("y")>>), PTag("b", <<PVar("y")>>),
             PVar("y"), PTag("a", <<PInl(PVar("y"))>>), PTag("c", <<>>)}
MatchExprs ==
  {Match(x, <<>>)}
  \cup {Match(x, <<<<p, e>>, <<q, d>>>>) : p, q \in Patterns, e \in {y, Zero, Panic}, d \in {y, Yes}}
  \cup {Match(e, <<<<PInl(PVar("y")), y>>, <<PInr(PVar("y")), Zero>>>>) :
          e \in Injections \cup {Op("If", <<Yes, x, x>>)}}
  \cup {Match(x, <<<<PCast(p, Nat_), e>>, <<PCast(PVar("y"), Bool_), d>>>>) :
          p \in {PVar("y"), PInl(PVar("y"))}, e \in {y, Zero}, d \in {y, Zero}}
SumPrograms ==
  Mains_({Nat_, NatOrBool, Tagged_}, {Nat_, Bool_}, MatchExprs)
  \cup Mains_({Nat_}, {NatOrBool, Tagged_, Nat_}, Injections \cup Tags)
  \cup Mains_({Variant_(<<"a", "a">>, <<Nat_, Nat_>>), Record_(<<"a", "a">>, <<Nat_, Nat_>>)}, {Nat_}, {Zero})

Thrown == Unary({"Throw"}, {x, Yes, Panic})
EffectExprs ==
  Thrown \cup {Panic, Memory}
  \cup Binary({"TryWith"}, Thrown \cup Leaves, Leaves \cup {Panic})
  \cup {Op("TryCatch", <<a, p, b>>) : a \in Thrown \cup {x, Panic}, p \in {PVar("y"), PInl(PVar("y"))}, b \in {y, Zero, Panic}}
  \cup Unary({"Ref", "Deref"}, DataLeaves \cup {Memory, Op("Ref", <<x>>)})
  \cup Binary({"Assign"}, {x, Zero, Op("Ref", <<Zero>>), Memory, As(Memory, Ref_(Nat_))}, DataLeaves)
  \cup {Cast(e, t) : e \in DataLeaves, t \in {Nat_, Ref_(Var_("T"))}}
  \cup {TryCast(e, Nat_, p, s, f) : e \in {x, Yes}, p \in {PVar("y"), PInl(PVar("y"))}, s \in {y, Zero, x}, f \in {y, Zero}}
  \cup {Op("Sequence", <<a, b>>) : a \in {Panic, Op("Assign", <<x, Zero>>)}, b \in {x, Op("Deref", <<x>>)}}
  \cup {Let("y", a, Zero) : a \in {Panic, Memory, Op("Throw", <<x>>), Op("Inl", <<x>>), Tag("a", <<x>>)}}
Exceptions == {<<>>, <<Raises(Nat_)>>, <<RaisesTag("a", Nat_)>>}
EffectPrograms ==
  {Program(ext, d \o <<Fn("main", "x", t, r, e)>>) :
     ext \in {{}}, d \in Exceptions, t \in {Nat_, Ref_(Nat_)}, r \in {Nat_, Ref_(Nat_), Unit_}, e \in EffectExprs}
  \cup {Program({}, <<a, b, Fn("main", "x", Nat_, Nat_, e)>>) :
          a, b \in {Raises(Nat_), RaisesTag("a", Nat_), RaisesTag("b", Nat_)},
          e \in {x, Op("Throw", <<Tag("b", <<x>>)>>)}}

T == Var_("T")
GenericPrograms ==
  LET Uses == {TyApp(Var("f"), ts) : ts \in {<<Nat_>>, <<Bool_>>, <<Nat_, Nat_>>, <<T>>}} \cup {Var("f"), Zero}
      Fs == {Generic("f", <<"T">>, "y", t, r, e) : t \in {T, Nat_}, r \in {T, Var_("U"), Nat_}, e \in {y, Zero}}
      Bodies == {Op("Application", <<u, x>>) : u \in Uses} \cup {TyAbs(<<"T">>, Lambda("y", T, y))}
                \cup {Op("Application", <<TyApp(TyAbs(<<"T">>, Lambda("y", t, y)), <<Nat_>>), x>>) : t \in {T, Bool_, Var_("U")}}
      Rs == {Nat_, ForAll_(<<"T">>, Fun_(T, T))}
  IN  {Program({}, <<f, Fn("main", "x", Nat_, r, e)>>) : f \in Fs, r \in Rs, e \in Bodies}
      \cup {Program({}, <<Fn("main", "x", Nat_, Nat_, e), Generic("f", <<"T">>, "y", T, T, y)>>) : e \in Bodies}
      \cup {Program({}, <<Fn("main", "x", t, Nat_, Zero)>>) : t \in {T, ForAll_(<<"T">>, T), ForAll_(<<"U">>, T)}}

-----------------------------------------------------------------------------
(* Subtyping: width and order of record fields, contravariance, invariant  *)
(* references, variants with fewer labels, Top and Bot.                    *)
Narrow  == Record_(<<"a">>, <<Nat_>>)
Swapped == Record_(<<"b", "a">>, <<Bool_, Nat_>>)
OnlyA   == Variant_(<<"a">>, <<Nat_>>)
SubTypes == {Nat_, Top_, Point, Narrow, Swapped, NatFun, Fun_(Nat_, Top_), Fun_(Top_, Nat_),
             Fun_(Narrow, Narrow), Fun_(Narrow, Point), Fun_(Point, Narrow),
             List_(Narrow), List_(Point), List_(Nat_),
             Ref_(Narrow), Ref_(Point), Ref_(Nat_), OnlyA, Tagged_, Sum_(Nat_, Narrow)}
SubUniverse == SubTypes \cup {Bool_, Unit_, Bot_, Fun_(Point, Point), List_(Bot_), List_(Top_), Ref_(Top_),
                           NatOrBool, Sum_(Nat_, Point), Sum_(Top_, Top_), Variant_(<<"a">>, <<Top_>>)}

WideRec   == Rec(<<"a", "b">>, <<Zero, Yes>>)
NarrowRec == Rec(<<"a">>, <<Zero>>)
Recs      == {WideRec, NarrowRec, Rec(<<"b", "a">>, <<Yes, Zero>>), Rec(<<"a">>, <<Yes>>)}
SubLeaves == Recs \cup {x, Zero}
SubExprs ==
  SubLeaves \cup {Panic, Op("List", <<>>), Op("List", <<WideRec, NarrowRec>>), Memory}
  \cup {Lambda("y", t, e) : t \in {Nat_, Top_, Narrow}, e \in {y, Zero, WideRec}}
  \cup {Op("Application", <<x, e>>) : e \in SubLeaves}
  \cup {Field(e, l) : e \in {x, WideRec}, l \in {"a", "b"}}
  \cup {Op("If", <<Yes, a, b>>) : a \in {x, WideRec}, b \in {x, NarrowRec}}
  \cup {As(e, t) : e \in SubLeaves, t \in {Top_, Narrow, Tagged_}}
  \cup Unary({"Ref", "Deref", "List", "Head", "Inl", "Inr"}, {x, WideRec})
  \cup {Op("Assign", <<x, e>>) : e \in SubLeaves}
  \cup {Let("y", e, b) : e \in {x, Op("List", <<>>)}, b \in {y, Op("Head", <<y>>)}}
  \cup {Let("y", As(x, Ref_(Narrow)), Op("Assign", <<y, NarrowRec>>))}
  \cup {Match(x, <<<<PTag("a", <<PVar("y")>>), y>>>>),
         Match(As(x, Tagged_), <<<<PTag("a", <<PVar("y")>>), y>>>>),
         Match(x, <<<<PInl(PVar("y")), y>>, <<PInr(PVar("y")), Field(y, "a")>>>>)}
  \cup {Tag("a", <<e>>) : e \in {x, Yes}} \cup {Op("Fix", <<x>>)}
Results == {Nat_, Top_, Narrow, Point, Fun_(Narrow, Narrow), List_(Narrow), Ref_(Narrow), OnlyA,
            Tagged_, Sum_(Nat_, Narrow)}
Bottoms == {Panic, Op("List", <<>>)} \cup Unary({"Inl", "Inr"}, {x, WideRec})
           \cup {Let("y", e, Zero) : e \in {Panic, Memory, Op("Inl", <<x>>), Tag("a", <<x>>)}}
           \cup {Let("y", Op("List", <<>>), b) : b \in {y, Op("Head", <<y>>), Op("Tail", <<y>>)}}
SubtypePrograms ==
  {Program({"#structural-subtyping"}, <<Fn("main", "x", t, r, e)>>) :
     t \in SubTypes, r \in Results, e \in SubExprs}
  \cup {Program({"#structural-subtyping", "#ambiguous-type-as-bottom"}, <<Fn("main", "x", t, r, e)>>) :
          t \in {Nat_, Point}, r \in Results, e \in Bottoms}

FunctionalPrograms == CorePrograms \cup FunPrograms \cup GenericPrograms
CompositePrograms  == DataPrograms \cup SumPrograms \cup EffectPrograms
DataAndSubtyping   == CompositePrograms \cup SubtypePrograms
MCWideUniverse     == MCUniverse \cup SubUniverse
=============================================================================
