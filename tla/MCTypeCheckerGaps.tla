------------------------- MODULE MCTypeCheckerGaps -------------------------
(***************************************************************************)
(* Programs on which the checker does not do what its comments and tests   *)
(* say: each run checks one property and TLC finds it violated.            *)
(***************************************************************************)
EXTENDS MCTypeChecker

Functions(fs, gs) == {Program({}, <<f, g>>) : f \in fs, g \in gs} \cup {Program({}, <<g, f>>) : f \in fs, g \in gs}

(* A variable resolves to a function, or to a binder of the function that  *)
(* contains it: a name that is not in scope is undefined                   *)
(* (VisitExprVar; tests/golden/core/error/test_err_undefined_var.golden).  *)
Binders(i) == UNION {Range(frames[i].guards[z]) : z \in Names}
ResolvedInScope ==
  At("Var", 1) => LET n == Resolve(Lab) IN
    \/ Node(n).kind \in {"DeclFun", "DeclFunGeneric"}
    \/ \E i \in DOMAIN frames :
         /\ n \in Binders(i)
         /\ \A j \in (i + 1)..Len(frames) : Node(frames[j].node).kind # "DeclFun"

ScopePrograms ==
  Functions({Fn("f", "y", Nat_, Nat_, e) : e \in {y, Zero, x, Call_("f", x)}},
            {Fn("main", "x", Nat_, Nat_, Call_("f", x))})

(* A function that returns a supertype of its body's type, and a caller    *)
(* that wants more than the declared type; AcceptedTyped is violated.      *)
ReturnPrograms ==
  {Program({"#structural-subtyping"}, <<Fn("f", "y", Nat_, r, y), Fn("main", "x", Nat_, t, Var("f"))>>) :
     r \in {Nat_, Top_}, t \in {NatFun, Fun_(Nat_, Top_)}}

(* panic! and throw stand in for a value of any type, also where only the  *)
(* family of a type is known: checking them ends in a verdict, never in a  *)
(* dereferenced null pointer (VisitExprPanic, VisitExprThrow).             *)
VerdictNotCrash == mem.raised \notin {CRASH, UNDEFINED_BEHAVIOUR}

DivergePrograms ==
  {Program({}, <<Raises(Nat_), Fn("main", "x", Nat_, Nat_, e)>>) :
     e \in {Op("Application", <<d, x>>) : d \in {Panic, Op("Throw", <<x>>)}}
           \cup {At_(d, 1) : d \in {Panic, Op("Throw", <<x>>)}} \cup {Op("Throw", <<x>>)}}

(* Type arguments with a type variable that nobody bound, at the top or    *)
(* inside another type; AcceptedTyped is violated.                         *)
TypeArgPrograms ==
  {Program({}, <<Generic("f", <<"T">>, "y", T, T, y),
                 Fn("main", "x", Nat_, Nat_, Let("y", TyApp(Var("f"), <<t>>), x))>>) :
     t \in {Nat_, Var_("U"), Fun_(Var_("U"), Nat_)}}
=============================================================================
