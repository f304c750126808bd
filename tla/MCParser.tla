------------------------------ MODULE MCParser ------------------------------
(***************************************************************************)
(* The builder on the sources of the checker's programs and on what the    *)
(* grammar allows besides.                                                 *)
(***************************************************************************)
EXTENDS StellaGrammar, StellaSources, StellaTypes

Objects == <<"a", "b", "c", "d", "e", "f", "g", "h">>

Paren(c) == Context("ParenthesisedExpr", <<>>, One("expr_", c))
Semi(c)  == Context("TerminatingSemicolon", <<>>, One("expr_", c))
Group(t) == Context("TypeParens", <<>>, One("type_", t))

(* A main function with this parameter, result and body.                   *)
Main_(params, results, body) ==
  Context("DeclFun", <<"main">>, One("returnExpr", body) @@ Each("paramDecls", params)
            @@ Each("returnType", results) @@ Each("localDecls", <<>>))
Unit_Of(ds) == Context("Program", <<>>, Each("decl", ds))

Expr(e)  == NodeSource(Program({}, <<e>>).node, 2)
ParamOf(t) == Context("ParamDecl", <<"x">>, One("paramType", t))
AutoSource == TypeSource(Auto_("a"))
Unsupported == {Context(r, <<>>, NoSubs) : r \in {"LetRec", "PatternInt"}}
Bindings(ps) == Each("patternBindings", [i \in DOMAIN ps |-> Context("inner", <<>>, One("pat", ps[i]) @@ One("rhs", Expr(x)))])
LetOf(ps, body) == Context("Let", <<>>, Bindings(ps) @@ One("body", body))
CallOf(args) == Context("Application", <<>>, One("fun", Expr(x)) @@ Each("args", args))
LambdaOf(params) == Context("Abstraction", <<>>, Each("paramDecls", params) @@ One("returnExpr", Expr(x)))
FunOf(params) == Context("TypeFun", <<>>, Each("paramTypes", params) @@ One("returnType", AutoSource))
IntOf(i) == Context("ConstInt", <<i>>, NoSubs)
IndexOf(e, i) == Context("DotTuple", <<i>>, One("expr_", e))
VarPattern == Expr(PVar("y"))
AutoExpr == Expr(As(x, Auto_("a")))

OddTypes == {AutoSource, Group(FunOf(<<AutoSource>>)), FunOf(<<>>), FunOf(<<AutoSource, AutoSource>>),
             Context("TypeRec", <<"X">>, One("type_", AutoSource)),
             TypeSource(Variant_(<<"a", "b", "c">>, <<Auto_("a"), None_, Auto_("b")>>)),
             TypeSource(Record_(<<"a", "a">>, <<Auto_("a"), Nat_>>))}
OddExprs ==
  {AutoExpr, Paren(AutoExpr), Semi(Paren(AutoExpr)), CallOf(<<>>), CallOf(<<AutoExpr>>),
   CallOf(<<AutoExpr, AutoExpr>>), LambdaOf(<<>>), LambdaOf(<<ParamOf(AutoSource)>>),
   LambdaOf(<<ParamOf(AutoSource), ParamOf(AutoSource)>>)}
  \cup {LetOf(<<p>>, AutoExpr) : p \in {VarPattern, Expr(PInl(PVar("y"))), Expr(PCast(PVar("y"), Auto_("a")))}
                                       \cup Unsupported}
  \cup {LetOf(<<VarPattern, VarPattern>>, AutoExpr)}
  \cup {IntOf(i) : i \in 0..(IntMax + 1)} \cup {IndexOf(AutoExpr, i) : i \in 0..(IntMax + 1)}
  \cup {Context("ConsList", <<>>, One("head", AutoExpr) @@ One("tail", e)) : e \in Unsupported \cup {Paren(AutoExpr)}}
OddTrees ==
  {Unit_Of(<<Main_(ps, rs, e)>>) : ps \in {<<>>, <<ParamOf(AutoSource)>>, <<ParamOf(AutoSource), ParamOf(AutoSource)>>},
                                   rs \in {<<>>, <<AutoSource>>}, e \in OddExprs}
  \cup {Unit_Of(<<Main_(<<ParamOf(t)>>, <<s>>, AutoExpr)>>) : t, s \in OddTypes}

Sources == {Source(p) : p \in FunctionalPrograms \cup CompositePrograms}
MCTrees == OddTrees \cup Sources

-----------------------------------------------------------------------------
(* The AST is the program whose source was parsed: nothing is lost, added  *)
(* or exchanged, whatever the order in which a visitor visits its parts    *)
(* (all visitors of ASTBuilder).                                           *)
BuildsProgram == Parsed /\ thrown = OK => Source(ast) = Plain_(tree)

(* The registry holds one variable for every auto of the program, those in *)
(* its types, and none when the walk was given up: the final check of      *)
(* UnifyAll would report it (TypeAuto::Registry).                          *)
RECURSIVE AutoPaths(_)
AutoPaths(c) ==
  IF c.rule = "TypeAuto" THEN {<<>>}
  ELSE UNION {UNION {{<<l, i>> \o p : p \in AutoPaths(c.subs[l][i])} : i \in DOMAIN c.subs[l]} : l \in DOMAIN c.subs}
AutosRegistered ==
  Parsed =>
    IF thrown # OK THEN registry = {}
    ELSE /\ registry = UNION {UNION {AutosIn(ast.node[n].types[i]) : i \in DOMAIN ast.node[n].types} : n \in DOMAIN ast.node}
         /\ Cardinality(registry) = Cardinality(AutoPaths(tree))
=============================================================================
