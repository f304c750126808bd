--------------------------- MODULE StellaSources ---------------------------
(***************************************************************************)
(* Parse trees for TLC: the tree of the grammar (StellaParser.g4) that a   *)
(* program is the AST of, and the detours the grammar allows.              *)
(***************************************************************************)
EXTENDS StellaPrograms

Context(rule, text, subs) == [rule |-> rule, text |-> text, subs |-> subs]
One(label, c) == (label :> <<c>>)
NoSubs        == <<>>
Each(label, contexts) == (label :> contexts)

(* Types.  The objects that autos become are not in the source.            *)
TypeRule == [Nat |-> "TypeNat", Bool |-> "TypeBool", Unit |-> "TypeUnit", Top |-> "TypeTop",
             Bot |-> "TypeBottom", Auto |-> "TypeAuto", Var |-> "TypeVar", Fun |-> "TypeFun",
             ForAll |-> "TypeForAll", List |-> "TypeList", Ref |-> "TypeRef", Sum |-> "TypeSum",
             Tuple |-> "TypeTuple", Record |-> "TypeRecord", Variant |-> "TypeVariant"]
RECURSIVE TypeSource(_)
TypeSource(t) ==
  LET arg(i) == TypeSource(t.args[i])
      args == [i \in DOMAIN t.args |-> arg(i)]
      Field_(i) == Context("fieldType", <<>>, Each("type_", IF t.args[i] = None_ THEN <<>> ELSE <<arg(i)>>))
      subs == CASE t.tag = "Fun" -> One("paramTypes", arg(1)) @@ One("returnType", arg(2))
                [] t.tag = "Sum" -> One("left", arg(1)) @@ One("right", arg(2))
                [] t.tag \in {"List", "Ref", "ForAll"} -> One("type_", arg(1))
                [] t.tag = "Tuple" -> Each("types", args)
                [] t.tag \in {"Record", "Variant"} -> Each("fieldTypes", [i \in DOMAIN t.args |-> Field_(i)])
                [] OTHER -> NoSubs
  IN  Context(TypeRule[t.tag], IF t.tag = "Auto" THEN <<>> ELSE t.lab, subs)

(* The label of every child of an expression or a pattern.                 *)
Positional ==
  [r \in {"Succ", "Pred", "IsZero"} |-> <<"n">>]
  @@ [r \in {"Fix", "TypeAbstraction", "DotTuple", "DotRecord", "Inl", "Inr", "TypeAsc",
             "TypeCast", "Throw", "Ref", "Deref"} |-> <<"expr_">>]
  @@ [r \in {"Head", "Tail", "IsEmpty"} |-> <<"list">>]
  @@ [r \in {"PatternInl", "PatternInr", "PatternCastAs"} |-> <<"pattern_">>]
  @@ [If |-> <<"condition", "thenExpr", "elseExpr">>, NatRec |-> <<"n", "initial", "step">>,
      Application |-> <<"fun", "args">>, Abstraction |-> <<"paramDecls", "returnExpr">>,
      ConsList |-> <<"head", "tail">>, Sequence |-> <<"expr1", "expr2">>, Assign |-> <<"lhs", "rhs">>,
      TryWith |-> <<"tryExpr", "fallbackExpr">>, TryCatch |-> <<"tryExpr", "pat", "fallbackExpr">>,
      TryCastAs |-> <<"tryExpr", "pattern_", "expr_", "fallbackExpr">>, TypeApplication |-> <<"fun">>]
Typed ==
  [TypeApplication |-> "types", TypeAsc |-> "type_", TypeCast |-> "type_", PatternCastAs |-> "type_",
   TryCastAs |-> "type_", ParamDecl |-> "paramType", DeclExceptionType |-> "exceptionType",
   DeclExceptionVariant |-> "variantType", DeclFun |-> "returnType", DeclFunGeneric |-> "returnType"]
Optional == [Variant |-> "rhs", PatternVariant |-> "pattern_"]

RECURSIVE NodeSource(_, _)
NodeSource(table, n) ==
  LET node == table[n]
      kids == [i \in DOMAIN node.kids |-> NodeSource(table, node.kids[i])]
      last == Len(kids)
      types == [i \in DOMAIN node.types |-> TypeSource(node.types[i])]
      Inner(l, m, a, b) == Context("inner", <<>>, One(l, a) @@ One(m, b))
      subs ==
        CASE node.kind = "Program" -> Each("decl", kids)
          [] node.kind \in {"DeclFun", "DeclFunGeneric"} ->
               One("paramDecls", kids[1]) @@ One("returnExpr", kids[last])
               @@ Each("localDecls", SubSeq(kids, 2, last - 1))
          [] node.kind \in {"List", "Tuple"} -> Each("exprs", kids)
          [] node.kind = "Record" ->
               Each("bindings", [i \in DOMAIN kids |-> Context("inner", <<>>, One("rhs", kids[i]))])
          [] node.kind = "Let" ->
               One("patternBindings", Inner("pat", "rhs", kids[2], kids[1])) @@ One("body", kids[3])
          [] node.kind = "Match" ->
               One("expr_", kids[1])
               @@ Each("cases", [i \in 1..((last - 1) \div 2) |->
                                   Inner("pattern_", "expr_", kids[2 * i], kids[2 * i + 1])])
          [] node.kind \in DOMAIN Optional -> Each(Optional[node.kind], kids)
          [] node.kind \in DOMAIN Positional ->
               [l \in Range(Positional[node.kind]) |->
                  <<kids[CHOOSE i \in DOMAIN kids : Positional[node.kind][i] = l]>>]
          [] OTHER -> NoSubs
  IN  Context(node.kind,
              IF node.kind = "ConstInt" THEN <<0>> ELSE node.labs,
              subs @@ (IF node.kind \in DOMAIN Typed THEN Each(Typed[node.kind], types) ELSE NoSubs))

Source(program) ==
  [NodeSource(program.node, 1) EXCEPT !.text = SetToSeq(program.ext)]

-----------------------------------------------------------------------------
(* Every context of a tree.                                                *)
RECURSIVE ContextsIn(_)
ContextsIn(c) == {c} \cup UNION {UNION {ContextsIn(c.subs[l][i]) : i \in DOMAIN c.subs[l]} : l \in DOMAIN c.subs}

(* The tree without parentheses and semicolons, and without the numbers,   *)
(* which the checker does not look at.                                     *)
RECURSIVE Plain_(_)
Plain_(c) ==
  IF c.rule \in {"ParenthesisedExpr", "TerminatingSemicolon"} THEN Plain_(c.subs.expr_[1])
  ELSE IF c.rule = "TypeParens" THEN Plain_(c.subs.type_[1])
  ELSE IF c.rule = "ConstInt" THEN [c EXCEPT !.text = <<0>>]
  ELSE [c EXCEPT !.subs = [l \in DOMAIN @ |-> [i \in DOMAIN @[l] |-> Plain_(@[l][i])]]]
=============================================================================
