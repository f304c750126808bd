------------------------------- MODULE Parser -------------------------------
(***************************************************************************)
(* ASTBuilder and ParseProgram (parser.cpp): the walk over the parse tree  *)
(* that StellaParser returns, which builds the AST that the checker gets.  *)
(*                                                                         *)
(* A context [rule, text, subs] is a node of the parse tree: the grammar   *)
(* alternative it matched, its identifiers and numbers, and for each label *)
(* of the alternative the contexts it stands for.  The builder recurses on *)
(* the C++ stack: visits holds one frame per active visitX, with what its  *)
(* children returned.  An exception drops the results on its way up, and   *)
(* with them the TypeAuto objects in them.                                 *)
(***************************************************************************)
EXTENDS StellaTrees

CONSTANTS
  ParseTrees,   \* the trees StellaParser may return
  AutoNames,    \* bound: the TypeAuto objects that may be made, in order
  IntMax        \* bound: the largest int, 2^31 - 1 in the code

VARIABLES
  tree,      \* the parse tree
  visits,    \* the active visits, innermost last
  registry,  \* TypeAuto::Registry: the type variables alive
  thrown,    \* the exception being thrown
  ast        \* what ParseProgram returns

parser == <<tree, visits, registry, thrown, ast>>

(* Every std::exception is a "Parsing error" to main.                      *)
ERROR     == "Parsing error"
NoProgram == [ext |-> {}, node |-> <<>>]

-----------------------------------------------------------------------------
(* The visitors: the labels each one visits, in its order.  An alternative *)
(* without a visitor is left to visitChildren, which throws.               *)
DeclRules ==
  [Program |-> <<"decl">>]
  @@ [r \in {"DeclFun", "DeclFunGeneric"} |-> <<"paramDecls", "returnType", "returnExpr", "localDecls">>]
  @@ [DeclExceptionType |-> <<"exceptionType">>, DeclExceptionVariant |-> <<"variantType">>,
      ParamDecl |-> <<"paramType">>]
TypeRules ==
  [r \in {"TypeNat", "TypeBool", "TypeUnit", "TypeTop", "TypeBottom", "TypeAuto", "TypeVar"} |-> <<>>]
  @@ [TypeFun |-> <<"paramTypes", "returnType">>, TypeForAll |-> <<"type_">>]
DataTypeRules ==
  [r \in {"TypeList", "TypeRef", "TypeParens"} |-> <<"type_">>]
  @@ [r \in {"TypeRecord", "TypeVariant"} |-> <<"fieldTypes">>]
  @@ [TypeTuple |-> <<"types">>, TypeSum |-> <<"left", "right">>]
CoreRulesSwapped ==    \* seeded bug: the branches of an if change places
  [r \in {"ConstTrue", "ConstFalse", "ConstUnit", "ConstInt", "Var"} |-> <<>>]
  @@ [r \in {"Succ", "Pred", "IsZero"} |-> <<"n">>]
  @@ [If |-> <<"condition", "elseExpr", "thenExpr">>, Fix |-> <<"expr_">>,
      NatRec |-> <<"n", "initial", "step">>, Application |-> <<"fun", "args">>,
      Abstraction |-> <<"paramDecls", "returnExpr">>]
CoreRules ==
  [r \in {"ConstTrue", "ConstFalse", "ConstUnit", "ConstInt", "Var"} |-> <<>>]
  @@ [r \in {"Succ", "Pred", "IsZero"} |-> <<"n">>]
  @@ [If |-> <<"condition", "thenExpr", "elseExpr">>, Fix |-> <<"expr_">>,
      NatRec |-> <<"n", "initial", "step">>, Application |-> <<"fun", "args">>,
      Abstraction |-> <<"paramDecls", "returnExpr">>]
GenericRules ==
  [TypeAbstraction |-> <<"expr_">>, TypeApplication |-> <<"fun", "types">>,
   ParenthesisedExpr |-> <<"expr_">>]
ListRules ==
  [r \in {"Head", "Tail", "IsEmpty"} |-> <<"list">>]
  @@ [List |-> <<"exprs">>, ConsList |-> <<"head", "tail">>]
TupleRules  == [Tuple |-> <<"exprs">>, DotTuple |-> <<"expr_">>]
RecordRules == [Record |-> <<"bindings">>, DotRecord |-> <<"expr_">>]
SumRules    == [Inl |-> <<"expr_">>, Inr |-> <<"expr_">>,
                PatternInl |-> <<"pattern_">>, PatternInr |-> <<"pattern_">>]
MatchRules  == [Match |-> <<"expr_", "cases">>]
VariantRules == [Variant |-> <<"rhs">>, PatternVariant |-> <<"pattern_">>]
CastRules ==
  [r \in {"TypeAsc", "TypeCast"} |-> <<"expr_", "type_">>]
  @@ [PatternVar |-> <<>>, PatternCastAs |-> <<"pattern_", "type_">>]
LetRules == [Let |-> <<"patternBindings", "body">>]
EffectRules ==
  [Panic |-> <<>>, Sequence |-> <<"expr1", "expr2">>, Throw |-> <<"expr_">>,
   TryWith |-> <<"tryExpr", "fallbackExpr">>, TryCatch |-> <<"tryExpr", "pat", "fallbackExpr">>,
   TryCastAs |-> <<"tryExpr", "type_", "pattern_", "expr_", "fallbackExpr">>]
ReferenceRules ==
  [Ref |-> <<"expr_">>, Deref |-> <<"expr_">>, Assign |-> <<"lhs", "rhs">>, ConstMemory |-> <<>>,
   TerminatingSemicolon |-> <<"expr_">>]
Rules == DeclRules @@ TypeRules @@ DataTypeRules @@ CoreRules @@ GenericRules @@ ListRules
         @@ TupleRules @@ RecordRules @@ SumRules @@ MatchRules @@ VariantRules @@ CastRules
         @@ LetRules @@ EffectRules @@ ReferenceRules

(* What the caller casts the std::any of a visit to (try_any_cast), and    *)
(* what the visit put into it.                                             *)
CastOf(label) ==
  CASE label \in {"decl", "localDecls"} -> "NodeDecl"
    [] label = "paramDecls" -> "NodeParamDecl"
    [] label \in {"pattern_", "pat"} -> "NodePattern"
    [] label \in {"paramTypes", "returnType", "type_", "types", "left", "right", "paramType",
                  "exceptionType", "variantType"} -> "Type"
    [] OTHER -> "NodeExpr"
NodeClass(rule) ==
  CASE rule \in DOMAIN DeclRules \ {"ParamDecl"} -> "NodeDecl"
    [] rule = "ParamDecl" -> "NodeParamDecl"
    [] rule \in {"PatternVar", "PatternInl", "PatternInr", "PatternVariant", "PatternCastAs"} -> "NodePattern"
    [] OTHER -> "NodeExpr"

(* Contexts that the visitors open themselves: their labels in turn.       *)
Inline == [patternBindings |-> <<"pat", "rhs">>, bindings |-> <<"rhs">>,
           cases |-> <<"pattern_", "expr_">>, fieldTypes |-> <<"type_">>]

(* Lists of which a visitor refuses more than one and takes the first; and *)
(* what the grammar makes optional and the visitors do not: they take the  *)
(* first element of an empty vector, or visit a null context.              *)
Single   == {"paramDecls", "paramTypes", "args", "patternBindings"}
Assumed  == {"paramDecls", "paramTypes", "args", "returnType"}
Null     == [rule |-> "null", text |-> <<>>, subs |-> <<>>]
Taken(ctx, label) ==
  LET found == ctx.subs[label]
  IN  CASE found = <<>> /\ label \in Assumed -> <<Null>>
        [] found # <<>> /\ label \in Single -> <<found[1]>>
        [] OTHER -> found
Labelled(ctx, label) ==
  [i \in DOMAIN Taken(ctx, label) |-> [ctx |-> Taken(ctx, label)[i], cast |-> CastOf(label)]]

(* The calls of visit that a visitor makes.                                *)
Calls(ctx) ==
  LET Under(label) ==
        IF label \notin DOMAIN Inline THEN Labelled(ctx, label)
        ELSE FlattenSeq([i \in DOMAIN Taken(ctx, label) |->
               FlattenSeq([j \in DOMAIN Inline[label] |-> Labelled(Taken(ctx, label)[i], Inline[label][j])])])
  IN  FlattenSeq([i \in DOMAIN Rules[ctx.rule] |-> Under(Rules[ctx.rule][i])])

(* What a visitor refuses before it visits anything.                       *)
NotSupportedMany(ctx) == ctx.rule \notin DOMAIN Rules    \* a seeded bug: no check for several
NotSupported(ctx) ==
  \/ ctx.rule \notin DOMAIN Rules
  \/ \E label \in Single \cap DOMAIN ctx.subs : Len(ctx.subs[label]) > 1

(* std::stoi throws on a number that is no int.                            *)
OutOfRange(ctx) == ctx.rule \in {"ConstInt", "DotTuple"} /\ ctx.text[1] > IntMax

-----------------------------------------------------------------------------
(* Results: the class of the pointer, the type or the nodes it points to,  *)
(* and the TypeAuto objects it owns.                                       *)
Top   == visits[Len(visits)]
Below == SubSeq(visits, 1, Len(visits) - 1)
Building(ready) == visits # <<>> /\ thrown = OK /\ ready
Finished == Len(Top.done) = Len(Calls(Top.ctx))
Frame(ctx) == [ctx |-> ctx, done |-> <<>>]

Owned(results)   == UNION {results[i].autos : i \in DOMAIN results}
OfClass(isType)  ==
  FlattenSeq([i \in DOMAIN Top.done |->
    IF (Top.done[i].class = "Type") = isType THEN <<Top.done[i]>> ELSE <<>>])
Terms            == [i \in DOMAIN OfClass(TRUE) |-> OfClass(TRUE)[i].type]
Nodes            == [i \in DOMAIN OfClass(FALSE) |-> OfClass(FALSE)[i].nodes]

(* The children of a node in the order of its class.                       *)
Arranged(rule, kids) ==
  CASE rule \in {"DeclFun", "DeclFunGeneric"} -> <<kids[1]>> \o SubSeq(kids, 3, Len(kids)) \o <<kids[2]>>
    [] rule = "Let" -> <<kids[2], kids[1], kids[3]>>
    [] OTHER -> kids
Labels(ctx) == IF ctx.rule \in {"ConstInt", "ConstMemory"} THEN <<>> ELSE ctx.text
MakeNode(ctx) ==
  [class |-> NodeClass(ctx.rule), type |-> None_, autos |-> Owned(Top.done),
   nodes |-> Tree(ctx.rule, Labels(ctx), Terms, Arranged(ctx.rule, Nodes))]

TermTags ==
  [TypeNat |-> "Nat", TypeBool |-> "Bool", TypeUnit |-> "Unit", TypeTop |-> "Top",
   TypeBottom |-> "Bot", TypeVar |-> "Var", TypeFun |-> "Fun", TypeForAll |-> "ForAll",
   TypeList |-> "List", TypeRef |-> "Ref", TypeRecord |-> "Record", TypeVariant |-> "Variant",
   TypeTuple |-> "Tuple", TypeSum |-> "Sum"]
TypeResult(t, autos) == [class |-> "Type", type |-> t, autos |-> autos, nodes |-> <<>>]

(* A field of a variant type may have no type.                             *)
Payloads(fields) ==
  LET Given(i) == fields[i].subs.type_ # <<>>
  IN  [i \in DOMAIN fields |-> IF Given(i) THEN Terms[Cardinality({j \in 1..i : Given(j)})] ELSE None_]
MakeType(ctx) ==
  TypeResult(Term(TermTags[ctx.rule], ctx.text,
                  IF "fieldTypes" \in DOMAIN ctx.subs THEN Payloads(ctx.subs.fieldTypes) ELSE Terms),
             Owned(Top.done))

(* The visit returns, and its caller casts what it gets.                   *)
Transparent == {"ParenthesisedExpr", "TypeParens", "TerminatingSemicolon"}
Return(result) ==
  LET caller == visits[Len(visits) - 1]
      cast   == Calls(caller.ctx)[Len(caller.done) + 1].cast
  IN  /\ IF caller.ctx.rule \in Transparent \/ result.class = cast
         THEN /\ visits' = [Below EXCEPT ![Len(Below)].done = Append(@, result)]
              /\ UNCHANGED thrown
         ELSE thrown' = ERROR /\ UNCHANGED visits
      /\ UNCHANGED <<tree, ast>>

-----------------------------------------------------------------------------
ParseProgram ==
  /\ visits = <<Frame(tree)>>
  /\ registry = {} /\ thrown = OK /\ ast = NoProgram
Init == tree \in ParseTrees /\ ParseProgram

(* A let takes one variable: another pattern is refused once it is built.  *)
BadPattern == /\ Top.ctx.rule = "Let" /\ Len(Top.done) = 1
              /\ Top.done[1].nodes[1].kind # "PatternVar"

VisitChild ==
  /\ Building(~NotSupported(Top.ctx)) /\ ~Finished /\ ~BadPattern
  /\ LET call == Calls(Top.ctx)[Len(Top.done) + 1].ctx IN
     IF call = Null THEN thrown' = CRASH /\ visits' = <<>> /\ registry' = {}
     ELSE /\ visits' = Append(visits, Frame(call))
          /\ UNCHANGED <<registry, thrown>>
  /\ UNCHANGED <<tree, ast>>

ReturnNode ==
  /\ Building(~NotSupported(Top.ctx)) /\ Finished /\ ~OutOfRange(Top.ctx)
  /\ Top.ctx.rule \notin DOMAIN TypeRules \cup DOMAIN DataTypeRules \cup Transparent \cup {"Program"}
  /\ Return(MakeNode(Top.ctx)) /\ UNCHANGED registry
ReturnType ==
  /\ Building(Top.ctx.rule \in DOMAIN TermTags) /\ ~NotSupported(Top.ctx) /\ Finished
  /\ Return(MakeType(Top.ctx)) /\ UNCHANGED registry
ReturnSame ==
  /\ Building(Top.ctx.rule \in Transparent) /\ Finished
  /\ Return(Top.done[1]) /\ UNCHANGED registry

(* Seeded bug: one object for all autos.                                   *)
VisitTypeAutoOnce ==
  /\ Building(Top.ctx.rule = "TypeAuto")
  /\ Return(TypeResult(Auto_(AutoNames[1]), {Auto_(AutoNames[1])}))
  /\ registry' = {Auto_(AutoNames[1])}
(* Every auto is an object of its own, which registers itself.             *)
VisitTypeAuto ==
  /\ Building(Top.ctx.rule = "TypeAuto") /\ Cardinality(registry) < Len(AutoNames)
  /\ LET auto == Auto_(AutoNames[Cardinality(registry) + 1]) IN
     /\ Return(TypeResult(auto, {auto}))
     /\ registry' = registry \cup {auto}

ReturnProgram ==
  /\ Building(Top.ctx.rule = "Program") /\ Finished
  /\ ast' = Program(Range(Top.ctx.text), Nodes)
  /\ visits' = <<>>
  /\ UNCHANGED <<tree, registry, thrown>>

Throw ==
  /\ Building(IF NotSupported(Top.ctx) THEN TRUE
              ELSE BadPattern \/ (Finished /\ OutOfRange(Top.ctx)))
  /\ thrown' = ERROR
  /\ UNCHANGED <<tree, visits, registry, ast>>

(* Seeded bug: the results of a dropped frame stay in the registry.        *)
UnwindKeeps ==
  /\ visits # <<>> /\ thrown # OK
  /\ visits' = Below
  /\ UNCHANGED <<tree, registry, thrown, ast>>
(* A frame goes, and the results it held with their variables.             *)
Unwind ==
  /\ visits # <<>> /\ thrown # OK
  /\ visits' = Below
  /\ registry' = registry \ Owned(Top.done)
  /\ UNCHANGED <<tree, thrown, ast>>

Build == VisitChild \/ ReturnNode \/ ReturnType \/ ReturnSame \/ VisitTypeAuto
         \/ ReturnProgram \/ Throw \/ Unwind
Parsed == visits = <<>>
Next   == Build \/ (Parsed /\ UNCHANGED parser)
Spec   == Init /\ [][Next]_parser
=============================================================================
