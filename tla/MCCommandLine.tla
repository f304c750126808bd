---------------------------- MODULE MCCommandLine ----------------------------
(***************************************************************************)
(* The command line on sources of the golden tests, for TLC: what the      *)
(* program prints, and its exit code.                                      *)
(***************************************************************************)
EXTENDS CommandLine, MCTypeReconstruction, StellaSources

CONSTANT Files    \* the sources, each with what the program shall print

Names_ == <<"a", "b", "c", "d", "e", "f", "g", "h">>    \* of the autos, as in Autos

(* The variables of a source are numbered in the order of its autos.       *)
Written(tree_, verdict) ==
  [tree |-> tree_,
   output |-> [exit |-> IF verdict = OK THEN 0 ELSE 1,
               line |-> IF verdict = OK THEN "Well-typed" ELSE verdict]]

(* The body of every function in parentheses, and before a semicolon.      *)
Wrapped(tree_) ==
  LET Around(rule, c) == Context(rule, <<>>, One("expr_", c))
  IN  [tree_ EXCEPT !.subs.decl =
         [i \in DOMAIN @ |-> [@[i] EXCEPT !.subs.returnExpr =
            <<Around("TerminatingSemicolon", Around("ParenthesisedExpr", @[1]))>>]]]

(* universal-types/test_ok_generic_used_as_value: a second parameter.      *)
SecondParameter(tree_) ==
  [tree_ EXCEPT !.subs.decl =
     [@ EXCEPT ![1].subs.paramDecls = Append(@, @[1])]]

GoldenFiles ==
  UNION {LET s == Source(g.program)
         IN  {Written(s, g.verdict), Written(Wrapped(s), g.verdict),
              Written(SecondParameter(s), P!ERROR)} : g \in Goldens}
GoldenTrees == {f.tree : f \in Files}

-----------------------------------------------------------------------------
(* The program prints what the golden test of its source records, whatever *)
(* the parser, the visitors and the unifier had to do for it, and exits    *)
(* with the code the test records (main's handlers).                       *)
GoldenOutput == output # Running => [tree |-> tree, output |-> output] \in Files
=============================================================================
