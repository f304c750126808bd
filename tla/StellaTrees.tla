---------------------------- MODULE StellaTrees ----------------------------
(***************************************************************************)
(* The AST of a Stella program (stella/ast): a table of nodes in preorder. *)
(* A node is [kind, labs, types, kids]: its class, its names or tuple      *)
(* index, its syntactic types and its child nodes in source order.         *)
(***************************************************************************)
EXTENDS StellaTerms, FiniteSets, SequencesExt

(* While a tree is put together a child is known by its distance from its  *)
(* parent.                                                                 *)
Distances(kids) ==
  LET d[i \in DOMAIN kids] == IF i = 1 THEN 1 ELSE d[i - 1] + Len(kids[i - 1])
  IN  IF kids = <<>> THEN <<>> ELSE d

Tree(kind, labs, types, kids) ==
  <<[kind |-> kind, labs |-> labs, types |-> types, kids |-> Distances(kids)]>> \o FlattenSeq(kids)

Program(ext, ds) ==
  LET t == Tree("Program", <<>>, <<>>, ds)
  IN  [ext |-> ext,
       node |-> [n \in DOMAIN t |-> [t[n] EXCEPT !.kids = [i \in DOMAIN @ |-> n + @[i]]]]]
=============================================================================
