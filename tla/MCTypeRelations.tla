-------------------------- MODULE MCTypeRelations --------------------------
(***************************************************************************)
(* Types for TLC: every family over Nat, Bool, Top and Bot and over records *)
(* that differ in width and order, and these once more inside functions,   *)
(* references and records.                                                 *)
(***************************************************************************)
EXTENDS TypeRelations

RecAB == Record_(<<"a", "b">>, <<Nat_, Bool_>>)
RecBA == Record_(<<"b", "a">>, <<Bool_, Nat_>>)
RecA  == Record_(<<"a">>, <<Nat_>>)
RecAT == Record_(<<"a">>, <<Top_>>)
VarA  == Variant_(<<"a">>, <<Nat_>>)
VarAB == Variant_(<<"a", "b">>, <<Nat_, Top_>>)
VarBA == Variant_(<<"b", "a">>, <<RecA, Nat_>>)

Simple == {Nat_, Bool_, Top_, Bot_, RecAB, RecBA, RecA, RecAT}
Few    == {Nat_, Top_, RecAB, RecBA, RecA}

OneLevel ==
  {List_(t) : t \in Simple} \cup {Ref_(t) : t \in Simple}
  \cup {Fun_(s, t) : s, t \in Few} \cup {Sum_(s, Nat_) : s \in Few}
  \cup {Tuple_(<<s, t>>) : s, t \in {Nat_, Top_, RecBA}} \cup {Tuple_(<<Nat_>>)}
  \cup {VarA, VarAB, VarBA, Variant_(<<"a">>, <<RecA>>)}

TwoLevels ==
  {Fun_(Fun_(s, Nat_), t) : s \in {RecA, RecAB}, t \in {Nat_, Top_}}
  \cup {Ref_(t) : t \in {Fun_(RecA, Nat_), Fun_(RecBA, Nat_), VarAB, Ref_(RecAB), Ref_(RecBA)}}
  \cup {List_(t) : t \in {VarA, VarBA, Ref_(RecA), List_(RecBA), List_(RecA)}}
  \cup {Record_(<<"a", "c">>, <<s, t>>) : s \in {RecAB, RecA}, t \in {Ref_(RecA), VarA}}

WholeUniverse == Simple \cup OneLevel \cup TwoLevels

(* Tuples of two lengths; variants with and without a payload.             *)
TupleUniverse   == {Tuple_(<<Nat_>>), Tuple_(<<Nat_, Bool_>>), Tuple_(<<Nat_, Bool_, Nat_>>)}
PayloadUniverse == {Variant_(<<"a">>, <<p>>) : p \in {Nat_, Bool_, None_}}
=============================================================================
