----------------------------- MODULE MCUnifier -----------------------------
(***************************************************************************)
(* The unifier over real Stella types, for TLC: three type variables, the  *)
(* types in Shapes and their parts, and every assignment of the types in   *)
(* Ground to the variables.  A system of constraints is flat, solvable or  *)
(* not, or deep and solvable: UnifyAll may run for ever on a deep system   *)
(* without solution (see MCUnifierDiverge).                                *)
(***************************************************************************)
EXTENDS Integers, UnifierSemantics, StellaTypes

CONSTANTS Shapes,   \* the types the program mentions
          Ground    \* the types (a sequence) a solution may give a variable

a == Auto_("a")
b == Auto_("b")
c == Auto_("c")

MCAuto == {a, b, c}
MCCtor == UNION {SubTerms(t) : t \in Shapes} \ MCAuto

(* A bounded choice of constraints: every variable against every type, in  *)
(* the order a visitor passes them (actual type first), and some flipped.  *)
InputsOf(shapes) ==
  {Eqn(v, t) : v \in {a, b}, t \in shapes} \cup {Eqn(t, c) : t \in shapes \cap {Nat_, List_(a)}}
  \cup {Eqn(a, b), Eqn(b, c), Eqn(c, a), Eqn(a, a)}
MCInputs == InputsOf(Shapes)

MCCmpOk(s, t) == CheckCompatible(s, t) = OK

-----------------------------------------------------------------------------
(* The k-th assignment, in base Len(Ground).                               *)
Assignment(k) ==
  LET n == Len(Ground)
  IN  [v \in MCAuto |-> CASE v = a -> Ground[1 + (k % n)]
                          [] v = b -> Ground[1 + ((k \div n) % n)]
                          [] v = c -> Ground[1 + (k \div (n * n))]]
MCSol == 0..(Len(Ground) * Len(Ground) * Len(Ground) - 1)

RECURSIVE Apply(_, _)
Apply(x, t) == IF IsAuto(t) THEN x[t]
               ELSE [t EXCEPT !.args = [i \in DOMAIN t.args |-> Apply(x, t.args[i])]]

(* Two record types with the same fields in another order are the same     *)
(* type: the fields of a finite type are listed in one order.              *)
RECURSIVE Canonical(_)
Canonical(t) ==
  LET labs == IF t.tag = "Record" THEN SetToSeq(Range(t.lab)) ELSE t.lab
  IN  Term(t.tag, labs,
           [i \in DOMAIN t.args |->
              Canonical(IF t.tag = "Record" THEN t.args[FieldOf(t, labs[i])] ELSE t.args[i])])
RECURSIVE MCSize(_)
MCSize(t) == 1 + FoldFunction(LAMBDA u, n : MCSize(u) + n, 0, t.args)

MCInstance(t, values) == Canonical(Apply(values, t))
ValueTable == [x \in MCSol, t \in MCAuto \cup MCCtor |-> MCInstance(t, Assignment(x))]
MCValue(x, t) == ValueTable[x, t]
SatTable ==
  [s, t \in MCAuto \cup MCCtor |-> {x \in MCSol : MCValue(x, s) = MCValue(x, t)}]
MCSat(s, t) == SatTable[s, t]

-----------------------------------------------------------------------------
FlatShapes == {Nat_, Bool_, List_(a), List_(b), Fun_(b, c), Fun_(c, Nat_)}
DeepShapes == {Nat_, List_(b), List_(List_(b)), List_(Nat_), Record_(<<"x", "y">>, <<a, c>>),
               Record_(<<"y", "x">>, <<Nat_, b>>)}

FlatInputs == InputsOf(FlatShapes)
DeepInputs == InputsOf(DeepShapes)
AllShapes  == FlatShapes \cup DeepShapes
AllGround  == <<Nat_, Bool_, List_(Nat_), Fun_(Nat_, Nat_), List_(List_(Nat_)),
                Record_(<<"x", "y">>, <<Nat_, Nat_>>)>>

(* input stays as it is once UnifyAll runs, so whole behaviours are cut,   *)
(* never the end of one.                                                   *)
FlatOrSolvable ==
  \/ input \subseteq FlatInputs
  \/ input \subseteq DeepInputs /\ (phase = "visit" \/ InputSolutions # {})
=============================================================================
