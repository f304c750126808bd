--------------------------- MODULE TypeRelations ---------------------------
(***************************************************************************)
(* The comparison of types on its own: a value of one type is handed on,   *)
(* through calls, ascriptions and assignments, to places of declared types *)
(* that TypeChecker::CheckCompatible accepts one after the other.  What it *)
(* has become at the end must still be what it was at the start.           *)
(***************************************************************************)
EXTENDS StellaTypes, TypeRules

CONSTANT Universe    \* closed, well-formed types

VARIABLES
  subtyping,  \* whether the program has #structural-subtyping
  origin,     \* the type of the value
  current     \* the type of the place it is in

path == <<subtyping, origin, current>>

Compatible(given, expected) ==
  IF subtyping THEN IsSubtypeOrError(given, expected) = OK ELSE CheckCompatible(given, expected) = OK

HandOn(t) ==
  /\ Compatible(current, t)
  /\ current' = t
  /\ UNCHANGED <<subtyping, origin>>

Depart == subtyping \in BOOLEAN /\ origin \in Universe /\ current = origin
Move   == \E t \in Universe : HandOn(t)
Travel == Depart /\ [][Move]_path

-----------------------------------------------------------------------------
Related(s, t) == IF subtyping THEN Subtype(s, t) ELSE SameType(s, t)

(* However often a value is handed on, its type stays related to the type  *)
(* of the place: the accepted comparisons compose.  RuleX of subtype.cpp   *)
(* and CheckCompatibleImpl accept one step at a time.                      *)
HandingOnSound == Related(origin, current)

(* No place that the rules allow is refused, whichever order the fields    *)
(* and labels are in.                                                      *)
HandingOnComplete == \A t \in Universe : Related(current, t) => Compatible(current, t)

(* "{T1, ..., Tn, ...} <: {S1, ..., Sm} iff n >= m and Ti <: Si for i <= m" *)
(* (subtype.cpp:119): a longer tuple is accepted for a shorter one.        *)
TuplesHaveWidth ==
  \A t \in Universe :
    /\ subtyping /\ current.tag = "Tuple" /\ t.tag = "Tuple"
    /\ Len(current.args) >= Len(t.args)
    /\ \A i \in DOMAIN t.args : Subtype(current.args[i], t.args[i])
    => Compatible(current, t)
=============================================================================
