--------------------------- MODULE MCTypeChecker ---------------------------
(***************************************************************************)
(* The checker on the programs of StellaPrograms, for TLC, with the        *)
(* recursive operators on types that it takes as parameters.               *)
(***************************************************************************)
EXTENDS StellaTyping, StellaPrograms

(* SubstituteType: no renaming, so a type variable can be captured.        *)
RECURSIVE SubstituteType(_, _, _)
SubstituteType(t, params, args) ==
  LET i == IF t.tag = "Var" THEN SelectLastInSeq(params, LAMBDA p : p = t.lab[1]) ELSE 0
      kept == SelectSeq([k \in DOMAIN params |-> k],
                        LAMBDA k : t.tag # "ForAll" \/ params[k] \notin Range(t.lab))
      ps == [k \in DOMAIN kept |-> params[kept[k]]]
      as == [k \in DOMAIN kept |-> args[kept[k]]]
  IN  IF i # 0 THEN args[i]
      ELSE [t EXCEPT !.args = [k \in DOMAIN t.args |-> SubstituteType(t.args[k], ps, as)]]

(* Visiting a type: only ForAll and Ref visit their components.            *)
RECURSIVE VisitType(_, _)
VisitType(t, scope) ==
  CASE t.tag = "Var" -> IF t.lab[1] \in Range(scope) THEN OK ELSE "ERROR_UNDEFINED_TYPE_VARIABLE"
    [] t.tag = "ForAll"  -> VisitType(t.args[1], scope \o t.lab)
    [] t.tag = "Ref"     -> VisitType(t.args[1], scope)
    [] t.tag = "Record"  -> IF Repeated(t.lab) THEN "ERROR_DUPLICATE_RECORD_TYPE_FIELDS" ELSE OK
    [] t.tag = "Variant" -> IF Repeated(t.lab) THEN "ERROR_DUPLICATE_VARIANT_TYPE_FIELDS" ELSE OK
    [] OTHER -> OK

=============================================================================
