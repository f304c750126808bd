----------------------------- MODULE TypeRules -----------------------------
(***************************************************************************)
(* What two types have to do with each other by the rules of the language: *)
(* equality and subtyping, without error codes, sentinels or order.  These *)
(* are the relations that Type::CheckCompatible and SubtypeChecker decide. *)
(*                                                                         *)
(* Only TLC evaluates this module.                                         *)
(***************************************************************************)
EXTENDS StellaTerms

(* Equality: the fields of a record are named, all other components have   *)
(* their place.                                                            *)
RECURSIVE SameType(_, _)
SameType(s, t) ==
  \/ s = t
  \/ /\ s.tag = "Record" /\ t.tag = "Record" /\ Len(s.lab) = Len(t.lab)
     /\ \A i \in DOMAIN t.lab : \E j \in DOMAIN s.lab :
          s.lab[j] = t.lab[i] /\ SameType(s.args[j], t.args[i])
  \/ /\ s.tag # "Record" /\ s.tag = t.tag /\ s.lab = t.lab /\ Len(s.args) = Len(t.args)
     /\ \A i \in DOMAIN s.args : SameType(s.args[i], t.args[i])

(* Subtyping: depth and width, Top and Bot.                                *)
RECURSIVE Subtype(_, _)
Subtype(s, t) ==
  LET Each(S, T) == Len(S.args) = Len(T.args) /\ \A i \in DOMAIN S.args : Subtype(S.args[i], T.args[i])
      Labelled(S, T, up) ==      \* every labelled component of T, in S
        \A i \in DOMAIN T.lab : \E j \in DOMAIN S.lab :
          S.lab[j] = T.lab[i] /\ (IF up THEN Subtype(S.args[j], T.args[i])
                                  ELSE Subtype(T.args[i], S.args[j]))
  IN  \/ s = t \/ s = Bot_ \/ t = Top_
      \/ /\ s.tag = t.tag
         /\ CASE s.tag = "Fun" -> Subtype(t.args[1], s.args[1]) /\ Subtype(s.args[2], t.args[2])
              [] s.tag \in {"List", "Sum", "Tuple"} -> Each(s, t)
              [] s.tag = "Record"  -> Labelled(s, t, TRUE)
              [] s.tag = "Variant" -> Labelled(t, s, FALSE)
              [] s.tag = "Ref" -> Each(s, t) /\ Each(t, s)
              [] OTHER -> FALSE
=============================================================================
