----------------------------- MODULE StellaTerms -----------------------------
(***************************************************************************)
(* The type terms of the Stella checker (typechecker/ast) and its error    *)
(* codes, without any recursive definition.                                *)
(*                                                                         *)
(* A term is [tag, lab, args]: the C++ class, its strings (field labels,   *)
(* a type variable's name, the identity of a TypeAuto object) and its      *)
(* component types in source order.  A family sentinel ("some list, the    *)
(* element type unknown") has no components and keeps its family in lab.   *)
(***************************************************************************)
EXTENDS Naturals, Sequences

Term(tag, lab, args) == [tag |-> tag, lab |-> lab, args |-> args]

Leaf(tag)      == Term(tag, <<>>, <<>>)
Nat_           == Leaf("Nat")
Bool_          == Leaf("Bool")
Unit_          == Leaf("Unit")
Top_           == Leaf("Top")
Bot_           == Leaf("Bot")
Unknown_       == Leaf("Unknown")
None_          == Leaf("None")    \* a null pointer, or no payload in a variant
Auto_(id)      == Term("Auto", <<id>>, <<>>)
Var_(x)        == Term("Var", <<x>>, <<>>)
Sentinel_(f)   == Term("Sentinel", <<f>>, <<>>)
List_(t)       == Term("List", <<>>, <<t>>)
Ref_(t)        == Term("Ref", <<>>, <<t>>)
Fun_(a, r)     == Term("Fun", <<>>, <<a, r>>)
Sum_(l, r)     == Term("Sum", <<>>, <<l, r>>)
Tuple_(ts)     == Term("Tuple", <<>>, ts)
Record_(ls, ts)  == Term("Record", ls, ts)
Variant_(ls, ts) == Term("Variant", ls, ts)
ForAll_(xs, t) == Term("ForAll", xs, <<t>>)

IsAuto(t)     == t.tag = "Auto"
IsSentinel(t) == t.tag = "Sentinel"
Family(t)     == IF IsSentinel(t) THEN t.lab[1] ELSE t.tag
MatchesAny(t) == t.tag \in {"Auto", "Unknown"}

-----------------------------------------------------------------------------
(* Error codes: OK is std::nullopt.                                        *)
OK       == "OK"
MISMATCH == "ERROR_UNEXPECTED_TYPE_FOR_EXPRESSION"
PARAM    == "ERROR_UNEXPECTED_TYPE_FOR_PARAMETER"
SUBTYPE  == "ERROR_UNEXPECTED_SUBTYPE"
MISSING_FIELDS    == "ERROR_MISSING_RECORD_FIELDS"
UNEXPECTED_FIELDS == "ERROR_UNEXPECTED_RECORD_FIELDS"
TUPLE_LENGTH      == "ERROR_UNEXPECTED_TUPLE_LENGTH"
VARIANT_LABEL     == "ERROR_UNEXPECTED_VARIANT_LABEL"
CRASH    == "null pointer dereferenced"

FamilyError ==
  [f \in {"Fun", "List", "Tuple", "Record", "Ref"} |->
     CASE f = "Fun"    -> "ERROR_NOT_A_FUNCTION"
       [] f = "List"   -> "ERROR_NOT_A_LIST"
       [] f = "Tuple"  -> "ERROR_NOT_A_TUPLE"
       [] f = "Record" -> "ERROR_NOT_A_RECORD"
       [] f = "Ref"    -> "ERROR_NOT_A_REFERENCE"]

UnexpectedError ==
  [f \in {"List", "Tuple", "Record", "Ref", "Sum", "Variant"} |->
     CASE f = "List"    -> "ERROR_UNEXPECTED_LIST"
       [] f = "Tuple"   -> "ERROR_UNEXPECTED_TUPLE"
       [] f = "Record"  -> "ERROR_UNEXPECTED_RECORD"
       [] f = "Ref"     -> "ERROR_UNEXPECTED_REFERENCE"
       [] f = "Sum"     -> "ERROR_UNEXPECTED_INJECTION"
       [] f = "Variant" -> "ERROR_UNEXPECTED_VARIANT"]

(* The expected type's own code wins, then the actual type's, then the     *)
(* generic one.                                                            *)
FamilyMismatchError(actual, expected) ==
  CASE Family(expected) \in DOMAIN FamilyError   -> FamilyError[Family(expected)]
    [] Family(expected) \notin DOMAIN FamilyError
       /\ Family(actual) \in DOMAIN UnexpectedError -> UnexpectedError[Family(actual)]
    [] OTHER -> MISMATCH
=============================================================================
