--------------------------- MODULE Reconstruction ---------------------------
(***************************************************************************)
(* What the type-reconstruction phase promises, whatever its algorithm:    *)
(* the program puts constraints on the types of its `auto`s; the phase     *)
(* ends in a verdict; a type error is only reported when no assignment of  *)
(* types satisfies the constraints, and an accepted program is given a     *)
(* typing that stands for exactly the assignments that do.                 *)
(***************************************************************************)
CONSTANTS
  Sol,          \* the assignments of types to the type variables
  Sat(_, _),    \* those under which two types are equal
  Equations     \* the constraints a program may add

VARIABLES
  sols,     \* the assignments that satisfy every constraint so far
  verdict,  \* "none", "accepted", "type error" or "ambiguous"
  typing    \* the assignments the accepted typing stands for

vars == <<sols, verdict, typing>>

Init == sols = Sol /\ verdict = "none" /\ typing = {}

Constrain ==
  /\ verdict = "none"
  /\ \E c \in Equations : sols' = sols \cap Sat(c.lhs, c.rhs)
  /\ UNCHANGED <<verdict, typing>>

Accept ==
  /\ verdict = "none" /\ verdict' = "accepted"
  /\ typing' = sols /\ UNCHANGED sols

RejectUnsolvable ==
  /\ verdict = "none" /\ verdict' = "type error"
  /\ sols = {} /\ UNCHANGED <<sols, typing>>

RejectAmbiguous ==
  /\ verdict = "none" /\ verdict' = "ambiguous"
  /\ UNCHANGED <<sols, typing>>

Next == Constrain \/ Accept \/ RejectUnsolvable \/ RejectAmbiguous

Spec == Init /\ [][Next]_vars
=============================================================================
