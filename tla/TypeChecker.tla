---------------------------- MODULE TypeChecker ----------------------------
(***************************************************************************)
(* stella::typecheck::TypeChecker::Check: the visitors composed, from      *)
(* VisitProgram to the verdict.  The call of UnifyAll at the end of a      *)
(* program with #type-reconstruction is in TypeReconstruction.             *)
(***************************************************************************)
EXTENDS FunctionVisitors, DataVisitors, EffectVisitors

VisitFunction ==
  \/ VisitDeclFun \/ VisitParamDecl \/ VisitExprAbstraction \/ VisitExprFix
  \/ VisitExprApplication \/ VisitExprVar \/ VisitExprLet \/ VisitExprTypeAsc
  \/ VisitExprSequence \/ VisitExprConstUnit \/ VisitExprConstTrue \/ VisitExprConstFalse
  \/ VisitExprConstInt \/ VisitExprIf \/ VisitExprIsZero \/ VisitExprSucc \/ VisitExprPred
  \/ VisitExprNatRec \/ VisitDeclFunGeneric \/ VisitExprTypeAbstraction
  \/ VisitExprTypeApplication

VisitData ==
  \/ VisitExprList \/ VisitExprConsList \/ VisitExprHead \/ VisitExprTail \/ VisitExprIsEmpty
  \/ VisitExprTuple \/ VisitExprDotTuple \/ VisitExprRecord \/ VisitExprDotRecord
  \/ VisitExprInl \/ VisitExprInr \/ VisitExprVariant \/ VisitExprMatch
  \/ VisitPatternCastAs

VisitEffect ==
  \/ VisitExprPanic \/ VisitDeclExceptionType \/ VisitDeclExceptionVariant \/ VisitExprThrow
  \/ VisitExprTryWith \/ VisitExprTryCatch \/ VisitExprTypeCast \/ VisitExprTryCastAs
  \/ VisitExprRef \/ VisitExprDeref \/ VisitExprAssign \/ VisitExprConstMemory

Exit == Done /\ UNCHANGED vars

Step == VisitProgram \/ VisitFunction \/ VisitData \/ VisitEffect \/ Unwind
Next == Step \/ Exit

(* One thread runs the checker to its end.                                 *)
Spec     == Init /\ [][Next]_vars
FairSpec == Spec /\ WF_vars(Next)

-----------------------------------------------------------------------------
(* A variable has no children, but may visit the declaration it names.     *)
Detours(n) == IF Node(n).kind = "Var" THEN 1 ELSE 0

TypeOK ==
  /\ \A i \in DOMAIN frames :
       /\ frames[i].node \in Ids
       /\ frames[i].pc \in 0..(Len(Node(frames[i].node).kids) + Detours(frames[i].node))
       /\ frames[i].was_in_body \in BOOLEAN
       /\ \A x \in Names : frames[i].guards[x] \in Seq(Ids)
  /\ DOMAIN mem.deduced = Ids /\ DOMAIN mem.expected = Ids
  /\ names \in [Names -> Seq(Ids)]
  /\ in_body \in BOOLEAN

(* The RAII guards: at every moment, also while an error unwinds the       *)
(* stack, the name context holds exactly what the active visits pushed, in *)
(* the order of the visits (NameContextGuard, Pop).                        *)
NamesMirrorFrames ==
  LET Before(i) == IF i = 1 THEN NoNames ELSE Push(frames[i - 1].base, frames[i - 1].guards) IN
  /\ \A i \in DOMAIN frames : frames[i].base = Before(i)
  /\ names = IF Done THEN NoNames ELSE Push(Top.base, Top.guards)

(* An expectation may be set before its node is visited, replaced while it *)
(* is visited, or set when the node already has a type.  In any order, the *)
(* deduced type ends up compatible with the last one (ExpectType,          *)
(* SetDeducedType).                                                        *)
ExpectationsMet ==
  mem.raised = OK =>
    \A n \in Ids : Absent \notin {mem.deduced[n], mem.expected[n].type}
                     => Incompatible(mem.deduced[n], mem.expected[n].type) = OK

(* The three fields about exceptions agree: after declarations in any      *)
(* order there is one exception type, or one open variant with exactly the *)
(* declared labels, each once (VisitDeclExceptionType,                     *)
(* VisitDeclExceptionVariant).                                             *)
ExceptionsConsistent ==
  IF exn.labels = {} THEN exn.monotype = (exn.type # None_)
  ELSE /\ ~exn.monotype /\ exn.type.tag = "Variant"
       /\ exn.labels = {exn.type.lab[i] : i \in DOMAIN exn.type.lab}
       /\ ~Repeated(exn.type.lab) /\ Len(exn.type.args) = Len(exn.type.lab)

(* A node's deduced type is final: others have read it.  Only a function   *)
(* declaration replaces the type it was given while its body was visited   *)
(* (types_storage_.set in VisitDeclFun).                                   *)
DeducedIsFinal ==
  [][\A n \in Ids : mem.deduced[n] # Absent /\ mem'.deduced[n] # mem.deduced[n]
       => Node(n).kind \in {"DeclFun", "DeclFunGeneric"} /\ This = n]_vars

(* Every program gets a verdict.                                           *)
Decided == <>Done
=============================================================================
