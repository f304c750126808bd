------------------------ MODULE ReconstructionProofs ------------------------
(***************************************************************************)
(* Proofs about the verdict of a whole program with #type-reconstruction:  *)
(* the visitors' machine hands UnifyAll a state from which the proofs of   *)
(* the unifier alone (UnifierProofs) apply step by step, and the checker   *)
(* has no way to succeed without UnifyAll.                                 *)
(***************************************************************************)
EXTENDS OwnershipProofs

(* The types that the comparator is exact on: no sentinels, no Unknown.    *)
(* Ctor has those as well.                                                 *)
CONSTANTS
  Proper,
  Sol, Sat(_, _), Value(_, _), Instance(_, _), Size(_)

Sem == INSTANCE UnifierProofs WITH Ctor <- Proper, Inputs <- {}, MaxConstraints <- 0

Exact == /\ Sem!TermsAssumption /\ Sem!ComparatorAssumption
         /\ Sem!SatAssumption /\ Sem!ValueAssumption /\ Sem!ExactAssumption

-----------------------------------------------------------------------------
LEMMA ProperConcrete ==
  ASSUME Exact, Sem!IInv
  PROVE  U!Concrete \subseteq Sem!Concrete
<1>1. ASSUME NEW t \in U!Concrete PROVE t \in Sem!Concrete
  <2>1. worklist # <<>> /\ t \in {Sem!Served.lhs, Sem!Served.rhs} /\ t \in Ctor
    BY <1>1 DEF U!Concrete, U!Served, Sem!Served
  <2>2. worklist \in Seq(Sem!Constraint)
    BY DEF Sem!IInv, Sem!TypeOK
  <2>3. Len(worklist) \in 1..Len(worklist)
    BY <2>1, <2>2
  <2>4. Sem!Served \in Sem!Constraint
    BY <2>2, <2>3 DEF Sem!Served
  <2>5. t \in TypeAuto \cup Proper
    BY <2>1, <2>4 DEF Sem!Constraint, Sem!Type
  <2>6. t \in Proper
    BY <2>1, <2>5, VariablesAssumption
  <2> QED BY <2>1, <2>6 DEF Sem!Concrete
<1> QED BY <1>1

(* The unifier of the composition and the one of the proofs only differ in *)
(* the types they may bind a variable to.                                  *)
LEMMA ProperStep ==
  ASSUME Exact, Sem!IInv, U!UnifyStep
  PROVE  Sem!UnifyStep
<1> USE DEF U!store, Sem!store, U!Served, Sem!Served, U!Serve, Sem!Serve, U!FindClass, Sem!FindClass,
            U!SetStore, Sem!SetStore, U!Occurs, Sem!Occurs
<1>1. U!MergeSame => Sem!MergeSame
  BY Zenon DEF U!MergeSame, Sem!MergeSame, U!Found2, Sem!Found2, U!Merging, Sem!Merging
<1>2. U!MergeFree => Sem!MergeFree
  BY Zenon DEF U!MergeFree, Sem!MergeFree, U!Found2, Sem!Found2, U!Merging, Sem!Merging,
               U!Absorb, Sem!Absorb
<1>3. U!MergeBound => Sem!MergeBound
  BY Zenon DEF U!MergeBound, Sem!MergeBound, U!Found2, Sem!Found2, U!Merging, Sem!Merging,
               U!Absorb, Sem!Absorb
<1>4. U!BindBound => Sem!BindBound
  BY ProperConcrete, ZenonT(120) DEF U!BindBound, Sem!BindBound, U!Binding, Sem!Binding
<1>5. U!BindFree => Sem!BindFree
  BY ProperConcrete, ZenonT(120) DEF U!BindFree, Sem!BindFree, U!Binding, Sem!Binding
<1>6. U!NextRound => Sem!NextRound
  BY Zenon DEF U!NextRound, Sem!NextRound
<1>7. U!Finish => Sem!Finish
  BY Zenon DEF U!Finish, Sem!Finish, U!Unbound, Sem!Unbound
<1> QED
  BY <1>1, <1>2, <1>3, <1>4, <1>5, <1>6, <1>7, Zenon DEF U!UnifyStep, Sem!UnifyStep

-----------------------------------------------------------------------------
(* While the visitors run the unifier keeps nothing but the constraints;   *)
(* from then on the constraints the visitors made are what it solves.      *)
Idle ==
  phase = "visit" => /\ worklist = <<>> /\ classes = <<>>
                     /\ class_of = [v \in TypeAuto |-> 0]
                     /\ input = {constraints[i] : i \in DOMAIN constraints}
ProgramVariables == UNION {AutosOf(t) : t \in ProgramTypes}
ProperInput      == input \subseteq Sem!Constraint
Solving ==
  /\ Together /\ Supplied /\ Idle
  /\ ProgramVariables \subseteq registry
  /\ phase # "visit" /\ ProperInput => Sem!IInv /\ Sem!Mentioned

(* The variables of the program and of new_types_ are variables.           *)
LEMMA RootsAreVariables ==
  ASSUME TypeLaws, Together
  PROVE  Roots(mem) \subseteq TypeAuto
<1>1. prog \in Programs /\ Ids = 1..Len(prog.node) /\ \A n \in Ids : Node(n) = prog.node[n]
  BY DEF Together, Inv, Typed, Ids, Node
<1>2. \A t \in ProgramTypes : IsType(t)
  BY <1>1, ProgramTypesAssumption DEF ProgramTypes
<1>3. \A t \in mem.new_types : IsType(t)
  BY DEF Together, Owning, Held, Slots
<1> QED BY <1>2, <1>3 DEF Roots, TypeLaws

LEMMA VisitSolves ==
  ASSUME TypeLaws, Exact, Together, Supplied, Idle, phase = "visit", ProperInput
  PROVE  Sem!IInv /\ Sem!Mentioned
<1>1. /\ registry = Roots(mem) /\ constraints = Plain(mem.constraints)
      /\ worklist = <<>> /\ classes = <<>> /\ class_of = [v \in TypeAuto |-> 0]
      /\ input = {constraints[i] : i \in DOMAIN constraints}
  BY DEF Supplied, Idle
<1>2. IsSequence(mem.constraints) /\ \A i \in DOMAIN mem.constraints : Relates(Roots(mem), mem.constraints[i])
  BY DEF Together, Owning, Held, ConstraintsFit
<1>3. /\ DOMAIN constraints = 1..Len(constraints) /\ Len(constraints) \in Nat
      /\ DOMAIN constraints = DOMAIN mem.constraints
      /\ \A i \in DOMAIN constraints : /\ constraints[i].lhs = mem.constraints[i].lhs
                                       /\ constraints[i].rhs = mem.constraints[i].rhs
  BY <1>1, <1>2, PlainSequence, SequenceFacts
<1>4. \A i \in DOMAIN constraints : constraints[i] \in Sem!Constraint
  BY <1>1 DEF ProperInput
<1>5. constraints = [i \in DOMAIN constraints |-> constraints[i]]
  BY <1>1 DEF Plain
<1>6. constraints \in Seq(Sem!Constraint)
  BY <1>3, <1>4, <1>5
<1>7. Sem!TypeOK
  <2>1. registry \subseteq TypeAuto
    BY <1>1, RootsAreVariables
  <2> QED BY <1>1, <1>6, <2>1 DEF Sem!TypeOK, ProperInput
<1>8. Sem!StoreOK(Sem!store)
  BY <1>1 DEF Sem!StoreOK, Sem!Partition, Sem!store
<1>9. ASSUME NEW x \in Sol PROVE Sem!SolvesState(x) <=> Sem!SolvesInput(x)
  <2>1. Sem!SolvesStore(x, Sem!store)
    BY <1>1 DEF Sem!SolvesStore, Sem!store
  <2>2. Sem!SolvesSeq(x, worklist)
    BY <1>1 DEF Sem!SolvesSeq
  <2>3. Sem!SolvesSeq(x, constraints) <=> Sem!SolvesInput(x)
    BY <1>1, <1>3 DEF Sem!SolvesSeq, Sem!SolvesInput
  <2> QED BY <2>1, <2>2, <2>3 DEF Sem!SolvesState
<1>10. Sem!IInv
  BY <1>1, <1>7, <1>8, <1>9, Sem!InvParts, Exact, Sem!InputsAssumption DEF Sem!Parts, Sem!TypeError, Exact
<1>11. ASSUME NEW i \in DOMAIN constraints
       PROVE  Sem!Present(constraints[i].lhs) /\ Sem!Present(constraints[i].rhs)
  <2>1. /\ AutosOf(constraints[i].lhs) \subseteq registry
        /\ AutosOf(constraints[i].rhs) \subseteq registry
    BY <1>1, <1>2, <1>3, <1>11 DEF Relates, Within
  <2>2. \A v \in TypeAuto : AutosOf(v) = {v}
    BY DEF TypeLaws, ContainsLaw
  <2> QED BY <2>1, <2>2 DEF Sem!Present, Sem!VarsOf
<1>12. Sem!Mentioned
  BY <1>1, <1>3, <1>11 DEF Sem!Mentioned, Sem!PresentIn, Sem!PresentBounds
<1> QED BY <1>10, <1>12

LEMMA SolvingNext ==
  ASSUME Exact, Sem!IInv, Sem!Mentioned, [Sem!Next]_(Sem!vars)
  PROVE  Sem!IInv' /\ Sem!Mentioned'
<1>1. /\ Sem!TermsAssumption /\ Sem!ComparatorAssumption /\ Sem!InputsAssumption
      /\ Sem!SatAssumption /\ Sem!ValueAssumption /\ Sem!ExactAssumption
  BY DEF Exact, Sem!InputsAssumption
<1> QED BY <1>1, Sem!NextKeeps, Sem!NextMentioned

LEMMA UnifyInput ==
  ASSUME U!StartUnify \/ U!UnifyStep
  PROVE  input' = input
<1>1. CASE U!StartUnify
  BY <1>1 DEF U!StartUnify
<1>2. CASE U!NextRound \/ U!Finish
  BY <1>2 DEF U!NextRound, U!Finish
<1>3. U!Serve => input' = input
  BY DEF U!Serve
<1>4. U!MergeSame \/ U!MergeFree \/ U!MergeBound => U!Serve
  BY ZenonT(60) DEF U!MergeSame, U!MergeFree, U!MergeBound, U!Merging
<1>5. U!BindBound \/ U!BindFree => U!Serve
  BY ZenonT(60) DEF U!BindBound, U!BindFree, U!Binding
<1> QED BY <1>1, <1>2, <1>3, <1>4, <1>5 DEF U!UnifyStep

LEMMA StartSolving ==
  ASSUME TypeLaws, Start
  PROVE  Solving
<1>1. Together /\ Supplied
  BY StartSupplied
<1>2. /\ registry = Registered(mem) /\ constraints = <<>> /\ worklist = <<>> /\ classes = <<>>
      /\ class_of = [v \in TypeAuto |-> 0] /\ phase = "visit" /\ input = {}
  BY DEF Start, NewUnifier
<1>3. {constraints[i] : i \in DOMAIN constraints} = {}
  BY <1>2
<1>4. Idle
  BY <1>2, <1>3 DEF Idle
<1>5. ProgramVariables \subseteq registry
  BY <1>2 DEF ProgramVariables, Registered, Lasting
<1> QED BY <1>1, <1>2, <1>4, <1>5 DEF Solving

LEMMA ProceedSolving ==
  ASSUME TypeLaws, Exact, Solving, [Proceed \/ Stopped]_all
  PROVE  Solving'
<1>1. Together' /\ Supplied'
  BY ProceedSupplied DEF Solving
<1>2. ASSUME Traverse PROVE Solving'
  <2>1. phase' = "visit" /\ UNCHANGED <<worklist, classes, class_of>>
        /\ input' = {constraints'[i] : i \in DOMAIN constraints'} /\ phase = "visit"
    BY <1>2 DEF Traverse
  <2>2. Idle'
    BY <2>1 DEF Idle, Solving
  <2>3. registry' = Roots(mem)'
    BY <1>1, <2>1 DEF Supplied
  <2>4. (ProgramVariables \subseteq registry)'
    BY <2>3 DEF ProgramVariables, Roots
  <2> QED BY <1>1, <2>1, <2>2, <2>4 DEF Solving
<1>3. ProgramVariables' = ProgramVariables
  <2>1. [Next]_vars \/ \E code : Throw(code)
    BY DEF Proceed, Stopped, Traverse, CallUnifyAll, Unify, ReturnFromUnifyAll, ThrowFromUnifyAll,
           Leaving, Next, Step, all
  <2>2. prog' = prog
    BY <2>1, StepKeeps DEF Solving, Together, Keeps, Throw
  <2> QED BY <2>2 DEF ProgramVariables, ProgramTypes, Ids, Node
<1>4. ASSUME phase' # "visit", registry' = registry, input' = input, ~Traverse,
             ProperInput => Sem!IInv' /\ Sem!Mentioned'
      PROVE  Solving'
  BY <1>1, <1>3, <1>4 DEF Solving, Idle, ProperInput
<1>5. ProperInput => Sem!IInv /\ Sem!Mentioned
  BY VisitSolves DEF Solving
<1>6. ASSUME CallUnifyAll \/ Unify PROVE Solving'
  <2>1. phase' # "visit" /\ registry' = registry
    BY <1>6, UnifyPhases DEF CallUnifyAll, Unify
  <2>2. input' = input
    BY <1>6, UnifyInput DEF CallUnifyAll, Unify
  <2>3. ASSUME ProperInput PROVE Sem!IInv' /\ Sem!Mentioned'
    <3>1. CASE CallUnifyAll
      <4>1. Sem!StartUnify
        BY <3>1 DEF CallUnifyAll, U!StartUnify, Sem!StartUnify, U!store, Sem!store
      <4> QED BY <1>5, <2>3, <4>1, SolvingNext DEF Sem!Next
    <3>2. CASE Unify
      <4>1. Sem!UnifyStep
        BY <1>5, <2>3, <3>2, ProperStep DEF Unify
      <4> QED BY <1>5, <2>3, <4>1, SolvingNext DEF Sem!Next
    <3> QED BY <1>6, <3>1, <3>2
  <2>4. ~Traverse
    BY <2>1 DEF Traverse
  <2> QED BY <1>4, <2>1, <2>2, <2>3, <2>4
<1>7. ASSUME UNCHANGED unifier, ~Traverse PROVE Solving'
  <2>1. UNCHANGED <<registry, constraints, worklist, classes, class_of, phase, input>>
    BY <1>7 DEF unifier
  <2>2. Idle'
    BY <2>1 DEF Solving, Idle
  <2>3. ProperInput' /\ phase' # "visit" => Sem!IInv /\ Sem!Mentioned
    BY <2>1 DEF Solving, ProperInput
  <2>4. Sem!IInv /\ Sem!Mentioned => Sem!IInv' /\ Sem!Mentioned'
    BY <2>1, SolvingNext DEF Sem!vars
  <2> QED BY <1>1, <1>3, <1>7, <2>1, <2>2, <2>3, <2>4 DEF Solving
<1>8. ReturnFromUnifyAll \/ ThrowFromUnifyAll \/ Leaving \/ Stopped \/ UNCHANGED all
      => UNCHANGED unifier
  BY DEF ReturnFromUnifyAll, ThrowFromUnifyAll, Leaving, Stopped, all
<1> QED BY <1>2, <1>6, <1>7, <1>8 DEF Proceed

-----------------------------------------------------------------------------
(* The outermost visit is the program's, and it ends in VisitProgram.      *)
Rooted ==
  /\ ~Done => frames[1].node = 1
  /\ AcceptedUnified

LEMMA UnifyingPhase ==
  ASSUME U!UnifyStep
  PROVE  phase = "unify"
<1>1. U!NextRound \/ U!Finish => phase = "unify"
  BY DEF U!NextRound, U!Finish
<1>2. U!Serve => phase = "unify"
  BY DEF U!Serve
<1>3. U!MergeSame \/ U!MergeFree \/ U!MergeBound \/ U!BindBound \/ U!BindFree => U!Serve
  BY ZenonT(60) DEF U!MergeSame, U!MergeFree, U!MergeBound, U!Merging, U!BindBound, U!BindFree, U!Binding
<1> QED BY <1>1, <1>2, <1>3 DEF U!UnifyStep

LEMMA ProgramVisits ==
  ASSUME VisitProgram \/ VisitFunction \/ VisitData \/ VisitEffect, Node(This).kind = "Program"
  PROVE  VisitProgram
<1>1. \A kind, pc : At(kind, pc) => kind = "Program"
  BY DEF At
<1>2. ~VisitFunction
  BY <1>1 DEF VisitFunction, VisitDeclFun, VisitParamDecl,
              VisitExprAbstraction, VisitExprFix, VisitExprVar, VisitExprApplication,
              VisitExprLet, VisitExprTypeAsc, VisitExprSequence,
              VisitExprConstUnit, VisitExprConstTrue, VisitExprConstFalse,
              VisitExprConstInt, VisitExprIf, VisitExprIsZero, VisitExprSucc,
              VisitExprPred, VisitExprNatRec, VisitDeclFunGeneric,
              VisitExprTypeAbstraction, VisitExprTypeApplication,
              DeclareFunction, VisitOperator, Constant
<1>3. ~VisitData
  BY <1>1 DEF VisitData, VisitExprList, VisitExprConsList, VisitExprHead,
              VisitExprTail, VisitExprIsEmpty, VisitExprTuple,
              VisitExprDotTuple, VisitExprRecord, VisitExprDotRecord,
              VisitExprInl, VisitExprInr, VisitExprVariant, VisitExprMatch,
              VisitPatternCastAs, OnList, Inject
<1>4. ~VisitEffect
  BY <1>1 DEF VisitEffect, VisitExprPanic, VisitDeclExceptionType,
              VisitDeclExceptionVariant, VisitExprThrow, VisitExprTryWith,
              VisitExprTryCatch, VisitExprTypeCast, VisitExprTryCastAs,
              VisitExprRef, VisitExprDeref, VisitExprAssign,
              VisitExprConstMemory
<1> QED BY <1>2, <1>3, <1>4

(* A call leaves the outermost visit where it is.                          *)
LEMMA RootCalls ==
  ASSUME Inv, ~Done, NEW m, NEW f, NEW k, Call(m, f, k), [f EXCEPT !.pc = @ + 1].node = This
  PROVE  ~Done' /\ frames'[1].node = frames[1].node
<1> DEFINE n  == Len(frames)
           ns == Push(Release(names, Top.guards), f.guards)
           g  == [f EXCEPT !.pc = @ + 1]
           kept  == [frames EXCEPT ![n] = g]
           added == IF m.deduced[k] = Absent THEN <<Frame(k, ns)>> ELSE <<>>
<1>1. CASE UNCHANGED <<frames, names>>
  BY <1>1 DEF Done
<1>2. CASE frames' = kept \o added
  <2>1. n \in Nat \ {0} /\ DOMAIN frames = 1..n
    BY TopFrame DEF Inv
  <2>2. g.node = This
    OBVIOUS
  <2> HIDE DEF g
  <2>3. IsSequence(kept) /\ Len(kept) = n /\ kept[n] = g
        /\ \A i \in 1..(n - 1) : kept[i] = frames[i]
    <3>1. IsSequence(frames) /\ Len(frames) # 0
      BY <2>1 DEF Inv, Mirror
    <3> QED BY <3>1, Updated
  <2>4. kept[1].node = frames[1].node
    <3>1. CASE n = 1
      BY <2>2, <2>3, <3>1 DEF This, Top
    <3>2. CASE n # 1
      <4>1. 1 \in 1..(n - 1)
        BY <2>1, <3>2
      <4> QED BY <2>3, <4>1
    <3> QED BY <3>1, <3>2
  <2>5. n = Len(kept) /\ Len(kept) # 0 /\ DOMAIN kept = 1..n
    BY <2>1, <2>3, SequenceFacts
  <2> HIDE DEF ns, kept, n
  <2>6. CASE added = <<>>
    <3>1. frames' = kept
      BY <1>2, <2>3, <2>6, ConcatEmpty, SequenceFacts
    <3> QED BY <2>4, <2>5, <3>1 DEF Done
  <2>7. CASE added = <<Frame(k, ns)>>
    <3> HIDE DEF added
    <3>1. /\ IsSequence(frames') /\ Len(frames') = n + 1
          /\ \A i \in 1..n : frames'[i] = kept[i]
      BY <1>2, <2>3, <2>7, Extended
    <3>2. frames'[1] = kept[1] /\ frames' # <<>>
      BY <2>1, <3>1
    <3> QED BY <2>4, <3>2 DEF Done
  <2> QED BY <2>6, <2>7
<1> QED BY <1>1, <1>2 DEF Call

(* Leaving a visit that is not the outermost does not touch the latter.    *)
LEMMA RootLeaves ==
  ASSUME Inv, ~Done, Leave
  PROVE  IF Len(frames) = 1 THEN Done' /\ This = frames[1].node
         ELSE ~Done' /\ frames'[1] = frames[1]
<1> DEFINE n == Len(frames)
<1>1. n \in Nat \ {0} /\ DOMAIN frames = 1..n
  BY TopFrame DEF Inv
<1>2. PICK S : frames \in Seq(S)
  BY DEF Inv, Mirror, IsSequence
<1>3. Len(frames') = n - 1 /\ \A i \in 1..(n - 1) : frames'[i] = frames[i]
  BY <1>1, <1>2 DEF Leave
<1>4. CASE n = 1
  <2>1. frames' = <<>>
    BY <1>2, <1>4 DEF Leave
  <2> QED BY <1>4, <2>1 DEF Done, This, Top
<1>5. CASE n # 1
  <2>1. 1 \in 1..(n - 1) /\ frames' # <<>>
    BY <1>1, <1>3, <1>5
  <2> QED BY <1>3, <1>5, <2>1 DEF Done
<1> QED BY <1>4, <1>5

(* Without an error, only the end of VisitProgram leaves the outermost     *)
(* visit.                                                                  *)
LEMMA RootEnds ==
  ASSUME Inv, VisitProgram, Done', Reconstructing
  PROVE  AtUnifyAll
<1>1. ~Done
  BY VisitsHaveFrames
<1>2. IsFrame(Top)
  BY <1>1, TopFrame DEF Inv
<1>3. /\ [Top EXCEPT !.pc = @ + 1].node = This
      /\ \A g : LET f == [Top EXCEPT !.guards = g] IN [f EXCEPT !.pc = @ + 1].node = This
  BY <1>2 DEF IsFrame, This
<1>4. ASSUME NEW code, Throw(code) PROVE FALSE
  BY <1>1, <1>4 DEF Throw, Done
<1>5. ASSUME NEW k, Visit(mem, k) PROVE FALSE
  BY <1>1, <1>3, <1>5, RootCalls DEF Visit, VisitWith
<1>6. ASSUME NEW g, NEW k, VisitWith(mem, [Top EXCEPT !.guards = g], k) PROVE FALSE
  <2> DEFINE f == [Top EXCEPT !.guards = g]
  <2>1. [f EXCEPT !.pc = @ + 1].node = This
    BY <1>3
  <2>2. Call(mem, f, k)
    BY <1>6 DEF VisitWith
  <2> HIDE DEF f
  <2> QED BY <1>1, <2>1, <2>2, RootCalls
<1>7. At("Program", Len(Kids)) /\ Mains # {}
  BY <1>4, <1>5, <1>6, ZenonT(30) DEF VisitProgram
<1> QED BY <1>7 DEF AtUnifyAll

LEMMA VisitRooted ==
  ASSUME Together, Rooted, VisitProgram \/ VisitFunction \/ VisitData \/ VisitEffect,
         phase' = phase, Reconstructing /\ AtUnifyAll => phase = "Well-typed"
  PROVE  Rooted'
<1>1. Inv /\ prog \in Programs
  BY DEF Together, Inv, Typed
<1>2. ~Done /\ Advances
  BY <1>1, VisitAdvances
<1>3. Reconstructing' = Reconstructing
  BY <1>2 DEF Advances, Reconstructing, Has
<1>4. ASSUME ~Done', frames'[1].node = frames[1].node PROVE Rooted'
  BY <1>2, <1>4 DEF Rooted, AcceptedUnified, Accepted
<1>5. ASSUME NEW m, NEW f, NEW k, Call(m, f, k), Calls(f, k) PROVE Rooted'
  <2>1. f.node = This /\ IsFrame(f)
    BY <1>5 DEF Calls, TypedFrame
  <2>2. [f EXCEPT !.pc = @ + 1].node = This
    BY <2>1 DEF IsFrame
  <2> QED BY <1>1, <1>2, <1>4, <1>5, <2>2, RootCalls
<1>6. CASE UNCHANGED frames
  BY <1>2, <1>4, <1>6 DEF Done
<1>7. CASE Leave /\ Len(frames) = 1
  <2>1. Done' /\ This = 1
    BY <1>1, <1>2, <1>7, RootLeaves DEF Rooted
  <2>2. Node(1).kind = "Program"
    BY <1>1, GrammarAssumption DEF WellBuilt, Node
  <2>3. VisitProgram
    BY <2>1, <2>2, ProgramVisits
  <2>4. Reconstructing => phase = "Well-typed"
    BY <1>1, <2>1, <2>3, RootEnds
  <2> QED BY <1>3, <2>1, <2>4 DEF Rooted, AcceptedUnified
<1>8. CASE Leave /\ Len(frames) # 1
  BY <1>1, <1>2, <1>4, <1>8, RootLeaves
<1> QED BY <1>2, <1>5, <1>6, <1>7, <1>8 DEF Advances, Finish

LEMMA StartRooted ==
  ASSUME Start
  PROVE  Rooted
<1>1. frames = <<Frame(1, NoNames)>>
  BY DEF Start, Init, Begin
<1>2. Frame(1, NoNames).node = 1
  BY DEF Frame
<1>3. ~Done /\ frames[1].node = 1
  BY <1>1, <1>2 DEF Done
<1> QED BY <1>3 DEF Rooted, AcceptedUnified, Accepted

LEMMA ProceedRooted ==
  ASSUME Together, Rooted, [Proceed \/ Stopped]_all
  PROVE  Rooted'
<1>1. Inv
  BY DEF Together
<1>2. CASE Unwind /\ phase' = phase
  <2>1. mem'.raised # OK /\ ~Done /\ Leave
    BY <1>2 DEF Unwind
  <2>2. ~Accepted'
    BY <2>1 DEF Accepted
  <2>3. ~Done' => frames'[1].node = 1
    BY <1>1, <2>1, RootLeaves DEF Rooted
  <2> QED BY <2>2, <2>3 DEF Rooted, AcceptedUnified
<1>3. ASSUME NEW code, Throw(code), ~Done PROVE Rooted'
  BY <1>3 DEF Throw, Rooted, AcceptedUnified, Accepted, Done
<1>4. ASSUME UNCHANGED vars, Reconstructing /\ Accepted => phase' = "Well-typed" PROVE Rooted'
  <2>1. UNCHANGED <<prog, frames, mem>>
    BY <1>4 DEF vars
  <2>2. Reconstructing' = Reconstructing /\ Accepted' = Accepted
    BY <2>1 DEF Reconstructing, Has, Accepted, Done
  <2> QED BY <1>4, <2>1, <2>2 DEF Rooted, AcceptedUnified, Done
<1>5. CASE Traverse
  BY <1>2, <1>5, VisitRooted DEF Traverse, Step
<1>6. CASE ReturnFromUnifyAll
  BY <1>6, VisitRooted DEF ReturnFromUnifyAll, unifier
<1>7. CASE ThrowFromUnifyAll
  BY <1>3, <1>7 DEF ThrowFromUnifyAll, AtUnifyAll, At
<1>8. CASE Leaving
  BY <1>2, <1>8 DEF Leaving, unifier
<1>9. CASE CallUnifyAll
  BY <1>4, <1>9 DEF CallUnifyAll, AtUnifyAll, At, Accepted
<1>10. CASE Unify
  <2>1. phase = "unify"
    BY <1>10, UnifyingPhase DEF Unify
  <2> QED BY <1>4, <1>10, <2>1 DEF Unify, Rooted, AcceptedUnified
<1>11. CASE Stopped \/ UNCHANGED all
  BY <1>4, <1>11 DEF Stopped, all, unifier, Rooted, AcceptedUnified
<1> QED BY <1>5, <1>6, <1>7, <1>8, <1>9, <1>10, <1>11 DEF Proceed

-----------------------------------------------------------------------------
(* No path around UnifyAll: with #type-reconstruction the checker only     *)
(* succeeds when UnifyAll has returned without an error, whatever program  *)
(* it visits (VisitProgram).                                               *)
THEOREM AcceptedIsUnified ==
  ASSUME TypeLaws
  PROVE  Reconstruct => []AcceptedUnified
<1>1. Start => Together /\ Supplied /\ Rooted
  BY StartSupplied, StartRooted
<1>2. Together /\ Supplied /\ Rooted /\ [Proceed \/ Stopped]_all => (Together /\ Supplied /\ Rooted)'
  BY ProceedSupplied, ProceedRooted
<1>3. Rooted => AcceptedUnified
  BY DEF Rooted
<1> QED BY <1>1, <1>2, <1>3, PTL DEF Reconstruct

(* The verdict in terms of the program.  When the constraints are between  *)
(* proper types and the comparator is exact on those, UnifyAll never loses *)
(* or invents a solution of the constraints that the visitors made, an     *)
(* error of its comparison or occurs check means that they have none, and  *)
(* after acceptance they leave one type for every `auto` of the program    *)
(* and every variable the visitors saved.                                  *)
VerdictSound ==
  ProperInput =>
    /\ Sem!SolutionsPreserved
    /\ phase \in Sem!TypeError => Sem!InputSolutions = {}
    /\ Reconstructing /\ Accepted =>
         \A x, y \in Sem!InputSolutions : \A v \in ProgramVariables \cup registry :
           Value(x, v) = Value(y, v)

LEMMA SolvingSound ==
  ASSUME TypeLaws, Exact, Solving, Rooted
  PROVE  VerdictSound
<1> SUFFICES ASSUME ProperInput
             PROVE  /\ Sem!SolutionsPreserved
                    /\ phase \in Sem!TypeError => Sem!InputSolutions = {}
                    /\ Reconstructing /\ Accepted =>
                         \A x, y \in Sem!InputSolutions : \A v \in ProgramVariables \cup registry :
                           Value(x, v) = Value(y, v)
  BY DEF VerdictSound
<1>1. Sem!IInv /\ Sem!Mentioned
  BY VisitSolves DEF Solving
<1>2. Sem!SolutionsPreserved /\ (phase \in Sem!TypeError => Sem!InputSolutions = {})
  BY <1>1 DEF Sem!IInv, Sem!ErrorsJustified
<1>3. Sem!AcceptedDetermined
  <2>1. /\ Sem!TermsAssumption /\ Sem!ComparatorAssumption /\ Sem!InputsAssumption
        /\ Sem!SatAssumption /\ Sem!ValueAssumption /\ Sem!ExactAssumption
    BY DEF Exact, Sem!InputsAssumption
  <2> QED BY <1>1, <2>1, Sem!Determined
<1>4. ASSUME Reconstructing, Accepted, NEW x \in Sem!InputSolutions, NEW y \in Sem!InputSolutions,
             NEW v \in ProgramVariables \cup registry
      PROVE  Value(x, v) = Value(y, v)
  <2>1. phase = "Well-typed"
    BY <1>4 DEF Rooted, AcceptedUnified
  <2>2. v \in registry
    BY <1>4 DEF Solving
  <2> QED BY <1>3, <1>4, <2>1, <2>2 DEF Sem!AcceptedDetermined
<1> QED BY <1>2, <1>4

(* VerdictSound, for every program and every family of types that obeys    *)
(* the laws (VisitProgram, UnifyAll, ReportUnificationError).              *)
THEOREM ReconstructionIsSound ==
  ASSUME TypeLaws, Exact
  PROVE  Reconstruct => []VerdictSound
<1>1. Start => Solving /\ Rooted
  BY StartSolving, StartRooted
<1>2. Solving /\ Rooted /\ [Proceed \/ Stopped]_all => (Solving /\ Rooted)'
  BY ProceedSolving, ProceedRooted DEF Solving
<1>3. Solving /\ Rooted => VerdictSound
  BY SolvingSound
<1> QED BY <1>1, <1>2, <1>3, PTL DEF Reconstruct
=============================================================================
