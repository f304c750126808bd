--------------------------- MODULE CheckerProofs ---------------------------
(***************************************************************************)
(* Proofs about the checker, for any programs, names and relations on      *)
(* types: the name contexts mirror the call stack.                         *)
(***************************************************************************)
EXTENDS TypeChecker, TLAPS

(* A sequence, whatever its elements are: the proof needs no type for the  *)
(* nodes of a program.                                                     *)
IsSequence(s) == \E S : s \in Seq(S)

Stacks(g) == g = [x \in Names |-> g[x]] /\ \A x \in Names : IsSequence(g[x])

IsFrame(f) ==
  /\ f = [node |-> f.node, pc |-> f.pc, guards |-> f.guards, tvs |-> f.tvs,
          result |-> f.result, was_in_body |-> f.was_in_body, base |-> f.base]
  /\ Stacks(f.guards) /\ Stacks(f.base)

(* The name context below a frame, and the one it has made.                *)
Own(f)    == Push(f.base, f.guards)
Before(i) == IF i = 1 THEN NoNames ELSE Own(frames[i - 1])

(* The inductive invariant: NamesMirrorFrames, and that frames and         *)
(* contexts are stacks at all.                                             *)
Mirror ==
  /\ IsSequence(frames)
  /\ \A i \in DOMAIN frames : IsFrame(frames[i]) /\ frames[i].base = Before(i)
  /\ names = IF Done THEN NoNames ELSE Own(Top)

-----------------------------------------------------------------------------
(* Sequences.                                                              *)
LEMMA SequenceFacts ==
  ASSUME NEW s, IsSequence(s)
  PROVE  /\ Len(s) \in Nat /\ DOMAIN s = 1..Len(s)
         /\ s = [i \in 1..Len(s) |-> s[i]]
BY DEF IsSequence

LEMMA CommonElements ==
  ASSUME NEW s, NEW t, IsSequence(s), IsSequence(t)
  PROVE  \E S : s \in Seq(S) /\ t \in Seq(S)
<1>1. PICK S : s \in Seq(S)
  BY DEF IsSequence
<1>2. PICK T : t \in Seq(T)
  BY DEF IsSequence
<1> DEFINE U == S \cup T
<1>3. S \subseteq U /\ T \subseteq U
  OBVIOUS
<1> HIDE DEF U
<1>4. s \in Seq(U) /\ t \in Seq(U)
  BY <1>1, <1>2, <1>3
<1> QED BY <1>4

LEMMA ConcatSequence ==
  ASSUME NEW s, NEW t, IsSequence(s), IsSequence(t)
  PROVE  IsSequence(s \o t)
<1>1. PICK S : s \in Seq(S) /\ t \in Seq(S)
  BY CommonElements
<1>2. s \o t \in Seq(S)
  BY <1>1
<1> QED BY <1>2 DEF IsSequence

LEMMA ShortSequences ==
  /\ IsSequence(<<>>)
  /\ \A x : IsSequence(<<x>>)
<1>1. ASSUME NEW x PROVE IsSequence(<<x>>)
  <2>1. <<x>> \in Seq({x})
    OBVIOUS
  <2> QED BY <2>1 DEF IsSequence
<1> QED BY <1>1 DEF IsSequence

LEMMA Extended ==
  ASSUME NEW s, IsSequence(s), NEW x
  PROVE  LET t == s \o <<x>> IN
         /\ IsSequence(t) /\ Len(t) = Len(s) + 1 /\ t[Len(s) + 1] = x
         /\ \A i \in 1..Len(s) : t[i] = s[i]
<1>1. PICK S : s \in Seq(S)
  BY DEF IsSequence
<1> DEFINE t == s \o <<x>>
           U == S \cup {x}
<1>2. s \in Seq(U) /\ <<x>> \in Seq(U)
  BY <1>1
<1>3. t \in Seq(U) /\ Len(t) = Len(s) + 1
  BY <1>2
<1>4. t[Len(s) + 1] = x
  BY <1>2
<1>5. \A i \in 1..Len(s) : t[i] = s[i]
  BY <1>2
<1> QED BY <1>3, <1>4, <1>5 DEF IsSequence

LEMMA Updated ==
  ASSUME NEW s, IsSequence(s), NEW x, Len(s) # 0
  PROVE  LET t == [s EXCEPT ![Len(s)] = x] IN
         /\ IsSequence(t) /\ Len(t) = Len(s) /\ t[Len(s)] = x
         /\ \A i \in 1..(Len(s) - 1) : t[i] = s[i]
<1>1. PICK S : s \in Seq(S)
  BY DEF IsSequence
<1> DEFINE t == [s EXCEPT ![Len(s)] = x]
           U == S \cup {x}
<1>2. s \in Seq(U) /\ Len(s) \in Nat \ {0}
  BY <1>1
<1>3. t \in Seq(U) /\ Len(t) = Len(s)
  BY <1>2
<1>4. t[Len(s)] = x
  BY <1>2
<1>5. \A i \in 1..(Len(s) - 1) : t[i] = s[i]
  BY <1>2
<1> QED BY <1>3, <1>4, <1>5 DEF IsSequence

(* Popping what was pushed restores the context.                           *)
LEMMA PopConcat ==
  ASSUME NEW s, NEW t, IsSequence(s), IsSequence(t)
  PROVE  SubSeq(s \o t, 1, Len(s \o t) - Len(t)) = s
<1>1. PICK S : s \in Seq(S) /\ t \in Seq(S)
  BY CommonElements
<1>2. s \o t \in Seq(S) /\ Len(s \o t) = Len(s) + Len(t) /\ Len(s) \in Nat /\ Len(t) \in Nat
  BY <1>1
<1>3. Len(s \o t) - Len(t) = Len(s)
  BY <1>2
<1>4. SubSeq(s \o t, 1, Len(s)) = s
  BY <1>1, <1>2
<1> QED BY <1>3, <1>4

LEMMA ConcatEmpty ==
  ASSUME NEW s, IsSequence(s)
  PROVE  s \o <<>> = s
BY DEF IsSequence

LEMMA ReleasePush ==
  ASSUME NEW b, NEW g, Stacks(b), Stacks(g)
  PROVE  Release(Push(b, g), g) = b
<1>1. \A x \in Names : SubSeq(b[x] \o g[x], 1, Len(b[x] \o g[x]) - Len(g[x])) = b[x]
  BY PopConcat DEF Stacks
<1>2. \A x \in Names : Push(b, g)[x] = b[x] \o g[x]
  BY DEF Push
<1>3. Release(Push(b, g), g) = [x \in Names |-> b[x]]
  BY <1>1, <1>2 DEF Release
<1> QED BY <1>3 DEF Stacks

LEMMA PushStacks ==
  ASSUME NEW b, NEW g, Stacks(b), Stacks(g)
  PROVE  Stacks(Push(b, g))
<1>1. \A x \in Names : IsSequence(b[x] \o g[x])
  BY ConcatSequence DEF Stacks
<1> QED BY <1>1 DEF Stacks, Push

LEMMA NoGuardsStacks ==
  /\ Stacks(NoGuards) /\ Stacks(NoNames) /\ NoGuards = NoNames
  /\ \A b : Stacks(b) => Push(b, NoGuards) = b
<1>1. IsSequence(<<>>)
  BY ShortSequences
<1>2. Stacks(NoGuards) /\ Stacks(NoNames) /\ NoGuards = NoNames
  BY <1>1 DEF Stacks, NoGuards, NoNames
<1>3. ASSUME NEW b, Stacks(b) PROVE Push(b, NoGuards) = b
  <2>1. \A x \in Names : b[x] \o <<>> = b[x]
    BY <1>3, ConcatEmpty DEF Stacks
  <2>2. \A x \in Names : NoGuards[x] = <<>>
    BY DEF NoGuards
  <2>3. Push(b, NoGuards) = [x \in Names |-> b[x]]
    BY <2>1, <2>2 DEF Push
  <2> QED BY <1>3, <2>3 DEF Stacks
<1> QED BY <1>2, <1>3

LEMMA GuardStacks ==
  /\ \A x, n : Stacks(Guard(x, n))
  /\ Stacks(Hoisted)
BY ShortSequences DEF Stacks, Guard, NoGuards, Hoisted

-----------------------------------------------------------------------------
(* What any visitor does to the call stack and the name context: it calls  *)
(* with a frame that still has its base, it finishes, or it does neither.  *)
Serves ==
  \/ \E m, f, k : Call(m, f, k) /\ IsFrame(f) /\ f.base = Top.base
  \/ \E m : Finish(m)
  \/ UNCHANGED <<frames, names>>

(* The frames visitors call with.                                          *)
LEMMA Frames ==
  ASSUME NEW f, IsFrame(f)
  PROVE  /\ \A ts : LET h == [f EXCEPT !.tvs = ts] IN IsFrame(h) /\ h.base = f.base
         /\ \A r : LET h == [f EXCEPT !.result = r] IN IsFrame(h) /\ h.base = f.base
         /\ \A g : Stacks(g) => LET h == [f EXCEPT !.guards = g] IN IsFrame(h) /\ h.base = f.base
         /\ \A g, pc : Stacks(g) => LET h == [f EXCEPT !.guards = g, !.pc = pc]
                                    IN  IsFrame(h) /\ h.base = f.base
<1>1. ASSUME NEW ts
      PROVE  LET h == [f EXCEPT !.tvs = ts] IN IsFrame(h) /\ h.base = f.base
  BY DEF IsFrame
<1>2. ASSUME NEW r
      PROVE  LET h == [f EXCEPT !.result = r] IN IsFrame(h) /\ h.base = f.base
  BY DEF IsFrame
<1>3. ASSUME NEW g, Stacks(g)
      PROVE  LET h == [f EXCEPT !.guards = g] IN IsFrame(h) /\ h.base = f.base
  BY <1>3 DEF IsFrame
<1>4. ASSUME NEW g, NEW pc, Stacks(g)
      PROVE  LET h == [f EXCEPT !.guards = g, !.pc = pc] IN IsFrame(h) /\ h.base = f.base
  <2> DEFINE h == [f EXCEPT !.guards = g]
  <2>1. IsFrame(h) /\ h.base = f.base
    BY <1>4, <1>3
  <2>2. [f EXCEPT !.guards = g, !.pc = pc] = [h EXCEPT !.pc = pc]
    BY DEF IsFrame
  <2> HIDE DEF h
  <2>3. IsFrame([h EXCEPT !.pc = pc]) /\ [h EXCEPT !.pc = pc].base = h.base
    BY <2>1 DEF IsFrame
  <2> QED BY <2>1, <2>2, <2>3
<1> QED BY <1>1, <1>2, <1>3, <1>4

LEMMA Served ==
  ASSUME IsFrame(Top)
  PROVE  /\ \A m, k : Visit(m, k) => Serves
         /\ \A m, f, k : VisitWith(m, f, k) /\ IsFrame(f) /\ f.base = Top.base => Serves
         /\ \A t : Return(t) => Serves
         /\ \A m, t : ReturnFrom(m, t) => Serves
         /\ \A m, t, code : AmbiguousFrom(m, t, code) => Serves
         /\ \A code : Throw(code) => Serves
         /\ \A kind, t : Constant(kind, t) => Serves
<1>1. \A m, k : Visit(m, k) => Serves
  BY DEF Serves, Visit, VisitWith
<1>2. \A m, f, k : VisitWith(m, f, k) /\ IsFrame(f) /\ f.base = Top.base => Serves
  BY DEF Serves, VisitWith
<1>3. \A m, t : ReturnFrom(m, t) => Serves
  BY DEF Serves, ReturnFrom
<1>4. \A t : Return(t) => Serves
  BY <1>3 DEF Return
<1>5. \A m, t, code : AmbiguousFrom(m, t, code) => Serves
  BY <1>3 DEF AmbiguousFrom
<1>6. \A code : Throw(code) => Serves
  BY DEF Serves, Throw
<1>7. \A kind, t : Constant(kind, t) => Serves
  BY <1>4 DEF Constant
<1> QED BY <1>1, <1>2, <1>3, <1>4, <1>5, <1>6, <1>7

LEMMA DeclareFunctionServes ==
  ASSUME IsFrame(Top), NEW kind, NEW params, DeclareFunction(kind, params)
  PROVE  Serves
<1>1. CASE \E m : VisitWith(m, [Top EXCEPT !.tvs = params], Param)
  BY <1>1, Served, Frames
<1>2. CASE \E m, f, k : Call(m, f, k) /\ IsFrame(f) /\ f.base = Top.base
  BY <1>2 DEF Serves
<1>3. CASE \E m : Finish(m)
  BY <1>3 DEF Serves
<1>4. Stacks(Guard(NameOf(Param), Param))
  BY GuardStacks
<1>5. LET f == [Top EXCEPT !.guards = Guard(NameOf(Param), Param), !.was_in_body = in_body]
      IN  IsFrame(f) /\ f.base = Top.base
  <2> DEFINE f == [Top EXCEPT !.guards = Guard(NameOf(Param), Param)]
  <2>1. IsFrame(f) /\ f.base = Top.base
    BY <1>4, Frames
  <2>2. [Top EXCEPT !.guards = Guard(NameOf(Param), Param), !.was_in_body = in_body]
        = [f EXCEPT !.was_in_body = in_body]
    OBVIOUS
  <2> HIDE DEF f
  <2>3. /\ IsFrame([f EXCEPT !.was_in_body = in_body])
        /\ [f EXCEPT !.was_in_body = in_body].base = f.base
    BY <2>1 DEF IsFrame
  <2> QED BY <2>1, <2>2, <2>3
<1> QED BY <1>1, <1>2, <1>3, <1>5 DEF DeclareFunction

LEMMA FunctionServes ==
  ASSUME IsFrame(Top), VisitFunction
  PROVE  Serves
<1> USE Served
<1>1. CASE VisitDeclFun
  BY <1>1, DeclareFunctionServes DEF VisitDeclFun
<1>2. CASE VisitParamDecl
  BY <1>2 DEF VisitParamDecl
<1>3. CASE VisitExprAbstraction
  BY <1>3, Frames, GuardStacks DEF VisitExprAbstraction
<1>4. CASE VisitExprFix
  BY <1>4 DEF VisitExprFix
<1>5. CASE VisitExprApplication
  BY <1>5, Frames DEF VisitExprApplication
<1>6. CASE VisitExprVar
  BY <1>6 DEF VisitExprVar
<1>7. CASE VisitExprLet
  BY <1>7, Frames, GuardStacks DEF VisitExprLet
<1>8. CASE VisitExprTypeAsc
  BY <1>8 DEF VisitExprTypeAsc
<1>9. CASE VisitExprSequence
  BY <1>9 DEF VisitExprSequence
<1>10. CASE VisitExprConstUnit
  BY <1>10 DEF VisitExprConstUnit
<1>11. CASE VisitExprConstTrue
  BY <1>11 DEF VisitExprConstTrue
<1>12. CASE VisitExprConstFalse
  BY <1>12 DEF VisitExprConstFalse
<1>13. CASE VisitExprConstInt
  BY <1>13 DEF VisitExprConstInt
<1>14. CASE VisitExprIf
  BY <1>14 DEF VisitExprIf
<1>15. CASE VisitExprIsZero
  BY <1>15 DEF VisitExprIsZero, VisitOperator
<1>16. CASE VisitExprSucc
  BY <1>16 DEF VisitExprSucc, VisitOperator
<1>17. CASE VisitExprPred
  BY <1>17 DEF VisitExprPred, VisitOperator
<1>18. CASE VisitExprNatRec
  BY <1>18 DEF VisitExprNatRec
<1>19. CASE VisitDeclFunGeneric
  BY <1>19, DeclareFunctionServes DEF VisitDeclFunGeneric
<1>20. CASE VisitExprTypeAbstraction
  BY <1>20, Frames DEF VisitExprTypeAbstraction
<1>21. CASE VisitExprTypeApplication
  BY <1>21 DEF VisitExprTypeApplication
<1> QED BY <1>1, <1>2, <1>3, <1>4, <1>5, <1>6, <1>7, <1>8, <1>9, <1>10, <1>11, <1>12,
            <1>13, <1>14, <1>15, <1>16, <1>17, <1>18, <1>19, <1>20, <1>21 DEF VisitFunction

LEMMA MatchArmServes ==
  ASSUME IsFrame(Top), NEW k, NEW b, VisitMatchArm(k, b)
  PROVE  Serves
<1> DEFINE bound == b.var # 0 /\ b.type # None_
           g == IF bound THEN Guard(NameOf(b.var), b.var) ELSE NoGuards
           r == IF k = 1 THEN None_ ELSE FirstType(Deduced(ArmExpr(k - 1)))
           f == [Top EXCEPT !.guards = g, !.result = r]
<1>1. Stacks(g)
  BY GuardStacks, NoGuardsStacks
<1>2. \E m, n : VisitWith(m, f, n)
  BY DEF VisitMatchArm
<1>3. IsFrame(f) /\ f.base = Top.base
  <2> HIDE DEF g, r
  <2>1. IsFrame([Top EXCEPT !.guards = g, !.result = r])
        /\ [Top EXCEPT !.guards = g, !.result = r].base = Top.base
    <3> DEFINE h == [Top EXCEPT !.guards = g]
    <3>1. IsFrame(h) /\ h.base = Top.base
      BY <1>1, Frames
    <3>2. [Top EXCEPT !.guards = g, !.result = r] = [h EXCEPT !.result = r]
      OBVIOUS
    <3> HIDE DEF h
    <3>3. IsFrame([h EXCEPT !.result = r]) /\ [h EXCEPT !.result = r].base = h.base
      BY <3>1 DEF IsFrame
    <3> QED BY <3>1, <3>2, <3>3
  <2> QED BY <2>1
<1> HIDE DEF f
<1> QED BY <1>2, <1>3, Served

LEMMA CaseServes ==
  ASSUME IsFrame(Top), NEW k, VisitCase(k)
  PROVE  Serves
BY Served, Frames, NoGuardsStacks, MatchArmServes DEF VisitCase

LEMMA DataServes ==
  ASSUME IsFrame(Top), VisitData
  PROVE  Serves
<1> USE Served
<1>1. CASE VisitExprList
  BY <1>1, Frames DEF VisitExprList
<1>2. CASE VisitExprConsList
  BY <1>2 DEF VisitExprConsList
<1>3. CASE VisitExprHead
  BY <1>3 DEF VisitExprHead, OnList
<1>4. CASE VisitExprTail
  BY <1>4 DEF VisitExprTail, OnList
<1>5. CASE VisitExprIsEmpty
  BY <1>5 DEF VisitExprIsEmpty
<1>6. CASE VisitExprTuple
  BY <1>6 DEF VisitExprTuple
<1>7. CASE VisitExprDotTuple
  BY <1>7 DEF VisitExprDotTuple
<1>8. CASE VisitExprRecord
  BY <1>8 DEF VisitExprRecord
<1>9. CASE VisitExprDotRecord
  BY <1>9 DEF VisitExprDotRecord
<1>10. CASE VisitExprInl
  BY <1>10 DEF VisitExprInl, Inject
<1>11. CASE VisitExprInr
  BY <1>11 DEF VisitExprInr, Inject
<1>12. CASE VisitExprVariant
  BY <1>12 DEF VisitExprVariant
<1>13. CASE VisitExprMatch
  BY <1>13, CaseServes DEF VisitExprMatch
<1>14. CASE VisitPatternCastAs
  BY <1>14 DEF VisitPatternCastAs
<1> QED BY <1>1, <1>2, <1>3, <1>4, <1>5, <1>6, <1>7, <1>8, <1>9, <1>10, <1>11, <1>12,
            <1>13, <1>14 DEF VisitData

LEMMA EffectServes ==
  ASSUME IsFrame(Top), VisitEffect
  PROVE  Serves
<1> USE Served
<1>1. CASE VisitExprPanic
  BY <1>1 DEF VisitExprPanic, Diverge
<1>2. CASE VisitDeclExceptionType
  BY <1>2 DEF VisitDeclExceptionType, Declare, Serves
<1>3. CASE VisitDeclExceptionVariant
  BY <1>3 DEF VisitDeclExceptionVariant, Declare, Serves
<1>4. CASE VisitExprThrow
  BY <1>4 DEF VisitExprThrow, Diverge
<1>5. CASE VisitExprTryWith
  BY <1>5 DEF VisitExprTryWith
<1>6. CASE VisitExprTryCatch
  BY <1>6, Frames, GuardStacks, NoGuardsStacks DEF VisitExprTryCatch, Bound
<1>7. CASE VisitExprTypeCast
  BY <1>7 DEF VisitExprTypeCast
<1>8. CASE VisitExprTryCastAs
  BY <1>8, Frames, GuardStacks, NoGuardsStacks DEF VisitExprTryCastAs, Bound
<1>9. CASE VisitExprRef
  BY <1>9 DEF VisitExprRef
<1>10. CASE VisitExprDeref
  BY <1>10 DEF VisitExprDeref
<1>11. CASE VisitExprAssign
  BY <1>11 DEF VisitExprAssign
<1>12. CASE VisitExprConstMemory
  BY <1>12 DEF VisitExprConstMemory
<1> QED BY <1>1, <1>2, <1>3, <1>4, <1>5, <1>6, <1>7, <1>8, <1>9, <1>10, <1>11, <1>12 DEF VisitEffect

LEMMA ProgramServes ==
  ASSUME IsFrame(Top), VisitProgram
  PROVE  Serves
BY Served, Frames, GuardStacks DEF VisitProgram

-----------------------------------------------------------------------------
(* What a call, a return and an unwinding keep.                            *)
LEMMA TopFrame ==
  ASSUME Mirror, ~Done
  PROVE  /\ Len(frames) \in Nat \ {0} /\ DOMAIN frames = 1..Len(frames)
         /\ IsFrame(Top) /\ Top.base = Before(Len(frames))
         /\ names = Own(Top) /\ Release(names, Top.guards) = Top.base
<1>1. Len(frames) \in Nat /\ DOMAIN frames = 1..Len(frames)
  BY SequenceFacts DEF Mirror
<1>2. Len(frames) # 0
  <2>1. PICK S : frames \in Seq(S)
    BY DEF Mirror, IsSequence
  <2> QED BY <2>1 DEF Done
<1>3. Len(frames) \in DOMAIN frames
  BY <1>1, <1>2
<1>4. IsFrame(Top) /\ Top.base = Before(Len(frames)) /\ names = Own(Top)
  BY <1>3 DEF Mirror, Top
<1>5. Release(names, Top.guards) = Top.base
  BY <1>4, ReleasePush DEF Own, IsFrame
<1> QED BY <1>1, <1>2, <1>4, <1>5

LEMMA LeaveKeeps ==
  ASSUME Mirror, ~Done, Leave
  PROVE  Mirror'
<1> DEFINE n == Len(frames)
<1>1. n \in Nat \ {0} /\ DOMAIN frames = 1..n
  BY TopFrame
<1>2. names' = Before(n)
  BY TopFrame DEF Leave
<1>3. PICK S : frames \in Seq(S)
  BY DEF Mirror, IsSequence
<1>4. frames' \in Seq(S) /\ Len(frames') = n - 1 /\ DOMAIN frames' = 1..(n - 1)
      /\ \A i \in 1..(n - 1) : frames'[i] = frames[i]
  BY <1>1, <1>3 DEF Leave
<1>5. IsSequence(frames')
  BY <1>4 DEF IsSequence
<1>6. ASSUME NEW i \in DOMAIN frames'
      PROVE  IsFrame(frames'[i]) /\ frames'[i].base = (Before(i))'
  <2>1. i \in DOMAIN frames /\ frames'[i] = frames[i] /\ (i # 1 => frames'[i - 1] = frames[i - 1])
    BY <1>1, <1>4
  <2>2. IsFrame(frames[i]) /\ frames[i].base = Before(i)
    BY <2>1 DEF Mirror
  <2> QED BY <2>1, <2>2 DEF Before
<1>7. names' = IF Done' THEN NoNames ELSE Own(Top')
  <2>1. CASE n = 1
    <3>1. frames' = <<>>
      BY <1>4, <2>1
    <3> QED BY <3>1, <1>2, <2>1 DEF Done, Before
  <2>2. CASE n # 1
    <3>1. frames' # <<>> /\ Top' = frames[n - 1]
      BY <1>1, <1>4, <2>2 DEF Top
    <3> QED BY <3>1, <1>2, <2>2 DEF Done, Before
  <2> QED BY <2>1, <2>2
<1> QED BY <1>5, <1>6, <1>7 DEF Mirror

LEMMA CallKeeps ==
  ASSUME Mirror, ~Done, NEW m, NEW f, NEW k, Call(m, f, k), IsFrame(f), f.base = Top.base
  PROVE  Mirror'
<1> DEFINE n  == Len(frames)
           ns == Push(Release(names, Top.guards), f.guards)
           g  == [f EXCEPT !.pc = @ + 1]
           kept  == [frames EXCEPT ![n] = g]
           added == IF m.deduced[k] = Absent THEN <<Frame(k, ns)>> ELSE <<>>
<1>1. CASE UNCHANGED <<frames, names>>
  BY <1>1 DEF Mirror, Done, Top, Before
<1>2. CASE names' = ns /\ frames' = kept \o added
  <2>1. n \in Nat \ {0} /\ DOMAIN frames = 1..n
    BY TopFrame
  <2>2. ns = Own(f) /\ Stacks(ns)
    BY TopFrame, PushStacks DEF Own, IsFrame
  <2>3. IsFrame(g) /\ g.base = f.base /\ g.guards = f.guards
    BY DEF IsFrame
  <2>4. IsFrame(Frame(k, ns)) /\ Frame(k, ns).base = ns /\ Own(Frame(k, ns)) = ns
    <3>1. IsFrame(Frame(k, ns)) /\ Frame(k, ns).base = ns /\ Frame(k, ns).guards = NoGuards
      <4> HIDE DEF ns
      <4> QED BY <2>2, NoGuardsStacks DEF IsFrame, Frame
    <3> QED BY <3>1, <2>2, NoGuardsStacks DEF Own
  <2>5. Own(g) = ns
    BY <2>2, <2>3 DEF Own
  <2> HIDE DEF ns, g
  <2>6. IsSequence(kept) /\ Len(kept) = n /\ kept[n] = g
        /\ \A i \in 1..(n - 1) : kept[i] = frames[i]
    <3>1. IsSequence(frames) /\ Len(frames) # 0
      BY <2>1 DEF Mirror
    <3> QED BY <3>1, Updated
  <2>7. CASE added = <<>>
    <3>1. frames' = kept
      BY <1>2, <2>6, <2>7, ConcatEmpty
    <3>2. DOMAIN frames' = 1..n /\ IsSequence(frames')
      BY <3>1, <2>6, SequenceFacts
    <3>3. ASSUME NEW i \in DOMAIN frames'
          PROVE  IsFrame(frames'[i]) /\ frames'[i].base = (Before(i))'
      <4>1. (Before(i))' = Before(i)
        <5>1. i # 1 => frames'[i - 1] = frames[i - 1]
          <6> HIDE DEF kept, n
          <6> QED BY <3>1, <3>2, <2>1, <2>6
        <5> QED BY <5>1 DEF Before
      <4>2. CASE i = n
        BY <4>1, <4>2, <3>1, <2>3, <2>6, TopFrame
      <4>3. CASE i # n
        BY <4>1, <4>3, <3>1, <3>2, <2>1, <2>6 DEF Mirror
      <4> QED BY <4>2, <4>3
    <3>4. ~Done' /\ Top' = g
      BY <3>1, <2>1, <2>6 DEF Done, Top
    <3> QED BY <1>2, <2>5, <3>2, <3>3, <3>4 DEF Mirror
  <2>8. CASE added = <<Frame(k, ns)>>
    <3>1. frames' = kept \o <<Frame(k, ns)>>
      BY <1>2, <2>8
    <3>2. /\ IsSequence(frames') /\ Len(frames') = n + 1
          /\ \A i \in 1..n : frames'[i] = kept[i]
          /\ frames'[n + 1] = Frame(k, ns)
      <4> HIDE DEF added, kept, n
      <4> QED BY <3>1, <2>6, Extended
    <3>3. DOMAIN frames' = 1..(n + 1)
      BY <3>2, SequenceFacts
    <3>4. ASSUME NEW i \in DOMAIN frames'
          PROVE  IsFrame(frames'[i]) /\ frames'[i].base = (Before(i))'
      <4> HIDE DEF kept
      <4>1. CASE i = n + 1
        BY <4>1, <3>2, <2>1, <2>4, <2>5, <2>6 DEF Before
      <4>2. CASE i = n
        <5>1. (Before(i))' = Before(i)
          BY <4>2, <3>2, <2>1, <2>6 DEF Before
        <5> QED BY <5>1, <4>2, <3>2, <2>1, <2>3, <2>6, TopFrame
      <4>3. CASE i \in 1..(n - 1)
        <5>1. (Before(i))' = Before(i)
          BY <4>3, <3>2, <2>1, <2>6 DEF Before
        <5> QED BY <5>1, <4>3, <3>2, <2>1, <2>6 DEF Mirror
      <4> QED BY <3>3, <2>1, <4>1, <4>2, <4>3
    <3>5. ~Done' /\ Top' = Frame(k, ns)
      <4>1. frames' # <<>>
        <5> HIDE DEF kept, n
        <5> QED BY <3>3, <2>1
      <4> QED BY <4>1, <3>2 DEF Done, Top
    <3> QED BY <1>2, <2>4, <3>2, <3>4, <3>5 DEF Mirror
  <2> QED BY <2>7, <2>8
<1> QED BY <1>1, <1>2 DEF Call

-----------------------------------------------------------------------------
LEMMA InitMirror ==
  ASSUME Init
  PROVE  Mirror
<1> DEFINE f == Frame(1, NoNames)
<1>1. frames = <<f>> /\ names = NoNames
  BY DEF Init, Begin, NewStorage
<1>2. f.base = NoNames /\ f.guards = NoGuards /\ IsFrame(f)
  <2>1. f.base = NoNames /\ f.guards = NoGuards
    BY DEF Frame
  <2>2. Stacks(NoNames) /\ Stacks(NoGuards)
    BY NoGuardsStacks
  <2> QED BY <2>1, <2>2 DEF IsFrame, Frame
<1> HIDE DEF f
<1>3. /\ frames \in Seq({f}) /\ DOMAIN frames = 1..1 /\ frames[1] = f
      /\ frames # <<>> /\ Top = f
  BY <1>1 DEF Top
<1>4. Own(f) = NoNames
  BY <1>2, NoGuardsStacks DEF Own
<1>5. IsSequence(frames)
  BY <1>3 DEF IsSequence
<1>6. ASSUME NEW i \in DOMAIN frames
      PROVE  IsFrame(frames[i]) /\ frames[i].base = Before(i)
  <2>1. i = 1
    BY <1>3
  <2> QED BY <2>1, <1>2, <1>3 DEF Before
<1>7. names = IF Done THEN NoNames ELSE Own(Top)
  BY <1>1, <1>3, <1>4 DEF Done
<1> QED BY <1>5, <1>6, <1>7 DEF Mirror

(* Without a frame no visit goes on.                                       *)
LEMMA VisitsHaveFrames ==
  VisitProgram \/ VisitFunction \/ VisitData \/ VisitEffect => ~Done
<1>1. \A kind, pc : At(kind, pc) => ~Done
  BY DEF At
<1>2. VisitProgram => ~Done
  BY <1>1 DEF VisitProgram
<1>3. VisitFunction => ~Done
  BY <1>1 DEF VisitFunction, VisitDeclFun, VisitParamDecl,
              VisitExprAbstraction, VisitExprFix, VisitExprApplication,
              VisitExprVar, VisitExprLet, VisitExprTypeAsc, VisitExprSequence,
              VisitExprConstUnit, VisitExprConstTrue, VisitExprConstFalse,
              VisitExprConstInt, VisitExprIf, VisitExprIsZero, VisitExprSucc,
              VisitExprPred, VisitExprNatRec, VisitDeclFunGeneric,
              VisitExprTypeAbstraction, VisitExprTypeApplication,
              DeclareFunction, VisitOperator, Constant
<1>4. VisitData => ~Done
  BY <1>1 DEF VisitData, VisitExprList, VisitExprConsList, VisitExprHead,
              VisitExprTail, VisitExprIsEmpty, VisitExprTuple,
              VisitExprDotTuple, VisitExprRecord, VisitExprDotRecord,
              VisitExprInl, VisitExprInr, VisitExprVariant, VisitExprMatch,
              VisitPatternCastAs, OnList, Inject
<1>5. VisitEffect => ~Done
  BY <1>1 DEF VisitEffect, VisitExprPanic, VisitDeclExceptionType,
              VisitDeclExceptionVariant, VisitExprThrow, VisitExprTryWith,
              VisitExprTryCatch, VisitExprTypeCast, VisitExprTryCastAs,
              VisitExprRef, VisitExprDeref, VisitExprAssign,
              VisitExprConstMemory
<1> QED BY <1>2, <1>3, <1>4, <1>5

LEMMA StepMirror ==
  ASSUME Mirror, [Next]_vars
  PROVE  Mirror'
<1>1. CASE Serves /\ ~Done
  <2>1. CASE \E m, f, k : Call(m, f, k) /\ IsFrame(f) /\ f.base = Top.base
    BY <1>1, <2>1, CallKeeps
  <2>2. CASE \E m : Finish(m)
    BY <1>1, <2>2, LeaveKeeps DEF Finish, Mirror, Done, Top, Before
  <2>3. CASE UNCHANGED <<frames, names>>
    BY <2>3 DEF Mirror, Done, Top, Before
  <2> QED BY <1>1, <2>1, <2>2, <2>3 DEF Serves
<1>2. CASE Unwind
  BY <1>2, LeaveKeeps DEF Unwind
<1>3. CASE Exit \/ UNCHANGED vars
  BY <1>3 DEF Exit, vars, Mirror, Done, Top, Before
<1>4. CASE VisitProgram \/ VisitFunction \/ VisitData \/ VisitEffect
  <2>1. ~Done
    BY <1>4, VisitsHaveFrames
  <2>2. IsFrame(Top)
    BY <2>1, TopFrame
  <2> QED BY <1>1, <1>4, <2>1, <2>2, ProgramServes, FunctionServes, DataServes, EffectServes
<1> QED BY <1>1, <1>2, <1>3, <1>4 DEF Next, Step

(* The RAII guards: the name context is what the active visits pushed, in  *)
(* any program and at every moment, also while an error unwinds the stack. *)
THEOREM GuardsMirrored == Spec => []NamesMirrorFrames
<1>1. Init => Mirror
  BY InitMirror
<1>2. Mirror /\ [Next]_vars => Mirror'
  BY StepMirror
<1>3. Mirror => NamesMirrorFrames
  BY DEF Mirror, NamesMirrorFrames, Before, Own
<1> QED BY <1>1, <1>2, <1>3, PTL DEF Spec

=============================================================================
