---------------------------- MODULE ParserProofs ----------------------------
(***************************************************************************)
(* The walk of Parser over every tree of the grammar (StellaGrammar): it   *)
(* builds a program exactly if every construct in the tree is supported,   *)
(* and every type variable in the registry is held by exactly one result.  *)
(*                                                                         *)
(* The tables of the visitors, joined with @@, are closed to the provers:  *)
(* RulesAssumption says what matters of them, and TLC evaluates it.        *)
(***************************************************************************)
EXTENDS StellaGrammar, TLAPS, FiniteSetTheorems, WellFoundedInduction, SequenceTheorems

(* Induction over the naturals, for a set.                                 *)
LEMMA Least ==
  ASSUME NEW T, T \subseteq Nat, T # {}
  PROVE  \E x \in T : \A y \in T : x <= y
<1> DEFINE Q == {1 .. x : x \in T}
           R == StrictSubsetOrdering(Nat)
<1>1. Q \subseteq FiniteSubsetsOf(Nat) /\ Q # {}
  <2>1. ASSUME NEW x \in T PROVE 1 .. x \in SUBSET Nat /\ IsFiniteSet(1 .. x)
    BY FS_Interval
  <2>2. \A q \in Q : q \in SUBSET Nat /\ IsFiniteSet(q)
    BY <2>1
  <2> QED BY <2>2 DEF FiniteSubsetsOf
<1>2. IsWellFoundedOn(R, FiniteSubsetsOf(Nat))
  BY FS_StrictSubsetOrderingWellFounded
<1>3. \E m \in Q : \A q \in Q : ~ (<<q, m>> \in R)
  <2> HIDE DEF Q, R
  <2> QED BY <1>1, <1>2, WFMin
<1>4. PICK x \in T : \A q \in Q : ~ (<<q, 1 .. x>> \in R)
  BY <1>3
<1>5. ASSUME NEW y \in T, y < x PROVE FALSE
  <2>1. 1 .. y \in SUBSET Nat /\ 1 .. x \in SUBSET Nat /\ 1 .. y \subseteq 1 .. x /\ x \in 1 .. x /\ x \notin 1 .. y
    BY <1>5
  <2>2. <<1 .. y, 1 .. x>> \in R
    BY <2>1 DEF StrictSubsetOrdering
  <2>3. 1 .. y \in Q
    OBVIOUS
  <2> HIDE DEF Q, R
  <2> QED BY <1>4, <2>2, <2>3
<1>6. \A y \in T : x <= y
  <2>1. T \subseteq Nat
    OBVIOUS
  <2> QED BY <1>5, <2>1
<1> QED BY <1>6

LEMMA Induct ==
  ASSUME NEW S, 0 \in S, \A n \in Nat : n \in S => n + 1 \in S
  PROVE  Nat \subseteq S
<1> SUFFICES ASSUME Nat \ S # {} PROVE FALSE
  OBVIOUS
<1>1. PICK x \in Nat \ S : \A y \in Nat \ S : x <= y
  BY Least
<1>2. x # 0 BY <1>1
<1>3. x - 1 \in Nat /\ x - 1 \notin Nat \ S
  BY <1>1, <1>2
<1> QED BY <1>1, <1>3

-----------------------------------------------------------------------------
(* FlattenSeq: the recursion is defined, and what it computes.             *)
InSeq(x, s) == \E k \in 1 .. Len(s) : s[k] = x
Joins(f, ss, n) ==
  \A i \in 1 .. n : f[i] = IF i = 1 THEN ss[i] ELSE f[i - 1] \o ss[i]

LEMMA ConcatFirst ==
  ASSUME NEW S, NEW a \in Seq(S), NEW b \in Seq(S), a # <<>>
  PROVE  a \o b # <<>> /\ (a \o b)[1] = a[1]
<1>1. Len(a) \in Nat \ {0} /\ Len(a \o b) = Len(a) + Len(b) /\ Len(b) \in Nat
  OBVIOUS
<1>2. (a \o b)[1] = a[1]
  BY <1>1
<1> QED BY <1>1, <1>2

LEMMA JoinsExists ==
  ASSUME NEW S, NEW ss \in Seq(Seq(S))
  PROVE  \E g \in [1 .. Len(ss) -> Seq(S)] : Joins(g, ss, Len(ss))
<1> DEFINE Q == {n \in Nat : n <= Len(ss) => \E g \in [1 .. n -> Seq(S)] : Joins(g, ss, n)}
<1>0. Len(ss) \in Nat /\ \A i \in 1 .. Len(ss) : ss[i] \in Seq(S)
  OBVIOUS
<1>1. 0 \in Q
  <2>1. [i \in 1 .. 0 |-> <<>>] \in [1 .. 0 -> Seq(S)]
    OBVIOUS
  <2>2. Joins([i \in 1 .. 0 |-> <<>>], ss, 0)
    BY DEF Joins
  <2> QED BY <2>1, <2>2
<1>2. ASSUME NEW n \in Nat, n \in Q PROVE n + 1 \in Q
  <2> SUFFICES ASSUME n + 1 <= Len(ss) PROVE \E g \in [1 .. n + 1 -> Seq(S)] : Joins(g, ss, n + 1)
    OBVIOUS
  <2>1. PICK g \in [1 .. n -> Seq(S)] : Joins(g, ss, n)
    BY <1>0, <1>2
  <2> DEFINE last == IF n = 0 THEN ss[1] ELSE g[n] \o ss[n + 1]
             h == [i \in 1 .. n + 1 |-> IF i = n + 1 THEN last ELSE g[i]]
  <2>2. last \in Seq(S)
    <3>1. CASE n = 0 BY <1>0, <3>1
    <3>2. CASE n # 0
      <4>1. g[n] \in Seq(S) /\ ss[n + 1] \in Seq(S)
        BY <1>0, <3>2
      <4> QED BY <3>2, <4>1
    <3> QED BY <3>1, <3>2
  <2>3. h \in [1 .. n + 1 -> Seq(S)]
    <3> HIDE DEF last
    <3> QED BY <2>2
  <2>4. ASSUME NEW i \in 1 .. n + 1 PROVE h[i] = IF i = 1 THEN ss[i] ELSE h[i - 1] \o ss[i]
    <3>1. CASE i = n + 1
      <4>1. h[i] = last
        BY <3>1
      <4>2. CASE n = 0 BY <3>1, <4>1, <4>2
      <4>3. CASE n # 0
        <5>1. i - 1 = n /\ n \in 1 .. n + 1 /\ n # n + 1
          BY <3>1, <4>3
        <5>2. h[i - 1] = g[n]
          BY <5>1
        <5> QED BY <3>1, <4>1, <4>3, <5>1, <5>2
      <4> QED BY <4>2, <4>3
    <3>2. CASE i # n + 1
      <4>1. i \in 1 .. n /\ h[i] = g[i]
        BY <3>2
      <4>2. CASE i = 1 BY <2>1, <4>1, <4>2 DEF Joins
      <4>3. CASE i # 1
        <5>1. i - 1 \in 1 .. n /\ i - 1 \in 1 .. n + 1 /\ i - 1 # n + 1
          BY <4>1, <4>3
        <5>2. h[i - 1] = g[i - 1]
          BY <5>1
        <5> QED BY <2>1, <4>1, <4>3, <5>2 DEF Joins
      <4> QED BY <4>2, <4>3
    <3> QED BY <3>1, <3>2
  <2>5. Joins(h, ss, n + 1)
    <3> HIDE DEF h
    <3> QED BY <2>4 DEF Joins
  <2> QED BY <2>3, <2>5
<1>3. Nat \subseteq Q
  <2> HIDE DEF Q
  <2> QED BY <1>1, <1>2, Induct
<1> QED BY <1>0, <1>3

LEMMA FlattenJoins ==
  ASSUME NEW S, NEW ss \in Seq(Seq(S)), Len(ss) # 0
  PROVE  \E f : Joins(f, ss, Len(ss)) /\ FlattenSeq(ss) = f[Len(ss)]
<1> DEFINE Rec(g) == g = [i \in 1 .. Len(ss) |-> IF i = 1 THEN ss[i] ELSE g[i - 1] \o ss[i]]
           F == CHOOSE g : Rec(g)
<1>1. PICK g \in [1 .. Len(ss) -> Seq(S)] : Joins(g, ss, Len(ss))
  BY JoinsExists
<1>2. Rec(g)
  BY <1>1 DEF Joins
<1>3. Rec(F)
  <2> HIDE DEF Rec
  <2> QED BY <1>2
<1>4. FlattenSeq(ss) = F[Len(ss)]
  BY DEF FlattenSeq
<1>5. Joins(F, ss, Len(ss))
  <2> HIDE DEF F
  <2> QED BY <1>3 DEF Joins
<1> QED BY <1>4, <1>5

(* A flattened sequence has the elements of its parts, and begins as the   *)
(* first of them does.                                                     *)
LEMMA FlattenSeqElements ==
  ASSUME NEW S, NEW ss \in Seq(Seq(S))
  PROVE  /\ FlattenSeq(ss) \in Seq(S)
         /\ \A x : InSeq(x, FlattenSeq(ss)) <=> \E i \in 1 .. Len(ss) : InSeq(x, ss[i])
         /\ Len(ss) # 0 /\ ss[1] # <<>> => FlattenSeq(ss) # <<>> /\ FlattenSeq(ss)[1] = ss[1][1]
<1>1. CASE Len(ss) = 0
  <2>1. FlattenSeq(ss) = ss /\ ss = <<>>
    BY <1>1 DEF FlattenSeq
  <2> QED BY <1>1, <2>1 DEF InSeq
<1>2. CASE Len(ss) # 0
  <2>0. Len(ss) \in Nat /\ \A i \in 1 .. Len(ss) : ss[i] \in Seq(S)
    OBVIOUS
  <2>1. PICK f : Joins(f, ss, Len(ss)) /\ FlattenSeq(ss) = f[Len(ss)]
    BY <1>2, FlattenJoins
  <2> DEFINE Good(n) == /\ f[n] \in Seq(S)
                        /\ \A x : InSeq(x, f[n]) <=> \E i \in 1 .. n : InSeq(x, ss[i])
                        /\ ss[1] # <<>> => f[n] # <<>> /\ f[n][1] = ss[1][1]
             Q == {n \in Nat : n \in 1 .. Len(ss) => Good(n)}
  <2>2. 0 \in Q
    OBVIOUS
  <2>3. ASSUME NEW n \in Nat, n \in Q PROVE n + 1 \in Q
    <3> SUFFICES ASSUME n + 1 \in 1 .. Len(ss) PROVE Good(n + 1)
      BY SMTT(30)
    <3>0. ss[n + 1] \in Seq(S)
      BY <2>0
    <3>1. CASE n = 0
      <4>1. f[n + 1] = ss[1]
        BY <2>1, <3>1 DEF Joins
      <4>2. 1 .. n + 1 = {1} /\ n + 1 = 1
        BY <3>1
      <4>3. ss[1] \in Seq(S) /\ f[1] = ss[1]
        BY <3>0, <4>1, <4>2
      <4> HIDE DEF Q
      <4>4. Good(1)
        BY <4>3
      <4> QED BY <4>2, <4>4
    <3>2. CASE n # 0
      <4>1. n \in 1 .. Len(ss) /\ n + 1 # 1 /\ n + 1 - 1 = n
        BY <2>0, <3>2
      <4>2. f[n + 1] = f[n] \o ss[n + 1]
        <5>1. \A i \in 1 .. Len(ss) : i # 1 => f[i] = f[i - 1] \o ss[i]
          BY <2>1 DEF Joins
        <5>2. \A m \in Nat : m # 0 /\ m + 1 \in 1 .. Len(ss) => f[m + 1] = f[m] \o ss[m + 1]
          <6> TAKE m \in Nat
          <6> HAVE m # 0 /\ m + 1 \in 1 .. Len(ss)
          <6> DEFINE i == m + 1
          <6>1. i \in 1 .. Len(ss) /\ i # 1 /\ i - 1 = m
            OBVIOUS
          <6> HIDE DEF i
          <6>2. f[i] = f[i - 1] \o ss[i]
            BY <5>1, <6>1
          <6> QED BY <6>1, <6>2 DEF i
        <5> HIDE DEF Q
        <5> QED BY <3>2, <5>2
      <4>3. Good(n)
        BY <2>3, <4>1
      <4>4. \A x : InSeq(x, f[n] \o ss[n + 1]) <=> InSeq(x, f[n]) \/ InSeq(x, ss[n + 1])
        <5> HIDE DEF Q
        <5>1. f[n] \in Seq(S)
          BY <4>3
        <5> DEFINE a == f[n]
                   b == ss[n + 1]
        <5> HIDE DEF Good
        <5>2. a \in Seq(S) /\ b \in Seq(S)
          BY <3>0, <5>1
        <5> HIDE DEF a, b
        <5>3. \A x : InSeq(x, a \o b) <=> InSeq(x, a) \/ InSeq(x, b)
          <6> TAKE x
          <6>1. ASSUME NEW k \in 1 .. Len(a \o b), (a \o b)[k] = x PROVE InSeq(x, a) \/ InSeq(x, b)
            <7>1. CASE k <= Len(a) BY <5>2, <6>1, <7>1 DEF InSeq
            <7>2. CASE k > Len(a)
              <8>1. k - Len(a) \in 1 .. Len(b) /\ b[k - Len(a)] = x
                BY <5>2, <6>1, <7>2
              <8> QED BY <8>1 DEF InSeq
            <7> QED BY <5>2, <7>1, <7>2
          <6>2. ASSUME NEW k \in 1 .. Len(a), a[k] = x PROVE InSeq(x, a \o b)
            <7>1. k \in 1 .. Len(a \o b) /\ (a \o b)[k] = x
              BY <5>2, <6>2
            <7> QED BY <7>1 DEF InSeq
          <6>3. ASSUME NEW k \in 1 .. Len(b), b[k] = x PROVE InSeq(x, a \o b)
            <7>1. k + Len(a) \in 1 .. Len(a \o b) /\ (a \o b)[k + Len(a)] = x
              BY <5>2, <6>3
            <7> QED BY <7>1 DEF InSeq
          <6> QED BY <6>1, <6>2, <6>3 DEF InSeq
        <5> QED BY <5>3 DEF a, b
      <4>5. \A x : InSeq(x, f[n + 1]) <=> \E i \in 1 .. n + 1 : InSeq(x, ss[i])
        <5>1. 1 .. n + 1 = 1 .. n \cup {n + 1}
          OBVIOUS
        <5> QED BY <4>2, <4>3, <4>4, <5>1
      <4>6. f[n + 1] \in Seq(S)
        BY <3>0, <4>2, <4>3
      <4>7. ss[1] # <<>> => f[n + 1] # <<>> /\ f[n + 1][1] = ss[1][1]
        <5> SUFFICES ASSUME ss[1] # <<>> PROVE f[n + 1] # <<>> /\ f[n + 1][1] = ss[1][1]
          OBVIOUS
        <5> HIDE DEF Q
        <5>1. f[n] \in Seq(S) /\ f[n] # <<>> /\ f[n][1] = ss[1][1]
          BY <4>3
        <5>2. f[n + 1] = f[n] \o ss[n + 1]
          BY <4>2
        <5> DEFINE a == f[n]
                   b == ss[n + 1]
        <5>3. a \in Seq(S) /\ b \in Seq(S) /\ a # <<>> /\ a[1] = ss[1][1] /\ f[n + 1] = a \o b
          BY <3>0, <5>1, <5>2
        <5> HIDE DEF Good, a, b
        <5>4. a \o b # <<>> /\ (a \o b)[1] = a[1]
          BY <5>3, ConcatFirst
        <5> QED BY <5>3, <5>4
      <4> QED BY <4>5, <4>6, <4>7
    <3> QED BY <3>1, <3>2
  <2>4. Nat \subseteq Q
    <3> HIDE DEF Q
    <3> QED BY <2>2, <2>3, Induct
  <2>5. Good(Len(ss))
    <3>1. Len(ss) \in Q
      <4> HIDE DEF Q
      <4> QED BY <2>0, <2>4
    <3>2. Len(ss) \in 1 .. Len(ss) => Good(Len(ss))
      <4> HIDE DEF Good
      <4> QED BY <3>1
    <3>3. Len(ss) \in 1 .. Len(ss)
      BY <1>2, <2>0
    <3> HIDE DEF Good, Q
    <3> QED BY <3>2, <3>3
  <2>6. Len(ss) # 0 /\ ss[1] # <<>> => FlattenSeq(ss) # <<>> /\ FlattenSeq(ss)[1] = ss[1][1]
    BY <2>1, <2>5
  <2> HIDE DEF Q
  <2> QED BY <2>1, <2>5, <2>6
<1> QED BY <1>1, <1>2

Direct(e, c, l) == \E i \in 1 .. Len(Taken(c, l)) : e = [ctx |-> Taken(c, l)[i], cast |-> CastOf(l)]
Asked(e, c, l) ==
  IF l \notin DOMAIN Inline THEN Direct(e, c, l)
  ELSE \E i \in 1 .. Len(Taken(c, l)) : \E m \in Range(Inline[l]) : Direct(e, Taken(c, l)[i], m)
Casts      == {"NodeDecl", "NodeParamDecl", "NodePattern", "Type", "NodeExpr"}
Entries(t) == [ctx : Inside(t) \cup {Null}, cast : Casts]
Within(t)  == Inside(t) \cup {Null}
Listed(c, l) ==
  IF l \notin DOMAIN Inline THEN Labelled(c, l)
  ELSE FlattenSeq([i \in DOMAIN Taken(c, l) |->
         FlattenSeq([j \in DOMAIN Inline[l] |-> Labelled(Taken(c, l)[i], Inline[l][j])])])

LEMMA RangeElements ==
  ASSUME NEW s PROVE \A x : x \in Range(s) <=> \E i \in DOMAIN s : s[i] = x
BY DEF Range

LEMMA CastIsName == ASSUME NEW l PROVE CastOf(l) \in Casts
<1>1. CASE l \in {"decl", "localDecls"}
  BY <1>1 DEF CastOf, Casts
<1>2. CASE l = "paramDecls"
  BY <1>2 DEF CastOf, Casts
<1>3. CASE l \in {"pattern_", "pat"}
  BY <1>3 DEF CastOf, Casts
<1>4. CASE l \in {"paramTypes", "returnType", "type_", "types", "left", "right", "paramType",
                  "exceptionType", "variantType"}
  BY <1>4 DEF CastOf, Casts
<1>5. CASE l \notin {"decl", "localDecls", "paramDecls", "pattern_", "pat", "paramTypes", "returnType",
                     "type_", "types", "left", "right", "paramType", "exceptionType", "variantType"}
  BY <1>5 DEF CastOf, Casts
<1> QED BY <1>1, <1>2, <1>3, <1>4, <1>5

Parts == {"pat", "rhs", "pattern_", "expr_", "type_"}
LEMMA InlineFacts ==
  /\ DOMAIN Inline = {"patternBindings", "bindings", "cases", "fieldTypes"}
  /\ \A l \in DOMAIN Inline : Inline[l] \in Seq(Parts) /\ Inline[l] # <<>> /\ Range(Inline[l]) \subseteq Parts
  /\ Inline["patternBindings"] = <<"pat", "rhs">>
<1>1. DOMAIN Inline = {"patternBindings", "bindings", "cases", "fieldTypes"}
  BY DEF Inline
<1>2. /\ Inline["patternBindings"] = <<"pat", "rhs">> /\ Inline["bindings"] = <<"rhs">>
      /\ Inline["cases"] = <<"pattern_", "expr_">> /\ Inline["fieldTypes"] = <<"type_">>
  BY DEF Inline
<1>3. ASSUME NEW l \in DOMAIN Inline PROVE Inline[l] \in Seq(Parts) /\ Inline[l] # <<>>
  <2>0. \A a, b \in Parts : <<a, b>> \in Seq(Parts) /\ <<a, b>> # <<>> /\ <<a>> \in Seq(Parts) /\ <<a>> # <<>>
    OBVIOUS
  <2>1. CASE l = "patternBindings" BY <1>2, <2>0, <2>1 DEF Parts
  <2>2. CASE l = "bindings" BY <1>2, <2>0, <2>2 DEF Parts
  <2>3. CASE l = "cases" BY <1>2, <2>0, <2>3 DEF Parts
  <2>4. CASE l = "fieldTypes" BY <1>2, <2>0, <2>4 DEF Parts
  <2> QED BY <1>1, <2>1, <2>2, <2>3, <2>4
<1>4. ASSUME NEW l \in DOMAIN Inline PROVE Range(Inline[l]) \subseteq Parts
  <2>1. \A s \in Seq(Parts) : \A i \in DOMAIN s : s[i] \in Parts
    OBVIOUS
  <2> QED BY <1>3, <2>1, RangeElements
<1> QED BY <1>1, <1>2, <1>3, <1>4

LEMMA LabelFacts ==
  /\ \A l \in Parts : l \notin Single /\ l \notin Assumed /\ l \notin DOMAIN Inline
  /\ \A l \in DOMAIN Inline : l \notin Assumed
BY InlineFacts DEF Single, Assumed, Parts

(* What a tree gives to a visitor.                                         *)
LEMMA TreeFacts ==
  ASSUME NEW t \in ParseTrees, NEW c \in Inside(t)
  PROVE  /\ Inside(c) = {c} \cup Below_(c)
         /\ \A l \in DOMAIN c.subs : c.subs[l] \in Seq(Inside(t))
         /\ Follows(c)
BY GrammarAssumption

LEMMA TakenSeq ==
  ASSUME NEW t \in ParseTrees, NEW c \in Inside(t), NEW l \in DOMAIN c.subs
  PROVE  /\ Taken(c, l) \in Seq(Within(t))
         /\ l \notin Assumed => Taken(c, l) \in Seq(Inside(t))
         /\ l \notin Assumed \cup Single => Taken(c, l) = c.subs[l]
         /\ c.subs[l] = <<>> /\ l \in Assumed => Taken(c, l) = <<Null>>
         /\ c.subs[l] # <<>> /\ l \in Single => Taken(c, l) = <<c.subs[l][1]>>
         /\ c.subs[l] # <<>> /\ l \notin Single => Taken(c, l) = c.subs[l]
         /\ c.subs[l] = <<>> /\ l \notin Assumed => Taken(c, l) = <<>>
<1>1. c.subs[l] \in Seq(Inside(t))
  BY TreeFacts
<1> DEFINE found == c.subs[l]
<1>2. Taken(c, l) = CASE found = <<>> /\ l \in Assumed -> <<Null>>
        [] found # <<>> /\ l \in Single -> <<found[1]>>
        [] OTHER -> found
  BY DEF Taken
<1>3. found \in Seq(Inside(t)) /\ found \in Seq(Within(t))
  BY <1>1 DEF Within
<1> HIDE DEF found
<1>4. CASE found = <<>> /\ l \in Assumed
  <2>1. Taken(c, l) = <<Null>>
    BY <1>2, <1>4
  <2>2. <<Null>> \in Seq(Within(t))
    BY DEF Within
  <2> QED BY <1>4, <2>1, <2>2 DEF found
<1>5. CASE found # <<>> /\ l \in Single
  <2>1. Taken(c, l) = <<found[1]>>
    BY <1>2, <1>5
  <2>2. found[1] \in Inside(t)
    BY <1>3, <1>5
  <2> QED BY <1>5, <2>1, <2>2 DEF found, Within
<1>6. CASE ~(found = <<>> /\ l \in Assumed) /\ ~(found # <<>> /\ l \in Single)
  <2>1. Taken(c, l) = found
    BY <1>2, <1>6
  <2> QED BY <1>3, <1>6, <2>1 DEF found
<1> QED BY <1>4, <1>5, <1>6

LEMMA LabelledSeq ==
  ASSUME NEW t, NEW c, NEW l, Taken(c, l) \in Seq(Within(t))
  PROVE  /\ Labelled(c, l) \in Seq(Entries(t))
         /\ \A e : InSeq(e, Labelled(c, l)) <=> Direct(e, c, l)
         /\ Taken(c, l) # <<>> => Labelled(c, l) # <<>> /\ Labelled(c, l)[1] = [ctx |-> Taken(c, l)[1], cast |-> CastOf(l)]
<1> DEFINE s == Taken(c, l)
           E(i) == [ctx |-> s[i], cast |-> CastOf(l)]
<1>1. Labelled(c, l) = [i \in DOMAIN s |-> E(i)]
  BY DEF Labelled
<1>2. s \in Seq(Within(t))
  OBVIOUS
<1> HIDE DEF s
<1>3. DOMAIN s = 1 .. Len(s) /\ Len(s) \in Nat
  BY <1>2
<1>4. \A i \in 1 .. Len(s) : E(i) \in Entries(t)
  <2> TAKE i \in 1 .. Len(s)
  <2>1. s[i] \in Within(t)
    BY <1>2
  <2> QED BY <2>1, CastIsName DEF Entries, Within
<1>5. \A i \in 1 .. Len(s) : E(i).ctx = s[i]
  OBVIOUS
<1>6. \A e : Direct(e, c, l) <=> \E i \in 1 .. Len(s) : e = E(i)
  BY DEF Direct, s
<1> HIDE DEF E
<1>7. Labelled(c, l) \in Seq(Entries(t)) /\ Len(Labelled(c, l)) = Len(s) /\ \A i \in 1 .. Len(s) : Labelled(c, l)[i] = E(i)
  <2> DEFINE r == [i \in 1 .. Len(s) |-> E(i)]
  <2>1. r \in Seq(Entries(t)) /\ Len(r) = Len(s) /\ \A i \in 1 .. Len(s) : r[i] = E(i)
    BY <1>3, <1>4
  <2> QED BY <1>1, <1>3, <2>1
<1>8. \A e : InSeq(e, Labelled(c, l)) <=> Direct(e, c, l)
  BY <1>6, <1>7 DEF InSeq
<1>9. s # <<>> => Labelled(c, l) # <<>> /\ Labelled(c, l)[1] = E(1)
  <2> SUFFICES ASSUME s # <<>> PROVE Labelled(c, l) # <<>> /\ Labelled(c, l)[1] = E(1)
    OBVIOUS
  <2>1. 1 \in 1 .. Len(s)
    BY <1>2, <1>3
  <2>2. Labelled(c, l)[1] = E(1) /\ Len(Labelled(c, l)) # 0
    BY <1>3, <1>5, <1>7, <2>1
  <2> QED BY <1>7, <2>2
<1> QED BY <1>7, <1>8, <1>9 DEF s, E

(* The calls for one label.                                                *)
LEMMA ListedSeq ==
  ASSUME NEW t \in ParseTrees, NEW c \in Inside(t), NEW l \in DOMAIN c.subs
  PROVE  /\ Listed(c, l) \in Seq(Entries(t))
         /\ \A e : InSeq(e, Listed(c, l)) <=> Asked(e, c, l)
         /\ l = "patternBindings" /\ c.subs[l] # <<>> /\ c.subs[l][1].subs["pat"] # <<>> =>
              Listed(c, l) # <<>> /\ Listed(c, l)[1] = [ctx |-> c.subs[l][1].subs["pat"][1], cast |-> CastOf("pat")]
<1>1. CASE l \notin DOMAIN Inline
  <2>1. l # "patternBindings"
    BY <1>1, InlineFacts
  <2>2. Taken(c, l) \in Seq(Within(t))
    BY TakenSeq
  <2>3. Listed(c, l) = Labelled(c, l) /\ \A e : Asked(e, c, l) <=> Direct(e, c, l)
    BY <1>1 DEF Listed, Asked
  <2> QED BY <2>1, <2>2, <2>3, LabelledSeq
<1>2. CASE l \in DOMAIN Inline
  <2> DEFINE s == Taken(c, l)
             n == Inline[l]
             Row(x) == [j \in DOMAIN n |-> Labelled(x, n[j])]
             Rows == [i \in DOMAIN s |-> FlattenSeq(Row(s[i]))]
  <2>1. s \in Seq(Inside(t))
    BY <1>2, TakenSeq, LabelFacts
  <2>2. n \in Seq(Parts) /\ n # <<>> /\ \A j \in DOMAIN n : n[j] \in Range(n)
    BY <1>2, InlineFacts, RangeElements
  <2>3. Listed(c, l) = FlattenSeq(Rows)
    BY <1>2 DEF Listed
  <2>4. ASSUME NEW i \in 1 .. Len(s)
        PROVE  s[i] \in Inside(t) /\ DOMAIN s[i].subs = Range(n)
    <3>1. \E k \in DOMAIN c.subs[l] : s[i] = c.subs[l][k]
      <4>1. c.subs[l] \in Seq(Inside(t)) /\ l \notin Assumed
        BY <1>2, TreeFacts, LabelFacts
      <4>2. CASE c.subs[l] # <<>> /\ l \in Single
        <5>1. s = <<c.subs[l][1]>> /\ 1 \in DOMAIN c.subs[l]
          BY <4>1, <4>2, TakenSeq
        <5>2. Len(s) = 1 /\ s[1] = c.subs[l][1]
          BY <5>1
        <5> QED BY <5>1, <5>2
      <4>3. CASE ~(c.subs[l] # <<>> /\ l \in Single)
        <5>1. s = c.subs[l]
          BY <4>1, <4>3, TakenSeq
        <5> QED BY <4>1, <5>1
      <4> QED BY <4>2, <4>3
    <3>2. PICK k \in DOMAIN c.subs[l] : s[i] = c.subs[l][k]
      BY <3>1
    <3>3. Fits(l, s[i])
      BY <3>2, TreeFacts DEF Follows
    <3>4. DOMAIN s[i].subs = Range(n)
      BY <1>2, <3>3 DEF Fits
    <3>5. s[i] \in Inside(t)
      BY <2>1
    <3> QED BY <3>4, <3>5
  <2> HIDE DEF s, n
  <2>5. ASSUME NEW i \in 1 .. Len(s)
        PROVE  /\ FlattenSeq(Row(s[i])) \in Seq(Entries(t))
               /\ \A e : InSeq(e, FlattenSeq(Row(s[i]))) <=> \E m \in Range(n) : Direct(e, s[i], m)
               /\ s[i].subs[n[1]] # <<>> =>
                    FlattenSeq(Row(s[i])) # <<>> /\ FlattenSeq(Row(s[i]))[1] = [ctx |-> s[i].subs[n[1]][1], cast |-> CastOf(n[1])]
    <3> DEFINE x == s[i]
               r == Row(x)
    <3>0. x \in Inside(t) /\ DOMAIN x.subs = Range(n)
      BY <2>4
    <3>1. DOMAIN n = 1 .. Len(n) /\ Len(n) \in Nat /\ Len(n) # 0
      BY <2>2
    <3> HIDE DEF x
    <3>2. ASSUME NEW j \in 1 .. Len(n)
          PROVE  Labelled(x, n[j]) \in Seq(Entries(t)) /\ (\A e : InSeq(e, Labelled(x, n[j])) <=> Direct(e, x, n[j]))
                 /\ (x.subs[n[j]] # <<>> => Labelled(x, n[j]) # <<>> /\ Labelled(x, n[j])[1] = [ctx |-> x.subs[n[j]][1], cast |-> CastOf(n[j])])
      <4>1. n[j] \in DOMAIN x.subs
        BY <2>2, <3>0, <3>1
      <4>2. Taken(x, n[j]) \in Seq(Within(t)) 
        BY <3>0, <4>1, TakenSeq
      <4>3. Taken(x, n[j]) = x.subs[n[j]]
        <5>1. n[j] \in Parts
          BY <2>2
        <5> QED BY <3>0, <4>1, <5>1, TakenSeq, LabelFacts
      <4> QED BY <4>2, <4>3, LabelledSeq
    <3>3. r \in Seq(Seq(Entries(t))) /\ Len(r) = Len(n) /\ \A j \in 1 .. Len(n) : r[j] = Labelled(x, n[j])
      <4>1. r = [j \in 1 .. Len(n) |-> Labelled(x, n[j])]
        BY <3>1
      <4> HIDE DEF r
      <4>2. \A j \in 1 .. Len(n) : Labelled(x, n[j]) \in Seq(Entries(t))
        BY <3>2
      <4> QED BY <3>1, <4>1, <4>2
    <3> HIDE DEF r
    <3>4. /\ FlattenSeq(r) \in Seq(Entries(t))
          /\ \A e : InSeq(e, FlattenSeq(r)) <=> \E j \in 1 .. Len(n) : InSeq(e, r[j])
          /\ r[1] # <<>> => FlattenSeq(r) # <<>> /\ FlattenSeq(r)[1] = r[1][1]
      BY <3>1, <3>3, FlattenSeqElements
    <3>5. \A e : InSeq(e, FlattenSeq(r)) <=> \E m \in Range(n) : Direct(e, x, m)
      <4>1. \A m : m \in Range(n) <=> \E j \in 1 .. Len(n) : n[j] = m
        BY <3>1, RangeElements
      <4>2. \A e, j : j \in 1 .. Len(n) => (InSeq(e, r[j]) <=> Direct(e, x, n[j]))
        BY <3>2, <3>3
      <4> SUFFICES ASSUME NEW e PROVE InSeq(e, FlattenSeq(r)) <=> \E m \in Range(n) : Direct(e, x, m)
        OBVIOUS
      <4>3. InSeq(e, FlattenSeq(r)) <=> \E j \in 1 .. Len(n) : InSeq(e, r[j])
        BY <3>4
      <4>4. (\E j \in 1 .. Len(n) : InSeq(e, r[j])) <=> \E j \in 1 .. Len(n) : Direct(e, x, n[j])
        BY <4>2
      <4>5. (\E j \in 1 .. Len(n) : Direct(e, x, n[j])) <=> \E m \in Range(n) : Direct(e, x, m)
        BY <4>1
      <4> QED BY <4>3, <4>4, <4>5
    <3>6. x.subs[n[1]] # <<>> => FlattenSeq(r) # <<>> /\ FlattenSeq(r)[1] = [ctx |-> x.subs[n[1]][1], cast |-> CastOf(n[1])]
      <4>1. 1 \in 1 .. Len(n)
        BY <3>1
      <4> SUFFICES ASSUME x.subs[n[1]] # <<>>
                   PROVE  FlattenSeq(r) # <<>> /\ FlattenSeq(r)[1] = [ctx |-> x.subs[n[1]][1], cast |-> CastOf(n[1])]
        OBVIOUS
      <4>2. r[1] # <<>> /\ r[1][1] = [ctx |-> x.subs[n[1]][1], cast |-> CastOf(n[1])]
        BY <3>2, <3>3, <4>1
      <4> QED BY <3>4, <4>2
    <3> QED BY <3>4, <3>5, <3>6 DEF r, x
  <2>6. DOMAIN s = 1 .. Len(s) /\ Len(s) \in Nat
    BY <2>1
  <2>7. Rows \in Seq(Seq(Entries(t))) /\ Len(Rows) = Len(s) /\ \A i \in 1 .. Len(s) : Rows[i] = FlattenSeq(Row(s[i]))
    <3> HIDE DEF Row
    <3>1. Rows = [i \in 1 .. Len(s) |-> FlattenSeq(Row(s[i]))]
      BY <2>6
    <3>2. \A i \in 1 .. Len(s) : FlattenSeq(Row(s[i])) \in Seq(Entries(t))
      BY <2>5
    <3> HIDE DEF Rows
    <3> QED BY <2>6, <3>1, <3>2
  <2> HIDE DEF Rows, Row
  <2>8. /\ Listed(c, l) \in Seq(Entries(t))
        /\ \A e : InSeq(e, Listed(c, l)) <=> \E i \in 1 .. Len(s) : InSeq(e, Rows[i])
        /\ Len(s) # 0 /\ Rows[1] # <<>> => Listed(c, l) # <<>> /\ Listed(c, l)[1] = Rows[1][1]
    BY <2>3, <2>7, FlattenSeqElements
  <2>9. \A e : InSeq(e, Listed(c, l)) <=> Asked(e, c, l)
    <3>1. \A e : Asked(e, c, l) <=> \E i \in 1 .. Len(s) : \E m \in Range(n) : Direct(e, s[i], m)
      BY <1>2 DEF Asked, s, n
    <3>2. \A e, i : i \in 1 .. Len(s) => (InSeq(e, Rows[i]) <=> \E m \in Range(n) : Direct(e, s[i], m))
      BY <2>5, <2>7
    <3>3. \A e : InSeq(e, Listed(c, l)) <=> \E i \in 1 .. Len(s) : InSeq(e, Rows[i])
      BY <2>8
    <3> QED BY <3>1, <3>2, <3>3, Zenon
  <2>10. ASSUME l = "patternBindings", c.subs[l] # <<>>, c.subs[l][1].subs["pat"] # <<>>
         PROVE  Listed(c, l) # <<>> /\ Listed(c, l)[1] = [ctx |-> c.subs[l][1].subs["pat"][1], cast |-> CastOf("pat")]
    <3>1. s = <<c.subs[l][1]>> /\ Len(s) = 1 /\ s[1] = c.subs[l][1]
      BY <2>10, TakenSeq DEF Single, s
    <3>2. n[1] = "pat"
      BY <2>10, InlineFacts DEF n
    <3>3. s[1].subs[n[1]] # <<>> /\ s[1].subs[n[1]][1] = c.subs[l][1].subs["pat"][1]
      BY <2>10, <3>1, <3>2
    <3>4. Rows[1] # <<>> /\ Rows[1][1] = [ctx |-> s[1].subs[n[1]][1], cast |-> CastOf(n[1])]
      <4>1. 1 \in 1 .. Len(s)
        BY <3>1
      <4>2. /\ FlattenSeq(Row(s[1])) # <<>>
            /\ FlattenSeq(Row(s[1]))[1] = [ctx |-> s[1].subs[n[1]][1], cast |-> CastOf(n[1])]
        BY <2>5, <3>3, <4>1
      <4>3. Rows[1] = FlattenSeq(Row(s[1]))
        BY <2>7, <4>1
      <4> QED BY <4>2, <4>3
    <3> QED BY <2>8, <3>1, <3>2, <3>3, <3>4
  <2> QED BY <2>8, <2>9, <2>10
<1> QED BY <1>1, <1>2

PatternRules == {"PatternVar", "PatternInl", "PatternInr", "PatternVariant", "PatternCastAs"}

LEMMA CallsElements ==
  ASSUME NEW t \in ParseTrees, NEW c \in Inside(t), c.rule \in DOMAIN Rules
  PROVE  /\ Calls(c) \in Seq(Entries(t))
         /\ \A e : InSeq(e, Calls(c)) <=> \E l \in DOMAIN c.subs : Asked(e, c, l)
         /\ c.rule = "Let" =>
              /\ Calls(c) # <<>>
              /\ c.subs["patternBindings"][1].subs["pat"] # <<>>
              /\ Calls(c)[1] = [ctx |-> c.subs["patternBindings"][1].subs["pat"][1], cast |-> "NodePattern"]
<1> DEFINE n == Rules[c.rule]
           r == [i \in DOMAIN n |-> Listed(c, n[i])]
<1>1. Calls(c) = FlattenSeq(r)
  BY DEF Calls, Listed
<1>2. n \in Seq(STRING)
  BY RulesAssumption
<1>3. \A m : m \in DOMAIN c.subs <=> \E i \in DOMAIN n : n[i] = m
  BY TreeFacts, RangeElements DEF Follows
<1>4. c.rule = "Let" => n[1] = "patternBindings" /\ Len(n) = 2
  BY RulesAssumption
<1> HIDE DEF n
<1>5. DOMAIN n = 1 .. Len(n) /\ Len(n) \in Nat
  BY <1>2
<1>6. ASSUME NEW i \in 1 .. Len(n)
      PROVE  Listed(c, n[i]) \in Seq(Entries(t)) /\ \A e : InSeq(e, Listed(c, n[i])) <=> Asked(e, c, n[i])
  <2>1. n[i] \in DOMAIN c.subs
    BY <1>3, <1>5
  <2> QED BY <2>1, ListedSeq
<1>7. r \in Seq(Seq(Entries(t))) /\ Len(r) = Len(n) /\ \A i \in 1 .. Len(n) : r[i] = Listed(c, n[i])
  <2>1. r = [i \in 1 .. Len(n) |-> Listed(c, n[i])]
    BY <1>5
  <2> HIDE DEF r
  <2> QED BY <1>5, <1>6, <2>1
<1> HIDE DEF r
<1>8. /\ Calls(c) \in Seq(Entries(t))
      /\ \A e : InSeq(e, Calls(c)) <=> \E i \in 1 .. Len(n) : InSeq(e, r[i])
      /\ Len(n) # 0 /\ r[1] # <<>> => Calls(c) # <<>> /\ Calls(c)[1] = r[1][1]
  BY <1>1, <1>7, FlattenSeqElements
<1>9. \A e : InSeq(e, Calls(c)) <=> \E l \in DOMAIN c.subs : Asked(e, c, l)
  <2>1. \A e, i : i \in 1 .. Len(n) => (InSeq(e, r[i]) <=> Asked(e, c, n[i]))
    BY <1>6, <1>7
  <2>2. \A e : InSeq(e, Calls(c)) <=> \E i \in 1 .. Len(n) : InSeq(e, r[i])
    BY <1>8
  <2>3. \A m : m \in DOMAIN c.subs <=> \E i \in 1 .. Len(n) : n[i] = m
    BY <1>3, <1>5
  <2> QED BY <2>1, <2>2, <2>3, ZenonT(30)
<1>10. ASSUME c.rule = "Let"
       PROVE  /\ Calls(c) # <<>>
              /\ c.subs["patternBindings"][1].subs["pat"] # <<>>
              /\ Calls(c)[1] = [ctx |-> c.subs["patternBindings"][1].subs["pat"][1], cast |-> "NodePattern"]
  <2>1. Len(n) = 2 /\ n[1] = "patternBindings" /\ 1 \in 1 .. Len(n)
    <3>1. Len(n) = 2 /\ n[1] = "patternBindings"
      BY <1>4, <1>10
    <3>2. 1 \in 1 .. 2
      OBVIOUS
    <3> QED BY <3>1, <3>2
  <2>2. "patternBindings" \in DOMAIN c.subs
    BY <1>3, <1>5, <2>1
  <2>3. c.subs["patternBindings"] \in Seq(Inside(t)) /\ c.subs["patternBindings"] # <<>>
    BY <1>10, <2>2, TreeFacts DEF Follows
  <2> DEFINE s == c.subs["patternBindings"][1]
  <2>4. 1 \in DOMAIN c.subs["patternBindings"] /\ s \in Inside(t)
    BY <2>3
  <2>5. Fits("patternBindings", s)
    BY <2>2, <2>4, TreeFacts DEF Follows
  <2>6. s.rule \in Inner /\ "pat" \in DOMAIN s.subs
    <3>1. s.rule \in Inner /\ DOMAIN s.subs = Range(Inline["patternBindings"])
      BY <2>5, InlineFacts DEF Fits
    <3>2. \E i \in DOMAIN Inline["patternBindings"] : Inline["patternBindings"][i] = "pat"
      <4>1. 1 \in DOMAIN <<"pat", "rhs">> /\ <<"pat", "rhs">>[1] = "pat"
        OBVIOUS
      <4> QED BY <4>1, InlineFacts
    <3> QED BY <3>1, <3>2, RangeElements
  <2>7. "pat" \in Once(s)
    BY <2>6 DEF Once, Inner, Transparent
  <2>8. Len(s.subs["pat"]) = 1 /\ s.subs["pat"] \in Seq(Inside(t))
    BY <2>4, <2>6, <2>7, TreeFacts DEF Follows
  <2>9. s.subs["pat"] # <<>>
    BY <2>8
  <2>10. Listed(c, "patternBindings") # <<>> /\ Listed(c, "patternBindings")[1] = [ctx |-> s.subs["pat"][1], cast |-> "NodePattern"]
    <3>1. CastOf("pat") = "NodePattern"
      BY DEF CastOf
    <3> QED BY <2>2, <2>3, <2>9, <3>1, ListedSeq
  <2>11. r[1] = Listed(c, "patternBindings")
    BY <1>7, <2>1
  <2> QED BY <1>8, <2>1, <2>9, <2>10, <2>11
<1> QED BY <1>8, <1>9, <1>10

(* What a context below stands for.                                        *)
LEMMA SubFacts ==
  ASSUME NEW t \in ParseTrees, NEW c \in Inside(t), NEW l \in DOMAIN c.subs, NEW i \in 1 .. Len(c.subs[l])
  PROVE  /\ c.subs[l][i] \in Inside(t)
         /\ Inside(c.subs[l][i]) \subseteq Inside(c)
         /\ Fits(l, c.subs[l][i])
<1>1. c.subs[l] \in Seq(Inside(t))
  BY TreeFacts
<1>2. i \in DOMAIN c.subs[l] /\ c.subs[l][i] \in Inside(t)
  BY <1>1
<1>3. Inside(c.subs[l][i]) \subseteq Below_(c)
  BY <1>2 DEF Below_
<1> QED BY <1>2, <1>3, TreeFacts DEF Follows

LEMMA TakenFacts ==
  ASSUME NEW t \in ParseTrees, NEW c \in Inside(t), NEW l \in DOMAIN c.subs, NEW i \in 1 .. Len(Taken(c, l))
  PROVE  \/ Taken(c, l)[i] = Null /\ c.subs[l] = <<>> /\ l \in Assumed
         \/ \E k \in 1 .. Len(c.subs[l]) : Taken(c, l)[i] = c.subs[l][k]
<1>1. c.subs[l] \in Seq(Inside(t))
  BY TreeFacts
<1>2. CASE c.subs[l] = <<>> /\ l \in Assumed
  <2>1. Taken(c, l) = <<Null>>
    BY <1>2, TakenSeq
  <2>2. i = 1
    BY <2>1
  <2> QED BY <1>2, <2>1, <2>2
<1>3. CASE c.subs[l] # <<>> /\ l \in Single
  <2>1. Taken(c, l) = <<c.subs[l][1]>>
    BY <1>3, TakenSeq
  <2>2. i = 1 /\ 1 \in 1 .. Len(c.subs[l])
    BY <1>1, <1>3, <2>1
  <2> QED BY <2>1, <2>2
<1>4. CASE ~(c.subs[l] = <<>> /\ l \in Assumed) /\ ~(c.subs[l] # <<>> /\ l \in Single)
  <2>1. Taken(c, l) = c.subs[l]
    BY <1>4, TakenSeq
  <2> QED BY <2>1
<1> QED BY <1>2, <1>3, <1>4

(* A visitor visits the contexts of its own, or a null pointer where one   *)
(* is missing.                                                             *)
SoundCall(e, c, t) ==
  \/ e.ctx = Null /\ \E l \in DOMAIN c.subs \cap Assumed : c.subs[l] = <<>>
  \/ /\ e.ctx # Null /\ e.ctx \in Inside(t) /\ Inside(e.ctx) \subseteq Inside(c)
     /\ e.ctx.rule \notin Inner \cup {"Program"}
     /\ e.ctx.rule \in DOMAIN Rules => ClassOf(e.ctx.rule) = e.cast

LEMMA DirectFacts ==
  ASSUME NEW t \in ParseTrees, NEW c \in Inside(t), NEW l \in DOMAIN c.subs, l \notin DOMAIN Inline,
         NEW e, Direct(e, c, l)
  PROVE  SoundCall(e, c, t) /\ e.cast = CastOf(l) /\ (l \notin Assumed => e.ctx # Null)
<1>1. PICK i \in 1 .. Len(Taken(c, l)) : e = [ctx |-> Taken(c, l)[i], cast |-> CastOf(l)]
  BY DEF Direct
<1>2. e.ctx = Taken(c, l)[i] /\ e.cast = CastOf(l)
  BY <1>1
<1>3. CASE Taken(c, l)[i] = Null /\ c.subs[l] = <<>> /\ l \in Assumed
  BY <1>2, <1>3 DEF SoundCall
<1>4. ASSUME NEW k \in 1 .. Len(c.subs[l]), Taken(c, l)[i] = c.subs[l][k]
      PROVE  SoundCall(e, c, t) /\ e.ctx # Null
  <2>1. e.ctx \in Inside(t) /\ Inside(e.ctx) \subseteq Inside(c) /\ Fits(l, e.ctx)
    BY <1>2, <1>4, SubFacts
  <2>2. /\ e.ctx.rule \notin Inner \cup {"Program"} /\ e.ctx.rule # "null"
        /\ e.ctx.rule \in DOMAIN Rules => ClassOf(e.ctx.rule) = CastOf(l)
    BY <2>1 DEF Fits
  <2>3. e.ctx # Null
    BY <2>2 DEF Null
  <2> QED BY <1>2, <2>1, <2>2, <2>3 DEF SoundCall
<1> QED BY <1>2, <1>3, <1>4, TakenFacts

LEMMA CallFacts ==
  ASSUME NEW t \in ParseTrees, NEW c \in Inside(t), c.rule \in DOMAIN Rules, NEW k \in 1 .. Len(Calls(c))
  PROVE  /\ SoundCall(Calls(c)[k], c, t)
         /\ c.rule \in PatternRules => Calls(c)[k].cast \in {"NodePattern", "Type"}
         /\ Calls(c)[k].cast \in Casts
<1> DEFINE e == Calls(c)[k]
<1>1. InSeq(e, Calls(c))
  BY DEF InSeq
<1>2. e \in Entries(t)
  <2>1. Calls(c) \in Seq(Entries(t))
    BY CallsElements
  <2> QED BY <2>1
<1>3. PICK l \in DOMAIN c.subs : Asked(e, c, l)
  BY <1>1, CallsElements
<1> HIDE DEF e
<1>4. CASE l \notin DOMAIN Inline
  <2>1. SoundCall(e, c, t) /\ e.cast = CastOf(l)
    BY <1>3, <1>4, DirectFacts DEF Asked
  <2>2. c.rule \in PatternRules => CastOf(l) \in {"NodePattern", "Type"}
    <3>1. c.rule \in PatternRules => l \in {"pattern_", "type_"}
      BY TreeFacts, RulesAssumption DEF Follows, PatternRules
    <3> QED BY <3>1 DEF CastOf
  <2> QED BY <1>2, <2>1, <2>2 DEF e, Entries
<1>5. CASE l \in DOMAIN Inline
  <2>1. PICK i \in 1 .. Len(Taken(c, l)) : \E m \in Range(Inline[l]) : Direct(e, Taken(c, l)[i], m)
    BY <1>3, <1>5 DEF Asked
  <2>2. PICK m \in Range(Inline[l]) : Direct(e, Taken(c, l)[i], m)
    BY <2>1
  <2>3. PICK j \in 1 .. Len(c.subs[l]) : Taken(c, l)[i] = c.subs[l][j]
    BY <1>5, TakenFacts, LabelFacts
  <2> DEFINE s == c.subs[l][j]
  <2>4. s \in Inside(t) /\ Inside(s) \subseteq Inside(c) /\ Fits(l, s)
    BY SubFacts
  <2> HIDE DEF s
  <2>5. m \in DOMAIN s.subs /\ m \notin DOMAIN Inline /\ m \notin Assumed
    <3>1. DOMAIN s.subs = Range(Inline[l])
      BY <1>5, <2>4 DEF Fits
    <3>2. m \in Parts
      BY <1>5, InlineFacts
    <3> QED BY <3>1, <3>2, LabelFacts
  <2>6. Direct(e, s, m)
    BY <2>2, <2>3 DEF s
  <2>7. SoundCall(e, s, t) /\ e.ctx # Null
    BY <2>4, <2>5, <2>6, DirectFacts
  <2>8. SoundCall(e, c, t)
    BY <2>4, <2>7 DEF SoundCall
  <2>9. c.rule \notin PatternRules
    <3>1. c.rule \in PatternRules => l \in {"pattern_", "type_"}
      BY TreeFacts, RulesAssumption DEF Follows, PatternRules
    <3> QED BY <1>5, <3>1, InlineFacts
  <2> QED BY <1>2, <2>8, <2>9 DEF e, Entries
<1> QED BY <1>4, <1>5

LEMMA LetCalls ==
  ASSUME NEW t \in ParseTrees, NEW c \in Inside(t), c.rule \in DOMAIN Rules, c.rule = "Let"
  PROVE  /\ Len(Calls(c)) >= 2
         /\ Calls(c)[1].cast = "NodePattern"
         /\ Calls(c)[1].ctx = c.subs.patternBindings[1].subs.pat[1]
<1>0. /\ Calls(c) \in Seq(Entries(t)) /\ Calls(c) # <<>>
      /\ Calls(c)[1] = [ctx |-> c.subs["patternBindings"][1].subs["pat"][1], cast |-> "NodePattern"]
      /\ \A e : InSeq(e, Calls(c)) <=> \E l \in DOMAIN c.subs : Asked(e, c, l)
  BY CallsElements
<1>1. Calls(c) \in Seq(Entries(t)) /\ Calls(c) # <<>>
  BY <1>0
<1>2. Len(Calls(c)) \in Nat /\ Len(Calls(c)) # 0
  BY <1>1
<1>3. c.subs.patternBindings[1].subs.pat[1] = c.subs["patternBindings"][1].subs["pat"][1]
  OBVIOUS
<1>4. Calls(c)[1].ctx = c.subs.patternBindings[1].subs.pat[1]
  BY <1>0, <1>3
<1>5. {"patternBindings", "body"} \subseteq DOMAIN c.subs
  <2>1. DOMAIN c.subs = Range(Rules["Let"])
    BY TreeFacts DEF Follows
  <2>2. <<"patternBindings", "body">>[1] = "patternBindings" /\ 1 \in DOMAIN <<"patternBindings", "body">>
        /\ <<"patternBindings", "body">>[2] = "body" /\ 2 \in DOMAIN <<"patternBindings", "body">>
    OBVIOUS
  <2> QED BY <2>1, <2>2, RulesAssumption, RangeElements
<1>6. "body" \notin DOMAIN Inline /\ "body" \notin Assumed /\ "body" \notin Single /\ CastOf("body") = "NodeExpr"
  BY InlineFacts DEF Assumed, Single, CastOf
<1>7. Len(c.subs["body"]) = 1 /\ c.subs["body"] \in Seq(Inside(t)) /\ Taken(c, "body") = c.subs["body"]
  <2>1. "body" \in Once(c)
    BY DEF Once, Transparent
  <2> QED BY <1>5, <1>6, <2>1, TreeFacts, TakenSeq DEF Follows
<1> DEFINE b == [ctx |-> Taken(c, "body")[1], cast |-> "NodeExpr"]
<1>8. Asked(b, c, "body")
  <2>1. Direct(b, c, "body")
    BY <1>6, <1>7 DEF Direct
  <2> QED BY <1>6, <2>1 DEF Asked
<1>9. InSeq(b, Calls(c))
  BY <1>0, <1>5, <1>8
<1>10. Calls(c)[1].cast = "NodePattern"
  BY <1>0
<1>11. Len(Calls(c)) >= 2
  <2>1. PICK k \in 1 .. Len(Calls(c)) : Calls(c)[k] = b
    BY <1>9 DEF InSeq
  <2>2. Calls(c)[k].cast = "NodeExpr"
    BY <2>1
  <2>3. k # 1
    BY <1>10, <2>2
  <2> QED BY <1>2, <2>1, <2>3
<1> QED BY <1>4, <1>10, <1>11

(* What is asked for is called.                                            *)
LEMMA CallsComplete ==
  ASSUME NEW t \in ParseTrees, NEW c \in Inside(t), c.rule \in DOMAIN Rules, ~NotSupported(c),
         NEW l \in DOMAIN c.subs
  PROVE  /\ l \in Assumed /\ c.subs[l] = <<>> =>
              \E k \in 1 .. Len(Calls(c)) : Calls(c)[k].ctx = Null
         /\ l \notin DOMAIN Inline =>
              \A i \in 1 .. Len(c.subs[l]) : \E k \in 1 .. Len(Calls(c)) : Calls(c)[k].ctx = c.subs[l][i]
         /\ l \in DOMAIN Inline =>
              \A i \in 1 .. Len(c.subs[l]) : \A m \in DOMAIN c.subs[l][i].subs :
              \A j \in 1 .. Len(c.subs[l][i].subs[m]) :
                \E k \in 1 .. Len(Calls(c)) : Calls(c)[k].ctx = c.subs[l][i].subs[m][j]
<1>0. /\ Calls(c) \in Seq(Entries(t))
      /\ \A e : InSeq(e, Calls(c)) <=> \E m \in DOMAIN c.subs : Asked(e, c, m)
  BY CallsElements
<1>1. ASSUME NEW e, NEW m \in DOMAIN c.subs, Asked(e, c, m)
      PROVE  \E k \in 1 .. Len(Calls(c)) : Calls(c)[k].ctx = e.ctx
  <2>1. InSeq(e, Calls(c))
    BY <1>0, <1>1
  <2> QED BY <2>1 DEF InSeq
<1>2. c.subs[l] \in Seq(Inside(t))
  BY TreeFacts
<1>3. l \in Single => Len(c.subs[l]) <= 1
  BY <1>2 DEF NotSupported
<1>4. ASSUME NEW i \in 1 .. Len(c.subs[l])
      PROVE  i \in 1 .. Len(Taken(c, l)) /\ Taken(c, l)[i] = c.subs[l][i]
  <2>1. c.subs[l] # <<>>
    BY <1>2, <1>4
  <2>2. CASE l \in Single
    <3>1. i = 1 /\ Taken(c, l) = <<c.subs[l][1]>>
      BY <1>2, <1>3, <1>4, <2>1, <2>2, TakenSeq
    <3> QED BY <3>1
  <2>3. CASE l \notin Single
    BY <1>4, <2>1, <2>3, TakenSeq
  <2> QED BY <2>2, <2>3
<1>5. ASSUME l \in Assumed, c.subs[l] = <<>>
      PROVE  \E k \in 1 .. Len(Calls(c)) : Calls(c)[k].ctx = Null
  <2> DEFINE e == [ctx |-> Null, cast |-> CastOf(l)]
  <2>1. Taken(c, l) = <<Null>> /\ l \notin DOMAIN Inline
    BY <1>5, TakenSeq, LabelFacts
  <2>2. Len(Taken(c, l)) = 1 /\ Taken(c, l)[1] = Null
    BY <2>1
  <2>3. Direct(e, c, l)
    BY <2>2 DEF Direct
  <2>4. Asked(e, c, l)
    BY <2>1, <2>3 DEF Asked
  <2>5. e.ctx = Null
    OBVIOUS
  <2> HIDE DEF e
  <2> QED BY <1>1, <2>4, <2>5
<1>6. ASSUME l \notin DOMAIN Inline, NEW i \in 1 .. Len(c.subs[l])
      PROVE  \E k \in 1 .. Len(Calls(c)) : Calls(c)[k].ctx = c.subs[l][i]
  <2> DEFINE e == [ctx |-> c.subs[l][i], cast |-> CastOf(l)]
  <2>1. Direct(e, c, l)
    BY <1>4 DEF Direct
  <2>2. Asked(e, c, l)
    BY <1>6, <2>1 DEF Asked
  <2>3. e.ctx = c.subs[l][i]
    OBVIOUS
  <2> HIDE DEF e
  <2> QED BY <1>1, <2>2, <2>3
<1>7. ASSUME l \in DOMAIN Inline, NEW i \in 1 .. Len(c.subs[l]), NEW m \in DOMAIN c.subs[l][i].subs,
             NEW j \in 1 .. Len(c.subs[l][i].subs[m])
      PROVE  \E k \in 1 .. Len(Calls(c)) : Calls(c)[k].ctx = c.subs[l][i].subs[m][j]
  <2> DEFINE s == c.subs[l][i]
             e == [ctx |-> s.subs[m][j], cast |-> CastOf(m)]
  <2>1. s \in Inside(t) /\ Fits(l, s)
    BY SubFacts
  <2>2. m \in Range(Inline[l]) /\ m \in Parts
    BY <1>7, <2>1, InlineFacts DEF Fits
  <2>3. Taken(s, m) = s.subs[m]
    BY <2>1, <2>2, TakenSeq, LabelFacts
  <2>4. Direct(e, s, m)
    BY <2>3 DEF Direct
  <2>5. i \in 1 .. Len(Taken(c, l)) /\ Taken(c, l)[i] = s
    BY <1>4
  <2>6. e.ctx = s.subs[m][j]
    OBVIOUS
  <2> HIDE DEF e, s
  <2>7. Asked(e, c, l)
    BY <1>7, <2>2, <2>4, <2>5 DEF Asked
  <2> QED BY <1>1, <2>6, <2>7 DEF s
<1> QED BY <1>5, <1>6, <1>7

(* A visitor that comes to its end has a supported construct.              *)
LEMMA AllSupported ==
  ASSUME NEW t \in ParseTrees, NEW c \in Inside(t), c.rule \in DOMAIN Rules, ~NotSupported(c), ~OutOfRange(c),
         \A k \in 1 .. Len(Calls(c)) : Calls(c)[k].ctx # Null /\ \A d \in Inside(Calls(c)[k].ctx) : Supported(d),
         c.rule = "Let" => Calls(c)[1].ctx.rule = "PatternVar"
  PROVE  \A d \in Inside(c) : Supported(d)
<1>1. Supported(c)
  <2>1. ASSUME NEW l \in DOMAIN c.subs, l \in Single \cup Assumed
        PROVE  Len(c.subs[l]) = 1
    <3>1. c.subs[l] \in Seq(Inside(t)) /\ Len(c.subs[l]) \in Nat
      BY TreeFacts
    <3>2. l \in Single => Len(c.subs[l]) <= 1
      BY <3>1 DEF NotSupported
    <3>3. l = "returnType" => Len(c.subs[l]) <= 1
      BY TreeFacts DEF Follows
    <3>4. Assumed \subseteq Single \cup {"returnType"}
      BY DEF Assumed, Single
    <3>5. l \in Assumed => c.subs[l] # <<>>
      BY CallsComplete
    <3>7. l = "patternBindings" => c.subs[l] # <<>>
      BY TreeFacts DEF Follows
    <3>8. Single \subseteq Assumed \cup {"patternBindings"}
      BY DEF Assumed, Single
    <3>9. c.subs[l] # <<>> /\ Len(c.subs[l]) <= 1
      BY <2>1, <3>2, <3>3, <3>4, <3>5, <3>7, <3>8
    <3> DEFINE n == Len(c.subs[l])
    <3>10. n # 0
      BY <3>1, <3>9
    <3>11. n \in Nat /\ n <= 1
      BY <3>1, <3>9
    <3> HIDE DEF n
    <3>12. n = 1
      BY <3>10, <3>11
    <3> QED BY <3>12 DEF n
  <2>2. c.rule = "Let" => c.subs.patternBindings[1].subs.pat[1].rule = "PatternVar"
    BY LetCalls
  <2>3. c.rule \in {"ConstInt", "DotTuple"} => c.text[1] <= IntMax
    <3> SUFFICES ASSUME c.rule \in {"ConstInt", "DotTuple"} PROVE c.text[1] <= IntMax
      OBVIOUS
    <3>1. c.text[1] \in Nat /\ IntMax \in Nat
      BY TreeFacts, GrammarAssumption DEF Follows
    <3>2. ~(c.text[1] > IntMax)
      BY DEF OutOfRange
    <3> QED BY <3>1, <3>2
  <2> QED BY <2>1, <2>2, <2>3 DEF Supported
<1>2. ASSUME NEW l \in DOMAIN c.subs, NEW i \in 1 .. Len(c.subs[l]), NEW d \in Inside(c.subs[l][i])
      PROVE  Supported(d)
  <2>1. CASE l \notin DOMAIN Inline
    <3>1. PICK k \in 1 .. Len(Calls(c)) : Calls(c)[k].ctx = c.subs[l][i]
      BY <2>1, CallsComplete
    <3> QED BY <3>1
  <2>2. CASE l \in DOMAIN Inline
    <3> DEFINE s == c.subs[l][i]
    <3>1. s \in Inside(t) /\ Fits(l, s)
      BY SubFacts
    <3>2. s.rule \in Inner /\ DOMAIN s.subs = Range(Inline[l])
      BY <2>2, <3>1 DEF Fits
    <3>3. Supported(s)
      <4>1. \A m \in DOMAIN s.subs : m \notin Single \cup Assumed
        BY <2>2, <3>2, InlineFacts, LabelFacts
      <4>2. s.rule \notin {"Let", "ConstInt", "DotTuple"}
        BY <3>2 DEF Inner
      <4> QED BY <3>2, <4>1, <4>2 DEF Supported
    <3>4. ASSUME NEW m \in DOMAIN s.subs, NEW j \in 1 .. Len(s.subs[m]), d \in Inside(s.subs[m][j])
          PROVE  Supported(d)
      <4>1. PICK k \in 1 .. Len(Calls(c)) : Calls(c)[k].ctx = s.subs[m][j]
        BY <2>2, CallsComplete
      <4> QED BY <3>4, <4>1
    <3>5. d = s \/ \E m \in DOMAIN s.subs : \E j \in DOMAIN s.subs[m] : d \in Inside(s.subs[m][j])
      BY <1>2, <3>1, TreeFacts DEF Below_
    <3>6. \A m \in DOMAIN s.subs : DOMAIN s.subs[m] = 1 .. Len(s.subs[m])
      <4>1. \A m \in DOMAIN s.subs : s.subs[m] \in Seq(Inside(t))
        BY <3>1, TreeFacts
      <4> QED BY <4>1
    <3> QED BY <3>3, <3>4, <3>5, <3>6
  <2> QED BY <2>1, <2>2
<1>3. ASSUME NEW d \in Inside(c), d # c
      PROVE  \E l \in DOMAIN c.subs : \E i \in 1 .. Len(c.subs[l]) : d \in Inside(c.subs[l][i])
  <2>1. \E l \in DOMAIN c.subs : \E i \in DOMAIN c.subs[l] : d \in Inside(c.subs[l][i])
    BY <1>3, TreeFacts DEF Below_
  <2>2. \A l \in DOMAIN c.subs : DOMAIN c.subs[l] = 1 .. Len(c.subs[l])
    <3>1. \A l \in DOMAIN c.subs : c.subs[l] \in Seq(Inside(t))
      BY TreeFacts
    <3> QED BY <3>1
  <2> QED BY <2>1, <2>2
<1> QED BY <1>1, <1>2, <1>3

IsSeq(s) == \E S : s \in Seq(S)

LEMMA SeqRetype ==
  ASSUME NEW s, IsSeq(s), NEW X, \A j \in 1 .. Len(s) : s[j] \in X
  PROVE  s \in Seq(X)
<1>1. PICK S : s \in Seq(S)
  BY DEF IsSeq
<1>2. Len(s) \in Nat /\ s = [j \in 1 .. Len(s) |-> s[j]]
  BY <1>1
<1> QED BY <1>2

LEMMA IsSeqFacts ==
  ASSUME NEW s, IsSeq(s)
  PROVE  /\ Len(s) \in Nat /\ DOMAIN s = 1 .. Len(s)
         /\ s = <<>> <=> Len(s) = 0
         /\ \A x : /\ IsSeq(Append(s, x)) /\ Len(Append(s, x)) = Len(s) + 1
                   /\ \A i \in 1 .. Len(s) : Append(s, x)[i] = s[i]
                   /\ Append(s, x)[Len(s) + 1] = x
         /\ s # <<>> => /\ IsSeq(SubSeq(s, 1, Len(s) - 1)) /\ Len(SubSeq(s, 1, Len(s) - 1)) = Len(s) - 1
                        /\ \A i \in 1 .. Len(s) - 1 : SubSeq(s, 1, Len(s) - 1)[i] = s[i]
<1>1. PICK S : s \in Seq(S)
  BY DEF IsSeq
<1>2. ASSUME NEW x
      PROVE  /\ IsSeq(Append(s, x)) /\ Len(Append(s, x)) = Len(s) + 1
             /\ \A i \in 1 .. Len(s) : Append(s, x)[i] = s[i]
             /\ Append(s, x)[Len(s) + 1] = x
  <2>1. s \in Seq(S \cup {x})
    BY <1>1
  <2>2. Append(s, x) \in Seq(S \cup {x})
    BY <2>1
  <2>3. IsSeq(Append(s, x))
    BY <2>2 DEF IsSeq
  <2>4. Len(Append(s, x)) = Len(s) + 1 /\ Append(s, x)[Len(s) + 1] = x
    BY <2>1
  <2>5. \A i \in 1 .. Len(s) : Append(s, x)[i] = s[i]
    BY <2>1
  <2> QED BY <2>3, <2>4, <2>5
<1>3. ASSUME s # <<>>
      PROVE  /\ IsSeq(SubSeq(s, 1, Len(s) - 1)) /\ Len(SubSeq(s, 1, Len(s) - 1)) = Len(s) - 1
             /\ \A i \in 1 .. Len(s) - 1 : SubSeq(s, 1, Len(s) - 1)[i] = s[i]
  <2>1. Len(s) \in Nat /\ Len(s) # 0
    BY <1>1, <1>3
  <2>2. SubSeq(s, 1, Len(s) - 1) \in Seq(S)
    BY <1>1, <2>1
  <2>3. IsSeq(SubSeq(s, 1, Len(s) - 1))
    BY <2>2 DEF IsSeq
  <2>4. Len(SubSeq(s, 1, Len(s) - 1)) = Len(s) - 1
    <3>1. (\A i \in 1 .. Len(s) - 1 : s[i] \in S) /\ Len(s) - 1 \in Int
      BY <1>1, <2>1
    <3> DEFINE u == SubSeq(s, 1, Len(s) - 1)
               n == Len(s)
    <3>2. Len(u) = IF 1 <= n - 1 THEN n - 1 - 1 + 1 ELSE 0
      BY <3>1, SubSeqProperties
    <3>3. n \in Nat /\ n # 0
      BY <2>1
    <3> HIDE DEF u, n
    <3>4. Len(u) = n - 1
      BY <3>2, <3>3
    <3> QED BY <3>4 DEF u, n
  <2>5. \A i \in 1 .. Len(s) - 1 : SubSeq(s, 1, Len(s) - 1)[i] = s[i]
    BY <1>1, <2>1
  <2> QED BY <2>3, <2>4, <2>5
<1> QED BY <1>1, <1>2, <1>3

LEMMA EmptyIsSeq == IsSeq(<<>>)
BY DEF IsSeq

(* The result of a child replaces nothing of its caller but what it has.   *)
LEMMA ReplaceLast ==
  ASSUME NEW s, IsSeq(s), s # <<>>, NEW r, s[Len(s)] = [ctx |-> s[Len(s)].ctx, done |-> s[Len(s)].done]
  PROVE  LET u == [s EXCEPT ![Len(s)].done = Append(@, r)]
         IN  /\ IsSeq(u) /\ Len(u) = Len(s)
             /\ \A i \in 1 .. Len(s) - 1 : u[i] = s[i]
             /\ u[Len(s)] = [ctx |-> s[Len(s)].ctx, done |-> Append(s[Len(s)].done, r)]
<1> DEFINE x == [s[Len(s)] EXCEPT !.done = Append(@, r)]
           u == [s EXCEPT ![Len(s)] = x]
<1>1. x = [ctx |-> s[Len(s)].ctx, done |-> Append(s[Len(s)].done, r)]
  OBVIOUS
<1>2. [s EXCEPT ![Len(s)].done = Append(@, r)] = u
  OBVIOUS
<1> HIDE DEF x
<1>3. PICK S : s \in Seq(S)
  BY DEF IsSeq
<1>4. Len(s) \in 1 .. Len(s) /\ s \in Seq(S \cup {x})
  BY <1>3
<1>5. u \in Seq(S \cup {x}) /\ Len(u) = Len(s)
  BY <1>4
<1>6. IsSeq(u)
  BY <1>5 DEF IsSeq
<1>7. (\A i \in 1 .. Len(s) - 1 : u[i] = s[i]) /\ u[Len(s)] = x
  BY <1>4
<1> HIDE DEF u
<1> QED BY <1>1, <1>2, <1>5, <1>6, <1>7

-----------------------------------------------------------------------------
(* What a visit of context c returns.                                      *)
Returned(r, c) ==
  /\ r.class = ClassOf(c.rule)
  /\ r.class = "NodePattern" => IsSeq(r.nodes) /\ r.nodes # <<>> /\ r.nodes[1].kind = c.rule

(* The children of a frame that have returned.                             *)
Done(v, k) ==
  /\ Calls(v.ctx)[k].ctx # Null
  /\ Returned(v.done[k], Calls(v.ctx)[k].ctx)
  /\ \A d \in Inside(Calls(v.ctx)[k].ctx) : Supported(d)

FrameOK(vs, t, i) ==
  /\ vs[i] = [ctx |-> vs[i].ctx, done |-> vs[i].done]
  /\ vs[i].ctx \in Inside(t) /\ Inside(vs[i].ctx) \subseteq Inside(t)
  /\ vs[i].ctx.rule \notin Inner
  /\ IF i = 1 THEN vs[i].ctx = t ELSE vs[i].ctx.rule # "Program"
  /\ IsSeq(vs[i].done)
  /\ vs[i].done # <<>> \/ i < Len(vs) => vs[i].ctx.rule \in DOMAIN Rules /\ ~NotSupported(vs[i].ctx)
  /\ vs[i].ctx.rule \in DOMAIN Rules => Len(vs[i].done) <= Len(Calls(vs[i].ctx))
  /\ i < Len(vs) => /\ Len(vs[i].done) < Len(Calls(vs[i].ctx))
                    /\ vs[i + 1].ctx = Calls(vs[i].ctx)[Len(vs[i].done) + 1].ctx
                    /\ vs[i + 1].ctx # Null
  /\ \A k \in 1 .. Len(vs[i].done) : Done(vs[i], k)
  /\ vs[i].ctx.rule = "Let" /\ (Len(vs[i].done) >= 2 \/ (Len(vs[i].done) = 1 /\ i < Len(vs))) =>
       Calls(vs[i].ctx)[1].ctx.rule = "PatternVar"
FramesOK(vs, t) == IsSeq(vs) /\ \A i \in 1 .. Len(vs) : FrameOK(vs, t, i)

(* A frame's conditions look no further than the frame above.              *)
LEMMA FrameSame ==
  ASSUME NEW t, NEW vs, NEW us, NEW i \in 1 .. Len(vs), FrameOK(vs, t, i), us[i] = vs[i],
         Len(us) \in Nat, Len(vs) \in Nat, i <= Len(us),
         i < Len(us) => i < Len(vs) /\ us[i + 1].ctx = vs[i + 1].ctx
  PROVE  FrameOK(us, t, i)
<1>1. i < Len(us) => i < Len(vs)
  OBVIOUS
<1> QED BY <1>1 DEF FrameOK

(* The innermost visit ends, by a return or by an exception.               *)
LEMMA PopOK ==
  ASSUME NEW t, NEW vs, FramesOK(vs, t), vs # <<>>
  PROVE  FramesOK(SubSeq(vs, 1, Len(vs) - 1), t)
<1> DEFINE us == SubSeq(vs, 1, Len(vs) - 1)
<1>1. IsSeq(vs) /\ Len(vs) \in Nat /\ IsSeq(us) /\ Len(us) = Len(vs) - 1 /\ \A i \in 1 .. Len(vs) - 1 : us[i] = vs[i]
  BY IsSeqFacts DEF FramesOK
<1> HIDE DEF us
<1>2. ASSUME NEW i \in 1 .. Len(us) PROVE FrameOK(us, t, i)
  <2>1. i \in 1 .. Len(vs) /\ us[i] = vs[i] /\ i <= Len(us) /\ Len(us) \in Nat
    BY <1>1
  <2>2. i < Len(us) => i < Len(vs) /\ us[i + 1].ctx = vs[i + 1].ctx
    BY <1>1
  <2>3. FrameOK(vs, t, i)
    BY <2>1 DEF FramesOK
  <2> QED BY <1>1, <2>1, <2>2, <2>3, FrameSame
<1> QED BY <1>1, <1>2 DEF FramesOK, us

(* A visitor visits its next part.                                         *)
LEMMA PushOK ==
  ASSUME NEW t \in ParseTrees, NEW vs, FramesOK(vs, t), vs # <<>>, NEW v, v = vs[Len(vs)],
         v.ctx.rule \in DOMAIN Rules, ~NotSupported(v.ctx), Len(v.done) # Len(Calls(v.ctx)),
         v.ctx.rule = "Let" /\ Len(v.done) = 1 => v.done[1].nodes[1].kind = "PatternVar",
         NEW c, c = Calls(v.ctx)[Len(v.done) + 1].ctx, c # Null
  PROVE  FramesOK(Append(vs, Frame(c)), t)
<1> DEFINE us == Append(vs, Frame(c))
           n == Len(vs)
<1>1. IsSeq(vs) /\ n \in Nat /\ n # 0 /\ IsSeq(us) /\ Len(us) = n + 1 /\ (\A i \in 1 .. n : us[i] = vs[i])
      /\ us[n + 1] = Frame(c)
  BY IsSeqFacts DEF FramesOK
<1> HIDE DEF us, n
<1>2. n \in 1 .. Len(vs) /\ FrameOK(vs, t, n) /\ v = vs[n]
  BY <1>1 DEF FramesOK, n
<1>3. v.ctx \in Inside(t) /\ Inside(v.ctx) \subseteq Inside(t) /\ IsSeq(v.done) /\ Len(v.done) <= Len(Calls(v.ctx))
      /\ \A k \in 1 .. Len(v.done) : Done(v, k)
  BY <1>2 DEF FrameOK
<1>4. Len(v.done) \in Nat /\ Len(Calls(v.ctx)) \in Nat
  <2>1. Calls(v.ctx) \in Seq(Entries(t))
    BY <1>3, CallsElements
  <2> QED BY <1>3, <2>1, IsSeqFacts
<1>5. Len(v.done) + 1 \in 1 .. Len(Calls(v.ctx)) /\ Len(v.done) < Len(Calls(v.ctx))
  BY <1>3, <1>4
<1>6. c \in Inside(t) /\ Inside(c) \subseteq Inside(v.ctx) /\ c.rule \notin Inner \cup {"Program"}
  BY <1>3, <1>5, CallFacts DEF SoundCall
<1>7. Frame(c) = [ctx |-> c, done |-> <<>>] /\ Frame(c).ctx = c /\ Frame(c).done = <<>>
  BY DEF Frame
<1>8. FrameOK(us, t, n + 1)
  <2>1. us[n + 1] = [ctx |-> us[n + 1].ctx, done |-> us[n + 1].done] /\ us[n + 1].ctx = c /\ us[n + 1].done = <<>>
    BY <1>1, <1>7
  <2>2. n + 1 # 1 /\ ~(n + 1 < Len(us)) /\ Len(<<>>) = 0 /\ 1 .. 0 = {}
    BY <1>1
  <2>3. c.rule \in DOMAIN Rules => 0 <= Len(Calls(c))
    <3>1. c.rule \in DOMAIN Rules => Calls(c) \in Seq(Entries(t))
      BY <1>6, CallsElements
    <3> QED BY <3>1
  <2> DEFINE m == n + 1
  <2>4. us[m] = [ctx |-> us[m].ctx, done |-> us[m].done] /\ us[m].ctx = c /\ us[m].done = <<>>
    BY <2>1
  <2>5. m # 1 /\ ~(m < Len(us)) /\ ~(Len(us[m].done) >= 2 \/ (Len(us[m].done) = 1 /\ m < Len(us)))
    BY <2>2, <2>4
  <2>6. Len(us[m].done) = 0 /\ IsSeq(us[m].done) /\ \A k \in 1 .. Len(us[m].done) : Done(us[m], k)
    BY <2>2, <2>4, EmptyIsSeq
  <2>7. /\ us[m].ctx \in Inside(t) /\ Inside(us[m].ctx) \subseteq Inside(t)
        /\ us[m].ctx.rule \notin Inner /\ us[m].ctx.rule # "Program"
        /\ us[m].ctx.rule \in DOMAIN Rules => Len(us[m].done) <= Len(Calls(us[m].ctx))
    BY <1>3, <1>6, <2>3, <2>4, <2>6
  <2> HIDE DEF m
  <2>8. FrameOK(us, t, m)
    BY <2>4, <2>5, <2>6, <2>7, ZenonT(30) DEF FrameOK
  <2> QED BY <2>8 DEF m
<1>9. FrameOK(us, t, n)
  <2>1. us[n] = v /\ n < Len(us) /\ us[n + 1].ctx = c
    BY <1>1, <1>2, <1>7, SMTT(30)
  <2>2. v.ctx.rule = "Let" /\ Len(v.done) = 1 => Calls(v.ctx)[1].ctx.rule = "PatternVar"
    <3> SUFFICES ASSUME v.ctx.rule = "Let", Len(v.done) = 1 PROVE Calls(v.ctx)[1].ctx.rule = "PatternVar"
      OBVIOUS
    <3>1. 1 \in 1 .. Len(v.done) /\ 1 \in 1 .. Len(Calls(v.ctx))
      BY <1>5
    <3>2. Done(v, 1)
      BY <1>3, <3>1
    <3>3. Calls(v.ctx)[1].cast = "NodePattern"
      BY <1>3, LetCalls
    <3>4. CASE Calls(v.ctx)[1].ctx.rule \in DOMAIN Rules
      <4>1. ClassOf(Calls(v.ctx)[1].ctx.rule) = "NodePattern"
        BY <1>3, <3>1, <3>2, <3>3, <3>4, CallFacts DEF SoundCall, Done
      <4> QED BY <3>2, <4>1 DEF Done, Returned
    <3>5. CASE Calls(v.ctx)[1].ctx.rule \notin DOMAIN Rules
      <4>1. Calls(v.ctx)[1].ctx \in Inside(t) /\ Calls(v.ctx)[1].ctx.rule \notin Inner
        BY <1>3, <3>1, <3>2, CallFacts DEF SoundCall, Done
      <4>2. Calls(v.ctx)[1].ctx \in Inside(Calls(v.ctx)[1].ctx)
        BY <4>1, TreeFacts
      <4>3. Supported(Calls(v.ctx)[1].ctx)
        BY <3>2, <4>2 DEF Done
      <4> QED BY <3>5, <4>1, <4>3 DEF Supported
    <3> QED BY <3>4, <3>5
  <2>3. vs[n] = v
    BY <1>2
  <2> QED BY <1>2, <1>5, <2>1, <2>2, <2>3 DEF FrameOK
<1>10. ASSUME NEW i \in 1 .. n - 1 PROVE FrameOK(us, t, i)
  <2>1. i \in 1 .. Len(vs) /\ FrameOK(vs, t, i)
    BY <1>1 DEF FramesOK, n
  <2>2. us[i] = vs[i] /\ us[i + 1] = vs[i + 1] /\ i <= Len(us) /\ i < Len(vs) /\ Len(us) \in Nat /\ Len(vs) \in Nat
    BY <1>1 DEF n
  <2> QED BY <2>1, <2>2, FrameSame
<1>11. \A i \in 1 .. Len(us) : FrameOK(us, t, i)
  BY <1>1, <1>8, <1>9, <1>10
<1> QED BY <1>1, <1>11 DEF FramesOK, us

(* The visit of a supported context whose children are all there.          *)
Complete(v) ==
  /\ v.ctx.rule \in DOMAIN Rules /\ ~NotSupported(v.ctx) /\ ~OutOfRange(v.ctx)
  /\ Len(v.done) = Len(Calls(v.ctx))

LEMMA CompleteSupported ==
  ASSUME NEW t \in ParseTrees, NEW vs, FramesOK(vs, t), vs # <<>>, NEW v, v = vs[Len(vs)], Complete(v)
  PROVE  \A d \in Inside(v.ctx) : Supported(d)
<1>1. Len(vs) \in 1 .. Len(vs)
  BY IsSeqFacts DEF FramesOK
<1>2. FrameOK(vs, t, Len(vs))
  BY <1>1 DEF FramesOK
<1>3. v.ctx \in Inside(t) /\ \A k \in 1 .. Len(v.done) : Done(v, k)
  BY <1>2 DEF FrameOK
<1>4. \A k \in 1 .. Len(Calls(v.ctx)) : Calls(v.ctx)[k].ctx # Null /\ \A d \in Inside(Calls(v.ctx)[k].ctx) : Supported(d)
  BY <1>3 DEF Complete, Done
<1>5. v.ctx.rule = "Let" => Calls(v.ctx)[1].ctx.rule = "PatternVar"
  <2> SUFFICES ASSUME v.ctx.rule = "Let" PROVE Calls(v.ctx)[1].ctx.rule = "PatternVar"
    OBVIOUS
  <2>1. Len(v.done) >= 2
    BY <1>3, LetCalls DEF Complete
  <2> QED BY <1>2, <2>1 DEF FrameOK
<1> QED BY <1>3, <1>4, <1>5, AllSupported DEF Complete

LEMMA FrameShape ==
  ASSUME NEW t, NEW vs, FramesOK(vs, t), NEW m \in 1 .. Len(vs)
  PROVE  vs[m] = [ctx |-> vs[m].ctx, done |-> vs[m].done]
BY DEF FramesOK, FrameOK

After(vs, r) ==
  [SubSeq(vs, 1, Len(vs) - 1) EXCEPT ![Len(SubSeq(vs, 1, Len(vs) - 1))].done = Append(@, r)]

(* The frames after a return: one less, and the caller has one result more. *)
LEMMA ReturnFrames ==
  ASSUME NEW t, NEW vs, FramesOK(vs, t), Len(vs) >= 2, NEW r
  PROVE  /\ IsSeq(After(vs, r)) /\ Len(After(vs, r)) = Len(vs) - 1
         /\ \A i \in 1 .. (Len(vs) - 1) - 1 : After(vs, r)[i] = vs[i]
         /\ After(vs, r)[Len(vs) - 1] = [ctx |-> vs[Len(vs) - 1].ctx, done |-> Append(vs[Len(vs) - 1].done, r)]
<1> DEFINE m == Len(vs) - 1
           us == SubSeq(vs, 1, m)
           ws == [us EXCEPT ![Len(us)].done = Append(@, r)]
<1>1. IsSeq(vs) /\ Len(vs) \in Nat /\ vs # <<>> /\ m \in Nat /\ m # 0 /\ m \in 1 .. m /\ m \in 1 .. Len(vs)
  <2>1. IsSeq(vs) /\ Len(vs) \in Nat /\ vs # <<>>
    BY IsSeqFacts DEF FramesOK
  <2> DEFINE n == Len(vs)
  <2>3. n \in Nat /\ n >= 2
    BY <2>1
  <2> HIDE DEF n
  <2>4. n - 1 \in Nat /\ n - 1 # 0 /\ n - 1 \in 1 .. n - 1 /\ n - 1 \in 1 .. n
    BY <2>3
  <2>2. m \in Nat /\ m # 0 /\ m \in 1 .. m /\ m \in 1 .. Len(vs)
    BY <2>4 DEF n
  <2> QED BY <2>1, <2>2
<1>0. vs[m] = [ctx |-> vs[m].ctx, done |-> vs[m].done]
  BY <1>1, FrameShape
<1>2. IsSeq(us) /\ Len(us) = m /\ \A i \in 1 .. m : us[i] = vs[i]
  BY <1>1, IsSeqFacts
<1>3. us # <<>> /\ us[Len(us)] = vs[m]
  BY <1>1, <1>2, IsSeqFacts
<1> HIDE DEF us
<1>4. us[Len(us)] = [ctx |-> us[Len(us)].ctx, done |-> us[Len(us)].done]
  BY <1>0, <1>3
<1>5. /\ IsSeq(ws) /\ Len(ws) = Len(us)
      /\ \A i \in 1 .. Len(us) - 1 : ws[i] = us[i]
      /\ ws[Len(us)] = [ctx |-> us[Len(us)].ctx, done |-> Append(us[Len(us)].done, r)]
  BY <1>2, <1>3, <1>4, ReplaceLast
<1> HIDE DEF ws
<1>6. \A i \in 1 .. m - 1 : ws[i] = vs[i]
  BY <1>1, <1>2, <1>5
<1>7. IsSeq(ws) /\ Len(ws) = m
  BY <1>2, <1>5
<1>8. ws[m] = [ctx |-> vs[m].ctx, done |-> Append(vs[m].done, r)]
  BY <1>2, <1>3, <1>5
<1> QED BY <1>6, <1>7, <1>8 DEF us, ws, After

(* A visit returns what its caller casts to.                               *)
LEMMA ReturnCast ==
  ASSUME NEW t \in ParseTrees, NEW vs, FramesOK(vs, t), NEW m \in 1 .. Len(vs), m < Len(vs)
  PROVE  /\ vs[m].ctx \in Inside(t) /\ vs[m].ctx.rule \in DOMAIN Rules /\ ~NotSupported(vs[m].ctx)
         /\ IsSeq(vs[m].done) /\ Len(vs[m].done) + 1 \in 1 .. Len(Calls(vs[m].ctx))
         /\ vs[m + 1].ctx = Calls(vs[m].ctx)[Len(vs[m].done) + 1].ctx /\ vs[m + 1].ctx # Null
         /\ \A k \in 1 .. Len(vs[m].done) : Done(vs[m], k)
<1>1. FrameOK(vs, t, m)
  BY DEF FramesOK
<1> DEFINE u == vs[m]
           d == vs[m + 1]
<1>3. /\ u.ctx \in Inside(t) /\ IsSeq(u.done) /\ u.ctx.rule \in DOMAIN Rules /\ ~NotSupported(u.ctx)
      /\ Len(u.done) < Len(Calls(u.ctx)) /\ d.ctx = Calls(u.ctx)[Len(u.done) + 1].ctx /\ d.ctx # Null
      /\ \A k \in 1 .. Len(u.done) : Done(u, k)
  BY <1>1 DEF FrameOK
<1> HIDE DEF u, d
<1>4. Calls(u.ctx) \in Seq(Entries(t))
  BY <1>3, CallsElements
<1>5. Len(u.done) \in Nat /\ Len(Calls(u.ctx)) \in Nat
  BY <1>3, <1>4, IsSeqFacts
<1>6. Len(u.done) + 1 \in 1 .. Len(Calls(u.ctx))
  BY <1>3, <1>5
<1> QED BY <1>3, <1>6 DEF u, d

LEMMA ReturnOK ==
  ASSUME NEW t \in ParseTrees, NEW vs, FramesOK(vs, t), Len(vs) >= 2, NEW r,
         Complete(vs[Len(vs)]), Returned(r, vs[Len(vs)].ctx)
  PROVE  /\ r.class = Calls(vs[Len(vs) - 1].ctx)[Len(vs[Len(vs) - 1].done) + 1].cast
         /\ FramesOK(After(vs, r), t) /\ After(vs, r) # <<>>
         /\ IsSeq(After(vs, r)) /\ Len(After(vs, r)) = Len(vs) - 1
         /\ \A i \in 1 .. Len(vs) - 2 : After(vs, r)[i] = vs[i]
         /\ After(vs, r)[Len(vs) - 1].done = Append(vs[Len(vs) - 1].done, r)
         /\ After(vs, r)[Len(vs) - 1].ctx = vs[Len(vs) - 1].ctx
<1> DEFINE m == Len(vs) - 1
           v == vs[Len(vs)]
           ws == After(vs, r)
<1>21. m = Len(vs) - 1 /\ m - 1 = Len(vs) - 2
  BY IsSeqFacts DEF FramesOK
<1>22. /\ IsSeq(ws) /\ Len(ws) = m
       /\ \A i \in 1 .. m - 1 : ws[i] = vs[i]
       /\ ws[m] = [ctx |-> vs[m].ctx, done |-> Append(vs[m].done, r)]
  BY ReturnFrames
<1>23. v = vs[Len(vs)] /\ Returned(r, v.ctx) /\ v.ctx.rule \in DOMAIN Rules
  BY DEF Complete
<1>24. \A d \in Inside(v.ctx) : Supported(d)
  <2>1. vs # <<>>
    BY IsSeqFacts DEF FramesOK
  <2> QED BY <2>1, CompleteSupported
<1> HIDE DEF m, v, ws
<1> USE <1>21, <1>22, <1>23, <1>24
<1> DEFINE u == vs[m]
<1>1. IsSeq(vs) /\ Len(vs) \in Nat /\ Len(vs) # 0 /\ vs # <<>>
  BY IsSeqFacts DEF FramesOK
<1>3. m \in 1 .. Len(vs) /\ m + 1 \in 1 .. Len(vs) /\ m < Len(vs) /\ m \in Nat /\ m # 0 /\ Len(vs) = m + 1
  BY <1>1
<1>4. FrameOK(vs, t, m)
  BY <1>3 DEF FramesOK
<1>8. /\ u.ctx \in Inside(t) /\ IsSeq(u.done)
      /\ u.ctx.rule \in DOMAIN Rules /\ ~NotSupported(u.ctx)
      /\ Len(u.done) + 1 \in 1 .. Len(Calls(u.ctx)) /\ v.ctx = Calls(u.ctx)[Len(u.done) + 1].ctx /\ v.ctx # Null
      /\ \A k \in 1 .. Len(u.done) : Done(u, k)
      /\ ClassOf(v.ctx.rule) = Calls(u.ctx)[Len(u.done) + 1].cast
  <2>1. v = vs[m + 1]
    BY <1>3
  <2>2. /\ vs[m].ctx \in Inside(t) /\ vs[m].ctx.rule \in DOMAIN Rules /\ ~NotSupported(vs[m].ctx)
        /\ IsSeq(vs[m].done) /\ Len(vs[m].done) + 1 \in 1 .. Len(Calls(vs[m].ctx))
        /\ vs[m + 1].ctx = Calls(vs[m].ctx)[Len(vs[m].done) + 1].ctx /\ vs[m + 1].ctx # Null
        /\ \A k \in 1 .. Len(vs[m].done) : Done(vs[m], k)
    BY <1>3, ReturnCast
  <2>3. SoundCall(Calls(u.ctx)[Len(u.done) + 1], u.ctx, t)
    BY <2>2, CallFacts
  <2>4. ClassOf(v.ctx.rule) = Calls(u.ctx)[Len(u.done) + 1].cast
    BY <2>1, <2>2, <2>3 DEF SoundCall
  <2> QED BY <2>1, <2>2, <2>4
<1>5. /\ Inside(u.ctx) \subseteq Inside(t) /\ u.ctx.rule \notin Inner
      /\ IF m = 1 THEN u.ctx = t ELSE u.ctx.rule # "Program"
  BY <1>4 DEF FrameOK
<1>6. u.ctx.rule = "Let" /\ (Len(u.done) >= 2 \/ Len(u.done) = 1) => Calls(u.ctx)[1].ctx.rule = "PatternVar"
  <2>1. vs[m].ctx.rule = "Let" /\ (Len(vs[m].done) >= 2 \/ (Len(vs[m].done) = 1 /\ m < Len(vs))) =>
          Calls(vs[m].ctx)[1].ctx.rule = "PatternVar"
    BY <1>4, Zenon DEF FrameOK
  <2>2. m < Len(vs)
    BY <1>3
  <2> QED BY <2>1, <2>2
<1>9. Len(u.done) \in Nat /\ Len(Calls(u.ctx)) \in Nat
  <2>1. Calls(u.ctx) \in Seq(Entries(t))
    BY <1>8, CallsElements
  <2> DEFINE d == u.done
             e == Calls(u.ctx)
  <2>2. IsSeq(d) /\ e \in Seq(Entries(t))
    BY <1>8, <2>1
  <2> HIDE DEF d, e
  <2>3. Len(d) \in Nat
    BY <2>2, IsSeqFacts
  <2>4. Len(e) \in Nat
    BY <2>2
  <2> QED BY <2>3, <2>4 DEF d, e
<1>11. r.class = Calls(u.ctx)[Len(u.done) + 1].cast
  BY <1>8 DEF Returned
<1> DEFINE w == ws[m]
<1>13. w = [ctx |-> w.ctx, done |-> w.done] /\ w.ctx = u.ctx /\ w.done = Append(u.done, r)
  OBVIOUS
<1> HIDE DEF u
<1>14. /\ IsSeq(w.done) /\ Len(w.done) = Len(u.done) + 1
       /\ \A k \in 1 .. Len(u.done) : w.done[k] = u.done[k]
       /\ w.done[Len(u.done) + 1] = r
  <2> HIDE DEF w
  <2>1. /\ IsSeq(Append(u.done, r)) /\ Len(Append(u.done, r)) = Len(u.done) + 1
        /\ \A k \in 1 .. Len(u.done) : Append(u.done, r)[k] = u.done[k]
        /\ Append(u.done, r)[Len(u.done) + 1] = r
    BY <1>8, IsSeqFacts
  <2> QED BY <1>13, <2>1
<1> HIDE DEF w
<1>15. ASSUME NEW k \in 1 .. Len(w.done) PROVE Done(w, k)
  <2>1. k \in 1 .. Len(u.done) \/ k = Len(u.done) + 1
    BY <1>9, <1>14
  <2>2. CASE k \in 1 .. Len(u.done)
    BY <1>8, <1>13, <1>14, <2>2 DEF Done
  <2>3. CASE k = Len(u.done) + 1
    BY <1>8, <1>13, <1>14, <2>3 DEF Done
  <2> QED BY <2>1, <2>2, <2>3
<1>16. FrameOK(ws, t, m)
  <2>1. ws[m] = w
    BY DEF w
  <2>2. ~(m < Len(ws)) /\ Len(w.done) <= Len(Calls(w.ctx))
    BY <1>3, <1>8, <1>9, <1>13, <1>14
  <2>3. /\ w.ctx.rule \notin Inner
        /\ IF m = 1 THEN w.ctx = t ELSE w.ctx.rule # "Program"
        /\ w.ctx \in Inside(t) /\ Inside(w.ctx) \subseteq Inside(t) /\ IsSeq(w.done)
        /\ w.ctx.rule \in DOMAIN Rules /\ ~NotSupported(w.ctx)
    BY <1>5, <1>8, <1>13, <1>14
  <2>4. w.ctx.rule = "Let" /\ Len(w.done) >= 2 => Calls(w.ctx)[1].ctx.rule = "PatternVar"
    <3> DEFINE a == Len(u.done)
               b == Len(w.done)
    <3>0. a \in Nat /\ b = a + 1
      BY <1>9, <1>14
    <3> HIDE DEF a, b
    <3>2. b >= 2 => a >= 2 \/ a = 1
      BY <3>0
    <3>1. Len(w.done) >= 2 => Len(u.done) >= 2 \/ Len(u.done) = 1
      BY <3>2, Zenon DEF a, b
    <3> QED BY <1>6, <1>13, <3>1
  <2>5. w = [ctx |-> w.ctx, done |-> w.done]
    BY <1>13
  <2>6. \A k \in 1 .. Len(w.done) : Done(w, k)
    BY <1>15
  <2>7. w.ctx.rule = "Let" /\ (Len(w.done) >= 2 \/ (Len(w.done) = 1 /\ m < Len(ws))) => Calls(w.ctx)[1].ctx.rule = "PatternVar"
    BY <2>2, <2>4
  <2> QED BY <2>1, <2>2, <2>3, <2>5, <2>6, <2>7 DEF FrameOK
<1>17. ASSUME NEW i \in 1 .. m - 1 PROVE FrameOK(ws, t, i)
  <2>1. i \in 1 .. Len(vs) /\ i <= Len(ws) /\ i < Len(vs) /\ Len(ws) \in Nat
    BY <1>3
  <2>2. FrameOK(vs, t, i) /\ ws[i] = vs[i]
    BY <2>1 DEF FramesOK
  <2>3. ws[i + 1].ctx = vs[i + 1].ctx
    <3>1. CASE i + 1 = m
      <4>1. ws[m].ctx = vs[m].ctx
        BY <1>13 DEF u, w
      <4> QED BY <3>1, <4>1
    <3>2. CASE i + 1 # m
      <4>1. i + 1 \in 1 .. m - 1
        BY <1>3, <3>2
      <4> QED BY <4>1
    <3> QED BY <3>1, <3>2
  <2> QED BY <1>1, <2>1, <2>2, <2>3, FrameSame
<1>18. \A i \in 1 .. Len(ws) : FrameOK(ws, t, i)
  BY <1>3, <1>16, <1>17
<1>19. FramesOK(ws, t)
  BY <1>18 DEF FramesOK
<1>20. ws # <<>>
  BY <1>3, IsSeqFacts
<1> QED BY <1>11, <1>19, <1>20, <1>21, <1>22 DEF u, m, ws

-----------------------------------------------------------------------------
(* The results that are nodes, in order.                                   *)
LEMMA OfClassFacts ==
  ASSUME IsSeq(Top.done)
  PROVE  /\ IsSeq(OfClass(FALSE))
         /\ \A k \in 1 .. Len(OfClass(FALSE)) : \E i \in 1 .. Len(Top.done) :
              OfClass(FALSE)[k] = Top.done[i] /\ Top.done[i].class # "Type"
<1> DEFINE s == Top.done
           g == [i \in DOMAIN s |-> IF (s[i].class = "Type") = FALSE THEN <<s[i]>> ELSE <<>>]
<1>1. OfClass(FALSE) = FlattenSeq(g)
  BY DEF OfClass
<1> HIDE DEF s
<1>2. PICK S : s \in Seq(S)
  BY DEF IsSeq, s
<1>3. DOMAIN s = 1 .. Len(s) /\ Len(s) \in Nat /\ \A i \in 1 .. Len(s) : s[i] \in S
  BY <1>2
<1>4. \A i \in 1 .. Len(s) : IF s[i].class # "Type" THEN g[i] = <<s[i]>> ELSE g[i] = <<>>
  BY <1>3
<1>5. g \in Seq(Seq(S)) /\ Len(g) = Len(s)
  <2>1. \A i \in 1 .. Len(s) : (IF (s[i].class = "Type") = FALSE THEN <<s[i]>> ELSE <<>>) \in Seq(S)
    BY <1>3
  <2>2. g \in [1 .. Len(s) -> Seq(S)]
    BY <1>3, <2>1
  <2> HIDE DEF g
  <2> QED BY <1>3, <2>2
<1> HIDE DEF g
<1>6. /\ FlattenSeq(g) \in Seq(S)
      /\ \A x : InSeq(x, FlattenSeq(g)) <=> \E i \in 1 .. Len(g) : InSeq(x, g[i])
  BY <1>5, FlattenSeqElements
<1> DEFINE u == FlattenSeq(g)
<1>7. ASSUME NEW k \in 1 .. Len(u)
      PROVE  \E i \in 1 .. Len(s) : u[k] = s[i] /\ s[i].class # "Type"
  <2> HIDE DEF u
  <2>1. InSeq(u[k], u)
    BY DEF InSeq
  <2>2. PICK i \in 1 .. Len(s) : InSeq(u[k], g[i])
    BY <1>5, <1>6, <2>1 DEF u
  <2>3. CASE s[i].class # "Type"
    <3>1. g[i] = <<s[i]>>
      BY <1>4, <2>3
    <3>2. \A j \in 1 .. Len(<<s[i]>>) : <<s[i]>>[j] = s[i]
      OBVIOUS
    <3>3. u[k] = s[i]
      BY <2>2, <3>1, <3>2 DEF InSeq
    <3> QED BY <2>3, <3>3
  <2>4. CASE s[i].class = "Type"
    <3>1. g[i] = <<>>
      BY <1>4, <2>4
    <3>2. 1 .. Len(<<>>) = {}
      OBVIOUS
    <3> QED BY <2>2, <3>1, <3>2 DEF InSeq
  <2> QED BY <2>3, <2>4
<1>8. IsSeq(u)
  BY <1>6 DEF IsSeq
<1> HIDE DEF u
<1> QED BY <1>1, <1>7, <1>8 DEF s, u

(* A tree starts with its node.                                            *)
LEMMA TreeFirst ==
  ASSUME NEW kind, NEW labs, NEW types, NEW kids, IsSeq(kids), \A i \in 1 .. Len(kids) : IsSeq(kids[i])
  PROVE  /\ IsSeq(Tree(kind, labs, types, kids)) /\ Tree(kind, labs, types, kids) # <<>>
         /\ Tree(kind, labs, types, kids)[1].kind = kind
<1> DEFINE n == [kind |-> kind, labs |-> labs, types |-> types, kids |-> Distances(kids)]
           S == {n} \cup UNION {{kids[i][j] : j \in 1 .. Len(kids[i])} : i \in 1 .. Len(kids)}
<1>1. Tree(kind, labs, types, kids) = <<n>> \o FlattenSeq(kids)
  BY DEF Tree
<1>2. n.kind = kind /\ n \in S
  OBVIOUS
<1> HIDE DEF n
<1>3. ASSUME NEW i \in 1 .. Len(kids) PROVE kids[i] \in Seq(S)
  <2>1. \A j \in 1 .. Len(kids[i]) : kids[i][j] \in S
    OBVIOUS
  <2> QED BY <2>1, SeqRetype
<1> HIDE DEF S
<1>4. kids \in Seq(Seq(S))
  BY <1>3, SeqRetype
<1>5. FlattenSeq(kids) \in Seq(S)
  BY <1>4, FlattenSeqElements
<1>6. <<n>> \in Seq(S) /\ <<n>> # <<>> /\ <<n>>[1] = n
  BY <1>2
<1> DEFINE u == <<n>> \o FlattenSeq(kids)
<1>7. u # <<>> /\ u[1] = n
  <2>1. u # <<>> /\ u[1] = <<n>>[1]
    BY <1>5, <1>6, ConcatFirst
  <2> QED BY <1>6, <2>1
<1>8. u \in Seq(S)
  BY <1>5, <1>6
<1>9. IsSeq(u)
  BY <1>8 DEF IsSeq
<1> HIDE DEF u
<1> QED BY <1>1, <1>2, <1>7, <1>9 DEF u

(* Each of the three ways to build a result returns what the visit of its  *)
(* context returns.                                                        *)
LEMMA TypeReturned ==
  ASSUME NEW c, NEW t, NEW autos, c.rule \in DOMAIN TypeRules \cup DOMAIN DataTypeRules
  PROVE  Returned(TypeResult(t, autos), c)
<1>1. TypeResult(t, autos).class = "Type"
  BY DEF TypeResult
<1>2. ClassOf(c.rule) = "Type"
  BY DEF ClassOf
<1> QED BY <1>1, <1>2 DEF Returned

LEMMA NodeReturned ==
  ASSUME NEW t \in ParseTrees, visits # <<>>, FramesOK(visits, t), Complete(Top),
         Top.ctx.rule \notin DOMAIN TypeRules \cup DOMAIN DataTypeRules
  PROVE  Returned(MakeNode(Top.ctx), Top.ctx)
<1> DEFINE c == Top.ctx
           r == MakeNode(c)
<1>1. r.class = NodeClass(c.rule) /\ r.nodes = Tree(c.rule, Labels(c), Terms, Arranged(c.rule, Nodes))
  BY DEF MakeNode
<1>2. ClassOf(c.rule) = NodeClass(c.rule)
  BY DEF ClassOf
<1> HIDE DEF r
<1> SUFFICES ASSUME r.class = "NodePattern"
             PROVE  IsSeq(r.nodes) /\ r.nodes # <<>> /\ r.nodes[1].kind = c.rule
  BY <1>1, <1>2 DEF Returned, r
<1>3. c.rule \in PatternRules
  BY <1>1 DEF NodeClass, PatternRules
<1>4. Arranged(c.rule, Nodes) = Nodes
  BY <1>3 DEF Arranged, PatternRules
<1>5. Len(visits) \in 1 .. Len(visits)
  BY IsSeqFacts DEF FramesOK
<1>6. c \in Inside(t) /\ IsSeq(Top.done) /\ \A k \in 1 .. Len(Top.done) : Done(Top, k)
  BY <1>5 DEF FramesOK, FrameOK, Top
<1>7. ASSUME NEW k \in 1 .. Len(Top.done), Top.done[k].class # "Type" PROVE IsSeq(Top.done[k].nodes)
  <2>1. k \in 1 .. Len(Calls(c)) /\ c.rule \in DOMAIN Rules
    BY DEF Complete
  <2>2. Calls(c)[k].cast \in {"NodePattern", "Type"} /\ SoundCall(Calls(c)[k], c, t)
    BY <1>3, <1>6, <2>1, CallFacts
  <2>3. Done(Top, k)
    BY <1>6
  <2>4. Calls(c)[k].ctx # Null /\ Returned(Top.done[k], Calls(c)[k].ctx) /\ \A d \in Inside(Calls(c)[k].ctx) : Supported(d)
    BY <2>3 DEF Done
  <2>5. Calls(c)[k].ctx.rule \in DOMAIN Rules
    <3>1. Calls(c)[k].ctx \in Inside(t) /\ Calls(c)[k].ctx.rule \notin Inner
      BY <2>2, <2>4 DEF SoundCall
    <3>2. Calls(c)[k].ctx \in Inside(Calls(c)[k].ctx)
      BY <3>1, TreeFacts
    <3> QED BY <2>4, <3>1, <3>2 DEF Supported
  <2>6. Top.done[k].class = Calls(c)[k].cast
    BY <2>2, <2>4, <2>5 DEF SoundCall, Returned
  <2> QED BY <1>7, <2>2, <2>4, <2>6 DEF Returned
<1> DEFINE s == OfClass(FALSE)
<1>8. IsSeq(s) /\ \A k \in 1 .. Len(s) : \E i \in 1 .. Len(Top.done) : s[k] = Top.done[i] /\ Top.done[i].class # "Type"
  BY <1>6, OfClassFacts
<1>9. Nodes = [i \in DOMAIN s |-> s[i].nodes]
  BY DEF Nodes
<1> HIDE DEF s
<1>10. DOMAIN s = 1 .. Len(s) /\ Len(s) \in Nat
  BY <1>8, IsSeqFacts
<1>11. IsSeq(Nodes) /\ Len(Nodes) = Len(s) /\ \A i \in 1 .. Len(s) : Nodes[i] = s[i].nodes
  <2> DEFINE X == {s[i].nodes : i \in 1 .. Len(s)}
  <2>1. [i \in 1 .. Len(s) |-> s[i].nodes] \in [1 .. Len(s) -> X]
    OBVIOUS
  <2>2. Nodes \in [1 .. Len(s) -> X]
    BY <1>9, <1>10, <2>1
  <2> HIDE DEF X
  <2>3. Nodes \in Seq(X) /\ Len(Nodes) = Len(s)
    BY <1>10, <2>2
  <2>4. IsSeq(Nodes)
    BY <2>3 DEF IsSeq
  <2> QED BY <1>9, <1>10, <2>3, <2>4
<1>12. \A i \in 1 .. Len(Nodes) : IsSeq(Nodes[i])
  BY <1>7, <1>8, <1>11
<1> QED BY <1>1, <1>4, <1>11, <1>12, TreeFirst

(* Parentheses and a final semicolon have one child, of their own class.   *)
LEMMA TransparentCall ==
  ASSUME NEW t \in ParseTrees, NEW c \in Inside(t), c.rule \in Transparent
  PROVE  /\ c.rule \in DOMAIN Rules /\ ~NotSupported(c) /\ ~OutOfRange(c)
         /\ Len(Calls(c)) = 1 /\ Calls(c)[1].cast = ClassOf(c.rule) /\ Calls(c)[1].ctx # Null
<1> DEFINE l == IF c.rule = "TypeParens" THEN "type_" ELSE "expr_"
<1>1. Rules[c.rule] = <<l>> /\ ClassOf(c.rule) = CastOf(l) /\ c.rule \in DOMAIN Rules
  <2>1. /\ Rules[c.rule] = IF c.rule = "TypeParens" THEN <<"type_">> ELSE <<"expr_">>
        /\ ClassOf(c.rule) = CastOf(Rules[c.rule][1]) /\ c.rule \in DOMAIN Rules
    BY RulesAssumption
  <2>2. Rules[c.rule] = <<l>> /\ <<l>>[1] = l
    BY <2>1
  <2> QED BY <2>1, <2>2
<1>2. l \in Parts
  BY DEF Parts
<1> HIDE DEF l
<1>3. DOMAIN c.subs = {l} /\ Len(c.subs[l]) = 1 /\ c.subs[l] \in Seq(Inside(t))
  <2>1. Follows(c) /\ \A k \in DOMAIN c.subs : c.subs[k] \in Seq(Inside(t))
    BY TreeFacts
  <2>2. DOMAIN c.subs = Range(<<l>>)
    BY <1>1, <2>1 DEF Follows
  <2>3. \A x : x \in Range(<<l>>) <=> x = l
    <3>1. \A x : x \in Range(<<l>>) <=> \E i \in DOMAIN <<l>> : <<l>>[i] = x
      BY RangeElements
    <3>2. DOMAIN <<l>> = {1} /\ <<l>>[1] = l
      OBVIOUS
    <3> QED BY <3>1, <3>2
  <2>4. DOMAIN c.subs = {l}
    BY <2>2, <2>3
  <2>5. Once(c) = DOMAIN c.subs
    <3>1. c.rule # "Let"
      BY DEF Transparent
    <3> QED BY <3>1 DEF Once
  <2>6. Len(c.subs[l]) = 1
    BY <2>1, <2>4, <2>5 DEF Follows
  <2> QED BY <2>1, <2>4, <2>6
<1>4. l \notin Single /\ l \notin Assumed /\ l \notin DOMAIN Inline
  BY <1>2, LabelFacts
<1>5. ~NotSupported(c) /\ ~OutOfRange(c)
  BY <1>1, <1>3, <1>4 DEF NotSupported, OutOfRange, Transparent
<1>6. Taken(c, l) = c.subs[l] /\ Labelled(c, l) \in Seq(Entries(t))
  <2>1. Taken(c, l) = c.subs[l] /\ Taken(c, l) \in Seq(Within(t))
    BY <1>3, <1>4, TakenSeq
  <2> QED BY <2>1, LabelledSeq
<1>7. Len(Labelled(c, l)) = 1
  <2>1. DOMAIN Labelled(c, l) = DOMAIN Taken(c, l)
    BY DEF Labelled
  <2>2. DOMAIN Taken(c, l) = 1 .. 1 /\ DOMAIN Labelled(c, l) = 1 .. Len(Labelled(c, l)) /\ Len(Labelled(c, l)) \in Nat
    BY <1>3, <1>6
  <2> QED BY <2>1, <2>2
<1> DEFINE ss == [i \in DOMAIN Rules[c.rule] |-> Listed(c, Rules[c.rule][i])]
<1>8. Calls(c) = FlattenSeq(ss)
  BY DEF Calls, Listed
<1>9. ss = <<Labelled(c, l)>>
  <2>1. DOMAIN <<l>> = 1 .. 1 /\ <<l>>[1] = l /\ DOMAIN Rules[c.rule] = 1 .. 1 /\ Rules[c.rule][1] = l
    BY <1>1
  <2>2. Listed(c, l) = Labelled(c, l)
    BY <1>4 DEF Listed
  <2>3. ss = [i \in 1 .. 1 |-> Labelled(c, l)]
    BY <2>1, <2>2
  <2> QED BY <2>3
<1> HIDE DEF ss
<1>10. ss \in Seq(Seq(Entries(t))) /\ Len(ss) = 1 /\ ss[1] = Labelled(c, l)
  BY <1>6, <1>9
<1>11. Calls(c) = Labelled(c, l)
  <2>1. PICK f : Joins(f, ss, Len(ss)) /\ FlattenSeq(ss) = f[Len(ss)]
    <3>1. Len(ss) # 0
      BY <1>10
    <3>2. \E f : Joins(f, ss, Len(ss)) /\ FlattenSeq(ss) = f[Len(ss)]
      BY <1>10, <3>1, FlattenJoins
    <3> QED BY <3>2
  <2>2. f[1] = ss[1]
    BY <1>10, <2>1 DEF Joins
  <2> QED BY <1>8, <1>10, <2>1, <2>2
<1>12. Calls(c)[1].cast = ClassOf(c.rule) /\ Calls(c)[1].ctx # Null
  <2>1. InSeq(Calls(c)[1], Labelled(c, l))
    BY <1>7, <1>11 DEF InSeq
  <2>2. Direct(Calls(c)[1], c, l)
    <3>1. Taken(c, l) \in Seq(Within(t))
      BY <1>3, TakenSeq
    <3> QED BY <2>1, <3>1, LabelledSeq
  <2>3. Calls(c)[1].cast = CastOf(l) /\ Calls(c)[1].ctx # Null
    BY <1>3, <1>4, <2>2, DirectFacts
  <2> QED BY <1>1, <2>3
<1> QED BY <1>1, <1>5, <1>7, <1>11, <1>12

LEMMA SameReturned ==
  ASSUME NEW t \in ParseTrees, visits # <<>>, FramesOK(visits, t), Top.ctx.rule \in Transparent,
         Finished
  PROVE  /\ Complete(Top) /\ Len(Top.done) = 1
         /\ Returned(Top.done[1], Top.ctx)
<1> DEFINE c == Top.ctx
<1>1. Len(visits) \in 1 .. Len(visits)
  BY IsSeqFacts DEF FramesOK
<1>2. c \in Inside(t) /\ IsSeq(Top.done) /\ \A k \in 1 .. Len(Top.done) : Done(Top, k)
  BY <1>1 DEF FramesOK, FrameOK, Top
<1>3. /\ c.rule \in DOMAIN Rules /\ ~NotSupported(c) /\ ~OutOfRange(c)
      /\ Len(Calls(c)) = 1 /\ Calls(c)[1].cast = ClassOf(c.rule)
  BY <1>2, TransparentCall
<1>4. Complete(Top) /\ Len(Top.done) = 1
  BY <1>3 DEF Complete, Finished
<1>5. Calls(c)[1].ctx # Null /\ Returned(Top.done[1], Calls(c)[1].ctx) /\ \A d \in Inside(Calls(c)[1].ctx) : Supported(d)
  <2>1. Done(Top, 1)
    BY <1>2, <1>4
  <2> QED BY <2>1 DEF Done
<1>6. SoundCall(Calls(c)[1], c, t)
  BY <1>2, <1>3, CallFacts
<1>7. Calls(c)[1].ctx.rule \in DOMAIN Rules
  <2>1. Calls(c)[1].ctx \in Inside(t) /\ Calls(c)[1].ctx.rule \notin Inner
    BY <1>5, <1>6 DEF SoundCall
  <2>2. Calls(c)[1].ctx \in Inside(Calls(c)[1].ctx)
    BY <2>1, TreeFacts
  <2> QED BY <1>5, <2>1, <2>2 DEF Supported
<1>8. Top.done[1].class = ClassOf(c.rule)
  BY <1>3, <1>5, <1>6, <1>7 DEF SoundCall, Returned
<1>9. ClassOf(c.rule) # "NodePattern"
  BY Zenon DEF Transparent, ClassOf, NodeClass
<1> QED BY <1>4, <1>8, <1>9 DEF Returned

(* An auto has no children.                                                *)
LEMMA AutoCalls ==
  ASSUME NEW t \in ParseTrees, NEW c \in Inside(t), c.rule = "TypeAuto"
  PROVE  /\ c.rule \in DOMAIN Rules /\ ~NotSupported(c) /\ ~OutOfRange(c)
         /\ Calls(c) = <<>>
<1>1. Rules[c.rule] = <<>> /\ c.rule \in DOMAIN Rules
  BY RulesAssumption
<1>2. DOMAIN c.subs = {}
  <2>1. DOMAIN c.subs = Range(Rules[c.rule])
    BY <1>1, TreeFacts DEF Follows
  <2> QED BY <1>1, <2>1, RangeElements
<1>3. ~NotSupported(c) /\ ~OutOfRange(c)
  BY <1>1, <1>2 DEF NotSupported, OutOfRange
<1>4. Calls(c) = <<>>
  <2>1. /\ Calls(c) \in Seq(Entries(t))
        /\ \A e : InSeq(e, Calls(c)) <=> \E l \in DOMAIN c.subs : Asked(e, c, l)
    BY <1>1, CallsElements
  <2>2. ~InSeq(Calls(c)[1], Calls(c))
    BY <1>2, <2>1
  <2> QED BY <2>1, <2>2 DEF InSeq
<1> QED BY <1>1, <1>3, <1>4

(* The walk is where the tree allows it to be; it has given up exactly if  *)
(* some construct of the tree is not supported.                            *)
Inv ==
  /\ tree \in ParseTrees
  /\ FramesOK(visits, tree)
  /\ Parsed /\ thrown = OK => \A d \in Inside(tree) : Supported(d)
  /\ thrown # OK => \E d \in Inside(tree) : ~Supported(d)

LEMMA TopFacts ==
  ASSUME tree \in ParseTrees, FramesOK(visits, tree), visits # <<>>
  PROVE  /\ Len(visits) \in 1 .. Len(visits) /\ IsSeq(visits) /\ FrameOK(visits, tree, Len(visits))
         /\ Top = visits[Len(visits)]
         /\ Top.ctx \in Inside(tree) /\ IsSeq(Top.done) /\ Top.ctx.rule \notin Inner
         /\ \A k \in 1 .. Len(Top.done) : Done(Top, k)
         /\ Top.ctx.rule \in DOMAIN Rules => Len(Top.done) <= Len(Calls(Top.ctx))
         /\ Top.ctx.rule # "Program" => Len(visits) >= 2
         /\ Top.ctx.rule = "Program" => Top.ctx = tree /\ Len(visits) = 1
<1>1. Len(visits) \in 1 .. Len(visits) /\ IsSeq(visits) /\ Len(visits) \in Nat
  BY IsSeqFacts DEF FramesOK
<1>2. FrameOK(visits, tree, Len(visits)) /\ FrameOK(visits, tree, 1)
  <2>1. 1 \in 1 .. Len(visits)
    BY <1>1
  <2> QED BY <1>1, <2>1 DEF FramesOK
<1>3. Top = visits[Len(visits)]
  BY DEF Top
<1>4. /\ Top.ctx \in Inside(tree) /\ IsSeq(Top.done) /\ Top.ctx.rule \notin Inner
      /\ \A k \in 1 .. Len(Top.done) : Done(Top, k)
      /\ Top.ctx.rule \in DOMAIN Rules => Len(Top.done) <= Len(Calls(Top.ctx))
  BY <1>2, <1>3 DEF FrameOK
<1>5. IF Len(visits) = 1 THEN Top.ctx = tree ELSE Top.ctx.rule # "Program"
  BY <1>2, <1>3 DEF FrameOK
<1>6. tree.rule = "Program"
  BY GrammarAssumption
<1>7. Len(visits) = 1 \/ Len(visits) >= 2
  <2> DEFINE n == Len(visits)
  <2>1. n \in Nat /\ n \in 1 .. n
    BY <1>1
  <2> HIDE DEF n
  <2>2. n = 1 \/ n >= 2
    BY <2>1
  <2> QED BY <2>2 DEF n
<1>8. /\ Top.ctx.rule # "Program" => Len(visits) >= 2
      /\ Top.ctx.rule = "Program" => Top.ctx = tree /\ Len(visits) = 1
  BY <1>5, <1>6, <1>7
<1> QED BY <1>1, <1>2, <1>3, <1>4, <1>8, Zenon

(* The pattern of a let, once it is built, is the one in the source.       *)
LEMMA LetPattern ==
  ASSUME tree \in ParseTrees, FramesOK(visits, tree), visits # <<>>, Top.ctx.rule \in DOMAIN Rules,
         Top.ctx.rule = "Let", Len(Top.done) = 1
  PROVE  Top.done[1].nodes[1].kind = Top.ctx.subs.patternBindings[1].subs.pat[1].rule
<1> DEFINE c == Top.ctx
<1>1. /\ c \in Inside(tree) /\ IsSeq(Top.done)
      /\ \A k \in 1 .. Len(Top.done) : Done(Top, k)
  BY TopFacts
<1>2. Len(Calls(c)) >= 2 /\ Calls(c)[1].cast = "NodePattern" /\ Calls(c)[1].ctx = c.subs.patternBindings[1].subs.pat[1]
  BY <1>1, LetCalls
<1>3. Done(Top, 1)
  BY <1>1
<1>4. Calls(c)[1].ctx # Null /\ Returned(Top.done[1], Calls(c)[1].ctx) /\ \A d \in Inside(Calls(c)[1].ctx) : Supported(d)
  BY <1>3 DEF Done
<1>5. SoundCall(Calls(c)[1], c, tree)
  <2>1. Calls(c) \in Seq(Entries(tree))
    BY <1>1, CallsElements
  <2>2. 1 \in 1 .. Len(Calls(c))
    BY <1>2, <2>1
  <2> QED BY <1>1, <2>2, CallFacts
<1>6. Calls(c)[1].ctx.rule \in DOMAIN Rules
  <2>1. Calls(c)[1].ctx \in Inside(tree) /\ Calls(c)[1].ctx.rule \notin Inner
    BY <1>4, <1>5 DEF SoundCall
  <2>2. Calls(c)[1].ctx \in Inside(Calls(c)[1].ctx)
    BY <2>1, TreeFacts
  <2> QED BY <1>4, <2>1, <2>2 DEF Supported
<1>7. Top.done[1].class = "NodePattern"
  BY <1>2, <1>4, <1>5, <1>6 DEF SoundCall, Returned
<1> QED BY <1>2, <1>4, <1>7 DEF Returned

LEMMA ThrowUnsupported ==
  ASSUME tree \in ParseTrees, FramesOK(visits, tree), visits # <<>>,
         NotSupported(Top.ctx) \/ BadPattern \/ OutOfRange(Top.ctx)
  PROVE  \E d \in Inside(tree) : ~Supported(d)
<1> DEFINE c == Top.ctx
<1>1. c \in Inside(tree) /\ c.rule \notin Inner
  BY TopFacts
<1>2. CASE NotSupported(c)
  <2>1. CASE c.rule \notin DOMAIN Rules
    BY <1>1, <2>1 DEF Supported
  <2>2. ASSUME NEW l \in Single \cap DOMAIN c.subs, Len(c.subs[l]) > 1 PROVE ~Supported(c)
    <3>1. Len(c.subs[l]) # 1
      <4>1. c.subs[l] \in Seq(Inside(tree))
        BY <1>1, TreeFacts
      <4> DEFINE n == Len(c.subs[l])
      <4>2. n \in Nat /\ n > 1
        BY <2>2, <4>1
      <4> HIDE DEF n
      <4>3. n # 1
        BY <4>2
      <4> QED BY <4>3 DEF n
    <3>2. Supported(c) => \A k \in DOMAIN c.subs : k \in Single \cup Assumed => Len(c.subs[k]) = 1
      BY Zenon DEF Supported
    <3>3. l \in DOMAIN c.subs /\ l \in Single \cup Assumed
      OBVIOUS
    <3> QED BY <3>1, <3>2, <3>3, Zenon
  <2> QED BY <1>1, <1>2, <2>1, <2>2 DEF NotSupported
<1>3. CASE BadPattern /\ ~NotSupported(c)
  <2>1. c.rule = "Let" /\ Len(Top.done) = 1 /\ Top.done[1].nodes[1].kind # "PatternVar" /\ c.rule \in DOMAIN Rules
    BY <1>3 DEF BadPattern, NotSupported
  <2>2. c.subs.patternBindings[1].subs.pat[1].rule # "PatternVar"
    BY <2>1, LetPattern
  <2> QED BY <1>1, <2>1, <2>2 DEF Supported
<1>4. CASE OutOfRange(c)
  <2>1. Follows(c) /\ IntMax \in Nat
    BY <1>1, TreeFacts, GrammarAssumption
  <2>2. c.rule \in {"ConstInt", "DotTuple"} /\ c.text[1] > IntMax
    BY <1>4 DEF OutOfRange
  <2>3. c.text[1] \in Nat
    BY <2>1, <2>2 DEF Follows
  <2>4. ~(c.text[1] <= IntMax)
    BY <2>1, <2>2, <2>3
  <2> QED BY <1>1, <2>2, <2>4 DEF Supported
<1> QED BY <1>2, <1>3, <1>4

LEMMA ProgramSupported ==
  ASSUME NEW c, NEW t \in ParseTrees, c \in Inside(t), c.rule = "Program"
  PROVE  c.rule \in DOMAIN Rules /\ ~NotSupported(c) /\ ~OutOfRange(c)
<1>1. Rules[c.rule] = <<"decl">> /\ c.rule \in DOMAIN Rules
  BY RulesAssumption
<1>2. DOMAIN c.subs = Range(<<"decl">>)
  BY <1>1, TreeFacts DEF Follows
<1>3. Single \cap DOMAIN c.subs = {}
  <2>1. \A x : x \in Range(<<"decl">>) <=> \E i \in DOMAIN <<"decl">> : <<"decl">>[i] = x
    BY RangeElements
  <2>2. \A x : x \in Range(<<"decl">>) => x = "decl"
    BY <2>1
  <2> QED BY <1>2, <2>2 DEF Single
<1> QED BY <1>1, <1>3 DEF NotSupported, OutOfRange

LEMMA CrashUnsupported ==
  ASSUME tree \in ParseTrees, FramesOK(visits, tree), visits # <<>>, ~NotSupported(Top.ctx), ~Finished,
         Calls(Top.ctx)[Len(Top.done) + 1].ctx = Null
  PROVE  \E d \in Inside(tree) : ~Supported(d)
<1> DEFINE c == Top.ctx
           k == Len(Top.done) + 1
<1>1. c \in Inside(tree) /\ IsSeq(Top.done) /\ (c.rule \in DOMAIN Rules => Len(Top.done) <= Len(Calls(c)))
  BY TopFacts
<1>2. c.rule \in DOMAIN Rules
  BY DEF NotSupported
<1>3. k \in 1 .. Len(Calls(c))
  <2>1. Calls(c) \in Seq(Entries(tree))
    BY <1>1, <1>2, CallsElements
  <2>2. Len(Calls(c)) \in Nat /\ Len(Top.done) \in Nat
    BY <1>1, <2>1, IsSeqFacts
  <2>3. Len(Top.done) # Len(Calls(c))
    BY DEF Finished
  <2> QED BY <1>1, <1>2, <2>2, <2>3
<1>4. SoundCall(Calls(c)[k], c, tree)
  BY <1>1, <1>2, <1>3, CallFacts
<1>5. PICK l \in DOMAIN c.subs \cap Assumed : c.subs[l] = <<>>
  BY <1>4 DEF SoundCall
<1>6. ~Supported(c)
  <2>1. Len(c.subs[l]) = 0
    BY <1>5
  <2> QED BY <1>5, <2>1, SMTT(30) DEF Supported
<1> QED BY <1>1, <1>6

-----------------------------------------------------------------------------
LEMMA InitInv == Init => Inv
<1> SUFFICES ASSUME Init PROVE Inv
  OBVIOUS
<1> DEFINE vs == <<Frame(tree)>>
<1>1. tree \in ParseTrees /\ visits = vs /\ thrown = OK
  BY DEF Init, ParseProgram
<1>2. tree \in Inside(tree) /\ tree.rule = "Program"
  BY <1>1, GrammarAssumption
<1>3. Frame(tree) = [ctx |-> tree, done |-> <<>>] /\ Frame(tree).ctx = tree /\ Frame(tree).done = <<>>
  BY DEF Frame
<1>4. Len(vs) = 1 /\ vs[1] = Frame(tree) /\ vs # <<>> /\ IsSeq(vs)
  <2>1. vs \in Seq({Frame(tree)})
    OBVIOUS
  <2> QED BY <2>1 DEF IsSeq
<1> HIDE DEF vs
<1>5. FrameOK(vs, tree, 1)
  <2>1. tree.rule \in DOMAIN Rules /\ Calls(tree) \in Seq(Entries(tree))
    BY <1>1, <1>2, ProgramSupported, CallsElements
  <2>2. Len(<<>>) = 0 /\ 0 <= Len(Calls(tree)) /\ 1 .. 0 = {} /\ ~(1 < Len(vs)) /\ tree.rule \notin Inner
    BY <1>2, <1>4, <2>1 DEF Inner
  <2>3. vs[1] = [ctx |-> vs[1].ctx, done |-> vs[1].done] /\ vs[1].ctx = tree /\ vs[1].done = <<>>
    BY <1>3, <1>4
  <2> QED BY <1>2, <2>2, <2>3, EmptyIsSeq DEF FrameOK
<1>6. FramesOK(vs, tree)
  <2>1. 1 .. Len(vs) = {1}
    BY <1>4
  <2> QED BY <1>4, <1>5, <2>1 DEF FramesOK
<1> QED BY <1>1, <1>4, <1>6 DEF Inv, Parsed

(* Every return leaves one frame less, and the caller's has its result.    *)
LEMMA ReturnStep ==
  ASSUME Inv, visits # <<>>, thrown = OK, Complete(Top), Top.ctx.rule # "Program",
         NEW r, Returned(r, Top.ctx), Return(r)
  PROVE  /\ Inv' /\ Len(visits) >= 2
         /\ thrown' = OK /\ visits' # <<>> /\ IsSeq(visits') /\ Len(visits') = Len(visits) - 1
         /\ \A i \in 1 .. Len(visits) - 2 : visits'[i] = visits[i]
         /\ visits'[Len(visits) - 1].done = Append(visits[Len(visits) - 1].done, r)
<1>1. tree \in ParseTrees /\ FramesOK(visits, tree)
  BY DEF Inv
<1>2. Len(visits) \in 1 .. Len(visits) /\ IsSeq(visits) /\ Top = visits[Len(visits)] /\ Len(visits) >= 2 /\ Len(visits) \in Nat
  BY <1>1, TopFacts, IsSeqFacts
<1> DEFINE m == Len(visits) - 1
           ws == After(visits, r)
<1>3. /\ r.class = Calls(visits[m].ctx)[Len(visits[m].done) + 1].cast
      /\ FramesOK(ws, tree) /\ ws # <<>> /\ IsSeq(ws) /\ Len(ws) = m
      /\ \A i \in 1 .. Len(visits) - 2 : ws[i] = visits[i]
      /\ ws[m].done = Append(visits[m].done, r)
  <2>1. Complete(visits[Len(visits)]) /\ Returned(r, visits[Len(visits)].ctx)
    BY <1>2
  <2> QED BY <1>1, <1>2, <2>1, ReturnOK
<1>4. \/ r.class # Calls(visits[m].ctx)[Len(visits[m].done) + 1].cast
      \/ visits' = ws /\ thrown' = thrown
  BY DEF Return, Below, After
<1>5. tree' = tree
  BY DEF Return
<1> HIDE DEF ws
<1>6. visits' = ws /\ thrown' = OK
  BY <1>3, <1>4
<1>7. Inv'
  BY <1>1, <1>3, <1>5, <1>6 DEF Inv, Parsed
<1> QED BY <1>2, <1>3, <1>6, <1>7

LEMMA VisitChildInv == ASSUME Inv, VisitChild PROVE Inv'
<1>1. /\ tree \in ParseTrees /\ FramesOK(visits, tree) /\ visits # <<>> /\ thrown = OK /\ tree' = tree
      /\ ~NotSupported(Top.ctx) /\ ~Finished /\ ~BadPattern
  BY DEF Inv, VisitChild, Building
<1> DEFINE c == Calls(Top.ctx)[Len(Top.done) + 1].ctx
<1>2. CASE c = Null
  <2>1. thrown' = CRASH /\ visits' = <<>>
    BY <1>2 DEF VisitChild
  <2>2. thrown' # OK
    BY <2>1 DEF OK, CRASH
  <2>3. \E d \in Inside(tree) : ~Supported(d)
    BY <1>1, <1>2, CrashUnsupported
  <2>4. FramesOK(visits', tree)
    <3>1. \A i \in 1 .. Len(<<>>) : FrameOK(<<>>, tree, i)
      OBVIOUS
    <3> QED BY <2>1, <3>1, EmptyIsSeq DEF FramesOK
  <2> QED BY <1>1, <2>2, <2>3, <2>4 DEF Inv
<1>3. CASE c # Null
  <2>1. visits' = Append(visits, Frame(c)) /\ thrown' = thrown
    BY <1>3 DEF VisitChild
  <2>2. Top.ctx.rule \in DOMAIN Rules
    BY <1>1 DEF NotSupported
  <2>3. Top.ctx.rule = "Let" /\ Len(Top.done) = 1 => Top.done[1].nodes[1].kind = "PatternVar"
    BY <1>1 DEF BadPattern
  <2>4. Len(Top.done) # Len(Calls(Top.ctx))
    BY <1>1 DEF Finished
  <2>5. Top = visits[Len(visits)]
    BY DEF Top
  <2> HIDE DEF c
  <2>6. FramesOK(Append(visits, Frame(c)), tree)
    BY <1>1, <1>3, <2>2, <2>3, <2>4, <2>5, PushOK DEF c
  <2>7. visits' # <<>>
    <3>1. IsSeq(visits)
      BY <1>1 DEF FramesOK
    <3>2. Len(Append(visits, Frame(c))) = Len(visits) + 1 /\ Len(visits) \in Nat /\ IsSeq(Append(visits, Frame(c)))
      BY <3>1, IsSeqFacts
    <3> QED BY <2>1, <3>2, IsSeqFacts
  <2> QED BY <1>1, <2>1, <2>6, <2>7 DEF Inv, Parsed
<1> QED BY <1>2, <1>3

LEMMA ReturnNodeReturns ==
  ASSUME Inv, ReturnNode
  PROVE  /\ visits # <<>> /\ thrown = OK /\ Complete(Top) /\ Top.ctx.rule # "Program"
         /\ Returned(MakeNode(Top.ctx), Top.ctx) /\ Return(MakeNode(Top.ctx))
<1>1. /\ tree \in ParseTrees /\ FramesOK(visits, tree) /\ visits # <<>> /\ thrown = OK
      /\ Return(MakeNode(Top.ctx))
      /\ ~NotSupported(Top.ctx) /\ Finished /\ ~OutOfRange(Top.ctx) /\ Top.ctx.rule # "Program"
      /\ Top.ctx.rule \notin DOMAIN TypeRules \cup DOMAIN DataTypeRules
  BY DEF Inv, ReturnNode, Building
<1>2. Complete(Top)
  BY <1>1 DEF Complete, Finished, NotSupported
<1>3. Returned(MakeNode(Top.ctx), Top.ctx)
  BY <1>1, <1>2, NodeReturned
<1> QED BY <1>1, <1>2, <1>3

LEMMA ReturnTypeReturns ==
  ASSUME Inv, ReturnType
  PROVE  /\ visits # <<>> /\ thrown = OK /\ Complete(Top) /\ Top.ctx.rule # "Program"
         /\ Returned(MakeType(Top.ctx), Top.ctx) /\ Return(MakeType(Top.ctx))
<1>1. /\ tree \in ParseTrees /\ FramesOK(visits, tree) /\ visits # <<>> /\ thrown = OK
      /\ Return(MakeType(Top.ctx))
      /\ ~NotSupported(Top.ctx) /\ Finished /\ Top.ctx.rule \in DOMAIN TermTags
  BY DEF Inv, ReturnType, Building
<1>2. Top.ctx.rule \notin {"ConstInt", "DotTuple", "Program"}
  BY <1>1 DEF TermTags
<1>3. Complete(Top)
  BY <1>1, <1>2 DEF Complete, Finished, NotSupported, OutOfRange
<1>4. Top.ctx.rule \in DOMAIN TypeRules \cup DOMAIN DataTypeRules
  BY <1>1, RulesAssumption
<1>5. Returned(MakeType(Top.ctx), Top.ctx)
  BY <1>4, TypeReturned DEF MakeType
<1> QED BY <1>1, <1>2, <1>3, <1>5

LEMMA ReturnSameReturns ==
  ASSUME Inv, ReturnSame
  PROVE  /\ visits # <<>> /\ thrown = OK /\ Complete(Top) /\ Top.ctx.rule # "Program"
         /\ Returned(Top.done[1], Top.ctx) /\ Return(Top.done[1]) /\ Len(Top.done) = 1
<1>1. /\ tree \in ParseTrees /\ FramesOK(visits, tree) /\ visits # <<>> /\ thrown = OK
      /\ Return(Top.done[1]) /\ Finished /\ Top.ctx.rule \in Transparent
  BY DEF Inv, ReturnSame, Building
<1>2. Top.ctx.rule # "Program"
  BY <1>1 DEF Transparent
<1> QED BY <1>1, <1>2, SameReturned

LEMMA VisitTypeAutoReturns ==
  ASSUME Inv, VisitTypeAuto, NEW auto, auto = Auto_(AutoNames[Cardinality(registry) + 1])
  PROVE  /\ visits # <<>> /\ thrown = OK /\ Complete(Top) /\ Top.ctx.rule # "Program" /\ Top.done = <<>>
         /\ Returned(TypeResult(auto, {auto}), Top.ctx) /\ Return(TypeResult(auto, {auto}))
         /\ registry' = registry \cup {auto} /\ Cardinality(registry) < Len(AutoNames)
<1>1. /\ tree \in ParseTrees /\ FramesOK(visits, tree) /\ visits # <<>> /\ thrown = OK
      /\ Return(TypeResult(auto, {auto})) /\ Top.ctx.rule = "TypeAuto"
      /\ registry' = registry \cup {auto} /\ Cardinality(registry) < Len(AutoNames)
  BY DEF Inv, VisitTypeAuto, Building
<1>2. /\ Top.ctx \in Inside(tree) /\ IsSeq(Top.done)
      /\ Top.ctx.rule \in DOMAIN Rules => Len(Top.done) <= Len(Calls(Top.ctx))
  BY <1>1, TopFacts
<1>3. /\ Top.ctx.rule \in DOMAIN Rules /\ ~NotSupported(Top.ctx) /\ ~OutOfRange(Top.ctx)
      /\ Calls(Top.ctx) = <<>>
  BY <1>1, <1>2, AutoCalls
<1>4. Top.done = <<>> /\ Complete(Top)
  <2>1. Len(Top.done) \in Nat /\ Len(Top.done) <= 0 /\ Len(Calls(Top.ctx)) = 0
    BY <1>2, <1>3, IsSeqFacts
  <2>2. Len(Top.done) = 0
    BY <2>1
  <2>3. Top.done = <<>>
    BY <1>2, <2>2, IsSeqFacts
  <2> QED BY <1>3, <2>1, <2>2, <2>3 DEF Complete
<1>5. Top.ctx.rule \in DOMAIN TypeRules \cup DOMAIN DataTypeRules
  BY <1>1, RulesAssumption
<1>6. Returned(TypeResult(auto, {auto}), Top.ctx)
  BY <1>5, TypeReturned
<1> QED BY <1>1, <1>4, <1>6

LEMMA ReturnProgramInv == ASSUME Inv, ReturnProgram PROVE Inv'
<1>1. /\ tree \in ParseTrees /\ FramesOK(visits, tree) /\ visits # <<>> /\ thrown = OK
      /\ Top.ctx.rule = "Program" /\ Finished
      /\ tree' = tree /\ visits' = <<>> /\ thrown' = thrown
  BY DEF Inv, ReturnProgram, Building
<1>2. Top.ctx \in Inside(tree) /\ Top.ctx = tree /\ Top = visits[Len(visits)]
  BY <1>1, TopFacts
<1>3. Complete(Top)
  BY <1>1, <1>2, ProgramSupported DEF Complete, Finished
<1>4. \A d \in Inside(tree) : Supported(d)
  BY <1>1, <1>2, <1>3, CompleteSupported
<1>5. FramesOK(<<>>, tree)
  <2>1. \A i \in 1 .. Len(<<>>) : FrameOK(<<>>, tree, i)
    OBVIOUS
  <2> QED BY <2>1, EmptyIsSeq DEF FramesOK
<1> QED BY <1>1, <1>4, <1>5 DEF Inv

LEMMA ThrowInv == ASSUME Inv, Throw PROVE Inv'
<1>1. /\ tree \in ParseTrees /\ FramesOK(visits, tree) /\ visits # <<>> /\ thrown = OK
      /\ NotSupported(Top.ctx) \/ BadPattern \/ OutOfRange(Top.ctx)
      /\ tree' = tree /\ visits' = visits /\ thrown' = ERROR
  BY DEF Inv, Throw, Building
<1>2. \E d \in Inside(tree) : ~Supported(d)
  BY <1>1, ThrowUnsupported
<1>3. thrown' # OK
  BY <1>1 DEF ERROR, OK
<1> QED BY <1>1, <1>2, <1>3 DEF Inv

LEMMA UnwindInv == ASSUME Inv, Unwind PROVE Inv'
<1>1. /\ tree \in ParseTrees /\ FramesOK(visits, tree) /\ visits # <<>> /\ thrown # OK
      /\ \E d \in Inside(tree) : ~Supported(d)
      /\ tree' = tree /\ visits' = SubSeq(visits, 1, Len(visits) - 1) /\ thrown' = thrown
  BY DEF Inv, Unwind, Below
<1>2. FramesOK(visits', tree)
  BY <1>1, PopOK
<1> QED BY <1>1, <1>2 DEF Inv

LEMMA NextInv == Inv /\ [Next]_parser => Inv'
<1> SUFFICES ASSUME Inv, [Next]_parser PROVE Inv'
  OBVIOUS
<1>1. CASE UNCHANGED parser
  BY <1>1 DEF Inv, Parsed, parser
<1>2. CASE VisitChild
  BY <1>2, VisitChildInv
<1>3. CASE ReturnNode
  BY <1>3, ReturnNodeReturns, ReturnStep
<1>4. CASE ReturnType
  BY <1>4, ReturnTypeReturns, ReturnStep
<1>5. CASE ReturnSame
  BY <1>5, ReturnSameReturns, ReturnStep
<1>6. CASE VisitTypeAuto
  <2> DEFINE auto == Auto_(AutoNames[Cardinality(registry) + 1])
  <2> HIDE DEF auto
  <2>1. auto = Auto_(AutoNames[Cardinality(registry) + 1])
    BY DEF auto
  <2> QED BY <1>6, <2>1, VisitTypeAutoReturns, ReturnStep
<1>7. CASE ReturnProgram
  BY <1>7, ReturnProgramInv
<1>8. CASE Throw
  BY <1>8, ThrowInv
<1>9. CASE Unwind
  BY <1>9, UnwindInv
<1> QED BY <1>1, <1>2, <1>3, <1>4, <1>5, <1>6, <1>7, <1>8, <1>9 DEF Next, Build

(* For every tree of the grammar: a program is built exactly if each of its *)
(* constructs is supported; no visitor of ASTBuilder skips one in silence,  *)
(* and none refuses a tree without one.                                     *)
THEOREM SupportedSafety == Spec => []BuildsSupported
<1>1. Inv => BuildsSupported
  BY DEF Inv, BuildsSupported
<1> QED BY InitInv, NextInv, <1>1, PTL DEF Spec

-----------------------------------------------------------------------------
(* The type variables that the results on the C++ stack hold.              *)
Held(vs)   == UNION {Owned(vs[i].done) : i \in DOMAIN vs}
Apart(vs)  ==
  \A i, j \in DOMAIN vs : \A k \in DOMAIN vs[i].done, l \in DOMAIN vs[j].done :
    <<i, k>> # <<j, l>> => vs[i].done[k].autos \cap vs[j].done[l].autos = {}
Framed(vs) == IsSeq(vs) /\ \A i \in 1 .. Len(vs) : IsSeq(vs[i].done)
Holds(vs, i, k, x) == i \in 1 .. Len(vs) /\ k \in 1 .. Len(vs[i].done) /\ x \in vs[i].done[k].autos

LEMMA FramesFramed == ASSUME NEW t, NEW vs, FramesOK(vs, t) PROVE Framed(vs)
BY DEF FramesOK, FrameOK, Framed

LEMMA HeldElements ==
  ASSUME NEW vs, Framed(vs)
  PROVE  /\ \A x : x \in Held(vs) <=> \E i, k : Holds(vs, i, k, x)
         /\ Apart(vs) <=> \A i, j, k, l, x : Holds(vs, i, k, x) /\ Holds(vs, j, l, x) => i = j /\ k = l
<1>1. DOMAIN vs = 1 .. Len(vs) /\ \A i \in 1 .. Len(vs) : DOMAIN vs[i].done = 1 .. Len(vs[i].done)
  BY IsSeqFacts DEF Framed
<1>2. \A i \in 1 .. Len(vs) : \A x : x \in Owned(vs[i].done) <=> \E k : Holds(vs, i, k, x)
  BY <1>1 DEF Owned, Holds
<1>3. \A x : x \in Held(vs) <=> \E i \in 1 .. Len(vs) : x \in Owned(vs[i].done)
  BY <1>1 DEF Held
<1>4. \A x : x \in Held(vs) <=> \E i, k : Holds(vs, i, k, x)
  BY <1>2, <1>3 DEF Holds
<1>5. ASSUME Apart(vs), NEW i, NEW j, NEW k, NEW l, NEW x, Holds(vs, i, k, x), Holds(vs, j, l, x)
      PROVE  i = j /\ k = l
  <2>1. <<i, k>> # <<j, l>> => vs[i].done[k].autos \cap vs[j].done[l].autos = {}
    BY <1>1, <1>5 DEF Apart, Holds
  <2>2. x \in vs[i].done[k].autos \cap vs[j].done[l].autos
    BY <1>5 DEF Holds
  <2>3. <<i, k>> = <<j, l>>
    BY <2>1, <2>2
  <2> QED BY <2>3
<1>6. ASSUME \A i, j, k, l, x : Holds(vs, i, k, x) /\ Holds(vs, j, l, x) => i = j /\ k = l PROVE Apart(vs)
  <2> SUFFICES ASSUME NEW i \in DOMAIN vs, NEW j \in DOMAIN vs, NEW k \in DOMAIN vs[i].done, NEW l \in DOMAIN vs[j].done,
                      NEW x \in vs[i].done[k].autos \cap vs[j].done[l].autos
               PROVE  <<i, k>> = <<j, l>>
    BY DEF Apart
  <2>1. Holds(vs, i, k, x) /\ Holds(vs, j, l, x)
    BY <1>1 DEF Holds
  <2> QED BY <1>6, <2>1
<1> QED BY <1>4, <1>5, <1>6

LEMMA OwnedElements ==
  ASSUME NEW s, IsSeq(s)
  PROVE  \A x : x \in Owned(s) <=> \E k \in 1 .. Len(s) : x \in s[k].autos
BY IsSeqFacts DEF Owned

(* A frame that goes takes its results along.                              *)
LEMMA PopHeld ==
  ASSUME NEW vs, Framed(vs), vs # <<>>, Apart(vs)
  PROVE  LET us == SubSeq(vs, 1, Len(vs) - 1)
         IN  /\ Framed(us) /\ Apart(us)
             /\ Held(us) = Held(vs) \ Owned(vs[Len(vs)].done)
<1> DEFINE us == SubSeq(vs, 1, Len(vs) - 1)
           n == Len(vs)
<1>1. IsSeq(us) /\ Len(us) = n - 1 /\ (\A i \in 1 .. n - 1 : us[i] = vs[i]) /\ n \in Nat /\ n # 0
  BY IsSeqFacts DEF Framed
<1> HIDE DEF us
<1>2. Framed(us)
  <2>1. \A i \in 1 .. n - 1 : i \in 1 .. n
    BY <1>1
  <2> QED BY <1>1, <2>1 DEF Framed
<1>3. \A i, k, x : Holds(us, i, k, x) <=> Holds(vs, i, k, x) /\ i # n
  <2>1. \A i : i \in 1 .. Len(us) <=> i \in 1 .. n /\ i # n
    BY <1>1
  <2>2. \A i \in 1 .. Len(us) : us[i] = vs[i]
    BY <1>1
  <2> HIDE DEF n
  <2> QED BY <2>1, <2>2 DEF Holds, n
<1>4. Apart(us)
  BY <1>2, <1>3, HeldElements
<1>5. \A x : x \in Held(us) <=> x \in Held(vs) /\ x \notin Owned(vs[n].done)
  <2>1. \A x : x \in Owned(vs[n].done) <=> \E k : Holds(vs, n, k, x)
    <3>1. n \in 1 .. Len(vs) /\ IsSeq(vs[n].done)
      BY <1>1 DEF Framed
    <3> QED BY <3>1, OwnedElements DEF Holds
  <2>2. \A x : x \in Held(us) <=> \E i, k : Holds(us, i, k, x)
    BY <1>2, HeldElements
  <2>3. \A x : x \in Held(vs) <=> \E i, k : Holds(vs, i, k, x)
    BY HeldElements
  <2>4. \A i, j, k, l, x : Holds(vs, i, k, x) /\ Holds(vs, j, l, x) => i = j /\ k = l
    BY HeldElements
  <2> HIDE DEF n
  <2> QED BY <1>3, <2>1, <2>2, <2>3, <2>4
<1> QED BY <1>2, <1>4, <1>5 DEF us

(* A visit that begins holds nothing.                                      *)
LEMMA PushHeld ==
  ASSUME NEW vs, Framed(vs), Apart(vs), NEW c
  PROVE  LET us == Append(vs, Frame(c))
         IN  Framed(us) /\ Apart(us) /\ Held(us) = Held(vs)
<1> DEFINE us == Append(vs, Frame(c))
           n == Len(vs)
<1>1. IsSeq(us) /\ Len(us) = n + 1 /\ (\A i \in 1 .. n : us[i] = vs[i]) /\ n \in Nat /\ us[n + 1] = Frame(c)
  BY IsSeqFacts DEF Framed
<1>2. us[n + 1].done = <<>>
  BY <1>1 DEF Frame
<1> HIDE DEF us
<1>3. Framed(us)
  <2>1. \A i \in 1 .. n + 1 : i \in 1 .. n \/ i = n + 1
    BY <1>1
  <2>2. \A i \in 1 .. n : IsSeq(us[i].done)
    BY <1>1 DEF Framed
  <2> QED BY <1>1, <1>2, <2>1, <2>2, EmptyIsSeq DEF Framed
<1>4. \A i, k, x : Holds(us, i, k, x) <=> Holds(vs, i, k, x)
  <2>1. \A i : i \in 1 .. Len(us) <=> i \in 1 .. n \/ i = n + 1
    BY <1>1
  <2>2. n + 1 \notin 1 .. n /\ \A k : k \notin 1 .. Len(us[n + 1].done)
    BY <1>1, <1>2
  <2> HIDE DEF n
  <2> QED BY <1>1, <2>1, <2>2 DEF Holds, n
<1>5. Apart(us)
  BY <1>3, <1>4, HeldElements
<1>6. \A x : x \in Held(us) <=> x \in Held(vs)
  <2>1. \A x : x \in Held(us) <=> \E i, k : Holds(us, i, k, x)
    BY <1>3, HeldElements
  <2>2. \A x : x \in Held(vs) <=> \E i, k : Holds(vs, i, k, x)
    BY HeldElements
  <2> QED BY <1>4, <2>1, <2>2
<1> QED BY <1>3, <1>5, <1>6 DEF us

(* The result of the innermost visit goes to the one below it.             *)
Handed(vs, us, r) ==
  /\ Len(us) = Len(vs) - 1 /\ \A i \in 1 .. Len(vs) - 2 : us[i] = vs[i]
  /\ us[Len(vs) - 1].done = Append(vs[Len(vs) - 1].done, r)

(* A result holds what the results it is made of held, and what is new.    *)
LEMMA ReturnHeld ==
  ASSUME NEW vs, Framed(vs), Apart(vs), Len(vs) >= 2, NEW r, NEW N, N \cap Held(vs) = {},
         r.autos = Owned(vs[Len(vs)].done) \cup N,
         NEW us, Framed(us), Handed(vs, us, r)
  PROVE  Apart(us) /\ Held(us) = Held(vs) \cup N
<1> DEFINE n == Len(vs)
           m == n - 1
           p == Len(vs[m].done)
<1>0. /\ Len(us) = n - 1 /\ \A i \in 1 .. Len(vs) - 2 : us[i] = vs[i]
      /\ us[m].done = Append(vs[m].done, r)
  BY DEF Handed
<1> USE <1>0
<1>1. n \in Nat /\ n >= 2 /\ m \in 1 .. n /\ m \in 1 .. m /\ n \in 1 .. n /\ Len(us) = m
  <2>1. n \in Nat /\ n >= 2 /\ Len(us) = n - 1
    BY IsSeqFacts DEF Framed
  <2> HIDE DEF n
  <2> QED BY <2>1
<1>2. IsSeq(vs[m].done) /\ p \in Nat /\ IsSeq(vs[n].done)
  BY <1>1, IsSeqFacts DEF Framed
<1>3. /\ Len(us[m].done) = p + 1 /\ us[m].done[p + 1] = r
      /\ \A k \in 1 .. p : us[m].done[k] = vs[m].done[k]
  BY <1>2, IsSeqFacts
<1>4. \A i, k, x : Holds(us, i, k, x) <=>
        \/ Holds(vs, i, k, x) /\ i # n
        \/ i = m /\ k = p + 1 /\ x \in r.autos
  <2>1. \A i : i \in 1 .. Len(us) <=> i \in 1 .. n /\ i # n
    BY <1>1
  <2>2. \A i : i \in 1 .. n /\ i # n /\ i # m => us[i] = vs[i]
    <3>1. \A i \in 1 .. n : i # n /\ i # m => i \in 1 .. Len(vs) - 2
      BY <1>1
    <3> QED BY <3>1
  <2>3. \A k : k \in 1 .. Len(us[m].done) <=> k \in 1 .. p \/ k = p + 1
    BY <1>2, <1>3
  <2>4. p + 1 \notin 1 .. p /\ m # n /\ m \in 1 .. n
    BY <1>1, <1>2
  <2>5. \A i, k, x : i # m => (Holds(us, i, k, x) <=> Holds(vs, i, k, x) /\ i # n)
    <3> HIDE DEF m
    <3> QED BY <2>1, <2>2 DEF Holds
  <2>6. \A k, x : Holds(us, m, k, x) <=> Holds(vs, m, k, x) \/ (k = p + 1 /\ x \in r.autos)
    <3>1. \A k, x : Holds(us, m, k, x) <=> k \in 1 .. Len(us[m].done) /\ x \in us[m].done[k].autos
      BY <1>1 DEF Holds
    <3>2. \A k, x : Holds(vs, m, k, x) <=> k \in 1 .. p /\ x \in vs[m].done[k].autos
      BY <1>1 DEF Holds
    <3> HIDE DEF m, p
    <3> QED BY <1>3, <2>3, <2>4, <3>1, <3>2
  <2> HIDE DEF m, n, p
  <2> QED BY <2>4, <2>5, <2>6
<1>5. \A x : x \in r.autos <=> x \in N \/ \E k : Holds(vs, n, k, x)
  <2>1. \A x : x \in Owned(vs[n].done) <=> \E k : Holds(vs, n, k, x)
    BY <1>1, <1>2, OwnedElements DEF Holds
  <2> QED BY <2>1
<1>6. /\ \A x : x \in Held(vs) <=> \E i, k : Holds(vs, i, k, x)
      /\ \A i, j, k, l, x : Holds(vs, i, k, x) /\ Holds(vs, j, l, x) => i = j /\ k = l
      /\ \A x : x \in Held(us) <=> \E i, k : Holds(us, i, k, x)
      /\ Apart(us) <=> \A i, j, k, l, x : Holds(us, i, k, x) /\ Holds(us, j, l, x) => i = j /\ k = l
  BY HeldElements
<1>7. \A x, i, k : x \in N => ~Holds(vs, i, k, x)
  BY <1>6
<1> HIDE DEF m, n, p
<1>8. \A i, j, k, l, x : Holds(us, i, k, x) /\ Holds(us, j, l, x) => i = j /\ k = l
  <2> SUFFICES ASSUME NEW i, NEW j, NEW k, NEW l, NEW x, Holds(us, i, k, x), Holds(us, j, l, x)
               PROVE  i = j /\ k = l
    OBVIOUS
  <2>1. CASE Holds(vs, i, k, x) /\ i # n /\ Holds(vs, j, l, x) /\ j # n
    BY <1>6, <2>1
  <2>2. CASE i = m /\ k = p + 1 /\ j = m /\ l = p + 1
    BY <2>2
  <2>3. \A f, g : Holds(vs, f, g, x) /\ f # n => x \notin r.autos
    BY <1>5, <1>6, <1>7
  <2> QED BY <1>4, <2>1, <2>2, <2>3
<1>9. \A x : x \in Held(us) <=> x \in Held(vs) \cup N
  <2>1. \A x : (\E i, k : Holds(us, i, k, x)) <=> (\E i, k : Holds(vs, i, k, x) /\ i # n) \/ x \in r.autos
    BY <1>4
  <2> QED BY <1>5, <1>6, <2>1
<1> QED BY <1>6, <1>8, <1>9

Named(n) == {Auto_(AutoNames[i]) : i \in 1 .. n}
RegistryInv ==
  /\ ~Parsed => registry = Held(visits)
  /\ Apart(visits)
  /\ thrown = OK => /\ IsFiniteSet(registry) /\ Cardinality(registry) <= Len(AutoNames)
                    /\ registry = Named(Cardinality(registry))
  /\ Parsed /\ thrown # OK => registry = {}

(* The next name is a new one.                                             *)
LEMMA FreshName ==
  ASSUME NEW R, IsFiniteSet(R), Cardinality(R) < Len(AutoNames), R = Named(Cardinality(R)),
         NEW auto, auto = Auto_(AutoNames[Cardinality(R) + 1])
  PROVE  /\ auto \notin R
         /\ IsFiniteSet(R \cup {auto}) /\ Cardinality(R \cup {auto}) <= Len(AutoNames)
         /\ R \cup {auto} = Named(Cardinality(R \cup {auto}))
<1> DEFINE n == Cardinality(R)
<1>1. n \in Nat /\ Len(AutoNames) \in Nat /\ DOMAIN AutoNames = 1 .. Len(AutoNames)
  BY FS_CardinalityType, NamesAssumption
<1>2. n < Len(AutoNames) /\ R = Named(n) /\ auto = Auto_(AutoNames[n + 1])
  OBVIOUS
<1>3. auto \notin R
  <2> SUFFICES ASSUME NEW i \in 1 .. n, auto = Auto_(AutoNames[i]) PROVE FALSE
    BY <1>2 DEF Named
  <2>1. <<AutoNames[i]>> = <<AutoNames[n + 1]>>
    BY <1>2 DEF Auto_, Term
  <2>2. AutoNames[i] = AutoNames[n + 1]
    BY <2>1
  <2> HIDE DEF n
  <2>3. i \in DOMAIN AutoNames /\ n + 1 \in DOMAIN AutoNames /\ i # n + 1
    BY <1>1, <1>2
  <2> QED BY <2>2, <2>3, NamesAssumption
<1>4. IsFiniteSet(R \cup {auto}) /\ Cardinality(R \cup {auto}) = n + 1
  BY <1>3, FS_AddElement
<1> HIDE DEF n
<1>5. Named(n + 1) = Named(n) \cup {Auto_(AutoNames[n + 1])}
  <2>1. 1 .. n + 1 = 1 .. n \cup {n + 1}
    BY <1>1
  <2> QED BY <2>1 DEF Named
<1>6. n + 1 <= Len(AutoNames)
  BY <1>1, <1>2
<1> QED BY <1>2, <1>3, <1>4, <1>5, <1>6

LEMMA InitRegistry == Init => RegistryInv
<1> SUFFICES ASSUME Init PROVE RegistryInv
  OBVIOUS
<1> DEFINE vs == <<Frame(tree)>>
<1>1. visits = vs /\ thrown = OK /\ registry = {} /\ FramesOK(visits, tree)
  BY InitInv DEF Init, ParseProgram, Inv
<1>2. Len(vs) = 1 /\ vs[1].done = <<>>
  BY DEF Frame
<1> HIDE DEF vs
<1>3. Framed(vs)
  BY <1>1, FramesFramed
<1>4. \A i, k, x : ~Holds(vs, i, k, x)
  BY <1>2 DEF Holds
<1>5. Held(vs) = {} /\ Apart(vs)
  BY <1>3, <1>4, HeldElements
<1>6. Named(0) = {}
  BY DEF Named
<1>7. IsFiniteSet({}) /\ Cardinality({}) = 0
  BY FS_EmptySet
<1>8. 0 <= Len(AutoNames)
  BY NamesAssumption
<1>9. vs # <<>>
  BY <1>2
<1> QED BY <1>1, <1>5, <1>6, <1>7, <1>8, <1>9 DEF RegistryInv, Parsed

LEMMA ReturnRegistry ==
  ASSUME Inv, RegistryInv, visits # <<>>, thrown = OK, Complete(Top), Top.ctx.rule # "Program",
         NEW r, Returned(r, Top.ctx), Return(r),
         NEW N, N \cap registry = {}, r.autos = Owned(Top.done) \cup N
  PROVE  /\ visits' # <<>> /\ thrown' = OK
         /\ Apart(visits') /\ Held(visits') = registry \cup N
<1>1. /\ Inv' /\ Len(visits) >= 2
      /\ thrown' = OK /\ visits' # <<>> /\ IsSeq(visits') /\ Len(visits') = Len(visits) - 1
      /\ \A i \in 1 .. Len(visits) - 2 : visits'[i] = visits[i]
      /\ visits'[Len(visits) - 1].done = Append(visits[Len(visits) - 1].done, r)
  BY ReturnStep
<1>2. Framed(visits) /\ Framed(visits')
  BY <1>1, FramesFramed DEF Inv
<1>3. Apart(visits) /\ registry = Held(visits)
  BY DEF RegistryInv, Parsed
<1>4. r.autos = Owned(visits[Len(visits)].done) \cup N
  BY DEF Top
<1>5. Apart(visits') /\ Held(visits') = Held(visits) \cup N
  <2> DEFINE us == visits'
  <2> HIDE DEF us
  <2>1. Len(visits) >= 2 /\ Framed(us) /\ Handed(visits, us, r)
    BY <1>1, <1>2 DEF us, Handed
  <2>2. Apart(us) /\ Held(us) = Held(visits) \cup N
    <3>1. Framed(visits) /\ Apart(visits) /\ N \cap Held(visits) = {}
      BY <1>2, <1>3
    <3> QED BY <1>4, <2>1, <3>1, ReturnHeld
  <2> QED BY <2>2 DEF us
<1> QED BY <1>1, <1>3, <1>5

(* A result made of the others makes no new variable.                      *)
LEMMA ReturnOwned ==
  ASSUME Inv, RegistryInv, visits # <<>>, thrown = OK, Complete(Top), Top.ctx.rule # "Program",
         NEW r, Returned(r, Top.ctx), Return(r), r.autos = Owned(Top.done), registry' = registry
  PROVE  RegistryInv'
<1>1. {} \cap registry = {} /\ r.autos = Owned(Top.done) \cup {}
  OBVIOUS
<1>2. visits' # <<>> /\ thrown' = OK /\ Apart(visits') /\ Held(visits') = registry \cup {}
  BY <1>1, ReturnRegistry
<1> QED BY <1>2 DEF RegistryInv, Parsed

LEMMA VisitChildRegistry == ASSUME Inv, RegistryInv, VisitChild PROVE RegistryInv'
<1> DEFINE c == Calls(Top.ctx)[Len(Top.done) + 1].ctx
<1>1. Framed(visits) /\ visits # <<>> /\ thrown = OK /\ Apart(visits) /\ registry = Held(visits)
  BY FramesFramed DEF Inv, RegistryInv, Parsed, VisitChild, Building
<1>2. CASE c = Null
  <2>1. thrown' = CRASH /\ visits' = <<>> /\ registry' = {}
    BY <1>2 DEF VisitChild
  <2>2. Apart(<<>>)
    BY DEF Apart
  <2> QED BY <2>1, <2>2 DEF RegistryInv, Parsed, OK, CRASH
<1>3. CASE c # Null
  <2>1. visits' = Append(visits, Frame(c)) /\ thrown' = thrown /\ registry' = registry
    BY <1>3 DEF VisitChild
  <2> HIDE DEF c
  <2>2. Framed(visits') /\ Apart(visits') /\ Held(visits') = Held(visits)
    <3>1. /\ Framed(Append(visits, Frame(c))) /\ Apart(Append(visits, Frame(c)))
          /\ Held(Append(visits, Frame(c))) = Held(visits)
      BY <1>1, PushHeld
    <3> QED BY <2>1, <3>1
  <2>3. visits' # <<>>
    <3>1. IsSeq(visits)
      BY <1>1 DEF Framed
    <3>2. Len(Append(visits, Frame(c))) = Len(visits) + 1 /\ Len(visits) \in Nat /\ IsSeq(Append(visits, Frame(c)))
      BY <3>1, IsSeqFacts
    <3> QED BY <2>1, <3>2, IsSeqFacts
  <2> QED BY <1>1, <2>1, <2>2, <2>3 DEF RegistryInv, Parsed
<1> QED BY <1>2, <1>3

LEMMA VisitTypeAutoRegistry == ASSUME Inv, RegistryInv, VisitTypeAuto PROVE RegistryInv'
<1> DEFINE auto == Auto_(AutoNames[Cardinality(registry) + 1])
           r == TypeResult(auto, {auto})
<1>0. auto = Auto_(AutoNames[Cardinality(registry) + 1])
  OBVIOUS
<1> HIDE DEF auto
<1>1. /\ visits # <<>> /\ thrown = OK /\ Complete(Top) /\ Top.ctx.rule # "Program" /\ Top.done = <<>>
      /\ Returned(r, Top.ctx) /\ Return(r)
      /\ registry' = registry \cup {auto} /\ Cardinality(registry) < Len(AutoNames)
  BY <1>0, VisitTypeAutoReturns
<1>2. r.autos = Owned(Top.done) \cup {auto}
  BY <1>1 DEF TypeResult, Owned
<1>3. /\ auto \notin registry
      /\ IsFiniteSet(registry') /\ Cardinality(registry') <= Len(AutoNames)
      /\ registry' = Named(Cardinality(registry'))
  <2>1. IsFiniteSet(registry) /\ registry = Named(Cardinality(registry))
    BY <1>1 DEF RegistryInv
  <2> QED BY <1>0, <1>1, <2>1, FreshName
<1> HIDE DEF r
<1>4. visits' # <<>> /\ thrown' = OK /\ Apart(visits') /\ Held(visits') = registry \cup {auto}
  <2>1. {auto} \cap registry = {}
    BY <1>3
  <2> QED BY <1>1, <1>2, <2>1, ReturnRegistry
<1>5. registry' = Named(Cardinality(registry))'
  BY <1>3 DEF Named
<1> QED BY <1>1, <1>3, <1>4, <1>5 DEF RegistryInv, Parsed

LEMMA UnwindRegistry == ASSUME Inv, RegistryInv, Unwind PROVE RegistryInv'
<1>1. /\ Framed(visits) /\ visits # <<>> /\ thrown # OK /\ Apart(visits) /\ registry = Held(visits)
      /\ visits' = SubSeq(visits, 1, Len(visits) - 1) /\ thrown' = thrown
      /\ registry' = registry \ Owned(visits[Len(visits)].done)
  BY FramesFramed DEF Inv, RegistryInv, Parsed, Unwind, Below, Top
<1>2. Framed(visits') /\ Apart(visits') /\ Held(visits') = Held(visits) \ Owned(visits[Len(visits)].done)
  BY <1>1, PopHeld
<1>3. visits' = <<>> => Held(visits') = {}
  BY DEF Held
<1> QED BY <1>1, <1>2, <1>3 DEF RegistryInv, Parsed

LEMMA NextRegistry == Inv /\ RegistryInv /\ [Next]_parser => RegistryInv'
<1> SUFFICES ASSUME Inv, RegistryInv, [Next]_parser PROVE RegistryInv'
  OBVIOUS
<1>1. CASE UNCHANGED parser
  BY <1>1 DEF RegistryInv, Parsed, parser, Named
<1>2. CASE VisitChild
  BY <1>2, VisitChildRegistry
<1>3. CASE ReturnNode
  <2>1. MakeNode(Top.ctx).autos = Owned(Top.done) /\ registry' = registry
    BY <1>3 DEF MakeNode, ReturnNode
  <2> QED BY <1>3, <2>1, ReturnNodeReturns, ReturnOwned
<1>4. CASE ReturnType
  <2>1. MakeType(Top.ctx).autos = Owned(Top.done) /\ registry' = registry
    BY <1>4 DEF MakeType, TypeResult, ReturnType
  <2> QED BY <1>4, <2>1, ReturnTypeReturns, ReturnOwned
<1>5. CASE ReturnSame
  <2>1. visits # <<>> /\ Len(Top.done) = 1 /\ IsSeq(Top.done) /\ registry' = registry
    BY <1>5, ReturnSameReturns, TopFacts DEF Inv, ReturnSame
  <2>2. Top.done[1].autos = Owned(Top.done)
    <3>1. \A x : x \in Owned(Top.done) <=> \E k \in 1 .. 1 : x \in Top.done[k].autos
      BY <2>1, OwnedElements
    <3>2. \A x : x \in Owned(Top.done) <=> x \in Top.done[1].autos
      BY <3>1
    <3> QED BY <3>2
  <2> QED BY <1>5, <2>1, <2>2, ReturnSameReturns, ReturnOwned
<1>6. CASE VisitTypeAuto
  BY <1>6, VisitTypeAutoRegistry
<1>7. CASE ReturnProgram
  <2>1. thrown = OK /\ visits' = <<>> /\ thrown' = thrown /\ registry' = registry
    BY <1>7 DEF ReturnProgram, Building
  <2>2. Apart(<<>>)
    BY DEF Apart
  <2> QED BY <2>1, <2>2 DEF RegistryInv, Parsed, Named
<1>8. CASE Throw
  <2>1. visits # <<>> /\ visits' = visits /\ registry' = registry /\ thrown' # OK
    BY <1>8 DEF Throw, Building, ERROR, OK
  <2> QED BY <2>1 DEF RegistryInv, Parsed
<1>9. CASE Unwind
  BY <1>9, UnwindRegistry
<1> QED BY <1>1, <1>2, <1>3, <1>4, <1>5, <1>6, <1>7, <1>8, <1>9 DEF Next, Build

(* For every tree of the grammar: the registry of type variables holds at   *)
(* every step of ASTBuilder exactly those that a result on the C++ stack    *)
(* owns, each by one result, and none after an exception has left it.       *)
THEOREM RegistrySafety == Spec => []RegistryOwned
<1>1. RegistryInv => RegistryOwned
  BY DEF RegistryInv, RegistryOwned, Held, Apart, Named
<1> QED BY InitInv, NextInv, InitRegistry, NextRegistry, <1>1, PTL DEF Spec
=============================================================================
