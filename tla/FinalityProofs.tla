--------------------------- MODULE FinalityProofs ---------------------------
(***************************************************************************)
(* Proofs about the checker, for any programs that the node classes allow  *)
(* and any relations on types: the deduced type of an expression or a      *)
(* pattern is set once, and only a function declaration replaces its own.  *)
(***************************************************************************)
EXTENDS StorageProofs

KindOf(n) == Node(n).kind
KidsOf(n) == Node(n).kids

(* The nodes a name can stand for without a visit of its own: they have no *)
(* parts that a visitor visits.                                            *)
Binders == {"ParamDecl", "PatternVar"}
RootFunction(n) == IsFunction(n) /\ \E j \in DOMAIN KidsOf(1) : KidsOf(1)[j] = n

(* How many children a visit has behind it, its pc being what it is.  A    *)
(* let, a try and an arm of a match set the type of their pattern just     *)
(* before they visit the expression after it; an arm of casts visits it.   *)
CastsOnly(n) ==
  \A k \in 1..((Len(KidsOf(n)) - 1) \div 2) : KindOf(KidsOf(n)[2 * k]) = "PatternCastAs"
Patterned == {"Let", "TryCatch", "TryCastAs"}
Flat == Binders \cup {"PatternCastAs"}
Passed(n, pc) ==
  CASE KindOf(n) \in Flat -> Len(KidsOf(n))
    [] KindOf(n) \in Patterned -> IF pc > 1 THEN pc + 1 ELSE pc
    [] KindOf(n) = "Match" -> IF pc = 0 THEN 0 ELSE IF CastsOnly(n) THEN 2 * pc ELSE 2 * pc - 1
    [] OTHER -> pc

(* B is the set of the nodes that the check has begun with, d their        *)
(* deduced types, fs the call stack.  What has a type has been begun, and  *)
(* so has what it is a part of; a function that has been entered has its   *)
(* declared type, or is still being visited.                               *)
Begun(B, d, fs) ==
  /\ B \subseteq Ids /\ 1 \in B
  /\ \A n \in Ids : d[n] # Absent => n \in B
  /\ \A n \in Ids : \A j \in DOMAIN KidsOf(n) : KidsOf(n)[j] \in B => n \in B
  /\ \A n \in B : RootFunction(n) => d[n] # Absent \/ \E i \in DOMAIN fs : fs[i].node = n

(* The call stack is a path: every visit is called from the parent of its  *)
(* node, or from a variable that stands for it; no node is visited twice   *)
(* at a time.                                                              *)
Caller(m, n) ==
  \/ \E j \in DOMAIN KidsOf(m) : KidsOf(m)[j] = n
  \/ KindOf(m) = "Var" /\ (RootFunction(n) \/ KindOf(n) \in Binders)
Stacked(fs) ==
  /\ fs # <<>> => fs[1].node = 1
  /\ \A i \in DOMAIN fs : i > 1 => Caller(fs[i - 1].node, fs[i].node)
  /\ \A i, j \in DOMAIN fs : fs[i].node = fs[j].node => i = j
  /\ \A i \in DOMAIN fs : i < Len(fs) => KindOf(fs[i].node) \notin Binders

(* The children that a visit has not come to are untouched, but for the    *)
(* functions of the program, which their callers enter early.              *)
Ahead(B, f) ==
  \A j \in DOMAIN KidsOf(f.node) :
    Passed(f.node, f.pc) < j => RootFunction(KidsOf(f.node)[j]) \/ KidsOf(f.node)[j] \notin B
(* A visit in progress has no type yet; a function has its declared one    *)
(* before it visits anything but its parameter.                            *)
Open(d, fs, i) ==
  IF IsFunction(fs[i].node)
  THEN \/ d[fs[i].node] # Absent
       \/ fs[i].pc <= 1 /\ (i < Len(fs) => KindOf(fs[i + 1].node) = "ParamDecl")
  ELSE d[fs[i].node] = Absent

(* What a name can resolve to is a function of the program, or a parameter *)
(* or a pattern variable that has been begun.                              *)
Bindable(B, n) == n \in Ids /\ (RootFunction(n) \/ (KindOf(n) \in Binders /\ n \in B))
Resolvable(B, g) == \A x \in Names : \A i \in DOMAIN g[x] : Bindable(B, g[x][i])

(* The variable of a cast pattern has no type yet, or that of the cast.    *)
Recast(d) ==
  \A n \in Ids : KindOf(n) = "PatternCastAs" /\ KindOf(KidsOf(n)[1]) = "PatternVar"
    => d[KidsOf(n)[1]] \in {Absent, Node(n).types[1]}

Settled(B, d, fs) ==
  /\ Begun(B, d, fs) /\ Stacked(fs) /\ Recast(d)
  /\ \A i \in DOMAIN fs :
       /\ fs[i].node \in B /\ Ahead(B, fs[i]) /\ Open(d, fs, i)
       /\ Resolvable(B, fs[i].base) /\ Resolvable(B, fs[i].guards)

-----------------------------------------------------------------------------
(* The program is a tree.                                                  *)
LEMMA ProgramTree ==
  ASSUME prog \in Programs
  PROVE  /\ 1 \in Ids /\ KindOf(1) = "Program"
         /\ \A n \in Ids :
              /\ n \in Nat /\ n >= 1
              /\ KindOf(n) = "Program" => n = 1
              /\ DOMAIN KidsOf(n) = 1..Len(KidsOf(n)) /\ Len(KidsOf(n)) \in Nat
              /\ KindOf(n) \in FunctionKinds \cup {"Abstraction"} => KindOf(KidsOf(n)[1]) = "ParamDecl"
              /\ KindOf(n) = "Let" => KindOf(KidsOf(n)[2]) = "PatternVar"
         /\ \A n \in Ids : \A j \in DOMAIN KidsOf(n) : KidsOf(n)[j] \in Ids /\ n < KidsOf(n)[j]
         /\ \A m, n \in Ids : \A i \in DOMAIN KidsOf(m), j \in DOMAIN KidsOf(n) :
              KidsOf(m)[i] = KidsOf(n)[j] => m = n /\ i = j
<1>1. WellBuilt(prog)
  BY GrammarAssumption
<1>2. Len(prog.node) \in Nat \ {0} /\ prog.node[1].kind = "Program"
  BY <1>1 DEF WellBuilt
<1>3. \A n \in Ids :
        /\ KindOf(n) = "Program" => n = 1
        /\ KindOf(n) \in FunctionKinds \cup {"Abstraction"} => KindOf(KidsOf(n)[1]) = "ParamDecl"
        /\ KindOf(n) = "Let" => KindOf(KidsOf(n)[2]) = "PatternVar"
        /\ \A j \in DOMAIN KidsOf(n) : n < KidsOf(n)[j]
  BY <1>1 DEF WellBuilt, Ids, KindOf, KidsOf, Node
<1>4. \A m, n \in Ids : \A i \in DOMAIN KidsOf(m), j \in DOMAIN KidsOf(n) :
        KidsOf(m)[i] = KidsOf(n)[j] => m = n /\ i = j
  BY <1>1 DEF WellBuilt, Ids, KidsOf, Node
<1>5. \A n \in Ids : /\ DOMAIN KidsOf(n) = 1..Len(KidsOf(n)) /\ Len(KidsOf(n)) \in Nat
                     /\ \A j \in DOMAIN KidsOf(n) : KidsOf(n)[j] \in Ids
  BY Nodes DEF KidsOf
<1> QED BY <1>2, <1>3, <1>4, <1>5 DEF Ids, KindOf, Node

LEMMA Kinds ==
  /\ \A n : IsFunction(n) <=> KindOf(n) \in FunctionKinds
  /\ \A n : RootFunction(n) => IsFunction(n)
  /\ Binders \cap FunctionKinds = {} /\ "Program" \notin Binders \cup FunctionKinds
  /\ "Var" \notin Binders \cup FunctionKinds /\ "PatternCastAs" \notin Binders \cup FunctionKinds
  /\ "ParamDecl" \in Binders /\ "PatternVar" \in Binders
BY DEF IsFunction, KindOf, RootFunction, Binders, FunctionKinds

LEMMA EmptySequence ==
  ASSUME NEW s, IsSequence(s), Len(s) = 0
  PROVE  s = <<>>
BY DEF IsSequence

LEMMA PassedValues ==
  ASSUME NEW n, NEW pc
  PROVE  /\ KindOf(n) \in Flat => Passed(n, pc) = Len(KidsOf(n))
         /\ KindOf(n) \in Patterned => Passed(n, pc) = IF pc > 1 THEN pc + 1 ELSE pc
         /\ KindOf(n) = "Match" =>
               Passed(n, pc) = IF pc = 0 THEN 0 ELSE IF CastsOnly(n) THEN 2 * pc ELSE 2 * pc - 1
         /\ KindOf(n) \notin Flat \cup Patterned \cup {"Match"} => Passed(n, pc) = pc
BY DEF Passed, Flat, Patterned, Binders

(* A child of the node on top is not being visited, and no child of that   *)
(* child is.                                                               *)
LEMMA KidOffStack ==
  ASSUME prog \in Programs, NEW B, NEW d, NEW fs, Settled(B, d, fs),
         IsSequence(fs), NEW l, l = Len(fs), l # 0,
         NEW top, top = fs[l].node, KindOf(top) \notin Binders,
         NEW j \in DOMAIN KidsOf(top)
  PROVE  /\ top \in Ids
         /\ \A i \in DOMAIN fs : fs[i].node # KidsOf(top)[j]
<1> DEFINE k == KidsOf(top)[j]
<1>1. l \in Nat \ {0} /\ DOMAIN fs = 1..l /\ fs # <<>>
  BY SequenceFacts
<1>2. /\ B \subseteq Ids /\ \A i \in DOMAIN fs : fs[i].node \in B
      /\ fs[1].node = 1
      /\ \A i \in DOMAIN fs : i > 1 => Caller(fs[i - 1].node, fs[i].node)
      /\ \A i, m \in DOMAIN fs : fs[i].node = fs[m].node => i = m
      /\ \A i \in DOMAIN fs : i < l => KindOf(fs[i].node) \notin Binders
  BY <1>1 DEF Settled, Begun, Stacked
<1>3. top \in Ids /\ l \in DOMAIN fs
  BY <1>1, <1>2
<1>4. k \in Ids /\ top < k /\ k # 1 /\ k # top /\ top \in Nat
  <2>1. k \in Ids /\ top < k /\ top \in Nat /\ top >= 1 /\ k \in Nat
    BY <1>3, ProgramTree
  <2> QED BY <2>1
<1>5. ASSUME NEW i \in DOMAIN fs, fs[i].node = k PROVE FALSE
  <2>1. i \in Nat /\ i > 1 /\ i < l /\ i - 1 \in DOMAIN fs /\ fs[i - 1].node \in Ids
    BY <1>1, <1>2, <1>4, <1>5
  <2>2. KindOf(k) \notin Binders /\ Caller(fs[i - 1].node, k)
    BY <1>2, <1>5, <2>1
  <2>3. CASE \E m \in DOMAIN KidsOf(fs[i - 1].node) : KidsOf(fs[i - 1].node)[m] = k
    <3>1. fs[i - 1].node = top
      BY <1>3, <2>1, <2>3, ProgramTree
    <3> QED BY <1>1, <1>2, <1>3, <2>1, <3>1
  <2>4. CASE RootFunction(k)
    <3>1. top = 1
      BY <1>3, <2>4, ProgramTree DEF RootFunction
    <3>2. l = 1
      <4>1. 1 \in DOMAIN fs /\ fs[1].node = fs[l].node
        BY <1>1, <1>2, <3>1
      <4> QED BY <1>2, <1>3, <4>1
    <3> QED BY <1>1, <2>1, <3>2
  <2> QED BY <2>2, <2>3, <2>4 DEF Caller
<1> QED BY <1>3, <1>5

LEMMA GrandkidOffStack ==
  ASSUME prog \in Programs, NEW B, NEW d, NEW fs, Settled(B, d, fs),
         IsSequence(fs), NEW l, l = Len(fs), l # 0,
         NEW top, top = fs[l].node, KindOf(top) \notin Binders,
         NEW j \in DOMAIN KidsOf(top), NEW i \in DOMAIN KidsOf(KidsOf(top)[j])
  PROVE  \A m \in DOMAIN fs : fs[m].node # KidsOf(KidsOf(top)[j])[i]
<1> DEFINE p == KidsOf(top)[j]
           k == KidsOf(p)[i]
<1>1. l \in Nat \ {0} /\ DOMAIN fs = 1..l /\ fs # <<>>
  BY SequenceFacts
<1>2. /\ B \subseteq Ids /\ \A m \in DOMAIN fs : fs[m].node \in B
      /\ fs[1].node = 1
      /\ \A m \in DOMAIN fs : m > 1 => Caller(fs[m - 1].node, fs[m].node)
      /\ \A m \in DOMAIN fs : m < l => KindOf(fs[m].node) \notin Binders
  BY <1>1 DEF Settled, Begun, Stacked
<1>3. top \in Ids /\ \A m \in DOMAIN fs : fs[m].node # p
  BY KidOffStack
<1>4. p \in Ids /\ k \in Ids /\ top < p /\ p < k /\ k # 1 /\ p # 1 /\ k # top
  <2>1. p \in Ids /\ k \in Ids /\ top < p /\ p < k
    BY <1>3, ProgramTree
  <2>2. top \in Nat /\ p \in Nat /\ k \in Nat /\ top >= 1
    BY <1>3, <2>1, ProgramTree
  <2> QED BY <2>1, <2>2
<1>5. ASSUME NEW m \in DOMAIN fs, fs[m].node = k PROVE FALSE
  <2>1. m \in Nat /\ m > 1 /\ m < l /\ m - 1 \in DOMAIN fs /\ fs[m - 1].node \in Ids
    BY <1>1, <1>2, <1>4, <1>5
  <2>2. KindOf(k) \notin Binders /\ Caller(fs[m - 1].node, k)
    BY <1>2, <1>5, <2>1
  <2>3. CASE \E q \in DOMAIN KidsOf(fs[m - 1].node) : KidsOf(fs[m - 1].node)[q] = k
    <3>1. fs[m - 1].node = p
      BY <1>4, <2>1, <2>3, ProgramTree
    <3> QED BY <1>3, <2>1, <3>1
  <2>4. CASE RootFunction(k)
    <3>1. p = 1
      BY <1>4, <2>4, ProgramTree DEF RootFunction
    <3> QED BY <1>4, <3>1
  <2> QED BY <2>2, <2>3, <2>4 DEF Caller
<1> QED BY <1>5

-----------------------------------------------------------------------------
(* What a visitor may do with the state that Settled describes.            *)

(* The visit on top reads on: it begins with children and with children of *)
(* theirs, gives types to these (a function to itself), and holds other    *)
(* guards.                                                                 *)
Beneath(top, p, N, n) ==
  \E j \in DOMAIN KidsOf(top) :
    /\ j <= p
    /\ \/ KidsOf(top)[j] = n
       \/ KidsOf(top)[j] \in N /\ \E i \in DOMAIN KidsOf(KidsOf(top)[j]) : KidsOf(KidsOf(top)[j])[i] = n

LEMMA BeneathOffStack ==
  ASSUME prog \in Programs, NEW B, NEW d, NEW fs, Settled(B, d, fs),
         IsSequence(fs), NEW l, l = Len(fs), l # 0,
         NEW top, top = fs[l].node, KindOf(top) \notin Binders,
         NEW p, NEW N, NEW n, Beneath(top, p, N, n)
  PROVE  \A i \in DOMAIN fs : fs[i].node # n
<1>1. PICK j \in DOMAIN KidsOf(top) :
        \/ KidsOf(top)[j] = n
        \/ \E m \in DOMAIN KidsOf(KidsOf(top)[j]) : KidsOf(KidsOf(top)[j])[m] = n
  BY DEF Beneath
<1>2. CASE KidsOf(top)[j] = n
  <2>1. \A m \in DOMAIN fs : fs[m].node # KidsOf(top)[j]
    BY KidOffStack
  <2> QED BY <1>2, <2>1
<1>3. CASE \E m \in DOMAIN KidsOf(KidsOf(top)[j]) : KidsOf(KidsOf(top)[j])[m] = n
  <2>1. PICK m \in DOMAIN KidsOf(KidsOf(top)[j]) : KidsOf(KidsOf(top)[j])[m] = n
    BY <1>3
  <2>2. \A r \in DOMAIN fs : fs[r].node # KidsOf(KidsOf(top)[j])[m]
    BY GrandkidOffStack, ZenonT(60)
  <2> QED BY <2>1, <2>2
<1> QED BY <1>1, <1>2, <1>3

Grows(B, d, fs, g, hs, N, e) ==
  LET l == Len(fs)
      top == fs[l].node
      p == Passed(top, g.pc) IN
  /\ prog \in Programs /\ Settled(B, d, fs) /\ IsSequence(fs) /\ l # 0 /\ KindOf(top) \notin Binders
  /\ g.node = top /\ g.base = fs[l].base
  /\ IsSequence(hs) /\ Len(hs) = l /\ hs[l] = g /\ \A i \in 1..(l - 1) : hs[i] = fs[i]
  /\ Passed(top, fs[l].pc) \in Nat /\ p \in Nat /\ Passed(top, fs[l].pc) <= p
  /\ N \subseteq Ids /\ \A n \in N : ~IsFunction(n) /\ Beneath(top, p, N, n)
  /\ \A n \in Ids : e[n] # d[n] => n \in N \/ (n = top /\ IsFunction(top))
  /\ IsFunction(top) => e[top] # Absent \/ g.pc <= 1
  /\ Recast(e) /\ Resolvable(B \cup N, g.guards)

LEMMA Grow ==
  ASSUME NEW B, NEW d, NEW fs, NEW g, NEW hs, NEW N, NEW e, Grows(B, d, fs, g, hs, N, e)
  PROVE  Settled(B \cup N, e, hs)
<1> DEFINE l == Len(fs)
           top == fs[l].node
           q == Passed(top, fs[l].pc)
           p == Passed(top, g.pc)
<1>a. /\ prog \in Programs /\ Settled(B, d, fs) /\ IsSequence(fs) /\ l = Len(fs) /\ l # 0
      /\ top = fs[l].node /\ KindOf(top) \notin Binders
      /\ g.node = top /\ g.base = fs[l].base
      /\ IsSequence(hs) /\ Len(hs) = l /\ hs[l] = g /\ \A i \in 1..(l - 1) : hs[i] = fs[i]
      /\ q \in Nat /\ p \in Nat /\ q <= p /\ q = Passed(top, fs[l].pc) /\ p = Passed(top, g.pc)
      /\ N \subseteq Ids /\ \A n \in N : ~IsFunction(n) /\ Beneath(top, p, N, n)
      /\ \A n \in Ids : e[n] # d[n] => n \in N \/ (n = top /\ IsFunction(top))
      /\ IsFunction(top) => e[top] # Absent \/ g.pc <= 1
      /\ Recast(e) /\ Resolvable(B \cup N, g.guards)
  BY DEF Grows
<1> HIDE DEF l, top, q, p
<1> USE <1>a
<1> DEFINE C == B \cup N
<1>1. l \in Nat \ {0} /\ DOMAIN fs = 1..l /\ DOMAIN hs = 1..l /\ fs # <<>> /\ hs # <<>> /\ l \in 1..l
  BY SequenceFacts
<1>2. /\ Begun(B, d, fs) /\ Stacked(fs)
      /\ \A i \in 1..l : /\ fs[i].node \in B /\ Ahead(B, fs[i]) /\ Open(d, fs, i)
                         /\ Resolvable(B, fs[i].base) /\ Resolvable(B, fs[i].guards)
  BY <1>1 DEF Settled
<1>3. \A i \in 1..l : i = l \/ i \in 1..(l - 1)
  BY <1>1
<1>4. \A i \in 1..l : hs[i].node = fs[i].node /\ hs[i].base = fs[i].base
  BY <1>3
<1>5. top \in Ids /\ top \in B /\ \A i \in 1..l : fs[i].node \in Ids
  BY <1>1, <1>2 DEF Begun
<1>6. \A n \in N : \A i \in 1..l : fs[i].node # n
  <2>1. \A n \in N : \A i \in DOMAIN fs : fs[i].node # n
    BY BeneathOffStack, ZenonT(60)
  <2> QED BY <1>1, <2>1
<1>7. \A i \in 1..l : i # l => e[fs[i].node] = d[fs[i].node]
  <2>1. \A i \in 1..l : i # l => fs[i].node # top
    BY <1>1, <1>2 DEF Stacked
  <2> QED BY <1>5, <1>6, <2>1
<1>8. Begun(C, e, hs)
  <2>1. C \subseteq Ids /\ 1 \in C
    BY <1>2 DEF Begun
  <2>2. \A n \in Ids : e[n] # Absent => n \in C
    BY <1>2, <1>5 DEF Begun
  <2>3. ASSUME NEW n \in Ids, NEW j \in DOMAIN KidsOf(n), KidsOf(n)[j] \in C
        PROVE  n \in C
    <3>1. CASE KidsOf(n)[j] \in B
      BY <1>2, <3>1 DEF Begun
    <3>2. CASE KidsOf(n)[j] \in N
      <4>1. PICK m \in DOMAIN KidsOf(top) :
              \/ KidsOf(top)[m] = KidsOf(n)[j]
              \/ /\ KidsOf(top)[m] \in N
                 /\ \E i \in DOMAIN KidsOf(KidsOf(top)[m]) : KidsOf(KidsOf(top)[m])[i] = KidsOf(n)[j]
        BY <3>2 DEF Beneath
      <4>2. CASE KidsOf(top)[m] = KidsOf(n)[j]
        BY <1>5, <4>2, ProgramTree
      <4>3. CASE KidsOf(top)[m] \in N
        <5>1. CASE \E i \in DOMAIN KidsOf(KidsOf(top)[m]) : KidsOf(KidsOf(top)[m])[i] = KidsOf(n)[j]
          <6>1. KidsOf(top)[m] = n
            BY <4>3, <5>1, ProgramTree
          <6> QED BY <4>3, <6>1
        <5> QED BY <4>1, <4>2, <5>1
      <4> QED BY <4>1, <4>2, <4>3
    <3> QED BY <2>3, <3>1, <3>2
  <2>4. ASSUME NEW n \in C, RootFunction(n)
        PROVE  e[n] # Absent \/ \E i \in DOMAIN hs : hs[i].node = n
    <3>1. n \in B /\ n \notin N
      BY <2>4, Kinds
    <3>2. CASE n = top
      BY <1>1, <3>2
    <3>3. CASE n # top
      <4>1. n \in Ids /\ e[n] = d[n]
        BY <1>2, <3>1, <3>3 DEF Begun
      <4>2. d[n] # Absent \/ \E i \in DOMAIN fs : fs[i].node = n
        BY <1>2, <2>4, <3>1 DEF Begun
      <4> QED BY <1>1, <1>4, <4>1, <4>2
    <3> QED BY <3>2, <3>3
  <2> QED BY <2>1, <2>2, <2>3, <2>4 DEF Begun
<1>9. Stacked(hs)
  <2>1. hs[1].node = 1
    BY <1>1, <1>2, <1>4 DEF Stacked
  <2>2. ASSUME NEW i \in 1..l, i > 1 PROVE Caller(hs[i - 1].node, hs[i].node)
    <3>1. i - 1 \in 1..l
      BY <1>1, <2>2
    <3>2. Caller(fs[i - 1].node, fs[i].node)
      BY <1>1, <1>2, <2>2 DEF Stacked
    <3>3. hs[i - 1].node = fs[i - 1].node /\ hs[i].node = fs[i].node
      BY <1>4, <3>1
    <3> QED BY <3>2, <3>3
  <2>3. /\ \A i, j \in 1..l : hs[i].node = hs[j].node => i = j
        /\ \A i \in 1..l : i < l => KindOf(hs[i].node) \notin Binders
    BY <1>1, <1>2, <1>4, ZenonT(60) DEF Stacked
  <2> QED BY <1>1, <2>1, <2>2, <2>3 DEF Stacked
<1>10. ASSUME NEW i \in 1..l
       PROVE  Ahead(C, hs[i]) /\ Open(e, hs, i) /\ Resolvable(C, hs[i].base) /\ Resolvable(C, hs[i].guards)
  <2>1. Resolvable(C, hs[i].base)
    BY <1>2, <1>4 DEF Resolvable, Bindable
  <2>2. Resolvable(C, hs[i].guards)
    <3>1. CASE i = l
      BY <3>1
    <3>2. CASE i # l
      BY <1>2, <1>3, <3>2 DEF Resolvable, Bindable
    <3> QED BY <3>1, <3>2
  <2>3. Ahead(C, hs[i])
    <3> SUFFICES ASSUME NEW j \in DOMAIN KidsOf(hs[i].node), Passed(hs[i].node, hs[i].pc) < j,
                        ~RootFunction(KidsOf(hs[i].node)[j])
                 PROVE  KidsOf(hs[i].node)[j] \notin C
      BY DEF Ahead
    <3> DEFINE m == fs[i].node
               k == KidsOf(m)[j]
    <3>1. m = hs[i].node /\ m \in Ids /\ j \in DOMAIN KidsOf(m) /\ j \in Nat
      <4>1. m = hs[i].node /\ m \in Ids
        BY <1>4, <1>5
      <4> QED BY <4>1, ProgramTree
    <3>2. k \notin B
      <4>1. CASE i = l
        <5>1. p < j
          BY <3>1, <4>1
        <5>2. q < j
          BY <3>1, <5>1
        <5> QED BY <1>2, <3>1, <4>1, <5>2 DEF Ahead
      <4>2. CASE i # l
        BY <1>2, <1>3, <3>1, <4>2 DEF Ahead
      <4> QED BY <4>1, <4>2
    <3>3. k \notin N
      <4> SUFFICES ASSUME k \in N PROVE FALSE
        OBVIOUS
      <4>1. PICK r \in DOMAIN KidsOf(top) :
              /\ r <= p
              /\ \/ KidsOf(top)[r] = k
                 \/ /\ KidsOf(top)[r] \in N
                    /\ \E s \in DOMAIN KidsOf(KidsOf(top)[r]) : KidsOf(KidsOf(top)[r])[s] = k
        BY DEF Beneath
      <4>2. CASE KidsOf(top)[r] = k
        <5>1. top = m /\ r = j
          BY <1>5, <3>1, <4>2, ProgramTree, SMTT(30)
        <5>2. i = l
          BY <1>1, <1>2, <5>1, ZenonT(60) DEF Stacked
        <5>3. p < j
          BY <3>1, <5>1, <5>2
        <5> QED BY <3>1, <4>1, <5>1, <5>3
      <4>3. CASE /\ KidsOf(top)[r] \in N
                 /\ \E s \in DOMAIN KidsOf(KidsOf(top)[r]) : KidsOf(KidsOf(top)[r])[s] = k
        <5>1. KidsOf(top)[r] = m
          BY <3>1, <4>3, ProgramTree, SMTT(30)
        <5> QED BY <1>6, <4>3, <5>1
      <4> QED BY <4>1, <4>2, <4>3
    <3> QED BY <3>1, <3>2, <3>3
  <2>4. Open(e, hs, i)
    <3>1. CASE i = l
      <4>1. Open(d, fs, l) /\ hs[l].node = top /\ ~(l < Len(hs))
        BY <1>1, <1>2
      <4>2. CASE IsFunction(top)
        BY <3>1, <4>1, <4>2 DEF Open
      <4>3. CASE ~IsFunction(top)
        <5>1. d[top] = Absent
          BY <4>1, <4>3 DEF Open
        <5>2. e[top] = d[top]
          BY <1>1, <1>5, <1>6, <4>3
        <5> QED BY <3>1, <4>1, <4>3, <5>1, <5>2 DEF Open
      <4> QED BY <4>2, <4>3
    <3>2. CASE i # l
      <4>1. i \in 1..(l - 1) /\ i + 1 \in 1..l /\ hs[i] = fs[i]
        BY <1>1, <1>3, <3>2
      <4>2. hs[i + 1].node = fs[i + 1].node /\ e[fs[i].node] = d[fs[i].node] /\ Len(fs) = Len(hs)
        BY <1>4, <1>7, <3>2, <4>1
      <4> QED BY <1>2, <4>1, <4>2 DEF Open
    <3> QED BY <3>1, <3>2
  <2> QED BY <2>1, <2>2, <2>3, <2>4
<1> QED BY <1>1, <1>2, <1>4, <1>8, <1>9, <1>10 DEF Settled

(* A node without a type that is called is not being visited.              *)
Reaches(B, d, fs, k) ==
  LET l == Len(fs)
      top == fs[l].node IN
  /\ prog \in Programs /\ Settled(B, d, fs) /\ IsSequence(fs) /\ l # 0 /\ KindOf(top) \notin Binders
  /\ d[k] = Absent
  /\ \/ \E j \in DOMAIN KidsOf(top) : KidsOf(top)[j] = k
     \/ KindOf(top) = "Var" /\ (RootFunction(k) \/ KindOf(k) \in Binders)

LEMMA CalleeOffStack ==
  ASSUME NEW B, NEW d, NEW fs, NEW k, Reaches(B, d, fs, k)
  PROVE  \A i \in DOMAIN fs : fs[i].node # k
<1> DEFINE l == Len(fs)
           top == fs[l].node
<1>a. /\ prog \in Programs /\ Settled(B, d, fs) /\ IsSequence(fs) /\ l = Len(fs) /\ l # 0
      /\ top = fs[l].node /\ KindOf(top) \notin Binders /\ d[k] = Absent
      /\ \/ \E j \in DOMAIN KidsOf(top) : KidsOf(top)[j] = k
         \/ KindOf(top) = "Var" /\ (RootFunction(k) \/ KindOf(k) \in Binders)
  BY DEF Reaches
<1> HIDE DEF l, top
<1> USE <1>a
<1>1. l \in Nat \ {0} /\ DOMAIN fs = 1..l /\ fs # <<>> /\ l \in 1..l
  BY SequenceFacts
<1>2. Stacked(fs) /\ \A i \in 1..l : Open(d, fs, i)
  BY <1>1 DEF Settled
<1>3. CASE \E j \in DOMAIN KidsOf(top) : KidsOf(top)[j] = k
  <2>1. PICK j \in DOMAIN KidsOf(top) : KidsOf(top)[j] = k
    BY <1>3
  <2>2. \A i \in DOMAIN fs : fs[i].node # KidsOf(top)[j]
    BY KidOffStack
  <2> QED BY <2>1, <2>2
<1>4. ASSUME KindOf(top) = "Var", NEW i \in 1..l, fs[i].node = k,
             RootFunction(k) \/ KindOf(k) \in Binders
      PROVE  FALSE
  <2>1. i # l
    BY <1>4, Kinds
  <2>2. i < l /\ i + 1 \in 1..l
    BY <1>1, <2>1
  <2>3. KindOf(k) \notin Binders
    BY <1>1, <1>2, <1>4, <2>2 DEF Stacked
  <2>4. KindOf(fs[i + 1].node) \in Binders
    <3>1. IsFunction(k) /\ Open(d, fs, i)
      BY <1>2, <1>4, <2>3, Kinds
    <3> QED BY <1>4, <2>2, <3>1, Kinds DEF Open
  <2>5. CASE i + 1 = l
    BY <2>4, <2>5
  <2>6. CASE i + 1 # l
    <3>1. i + 1 < l
      BY <1>1, <2>2, <2>6
    <3> QED BY <1>1, <1>2, <2>2, <2>4, <3>1 DEF Stacked
  <2> QED BY <2>5, <2>6
<1> QED BY <1>1, <1>3, <1>4

(* The visit on top visits a node that has no type: the next child, one    *)
(* that has no parts to visit, or what a name stands for.                  *)
Enters(B, d, fs, k, g, hs) ==
  LET l == Len(fs)
      top == fs[l].node
      p == Passed(top, fs[l].pc) IN
  /\ prog \in Programs /\ Settled(B, d, fs) /\ IsSequence(fs) /\ l # 0 /\ KindOf(top) \notin Binders
  /\ k \in Ids /\ d[k] = Absent /\ \A i \in DOMAIN fs : fs[i].node # k
  /\ p \in Nat
  /\ \/ \E j \in DOMAIN KidsOf(top) :
          KidsOf(top)[j] = k /\ j <= p /\ (k \notin B \/ RootFunction(k) \/ KindOf(k) \in Flat)
     \/ KindOf(top) = "Var" /\ Bindable(B, k)
  /\ IsFunction(top) => d[top] # Absent \/ KindOf(k) = "ParamDecl"
  /\ g.node = k /\ g.pc = 0 /\ Resolvable(B, g.base) /\ Resolvable(B, g.guards)
  /\ IsSequence(hs) /\ Len(hs) = l + 1 /\ hs[l + 1] = g /\ \A i \in 1..l : hs[i] = fs[i]

LEMMA Enter ==
  ASSUME NEW B, NEW d, NEW fs, NEW k, NEW g, NEW hs, Enters(B, d, fs, k, g, hs)
  PROVE  Settled(B \cup {k}, d, hs)
<1> DEFINE l == Len(fs)
           top == fs[l].node
           p == Passed(top, fs[l].pc)
<1>a. /\ prog \in Programs /\ Settled(B, d, fs) /\ IsSequence(fs) /\ l = Len(fs) /\ l # 0
      /\ top = fs[l].node /\ KindOf(top) \notin Binders
      /\ k \in Ids /\ d[k] = Absent /\ \A i \in DOMAIN fs : fs[i].node # k
      /\ p \in Nat /\ p = Passed(top, fs[l].pc)
      /\ \/ \E j \in DOMAIN KidsOf(top) :
              KidsOf(top)[j] = k /\ j <= p /\ (k \notin B \/ RootFunction(k) \/ KindOf(k) \in Flat)
         \/ KindOf(top) = "Var" /\ Bindable(B, k)
      /\ IsFunction(top) => d[top] # Absent \/ KindOf(k) = "ParamDecl"
      /\ g.node = k /\ g.pc = 0 /\ Resolvable(B, g.base) /\ Resolvable(B, g.guards)
      /\ IsSequence(hs) /\ Len(hs) = l + 1 /\ hs[l + 1] = g /\ \A i \in 1..l : hs[i] = fs[i]
  BY DEF Enters
<1> HIDE DEF l, top, p
<1> USE <1>a
<1> DEFINE C == B \cup {k}
<1>1. /\ l \in Nat \ {0} /\ DOMAIN fs = 1..l /\ DOMAIN hs = 1..(l + 1)
      /\ fs # <<>> /\ hs # <<>> /\ l \in 1..l
  BY SequenceFacts
<1>2. /\ Begun(B, d, fs) /\ Stacked(fs) /\ Recast(d)
      /\ \A i \in 1..l : /\ fs[i].node \in B /\ Ahead(B, fs[i]) /\ Open(d, fs, i)
                         /\ Resolvable(B, fs[i].base) /\ Resolvable(B, fs[i].guards)
  BY <1>1 DEF Settled
<1>3. \A i \in 1..(l + 1) : i = l + 1 \/ i \in 1..l
  BY <1>1
<1>4. top \in Ids /\ top \in B /\ \A i \in 1..l : fs[i].node \in Ids
  BY <1>1, <1>2 DEF Begun
<1>5. \/ \E j \in DOMAIN KidsOf(top) : KidsOf(top)[j] = k /\ j <= p
      \/ KindOf(top) = "Var" /\ (RootFunction(k) \/ (KindOf(k) \in Binders /\ k \in B))
  BY DEF Bindable
<1>6. \A i \in 1..l : fs[i].node # k
  BY <1>1
<1>7. k \notin B \/ KindOf(k) \in Flat
  <2>1. ~(RootFunction(k) /\ k \in B)
    BY <1>1, <1>2, <1>6 DEF Begun
  <2> QED BY <2>1 DEF Bindable, Flat
<1>8. Begun(C, d, hs)
  <2>1. C \subseteq Ids /\ 1 \in C /\ \A n \in Ids : d[n] # Absent => n \in C
    BY <1>2 DEF Begun
  <2>2. ASSUME NEW n \in Ids, NEW j \in DOMAIN KidsOf(n), KidsOf(n)[j] \in C
        PROVE  n \in C
    <3>1. CASE KidsOf(n)[j] \in B
      BY <1>2, <3>1 DEF Begun
    <3>2. CASE KidsOf(n)[j] = k /\ \E i \in DOMAIN KidsOf(top) : KidsOf(top)[i] = k
      <4>1. n = top
        BY <1>4, <3>2, ProgramTree
      <4> QED BY <1>4, <4>1
    <3>3. CASE KidsOf(n)[j] = k /\ RootFunction(k)
      <4>1. n = 1
        BY <3>3, ProgramTree DEF RootFunction
      <4> QED BY <2>1, <4>1
    <3> QED BY <1>5, <2>2, <3>1, <3>2, <3>3
  <2>3. ASSUME NEW n \in C, RootFunction(n)
        PROVE  d[n] # Absent \/ \E i \in DOMAIN hs : hs[i].node = n
    <3>1. CASE n = k
      <4>1. l + 1 \in DOMAIN hs
        BY <1>1
      <4> QED BY <3>1, <4>1
    <3>2. CASE n \in B
      <4>1. d[n] # Absent \/ \E i \in 1..l : fs[i].node = n
        BY <1>1, <1>2, <2>3, <3>2 DEF Begun
      <4>2. \A i \in 1..l : i \in DOMAIN hs
        BY <1>1
      <4> QED BY <4>1, <4>2
    <3> QED BY <3>1, <3>2
  <2> QED BY <2>1, <2>2, <2>3 DEF Begun
<1>9. Stacked(hs)
  <2>1. hs[1].node = 1
    BY <1>1, <1>2 DEF Stacked
  <2>2. ASSUME NEW i \in 1..(l + 1), i > 1 PROVE Caller(hs[i - 1].node, hs[i].node)
    <3>1. i - 1 \in 1..l /\ hs[i - 1] = fs[i - 1]
      BY <1>1, <2>2
    <3>2. CASE i = l + 1
      <4>1. hs[i - 1].node = top /\ hs[i].node = k
        BY <1>1, <3>1, <3>2
      <4> QED BY <1>5, <4>1 DEF Caller
    <3>3. CASE i \in 1..l
      <4>1. Caller(fs[i - 1].node, fs[i].node)
        BY <1>1, <1>2, <2>2, <3>3 DEF Stacked
      <4> QED BY <3>1, <3>3, <4>1
    <3> QED BY <1>3, <3>2, <3>3
  <2>3. \A i, j \in 1..(l + 1) : hs[i].node = hs[j].node => i = j
    <3>1. \A i, j \in 1..l : fs[i].node = fs[j].node => i = j
      BY <1>1, <1>2 DEF Stacked
    <3> QED BY <1>3, <1>6, <3>1
  <2>4. ASSUME NEW i \in 1..(l + 1), i < l + 1 PROVE KindOf(hs[i].node) \notin Binders
    <3>1. i \in 1..l /\ hs[i] = fs[i]
      BY <1>1, <2>4
    <3>2. CASE i = l
      BY <3>1, <3>2
    <3>3. CASE i # l
      <4>1. i < l
        BY <1>1, <3>1, <3>3
      <4> QED BY <1>1, <1>2, <3>1, <4>1 DEF Stacked
    <3> QED BY <3>2, <3>3
  <2> QED BY <1>1, <2>1, <2>2, <2>3, <2>4 DEF Stacked
<1>10. ASSUME NEW i \in 1..l
       PROVE  /\ fs[i].node \in C /\ Ahead(C, fs[i]) /\ Open(d, hs, i)
              /\ Resolvable(C, fs[i].base) /\ Resolvable(C, fs[i].guards)
  <2>1. fs[i].node \in C /\ Resolvable(C, fs[i].base) /\ Resolvable(C, fs[i].guards)
    BY <1>2 DEF Resolvable, Bindable
  <2>2. Ahead(C, fs[i])
    <3> DEFINE m == fs[i].node
    <3> SUFFICES ASSUME NEW j \in DOMAIN KidsOf(m), Passed(m, fs[i].pc) < j,
                        ~RootFunction(KidsOf(m)[j])
                 PROVE  KidsOf(m)[j] \notin C
      BY DEF Ahead
    <3>1. m \in Ids /\ KidsOf(m)[j] \notin B
      BY <1>2, <1>4 DEF Ahead
    <3>2. ASSUME KidsOf(m)[j] = k PROVE FALSE
      <4>1. PICK r \in DOMAIN KidsOf(top) : KidsOf(top)[r] = k /\ r <= p
        BY <1>5, <3>1, <3>2
      <4>2. m = top /\ r = j
        BY <1>4, <3>1, <3>2, <4>1, ProgramTree
      <4>3. i = l
        BY <1>1, <1>2, <4>2 DEF Stacked
      <4>4. p < j /\ j \in Nat
        <5>1. j \in Nat
          BY <3>1, ProgramTree
        <5> QED BY <4>2, <4>3, <5>1
      <4> QED BY <4>1, <4>2, <4>4
    <3> QED BY <3>1, <3>2
  <2>3. Open(d, hs, i)
    <3>1. hs[i] = fs[i] /\ Open(d, fs, i)
      BY <1>2
    <3>2. CASE i = l
      BY <1>1, <3>1, <3>2 DEF Open
    <3>3. CASE i # l
      <4>1. i < l /\ i + 1 \in 1..l
        BY <1>1, <3>3
      <4>2. hs[i + 1] = fs[i + 1]
        BY <4>1
      <4> QED BY <3>1, <4>1, <4>2 DEF Open
    <3> QED BY <3>2, <3>3
  <2> QED BY <2>1, <2>2, <2>3
<1>11. /\ g.node \in C /\ Ahead(C, g) /\ Open(d, hs, l + 1)
       /\ Resolvable(C, g.base) /\ Resolvable(C, g.guards)
  <2>1. g.node \in C /\ Resolvable(C, g.base) /\ Resolvable(C, g.guards)
    BY DEF Resolvable, Bindable
  <2>2. Open(d, hs, l + 1)
    BY <1>1 DEF Open
  <2>3. Ahead(C, g)
    <3> SUFFICES ASSUME NEW j \in DOMAIN KidsOf(k), Passed(k, 0) < j
                 PROVE  KidsOf(k)[j] \notin C
      BY DEF Ahead
    <3>1. KidsOf(k)[j] # k /\ j <= Len(KidsOf(k)) /\ Len(KidsOf(k)) \in Nat /\ j \in Nat
      <4>1. k < KidsOf(k)[j] /\ k \in Nat
        BY ProgramTree
      <4>2. Len(KidsOf(k)) \in Nat /\ j \in 1..Len(KidsOf(k))
        BY ProgramTree
      <4> QED BY <4>1, <4>2
    <3>2. CASE k \notin B
      BY <1>2, <3>1, <3>2 DEF Begun
    <3>3. CASE KindOf(k) \in Flat
      <4>1. Passed(k, 0) = Len(KidsOf(k))
        BY <3>3, PassedValues
      <4> QED BY <3>1, <4>1
    <3> QED BY <1>7, <3>2, <3>3
  <2> QED BY <2>1, <2>2, <2>3
<1>12. \A i \in 1..(l + 1) :
         /\ hs[i].node \in C /\ Ahead(C, hs[i]) /\ Open(d, hs, i)
         /\ Resolvable(C, hs[i].base) /\ Resolvable(C, hs[i].guards)
  BY <1>3, <1>10, <1>11
<1> QED BY <1>1, <1>2, <1>8, <1>9, <1>12 DEF Settled

(* The visit on top ends, and its node has a type.                         *)
Pops(B, d, fs, hs, e) ==
  LET l == Len(fs)
      top == fs[l].node IN
  /\ prog \in Programs /\ Settled(B, d, fs) /\ IsSequence(fs) /\ l # 0 /\ KindOf(top) # "PatternVar"
  /\ \A n \in Ids : n # top => e[n] = d[n]
  /\ IsFunction(top) => e[top] # Absent
  /\ IsSequence(hs) /\ Len(hs) = l - 1 /\ \A i \in 1..(l - 1) : hs[i] = fs[i]

LEMMA Pop ==
  ASSUME NEW B, NEW d, NEW fs, NEW hs, NEW e, Pops(B, d, fs, hs, e)
  PROVE  Settled(B, e, hs)
<1> DEFINE l == Len(fs)
           top == fs[l].node
<1>a. /\ prog \in Programs /\ Settled(B, d, fs) /\ IsSequence(fs) /\ l = Len(fs) /\ l # 0
      /\ top = fs[l].node /\ KindOf(top) # "PatternVar"
      /\ \A n \in Ids : n # top => e[n] = d[n]
      /\ IsFunction(top) => e[top] # Absent
      /\ IsSequence(hs) /\ Len(hs) = l - 1 /\ \A i \in 1..(l - 1) : hs[i] = fs[i]
  BY DEF Pops
<1> HIDE DEF l, top
<1> USE <1>a
<1>1. /\ l \in Nat \ {0} /\ DOMAIN fs = 1..l /\ DOMAIN hs = 1..(l - 1) /\ l \in 1..l
      /\ \A i \in 1..(l - 1) : i \in 1..l /\ i < l
      /\ \A i \in 1..l : i = l \/ i \in 1..(l - 1)
  BY SequenceFacts
<1>2. /\ Begun(B, d, fs) /\ Stacked(fs) /\ Recast(d)
      /\ \A i \in 1..l : /\ fs[i].node \in B /\ Ahead(B, fs[i]) /\ Open(d, fs, i)
                         /\ Resolvable(B, fs[i].base) /\ Resolvable(B, fs[i].guards)
  BY <1>1 DEF Settled
<1>3. top \in Ids /\ top \in B /\ \A i \in 1..l : fs[i].node \in Ids
  BY <1>1, <1>2 DEF Begun
<1>4. ASSUME NEW i \in 1..(l - 1) PROVE e[fs[i].node] = d[fs[i].node]
  <2>1. i \in DOMAIN fs /\ l \in DOMAIN fs /\ i # l
    BY <1>1
  <2>2. fs[i].node # top
    BY <1>2, <2>1 DEF Stacked
  <2> QED BY <1>1, <1>3, <2>2
<1>5. Begun(B, e, hs)
  <2>1. ASSUME NEW n \in B, RootFunction(n)
        PROVE  e[n] # Absent \/ \E i \in DOMAIN hs : hs[i].node = n
    <3>1. CASE n = top
      BY <2>1, <3>1, Kinds
    <3>2. CASE n # top
      <4>1. e[n] = d[n]
        BY <1>2, <3>2 DEF Begun
      <4>2. d[n] # Absent \/ \E i \in 1..l : fs[i].node = n
        BY <1>1, <1>2, <2>1 DEF Begun
      <4>3. d[n] # Absent \/ \E i \in 1..(l - 1) : fs[i].node = n
        BY <1>1, <3>2, <4>2
      <4> QED BY <1>1, <4>1, <4>3
    <3> QED BY <3>1, <3>2
  <2>2. \A n \in Ids : e[n] # Absent => n \in B
    BY <1>2, <1>3 DEF Begun
  <2> QED BY <1>2, <2>1, <2>2 DEF Begun
<1>6. Stacked(hs)
  <2>1. hs # <<>> => 1 \in 1..(l - 1)
    <3>1. hs = [i \in 1..Len(hs) |-> hs[i]]
      BY SequenceFacts
    <3>2. l - 1 = 0 => hs = <<>>
      BY EmptySequence
    <3> QED BY <1>1, <3>2
  <2>2. hs # <<>> => hs[1].node = 1
    BY <1>1, <1>2, <2>1 DEF Stacked
  <2>3. ASSUME NEW i \in 1..(l - 1), i > 1 PROVE Caller(hs[i - 1].node, hs[i].node)
    <3>1. i - 1 \in 1..(l - 1)
      BY <1>1, <2>3
    <3>2. Caller(fs[i - 1].node, fs[i].node)
      BY <1>1, <1>2, <2>3 DEF Stacked
    <3> QED BY <3>1, <3>2
  <2>4. ASSUME NEW i \in 1..(l - 1), NEW j \in 1..(l - 1), hs[i].node = hs[j].node PROVE i = j
    <3>1. i \in DOMAIN fs /\ j \in DOMAIN fs /\ fs[i].node = fs[j].node
      BY <1>1, <2>4
    <3> QED BY <1>2, <3>1 DEF Stacked
  <2>5. ASSUME NEW i \in 1..(l - 1) PROVE KindOf(hs[i].node) \notin Binders
    <3>1. i \in DOMAIN fs /\ i < Len(fs) /\ hs[i] = fs[i]
      BY <1>1
    <3> QED BY <1>2, <3>1 DEF Stacked
  <2> QED BY <1>1, <2>2, <2>3, <2>4, <2>5 DEF Stacked
<1>7. Recast(e)
  <2>1. \A n \in Ids : KindOf(n) = "PatternCastAs" => KidsOf(n)[1] \in Ids
    BY InnerNode DEF KindOf, KidsOf, Inner
  <2> QED BY <1>2, <2>1 DEF Recast
<1>8. ASSUME NEW i \in 1..(l - 1) PROVE Open(e, hs, i)
  <2>1. hs[i] = fs[i] /\ e[fs[i].node] = d[fs[i].node]
    BY <1>4
  <2>3. Open(d, fs, i) /\ i < Len(fs)
    BY <1>1, <1>2
  <2>2. i < Len(hs) => hs[i + 1] = fs[i + 1]
    BY <1>1
  <2> QED BY <2>1, <2>2, <2>3 DEF Open
<1> QED BY <1>1, <1>2, <1>5, <1>6, <1>7, <1>8 DEF Settled

-----------------------------------------------------------------------------
(* The checker's own steps.  A deduced type changes only where it may, and *)
(* what Settled says goes on.                                              *)
Final(m) ==
  \A n \in Ids : mem.deduced[n] # Absent /\ m.deduced[n] # mem.deduced[n] => IsFunction(n) /\ This = n
Outgrows(B, C) ==
  /\ B \subseteq C /\ Settled(C, mem'.deduced, frames')
  /\ \A i \in DOMAIN frames' \ DOMAIN frames :
       LET n == frames'[i].node IN n \notin B \/ RootFunction(n) \/ KindOf(n) \in Flat
SettlesOn ==
  \A B \in SUBSET Ids : Settled(B, mem.deduced, frames) => \E C \in SUBSET Ids : Outgrows(B, C)
Stays ==
  /\ prog' = prog /\ Final(mem')
  /\ mem'.raised = OK => SettlesOn

LEMMA PushResolvable ==
  ASSUME NEW B, NEW b, NEW g, Stacks(b), Stacks(g), Resolvable(B, b), Resolvable(B, g)
  PROVE  Resolvable(B, Push(b, g))
<1> SUFFICES ASSUME NEW x \in Names, NEW i \in DOMAIN Push(b, g)[x]
             PROVE  Bindable(B, Push(b, g)[x][i])
  BY DEF Resolvable
<1>1. Push(b, g)[x] = b[x] \o g[x] /\ IsSequence(b[x]) /\ IsSequence(g[x])
  BY DEF Push, Stacks
<1>2. PICK S : b[x] \in Seq(S) /\ g[x] \in Seq(S)
  BY <1>1, CommonElements
<1> DEFINE s == b[x]
           t == g[x]
<1>3. \/ i \in DOMAIN s /\ (s \o t)[i] = s[i]
      \/ i - Len(s) \in DOMAIN t /\ (s \o t)[i] = t[i - Len(s)]
  <2>1. s \in Seq(S) /\ t \in Seq(S) /\ i \in DOMAIN (s \o t)
    BY <1>1, <1>2
  <2> HIDE DEF s, t
  <2> QED BY <2>1
<1> QED BY <1>1, <1>3 DEF Resolvable

LEMMA GuardsResolvable ==
  ASSUME NEW B
  PROVE  /\ Resolvable(B, NoGuards)
         /\ \A x, n : Bindable(B, n) => Resolvable(B, Guard(x, n))
<1>1. Resolvable(B, NoGuards)
  BY DEF Resolvable, NoGuards
<1>2. ASSUME NEW x, NEW n, Bindable(B, n) PROVE Resolvable(B, Guard(x, n))
  <2> DEFINE g == Guard(x, n)
  <2>1. \A y \in Names : g[y] \in {<<>>, <<n>>}
    BY DEF Guard, NoGuards
  <2>2. DOMAIN <<n>> = {1} /\ <<n>>[1] = n /\ DOMAIN <<>> = {}
    OBVIOUS
  <2> HIDE DEF g
  <2>3. Resolvable(B, g)
    BY <1>2, <2>1, <2>2 DEF Resolvable
  <2> QED BY <2>3 DEF g
<1> QED BY <1>1, <1>2

(* The stack after a call: the frame on top, then perhaps a new one.       *)
Leaves(m, f, k, hs) ==
  LET l == Len(frames)
      ns == Push(Release(names, Top.guards), f.guards) IN
  /\ IsSequence(hs) /\ Len(hs) = l /\ hs[l] = [f EXCEPT !.pc = @ + 1]
  /\ \A i \in 1..(l - 1) : hs[i] = frames[i]
  /\ m.deduced[k] # Absent => frames' = hs
  /\ m.deduced[k] = Absent => /\ IsSequence(frames') /\ Len(frames') = l + 1
                              /\ frames'[l + 1] = Frame(k, ns)
                              /\ \A i \in 1..l : frames'[i] = hs[i]

LEMMA CallStack ==
  ASSUME Inv, ~Done, NEW m, NEW f, NEW k, Call(m, f, k), m.raised = OK
  PROVE  \E hs : Leaves(m, f, k, hs)
<1> DEFINE l == Len(frames)
           ns == Push(Release(names, Top.guards), f.guards)
           g == [f EXCEPT !.pc = @ + 1]
           kept == [frames EXCEPT ![l] = g]
           x == Frame(k, ns)
           added == IF m.deduced[k] = Absent THEN <<x>> ELSE <<>>
<1>1. IsSequence(frames) /\ Len(frames) # 0
  BY TopFrame DEF Inv, Mirror
<1>2. frames' = kept \o added
  BY DEF Call
<1>3. added = IF m.deduced[k] = Absent THEN <<x>> ELSE <<>>
  OBVIOUS
<1> HIDE DEF added, x, g
<1>4. /\ IsSequence(kept) /\ Len(kept) = l /\ kept[l] = g
      /\ \A i \in 1..(l - 1) : kept[i] = frames[i]
  BY <1>1, Updated
<1> HIDE DEF kept
<1>5. m.deduced[k] # Absent => frames' = kept
  BY <1>2, <1>3, <1>4, ConcatEmpty
<1>6. ASSUME m.deduced[k] = Absent
      PROVE  /\ IsSequence(frames') /\ Len(frames') = l + 1 /\ frames'[l + 1] = x
             /\ \A i \in 1..l : frames'[i] = kept[i]
  <2>1. frames' = kept \o <<x>>
    BY <1>2, <1>3, <1>6
  <2> HIDE DEF l
  <2> QED BY <1>4, <2>1, Extended
<1> QED BY <1>4, <1>5, <1>6 DEF Leaves, x, g

LEMMA Calling ==
  ASSUME Inv, ~Done, NEW B, Settled(B, mem.deduced, frames), KindOf(This) \notin Binders,
         NEW m, NEW f, NEW k, Call(m, f, k), m.raised = OK, Calls(f, k), f.base = Top.base,
         NEW q \in Nat, q = Passed(This, Top.pc), NEW p \in Nat, p = Passed(This, f.pc + 1), q <= p,
         NEW N, N \subseteq Ids, \A n \in N : ~IsFunction(n) /\ Beneath(This, p, N, n),
         \A n \in Ids : m.deduced[n] # mem.deduced[n] => n \in N \/ (n = This /\ IsFunction(This)),
         IsFunction(This) => m.deduced[This] # Absent \/ (f.pc = 0 /\ KindOf(k) = "ParamDecl"),
         Recast(m.deduced), Resolvable(B \cup N, f.guards),
         \/ \E j \in DOMAIN KidsOf(This) :
              /\ KidsOf(This)[j] = k /\ j <= p
              /\ k \notin B \cup N \/ RootFunction(k) \/ KindOf(k) \in Flat
         \/ KindOf(This) = "Var" /\ Bindable(B \cup N, k)
  PROVE  \E C \in SUBSET Ids : Outgrows(B, C)
<1> DEFINE l == Len(frames)
           ns == Push(Release(names, Top.guards), f.guards)
           g == [f EXCEPT !.pc = @ + 1]
           C == B \cup N
<1>1. /\ l \in Nat \ {0} /\ IsSequence(frames) /\ prog \in Programs /\ This = frames[l].node
      /\ Top.base = frames[l].base /\ Top.pc = frames[l].pc /\ mem' = m /\ k \in Ids
      /\ l \in DOMAIN frames
  BY TopFrame, TopTyped DEF Inv, Mirror, This, Top, Call, Calls
<1>b. PICK hs : Leaves(m, f, k, hs)
  BY CallStack
<1>2. /\ IsSequence(hs) /\ Len(hs) = l /\ hs[l] = g
      /\ \A i \in 1..(l - 1) : hs[i] = frames[i]
      /\ m.deduced[k] # Absent => frames' = hs
      /\ m.deduced[k] = Absent => /\ IsSequence(frames') /\ Len(frames') = l + 1
                                  /\ frames'[l + 1] = Frame(k, ns)
                                  /\ \A i \in 1..l : frames'[i] = hs[i]
  BY <1>b DEF Leaves
<1>3. /\ g.node = This /\ g.base = Top.base /\ g.pc = f.pc + 1 /\ g.guards = f.guards
      /\ f.pc \in Nat /\ Stacks(f.guards) /\ Stacks(f.base)
  <2>1. TypedFrame(f) /\ f.node = This
    BY DEF Calls
  <2>2. f.pc \in 0..Steps(f.node) /\ Steps(This) \in Nat
    BY <2>1, TopTyped DEF TypedFrame
  <2> QED BY <2>1, <2>2 DEF TypedFrame, IsFrame
<1>4. C \subseteq Ids
  BY DEF Settled, Begun
<1>5. Resolvable(C, ns)
  <2>1. Release(names, Top.guards) = Top.base
    BY TopFrame DEF Inv
  <2>2. Resolvable(B, Top.base)
    BY <1>1 DEF Settled
  <2>3. Resolvable(C, f.base)
    BY <2>2 DEF Resolvable, Bindable
  <2> QED BY <1>3, <2>1, <2>3, PushResolvable
<1>6. IsFunction(This) => m.deduced[This] # Absent \/ g.pc <= 1
  BY <1>3
<1> HIDE DEF g, ns
<1>7. Settled(C, m.deduced, hs)
  <2>1. Grows(B, mem.deduced, frames, g, hs, N, m.deduced)
    BY <1>1, <1>2, <1>3, <1>6 DEF Grows
  <2> QED BY <2>1, Grow
<1>8. CASE m.deduced[k] # Absent
  <2>1. frames' = hs /\ DOMAIN hs = DOMAIN frames
    BY <1>1, <1>2, <1>8, SequenceFacts
  <2>2. Outgrows(B, C)
    BY <1>1, <1>7, <2>1 DEF Outgrows
  <2> QED BY <1>4, <2>2
<1>9. CASE m.deduced[k] = Absent
  <2> DEFINE h == Frame(k, ns)
  <2>1. \A i \in DOMAIN hs : hs[i].node # k
    <3>1. Reaches(C, m.deduced, hs, k)
      BY <1>1, <1>2, <1>3, <1>7, <1>9 DEF Reaches, Bindable
    <3> QED BY <3>1, CalleeOffStack
  <2>2. h.node = k /\ h.pc = 0 /\ h.base = ns /\ h.guards = NoGuards
    BY DEF Frame
  <2>3. Resolvable(C, NoGuards)
    BY DEF Resolvable, NoGuards
  <2> HIDE DEF h
  <2>4. Settled(C \cup {k}, m.deduced, frames')
    <3>1. Enters(C, m.deduced, hs, k, h, frames')
      BY <1>1, <1>2, <1>3, <1>5, <1>7, <1>9, <2>1, <2>2, <2>3 DEF Enters, h
    <3> QED BY <3>1, Enter
  <2>5. ASSUME NEW i \in DOMAIN frames' \ DOMAIN frames
        PROVE  LET n == frames'[i].node IN n \notin B \/ RootFunction(n) \/ KindOf(n) \in Flat
    <3>1. DOMAIN frames' = 1..(l + 1) /\ DOMAIN frames = 1..l
      BY <1>1, <1>2, <1>9, SequenceFacts
    <3>2. i = l + 1
      BY <1>1, <2>5, <3>1
    <3>3. frames'[i].node = k
      BY <1>2, <1>9, <2>2, <3>2 DEF h
    <3>4. k \notin B \/ RootFunction(k) \/ KindOf(k) \in Flat
      BY DEF Bindable, Flat
    <3> QED BY <3>3, <3>4
  <2>6. Outgrows(B, C \cup {k})
    BY <1>1, <2>4, <2>5 DEF Outgrows
  <2> QED BY <1>1, <1>4, <2>6
<1> QED BY <1>8, <1>9

(* No operation on the storage sets a deduced type but SetDeducedType.     *)
SameAs(m, d) == IsStorage(m) /\ m.deduced = d
Same(m) == SameAs(m, mem.deduced)

LEMMA OperationsSameAs ==
  ASSUME NEW d, NEW m, SameAs(m, d)
  PROVE  /\ \A code : SameAs(Raise(m, code), d)
         /\ \A s, from, t, to : SameAs(Emit(m, s, from, t, to), d)
         /\ \A t : SameAs(SetProvisional(m, t), d)
         /\ \A t : SameAs(CheckType(m, t), d)
         /\ \A n, e : SameAs(ExpectType(m, n, e), d)
         /\ \A n, t : SameAs(Expect(m, n, t), d)
         /\ \A n : SameAs(Propagate(m, n), d)
<1>1. \A code : SameAs(Raise(m, code), d)
  BY RaiseFields DEF SameAs
<1>2. \A s, from, t, to : SameAs(Emit(m, s, from, t, to), d)
  BY EmitFields DEF SameAs
<1>3. ASSUME NEW t PROVE SameAs(SetProvisional(m, t), d)
  <2> DEFINE c == Checked(m, This, "provisional", t, m.expected[This])
  <2>1. SameAs(c, d)
    BY CheckedFields DEF SameAs
  <2> HIDE DEF c
  <2> QED BY <2>1, StoreProvisionalFields DEF SameAs, SetProvisional, c
<1>4. \A t : SameAs(CheckType(m, t), d)
  BY <1>1 DEF CheckType
<1>5. ASSUME NEW n, NEW e PROVE SameAs(ExpectType(m, n, e), d)
  <2> DEFINE c == IF e.type = None_ THEN Raise(m, CRASH)
                  ELSE IF m.deduced[n] = Absent THEN m ELSE Checked(m, n, "deduced", m.deduced[n], e)
             r == StoreExpected(c, n, e)
  <2>1. SameAs(Checked(m, n, "deduced", m.deduced[n], e), d)
    BY CheckedFields DEF SameAs
  <2>2. c \in {m, Raise(m, CRASH), Checked(m, n, "deduced", m.deduced[n], e)}
    OBVIOUS
  <2>3. ExpectType(m, n, e) = r
    BY DEF ExpectType
  <2> HIDE DEF c
  <2>4. IsStorage(c) /\ c.deduced = d
    BY <1>1, <2>1, <2>2 DEF SameAs
  <2>5. IsStorage(r) /\ r.deduced = c.deduced
    BY <2>4, StoreExpectedFields
  <2> HIDE DEF r
  <2> QED BY <2>3, <2>4, <2>5 DEF SameAs
<1>6. \A n, t : SameAs(Expect(m, n, t), d)
  BY <1>5 DEF Expect
<1>7. \A n : SameAs(Propagate(m, n), d)
  BY <1>5 DEF Propagate
<1> QED BY <1>1, <1>2, <1>3, <1>4, <1>5, <1>6, <1>7

LEMMA OperationsSame ==
  ASSUME NEW m, Same(m)
  PROVE  /\ \A code : Same(Raise(m, code))
         /\ \A s, from, t, to : Same(Emit(m, s, from, t, to))
         /\ \A t : Same(SetProvisional(m, t))
         /\ \A t : Same(CheckType(m, t))
         /\ \A n, e : Same(ExpectType(m, n, e))
         /\ \A n, t : Same(Expect(m, n, t))
         /\ \A n : Same(Propagate(m, n))
         /\ Same(mem) => Same(Entry(m))
<1>1. SameAs(m, mem.deduced)
  BY DEF Same
<1>2. Same(mem) => Same(Entry(m))
  BY DEF Entry
<1> QED BY <1>1, <1>2, OperationsSameAs DEF Same

LEMMA InferSame ==
  ASSUME Same(mem), NEW t, NEW new, NEW k
  PROVE  Same(Infer(t, new, k))
<1> DEFINE x(cs, ns, j) == [mem EXCEPT !.constraints = cs, !.new_types = ns, !.fresh = j]
<1>1. \A cs, ns, j : Same(x(cs, ns, j))
  BY DEF IsStorage, Same, SameAs
<1>2. \E cs, ns, j : Infer(t, new, k) \in {mem, x(cs, ns, j)}
  BY DEF Infer
<1> HIDE DEF x
<1> QED BY <1>1, <1>2

LEMMA SetDeducedFields ==
  ASSUME NEW m, IsStorage(m), NEW n, NEW t
  PROVE  LET r == SetDeduced(m, n, t) IN
         /\ IsStorage(r)
         /\ r.raised = OK => m.raised = OK /\ r.deduced = [m.deduced EXCEPT ![n] = t]
         /\ r.raised # OK => r.deduced = m.deduced
<1> DEFINE e == m.expected[n]
           c == Checked(m, n, "deduced", t, e)
           r == StoreDeduced(c, n, t)
<1>1. IsStorage(c) /\ c.deduced = m.deduced /\ (m.raised # OK => c.raised = m.raised)
  <2> HIDE DEF e
  <2> QED BY CheckedFields
<1> HIDE DEF c
<1>2. IsStorage(r) /\ r.raised = c.raised
      /\ r.deduced = IF c.raised = OK THEN [c.deduced EXCEPT ![n] = t] ELSE c.deduced
  BY <1>1, StoreDeducedFields
<1>3. SetDeduced(m, n, t) = r
  BY DEF SetDeduced, c
<1> HIDE DEF r
<1> QED BY <1>1, <1>2, <1>3

Visiting == mem.raised = OK => \E B \in SUBSET Ids : Settled(B, mem.deduced, frames)

(* What the frame on top says while nothing is wrong.                      *)
LEMMA TopSettled ==
  ASSUME Inv, ~Done, NEW B, Settled(B, mem.deduced, frames)
  PROVE  /\ This \in Ids /\ This \in B /\ prog \in Programs /\ Same(mem) /\ Top.pc \in Nat
         /\ DOMAIN Kids = 1..Len(Kids) /\ Len(Kids) \in Nat /\ Kids = KidsOf(This)
         /\ Resolvable(B, Top.base) /\ Resolvable(B, Top.guards) /\ Recast(mem.deduced)
         /\ ~IsFunction(This) => mem.deduced[This] = Absent
         /\ IsFunction(This) /\ Top.pc > 1 => mem.deduced[This] # Absent
         /\ Ahead(B, Top)
<1>1. Len(frames) \in DOMAIN frames /\ Top = frames[Len(frames)] /\ This = frames[Len(frames)].node
  BY TopFrame DEF Inv, Top, This
<1>2. /\ This \in Ids /\ prog \in Programs /\ Same(mem) /\ Top.pc \in Nat
      /\ DOMAIN Kids = 1..Len(Kids) /\ Len(Kids) \in Nat /\ Kids = KidsOf(This)
  BY TopTyped, Nodes DEF Sound, Same, SameAs, Kids, KidsOf
<1>3. /\ This \in B /\ Ahead(B, Top) /\ Open(mem.deduced, frames, Len(frames))
      /\ Resolvable(B, Top.base) /\ Resolvable(B, Top.guards) /\ Recast(mem.deduced)
  BY <1>1 DEF Settled
<1>4. /\ ~IsFunction(This) => mem.deduced[This] = Absent
      /\ IsFunction(This) /\ Top.pc > 1 => mem.deduced[This] # Absent
  BY <1>1, <1>2, <1>3 DEF Open
<1> QED BY <1>2, <1>3, <1>4

(* A child that is still to come, and what hangs from it, have no types.   *)
LEMMA Untouched ==
  ASSUME Inv, ~Done, NEW B, Settled(B, mem.deduced, frames),
         NEW j \in DOMAIN Kids, Passed(This, Top.pc) < j, ~RootFunction(Kid(j))
  PROVE  /\ Kid(j) \in Ids /\ Kid(j) \notin B /\ mem.deduced[Kid(j)] = Absent
         /\ \A i \in DOMAIN KidsOf(Kid(j)) :
              /\ KidsOf(Kid(j))[i] \in Ids /\ KidsOf(Kid(j))[i] \notin B
              /\ mem.deduced[KidsOf(Kid(j))[i]] = Absent
<1>1. This \in Ids /\ Kids = KidsOf(This) /\ Ahead(B, Top) /\ prog \in Programs
  BY TopSettled
<1>2. Kid(j) \in Ids /\ Kid(j) \notin B
  BY <1>1, ProgramTree DEF Ahead, Kid, This
<1>3. \A i \in DOMAIN KidsOf(Kid(j)) : KidsOf(Kid(j))[i] \in Ids /\ KidsOf(Kid(j))[i] \notin B
  BY <1>1, <1>2, ProgramTree DEF Settled, Begun
<1>4. \A n \in Ids : n \notin B => mem.deduced[n] = Absent
  BY DEF Settled, Begun
<1> QED BY <1>2, <1>3, <1>4

(* A visit ends with a type for its node, or with an error.                *)
LEMMA LeaveStack ==
  ASSUME Inv, ~Done, Leave
  PROVE  /\ IsSequence(frames') /\ Len(frames') = Len(frames) - 1
         /\ \A i \in 1..(Len(frames) - 1) : frames'[i] = frames[i]
<1> DEFINE n == Len(frames)
<1>1. n \in Nat \ {0} /\ DOMAIN frames = 1..n
  BY TopFrame DEF Inv
<1>2. PICK S : frames \in Seq(S)
  BY DEF Inv, Mirror, IsSequence
<1>3. frames' \in Seq(S) /\ Len(frames') = n - 1 /\ \A i \in 1..(n - 1) : frames'[i] = frames[i]
  BY <1>1, <1>2 DEF Leave
<1> QED BY <1>3 DEF IsSequence

LEMMA Shortened ==
  ASSUME NEW s, IsSequence(s), NEW t, IsSequence(t), Len(s) # 0, Len(t) = Len(s) - 1
  PROVE  DOMAIN t \ DOMAIN s = {}
<1>1. Len(s) \in Nat /\ DOMAIN s = 1..Len(s) /\ DOMAIN t = 1..Len(t)
  BY SequenceFacts
<1> DEFINE n == Len(s)
<1> HIDE DEF n
<1>2. n \in Nat /\ n # 0 /\ DOMAIN s = 1..n /\ DOMAIN t = 1..(n - 1)
  BY <1>1 DEF n
<1> QED BY <1>2

(* It is enough to follow one settled set.                                 *)
StaysFrom(B) ==
  /\ prog' = prog /\ Final(mem')
  /\ mem'.raised = OK => \E C \in SUBSET Ids : Outgrows(B, C)

LEMMA StaysIf ==
  ASSUME Visiting, mem.raised = OK,
         \A B \in SUBSET Ids : Settled(B, mem.deduced, frames) => StaysFrom(B)
  PROVE  Stays
BY DEF Visiting, StaysFrom, Stays, SettlesOn

LEMMA Finishing ==
  ASSUME Inv, Visiting, ~Done, mem.raised = OK, KindOf(This) # "PatternVar",
         NEW m, Same(m), NEW t, IsFunction(This) => t # Absent, Finish(SetDeduced(m, This, t))
  PROVE  Stays
<1> DEFINE r == SetDeduced(m, This, t)
<1>1. PICK B \in SUBSET Ids : Settled(B, mem.deduced, frames)
  BY DEF Visiting
<1>2. This \in Ids /\ prog \in Programs /\ (~IsFunction(This) => mem.deduced[This] = Absent)
  BY <1>1, TopSettled
<1>3. /\ r.raised = OK => r.deduced = [mem.deduced EXCEPT ![This] = t]
      /\ r.raised # OK => r.deduced = mem.deduced
  BY SetDeducedFields DEF Same, SameAs
<1> HIDE DEF r
<1>4. mem' = r /\ prog' = prog /\ (r.raised = OK => Leave)
  BY DEF Finish, r
<1>5. DOMAIN mem.deduced = Ids
  BY TopTyped DEF Sound, IsStorage
<1>6. Final(r)
  BY <1>2, <1>3, <1>5 DEF Final
<1>7. ASSUME r.raised = OK, NEW C \in SUBSET Ids, Settled(C, mem.deduced, frames)
      PROVE  Outgrows(C, C)
  <2>1. \A n \in Ids : n # This => r.deduced[n] = mem.deduced[n]
    BY <1>3, <1>5, <1>7
  <2>2. r.deduced[This] = t
    BY <1>2, <1>3, <1>5, <1>7
  <2>3. IsSequence(frames) /\ Len(frames) # 0 /\ This = frames[Len(frames)].node
    BY TopFrame DEF Inv, Mirror, This, Top
  <2>4. /\ IsSequence(frames') /\ Len(frames') = Len(frames) - 1
        /\ \A i \in 1..(Len(frames) - 1) : frames'[i] = frames[i]
    BY <1>4, <1>7, LeaveStack
  <2>5. Pops(C, mem.deduced, frames, frames', r.deduced)
    BY <1>2, <1>7, <2>1, <2>2, <2>3, <2>4 DEF Pops
  <2>6. Settled(C, r.deduced, frames')
    BY <2>5, Pop
  <2> QED BY <1>4, <2>3, <2>4, <2>6, Shortened DEF Outgrows
<1>8. r.raised = OK => SettlesOn
  BY <1>7 DEF SettlesOn
<1> QED BY <1>4, <1>6, <1>8 DEF Stays

LEMMA Ends ==
  ASSUME Inv, Visiting, ~Done, mem.raised = OK, KindOf(This) # "PatternVar", ~IsFunction(This)
  PROVE  /\ \A m, t : ReturnFrom(m, t) /\ Same(m) => Stays
         /\ \A t : Return(t) => Stays
         /\ \A m, t, code : AmbiguousFrom(m, t, code) /\ Same(m) => Stays
         /\ \A code : Throw(code) => Stays
         /\ \A kind, t : Constant(kind, t) => Stays
<1>1. Same(mem)
  BY TopTyped DEF Sound, Same, SameAs
<1>2. ASSUME NEW m, NEW t, ReturnFrom(m, t), Same(m) PROVE Stays
  BY <1>2, Finishing DEF ReturnFrom
<1>3. ASSUME NEW t, Return(t) PROVE Stays
  BY <1>1, <1>2, <1>3 DEF Return
<1>4. ASSUME NEW m, NEW t, NEW code, AmbiguousFrom(m, t, code), Same(m) PROVE Stays
  BY <1>2, <1>4, OperationsSame DEF AmbiguousFrom
<1>5. ASSUME NEW code, Throw(code) PROVE Stays
  <2>1. mem' = Raise(mem, code) /\ prog' = prog /\ frames' = frames
    BY <1>5 DEF Throw
  <2>2. Same(Raise(mem, code))
    BY <1>1, OperationsSame
  <2>3. mem'.deduced = mem.deduced
    BY <2>1, <2>2 DEF Same, SameAs
  <2> QED BY <2>1, <2>3 DEF Stays, Final, SettlesOn, Outgrows
<1> QED BY <1>2, <1>3, <1>4, <1>5 DEF Constant

-----------------------------------------------------------------------------
(* A visit goes on with its next child, and may begin with the nodes of N. *)
Goes(m, f, k, N) ==
  /\ Call(m, f, k) /\ Calls(f, k) /\ f.base = Top.base /\ f.pc = Top.pc
  /\ \E j \in DOMAIN KidsOf(This) :
       /\ KidsOf(This)[j] = k /\ k \notin N
       /\ Passed(This, Top.pc) \in Nat /\ Passed(This, Top.pc) < j
       /\ Passed(This, Top.pc + 1) \in Nat /\ j <= Passed(This, Top.pc + 1)
  /\ N \subseteq Ids
  /\ \A n \in N : ~IsFunction(n) /\ Beneath(This, Passed(This, Top.pc + 1), N, n)
  /\ \A n \in Ids : m.deduced[n] # mem.deduced[n] => n \in N \/ (n = This /\ IsFunction(This))
  /\ IsFunction(This) => m.deduced[This] # Absent \/ (f.pc = 0 /\ KindOf(k) = "ParamDecl")
  /\ Recast(m.deduced)
  /\ \A B \in SUBSET Ids : Settled(B, mem.deduced, frames) => Resolvable(B \cup N, f.guards)

LEMMA Onward ==
  ASSUME Inv, Visiting, ~Done, mem.raised = OK, KindOf(This) \notin Binders,
         NEW m, NEW f, NEW k, NEW N, Goes(m, f, k, N), m.raised = OK
  PROVE  SettlesOn
<1>1. SUFFICES ASSUME NEW B \in SUBSET Ids, Settled(B, mem.deduced, frames)
               PROVE  \E C \in SUBSET Ids : Outgrows(B, C)
  BY DEF SettlesOn
<1>2. /\ Call(m, f, k) /\ Calls(f, k) /\ f.base = Top.base /\ f.pc = Top.pc /\ Resolvable(B \cup N, f.guards)
  BY <1>1 DEF Goes
<1>3. PICK j \in DOMAIN KidsOf(This) :
        /\ KidsOf(This)[j] = k /\ k \notin N
        /\ Passed(This, Top.pc) \in Nat /\ Passed(This, Top.pc) < j
        /\ Passed(This, Top.pc + 1) \in Nat /\ j <= Passed(This, Top.pc + 1)
  BY DEF Goes
<1>4. This \in Ids /\ prog \in Programs /\ Ahead(B, Top) /\ Top.pc \in Nat
  BY <1>1, TopSettled
<1>5. j \in Nat
  BY <1>4, ProgramTree
<1> DEFINE q == Passed(This, Top.pc)
           p == Passed(This, Top.pc + 1)
<1>6. q \in Nat /\ p \in Nat /\ q <= p /\ p = Passed(This, f.pc + 1)
  BY <1>2, <1>3, <1>5
<1>7. k \notin B \cup N \/ RootFunction(k)
  BY <1>3, <1>4 DEF Ahead, This
<1>8. /\ N \subseteq Ids
      /\ \A n \in N : ~IsFunction(n) /\ Beneath(This, p, N, n)
      /\ \A n \in Ids : m.deduced[n] # mem.deduced[n] => n \in N \/ (n = This /\ IsFunction(This))
      /\ IsFunction(This) => m.deduced[This] # Absent \/ (f.pc = 0 /\ KindOf(k) = "ParamDecl")
      /\ Recast(m.deduced)
  BY DEF Goes
<1>9. \E i \in DOMAIN KidsOf(This) :
         /\ KidsOf(This)[i] = k /\ i <= p
         /\ k \notin B \cup N \/ RootFunction(k) \/ KindOf(k) \in Flat
  BY <1>3, <1>7
<1> HIDE DEF q, p
<1> QED BY <1>1, <1>2, <1>6, <1>8, <1>9, Calling DEF q, p

(* A visitor that reads the types of its children.                         *)
Reads(j) ==
  /\ \A m : Same(m) /\ Visit(m, Kid(j)) => Stays
  /\ \A m, ts : Same(m) /\ VisitWith(m, [Top EXCEPT !.tvs = ts], Kid(j)) => Stays
  /\ \A m, r : Same(m) /\ VisitWith(m, [Top EXCEPT !.result = r], Kid(j)) => Stays

GoesOn(m, f, k, N) ==
  /\ Same(m) /\ VisitWith(m, f, k) /\ Calls(f, k) /\ f.base = Top.base /\ f.pc = Top.pc
  /\ \E j \in DOMAIN KidsOf(This) :
       /\ KidsOf(This)[j] = k /\ k \notin N
       /\ Passed(This, Top.pc) \in Nat /\ Passed(This, Top.pc) < j
       /\ Passed(This, Top.pc + 1) \in Nat /\ j <= Passed(This, Top.pc + 1)
  /\ N \subseteq Ids
  /\ \A n \in N : ~IsFunction(n) /\ Beneath(This, Passed(This, Top.pc + 1), N, n)
  /\ \A B \in SUBSET Ids : Settled(B, mem.deduced, frames) => Resolvable(B \cup N, f.guards)

LEMMA SameStays ==
  ASSUME Inv, Visiting, ~Done, mem.raised = OK, KindOf(This) \notin Binders, ~IsFunction(This),
         NEW m, NEW f, NEW k, NEW N, GoesOn(m, f, k, N)
  PROVE  Stays
<1>1. Call(m, f, k) /\ m.deduced = mem.deduced /\ mem' = m /\ prog' = prog
  BY DEF GoesOn, VisitWith, Call, Same, SameAs
<1>2. Recast(mem.deduced)
  BY TopSettled DEF Visiting
<1>3. Goes(m, f, k, N)
  BY <1>1, <1>2 DEF Goes, GoesOn
<1>4. m.raised = OK => SettlesOn
  BY <1>3, Onward
<1> QED BY <1>1, <1>4 DEF Stays, Final

LEMMA Reading ==
  ASSUME Inv, Visiting, ~Done, mem.raised = OK, KindOf(This) \notin Binders, ~IsFunction(This),
         NEW j \in DOMAIN Kids, Top.pc = j - 1,
         Passed(This, j - 1) \in Nat, Passed(This, j - 1) < j,
         Passed(This, j) \in Nat, j <= Passed(This, j)
  PROVE  Reads(j)
<1> DEFINE k == Kid(j)
<1>1. PICK B \in SUBSET Ids : Settled(B, mem.deduced, frames)
  BY DEF Visiting
<1>2. /\ This \in Ids /\ prog \in Programs /\ Top.pc \in Nat
      /\ DOMAIN Kids = 1..Len(Kids) /\ Len(Kids) \in Nat /\ Kids = KidsOf(This)
  BY <1>1, TopSettled
<1>3. k \in Ids /\ j \in Nat /\ Top.pc + 1 = j /\ Top.pc < Steps(This)
  <2>1. k \in Ids /\ j \in 1..Len(Kids)
    BY <1>2, ProgramTree DEF Kid
  <2>2. Steps(This) = Len(Kids) + Detours(This) /\ Detours(This) \in Nat
    BY DEF Steps, Detours, Kids
  <2> QED BY <1>2, <2>1, <2>2
<1>4. \E i \in DOMAIN KidsOf(This) :
         /\ KidsOf(This)[i] = k /\ k \notin {}
         /\ Passed(This, Top.pc) \in Nat /\ Passed(This, Top.pc) < i
         /\ Passed(This, Top.pc + 1) \in Nat /\ i <= Passed(This, Top.pc + 1)
  BY <1>2, <1>3 DEF Kid
<1>5. \A C \in SUBSET Ids : Settled(C, mem.deduced, frames) => Resolvable(C \cup {}, Top.guards)
  BY TopSettled
<1>6. ASSUME NEW m, NEW f, Same(m), VisitWith(m, f, k), Calls(f, k),
             f.base = Top.base, f.pc = Top.pc, f.guards = Top.guards
      PROVE  Stays
  <2>1. \A C \in SUBSET Ids : Settled(C, mem.deduced, frames) => Resolvable(C \cup {}, f.guards)
    BY <1>5, <1>6
  <2> HIDE DEF k
  <2>2. GoesOn(m, f, k, {})
    BY <1>4, <1>6, <2>1 DEF GoesOn
  <2> QED BY <2>2, SameStays
<1>7. IsFrame(Top)
  BY TopFrame DEF Inv
<1>8. /\ Calls(Top, k)
      /\ \A ts : LET f == [Top EXCEPT !.tvs = ts]
                 IN  Calls(f, k) /\ f.base = Top.base /\ f.pc = Top.pc /\ f.guards = Top.guards
      /\ \A r : LET f == [Top EXCEPT !.result = r]
                IN  Calls(f, k) /\ f.base = Top.base /\ f.pc = Top.pc /\ f.guards = Top.guards
  BY <1>3, <1>7, CallFrames DEF IsFrame
<1> HIDE DEF k
<1>9. \A m : Same(m) /\ Visit(m, k) => Stays
  BY <1>6, <1>8 DEF Visit
<1>10. \A m, ts : Same(m) /\ VisitWith(m, [Top EXCEPT !.tvs = ts], k) => Stays
  BY <1>6, <1>8
<1>11. \A m, r : Same(m) /\ VisitWith(m, [Top EXCEPT !.result = r], k) => Stays
  BY <1>6, <1>8
<1> QED BY <1>9, <1>10, <1>11 DEF Reads, k

-----------------------------------------------------------------------------
(* The visitors, one by one.                                               *)
LEMMA VisitedKind ==
  ASSUME VisitProgram \/ (VisitFunction /\ ~VisitDeclFun /\ ~VisitDeclFunGeneric) \/ VisitData \/ VisitEffect
  PROVE  mem.raised = OK /\ KindOf(This) # "PatternVar" /\ ~IsFunction(This)
<1> DEFINE Visited == mem.raised = OK /\ KindOf(This) # "PatternVar" /\ ~IsFunction(This)
<1>1. \A kind, pc : At(kind, pc) /\ kind \notin {"PatternVar", "DeclFun", "DeclFunGeneric"} => Visited
  BY DEF At, KindOf, IsFunction, FunctionKinds
<1> HIDE DEF Visited
<1>2. VisitProgram => Visited
  BY <1>1 DEF VisitProgram
<1>3. VisitFunction /\ ~VisitDeclFun /\ ~VisitDeclFunGeneric => Visited
  BY <1>1 DEF VisitFunction, VisitParamDecl,
              VisitExprAbstraction, VisitExprFix, VisitExprApplication,
              VisitExprVar, VisitExprLet, VisitExprTypeAsc, VisitExprSequence,
              VisitExprConstUnit, VisitExprConstTrue, VisitExprConstFalse,
              VisitExprConstInt, VisitExprIf, VisitExprIsZero, VisitExprSucc,
              VisitExprPred, VisitExprNatRec,
              VisitExprTypeAbstraction, VisitExprTypeApplication,
              VisitOperator, Constant
<1>4. VisitData => Visited
  <2>1. VisitExprList \/ VisitExprConsList \/ VisitExprHead \/ VisitExprTail \/ VisitExprIsEmpty => Visited
    BY <1>1 DEF VisitExprList, VisitExprConsList, VisitExprHead, VisitExprTail, VisitExprIsEmpty, OnList
  <2>2. VisitExprTuple \/ VisitExprDotTuple \/ VisitExprRecord \/ VisitExprDotRecord => Visited
    BY <1>1 DEF VisitExprTuple, VisitExprDotTuple, VisitExprRecord, VisitExprDotRecord
  <2>3. VisitExprInl \/ VisitExprInr \/ VisitExprVariant => Visited
    BY <1>1 DEF VisitExprInl, VisitExprInr, VisitExprVariant, Inject
  <2>4. VisitExprMatch \/ VisitPatternCastAs => Visited
    BY <1>1 DEF VisitExprMatch, VisitPatternCastAs
  <2> QED BY <2>1, <2>2, <2>3, <2>4 DEF VisitData
<1>5. VisitEffect => Visited
  BY <1>1 DEF VisitEffect, VisitExprPanic, VisitDeclExceptionType,
              VisitDeclExceptionVariant, VisitExprThrow, VisitExprTryWith,
              VisitExprTryCatch, VisitExprTypeCast, VisitExprTryCastAs,
              VisitExprRef, VisitExprDeref, VisitExprAssign,
              VisitExprConstMemory
<1> QED BY <1>2, <1>3, <1>4, <1>5 DEF Visited

(* The nodes that only read the types of their children.                   *)
LEMMA ReadsOn ==
  ASSUME Inv, Visiting, NEW kind, kind \notin Flat \cup Patterned \cup FunctionKinds \cup {"Match"},
         NEW j \in DOMAIN Kids, At(kind, j - 1)
  PROVE  Reads(j)
<1>1. ~Done /\ mem.raised = OK /\ KindOf(This) = kind /\ Top.pc = j - 1
  BY DEF At, KindOf
<1>2. KindOf(This) \notin Binders /\ ~IsFunction(This)
  BY <1>1, Kinds DEF Flat
<1>3. j \in Nat /\ j >= 1
  <2>1. DOMAIN Kids = 1..Len(Kids) /\ Len(Kids) \in Nat
    BY <1>1, TopSettled DEF Visiting
  <2> QED BY <2>1
<1>4. Passed(This, j - 1) = j - 1 /\ Passed(This, j) = j
  BY <1>1, PassedValues
<1> QED BY <1>1, <1>2, <1>3, <1>4, Reading

LEMMA MembersRead ==
  ASSUME Inv, Visiting, NEW kind \in DOMAIN Arity, kind \notin Patterned \cup {"PatternCastAs"},
         NEW j \in 1..Arity[kind], At(kind, j - 1)
  PROVE  Reads(j)
<1>1. kind \notin Flat \cup Patterned \cup FunctionKinds \cup {"Match"}
  BY DEF Flat, Binders, FunctionKinds, Arity
<1>2. ~Done
  BY DEF At
<1>3. DOMAIN Kids = 1..Len(Kids)
  BY <1>2, TopTyped, Nodes DEF Kids
<1>4. j \in DOMAIN Kids
  BY <1>3, Members
<1> QED BY <1>1, <1>4, ReadsOn

LEMMA UnaryReads ==
  ASSUME Inv, Visiting,
         NEW kind \in {"Fix", "TypeAsc", "IsZero", "Succ", "Pred", "TypeAbstraction", "TypeApplication",
                   "Head", "Tail", "IsEmpty", "DotTuple", "DotRecord", "Inl", "Inr", "Throw",
                   "TypeCast", "Ref", "Deref"}
  PROVE  At(kind, 0) => Reads(1)
<1>1. kind \in DOMAIN Arity /\ Arity[kind] = 1 /\ kind \notin Patterned \cup {"PatternCastAs"}
  BY Arities DEF Patterned
<1>2. 1 \in 1..Arity[kind] /\ 1 - 1 = 0
  BY <1>1
<1> QED BY <1>1, <1>2, MembersRead

LEMMA BinaryReads ==
  ASSUME Inv, Visiting,
         NEW kind \in {"Abstraction", "Application", "Sequence", "ConsList", "TryWith", "Assign"}
  PROVE  /\ At(kind, 0) => Reads(1)
         /\ At(kind, 1) => Reads(2)
<1>1. kind \in DOMAIN Arity /\ Arity[kind] = 2 /\ kind \notin Patterned \cup {"PatternCastAs"}
  BY Arities DEF Patterned
<1>2. \A j \in 1..2 : At(kind, j - 1) => Reads(j)
  BY <1>1, MembersRead
<1>3. 1 \in 1..2 /\ 1 - 1 = 0 /\ 2 \in 1..2 /\ 2 - 1 = 1
  OBVIOUS
<1> QED BY <1>2, <1>3

LEMMA TernaryReads ==
  ASSUME Inv, Visiting, NEW kind \in {"If", "NatRec"}
  PROVE  /\ At(kind, 0) => Reads(1)
         /\ At(kind, 1) => Reads(2)
         /\ At(kind, 2) => Reads(3)
<1>1. kind \in DOMAIN Arity /\ Arity[kind] = 3 /\ kind \notin Patterned \cup {"PatternCastAs"}
  BY Arities DEF Patterned
<1>2. \A j \in 1..3 : At(kind, j - 1) => Reads(j)
  BY <1>1, MembersRead
<1>3. 1 \in 1..3 /\ 1 - 1 = 0 /\ 2 \in 1..3 /\ 2 - 1 = 1 /\ 3 \in 1..3 /\ 3 - 1 = 2
  OBVIOUS
<1> QED BY <1>2, <1>3

(* Whatever comes after it, a first child is visited like any other.       *)
LEMMA FirstReads ==
  ASSUME Inv, Visiting, NEW kind \in Patterned \cup {"Match"}, At(kind, 0)
  PROVE  Reads(1)
<1>1. ~Done /\ mem.raised = OK /\ KindOf(This) = kind /\ Top.pc = 0
  BY DEF At, KindOf
<1>2. KindOf(This) \notin Binders /\ ~IsFunction(This)
  BY <1>1 DEF Binders, IsFunction, FunctionKinds, KindOf, Patterned
<1>3. /\ Passed(This, 0) = 0
      /\ Passed(This, 1) \in {1, 2}
  <2>1. CASE kind \in Patterned
    BY <1>1, <2>1, PassedValues
  <2>2. CASE kind = "Match"
    BY <1>1, <2>2, PassedValues
  <2> QED BY <2>1, <2>2
<1>4. 1 \in DOMAIN Kids
  <2>1. This \in Ids /\ prog \in Programs
    BY <1>1, TopTyped
  <2>2. DOMAIN Kids = 1..Len(Kids) /\ Len(Kids) \in Nat /\ Len(Kids) >= 1
    <3>1. CASE kind = "Match"
      BY <1>1, <2>1, <3>1, Nodes DEF Kids, KindOf
    <3>2. CASE kind \in Patterned
      <4>1. kind \in DOMAIN Arity /\ Arity[kind] \in {3, 4}
        BY <3>2, Arities DEF Patterned
      <4> QED BY <1>1, <2>1, <4>1, Nodes DEF Kids, KindOf
    <3> QED BY <3>1, <3>2
  <2> QED BY <2>2
<1> QED BY <1>1, <1>2, <1>3, <1>4, Reading

LEMMA HoistedFunctions ==
  ASSUME Inv, NEW pc, At("Program", pc)
  PROVE  Hoisted \in Scopes /\ \A B : Resolvable(B, Hoisted)
<1>1. ~Done /\ KindOf(This) = "Program"
  BY DEF At, KindOf
<1>2. This \in Ids /\ prog \in Programs /\ Kids = KidsOf(This) /\ Kids \in Seq(Ids)
  BY <1>1, TopTyped, Nodes DEF Kids, KidsOf
<1>3. This = 1 /\ \A j \in DOMAIN Kids : Kid(j) \in Ids
  BY <1>1, <1>2, ProgramTree DEF Kid
<1>4. \A i \in FunDecls : RootFunction(Kid(i)) /\ Kid(i) \in Ids
  BY <1>2, <1>3 DEF FunDecls, RootFunction, IsFunction, FunctionKinds, Kid
<1>5. ASSUME NEW x \in Names, \E i \in FunDecls : NameOf(Kid(i)) = x
      PROVE  \E i \in FunDecls : Hoisted[x] = <<Kid(i)>>
  BY <1>5 DEF Hoisted
<1>6. \A x \in Names : Hoisted[x] = <<>> \/ \E i \in FunDecls : Hoisted[x] = <<Kid(i)>>
  BY <1>5 DEF Hoisted
<1>7. Hoisted \in Scopes
  <2>1. <<>> \in Seq(Ids) /\ \A k \in Ids : <<k>> \in Seq(Ids)
    OBVIOUS
  <2>2. \A x \in Names : Hoisted[x] \in Seq(Ids)
    BY <1>4, <1>6, <2>1
  <2>3. Hoisted = [x \in Names |-> Hoisted[x]]
    BY DEF Hoisted
  <2> QED BY <2>2, <2>3 DEF Scopes
<1>8. ASSUME NEW B, NEW x \in Names, NEW i \in DOMAIN Hoisted[x] PROVE Bindable(B, Hoisted[x][i])
  <2>1. CASE Hoisted[x] = <<>>
    BY <1>8, <2>1
  <2>2. CASE \E n \in FunDecls : Hoisted[x] = <<Kid(n)>>
    <3>1. PICK n \in FunDecls : Hoisted[x] = <<Kid(n)>>
      BY <2>2
    <3>2. DOMAIN <<Kid(n)>> = {1} /\ <<Kid(n)>>[1] = Kid(n)
      OBVIOUS
    <3> QED BY <1>4, <1>8, <3>1, <3>2 DEF Bindable
  <2> QED BY <1>6, <2>1, <2>2
<1> QED BY <1>7, <1>8 DEF Resolvable

LEMMA ProgramStays ==
  ASSUME Inv, Visiting, ~Done, VisitProgram
  PROVE  Stays
<1>1. mem.raised = OK /\ KindOf(This) = "Program" /\ ~IsFunction(This) /\ Same(mem)
  BY TopSettled DEF VisitProgram, At, KindOf, IsFunction, FunctionKinds, Visiting
<1>2. /\ This \in Ids /\ prog \in Programs
      /\ DOMAIN Kids = 1..Len(Kids) /\ Len(Kids) \in Nat /\ Kids = KidsOf(This)
      /\ \A j \in DOMAIN Kids : Kid(j) \in Ids
  BY <1>1, TopSettled, ProgramTree DEF Visiting, Kid
<1>3. KindOf(This) \notin Binders /\ KindOf(This) # "PatternVar"
  BY <1>1 DEF Binders
<1>4. CASE /\ At("Program", 0) /\ Kids # <<>>
           /\ VisitWith(mem, [Top EXCEPT !.guards = Hoisted], Kid(1))
  <2> DEFINE f == [Top EXCEPT !.guards = Hoisted]
  <2>1. Top.pc = 0 /\ 1 \in DOMAIN Kids /\ Steps(This) = Len(Kids)
    <3>1. Kids \in Seq(Ids)
      BY <1>2, Nodes DEF Kids
    <3>2. Detours(This) = 0
      BY <1>1 DEF Detours, KindOf
    <3> QED BY <1>2, <1>4, <3>1, <3>2 DEF At, Steps, Kids
  <2>2. Hoisted \in Scopes /\ \A B : Resolvable(B, Hoisted)
    BY <1>4, HoistedFunctions
  <2>3. f.base = Top.base /\ f.pc = Top.pc /\ f.guards = Hoisted
    BY TopFrame DEF IsFrame, Inv
  <2>4. Calls(f, Kid(1))
    BY <1>2, <2>1, <2>2, CallFrames
  <2>5. Passed(This, 0) = 0 /\ Passed(This, 0 + 1) = 1
    BY <1>1, PassedValues DEF Flat, Binders, Patterned
  <2> HIDE DEF f
  <2>6. GoesOn(mem, f, Kid(1), {})
    <3>1. \E j \in DOMAIN KidsOf(This) :
            /\ KidsOf(This)[j] = Kid(1) /\ Kid(1) \notin {}
            /\ Passed(This, Top.pc) \in Nat /\ Passed(This, Top.pc) < j
            /\ Passed(This, Top.pc + 1) \in Nat /\ j <= Passed(This, Top.pc + 1)
      BY <1>2, <2>1, <2>5 DEF Kid
    <3> QED BY <1>1, <1>4, <2>2, <2>3, <2>4, <3>1 DEF GoesOn, f
  <2> QED BY <1>1, <1>3, <2>6, SameStays
<1>5. ASSUME NEW i \in Positions, At("Program", i), i < Len(Kids), Visit(mem, Kid(i + 1))
      PROVE  Stays
  <2>1. i + 1 \in DOMAIN Kids /\ (i + 1) - 1 = i
    BY <1>2, <1>5 DEF Positions
  <2>2. "Program" \notin Flat \cup Patterned \cup FunctionKinds \cup {"Match"}
    BY DEF Flat, Binders, Patterned, FunctionKinds
  <2> HIDE DEF Reads
  <2>3. Reads(i + 1)
    BY <1>5, <2>1, <2>2, ReadsOn
  <2> QED BY <1>1, <1>5, <2>3 DEF Reads
<1>6. CASE (\E code : Throw(code)) \/ (\E t : Return(t))
  BY <1>1, <1>3, <1>6, Ends
<1> QED BY <1>4, <1>5, <1>6 DEF VisitProgram

(* A variable visits what its name stands for.                             *)
LEMMA VarStays ==
  ASSUME Inv, Visiting, ~Done, VisitExprVar
  PROVE  Stays
<1>1. mem.raised = OK /\ KindOf(This) = "Var" /\ ~IsFunction(This) /\ Same(mem)
  BY TopSettled DEF VisitExprVar, At, KindOf, IsFunction, FunctionKinds, Visiting
<1>2. KindOf(This) \notin Binders /\ KindOf(This) # "PatternVar"
  BY <1>1 DEF Binders
<1>3. CASE At("Var", 0) /\ names[Lab] # <<>> /\ Visit(mem, Resolve(Lab))
  <2> DEFINE k == Resolve(Lab)
  <2>1. SUFFICES ASSUME NEW B \in SUBSET Ids, Settled(B, mem.deduced, frames)
                 PROVE  StaysFrom(B)
    BY <1>1, StaysIf
  <2>2. /\ This \in Ids /\ prog \in Programs /\ Top.pc = 0
        /\ Resolvable(B, Top.base) /\ Resolvable(B, Top.guards) /\ Recast(mem.deduced)
    BY <1>3, <2>1, TopSettled DEF At
  <2>3. Lab \in Names /\ Steps(This) \in Nat /\ Steps(This) >= 1
    <3>1. Len(Node(This).kids) \in Nat /\ Detours(This) = 1 /\ Node(This).labs[1] \in Names
      BY <1>1, <2>2, Nodes DEF Detours, KindOf
    <3> QED BY <3>1 DEF Lab, Steps
  <2>4. Resolvable(B, names)
    BY <2>2, TopFrame, PushResolvable DEF Inv, Own, IsFrame
  <2>5. names[Lab] \in Seq(Ids)
    BY <2>3 DEF Inv, Typed, Scopes
  <2>6. Len(names[Lab]) \in DOMAIN names[Lab]
    BY <1>3, <2>5
  <2>7. Bindable(B, k) /\ k \in Ids
    BY <2>3, <2>4, <2>6 DEF Resolvable, Resolve, Bindable
  <2> HIDE DEF k
  <2>8. Calls(Top, k)
    BY <2>2, <2>3, <2>7, CallFrames
  <2>9. Call(mem, Top, k)
    BY <1>3 DEF Visit, VisitWith, k
  <2> DEFINE q == Passed(This, Top.pc)
             p == Passed(This, Top.pc + 1)
             N == {}
  <2>10. q \in Nat /\ p \in Nat /\ q <= p
    BY <1>1, <2>2, PassedValues DEF Flat, Binders, Patterned
  <2>11. B \cup N = B /\ N \subseteq Ids /\ \A n \in N : ~IsFunction(n) /\ Beneath(This, p, N, n)
    OBVIOUS
  <2> HIDE DEF q, p, N
  <2>12. \E C \in SUBSET Ids : Outgrows(B, C)
    <3>1. \/ \E j \in DOMAIN KidsOf(This) :
              /\ KidsOf(This)[j] = k /\ j <= p
              /\ k \notin B \cup N \/ RootFunction(k) \/ KindOf(k) \in Flat
          \/ KindOf(This) = "Var" /\ Bindable(B \cup N, k)
      BY <1>1, <2>7, <2>11
    <3>2. Resolvable(B \cup N, Top.guards)
      BY <2>2, <2>11
    <3> QED BY <1>1, <1>2, <2>1, <2>2, <2>8, <2>9, <2>10, <2>11, <3>1, <3>2, Calling DEF q, p
  <2>13. mem' = mem /\ prog' = prog
    BY <2>9 DEF Call
  <2> QED BY <2>12, <2>13 DEF StaysFrom, Final
<1>4. CASE (\E code : Throw(code)) \/ (\E t : Return(t))
  BY <1>1, <1>2, <1>4, Ends
<1> QED BY <1>3, <1>4 DEF VisitExprVar

(* Setting the type of a pattern that has not been reached.                *)
LEMMA PatternStays ==
  ASSUME Inv, Visiting, NEW kind \in Patterned, At(kind, 1),
         NEW m, IsStorage(m), \A n \in Ids : n # Kid(2) => m.deduced[n] = mem.deduced[n],
         NEW g \in Scopes, \/ g = NoGuards
                           \/ KindOf(Kid(2)) \in Binders /\ \E x : g = Guard(x, Kid(2)),
         NEW f, f = [Top EXCEPT !.guards = g], VisitWith(m, f, Kid(3))
  PROVE  Stays
<1>1. /\ ~Done /\ mem.raised = OK /\ KindOf(This) = kind /\ ~IsFunction(This) /\ Top.pc = 1
      /\ KindOf(This) \notin Binders
  BY DEF At, KindOf, IsFunction, FunctionKinds, Patterned, Binders
<1>2. PICK B \in SUBSET Ids : Settled(B, mem.deduced, frames)
  BY <1>1 DEF Visiting
<1>3. /\ This \in Ids /\ prog \in Programs /\ Kids = KidsOf(This) /\ Recast(mem.deduced)
      /\ DOMAIN Kids = 1..Len(Kids)
  BY <1>1, <1>2, TopSettled
<1>4. /\ Len(Kids) \in {3, 4} /\ Steps(This) \in {3, 4}
      /\ 2 \in DOMAIN Kids /\ 3 \in DOMAIN Kids /\ Child(Kid(2)) /\ Child(Kid(3))
  <2>1. kind \in DOMAIN Arity /\ Arity[kind] \in {3, 4}
    BY Arities DEF Patterned
  <2>2. Len(Kids) = Arity[kind] /\ Steps(This) = Arity[kind] /\ \A i \in 1..Arity[kind] : Child(Kid(i))
    BY <2>1, Members
  <2> QED BY <1>3, <2>1, <2>2
<1>5. Passed(This, Top.pc) = 1 /\ Passed(This, Top.pc + 1) = 3
  BY <1>1, PassedValues
<1>6. Kid(2) \in Ids /\ Kid(3) \in Ids /\ Kid(2) # Kid(3) /\ ~IsFunction(Kid(2)) /\ ~IsFunction(Kid(3))
  BY <1>3, <1>4, ProgramTree DEF Child, Kid
<1>7. mem.deduced[Kid(2)] = Absent
  BY <1>1, <1>2, <1>4, <1>5, <1>6, Untouched, Kinds
<1>8. Final(m)
  BY <1>7 DEF Final
<1>9. Recast(m.deduced)
  <2> SUFFICES ASSUME NEW n \in Ids, KindOf(n) = "PatternCastAs", KindOf(KidsOf(n)[1]) = "PatternVar"
               PROVE  m.deduced[KidsOf(n)[1]] \in {Absent, Node(n).types[1]}
    BY DEF Recast
  <2>1. 1 \in DOMAIN KidsOf(n) /\ KidsOf(n)[1] \in Ids
    <3>1. Len(KidsOf(n)) = 1
      BY <1>3, Nodes, Arities DEF KindOf, KidsOf
    <3> QED BY <1>3, <3>1, ProgramTree
  <2>2. KidsOf(n)[1] # Kid(2)
    <3>1. n # This
      BY <1>1 DEF Patterned
    <3> QED BY <1>3, <1>4, <2>1, <3>1, ProgramTree DEF Kid
  <2> QED BY <1>3, <2>1, <2>2 DEF Recast
<1>10. f.base = Top.base /\ f.pc = Top.pc /\ f.guards = g /\ Calls(f, Kid(3))
  <2>1. IsFrame(Top)
    BY <1>1, TopFrame DEF Inv
  <2> QED BY <1>1, <1>4, <1>6, <2>1, CallFrames DEF IsFrame
<1> DEFINE N == {Kid(2)}
<1>11. \A C \in SUBSET Ids : Resolvable(C \cup N, g)
  <2>1. KindOf(Kid(2)) \in Binders => \A C \in SUBSET Ids : Bindable(C \cup N, Kid(2))
    BY <1>6 DEF Bindable
  <2> HIDE DEF N
  <2> QED BY <2>1, GuardsResolvable
<1>12. N \subseteq Ids /\ \A n \in N : ~IsFunction(n) /\ Beneath(This, 3, N, n)
  BY <1>3, <1>4, <1>6 DEF Beneath, Kid
<1>13. Kid(3) \notin N /\ \A n \in Ids : m.deduced[n] # mem.deduced[n] => n \in N
  BY <1>6
<1> HIDE DEF N
<1>14. Call(m, f, Kid(3)) /\ mem' = m /\ prog' = prog
  BY DEF VisitWith, Call
<1>15. Goes(m, f, Kid(3), N)
  <2>1. \E j \in DOMAIN KidsOf(This) :
            /\ KidsOf(This)[j] = Kid(3) /\ Kid(3) \notin N
            /\ Passed(This, Top.pc) \in Nat /\ Passed(This, Top.pc) < j
            /\ Passed(This, Top.pc + 1) \in Nat /\ j <= Passed(This, Top.pc + 1)
    BY <1>3, <1>4, <1>5, <1>13 DEF Kid
  <2> QED BY <1>1, <1>5, <1>9, <1>10, <1>11, <1>12, <1>13, <1>14, <2>1 DEF Goes
<1>16. m.raised = OK => SettlesOn
  BY <1>1, <1>15, Onward
<1> QED BY <1>8, <1>14, <1>16 DEF Stays

(* What SetDeduced leaves of the other types.                              *)
LEMMA SetDeducedElsewhere ==
  ASSUME NEW m, Same(m), NEW n, NEW t
  PROVE  \E d : SameAs(SetDeduced(m, n, t), d) /\ \A k \in Ids : k # n => d[k] = mem.deduced[k]
<1> DEFINE r == SetDeduced(m, n, t)
<1>a. IsStorage(m) /\ m.deduced = mem.deduced
  BY DEF Same, SameAs
<1>1. /\ IsStorage(r)
      /\ r.raised = OK => r.deduced = [m.deduced EXCEPT ![n] = t]
      /\ r.raised # OK => r.deduced = m.deduced
  BY <1>a, SetDeducedFields
<1> HIDE DEF r
<1>2. \A k \in Ids : k # n => r.deduced[k] = mem.deduced[k]
  BY <1>a, <1>1 DEF IsStorage
<1> QED BY <1>1, <1>2 DEF SameAs, r

LEMMA AbstractionStays ==
  ASSUME Inv, Visiting, ~Done, VisitExprAbstraction
  PROVE  Stays
<1>1. /\ mem.raised = OK /\ KindOf(This) = "Abstraction" /\ ~IsFunction(This) /\ Same(mem)
      /\ KindOf(This) \notin Binders /\ KindOf(This) # "PatternVar"
  BY TopSettled DEF VisitExprAbstraction, At, KindOf, IsFunction, FunctionKinds, Visiting, Binders
<1>2. /\ This \in Ids /\ prog \in Programs /\ Kids = KidsOf(This) /\ DOMAIN Kids = 1..Len(Kids)
  BY <1>1, TopSettled DEF Visiting
<1>3. CASE At("Abstraction", 0)
  <2> DEFINE e  == mem.expected[This]
             m0 == IF ConcreteExpected /\ ~Expects("Fun") /\ ~e.explicit
                   THEN [mem EXCEPT !.expected[This] = EqualsToOr(e.type, "ERROR_UNEXPECTED_LAMBDA")]
                   ELSE mem
             m1 == CheckType(SetProvisional(m0, Sentinel_("Fun")), Node(Param).types[1])
             m2 == IF Concrete("Fun") THEN ExpectType(m1, Param, EqualsToOr(Part(e.type, 1), PARAM))
                   ELSE m1
  <2>1. Visit(m2, Param)
    BY <1>3 DEF VisitExprAbstraction, At
  <2>2. Same(m0)
    <3> DEFINE x(v) == [mem EXCEPT !.expected = v]
               v0 == [mem.expected EXCEPT ![This] = EqualsToOr(e.type, "ERROR_UNEXPECTED_LAMBDA")]
    <3>1. DOMAIN v0 = Ids
      BY <1>1 DEF Same, SameAs, IsStorage
    <3>2. [mem EXCEPT !.expected[This] = EqualsToOr(e.type, "ERROR_UNEXPECTED_LAMBDA")] = x(v0)
      OBVIOUS
    <3> HIDE DEF v0
    <3>3. \A v : DOMAIN v = Ids => Same(x(v))
      BY <1>1 DEF Same, SameAs, IsStorage
    <3> QED BY <1>1, <3>1, <3>2, <3>3
  <2> HIDE DEF m0
  <2>3. Same(m1)
    BY <2>2, OperationsSame
  <2> HIDE DEF m1
  <2>4. Same(m2)
    BY <2>3, OperationsSame
  <2> HIDE DEF m2
  <2>5. Reads(1)
    BY <1>3, BinaryReads
  <2> QED BY <2>1, <2>4, <2>5 DEF Reads, Param
<1>4. CASE At("Abstraction", 1)
  <2> DEFINE result == IF Expects("Fun") THEN Part(Expected, 2) ELSE None_
             m == IF result = None_ THEN mem ELSE Expect(mem, Body, result)
             g == Guard(NameOf(Param), Param)
             f == [Top EXCEPT !.guards = g]
             N == {Param}
  <2>1. VisitWith(m, f, Body)
    BY <1>4 DEF VisitExprAbstraction, At
  <2>2. Steps(This) = 2 /\ Len(Kids) = 2 /\ Child(Param) /\ Child(Body) /\ Top.pc = 1 /\ Body = Kid(2)
    BY <1>4, Binary_ DEF Param, Body, Kid
  <2>3. Same(m)
    BY <1>1, OperationsSame
  <2>4. g \in Scopes
    BY <2>2, GuardsTyped DEF Child
  <2>5. Param \in Ids /\ ~IsFunction(Param) /\ KindOf(Param) \in Binders /\ Param # Body
    <3>1. KindOf(Param) = "ParamDecl" /\ Param = KidsOf(This)[1] /\ Body = KidsOf(This)[2]
      BY <1>1, <1>2, <2>2, ProgramTree DEF Param, Kid
    <3>2. 1 \in DOMAIN KidsOf(This) /\ 2 \in DOMAIN KidsOf(This)
      BY <1>2, <2>2
    <3> QED BY <1>2, <2>2, <3>1, <3>2, ProgramTree DEF Child, Binders
  <2>6. \A B \in SUBSET Ids : Resolvable(B \cup N, g)
    <3>1. \A B \in SUBSET Ids : Bindable(B \cup N, Param)
      BY <2>5 DEF Bindable
    <3> HIDE DEF N
    <3> QED BY <3>1, GuardsResolvable
  <2>7. Passed(This, Top.pc) = 1 /\ Passed(This, Top.pc + 1) = 2
    BY <1>1, <2>2, PassedValues DEF Flat, Binders, Patterned
  <2>8. N \subseteq Ids /\ \A n \in N : ~IsFunction(n) /\ Beneath(This, 2, N, n)
    BY <1>2, <2>2, <2>5 DEF Beneath, Param, Kid
  <2>9. Body \notin N
    BY <2>5
  <2>10. f.base = Top.base /\ f.pc = Top.pc /\ f.guards = g /\ Calls(f, Body)
    <3>1. IsFrame(Top)
      BY TopFrame DEF Inv
    <3> QED BY <2>2, <2>4, <3>1, CallFrames DEF IsFrame, Child
  <2> HIDE DEF m, f, N, g
  <2>11. GoesOn(m, f, Body, N)
    <3>1. \E j \in DOMAIN KidsOf(This) :
            /\ KidsOf(This)[j] = Body /\ Body \notin N
            /\ Passed(This, Top.pc) \in Nat /\ Passed(This, Top.pc) < j
            /\ Passed(This, Top.pc + 1) \in Nat /\ j <= Passed(This, Top.pc + 1)
      BY <1>2, <2>2, <2>7, <2>9 DEF Kid
    <3> QED BY <2>1, <2>3, <2>6, <2>7, <2>8, <2>10, <3>1 DEF GoesOn
  <2> QED BY <1>1, <2>11, SameStays
<1>5. CASE \E t : Return(t)
  BY <1>1, <1>5, Ends
<1> QED BY <1>3, <1>4, <1>5 DEF VisitExprAbstraction

LEMMA LetStays ==
  ASSUME Inv, Visiting, ~Done, VisitExprLet
  PROVE  Stays
<1>1. /\ mem.raised = OK /\ KindOf(This) = "Let" /\ ~IsFunction(This) /\ Same(mem)
      /\ KindOf(This) # "PatternVar" /\ "Let" \in Patterned
  BY TopSettled DEF VisitExprLet, At, KindOf, IsFunction, FunctionKinds, Visiting, Patterned
<1>2. CASE At("Let", 0) /\ Visit(mem, Kid(1))
  BY <1>1, <1>2, FirstReads DEF Reads
<1>3. CASE At("Let", 1)
  <2> DEFINE r == SetDeduced(mem, Kid(2), Deduced(Kid(1)))
             m == Propagate(r, Kid(3))
             g == Guard(NameOf(Kid(2)), Kid(2))
  <2>1. VisitWith(m, [Top EXCEPT !.guards = g], Kid(3))
    BY <1>3 DEF VisitExprLet, At
  <2>2. PICK d : SameAs(r, d) /\ \A k \in Ids : k # Kid(2) => d[k] = mem.deduced[k]
    BY <1>1, SetDeducedElsewhere
  <2> HIDE DEF r
  <2>3. SameAs(m, d)
    BY <2>2, OperationsSameAs
  <2>4. g \in Scopes /\ KindOf(Kid(2)) \in Binders
    <3>1. Child(Kid(2)) /\ This \in Ids /\ prog \in Programs
      BY <1>3, Ternary, TopTyped
    <3>2. KindOf(Kid(2)) = "PatternVar"
      BY <1>1, <3>1, ProgramTree DEF Kid, Kids, KidsOf
    <3> QED BY <3>1, <3>2, GuardsTyped DEF Child, Binders
  <2> HIDE DEF m
  <2>5. IsStorage(m) /\ \A k \in Ids : k # Kid(2) => m.deduced[k] = mem.deduced[k]
    BY <2>2, <2>3 DEF SameAs
  <2>6. g = NoGuards \/ (KindOf(Kid(2)) \in Binders /\ \E x : g = Guard(x, Kid(2)))
    BY <2>4
  <2> HIDE DEF g
  <2> QED BY <1>1, <1>3, <2>1, <2>4, <2>5, <2>6, PatternStays
<1>4. CASE \E t : Return(t)
  BY <1>1, <1>4, Ends
<1> QED BY <1>2, <1>3, <1>4 DEF VisitExprLet

LEMMA FunctionStays ==
  ASSUME Inv, Visiting, ~Done, VisitFunction, ~VisitDeclFun, ~VisitDeclFunGeneric
  PROVE  Stays
<1>1. mem.raised = OK /\ KindOf(This) # "PatternVar" /\ ~IsFunction(This) /\ Same(mem)
  BY VisitedKind, TopSettled DEF Visiting
<1> USE <1>1, Ends
<1>2. CASE VisitParamDecl \/ VisitExprConstUnit \/ VisitExprConstTrue \/ VisitExprConstFalse \/ VisitExprConstInt
  BY <1>2 DEF VisitParamDecl, VisitExprConstUnit, VisitExprConstTrue, VisitExprConstFalse, VisitExprConstInt
<1>3. CASE VisitExprAbstraction \/ VisitExprVar \/ VisitExprLet
  BY <1>3, AbstractionStays, VarStays, LetStays
<1>4. CASE VisitExprFix
  BY <1>4, UnaryReads, OperationsSame DEF VisitExprFix, Reads
<1>5. CASE VisitExprApplication
  <2> DEFINE t == Deduced(Kid(1))
             fun_type == IF Unresolved(t) THEN Fun_(Fresh(1), Fresh(2)) ELSE t
             inferred == Infer(t, fun_type, 2)
  <2>1. Same(inferred)
    BY InferSame
  <2> HIDE DEF inferred
  <2>2. CASE At("Application", 1)
    <3>1. Same(Expect(inferred, Kid(2), Part(fun_type, 1)))
      BY <2>1, OperationsSame
    <3>2. \/ Throw(INTERNAL)
          \/ VisitWith(Expect(inferred, Kid(2), Part(fun_type, 1)),
                       [Top EXCEPT !.result = fun_type], Kid(2))
      BY <1>5, <2>2 DEF VisitExprApplication, At, inferred
    <3>3. Reads(2)
      BY <2>2, BinaryReads
    <3> QED BY <3>1, <3>2, <3>3 DEF Reads
  <2>3. CASE At("Application", 0) /\ Visit(Expect(mem, Kid(1), Sentinel_("Fun")), Kid(1))
    BY <2>3, BinaryReads, OperationsSame DEF Reads
  <2> QED BY <1>5, <2>2, <2>3 DEF VisitExprApplication
<1>6. CASE VisitExprTypeAsc
  BY <1>6, UnaryReads, OperationsSame DEF VisitExprTypeAsc, Reads
<1>7. CASE VisitExprSequence
  BY <1>7, BinaryReads, OperationsSame DEF VisitExprSequence, Reads
<1>8. CASE VisitExprIf
  BY <1>8, TernaryReads, OperationsSame DEF VisitExprIf, Reads
<1>9. CASE VisitExprIsZero
  BY <1>9, UnaryReads, OperationsSame DEF VisitExprIsZero, VisitOperator, Reads
<1>10. CASE VisitExprSucc
  BY <1>10, UnaryReads, OperationsSame DEF VisitExprSucc, VisitOperator, Reads
<1>11. CASE VisitExprPred
  BY <1>11, UnaryReads, OperationsSame DEF VisitExprPred, VisitOperator, Reads
<1>12. CASE VisitExprNatRec
  BY <1>12, TernaryReads, OperationsSame DEF VisitExprNatRec, Reads
<1>13. CASE VisitExprTypeAbstraction
  BY <1>13, UnaryReads, OperationsSame DEF VisitExprTypeAbstraction, Reads
<1>14. CASE VisitExprTypeApplication
  BY <1>14, UnaryReads, OperationsSame DEF VisitExprTypeApplication, Reads
<1> QED BY <1>2, <1>3, <1>4, <1>5, <1>6, <1>7, <1>8, <1>9, <1>10, <1>11, <1>12, <1>13, <1>14
        DEF VisitFunction

(* A function declaration: it gets its first type before its body is       *)
(* visited, and its last one at the end.                                   *)
LEMMA GeneralisedSet ==
  ASSUME NEW kind, NEW params, NEW a, NEW r
  PROVE  /\ Generalised(kind, params, Fun_(a, r)) # Absent
         /\ Generalised(kind, params, Built(Fun_(a, r))) # Absent
<1>1. \A t : t.tag # "Absent" => t # Absent
  BY DEF Absent, Leaf, Term
<1>2. Fun_(a, r).tag = "Fun" /\ \A f : Sentinel_(f).tag = "Sentinel"
  BY DEF Fun_, Sentinel_, Term
<1>3. \A t : Built(t).tag \in {"Sentinel", t.tag}
  BY <1>2 DEF Built
<1>4. \A t : ForAll_(params, t).tag = "ForAll"
  BY DEF ForAll_, Term
<1>5. \A t : Generalised(kind, params, t).tag \in {t.tag, "Sentinel", "ForAll"}
  BY <1>3, <1>4 DEF Generalised
<1> QED BY <1>1, <1>2, <1>3, <1>5

LEMMA FunctionGoes ==
  ASSUME Inv, Visiting, ~Done, mem.raised = OK, IsFunction(This),
         NEW m, NEW f, NEW k, NEW N, Goes(m, f, k, N),
         \A n \in Ids : n # This => m.deduced[n] = mem.deduced[n]
  PROVE  Stays
<1>1. KindOf(This) \notin Binders
  BY Kinds
<1>2. Call(m, f, k) /\ mem' = m /\ prog' = prog
  BY DEF Goes, Call
<1>3. m.raised = OK => SettlesOn
  BY <1>1, Onward
<1> QED BY <1>2, <1>3 DEF Stays, Final

LEMMA DeclareFunctionStays ==
  ASSUME Inv, Visiting, NEW kind \in FunctionKinds, NEW params, DeclareFunction(kind, params)
  PROVE  Stays
<1>1. ~Done /\ mem.raised = OK /\ KindOf(This) = kind
  BY DEF DeclareFunction, At, KindOf
<1>2. /\ IsFunction(This) /\ KindOf(This) # "PatternVar"
      /\ kind \notin Flat \cup Patterned \cup {"Match"}
  BY <1>1, Kinds DEF Flat, Binders, Patterned, FunctionKinds
<1>3. /\ This \in Ids /\ prog \in Programs /\ Same(mem) /\ Top.pc \in Nat
      /\ DOMAIN Kids = 1..Len(Kids) /\ Len(Kids) \in Nat /\ Kids = KidsOf(This)
      /\ Recast(mem.deduced) /\ (Top.pc > 1 => mem.deduced[This] # Absent)
      /\ TypedFrame(Top)
  BY <1>1, <1>2, TopSettled, TopTyped DEF Visiting
<1>4. /\ Len(Kids) >= 2 /\ \A i \in 1..Len(Kids) : Kid(i) \in Ids
      /\ Child(Param) /\ Child(Body) /\ Steps(This) = Len(Kids)
      /\ KindOf(Param) = "ParamDecl" /\ Param = KidsOf(This)[1] /\ 1 \in DOMAIN KidsOf(This)
  <2>1. /\ Len(Kids) >= 2 /\ \A i \in 1..Len(Kids) : Kid(i) \in Ids
        /\ Child(Param) /\ Child(Body)
    BY <1>2, <1>3, Nodes DEF Kids, Kid, Param, Body
  <2>2. Detours(This) = 0
    BY <1>1 DEF Detours, FunctionKinds, KindOf
  <2>3. KindOf(Param) = "ParamDecl"
    BY <1>1, <1>3, ProgramTree DEF Param, Kid
  <2> QED BY <1>3, <2>1, <2>2, <2>3 DEF Steps, Kids, Param, Kid
<1>5. \A pc : Passed(This, pc) = pc
  BY <1>1, <1>2, PassedValues
<1>6. CASE At(kind, 0)
  <2> DEFINE m == Raise(SetProvisional(mem, Sentinel_(IF kind = "DeclFun" THEN "Fun" ELSE "ForAll")),
                        TypesError(<<TypeArg, Node(Param).types[1]>>, tvars \o params))
             f == [Top EXCEPT !.tvs = params]
             N == {}
  <2>1. Top.pc = 0 /\ 0 \notin Positions /\ Len(Kids) # 0
    BY <1>1, <1>3, <1>4, <1>6 DEF At, Positions
  <2>2. Call(m, f, Param)
    BY <1>6, <2>1 DEF DeclareFunction, At, VisitWith
  <2>3. Same(m)
    BY <1>3, OperationsSame
  <2>4. Calls(f, Param) /\ f.base = Top.base /\ f.pc = Top.pc /\ f.guards = Top.guards
    <3>1. Calls(f, Param)
      BY <1>1, <1>4, <2>1, CallFrames DEF Child
    <3> QED BY <1>3, <3>1 DEF TypedFrame, IsFrame
  <2>5. \A B \in SUBSET Ids : Settled(B, mem.deduced, frames) => Resolvable(B \cup N, f.guards)
    BY <1>1, <2>4, TopSettled
  <2>6. N \subseteq Ids /\ \A n : n \notin N
    OBVIOUS
  <2> HIDE DEF m, f, N
  <2>7. m.deduced = mem.deduced
    BY <2>3 DEF Same, SameAs
  <2>8. \E j \in DOMAIN KidsOf(This) :
          /\ KidsOf(This)[j] = Param /\ Param \notin N
          /\ Passed(This, Top.pc) \in Nat /\ Passed(This, Top.pc) < j
          /\ Passed(This, Top.pc + 1) \in Nat /\ j <= Passed(This, Top.pc + 1)
    BY <1>4, <1>5, <2>1, <2>6
  <2>9. Goes(m, f, Param, N)
    BY <1>3, <1>4, <2>1, <2>2, <2>4, <2>5, <2>6, <2>7, <2>8 DEF Goes
  <2> QED BY <1>1, <1>2, <2>7, <2>9, FunctionGoes
<1>7. ASSUME NEW i \in Positions, At(kind, i), i < Len(Kids),
             NEW known, known = (IF i > 1 THEN mem
                ELSE [mem EXCEPT !.deduced[This] = Generalised(kind, params, Fun_(Deduced(Param), TypeArg))]),
             NEW m, m = (IF Kid(i + 1) = Body THEN Expect(known, Body, TypeArg) ELSE known),
             NEW f, f = (IF i > 1 THEN Top
                         ELSE [Top EXCEPT !.guards = Guard(NameOf(Param), Param), !.was_in_body = in_body]),
             Call(m, f, Kid(i + 1))
      PROVE  Stays
  <2>1. i \in 1..Len(Kids) /\ i + 1 \in 1..Len(Kids) /\ Top.pc = i
    BY <1>1, <1>3, <1>7 DEF Positions, At
  <2> DEFINE N == {n \in {Param} : i <= 1}
  <2>2. N \subseteq Ids /\ \A n \in N : n = Param /\ i <= 1 /\ ~IsFunction(n)
    BY <1>4 DEF Child
  <2>3. i <= 1 => Param \in N
    OBVIOUS
  <2> HIDE DEF N
  <2>4. PICK d : SameAs(known, d) /\ d[This] # Absent /\ \A n \in Ids : n # This => d[n] = mem.deduced[n]
    <3>1. CASE i > 1
      BY <1>3, <1>7, <2>1, <3>1 DEF Same
    <3>2. CASE ~(i > 1)
      <4> DEFINE t == Generalised(kind, params, Fun_(Deduced(Param), TypeArg))
                 d == [mem.deduced EXCEPT ![This] = t]
                 x(v) == [mem EXCEPT !.deduced = v]
      <4>1. IsStorage(mem) /\ DOMAIN mem.deduced = Ids
        BY <1>3 DEF Same, SameAs, IsStorage
      <4>2. t # Absent
        BY GeneralisedSet
      <4>3. known = x(d)
        BY <1>7, <3>2
      <4> HIDE DEF t
      <4>4. d[This] = t /\ DOMAIN d = Ids /\ \A n \in Ids : n # This => d[n] = mem.deduced[n]
        BY <1>3, <4>1
      <4> HIDE DEF d
      <4>5. IsStorage(x(d)) /\ x(d).deduced = d
        BY <4>1, <4>4 DEF IsStorage
      <4> QED BY <4>2, <4>3, <4>4, <4>5 DEF SameAs
    <3> QED BY <3>1, <3>2
  <2>5. SameAs(m, d)
    BY <1>7, <2>4, OperationsSameAs
  <2>6. m.deduced = d
    BY <2>5 DEF SameAs
  <2>7. Recast(d)
    <3>1. ASSUME NEW n \in Ids, KindOf(n) = "PatternCastAs", KindOf(KidsOf(n)[1]) = "PatternVar"
          PROVE  KidsOf(n)[1] \in Ids /\ KidsOf(n)[1] # This
      <4>1. KidsOf(n)[1] \in Ids
        BY <1>3, <3>1, InnerNode DEF KindOf, KidsOf, Inner
      <4> QED BY <1>2, <3>1, <4>1
    <3> QED BY <1>3, <2>4, <3>1 DEF Recast
  <2>8. /\ Calls(f, Kid(i + 1)) /\ f.base = Top.base /\ f.pc = Top.pc
        /\ f.guards = IF i > 1 THEN Top.guards ELSE Guard(NameOf(Param), Param)
    <3> DEFINE g == Guard(NameOf(Param), Param)
               h == [Top EXCEPT !.guards = g]
    <3>1. g \in Scopes /\ in_body \in BOOLEAN
      BY <1>4, GuardsTyped DEF Child, Inv, Typed
    <3>2. TypedFrame(h) /\ h.node = Top.node /\ h.pc = Top.pc /\ h.base = Top.base /\ h.guards = g
      <4> HIDE DEF g
      <4>1. h.base = Top.base /\ h.guards = g
        BY <1>3 DEF TypedFrame, IsFrame
      <4> QED BY <1>3, <3>1, <4>1, FramesTyped
    <3>3. [Top EXCEPT !.guards = g, !.was_in_body = in_body] = [h EXCEPT !.was_in_body = in_body]
      OBVIOUS
    <3> HIDE DEF h
    <3> DEFINE b == [h EXCEPT !.was_in_body = in_body]
    <3>4. TypedFrame(b) /\ b.node = h.node /\ b.pc = h.pc /\ b.base = h.base /\ b.guards = h.guards
      <4>1. b.base = h.base /\ b.guards = h.guards
        BY <3>2 DEF TypedFrame, IsFrame
      <4> QED BY <3>1, <3>2, <4>1, FramesTyped
    <3>5. f = IF i > 1 THEN Top ELSE b
      BY <1>7, <3>3
    <3> HIDE DEF b
    <3>6. f.node = This /\ TypedFrame(f) /\ f.base = Top.base /\ f.pc = Top.pc
      BY <1>3, <3>2, <3>4, <3>5 DEF This
    <3>7. Kid(i + 1) \in Ids /\ f.pc < Steps(This)
      BY <1>4, <1>7, <2>1, <3>6
    <3> QED BY <3>2, <3>4, <3>5, <3>6, <3>7 DEF Calls
  <2>9. \A B \in SUBSET Ids : Settled(B, mem.deduced, frames) => Resolvable(B \cup N, f.guards)
    <3>1. CASE i > 1
      <4>1. N = {}
        BY <2>1, <2>2, <3>1
      <4>2. \A B \in SUBSET Ids : Settled(B, mem.deduced, frames) => Resolvable(B, Top.guards)
        BY <1>1, TopSettled
      <4>3. \A B : B \cup N = B
        BY <4>1
      <4> QED BY <2>8, <3>1, <4>2, <4>3
    <3>2. CASE ~(i > 1)
      <4>1. KindOf(Param) \in Binders /\ Param \in N /\ Param \in Ids
        BY <1>4, <2>1, <2>3, <3>2, Kinds DEF Child
      <4>2. \A B : Bindable(B \cup N, Param)
        BY <4>1 DEF Bindable
      <4> QED BY <2>8, <3>2, <4>2, GuardsResolvable
    <3> QED BY <3>1, <3>2
  <2>10. \E j \in DOMAIN KidsOf(This) :
          /\ KidsOf(This)[j] = Kid(i + 1) /\ Kid(i + 1) \notin N
          /\ Passed(This, Top.pc) \in Nat /\ Passed(This, Top.pc) < j
          /\ Passed(This, Top.pc + 1) \in Nat /\ j <= Passed(This, Top.pc + 1)
    <3>1. i + 1 \in DOMAIN KidsOf(This) /\ KidsOf(This)[i + 1] = Kid(i + 1)
      BY <1>3, <2>1 DEF Kid
    <3>2. Kid(i + 1) # Param
      <4>1. i + 1 # 1
        BY <2>1
      <4> DEFINE j == i + 1
      <4> HIDE DEF j
      <4>2. KidsOf(This)[j] # KidsOf(This)[1]
        BY <1>3, <1>4, <3>1, <4>1, ProgramTree DEF j
      <4> QED BY <1>4, <3>1, <4>2 DEF j
    <3>3. Kid(i + 1) \notin N
      BY <2>2, <3>2
    <3>4. Passed(This, Top.pc) = i /\ Passed(This, Top.pc + 1) = i + 1 /\ i \in Nat
      BY <1>5, <2>1
    <3> QED BY <3>1, <3>3, <3>4
  <2>11. \A n \in N : Beneath(This, Passed(This, Top.pc + 1), N, n)
    BY <1>4, <1>5, <2>1, <2>2 DEF Beneath
  <2>12. \A n \in Ids : m.deduced[n] # mem.deduced[n] => n \in N \/ (n = This /\ IsFunction(This))
    BY <1>2, <2>4, <2>6
  <2>13. Goes(m, f, Kid(i + 1), N)
    BY <1>7, <2>2, <2>4, <2>6, <2>7, <2>8, <2>9, <2>10, <2>11, <2>12 DEF Goes
  <2> QED BY <1>1, <1>2, <2>4, <2>6, <2>13, FunctionGoes
<1>8. ASSUME NEW t, Finish(SetDeduced(mem, This, t)), t # Absent
      PROVE  Stays
  BY <1>1, <1>2, <1>3, <1>8, Finishing
<1>9. CASE Finish(SetDeduced(mem, This, Generalised(kind, params, Built(Fun_(Deduced(Param), Deduced(Body))))))
  BY <1>8, <1>9, GeneralisedSet
<1> DEFINE known(i) == IF i > 1 THEN mem
                       ELSE [mem EXCEPT !.deduced[This] = Generalised(kind, params, Fun_(Deduced(Param), TypeArg))]
           m(i) == IF Kid(i + 1) = Body THEN Expect(known(i), Body, TypeArg) ELSE known(i)
           f(i) == IF i > 1 THEN Top
                   ELSE [Top EXCEPT !.guards = Guard(NameOf(Param), Param), !.was_in_body = in_body]
<1>10. CASE \E i \in Positions : At(kind, i) /\ i < Len(Kids) /\ Call(m(i), f(i), Kid(i + 1))
  <2>1. PICK i \in Positions : At(kind, i) /\ i < Len(Kids) /\ Call(m(i), f(i), Kid(i + 1))
    BY <1>10
  <2> QED BY <1>7, <2>1, Zenon
<1> QED BY <1>6, <1>9, <1>10, Zenon DEF DeclareFunction

(* The visitors of data, but for match.                                    *)
LEMMA AnyReads ==
  ASSUME Inv, Visiting, NEW kind \in {"List", "Tuple", "Record", "Variant"},
         NEW i \in Positions, At(kind, i - 1)
  PROVE  Reads(i)
<1>1. kind \notin Flat \cup Patterned \cup FunctionKinds \cup {"Match"}
  BY DEF Flat, Binders, Patterned, FunctionKinds
<1>2. i \in DOMAIN Kids
  BY DEF Positions
<1> QED BY <1>1, <1>2, ReadsOn

LEMMA ListStays ==
  ASSUME Inv, Visiting, ~Done, VisitExprList
  PROVE  Stays
<1> DEFINE hint == IF Expects("List") THEN Part(Expected, 1) ELSE None_
           m == Entry(SetProvisional(mem, Sentinel_("List")))
           elem == IF Top.pc = 0 THEN hint ELSE FirstType(Deduced(Kid(Top.pc)))
<1>1. mem.raised = OK /\ KindOf(This) # "PatternVar" /\ ~IsFunction(This) /\ Same(mem)
  BY VisitedKind, TopSettled DEF VisitData, Visiting
<1>2. Same(m)
  BY <1>1, OperationsSame
<1> HIDE DEF m, elem
<1>3. ASSUME NEW i \in Positions, At("List", i - 1),
             VisitWith(IF elem = None_ THEN m ELSE Expect(m, Kid(i), elem),
                       [Top EXCEPT !.result = elem], Kid(i))
      PROVE  Stays
  <2>1. Reads(i)
    BY <1>3, AnyReads
  <2>2. Same(IF elem = None_ THEN m ELSE Expect(m, Kid(i), elem))
    BY <1>2, OperationsSame
  <2> QED BY <1>3, <2>1, <2>2 DEF Reads
<1>4. CASE \E t, code : AmbiguousFrom(m, t, code) \/ ReturnFrom(m, t)
  BY <1>1, <1>2, <1>4, Ends
<1> QED BY <1>3, <1>4 DEF VisitExprList, m, elem

LEMMA ConsListStays ==
  ASSUME Inv, Visiting, ~Done, VisitExprConsList
  PROVE  Stays
<1>1. mem.raised = OK /\ KindOf(This) # "PatternVar" /\ ~IsFunction(This) /\ Same(mem)
  BY VisitedKind, TopSettled DEF VisitData, Visiting
<1> DEFINE hint == IF Concrete("List") THEN Part(Expected, 1) ELSE None_
           Listed(m, t) == Expect(m, Kid(2), Built(List_(t)))
<1>2. CASE At("ConsList", 0)
  <2> DEFINE m1 == Expect(SetProvisional(mem, Sentinel_("List")), Kid(2), Sentinel_("List"))
             m2 == IF hint = None_ THEN m1 ELSE Listed(Expect(m1, Kid(1), hint), hint)
  <2>1. Visit(m2, Kid(1))
    BY <1>2 DEF VisitExprConsList, At
  <2>2. Same(m1)
    BY <1>1, OperationsSame
  <2> HIDE DEF m1
  <2>3. Same(m2)
    <3>1. Same(Expect(m1, Kid(1), hint))
      BY <2>2, OperationsSame
    <3> QED BY <2>2, <3>1, OperationsSame
  <2> HIDE DEF m2
  <2> QED BY <1>2, <2>1, <2>3, BinaryReads DEF Reads
<1>3. CASE At("ConsList", 1)
  <2> DEFINE m == IF hint = None_ THEN Listed(mem, Deduced(Kid(1))) ELSE mem
  <2>1. Visit(m, Kid(2))
    BY <1>3 DEF VisitExprConsList, At
  <2>2. Same(m)
    BY <1>1, OperationsSame
  <2> HIDE DEF m
  <2> QED BY <1>3, <2>1, <2>2, BinaryReads DEF Reads
<1>4. CASE At("ConsList", 2)
  <2>1. Throw(INTERNAL) \/ \E t, new, k, r : ReturnFrom(Infer(t, new, k), r)
    BY <1>4 DEF VisitExprConsList, At
  <2> QED BY <1>1, <2>1, InferSame, Ends
<1> QED BY <1>2, <1>3, <1>4 DEF VisitExprConsList

LEMMA OnListStays ==
  ASSUME Inv, Visiting, ~Done, mem.raised = OK, KindOf(This) # "PatternVar", ~IsFunction(This),
         NEW kind \in {"Head", "Tail"}, NEW e, NEW r, OnList(kind, e, r)
  PROVE  Stays
<1>1. Same(mem)
  BY TopSettled DEF Visiting
<1>2. CASE At(kind, 0) /\ Visit(Expect(mem, Kid(1), e), Kid(1))
  BY <1>1, <1>2, UnaryReads, OperationsSame DEF Reads
<1>3. CASE Throw(INTERNAL) \/ \E t, new, k : ReturnFrom(Infer(t, new, k), r)
  BY <1>1, <1>3, InferSame, Ends
<1> QED BY <1>2, <1>3 DEF OnList

LEMMA TupleStays ==
  ASSUME Inv, Visiting, ~Done, VisitExprTuple
  PROVE  Stays
<1> DEFINE m == Entry(SetProvisional(SetProvisional(mem, Sentinel_("Tuple")),
                                     Tuple_([j \in DOMAIN Kids |-> Unknown_])))
<1>1. mem.raised = OK /\ KindOf(This) # "PatternVar" /\ ~IsFunction(This) /\ Same(mem)
  BY VisitedKind, TopSettled DEF VisitData, Visiting
<1>2. Same(m)
  BY <1>1, OperationsSame
<1> HIDE DEF m
<1>3. ASSUME NEW i \in Positions, At("Tuple", i - 1),
             NEW t, Visit(m, Kid(i)) \/ Visit(Expect(m, Kid(i), t), Kid(i))
      PROVE  Stays
  BY <1>2, <1>3, AnyReads, OperationsSame DEF Reads
<1>4. CASE \E t : ReturnFrom(m, t)
  BY <1>1, <1>2, <1>4, Ends
<1> QED BY <1>3, <1>4 DEF VisitExprTuple, m

LEMMA RecordStays ==
  ASSUME Inv, Visiting, ~Done, VisitExprRecord
  PROVE  Stays
<1> DEFINE ls == Node(This).labs
           shape == Record_(ls, [i \in DOMAIN ls |-> Unknown_])
           m0 == SetProvisional(mem, Sentinel_("Record"))
           m1 == IF Repeated(ls) THEN Raise(m0, "ERROR_DUPLICATE_RECORD_FIELDS")
                 ELSE IF ~Concrete("Record") THEN m0
                 ELSE Emit(Raise(m0, Incompatible(shape, Expected)),
                           shape, Nowhere, Expected, Slot("expected", This))
           m == Entry(m1)
<1>1. mem.raised = OK /\ KindOf(This) # "PatternVar" /\ ~IsFunction(This) /\ Same(mem)
  BY VisitedKind, TopSettled DEF VisitData, Visiting
<1>2. Same(m)
  <2>1. Same(m0)
    BY <1>1, OperationsSame
  <2> HIDE DEF m0
  <2>2. Same(m1)
    BY <2>1, OperationsSame
  <2> HIDE DEF m1
  <2> QED BY <1>1, <2>2, OperationsSame
<1> HIDE DEF m
<1>3. ASSUME NEW i \in Positions, At("Record", i - 1),
             NEW t, Visit(m, Kid(i)) \/ Visit(Expect(m, Kid(i), t), Kid(i))
      PROVE  Stays
  BY <1>2, <1>3, AnyReads, OperationsSame DEF Reads
<1>4. CASE \E t : ReturnFrom(m, t)
  BY <1>1, <1>2, <1>4, Ends
<1> QED BY <1>3, <1>4 DEF VisitExprRecord, m

LEMMA InjectStays ==
  ASSUME Inv, Visiting, ~Done, mem.raised = OK, KindOf(This) # "PatternVar", ~IsFunction(This),
         NEW kind \in {"Inl", "Inr"}, NEW side, Inject(kind, side)
  PROVE  Stays
<1> DEFINE m0 == SetProvisional(mem, Sentinel_("Sum"))
           m == IF Concrete("Sum") THEN Expect(m0, Kid(1), Expected.args[side]) ELSE m0
<1>1. Same(mem)
  BY TopSettled DEF Visiting
<1>2. CASE At(kind, 0) /\ Visit(m, Kid(1))
  <2>1. Same(m0)
    BY <1>1, OperationsSame
  <2> HIDE DEF m0
  <2>2. Same(m)
    BY <2>1, OperationsSame
  <2> HIDE DEF m
  <2> QED BY <1>2, <2>2, UnaryReads DEF Reads
<1>3. CASE \E t, code : Return(t) \/ AmbiguousFrom(mem, t, code)
  BY <1>1, <1>3, Ends
<1> QED BY <1>2, <1>3 DEF Inject

LEMMA VariantStays ==
  ASSUME Inv, Visiting, ~Done, VisitExprVariant
  PROVE  Stays
<1> DEFINE known == Concrete("Variant")
           i == IF known THEN FieldAt(Expected.lab, Lab) ELSE 0
           m == Entry(Raise(SetProvisional(mem, Sentinel_("Variant")),
                            IF known /\ i = 0 THEN VARIANT_LABEL ELSE OK))
<1>1. mem.raised = OK /\ KindOf(This) # "PatternVar" /\ ~IsFunction(This) /\ Same(mem)
  BY VisitedKind, TopSettled DEF VisitData, Visiting
<1>2. Same(m)
  BY <1>1, OperationsSame
<1> HIDE DEF m
<1>3. ASSUME At("Variant", 0), Kids # <<>>,
             NEW t, Visit(m, Kid(1)) \/ Visit(Expect(m, Kid(1), t), Kid(1))
      PROVE  Stays
  <2>1. Kids \in Seq(Ids)
    BY TopTyped, Nodes DEF Kids
  <2>2. 1 \in Positions /\ 1 - 1 = 0
    BY <1>3, <2>1 DEF Positions
  <2>3. Reads(1)
    BY <1>3, <2>2, AnyReads
  <2> QED BY <1>2, <1>3, <2>3, OperationsSame DEF Reads
<1>4. CASE \E t, code : ReturnFrom(m, t) \/ AmbiguousFrom(m, t, code)
  BY <1>1, <1>2, <1>4, Ends
<1> QED BY <1>3, <1>4 DEF VisitExprVariant, m

(* A cast pattern gives its variable the type of the cast, which is all    *)
(* that an arm of the match gives it too.                                  *)
LEMMA PatternCastStays ==
  ASSUME Inv, Visiting, ~Done, VisitPatternCastAs
  PROVE  Stays
<1> DEFINE t == TypeArg
           m == CheckType(mem, t)
           k == Kid(1)
           r == IF IsVar(k) THEN SetDeduced(m, k, t) ELSE m
           s == SetDeduced(r, This, t)
<1>1. /\ mem.raised = OK /\ KindOf(This) = "PatternCastAs" /\ KindOf(This) \notin Binders
      /\ KindOf(This) # "PatternVar" /\ ~IsFunction(This) /\ Same(mem)
  BY TopSettled DEF VisitPatternCastAs, At, KindOf, IsFunction, FunctionKinds, Binders, Visiting
<1>2. SUFFICES ASSUME NEW B \in SUBSET Ids, Settled(B, mem.deduced, frames)
               PROVE  StaysFrom(B)
  BY <1>1, StaysIf
<1>3. /\ This \in Ids /\ prog \in Programs /\ Top.pc \in Nat /\ mem.deduced[This] = Absent
      /\ DOMAIN Kids = 1..Len(Kids) /\ Kids = KidsOf(This)
      /\ Recast(mem.deduced) /\ Resolvable(B, Top.guards)
  BY <1>1, <1>2, TopSettled
<1>4. /\ Len(Kids) = 1 /\ 1 \in DOMAIN Kids /\ k \in Ids /\ ~IsFunction(k) /\ k # This
      /\ k = KidsOf(This)[1]
  <2>1. Len(Kids) = 1 /\ Child(Kids[1])
    BY <1>1, <1>3, Nodes, Arities DEF Kids, KindOf
  <2>2. 1 \in DOMAIN Kids
    BY <1>3, <2>1
  <2> QED BY <1>3, <2>1, <2>2, ProgramTree DEF Child, Kid
<1>5. Finish(s) /\ IsStorage(mem) /\ DOMAIN mem.deduced = Ids
  BY <1>1 DEF VisitPatternCastAs, ReturnFrom, Same, SameAs, IsStorage
<1>6. Same(m)
  BY <1>1, OperationsSame
<1> DEFINE N == {n \in {k} : IsVar(k)}
<1>7. /\ N \subseteq Ids /\ \A n \in N : n = k /\ IsVar(k) /\ ~IsFunction(n)
      /\ IsVar(k) => k \in N
  BY <1>4
<1> HIDE DEF t, k, N, m
<1>8. /\ IsStorage(r) /\ \A n \in Ids : r.deduced[n] # mem.deduced[n] => n \in N /\ r.deduced[n] = t
  <2>1. CASE IsVar(k)
    <3> DEFINE x == SetDeduced(m, k, t)
    <3>1. r = x /\ IsStorage(m) /\ m.deduced = mem.deduced
      BY <1>6, <2>1 DEF Same, SameAs
    <3>2. IsStorage(m)
      BY <3>1
    <3>3. /\ IsStorage(x)
          /\ x.raised = OK => x.deduced = [m.deduced EXCEPT ![k] = t]
          /\ x.raised # OK => x.deduced = m.deduced
      BY <3>2, SetDeducedFields
    <3> HIDE DEF x
    <3> QED BY <1>5, <1>7, <2>1, <3>1, <3>3
  <2>2. CASE ~IsVar(k)
    BY <1>6, <2>2 DEF Same, SameAs
  <2> QED BY <2>1, <2>2
<1> HIDE DEF r
<1>9. /\ IsStorage(s)
      /\ s.raised = OK => s.deduced = [r.deduced EXCEPT ![This] = t]
      /\ s.raised # OK => s.deduced = r.deduced
  <2>1. IsStorage(r)
    BY <1>8
  <2> QED BY <2>1, SetDeducedFields
<1> HIDE DEF s
<1>10. DOMAIN r.deduced = Ids
  BY <1>8 DEF IsStorage
<1>11. mem' = s /\ prog' = prog /\ (s.raised = OK => Leave)
  BY <1>5 DEF Finish
<1>12. \A n \in N : n = k /\ mem.deduced[k] \in {Absent, t}
  <2>1. IsVar(k) => KindOf(KidsOf(This)[1]) = "PatternVar"
    BY <1>4 DEF IsVar, KindOf
  <2> QED BY <1>1, <1>3, <1>4, <1>7, <2>1 DEF Recast, t, TypeArg
<1>13. Final(s)
  <2>1. \A n \in Ids : n # This => s.deduced[n] = r.deduced[n]
    BY <1>9, <1>10
  <2>2. \A n \in Ids : n # This => mem.deduced[n] = Absent \/ s.deduced[n] = mem.deduced[n]
    BY <1>8, <1>12, <2>1
  <2> QED BY <1>3, <2>2 DEF Final
<1>14. ASSUME s.raised = OK PROVE Outgrows(B, B \cup N)
  <2>1. /\ IsSequence(frames) /\ Len(frames) # 0 /\ Top = frames[Len(frames)]
        /\ This = frames[Len(frames)].node
    BY TopFrame DEF Inv, Mirror, This, Top
  <2>2. \A pc : Passed(This, pc) = 1
    BY <1>1, <1>3, <1>4, PassedValues DEF Flat
  <2>3. Recast(r.deduced)
    <3> SUFFICES ASSUME NEW n \in Ids, KindOf(n) = "PatternCastAs", KindOf(KidsOf(n)[1]) = "PatternVar"
                 PROVE  r.deduced[KidsOf(n)[1]] \in {Absent, Node(n).types[1]}
      BY DEF Recast
    <3>1. 1 \in DOMAIN KidsOf(n) /\ KidsOf(n)[1] \in Ids
      <4>1. Len(KidsOf(n)) = 1
        BY <1>3, Nodes, Arities DEF KindOf, KidsOf
      <4> QED BY <1>3, <4>1, ProgramTree
    <3>2. CASE n = This
      BY <1>3, <1>4, <1>8, <3>1, <3>2 DEF Recast, t, TypeArg
    <3>3. CASE n # This
      <4>1. KidsOf(n)[1] # k
        BY <1>3, <1>4, <3>1, <3>3, ProgramTree
      <4> QED BY <1>3, <1>7, <1>8, <3>1, <4>1 DEF Recast
    <3> QED BY <3>2, <3>3
  <2>4. Resolvable(B \cup N, Top.guards)
    BY <1>3 DEF Resolvable, Bindable
  <2>5. \A n \in N : Beneath(This, 1, N, n)
    BY <1>3, <1>4, <1>7 DEF Beneath
  <2>6. Settled(B \cup N, r.deduced, frames)
    <3>1. Passed(This, Top.pc) = 1
      BY <2>2
    <3>2. Grows(B, mem.deduced, frames, Top, frames, N, r.deduced)
      BY <1>1, <1>2, <1>3, <1>7, <1>8, <2>1, <2>3, <2>4, <2>5, <3>1 DEF Grows
    <3> QED BY <3>2, Grow
  <2>7. /\ IsSequence(frames') /\ Len(frames') = Len(frames) - 1
        /\ \A i \in 1..(Len(frames) - 1) : frames'[i] = frames[i]
    BY <1>11, <1>14, LeaveStack
  <2>8. \A n \in Ids : n # This => s.deduced[n] = r.deduced[n]
    BY <1>9, <1>10, <1>14
  <2>9. Pops(B \cup N, r.deduced, frames, frames', s.deduced)
    BY <1>1, <1>3, <2>1, <2>6, <2>7, <2>8 DEF Pops
  <2>10. Settled(B \cup N, s.deduced, frames')
    BY <2>9, Pop
  <2>11. DOMAIN frames' \ DOMAIN frames = {}
    BY <2>1, <2>7, Shortened
  <2> QED BY <1>11, <2>10, <2>11 DEF Outgrows
<1>15. B \cup N \in SUBSET Ids
  BY <1>7
<1> QED BY <1>11, <1>13, <1>14, <1>15 DEF StaysFrom

(* The visitors of effects.                                                *)
LEMMA BoundStays ==
  ASSUME Inv, Visiting, NEW kind \in {"TryCatch", "TryCastAs"}, At(kind, 1),
         NEW m, NEW d, SameAs(m, d), \A n \in Ids : n # Kid(2) => d[n] = mem.deduced[n],
         VisitWith(m, Bound, Kid(3))
  PROVE  Stays
<1> DEFINE g == IF VarPattern THEN Guard(NameOf(Kid(2)), Kid(2)) ELSE NoGuards
           f == [Top EXCEPT !.guards = g]
<1>1. Child(Kid(2)) /\ kind \in Patterned
  BY Ternary, Quaternary DEF Patterned
<1>2. g \in Scopes
  BY <1>1, GuardsTyped DEF Child
<1>3. g = NoGuards \/ (KindOf(Kid(2)) \in Binders /\ \E x : g = Guard(x, Kid(2)))
  BY DEF VarPattern, KindOf, Binders
<1>4. VisitWith(m, f, Kid(3))
  BY DEF Bound
<1>5. IsStorage(m) /\ \A n \in Ids : n # Kid(2) => m.deduced[n] = mem.deduced[n]
  BY DEF SameAs
<1> HIDE DEF g
<1> QED BY <1>1, <1>2, <1>3, <1>4, <1>5, PatternStays

LEMMA TryCatchStays ==
  ASSUME Inv, Visiting, ~Done, VisitExprTryCatch
  PROVE  Stays
<1>1. /\ mem.raised = OK /\ KindOf(This) # "PatternVar" /\ ~IsFunction(This) /\ Same(mem)
      /\ "TryCatch" \in Patterned
  BY VisitedKind, TopSettled DEF VisitEffect, Visiting, Patterned
<1>2. CASE At("TryCatch", 0)
  <2>1. Throw(NOT_DECLARED) \/ Visit(Propagate(mem, Kid(1)), Kid(1))
    BY <1>2 DEF VisitExprTryCatch, At
  <2>2. Reads(1)
    BY <1>1, <1>2, FirstReads
  <2> QED BY <1>1, <2>1, <2>2, OperationsSame, Ends DEF Reads
<1>3. CASE At("TryCatch", 1)
  <2> DEFINE m0 == Raise(mem, BadPatternUnless(VarPattern))
             m1 == SetDeduced(m0, Kid(2), exn.type)
             m2 == Expect(m1, Kid(3), Deduced(Kid(1)))
  <2>1. VisitWith(m2, Bound, Kid(3))
    BY <1>3 DEF VisitExprTryCatch, At
  <2>2. Same(m0)
    BY <1>1, OperationsSame
  <2> HIDE DEF m0
  <2>3. PICK d : SameAs(m1, d) /\ \A n \in Ids : n # Kid(2) => d[n] = mem.deduced[n]
    BY <2>2, SetDeducedElsewhere
  <2> HIDE DEF m1
  <2>4. SameAs(m2, d)
    BY <2>3, OperationsSameAs
  <2> HIDE DEF m2
  <2> QED BY <1>3, <2>1, <2>3, <2>4, BoundStays
<1>4. CASE \E t : Return(t)
  BY <1>1, <1>4, Ends
<1> QED BY <1>2, <1>3, <1>4 DEF VisitExprTryCatch

LEMMA TryCastAsStays ==
  ASSUME Inv, Visiting, ~Done, VisitExprTryCastAs
  PROVE  Stays
<1>1. /\ mem.raised = OK /\ KindOf(This) # "PatternVar" /\ ~IsFunction(This) /\ Same(mem)
      /\ "TryCastAs" \in Patterned
  BY VisitedKind, TopSettled DEF VisitEffect, Visiting, Patterned
<1>2. CASE At("TryCastAs", 0) /\ Visit(CheckType(mem, TypeArg), Kid(1))
  <2>1. Reads(1)
    BY <1>1, <1>2, FirstReads
  <2> QED BY <1>1, <1>2, <2>1, OperationsSame DEF Reads
<1>3. CASE At("TryCastAs", 1)
  <2> DEFINE m0 == Raise(mem, BadPatternUnless(VarPattern))
             m1 == Propagate(m0, Kid(3))
             m2 == Propagate(m1, Kid(4))
             m3 == SetDeduced(m2, Kid(2), TypeArg)
  <2>1. VisitWith(m3, Bound, Kid(3))
    BY <1>3 DEF VisitExprTryCastAs, At
  <2>2. Same(m0)
    BY <1>1, OperationsSame
  <2> HIDE DEF m0
  <2>3. Same(m1)
    BY <2>2, OperationsSame
  <2> HIDE DEF m1
  <2>4. Same(m2)
    BY <2>3, OperationsSame
  <2> HIDE DEF m2
  <2>5. PICK d : SameAs(m3, d) /\ \A n \in Ids : n # Kid(2) => d[n] = mem.deduced[n]
    BY <2>4, SetDeducedElsewhere
  <2> HIDE DEF m3
  <2> QED BY <1>3, <2>1, <2>5, BoundStays
<1>4. CASE At("TryCastAs", 2)
  <2> DEFINE m == Expect(mem, Kid(4), Deduced(Kid(3)))
             f == [Top EXCEPT !.guards = NoGuards]
             N == {}
  <2>1. VisitWith(m, f, Kid(4))
    BY <1>4 DEF VisitExprTryCastAs, At
  <2>2. Same(m)
    BY <1>1, OperationsSame
  <2>3. Steps(This) = 4 /\ Len(Kids) = 4 /\ Child(Kid(4)) /\ Top.pc = 2 /\ KindOf(This) = "TryCastAs"
    BY <1>4, Quaternary, Members, Arities DEF At, KindOf
  <2>4. 4 \in DOMAIN Kids /\ Kids = KidsOf(This) /\ KindOf(This) \notin Binders
    <3>1. DOMAIN Kids = 1..Len(Kids) /\ Kids = KidsOf(This)
      BY <1>1, TopSettled DEF Visiting
    <3> QED BY <2>3, <3>1 DEF Binders
  <2>5. Calls(f, Kid(4)) /\ f.base = Top.base /\ f.pc = Top.pc /\ f.guards = NoGuards
    <3>1. Calls(f, Kid(4))
      BY <2>3, CallFrames, GuardsTyped DEF Child
    <3>2. TypedFrame(Top)
      BY TopTyped
    <3> QED BY <3>1, <3>2 DEF TypedFrame, IsFrame
  <2>6. Passed(This, Top.pc) = 3 /\ Passed(This, Top.pc + 1) = 4
    BY <1>1, <2>3, PassedValues
  <2>7. N \subseteq Ids /\ \A n : n \notin N
    OBVIOUS
  <2>8. \A B \in SUBSET Ids : Resolvable(B \cup N, NoGuards)
    BY GuardsResolvable
  <2> HIDE DEF m, f, N
  <2>9. \E j \in DOMAIN KidsOf(This) :
          /\ KidsOf(This)[j] = Kid(4) /\ Kid(4) \notin N
          /\ Passed(This, Top.pc) \in Nat /\ Passed(This, Top.pc) < j
          /\ Passed(This, Top.pc + 1) \in Nat /\ j <= Passed(This, Top.pc + 1)
    BY <2>4, <2>6, <2>7 DEF Kid
  <2>10. GoesOn(m, f, Kid(4), N)
    BY <2>1, <2>2, <2>5, <2>7, <2>8, <2>9 DEF GoesOn
  <2> QED BY <1>1, <2>4, <2>10, SameStays
<1>5. CASE \E t : Return(t)
  BY <1>1, <1>5, Ends
<1> QED BY <1>2, <1>3, <1>4, <1>5 DEF VisitExprTryCastAs

LEMMA EffectStays ==
  ASSUME Inv, Visiting, ~Done, VisitEffect
  PROVE  Stays
<1>1. mem.raised = OK /\ KindOf(This) # "PatternVar" /\ ~IsFunction(This) /\ Same(mem)
  BY VisitedKind, TopSettled DEF Visiting
<1> USE <1>1, Ends
<1>2. CASE VisitExprPanic
  BY <1>2 DEF VisitExprPanic, Diverge
<1>3. CASE VisitDeclExceptionType \/ VisitDeclExceptionVariant
  <2>1. PICK error, e : Declare(error, e)
    BY <1>3 DEF VisitDeclExceptionType, VisitDeclExceptionVariant
  <2>2. Same(Raise(mem, error))
    BY OperationsSame
  <2> QED BY <2>1, <2>2, Finishing DEF Declare
<1>4. CASE VisitExprThrow
  BY <1>4, UnaryReads, OperationsSame DEF VisitExprThrow, Diverge, Reads
<1>5. CASE VisitExprTryWith
  BY <1>5, BinaryReads, OperationsSame DEF VisitExprTryWith, Reads
<1>6. CASE VisitExprTryCatch \/ VisitExprTryCastAs
  BY <1>6, TryCatchStays, TryCastAsStays
<1>7. CASE VisitExprTypeCast
  BY <1>7, UnaryReads, OperationsSame DEF VisitExprTypeCast, Reads
<1>8. CASE VisitExprRef
  BY <1>8, UnaryReads, OperationsSame DEF VisitExprRef, Reads
<1>9. CASE VisitExprDeref
  BY <1>9, UnaryReads, OperationsSame DEF VisitExprDeref, Reads
<1>10. CASE VisitExprAssign
  BY <1>10, BinaryReads, OperationsSame DEF VisitExprAssign, Reads
<1>11. CASE VisitExprConstMemory
  BY <1>11 DEF VisitExprConstMemory
<1> QED BY <1>2, <1>3, <1>4, <1>5, <1>6, <1>7, <1>8, <1>9, <1>10, <1>11 DEF VisitEffect

(* Match.                                                                  *)
LEMMA Bindings ==
  ASSUME prog \in Programs, NEW k \in Arms, Child(Pattern(k)), Binding(Pattern(k)).var # 0
  PROVE  LET p == Pattern(k)
             b == Binding(p) IN
         /\ b.var \in Ids /\ KindOf(b.var) = "PatternVar"
         /\ \/ b.var = p /\ Mode # "cast"
            \/ /\ 1 \in DOMAIN KidsOf(p) /\ b.var = KidsOf(p)[1]
               /\ IF Mode = "cast" THEN KindOf(p) = "PatternCastAs" /\ b.type = Node(p).types[1]
                  ELSE KindOf(p) # "PatternCastAs"
<1> DEFINE p == Pattern(k)
           t == Deduced(Kid(1))
           b == Binding(p)
<1>1. p \in Ids /\ b.var # 0
  BY DEF Child
<1>2. \A v, u : Binds(v, u).var = v /\ Binds(v, u).type = u
  BY DEF Binds
<1>3. BindsNothing.var = 0 /\ BadPattern.var = 0
      /\ [BindsNothing EXCEPT !.error = UNDEFINED_BEHAVIOUR].var = 0
  BY DEF BindsNothing, Binds, BadPattern
<1>4. Mode \in {"cast", "variant", "sum", "other"}
  BY DEF Mode
<1>5. ASSUME NEW j, j \in {"PatternCastAs", "PatternInl", "PatternInr"}, KindOf(p) = j
      PROVE  Node(p).kids # <<>>
  <2>1. /\ Len(Node(p).kids) = 1 /\ DOMAIN Node(p).kids = 1..Len(Node(p).kids)
    BY <1>1, <1>5, Nodes, Arities DEF KindOf
  <2>2. 1 \in DOMAIN Node(p).kids
    BY <2>1
  <2>3. DOMAIN <<>> = {}
    OBVIOUS
  <2> QED BY <2>2, <2>3
<1>6. Node(p).kids # <<>> => 1 \in DOMAIN KidsOf(p) /\ Inner(p) = KidsOf(p)[1] /\ Inner(p) \in Ids
  <2>1. Node(p).kids \in Seq(Ids)
    BY <1>1, Nodes
  <2> QED BY <2>1 DEF KidsOf, Inner
<1>7. CASE Mode = "cast"
  <2>1. KindOf(p) = "PatternCastAs"
    BY <1>7 DEF Mode, AllAre, KindOf
  <2>2. b = CastBinding(p)
    BY <1>7 DEF Binding
  <2> HIDE DEF p, b
  <2>3. IsVar(Inner(p)) /\ b.var = Inner(p) /\ b.type = Node(p).types[1]
    BY <1>1, <1>2, <1>3, <2>2 DEF CastBinding
  <2>4. KindOf(Inner(p)) = "PatternVar"
    BY <2>3 DEF IsVar, KindOf
  <2> QED BY <1>5, <1>6, <1>7, <2>1, <2>3, <2>4 DEF p, b
<1>8. CASE Mode = "variant"
  <2>1. b = VariantBinding(p, t)
    BY <1>8 DEF Binding
  <2> HIDE DEF p, b, t
  <2>2. /\ Node(p).kind = "PatternVariant" /\ Node(p).kids # <<>>
        /\ IsVar(Inner(p)) /\ b.var = Inner(p)
    BY <1>1, <1>2, <1>3, <2>1 DEF VariantBinding, BindVar
  <2>3. KindOf(Inner(p)) = "PatternVar" /\ KindOf(p) # "PatternCastAs"
    BY <2>2 DEF IsVar, KindOf
  <2> QED BY <1>6, <1>8, <2>2, <2>3 DEF p, b
<1>9. CASE Mode = "sum"
  <2>1. b = SumBinding(p, t)
    BY <1>9 DEF Binding
  <2> HIDE DEF p, b, t
  <2>2. /\ Node(p).kind \in {"PatternInl", "PatternInr"}
        /\ IsVar(Inner(p)) /\ b.var = Inner(p)
    BY <1>1, <1>2, <1>3, <2>1 DEF SumBinding, BindVar
  <2>3. KindOf(Inner(p)) = "PatternVar" /\ KindOf(p) # "PatternCastAs" /\ Node(p).kids # <<>>
    BY <1>5, <2>2 DEF IsVar, KindOf
  <2> QED BY <1>6, <1>9, <2>2, <2>3 DEF p, b
<1>10. CASE Mode = "other"
  <2>1. b = IF AllAre("PatternVar") THEN Binds(p, t) ELSE BadPattern
    BY <1>10 DEF Binding
  <2>2. AllAre("PatternVar") /\ b.var = p
    BY <1>1, <1>2, <1>3, <2>1
  <2>3. KindOf(p) = "PatternVar"
    BY <2>2 DEF AllAre, KindOf
  <2> QED BY <1>1, <1>10, <2>2, <2>3
<1> QED BY <1>4, <1>7, <1>8, <1>9, <1>10

LEMMA ArmsOf ==
  ASSUME Inv, NEW k \in Positions, At("Match", k), k <= ArmCount
  PROVE  /\ mem.raised = OK /\ KindOf(This) = "Match" /\ KindOf(This) \notin Binders /\ ~IsFunction(This)
         /\ KindOf(This) # "PatternVar"
         /\ Kids = KidsOf(This) /\ k \in Nat /\ k > 0
         /\ 2 * k \in DOMAIN Kids /\ 2 * k + 1 \in DOMAIN Kids
         /\ Passed(This, k) = IF Mode = "cast" THEN 2 * k ELSE 2 * k - 1
         /\ Passed(This, k + 1) = IF Mode = "cast" THEN 2 * k + 2 ELSE 2 * k + 1
<1>1. mem.raised = OK /\ KindOf(This) = "Match"
  BY DEF At, KindOf
<1>2. KindOf(This) \notin Binders /\ ~IsFunction(This) /\ KindOf(This) # "PatternVar"
  BY <1>1 DEF Binders, IsFunction, FunctionKinds, KindOf
<1>3. /\ ~Done /\ k \in Nat /\ k > 0 /\ Len(Kids) \in Nat /\ DOMAIN Kids = 1..Len(Kids) /\ Kids = KidsOf(This)
  BY Arm, AnyMembers DEF Kids, KidsOf
<1> DEFINE l == Len(Kids)
<1>4. l \in Nat /\ k <= (l - 1) \div 2
  BY <1>3 DEF ArmCount
<1>5. 2 * k \in DOMAIN Kids /\ 2 * k + 1 \in DOMAIN Kids
  <2> HIDE DEF l
  <2>1. 2 * k \in 1..l /\ 2 * k + 1 \in 1..l
    BY <1>3, <1>4
  <2> QED BY <1>3, <2>1 DEF l
<1>6. CastsOnly(This) <=> Mode = "cast"
  <2>1. CastsOnly(This) <=> AllAre("PatternCastAs")
    BY <1>3 DEF CastsOnly, AllAre, Arms, ArmCount, Pattern, Kid, KindOf
  <2>2. Mode = "cast" <=> AllAre("PatternCastAs")
    BY DEF Mode
  <2> QED BY <2>1, <2>2
<1>7. /\ Passed(This, k) = IF Mode = "cast" THEN 2 * k ELSE 2 * k - 1
      /\ Passed(This, k + 1) = IF Mode = "cast" THEN 2 * k + 2 ELSE 2 * k + 1
  <2>1. k # 0 /\ k + 1 # 0 /\ 2 * (k + 1) = 2 * k + 2 /\ 2 * (k + 1) - 1 = 2 * k + 1
    BY <1>3
  <2> QED BY <1>1, <1>6, <2>1, PassedValues
<1> QED BY <1>1, <1>2, <1>3, <1>5, <1>7

(* A cast pattern is visited with the frame of the arm before.             *)
LEMMA PatternVisitStays ==
  ASSUME Inv, Visiting, NEW k \in Positions, At("Match", k), k <= ArmCount, Mode = "cast",
         VisitWith(mem, [Top EXCEPT !.guards = NoGuards, !.pc = k - 1], Pattern(k))
  PROVE  Stays
<1> DEFINE h == [Top EXCEPT !.guards = NoGuards]
           f == [h EXCEPT !.pc = k - 1]
           p == Pattern(k)
           q == 2 * k
           N == {}
<1>1. /\ ~Done /\ Sound(mem) /\ k \in Arms /\ k < Steps(This)
      /\ Child(p) /\ TypedFrame(Top) /\ prog \in Programs /\ Steps(This) \in Nat /\ Top.pc = k
  BY Arm, TopTyped
<1>2. /\ mem.raised = OK /\ KindOf(This) \notin Binders /\ ~IsFunction(This)
      /\ Kids = KidsOf(This) /\ k \in Nat /\ k > 0 /\ q \in DOMAIN Kids /\ Passed(This, k) = q
  BY ArmsOf
<1>3. SUFFICES ASSUME NEW B \in SUBSET Ids, Settled(B, mem.deduced, frames)
               PROVE  StaysFrom(B)
  BY <1>2, StaysIf
<1>4. TypedFrame(h) /\ h.node = Top.node /\ h.base = Top.base /\ h.guards = NoGuards
  <2>1. h.base = Top.base /\ h.guards = NoGuards
    BY <1>1 DEF TypedFrame, IsFrame
  <2> QED BY <1>1, <2>1, GuardsTyped, FramesTyped
<1>5. [Top EXCEPT !.guards = NoGuards, !.pc = k - 1] = f
  OBVIOUS
<1> HIDE DEF h
<1>6. k - 1 \in 0..Steps(h.node)
  BY <1>1, <1>2, <1>4 DEF This
<1>7. TypedFrame(f) /\ f.node = h.node /\ f.pc = k - 1 /\ f.base = h.base /\ f.guards = h.guards
  <2>1. f.base = h.base /\ f.guards = h.guards
    BY <1>4 DEF TypedFrame, IsFrame
  <2> QED BY <1>4, <1>6, <2>1, FramesTyped
<1> HIDE DEF f
<1>8. Calls(f, p)
  BY <1>1, <1>2, <1>4, <1>7 DEF Calls, This, Child
<1>9. Call(mem, f, p)
  BY <1>5 DEF VisitWith
<1>10. KindOf(p) \in Flat /\ p = KidsOf(This)[q]
  BY <1>1, <1>2 DEF Mode, AllAre, KindOf, Flat, Pattern, Kid
<1>11. q \in Nat /\ f.pc + 1 = k /\ q <= q
  BY <1>2, <1>7
<1>12. N \subseteq Ids /\ (\A n : n \notin N) /\ B \cup N = B
  OBVIOUS
<1>13. Resolvable(B \cup N, f.guards) /\ Recast(mem.deduced)
  BY <1>1, <1>3, <1>4, <1>7, GuardsResolvable, TopSettled
<1> HIDE DEF p, q, N
<1>14. \E j \in DOMAIN KidsOf(This) :
         /\ KidsOf(This)[j] = p /\ j <= q
         /\ p \notin B \cup N \/ RootFunction(p) \/ KindOf(p) \in Flat
  BY <1>2, <1>10, <1>11
<1>15. \E C \in SUBSET Ids : Outgrows(B, C)
  BY <1>1, <1>2, <1>3, <1>4, <1>7, <1>8, <1>9, <1>11, <1>12, <1>13, <1>14, Calling
<1>16. mem' = mem /\ prog' = prog
  BY <1>9 DEF Call
<1> QED BY <1>15, <1>16 DEF StaysFrom, Final

LEMMA Apart ==
  ASSUME prog \in Programs, NEW n \in Ids, NEW i \in DOMAIN KidsOf(n)
  PROVE  /\ KidsOf(n)[i] \in Ids /\ KidsOf(n)[i] # n
         /\ \A j \in DOMAIN KidsOf(n) : KidsOf(n)[j] = KidsOf(n)[i] => i = j
         /\ \A m \in Ids : \A j \in DOMAIN KidsOf(m) : KidsOf(m)[j] = KidsOf(n)[i] => m = n
<1>1. n < KidsOf(n)[i] /\ n \in Nat /\ KidsOf(n)[i] \in Ids /\ KidsOf(n)[i] \in Nat
  BY ProgramTree
<1>2. KidsOf(n)[i] # n
  BY <1>1
<1> QED BY <1>1, <1>2, ProgramTree

(* An arm gives its variable a type, which no cast pattern changes, and    *)
(* visits its expression.                                                  *)
LEMMA BoundVariable ==
  ASSUME Inv, Visiting, NEW k \in Positions, At("Match", k), k <= ArmCount,
         NEW b, b = Binding(Pattern(k)), b.var # 0
  PROVE  /\ b.var \in Ids /\ KindOf(b.var) = "PatternVar" /\ ~IsFunction(b.var) /\ b.var # ArmExpr(k)
         /\ b.var = Pattern(k) \/ \E i \in DOMAIN KidsOf(Pattern(k)) : KidsOf(Pattern(k))[i] = b.var
         /\ mem.deduced[b.var] \in {Absent, b.type}
         /\ \A n \in Ids : KindOf(n) = "PatternCastAs" /\ KidsOf(n)[1] = b.var => Node(n).types[1] = b.type
<1> DEFINE p == Pattern(k)
<1>1. /\ ~Done /\ k \in Arms /\ Child(p) /\ Child(ArmExpr(k)) /\ prog \in Programs /\ Top.pc = k
      /\ This \in Ids
  BY Arm, TopTyped
<1>2. /\ mem.raised = OK /\ Kids = KidsOf(This) /\ k \in Nat /\ k > 0
      /\ 2 * k \in DOMAIN Kids /\ 2 * k + 1 \in DOMAIN Kids
      /\ Mode # "cast" => Passed(This, k) = 2 * k - 1
      /\ KindOf(This) = "Match"
  BY ArmsOf
<1>3. PICK B \in SUBSET Ids : Settled(B, mem.deduced, frames)
  BY <1>2 DEF Visiting
<1>4. /\ b.var \in Ids /\ KindOf(b.var) = "PatternVar"
      /\ \/ b.var = p /\ Mode # "cast"
         \/ /\ 1 \in DOMAIN KidsOf(p) /\ b.var = KidsOf(p)[1]
            /\ IF Mode = "cast" THEN KindOf(p) = "PatternCastAs" /\ b.type = Node(p).types[1]
               ELSE KindOf(p) # "PatternCastAs"
  BY <1>1, Bindings
<1>5. ~IsFunction(b.var)
  BY <1>4, Kinds
<1>6. /\ p \in Ids /\ p = KidsOf(This)[2 * k] /\ ArmExpr(k) = KidsOf(This)[2 * k + 1]
      /\ 2 * k \in DOMAIN KidsOf(This) /\ 2 * k + 1 \in DOMAIN KidsOf(This)
  BY <1>1, <1>2 DEF Child, Pattern, ArmExpr, Kid
<1> DEFINE i == 2 * k
           j == 2 * k + 1
<1>7. i # j /\ 2 * k - 1 < i
  BY <1>2
<1>8. /\ i \in DOMAIN Kids /\ i \in DOMAIN KidsOf(This) /\ j \in DOMAIN KidsOf(This)
      /\ p = KidsOf(This)[i] /\ ArmExpr(k) = KidsOf(This)[j] /\ p = Kid(i)
  BY <1>2, <1>6 DEF Pattern
<1> HIDE DEF i, j, p
<1>9. p # This /\ p # ArmExpr(k)
  BY <1>1, <1>7, <1>8, Apart
<1>10. b.var # ArmExpr(k)
  BY <1>1, <1>4, <1>6, <1>8, <1>9, Apart
<1>11. mem.deduced[b.var] \in {Absent, b.type}
  <2>1. CASE Mode = "cast"
    <3>1. Recast(mem.deduced)
      BY <1>1, <1>3, TopSettled
    <3> QED BY <1>4, <1>6, <2>1, <3>1 DEF Recast
  <2>2. CASE Mode # "cast"
    <3>1. Passed(This, Top.pc) < i /\ ~RootFunction(Kid(i))
      BY <1>1, <1>2, <1>7, <1>8, <2>2, Kinds DEF Child, p
    <3>2. /\ mem.deduced[Kid(i)] = Absent
          /\ \A m \in DOMAIN KidsOf(Kid(i)) : mem.deduced[KidsOf(Kid(i))[m]] = Absent
      BY <1>1, <1>3, <1>8, <3>1, Untouched
    <3> QED BY <1>4, <1>8, <3>2
  <2> QED BY <2>1, <2>2
<1>12. ASSUME NEW n \in Ids, KindOf(n) = "PatternCastAs", KidsOf(n)[1] = b.var
       PROVE  Node(n).types[1] = b.type
  <2>1. 1 \in DOMAIN KidsOf(n)
    <3>1. Len(KidsOf(n)) = 1
      BY <1>1, <1>12, Nodes, Arities DEF KindOf, KidsOf
    <3> QED BY <1>1, <3>1, ProgramTree
  <2>2. CASE b.var = p
    <3>1. n = This
      BY <1>1, <1>8, <1>12, <2>1, <2>2, Apart
    <3> QED BY <1>2, <1>12, <3>1
  <2>3. CASE 1 \in DOMAIN KidsOf(p) /\ b.var = KidsOf(p)[1]
    <3>1. n = p
      BY <1>1, <1>6, <1>12, <2>1, <2>3, ProgramTree
    <3>2. b.var # p
      BY <1>1, <1>6, <1>8, <1>9, <2>3, ProgramTree
    <3> QED BY <1>4, <1>12, <3>1, <3>2
  <2> QED BY <1>4, <2>2, <2>3
<1> QED BY <1>4, <1>5, <1>10, <1>11, <1>12 DEF p

LEMMA CastKid ==
  ASSUME prog \in Programs, NEW n \in Ids, KindOf(n) = "PatternCastAs"
  PROVE  1 \in DOMAIN KidsOf(n) /\ KidsOf(n)[1] \in Ids
<1>1. Len(KidsOf(n)) = 1
  BY Nodes, Arities DEF KindOf, KidsOf
<1> QED BY <1>1, ProgramTree

LEMMA MatchArmStays ==
  ASSUME Inv, Visiting, NEW k \in Positions, At("Match", k), k <= ArmCount,
         NEW b, b = Binding(Pattern(k)), VisitMatchArm(k, b)
  PROVE  Stays
<1> DEFINE bound == b.var # 0 /\ b.type # None_
           first == IF k = 1 THEN None_ ELSE FirstType(Deduced(ArmExpr(k - 1)))
           m0 == IF bound THEN SetDeduced(mem, b.var, b.type) ELSE mem
           m1 == IF first = None_ THEN m0 ELSE Expect(m0, ArmExpr(k), first)
           m2 == Propagate(m1, ArmExpr(k))
           g == IF bound THEN Guard(NameOf(b.var), b.var) ELSE NoGuards
           f == [Top EXCEPT !.guards = g, !.result = first]
           p == Pattern(k)
           N == {n \in {p, b.var} : bound}
<1>1. /\ ~Done /\ k \in Arms /\ k < Steps(This) /\ Top.pc = k /\ This \in Ids
      /\ Child(p) /\ Child(ArmExpr(k)) /\ TypedFrame(Top) /\ prog \in Programs
  BY Arm, TopTyped
<1>2. /\ mem.raised = OK /\ KindOf(This) \notin Binders /\ ~IsFunction(This)
      /\ Kids = KidsOf(This) /\ k \in Nat /\ k > 0
      /\ 2 * k \in DOMAIN Kids /\ 2 * k + 1 \in DOMAIN Kids
      /\ Passed(This, k) = IF Mode = "cast" THEN 2 * k ELSE 2 * k - 1
      /\ Passed(This, k + 1) = IF Mode = "cast" THEN 2 * k + 2 ELSE 2 * k + 1
  BY ArmsOf
<1>3. Same(mem) /\ Recast(mem.deduced) /\ DOMAIN mem.deduced = Ids
  <2>1. Same(mem) /\ Recast(mem.deduced)
    BY <1>1, <1>2, TopSettled DEF Visiting
  <2> QED BY <2>1 DEF Same, SameAs, IsStorage
<1>4. b.var # 0 =>
        /\ b.var \in Ids /\ KindOf(b.var) = "PatternVar" /\ ~IsFunction(b.var) /\ b.var # ArmExpr(k)
        /\ b.var = p \/ \E i \in DOMAIN KidsOf(p) : KidsOf(p)[i] = b.var
        /\ mem.deduced[b.var] \in {Absent, b.type}
        /\ \A n \in Ids : KindOf(n) = "PatternCastAs" /\ KidsOf(n)[1] = b.var => Node(n).types[1] = b.type
  BY BoundVariable
<1>5. VisitWith(m2, f, ArmExpr(k))
  BY DEF VisitMatchArm
<1>6. /\ g \in Scopes /\ g = IF bound THEN Guard(NameOf(b.var), b.var) ELSE NoGuards
  BY <1>4, GuardsTyped
<1>7. Calls(f, ArmExpr(k)) /\ f.base = Top.base /\ f.pc = Top.pc /\ f.guards = g
  <2> HIDE DEF g, first
  <2> DEFINE h == [Top EXCEPT !.guards = g]
  <2>1. TypedFrame(h) /\ h.node = Top.node /\ h.pc = Top.pc /\ h.base = Top.base /\ h.guards = g
    <3>1. h.base = Top.base /\ h.guards = g
      BY <1>1 DEF TypedFrame, IsFrame
    <3> QED BY <1>1, <1>6, <3>1, FramesTyped
  <2>2. f = [h EXCEPT !.result = first]
    OBVIOUS
  <2> HIDE DEF h, f
  <2>3. TypedFrame(f) /\ f.node = Top.node /\ f.pc = Top.pc /\ f.base = Top.base /\ f.guards = g
    <3>1. f.base = h.base /\ f.guards = h.guards
      BY <2>1, <2>2 DEF TypedFrame, IsFrame
    <3> QED BY <2>1, <2>2, <3>1, FramesTyped
  <2> QED BY <1>1, <2>3 DEF Calls, This, Child
<1> HIDE DEF g, first, f
<1>8. PICK d : /\ SameAs(m0, d)
               /\ \A n \in Ids : d[n] # mem.deduced[n] => bound /\ n = b.var /\ d[n] = b.type
  <2>1. CASE bound
    <3> DEFINE x == SetDeduced(mem, b.var, b.type)
    <3>1. m0 = x /\ IsStorage(mem)
      BY <1>3, <2>1 DEF Same, SameAs
    <3>2. IsStorage(mem)
      BY <3>1
    <3>3. /\ IsStorage(x)
          /\ x.raised = OK => x.deduced = [mem.deduced EXCEPT ![b.var] = b.type]
          /\ x.raised # OK => x.deduced = mem.deduced
      BY <3>2, SetDeducedFields, SMTT(30)
    <3> HIDE DEF x
    <3>4. \A n \in Ids : x.deduced[n] # mem.deduced[n] => bound /\ n = b.var /\ x.deduced[n] = b.type
      BY <1>3, <1>4, <2>1, <3>3
    <3> QED BY <3>1, <3>3, <3>4 DEF SameAs
  <2>2. CASE ~bound
    BY <1>3, <2>2 DEF Same
  <2> QED BY <2>1, <2>2
<1> HIDE DEF m0
<1>9. SameAs(m1, d)
  BY <1>8, OperationsSameAs
<1> HIDE DEF m1
<1>10. SameAs(m2, d)
  BY <1>9, OperationsSameAs
<1> HIDE DEF m2
<1>11. m2.deduced = d
  BY <1>10 DEF SameAs
<1>12. /\ N \subseteq Ids /\ \A n \in N : ~IsFunction(n)
       /\ bound => p \in N /\ b.var \in N
       /\ ~bound => N = {}
       /\ \A n \in N : bound /\ (n = p \/ n = b.var)
  BY <1>1, <1>4 DEF Child
<1> HIDE DEF N, bound
<1>13. Call(m2, f, ArmExpr(k)) /\ mem' = m2 /\ prog' = prog
  BY <1>5 DEF VisitWith, Call
<1>14. bound => b.var # 0
  BY DEF bound
<1>15. Final(m2)
  BY <1>4, <1>8, <1>11, <1>14 DEF Final
<1>16. Recast(d)
  BY <1>1, <1>3, <1>4, <1>8, <1>14, CastKid DEF Recast
<1>17. \A B \in SUBSET Ids : Settled(B, mem.deduced, frames) => Resolvable(B \cup N, f.guards)
  <2>1. CASE bound
    <3>1. \A B : Bindable(B \cup N, b.var)
      BY <1>4, <1>12, <1>14, <2>1, Kinds DEF Bindable
    <3> QED BY <1>6, <1>7, <2>1, <3>1, GuardsResolvable
  <2>2. CASE ~bound
    BY <1>6, <1>7, <2>2, GuardsResolvable
  <2> QED BY <2>1, <2>2
<1> DEFINE i == 2 * k
           j == 2 * k + 1
           q == Passed(This, k)
           r == Passed(This, k + 1)
<1>18. q \in Nat /\ r \in Nat /\ q < j /\ j <= r /\ i <= r /\ i # j
  BY <1>2
<1>19. i \in DOMAIN KidsOf(This) /\ j \in DOMAIN KidsOf(This) /\ p = KidsOf(This)[i] /\ ArmExpr(k) = KidsOf(This)[j]
  BY <1>2 DEF Pattern, ArmExpr, Kid
<1>20. Passed(This, Top.pc) = q /\ Passed(This, Top.pc + 1) = r
  BY <1>1
<1> HIDE DEF i, j, q, r, p
<1>21. ArmExpr(k) \notin N
  <2>1. p # ArmExpr(k)
    BY <1>1, <1>18, <1>19, ProgramTree
  <2> QED BY <1>4, <1>12, <1>14, <2>1
<1>22. \A n \in N : Beneath(This, r, N, n)
  BY <1>4, <1>12, <1>14, <1>18, <1>19 DEF Beneath
<1>23. Goes(m2, f, ArmExpr(k), N)
  <2>1. \E x \in DOMAIN KidsOf(This) :
          /\ KidsOf(This)[x] = ArmExpr(k) /\ ArmExpr(k) \notin N
          /\ Passed(This, Top.pc) \in Nat /\ Passed(This, Top.pc) < x
          /\ Passed(This, Top.pc + 1) \in Nat /\ x <= Passed(This, Top.pc + 1)
    BY <1>18, <1>19, <1>20, <1>21
  <2>2. \A n \in Ids : m2.deduced[n] # mem.deduced[n] => n \in N
    BY <1>8, <1>11, <1>12
  <2> QED BY <1>2, <1>7, <1>11, <1>12, <1>13, <1>16, <1>17, <1>20, <1>22, <2>1, <2>2 DEF Goes
<1>24. m2.raised = OK => SettlesOn
  BY <1>1, <1>2, <1>23, Onward
<1> QED BY <1>13, <1>15, <1>24 DEF Stays

LEMMA MatchStays ==
  ASSUME Inv, Visiting, ~Done, VisitExprMatch
  PROVE  Stays
<1>1. mem.raised = OK /\ KindOf(This) # "PatternVar" /\ ~IsFunction(This) /\ Same(mem)
  BY VisitedKind, TopSettled DEF VisitData, Visiting
<1>2. CASE At("Match", 0) /\ Visit(mem, Kid(1))
  BY <1>1, <1>2, FirstReads DEF Reads
<1>3. ASSUME NEW k \in Positions, At("Match", k), k <= ArmCount, VisitCase(k)
      PROVE  Stays
  <2>1. \/ \E code : Throw(code)
        \/ Mode = "cast" /\ VisitWith(mem, [Top EXCEPT !.guards = NoGuards, !.pc = k - 1], Pattern(k))
        \/ VisitMatchArm(k, Binding(Pattern(k)))
    BY <1>3, Zenon DEF VisitCase
  <2>2. CASE \E code : Throw(code)
    BY <1>1, <2>2, Ends
  <2>3. CASE Mode = "cast" /\ VisitWith(mem, [Top EXCEPT !.guards = NoGuards, !.pc = k - 1], Pattern(k))
    BY <1>3, <2>3, PatternVisitStays, Zenon
  <2>4. CASE VisitMatchArm(k, Binding(Pattern(k)))
    BY <1>3, <2>4, MatchArmStays
  <2> QED BY <2>1, <2>2, <2>3, <2>4
<1>4. CASE (\E code : Throw(code)) \/ (\E t : Return(t))
  BY <1>1, <1>4, Ends
<1> QED BY <1>2, <1>3, <1>4 DEF VisitExprMatch

LEMMA DataStays ==
  ASSUME Inv, Visiting, ~Done, VisitData
  PROVE  Stays
<1>1. mem.raised = OK /\ KindOf(This) # "PatternVar" /\ ~IsFunction(This) /\ Same(mem)
  BY VisitedKind, TopSettled DEF Visiting
<1> USE <1>1, Ends
<1>2. CASE VisitExprList \/ VisitExprConsList \/ VisitExprTuple \/ VisitExprRecord
           \/ VisitExprVariant \/ VisitExprMatch \/ VisitPatternCastAs
  BY <1>2, ListStays, ConsListStays, TupleStays, RecordStays, VariantStays, MatchStays, PatternCastStays
<1>3. CASE VisitExprHead \/ VisitExprTail
  BY <1>3, OnListStays DEF VisitExprHead, VisitExprTail
<1>4. CASE VisitExprIsEmpty
  BY <1>4, UnaryReads, OperationsSame DEF VisitExprIsEmpty, Reads
<1>5. CASE VisitExprDotTuple
  BY <1>5, UnaryReads, OperationsSame, InferSame DEF VisitExprDotTuple, Reads
<1>6. CASE VisitExprDotRecord
  BY <1>6, UnaryReads, OperationsSame DEF VisitExprDotRecord, Reads
<1>7. CASE VisitExprInl \/ VisitExprInr
  BY <1>7, InjectStays DEF VisitExprInl, VisitExprInr
<1> QED BY <1>2, <1>3, <1>4, <1>5, <1>6, <1>7 DEF VisitData

-----------------------------------------------------------------------------
(* What every step does.                                                   *)
LEMMA StepStays ==
  ASSUME Inv, Visiting, [Next]_vars
  PROVE  Stays
<1>1. CASE Unwind
  BY <1>1 DEF Unwind, Stays, Final
<1>2. CASE Exit \/ UNCHANGED vars
  BY <1>2 DEF Exit, vars, Stays, Final, SettlesOn, Outgrows
<1>3. CASE VisitProgram \/ VisitFunction \/ VisitData \/ VisitEffect
  <2>1. ~Done
    BY <1>3, VisitsHaveFrames
  <2>2. CASE VisitDeclFun \/ VisitDeclFunGeneric
    <3>1. \A kind \in {"DeclFun", "DeclFunGeneric"} : kind \in FunctionKinds
      BY DEF FunctionKinds
    <3> QED BY <2>2, <3>1, DeclareFunctionStays DEF VisitDeclFun, VisitDeclFunGeneric
  <2>3. CASE ~VisitDeclFun /\ ~VisitDeclFunGeneric
    BY <1>3, <2>1, <2>3, ProgramStays, FunctionStays, DataStays, EffectStays
  <2> QED BY <2>2, <2>3
<1> QED BY <1>1, <1>2, <1>3 DEF Next, Step

LEMMA SettledLater ==
  ASSUME prog' = prog, NEW B, Settled(B, mem'.deduced, frames')
  PROVE  Settled(B, mem.deduced, frames)'
<1>1. /\ Ids' = Ids
      /\ \A n : Node(n)' = Node(n) /\ KindOf(n)' = KindOf(n) /\ KidsOf(n)' = KidsOf(n)
      /\ \A n : IsFunction(n)' <=> IsFunction(n)
  BY DEF Ids, Node, KindOf, KidsOf, IsFunction
<1>2. \A n : CastsOnly(n)' <=> CastsOnly(n)
  BY <1>1 DEF CastsOnly
<1>3. \A n, pc : Passed(n, pc)' = Passed(n, pc)
  BY <1>1, <1>2 DEF Passed
<1>4. \A n : RootFunction(n)' <=> RootFunction(n)
  BY <1>1 DEF RootFunction
<1>5. \A n, k : Caller(n, k)' <=> Caller(n, k)
  BY <1>1, <1>4 DEF Caller
<1>6. Begun(B, mem.deduced, frames)'
  BY <1>1, <1>4 DEF Settled, Begun
<1>7. Stacked(frames)' /\ Recast(mem.deduced)'
  BY <1>1, <1>5 DEF Settled, Stacked, Recast
<1>8. \A n : Bindable(B, n)' <=> Bindable(B, n)
  BY <1>1, <1>4 DEF Bindable
<1>9. ASSUME NEW i \in DOMAIN frames'
      PROVE  /\ frames'[i].node \in B /\ Ahead(B, frames[i])' /\ Open(mem.deduced, frames, i)'
             /\ Resolvable(B, frames[i].base)' /\ Resolvable(B, frames[i].guards)'
  <2>1. /\ frames'[i].node \in B /\ Ahead(B, frames'[i]) /\ Open(mem'.deduced, frames', i)
        /\ Resolvable(B, frames'[i].base) /\ Resolvable(B, frames'[i].guards)
    BY DEF Settled
  <2>2. Ahead(B, frames[i])'
    BY <1>1, <1>3, <1>4, <2>1 DEF Ahead
  <2>3. Open(mem.deduced, frames, i)'
    BY <1>1, <2>1 DEF Open
  <2>4. Resolvable(B, frames[i].base)' /\ Resolvable(B, frames[i].guards)'
    BY <1>8, <2>1 DEF Resolvable
  <2> QED BY <2>1, <2>2, <2>3, <2>4
<1> QED BY <1>6, <1>7, <1>9 DEF Settled

LEMMA InitVisiting ==
  ASSUME Init
  PROVE  Visiting
<1> DEFINE f == Frame(1, NoNames)
           B == {1}
<1>1. /\ prog \in Programs /\ frames = <<f>> /\ \A n \in Ids : mem.deduced[n] = Absent
      /\ DOMAIN frames = B /\ Len(frames) = 1 /\ frames[1] = f
  BY DEF Init, Begin, NewStorage
<1>2. /\ 1 \in Ids /\ ~IsFunction(1) /\ KindOf(1) \notin Binders
      /\ \A n \in Ids : \A j \in DOMAIN KidsOf(n) : KidsOf(n)[j] # 1
  <2>1. /\ 1 \in Ids /\ KindOf(1) = "Program"
        /\ \A n \in Ids : n \in Nat /\ n >= 1 /\ \A j \in DOMAIN KidsOf(n) : KidsOf(n)[j] \in Ids /\ n < KidsOf(n)[j]
    BY <1>1, ProgramTree
  <2> QED BY <2>1, Kinds
<1>3. f.node = 1 /\ f.base = NoGuards /\ f.guards = NoGuards
  BY NoGuardsStacks DEF Frame
<1> HIDE DEF f
<1>4. B \in SUBSET Ids /\ \A n : n \in B <=> n = 1
  BY <1>2
<1>5. Resolvable(B, NoGuards)
  BY GuardsResolvable
<1> HIDE DEF B
<1>6. Begun(B, mem.deduced, frames)
  BY <1>1, <1>2, <1>4, Kinds DEF Begun
<1>7. Stacked(frames)
  BY <1>1, <1>3, <1>4 DEF Stacked
<1>8. Recast(mem.deduced)
  BY <1>1, CastKid DEF Recast
<1>9. ASSUME NEW i \in DOMAIN frames
      PROVE  /\ frames[i].node \in B /\ Ahead(B, frames[i]) /\ Open(mem.deduced, frames, i)
             /\ Resolvable(B, frames[i].base) /\ Resolvable(B, frames[i].guards)
  <2>1. i = 1 /\ frames[i].node = 1
    BY <1>1, <1>3, <1>4
  <2>2. Ahead(B, frames[i])
    BY <1>2, <1>4, <2>1 DEF Ahead
  <2>3. Open(mem.deduced, frames, i)
    BY <1>1, <1>2, <2>1 DEF Open
  <2> QED BY <1>1, <1>3, <1>4, <1>5, <2>1, <2>2, <2>3
<1>10. Settled(B, mem.deduced, frames)
  BY <1>6, <1>7, <1>8, <1>9 DEF Settled
<1> QED BY <1>4, <1>10 DEF Visiting

(* Nothing is thrown that is not thrown already.                           *)
LEMMA Unthrown ==
  ASSUME [Next]_vars, mem'.raised = OK
  PROVE  mem.raised = OK
<1>1. CASE Unwind \/ Exit \/ UNCHANGED vars
  BY <1>1 DEF Unwind, Exit, vars
<1>2. CASE VisitDeclFun \/ VisitDeclFunGeneric
  BY <1>2 DEF VisitDeclFun, VisitDeclFunGeneric, DeclareFunction, At
<1>3. CASE VisitProgram \/ (VisitFunction /\ ~VisitDeclFun /\ ~VisitDeclFunGeneric) \/ VisitData \/ VisitEffect
  BY <1>3, VisitedKind
<1> QED BY <1>1, <1>2, <1>3 DEF Next, Step

LEMMA StepVisiting ==
  ASSUME Inv, Visiting, [Next]_vars
  PROVE  Visiting'
<1>1. prog' = prog /\ (mem'.raised = OK => \E B \in SUBSET Ids : Settled(B, mem'.deduced, frames'))
  <2>1. prog' = prog /\ (mem'.raised = OK => SettlesOn)
    BY StepStays DEF Stays
  <2>2. mem'.raised = OK => \E B \in SUBSET Ids : Settled(B, mem.deduced, frames)
    BY Unthrown DEF Visiting
  <2> QED BY <2>1, <2>2 DEF SettlesOn, Outgrows
<1>2. Ids' = Ids
  BY <1>1 DEF Ids
<1> QED BY <1>1, <1>2, SettledLater DEF Visiting

(* A deduced type is final.  In any program, under any relations on types, *)
(* once a node has a deduced type it keeps it; only a function declaration *)
(* replaces its own, while it is on top of the call stack (SetDeducedType, *)
(* types_storage_.set in VisitDeclFun).                                    *)
THEOREM TypesAreFinal == Spec => DeducedIsFinal
<1> DEFINE Kept == \A n \in Ids : mem.deduced[n] # Absent /\ mem'.deduced[n] # mem.deduced[n]
                     => Node(n).kind \in {"DeclFun", "DeclFunGeneric"} /\ This = n
<1>1. Init => Inv /\ Visiting
  BY InitInv, InitVisiting
<1>2. Inv /\ Visiting /\ [Next]_vars => Inv' /\ Visiting'
  BY StepInv, StepVisiting
<1>3. Inv /\ Visiting /\ [Next]_vars => [Kept]_vars
  BY StepStays DEF Stays, Final, IsFunction, FunctionKinds
<1> QED BY <1>1, <1>2, <1>3, PTL DEF Spec, DeducedIsFinal

=============================================================================
