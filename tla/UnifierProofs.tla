--------------------------- MODULE UnifierProofs ---------------------------
(***************************************************************************)
(* Proofs about the unifier, for every set of types and variables, every   *)
(* comparator that is exact and every sequence of constraints.             *)
(***************************************************************************)
EXTENDS UnifierSemantics, SequenceTheorems, TLAPS, WellFoundedInduction

(* Sat is an equality, and a finite type never equals a proper part of     *)
(* itself.                                                                 *)
LEMMA SatFacts ==
  /\ \A s, t \in Type : Sat(s, t) \subseteq Sol
  /\ \A t \in Type : Sat(t, t) = Sol
  /\ \A s, t \in Type : Sat(s, t) = Sat(t, s)
  /\ \A s, t, u \in Type : Sat(s, t) \cap Sat(t, u) \subseteq Sat(s, u)
BY SatAssumption

LEMMA OccursFact == \A t \in Ctor : \A v \in AutosOf(t) : Sat(v, t) = {}
<1> SUFFICES ASSUME NEW t \in Ctor, NEW v \in AutosOf(t), NEW x \in Sat(v, t) PROVE FALSE
  OBVIOUS
<1>1. v \in Type /\ t \in Type
  BY TermsAssumption DEF Type
<1>2. x \in Sol /\ Value(x, v) = Value(x, t)
  BY <1>1, SatAssumption
<1>3. Size(Value(x, v)) < Size(Value(x, t)) /\ Size(Value(x, t)) \in Nat
  BY <1>1, <1>2, ValueAssumption
<1> QED BY <1>2, <1>3

StoreOK(s) == /\ s[1] \in Seq(EqClass)
              /\ s[2] \in [TypeAuto -> Nat]
              /\ Partition(s)

-----------------------------------------------------------------------------
(* FindClass keeps a well-formed store so, gives v a class, moves no other *)
(* variable and changes no solution.                                       *)
FindShape(cl, co, v, f) ==
  /\ f = <<f[1], f[2]>>
  /\ StoreOK(f)
  /\ f[2][v] \in 1..Len(f[1])
  /\ \A u \in TypeAuto : co[u] # 0 => f[2][u] = co[u]
  /\ \A x \in Sol : SolvesStore(x, f) <=> SolvesStore(x, <<cl, co>>)

LEMMA FindClassLemma ==
  ASSUME NEW cl, NEW co, NEW v \in TypeAuto, StoreOK(<<cl, co>>),
         NEW f, f = FindClass(<<cl, co>>, v)
  PROVE  FindShape(cl, co, v, f)
<1>1. CASE co[v] # 0
  <2>1. f = <<cl, co>>
    BY <1>1 DEF FindClass
  <2>2. f[1] = cl /\ f[2] = co
    BY <2>1
  <2>3. co[v] \in 1..Len(cl)
    BY <1>1 DEF StoreOK, Partition
  <2>4. StoreOK(f)
    BY <2>1
  <2>5. \A x \in Sol : SolvesStore(x, f) <=> SolvesStore(x, <<cl, co>>)
    BY <2>1
  <2> QED BY <2>1, <2>2, <2>3, <2>4, <2>5 DEF FindShape
<1>2. CASE co[v] = 0
  <2> DEFINE e  == [members |-> {v}, bound |-> NoType]
             n  == Len(cl) + 1
             cl2 == Append(cl, e)
             co2 == [co EXCEPT ![v] = n]
  <2>1. f = <<cl2, co2>>
    BY <1>2 DEF FindClass
  <2>2. e \in EqClass
    BY DEF EqClass
  <2>3. cl \in Seq(EqClass) /\ co \in [TypeAuto -> Nat]
    BY DEF StoreOK
  <2>4. /\ cl2 \in Seq(EqClass) /\ Len(cl2) = n /\ cl2[n] = e
        /\ \A i \in 1..Len(cl) : cl2[i] = cl[i]
    BY <2>2, <2>3
  <2>5. co2 \in [TypeAuto -> Nat] /\ co2[v] = n /\ \A u \in TypeAuto \ {v} : co2[u] = co[u]
    BY <2>3
  <2>6. Partition(<<cl2, co2>>)
    <3>1. \A u \in TypeAuto : co2[u] \in 0..n
      BY <2>3, <2>5 DEF StoreOK, Partition
    <3>2. ASSUME NEW i \in 1..n
          PROVE  /\ cl2[i].members = {u \in TypeAuto : co2[u] = i}
                 /\ cl2[i].members = {} => cl2[i].bound = NoType
      <4>1. CASE i = n
        <5>1. \A u \in TypeAuto : co[u] # n
          BY <2>3 DEF StoreOK, Partition
        <5>2. {u \in TypeAuto : co2[u] = n} = {v}
          BY <2>5, <5>1
        <5> QED BY <4>1, <5>2, <2>4
      <4>2. CASE i # n
        <5>1. i \in 1..Len(cl)
          BY <4>2, <2>3
        <5>2. cl[i].members = {u \in TypeAuto : co[u] = i}
          BY <5>1 DEF StoreOK, Partition
        <5>3. {u \in TypeAuto : co2[u] = i} = {u \in TypeAuto : co[u] = i}
          BY <2>5, <4>2, <1>2, <5>1
        <5>4. cl[i].members = {} => cl[i].bound = NoType
          BY <5>1 DEF StoreOK, Partition
        <5> QED BY <5>1, <5>2, <5>3, <5>4, <2>4
      <4> QED BY <4>1, <4>2
    <3> QED BY <3>1, <3>2, <2>4 DEF Partition
  <2>7. ASSUME NEW x \in Sol
        PROVE  SolvesStore(x, <<cl2, co2>>) <=> SolvesStore(x, <<cl, co>>)
    <3>1. SolvesClass(x, e)
      BY SatFacts DEF SolvesClass, Type
    <3>2. SolvesStore(x, <<cl2, co2>>) <=> \A i \in 1..n : SolvesClass(x, cl2[i])
      BY <2>4 DEF SolvesStore
    <3>3. SolvesStore(x, <<cl, co>>) <=> \A i \in 1..Len(cl) : SolvesClass(x, cl[i])
      BY DEF SolvesStore
    <3>4. ASSUME NEW i \in 1..n, \A k \in 1..Len(cl) : SolvesClass(x, cl[k])
          PROVE  SolvesClass(x, cl2[i])
      BY <3>1, <3>4, <2>3, <2>4
    <3>5. ASSUME NEW i \in 1..Len(cl), \A k \in 1..n : SolvesClass(x, cl2[k])
          PROVE  SolvesClass(x, cl[i])
      <4>1. i \in 1..n /\ cl2[i] = cl[i]
        BY <2>3, <2>4
      <4> QED BY <3>5, <4>1
    <3> QED BY <3>2, <3>3, <3>4, <3>5
  <2>8. StoreOK(f)
    <3>1. StoreOK(<<cl2, co2>>)
      BY <2>4, <2>5, <2>6 DEF StoreOK
    <3> HIDE DEF cl2, co2
    <3> QED BY <2>1, <3>1
  <2>9. f[2][v] \in 1..Len(f[1])
    BY <2>1, <2>4, <2>5, <2>3
  <2>10. \A u \in TypeAuto : co[u] # 0 => f[2][u] = co[u]
    BY <2>1, <2>5, <1>2
  <2>11. \A x \in Sol : SolvesStore(x, f) <=> SolvesStore(x, <<cl, co>>)
    <3> HIDE DEF cl2, co2
    <3> QED BY <2>1, <2>7
  <2>12. f = <<f[1], f[2]>>
    BY <2>1
  <2> QED BY <2>8, <2>9, <2>10, <2>11, <2>12 DEF FindShape
<1> QED BY <1>1, <1>2

-----------------------------------------------------------------------------
(* The parts of a class of a well-formed store.                            *)
LEMMA ClassFacts ==
  ASSUME NEW cl, NEW co, StoreOK(<<cl, co>>), NEW i \in 1..Len(cl)
  PROVE  /\ cl[i] \in EqClass
         /\ cl[i].members \subseteq TypeAuto
         /\ cl[i].bound \in Ctor \cup {NoType}
         /\ cl[i].members = {v \in TypeAuto : co[v] = i}
         /\ cl[i].members = {} => cl[i].bound = NoType
<1>1. cl \in Seq(EqClass)
  BY DEF StoreOK
<1>2. cl[i] \in EqClass
  BY <1>1
<1>3. cl[i].members \subseteq TypeAuto /\ cl[i].bound \in Ctor \cup {NoType}
  BY <1>2 DEF EqClass
<1> QED BY <1>2, <1>3 DEF StoreOK, Partition

Merged(e, d) == [members |-> e.members \cup d.members,
                 bound   |-> IF e.bound = NoType THEN d.bound ELSE e.bound]
Emptied == [members |-> {}, bound |-> NoType]

(* What MergeClasses does to classes_ and class_of_.                       *)
AbsorbShape(cl, co, i, j, f) ==
  /\ f = <<f[1], f[2]>>
  /\ f[1] \in Seq(EqClass) /\ Len(f[1]) = Len(cl)
  /\ f[1][i] = Merged(cl[i], cl[j]) /\ f[1][j] = Emptied
  /\ \A k \in 1..Len(cl) : k # i /\ k # j => f[1][k] = cl[k]
  /\ f[2] = [v \in TypeAuto |-> IF v \in cl[j].members THEN i ELSE co[v]]

LEMMA AbsorbFacts ==
  ASSUME NEW cl, NEW co, StoreOK(<<cl, co>>),
         NEW i \in 1..Len(cl), NEW j \in 1..Len(cl), i # j,
         NEW f, f = Absorb(<<cl, co>>, i, j)
  PROVE  AbsorbShape(cl, co, i, j, f)
<1> DEFINE ei  == Merged(cl[i], cl[j])
           cl1 == [cl EXCEPT ![i] = ei]
           cl2 == [cl1 EXCEPT ![j] = Emptied]
<1>1. f = <<cl2, [v \in TypeAuto |-> IF v \in cl[j].members THEN i ELSE co[v]]>>
  BY DEF Absorb, Merged, Emptied
<1>2. cl \in Seq(EqClass)
  BY DEF StoreOK
<1>3. ei \in EqClass
  <2>1. /\ cl[i].members \subseteq TypeAuto /\ cl[j].members \subseteq TypeAuto
        /\ cl[i].bound \in Ctor \cup {NoType} /\ cl[j].bound \in Ctor \cup {NoType}
    BY ClassFacts
  <2> QED BY <2>1 DEF EqClass, Merged
<1>4. Emptied \in EqClass
  BY DEF EqClass, Emptied
<1> HIDE DEF ei
<1>5. /\ cl1 \in Seq(EqClass) /\ Len(cl1) = Len(cl)
      /\ \A k \in 1..Len(cl) : cl1[k] = IF k = i THEN ei ELSE cl[k]
  BY <1>2, <1>3, ExceptSeq
<1> HIDE DEF cl1
<1>6. /\ cl2 \in Seq(EqClass) /\ Len(cl2) = Len(cl1)
      /\ \A k \in 1..Len(cl1) : cl2[k] = IF k = j THEN Emptied ELSE cl1[k]
  BY <1>4, <1>5, ExceptSeq
<1> HIDE DEF cl2
<1>7. cl2[i] = ei /\ cl2[j] = Emptied
  BY <1>5, <1>6
<1>8. \A k \in 1..Len(cl) : k # i /\ k # j => cl2[k] = cl[k]
  BY <1>5, <1>6
<1>9. /\ f = <<f[1], f[2]>> /\ f[1] = cl2
      /\ f[2] = [v \in TypeAuto |-> IF v \in cl[j].members THEN i ELSE co[v]]
  BY <1>1
<1> QED BY <1>5, <1>6, <1>7, <1>8, <1>9 DEF ei, AbsorbShape

(* MergeClasses: moving the members of class j to class i keeps the store  *)
(* well-formed, ...                                                        *)
LEMMA AbsorbStoreOK ==
  ASSUME NEW cl, NEW co, StoreOK(<<cl, co>>),
         NEW i \in 1..Len(cl), NEW j \in 1..Len(cl), i # j,
         NEW f, f = Absorb(<<cl, co>>, i, j)
  PROVE  StoreOK(f)
<1>0. AbsorbShape(cl, co, i, j, f)
  BY AbsorbFacts
<1>1. /\ f[1] \in Seq(EqClass) /\ Len(f[1]) = Len(cl)
      /\ f[1][i] = Merged(cl[i], cl[j]) /\ f[1][j] = Emptied
      /\ \A k \in 1..Len(cl) : k # i /\ k # j => f[1][k] = cl[k]
      /\ f[2] = [v \in TypeAuto |-> IF v \in cl[j].members THEN i ELSE co[v]]
  BY <1>0 DEF AbsorbShape
<1>2. /\ co \in [TypeAuto -> Nat] /\ \A v \in TypeAuto : co[v] \in 0..Len(cl)
  BY DEF StoreOK, Partition
<1>3. cl \in Seq(EqClass) /\ Len(cl) \in Nat
  BY DEF StoreOK
<1>4. f[2] \in [TypeAuto -> Nat] /\ \A v \in TypeAuto : f[2][v] \in 0..Len(cl)
  <2>1. f[2] = [v \in TypeAuto |-> IF v \in cl[j].members THEN i ELSE co[v]]
    BY <1>1
  <2>2. ASSUME NEW v \in TypeAuto
        PROVE  f[2][v] \in 0..Len(cl)
    <3>1. f[2][v] = IF v \in cl[j].members THEN i ELSE co[v]
      BY <2>1
    <3>2. i \in 0..Len(cl) /\ co[v] \in 0..Len(cl)
      BY <1>2, <1>3
    <3> QED BY <3>1, <3>2
  <2>3. f[2] \in [TypeAuto -> 0..Len(cl)]
    BY <2>1, <2>2
  <2>4. 0..Len(cl) \subseteq Nat
    BY <1>3
  <2>5. f[2] \in [TypeAuto -> Nat]
    BY <2>3, <2>4
  <2> QED BY <2>2, <2>5
<1>5. /\ cl[i].members = {v \in TypeAuto : co[v] = i}
      /\ cl[j].members = {v \in TypeAuto : co[v] = j}
      /\ cl[i].members = {} => cl[i].bound = NoType
      /\ cl[j].members = {} => cl[j].bound = NoType
  BY ClassFacts
<1>6. ASSUME NEW k \in 1..Len(cl)
      PROVE  /\ f[1][k].members = {v \in TypeAuto : f[2][v] = k}
             /\ f[1][k].members = {} => f[1][k].bound = NoType
  <2>1. CASE k = i
    <3>1. {v \in TypeAuto : f[2][v] = i} = {v \in TypeAuto : co[v] = i} \cup {v \in TypeAuto : co[v] = j}
      BY <1>1, <1>5
    <3>2. /\ f[1][i].members = cl[i].members \cup cl[j].members
          /\ f[1][i].bound = IF cl[i].bound = NoType THEN cl[j].bound ELSE cl[i].bound
      BY <1>1 DEF Merged
    <3> QED BY <1>5, <2>1, <3>1, <3>2
  <2>2. CASE k = j
    <3>1. {v \in TypeAuto : f[2][v] = j} = {}
      BY <1>1, <1>5
    <3> QED BY <1>1, <2>2, <3>1 DEF Emptied
  <2>3. CASE k # i /\ k # j
    <3>1. {v \in TypeAuto : f[2][v] = k} = {v \in TypeAuto : co[v] = k}
      BY <1>1, <1>5, <2>3
    <3>2. /\ cl[k].members = {v \in TypeAuto : co[v] = k}
          /\ cl[k].members = {} => cl[k].bound = NoType
      BY ClassFacts
    <3> QED BY <1>1, <2>3, <3>1, <3>2
  <2> QED BY <2>1, <2>2, <2>3
<1> QED BY <1>1, <1>4, <1>6 DEF StoreOK, Partition

(* ... and, for a and b in the two classes, the solutions that make a and  *)
(* b equal are those of the merged class under which the two bound types   *)
(* (when there are two) are equal.                                         *)
LEMMA AbsorbSolutions ==
  ASSUME NEW cl, NEW co, StoreOK(<<cl, co>>),
         NEW i \in 1..Len(cl), NEW j \in 1..Len(cl), i # j,
         NEW f, f = Absorb(<<cl, co>>, i, j),
         NEW a \in cl[i].members, NEW b \in cl[j].members,
         NEW x \in Sol
  PROVE  (SolvesStore(x, <<cl, co>>) /\ x \in Sat(a, b))
         <=> (/\ SolvesStore(x, f)
              /\ (cl[i].bound # NoType /\ cl[j].bound # NoType)
                    => x \in Sat(cl[i].bound, cl[j].bound))
<1> DEFINE ci  == cl[i]
           cj  == cl[j]
           ei  == Merged(ci, cj)
           cl2 == f[1]
           Same(s, t) == x \in Sat(s, t)
<1>2. AbsorbShape(cl, co, i, j, f)
  BY AbsorbFacts
<1>3. /\ Len(cl2) = Len(cl) /\ cl2[i] = ei /\ cl2[j] = Emptied
      /\ \A k \in 1..Len(cl) : k # i /\ k # j => cl2[k] = cl[k]
  BY <1>2 DEF AbsorbShape
<1>4. /\ ci.members \subseteq TypeAuto /\ cj.members \subseteq TypeAuto
      /\ ci.bound \in Ctor \cup {NoType} /\ cj.bound \in Ctor \cup {NoType}
      /\ a \in ci.members /\ b \in cj.members
      /\ ei.members = ci.members \cup cj.members
      /\ ei.bound = IF ci.bound = NoType THEN cj.bound ELSE ci.bound
  BY ClassFacts DEF Merged
<1>5. /\ \A s \in Type : Same(s, s)
      /\ \A s, t \in Type : Same(s, t) => Same(t, s)
      /\ \A s, t, u \in Type : Same(s, t) /\ Same(t, u) => Same(s, u)
  BY SatFacts
<1>6. \A e : SolvesClass(x, e) <=>
        \A u \in e.members : /\ \A v \in e.members : Same(u, v)
                             /\ e.bound # NoType => Same(u, e.bound)
  BY DEF SolvesClass
<1> HIDE DEF Same, ei
<1>7. ASSUME SolvesClass(x, ci), SolvesClass(x, cj), Same(a, b)
      PROVE  SolvesClass(x, ei)
  <2>1. \A u \in ei.members : Same(u, a) /\ Same(a, u)
    BY <1>4, <1>5, <1>6, <1>7 DEF Type
  <2>2. \A u, v \in ei.members : Same(u, v)
    BY <2>1, <1>4, <1>5 DEF Type
  <2>3. ei.bound # NoType => Same(a, ei.bound)
    BY <1>4, <1>5, <1>6, <1>7 DEF Type
  <2>4. \A u \in ei.members : ei.bound # NoType => Same(u, ei.bound)
    BY <2>1, <2>3, <1>4, <1>5 DEF Type
  <2> QED BY <2>2, <2>4, <1>6
<1>8. ASSUME SolvesClass(x, ci), SolvesClass(x, cj), Same(a, b),
             ci.bound # NoType, cj.bound # NoType
      PROVE  Same(ci.bound, cj.bound)
  BY <1>4, <1>5, <1>6, <1>8 DEF Type
<1>9. ASSUME SolvesClass(x, ei),
             (ci.bound # NoType /\ cj.bound # NoType) => Same(ci.bound, cj.bound)
      PROVE  SolvesClass(x, ci) /\ SolvesClass(x, cj) /\ Same(a, b)
  <2>1. \A u, v \in ei.members : Same(u, v)
    BY <1>6, <1>9
  <2>2. \A u \in ei.members : ei.bound # NoType => Same(u, ei.bound)
    BY <1>6, <1>9
  <2>3. \A u \in ci.members : ci.bound # NoType => Same(u, ci.bound)
    BY <2>2, <1>4
  <2>4. \A u \in cj.members : cj.bound # NoType => Same(u, cj.bound)
    BY <2>2, <1>4, <1>5, <1>9 DEF Type
  <2> QED BY <2>1, <2>3, <2>4, <1>4, <1>6
<1>10. SolvesClass(x, Emptied)
  BY <1>6 DEF Emptied
<1>11. SolvesStore(x, <<cl, co>>) <=> \A k \in 1..Len(cl) : SolvesClass(x, cl[k])
  BY DEF SolvesStore
<1>12. SolvesStore(x, f) <=> \A k \in 1..Len(cl) : SolvesClass(x, cl2[k])
  BY <1>3 DEF SolvesStore
<1> DEFINE Others == \A k \in 1..Len(cl) : k # i /\ k # j => SolvesClass(x, cl[k])
<1>13. SolvesStore(x, <<cl, co>>) <=> Others /\ SolvesClass(x, ci) /\ SolvesClass(x, cj)
  BY <1>11
<1>14. SolvesStore(x, f) <=> Others /\ SolvesClass(x, ei)
  BY <1>3, <1>10, <1>12
<1>15. Same(a, b) <=> x \in Sat(a, b)
  BY DEF Same
<1>16. Same(ci.bound, cj.bound) <=> x \in Sat(cl[i].bound, cl[j].bound)
  BY DEF Same
<1> HIDE DEF Others, ei, cl2
<1> QED BY <1>7, <1>8, <1>9, <1>13, <1>14, <1>15, <1>16

-----------------------------------------------------------------------------
(* BindClass: an unbound class takes the type t.                           *)
BoundShape(cl, co, v, t, cl2) ==
  /\ StoreOK(<<cl2, co>>)
  /\ \A x \in Sol : (SolvesStore(x, <<cl, co>>) /\ x \in Sat(v, t))
                     <=> SolvesStore(x, <<cl2, co>>)

LEMMA BindLemma ==
  ASSUME NEW cl, NEW co, StoreOK(<<cl, co>>),
         NEW i \in 1..Len(cl), cl[i].bound = NoType,
         NEW v \in cl[i].members, NEW t \in Ctor,
         NEW cl2, cl2 = [cl EXCEPT ![i].bound = t]
  PROVE  BoundShape(cl, co, v, t, cl2)
<1> DEFINE e == [members |-> cl[i].members, bound |-> t]
<1>1. cl \in Seq(EqClass)
  BY DEF StoreOK
<1>2. cl[i] \in EqClass /\ cl[i].members \subseteq TypeAuto
  BY ClassFacts
<1>3. e \in EqClass /\ [cl[i] EXCEPT !.bound = t] = e
  BY <1>2 DEF EqClass
<1>4. cl2 = [cl EXCEPT ![i] = e]
  BY <1>1, <1>3
<1>5. e.members = cl[i].members /\ e.bound = t
  OBVIOUS
<1> HIDE DEF e
<1>6. /\ cl2 \in Seq(EqClass) /\ Len(cl2) = Len(cl)
      /\ \A k \in 1..Len(cl) : cl2[k] = IF k = i THEN e ELSE cl[k]
  <2>1. /\ [cl EXCEPT ![i] = e] \in Seq(EqClass) /\ Len([cl EXCEPT ![i] = e]) = Len(cl)
        /\ \A k \in 1..Len(cl) : [cl EXCEPT ![i] = e][k] = IF k = i THEN e ELSE cl[k]
    BY <1>1, <1>3, ExceptSeq
  <2> QED BY <1>4, <2>1
<1>7. StoreOK(<<cl2, co>>)
  <2>1. ASSUME NEW k \in 1..Len(cl)
        PROVE  /\ cl2[k].members = {u \in TypeAuto : co[u] = k}
               /\ cl2[k].members = {} => cl2[k].bound = NoType
    <3>1. /\ cl[k].members = {u \in TypeAuto : co[u] = k}
          /\ cl[k].members = {} => cl[k].bound = NoType
      BY ClassFacts
    <3> QED BY <3>1, <1>5, <1>6
  <2>2. \A u \in TypeAuto : co[u] \in 0..Len(cl)
    BY DEF StoreOK, Partition
  <2>3. co \in [TypeAuto -> Nat]
    BY DEF StoreOK
  <2> QED BY <2>1, <2>2, <2>3, <1>6 DEF StoreOK, Partition
<1>8. ASSUME NEW x \in Sol
      PROVE  (SolvesStore(x, <<cl, co>>) /\ x \in Sat(v, t)) <=> SolvesStore(x, <<cl2, co>>)
  <2> DEFINE Others == \A k \in 1..Len(cl) : k # i => SolvesClass(x, cl[k])
             Same(r, s) == x \in Sat(r, s)
  <2>1. SolvesStore(x, <<cl, co>>) <=> Others /\ SolvesClass(x, cl[i])
    BY DEF SolvesStore
  <2>2. SolvesStore(x, <<cl2, co>>) <=> Others /\ SolvesClass(x, e)
    BY <1>6 DEF SolvesStore
  <2>3. SolvesClass(x, cl[i]) <=> \A u, w \in cl[i].members : Same(u, w)
    BY DEF SolvesClass
  <2>4. SolvesClass(x, e) <=> /\ \A u, w \in cl[i].members : Same(u, w)
                              /\ \A u \in cl[i].members : Same(u, t)
    BY <1>5, TermsAssumption DEF SolvesClass, Type
  <2>5. (\A u, w \in cl[i].members : Same(u, w)) /\ Same(v, t)
        => \A u \in cl[i].members : Same(u, t)
    BY <1>2, SatFacts DEF Type
  <2> HIDE DEF Others
  <2> QED BY <2>1, <2>2, <2>3, <2>4, <2>5
<1> QED BY <1>7, <1>8 DEF BoundShape

-----------------------------------------------------------------------------
(* Constraint sequences.                                                   *)
LEMMA SolvesAppend ==
  ASSUME NEW cs \in Seq(Constraint), NEW e \in Constraint, NEW x
  PROVE  SolvesSeq(x, Append(cs, e)) <=> SolvesSeq(x, cs) /\ x \in Sat(e.lhs, e.rhs)
<1>1. /\ Len(Append(cs, e)) = Len(cs) + 1 /\ Append(cs, e)[Len(cs) + 1] = e
      /\ \A i \in 1..Len(cs) : Append(cs, e)[i] = cs[i]
  OBVIOUS
<1>2. \A i : i \in 1..(Len(cs) + 1) <=> (i \in 1..Len(cs) \/ i = Len(cs) + 1)
  OBVIOUS
<1> QED BY <1>1, <1>2 DEF SolvesSeq

LEMMA SolvesConcat ==
  ASSUME NEW cs \in Seq(Constraint), NEW es \in Seq(Constraint), NEW x
  PROVE  SolvesSeq(x, cs \o es) <=> SolvesSeq(x, cs) /\ SolvesSeq(x, es)
<1> DEFINE both == cs \o es
           m == Len(cs)
           n == Len(es)
<1>1. /\ Len(both) = m + n /\ m \in Nat /\ n \in Nat
      /\ \A i \in 1..m : both[i] = cs[i]
      /\ \A i \in 1..n : both[m + i] = es[i]
  OBVIOUS
<1>2. \A i \in 1..(m + n) : i \in 1..m \/ (i - m \in 1..n /\ i = m + (i - m))
  BY <1>1
<1>3. \A i \in 1..n : m + i \in 1..(m + n)
  BY <1>1
<1>4. \A i \in 1..m : i \in 1..(m + n)
  BY <1>1
<1> HIDE DEF both, m, n
<1>5. SolvesSeq(x, both) <=> \A i \in 1..(m + n) : x \in Sat(both[i].lhs, both[i].rhs)
  BY <1>1 DEF SolvesSeq
<1>6. SolvesSeq(x, cs) <=> \A i \in 1..m : x \in Sat(cs[i].lhs, cs[i].rhs)
  BY DEF SolvesSeq, m
<1>7. SolvesSeq(x, es) <=> \A i \in 1..n : x \in Sat(es[i].lhs, es[i].rhs)
  BY DEF SolvesSeq, n
<1>8. ASSUME SolvesSeq(x, both)
      PROVE  SolvesSeq(x, cs) /\ SolvesSeq(x, es)
  BY <1>1, <1>3, <1>4, <1>5, <1>6, <1>7, <1>8
<1>9. ASSUME SolvesSeq(x, cs), SolvesSeq(x, es)
      PROVE  SolvesSeq(x, both)
  BY <1>1, <1>2, <1>5, <1>6, <1>7, <1>9
<1> QED BY <1>8, <1>9 DEF both

LEMMA AllButLast ==
  ASSUME NEW cs \in Seq(Constraint), cs # <<>>, NEW rest, rest = SubSeq(cs, 1, Len(cs) - 1)
  PROVE  /\ Len(cs) \in Nat \ {0} /\ cs[Len(cs)] \in Constraint
         /\ rest \in Seq(Constraint) /\ Len(rest) = Len(cs) - 1
         /\ \A i \in 1..(Len(cs) - 1) : rest[i] = cs[i]
<1> DEFINE n == Len(cs)
<1>1. n \in Nat \ {0} /\ cs[n] \in Constraint
  BY SMTT(60)
<1>2. 1 \in Int /\ n - 1 \in Int /\ \A i \in 1..(n - 1) : cs[i] \in Constraint
  BY <1>1
<1>3. /\ rest \in Seq(Constraint)
      /\ Len(rest) = IF 1 <= n - 1 THEN (n - 1) - 1 + 1 ELSE 0
      /\ \A i \in 1..((n - 1) - 1 + 1) : rest[i] = cs[1 + i - 1]
  BY <1>2, SubSeqProperties
<1>4. /\ (IF 1 <= n - 1 THEN (n - 1) - 1 + 1 ELSE 0) = n - 1
      /\ (n - 1) - 1 + 1 = n - 1
      /\ \A i \in 1..(n - 1) : 1 + i - 1 = i
  <2>1. \A m \in Nat \ {0} : /\ (IF 1 <= m - 1 THEN (m - 1) - 1 + 1 ELSE 0) = m - 1
                             /\ (m - 1) - 1 + 1 = m - 1
                             /\ \A i \in 1..(m - 1) : 1 + i - 1 = i
    OBVIOUS
  <2> HIDE DEF n
  <2> QED BY <1>1, <2>1
<1> QED BY <1>1, <1>3, <1>4

LEMMA SolvesServe ==
  ASSUME NEW cs \in Seq(Constraint), cs # <<>>, NEW x
  PROVE  /\ SubSeq(cs, 1, Len(cs) - 1) \in Seq(Constraint)
         /\ cs[Len(cs)] \in Constraint
         /\ SolvesSeq(x, cs) <=> /\ SolvesSeq(x, SubSeq(cs, 1, Len(cs) - 1))
                                 /\ x \in Sat(cs[Len(cs)].lhs, cs[Len(cs)].rhs)
<1> DEFINE rest == SubSeq(cs, 1, Len(cs) - 1)
           n == Len(cs)
<1>1. /\ n \in Nat \ {0} /\ cs[n] \in Constraint
      /\ rest \in Seq(Constraint) /\ Len(rest) = n - 1 /\ \A i \in 1..(n - 1) : rest[i] = cs[i]
  BY AllButLast
<1>2. \A i : i \in 1..n <=> (i \in 1..(n - 1) \/ i = n)
  BY <1>1
<1> HIDE DEF rest
<1> QED BY <1>1, <1>2 DEF SolvesSeq, rest

LEMMA EmitsExact ==
  ASSUME NEW s \in Ctor, NEW t \in Ctor, NEW x \in Sol
  PROVE  x \in Sat(s, t) <=> CmpOk(s, t) /\ SolvesSeq(x, CmpEmits(s, t))
BY ExactAssumption DEF SolvesSeq

-----------------------------------------------------------------------------
(* The inductive invariant.  SolutionsPreserved alone is not inductive: it *)
(* needs the types, that classes_ and class_of_ agree (so that a variable  *)
(* is a member of the class it is merged through) and that UnifyAll's copy *)
(* of the constraints is empty while the visitors run.                     *)
SolvesState(x) == /\ SolvesStore(x, store)
                  /\ SolvesSeq(x, constraints)
                  /\ SolvesSeq(x, worklist)

SolvesInput(x) == \A c \in input : x \in Sat(c.lhs, c.rhs)

IInv ==
  /\ TypeOK
  /\ ClassesPartition
  /\ phase = "visit" => worklist = <<>>
  /\ SolutionsPreserved
  /\ ErrorsJustified

LEMMA RemainingDef ==
  /\ Remaining = {x \in Sol : SolvesState(x)}
  /\ InputSolutions = {x \in Sol : SolvesInput(x)}
BY DEF Remaining, BindingSolutions, InputSolutions, SolvesState, SolvesInput

(* The same invariant, solution by solution.                               *)
Parts ==
  /\ TypeOK
  /\ StoreOK(store)
  /\ phase = "visit" => worklist = <<>>
  /\ phase \notin TypeError => \A x \in Sol : SolvesState(x) <=> SolvesInput(x)
  /\ phase \in TypeError => \A x \in Sol : ~SolvesInput(x)

LEMMA InvParts == IInv <=> Parts
<1>1. SolutionsPreserved
      <=> (phase \notin TypeError => \A x \in Sol : SolvesState(x) <=> SolvesInput(x))
  BY RemainingDef DEF SolutionsPreserved
<1>2. ErrorsJustified <=> (phase \in TypeError => \A x \in Sol : ~SolvesInput(x))
  BY RemainingDef DEF ErrorsJustified
<1>3. TypeOK => (ClassesPartition <=> StoreOK(store))
  <2>1. store[1] = classes /\ store[2] = class_of
    BY DEF store
  <2> QED BY <2>1 DEF TypeOK, StoreOK, ClassesPartition
<1> QED BY <1>1, <1>2, <1>3 DEF IInv, Parts

LEMMA InvPartsPrime == IInv' <=> Parts'
BY InvParts, PTL

(* A step of UnifyAll keeps the invariant when it keeps the types and the  *)
(* solutions, or reports a type error on a state without solutions.        *)
LEMMA StepKeeps ==
  ASSUME IInv, phase = "unify", UNCHANGED <<registry, input>>,
         constraints' \in Seq(Constraint), worklist' \in Seq(Constraint),
         StoreOK(<<classes', class_of'>>), phase' \in {"unify"} \cup Verdicts,
         phase' \notin TypeError => \A x \in Sol : SolvesState(x)' <=> SolvesState(x),
         phase' \in TypeError => \A x \in Sol : ~SolvesState(x)
  PROVE  IInv'
<1>1. /\ TypeOK
      /\ phase \notin TypeError => \A x \in Sol : SolvesState(x) <=> SolvesInput(x)
  BY InvParts DEF Parts
<1>2. phase \notin TypeError
  BY DEF TypeError
<1>3. \A x \in Sol : SolvesInput(x)' <=> SolvesInput(x)
  BY DEF SolvesInput
<1>4. TypeOK'
  BY <1>1 DEF TypeOK, StoreOK
<1>5. StoreOK(store)'
  BY DEF store
<1>6. phase' # "visit"
  BY DEF Verdicts
<1> QED BY <1>1, <1>2, <1>3, <1>4, <1>5, <1>6, InvPartsPrime DEF Parts

-----------------------------------------------------------------------------
(* Serving a constraint.                                                   *)
LEMMA ServeFacts ==
  ASSUME IInv, Serve
  PROVE  /\ phase = "unify" /\ UNCHANGED <<registry, input>>
         /\ worklist' \in Seq(Constraint) /\ constraints \in Seq(Constraint)
         /\ Served \in Constraint
         /\ StoreOK(<<classes, class_of>>) /\ store = <<classes, class_of>>
         /\ \A x : SolvesSeq(x, worklist)
                    <=> SolvesSeq(x, worklist') /\ x \in Sat(Served.lhs, Served.rhs)
<1>1. /\ phase = "unify" /\ worklist # <<>> /\ UNCHANGED <<registry, input>>
      /\ worklist' = SubSeq(worklist, 1, Len(worklist) - 1)
  BY DEF Serve
<1>2. worklist \in Seq(Constraint) /\ constraints \in Seq(Constraint)
  BY DEF IInv, TypeOK
<1>3. StoreOK(store) /\ store = <<classes, class_of>>
  BY InvParts DEF Parts, store
<1>4. /\ worklist' \in Seq(Constraint) /\ Served \in Constraint
      /\ \A x : SolvesSeq(x, worklist)
                 <=> SolvesSeq(x, worklist') /\ x \in Sat(Served.lhs, Served.rhs)
  BY <1>1, <1>2, SolvesServe DEF Served
<1> QED BY <1>1, <1>2, <1>3, <1>4

LEMMA Found2Facts ==
  ASSUME IInv, NEW a \in TypeAuto, NEW b \in TypeAuto, NEW s, s = Found2(a, b)
  PROVE  /\ s = <<s[1], s[2]>> /\ StoreOK(<<s[1], s[2]>>)
         /\ s[2][a] \in 1..Len(s[1]) /\ s[2][b] \in 1..Len(s[1])
         /\ a \in s[1][s[2][a]].members /\ b \in s[1][s[2][b]].members
         /\ \A x \in Sol : SolvesStore(x, s) <=> SolvesStore(x, store)
<1> DEFINE f == FindClass(store, a)
<1>1. StoreOK(<<classes, class_of>>) /\ store = <<classes, class_of>>
  BY InvParts DEF Parts, store
<1>2. /\ f = <<f[1], f[2]>> /\ StoreOK(f) /\ f[2][a] \in 1..Len(f[1])
      /\ \A x \in Sol : SolvesStore(x, f) <=> SolvesStore(x, store)
  <2>1. FindShape(classes, class_of, a, f)
    BY <1>1, FindClassLemma
  <2> QED BY <1>1, <2>1 DEF FindShape
<1>3. s = FindClass(f, b)
  BY DEF Found2
<1> HIDE DEF f
<1>4. /\ s = <<s[1], s[2]>> /\ StoreOK(s) /\ s[2][b] \in 1..Len(s[1])
      /\ \A u \in TypeAuto : f[2][u] # 0 => s[2][u] = f[2][u]
      /\ \A x \in Sol : SolvesStore(x, s) <=> SolvesStore(x, f)
  <2>1. StoreOK(<<f[1], f[2]>>) /\ s = FindClass(<<f[1], f[2]>>, b)
    BY <1>2, <1>3
  <2>2. \A x \in Sol : SolvesStore(x, <<f[1], f[2]>>) <=> SolvesStore(x, f)
    BY <1>2
  <2>3. /\ s = <<s[1], s[2]>> /\ StoreOK(s) /\ s[2][b] \in 1..Len(s[1])
        /\ \A u \in TypeAuto : f[2][u] # 0 => s[2][u] = f[2][u]
        /\ \A x \in Sol : SolvesStore(x, s) <=> SolvesStore(x, <<f[1], f[2]>>)
    <3>1. FindShape(f[1], f[2], b, s)
      BY <2>1, FindClassLemma
    <3> QED BY <3>1 DEF FindShape
  <2> QED BY <2>2, <2>3
<1>5. s[2][a] \in 1..Len(s[1])
  <2>1. f[2][a] # 0
    BY <1>2
  <2>2. s[2][a] # 0
    BY <2>1, <1>4
  <2>3. s[2][a] \in 0..Len(s[1])
    BY <1>4 DEF StoreOK, Partition
  <2> QED BY <2>2, <2>3
<1>6. StoreOK(<<s[1], s[2]>>)
  BY <1>4
<1>7. a \in s[1][s[2][a]].members /\ b \in s[1][s[2][b]].members
  BY <1>4, <1>5, <1>6, ClassFacts
<1> QED BY <1>2, <1>4, <1>5, <1>6, <1>7

-----------------------------------------------------------------------------
LEMMA MergeSameKeeps ==
  ASSUME IInv, MergeSame
  PROVE  IInv'
<1>1. PICK a \in TypeAuto, b \in TypeAuto :
        /\ Merging(a, b) /\ Found2(a, b)[2][a] = Found2(a, b)[2][b]
        /\ SetStore(Found2(a, b)) /\ UNCHANGED <<constraints, phase>>
  BY DEF MergeSame
<1> DEFINE s == Found2(a, b)
<1>2. Serve /\ a = Served.lhs /\ b = Served.rhs
  BY <1>1 DEF Merging
<1>3. /\ s = <<s[1], s[2]>> /\ StoreOK(<<s[1], s[2]>>)
      /\ s[2][a] \in 1..Len(s[1])
      /\ a \in s[1][s[2][a]].members /\ b \in s[1][s[2][a]].members
      /\ \A x \in Sol : SolvesStore(x, s) <=> SolvesStore(x, store)
  BY <1>1, Found2Facts
<1>4. classes' = s[1] /\ class_of' = s[2] /\ UNCHANGED <<constraints, phase>>
  BY <1>1 DEF SetStore
<1> HIDE DEF s
<1>5. store' = s
  BY <1>3, <1>4 DEF store
<1>6. ASSUME NEW x \in Sol
      PROVE  SolvesState(x)' <=> SolvesState(x)
  <2>1. SolvesStore(x, s) => x \in Sat(a, b)
    BY <1>3 DEF SolvesStore, SolvesClass
  <2>2. SolvesStore(x, store)' <=> SolvesStore(x, s)
    BY <1>5 DEF SolvesStore, SolvesClass
  <2>3. SolvesSeq(x, constraints)' <=> SolvesSeq(x, constraints)
    BY <1>4
  <2>4. SolvesSeq(x, worklist) <=> SolvesSeq(x, worklist') /\ x \in Sat(a, b)
    BY <1>2, ServeFacts
  <2> QED BY <1>3, <2>1, <2>2, <2>3, <2>4 DEF SolvesState
<1>7. phase' \in {"unify"} \cup Verdicts /\ phase' \notin TypeError
  BY <1>2, <1>4, ServeFacts DEF TypeError
<1> QED BY <1>2, <1>3, <1>4, <1>6, <1>7, ServeFacts, StepKeeps

(* Both merges move one class into the other; what differs is whether two  *)
(* bound types meet.                                                       *)
LEMMA MergeFreeKeeps ==
  ASSUME IInv, MergeFree
  PROVE  IInv'
<1>1. PICK a \in TypeAuto, b \in TypeAuto :
        LET s == Found2(a, b) IN
        /\ Merging(a, b) /\ s[2][a] # s[2][b]
        /\ NoType \in {s[1][s[2][a]].bound, s[1][s[2][b]].bound}
        /\ SetStore(Absorb(s, s[2][a], s[2][b])) /\ UNCHANGED <<constraints, phase>>
  BY DEF MergeFree
<1> DEFINE s == Found2(a, b)
           i == s[2][a]
           j == s[2][b]
           f == Absorb(s, i, j)
<1>2. Serve /\ a = Served.lhs /\ b = Served.rhs
  BY <1>1 DEF Merging
<1>3. /\ s = <<s[1], s[2]>> /\ StoreOK(<<s[1], s[2]>>)
      /\ i \in 1..Len(s[1]) /\ j \in 1..Len(s[1])
      /\ a \in s[1][i].members /\ b \in s[1][j].members
      /\ \A x \in Sol : SolvesStore(x, s) <=> SolvesStore(x, store)
  BY <1>1, Found2Facts
<1>4. /\ i # j /\ ~(s[1][i].bound # NoType /\ s[1][j].bound # NoType)
      /\ classes' = f[1] /\ class_of' = f[2] /\ UNCHANGED <<constraints, phase>>
  BY <1>1 DEF SetStore
<1>5. f = Absorb(<<s[1], s[2]>>, i, j)
  BY <1>3
<1> HIDE DEF s, i, j, f
<1>6. StoreOK(f) /\ f = <<f[1], f[2]>>
  <2>1. StoreOK(f)
    BY <1>3, <1>4, <1>5, AbsorbStoreOK
  <2>2. AbsorbShape(s[1], s[2], i, j, f)
    BY <1>3, <1>4, <1>5, AbsorbFacts
  <2> QED BY <2>1, <2>2 DEF AbsorbShape
<1>7. store' = f
  BY <1>4, <1>6 DEF store
<1>8. ASSUME NEW x \in Sol
      PROVE  SolvesState(x)' <=> SolvesState(x)
  <2>1. SolvesStore(x, <<s[1], s[2]>>) /\ x \in Sat(a, b) <=> SolvesStore(x, f)
    BY <1>3, <1>4, <1>5, AbsorbSolutions
  <2>2. SolvesStore(x, store)' <=> SolvesStore(x, f)
    BY <1>7 DEF SolvesStore, SolvesClass
  <2>3. SolvesSeq(x, constraints)' <=> SolvesSeq(x, constraints)
    BY <1>4
  <2>4. SolvesSeq(x, worklist) <=> SolvesSeq(x, worklist') /\ x \in Sat(a, b)
    BY <1>2, ServeFacts
  <2>5. SolvesStore(x, <<s[1], s[2]>>) <=> SolvesStore(x, store)
    BY <1>3
  <2> QED BY <2>1, <2>2, <2>3, <2>4, <2>5 DEF SolvesState
<1>9. phase' \in {"unify"} \cup Verdicts /\ phase' \notin TypeError
  BY <1>2, <1>4, ServeFacts DEF TypeError
<1>10. StoreOK(<<classes', class_of'>>)
  BY <1>4, <1>6
<1> QED BY <1>2, <1>4, <1>8, <1>9, <1>10, ServeFacts, StepKeeps

(* A type that contains a member of the class it is equated with has no    *)
(* solution.                                                               *)
LEMMA OccursUnsolvable ==
  ASSUME NEW members, members \subseteq TypeAuto, NEW t \in Ctor, Occurs(members, t), NEW x
  PROVE  \E v \in members : x \notin Sat(v, t)
<1>1. PICK v \in members : v \in AutosOf(t)
  BY DEF Occurs
<1> QED BY <1>1, OccursFact

LEMMA MergeBoundKeeps ==
  ASSUME IInv, MergeBound
  PROVE  IInv'
<1>1. PICK a \in TypeAuto, b \in TypeAuto :
        LET s  == Found2(a, b)
            ca == s[1][s[2][a]]
            cb == s[1][s[2][b]] IN
        /\ Merging(a, b) /\ s[2][a] # s[2][b]
        /\ ca.bound # NoType /\ cb.bound # NoType
        /\ \/ /\ Occurs(cb.members, ca.bound) \/ Occurs(ca.members, cb.bound)
              /\ phase' = "ERROR_OCCURS_CHECK_INFINITE_TYPE"
              /\ SetStore(s) /\ UNCHANGED constraints
           \/ /\ ~Occurs(cb.members, ca.bound) /\ ~Occurs(ca.members, cb.bound)
              /\ ~CmpOk(ca.bound, cb.bound)
              /\ phase' = "ERROR_UNEXPECTED_TYPE_FOR_EXPRESSION"
              /\ SetStore(s) /\ UNCHANGED constraints
           \/ /\ ~Occurs(cb.members, ca.bound) /\ ~Occurs(ca.members, cb.bound)
              /\ CmpOk(ca.bound, cb.bound)
              /\ constraints' = constraints \o CmpEmits(ca.bound, cb.bound)
              /\ SetStore(Absorb(s, s[2][a], s[2][b])) /\ UNCHANGED phase
  BY ZenonT(60) DEF MergeBound
<1> DEFINE s  == Found2(a, b)
           i  == s[2][a]
           j  == s[2][b]
           ca == s[1][i]
           cb == s[1][j]
           f  == Absorb(s, i, j)
<1>2. Serve /\ a = Served.lhs /\ b = Served.rhs
  BY <1>1, ZenonT(60) DEF Merging
<1>3. /\ s = <<s[1], s[2]>> /\ StoreOK(<<s[1], s[2]>>)
      /\ i \in 1..Len(s[1]) /\ j \in 1..Len(s[1])
      /\ a \in ca.members /\ b \in cb.members
      /\ \A x \in Sol : SolvesStore(x, s) <=> SolvesStore(x, store)
  BY <1>1, Found2Facts, ZenonT(60)
<1>4. i # j /\ ca.bound # NoType /\ cb.bound # NoType
  BY <1>1, ZenonT(60)
<1>5. f = Absorb(<<s[1], s[2]>>, i, j)
  BY <1>3, ZenonT(60)
<1>6. \/ /\ Occurs(cb.members, ca.bound) \/ Occurs(ca.members, cb.bound) \/ ~CmpOk(ca.bound, cb.bound)
         /\ phase' \in TypeError /\ classes' = s[1] /\ class_of' = s[2] /\ UNCHANGED constraints
      \/ /\ CmpOk(ca.bound, cb.bound) /\ UNCHANGED phase
         /\ constraints' = constraints \o CmpEmits(ca.bound, cb.bound)
         /\ classes' = f[1] /\ class_of' = f[2]
  BY <1>1, ZenonT(60) DEF SetStore, TypeError
<1>7. /\ ca.members \subseteq TypeAuto /\ cb.members \subseteq TypeAuto
      /\ ca.bound \in Ctor /\ cb.bound \in Ctor
  BY <1>3, <1>4, ClassFacts
<1> HIDE DEF s, i, j, f
<1>8. \A x \in Sol : SolvesStore(x, <<s[1], s[2]>>) <=> SolvesStore(x, store)
  BY <1>3
<1>9. \A x \in Sol :
        (SolvesStore(x, store) /\ x \in Sat(a, b))
        <=> (SolvesStore(x, f) /\ x \in Sat(ca.bound, cb.bound))
  BY <1>3, <1>4, <1>5, <1>8, AbsorbSolutions
<1>10. \A x : SolvesSeq(x, worklist) <=> SolvesSeq(x, worklist') /\ x \in Sat(a, b)
  BY <1>2, ServeFacts
<1>11. CASE /\ Occurs(cb.members, ca.bound) \/ Occurs(ca.members, cb.bound) \/ ~CmpOk(ca.bound, cb.bound)
            /\ phase' \in TypeError /\ classes' = s[1] /\ class_of' = s[2] /\ UNCHANGED constraints
  <2>1. ASSUME NEW x \in Sol, SolvesState(x)
        PROVE  FALSE
    <3>1. SolvesStore(x, f) /\ x \in Sat(ca.bound, cb.bound)
      BY <2>1, <1>9, <1>10 DEF SolvesState
    <3>2. CmpOk(ca.bound, cb.bound)
      BY <3>1, <1>7, EmitsExact
    <3>3. AbsorbShape(s[1], s[2], i, j, f)
      BY <1>3, <1>4, <1>5, AbsorbFacts
    <3>4. f[1][i] = Merged(ca, cb) /\ Len(f[1]) = Len(s[1])
      BY <3>3 DEF AbsorbShape
    <3>5. SolvesClass(x, Merged(ca, cb))
      BY <3>1, <3>4, <1>3 DEF SolvesStore
    <3>6. \A u \in ca.members \cup cb.members : x \in Sat(u, ca.bound)
      BY <3>5, <1>4 DEF SolvesClass, Merged
    <3>7. \A u \in ca.members \cup cb.members : x \in Sat(u, cb.bound)
      BY <3>1, <3>6, <1>7, SatFacts DEF Type
    <3> QED BY <3>2, <3>6, <3>7, <1>7, <1>11, OccursUnsolvable
  <2>2. StoreOK(<<classes', class_of'>>)
    BY <1>3, <1>11
  <2>3. constraints' \in Seq(Constraint) /\ phase' \in {"unify"} \cup Verdicts
    BY <1>2, <1>11, ServeFacts DEF TypeError, Verdicts
  <2> QED BY <1>2, <1>11, <2>1, <2>2, <2>3, ServeFacts, StepKeeps
<1>12. CASE /\ CmpOk(ca.bound, cb.bound) /\ UNCHANGED phase
            /\ constraints' = constraints \o CmpEmits(ca.bound, cb.bound)
            /\ classes' = f[1] /\ class_of' = f[2]
  <2>1. StoreOK(f) /\ f = <<f[1], f[2]>>
    <3>1. StoreOK(f)
      BY <1>3, <1>4, <1>5, AbsorbStoreOK
    <3>2. AbsorbShape(s[1], s[2], i, j, f)
      BY <1>3, <1>4, <1>5, AbsorbFacts
    <3> QED BY <3>1, <3>2 DEF AbsorbShape
  <2>2. store' = f /\ StoreOK(<<classes', class_of'>>)
    BY <1>12, <2>1 DEF store
  <2>3. CmpEmits(ca.bound, cb.bound) \in Seq(Constraint) /\ constraints \in Seq(Constraint)
    BY <1>2, <1>7, ComparatorAssumption, ServeFacts
  <2>4. ASSUME NEW x \in Sol
        PROVE  SolvesState(x)' <=> SolvesState(x)
    <3>1. SolvesStore(x, store)' <=> SolvesStore(x, f)
      BY <2>2 DEF SolvesStore, SolvesClass
    <3>2. SolvesSeq(x, constraints \o CmpEmits(ca.bound, cb.bound))
          <=> SolvesSeq(x, constraints) /\ SolvesSeq(x, CmpEmits(ca.bound, cb.bound))
      BY <2>3, SolvesConcat, SMTT(60)
    <3>3. SolvesSeq(x, constraints)'
          <=> SolvesSeq(x, constraints) /\ SolvesSeq(x, CmpEmits(ca.bound, cb.bound))
      BY <1>12, <3>2 DEF SolvesSeq
    <3>4. x \in Sat(ca.bound, cb.bound) <=> SolvesSeq(x, CmpEmits(ca.bound, cb.bound))
      BY <1>7, <1>12, EmitsExact
    <3>5. SolvesSeq(x, worklist)' <=> SolvesSeq(x, worklist')
      BY DEF SolvesSeq
    <3> QED BY <3>1, <3>3, <3>4, <3>5, <1>9, <1>10 DEF SolvesState
  <2>5. phase' \in {"unify"} \cup Verdicts /\ phase' \notin TypeError
    BY <1>2, <1>12, ServeFacts DEF TypeError
  <2>6. constraints' \in Seq(Constraint)
    BY <1>12, <2>3
  <2> QED BY <1>2, <2>2, <2>4, <2>5, <2>6, ServeFacts, StepKeeps
<1> QED BY <1>6, <1>11, <1>12, ZenonT(60)

-----------------------------------------------------------------------------
(* BindClass.                                                              *)
LEMMA Found1Facts ==
  ASSUME IInv, NEW v \in TypeAuto, NEW s, s = FindClass(store, v)
  PROVE  /\ s = <<s[1], s[2]>> /\ StoreOK(<<s[1], s[2]>>)
         /\ s[2][v] \in 1..Len(s[1]) /\ v \in s[1][s[2][v]].members
         /\ \A x \in Sol : SolvesStore(x, s) <=> SolvesStore(x, store)
<1>1. StoreOK(<<classes, class_of>>) /\ store = <<classes, class_of>>
  BY InvParts DEF Parts, store
<1>2. FindShape(classes, class_of, v, s)
  BY <1>1, FindClassLemma
<1>3. /\ s = <<s[1], s[2]>> /\ StoreOK(<<s[1], s[2]>>) /\ s[2][v] \in 1..Len(s[1])
      /\ \A x \in Sol : SolvesStore(x, s) <=> SolvesStore(x, store)
  BY <1>1, <1>2 DEF FindShape
<1>4. v \in s[1][s[2][v]].members
  BY <1>3, ClassFacts
<1> QED BY <1>3, <1>4

(* The type served with a variable is one of the program's.                *)
LEMMA ConcreteTypes == \A t \in Concrete : t \in Ctor
BY DEF Concrete

(* The served constraint holds exactly when v and t are equal.             *)
LEMMA BindingFacts ==
  ASSUME IInv, NEW v \in TypeAuto, NEW t \in Ctor, Binding(v, t)
  PROVE  /\ Serve
         /\ \A x : SolvesSeq(x, worklist) <=> SolvesSeq(x, worklist') /\ x \in Sat(v, t)
<1>1. Serve /\ (Served = [lhs |-> v, rhs |-> t] \/ Served = [lhs |-> t, rhs |-> v])
  BY DEF Binding
<1>2. Sat(Served.lhs, Served.rhs) = Sat(v, t)
  BY <1>1, SatFacts DEF Type
<1> QED BY <1>1, <1>2, ServeFacts

LEMMA BindBoundKeeps ==
  ASSUME IInv, BindBound
  PROVE  IInv'
<1>1. PICK v \in TypeAuto, t \in Ctor :
        LET s == FindClass(store, v)
            bound == s[1][s[2][v]].bound IN
        /\ Binding(v, t) /\ bound # NoType
        /\ SetStore(s)
        /\ \/ /\ ~CmpOk(bound, t)
              /\ phase' = "ERROR_UNEXPECTED_TYPE_FOR_EXPRESSION"
              /\ UNCHANGED constraints
           \/ /\ CmpOk(bound, t)
              /\ constraints' = constraints \o CmpEmits(bound, t)
              /\ UNCHANGED phase
  BY ConcreteTypes, ZenonT(60) DEF BindBound
<1> DEFINE s == FindClass(store, v)
           e == s[1][s[2][v]]
           emitted == CmpEmits(e.bound, t)
<1>2. /\ s = <<s[1], s[2]>> /\ StoreOK(<<s[1], s[2]>>)
      /\ s[2][v] \in 1..Len(s[1]) /\ v \in e.members
      /\ \A x \in Sol : SolvesStore(x, s) <=> SolvesStore(x, store)
  BY Found1Facts, ZenonT(60)
<1>3. /\ Serve
      /\ \A x : SolvesSeq(x, worklist) <=> SolvesSeq(x, worklist') /\ x \in Sat(v, t)
  BY <1>1, BindingFacts, ZenonT(60)
<1>4. e.bound \in Ctor
  BY <1>1, <1>2, ClassFacts, ZenonT(60)
<1>5. e.bound # NoType /\ classes' = s[1] /\ class_of' = s[2]
  BY <1>1, ZenonT(60) DEF SetStore
<1>6. \/ /\ ~CmpOk(e.bound, t) /\ phase' \in TypeError /\ UNCHANGED constraints
      \/ /\ CmpOk(e.bound, t) /\ UNCHANGED phase
         /\ constraints' = constraints \o emitted
  BY <1>1, ZenonT(60) DEF TypeError
<1>7. \A x \in Sol : SolvesStore(x, s) => x \in Sat(v, e.bound)
  BY <1>2, <1>5 DEF SolvesStore, SolvesClass
<1> HIDE DEF s, e, emitted
<1>8. store' = s /\ StoreOK(<<classes', class_of'>>)
  BY <1>2, <1>5 DEF store
<1>9. \A x \in Sol : x \in Sat(v, e.bound) =>
        (x \in Sat(v, t) <=> CmpOk(e.bound, t) /\ SolvesSeq(x, emitted))
  <2>1. \A x \in Sol : x \in Sat(e.bound, t) <=> CmpOk(e.bound, t) /\ SolvesSeq(x, emitted)
    BY <1>4, EmitsExact DEF emitted
  <2>2. \A x \in Sol : x \in Sat(v, e.bound) => (x \in Sat(v, t) <=> x \in Sat(e.bound, t))
    BY <1>4, SatFacts DEF Type
  <2> QED BY <2>1, <2>2
<1>10. CASE ~CmpOk(e.bound, t) /\ phase' \in TypeError /\ UNCHANGED constraints
  <2>1. \A x \in Sol : ~SolvesState(x)
    BY <1>2, <1>3, <1>7, <1>9, <1>10 DEF SolvesState
  <2>2. constraints' \in Seq(Constraint) /\ phase' \in {"unify"} \cup Verdicts
    BY <1>3, <1>10, ServeFacts DEF TypeError, Verdicts
  <2> QED BY <1>3, <1>8, <1>10, <2>1, <2>2, ServeFacts, StepKeeps
<1>11. CASE CmpOk(e.bound, t) /\ UNCHANGED phase /\ constraints' = constraints \o emitted
  <2>1. emitted \in Seq(Constraint) /\ constraints \in Seq(Constraint)
    BY <1>3, <1>4, ComparatorAssumption, ServeFacts DEF emitted
  <2>2. ASSUME NEW x \in Sol
        PROVE  SolvesState(x)' <=> SolvesState(x)
    <3>1. SolvesStore(x, store)' <=> SolvesStore(x, store)
      BY <1>2, <1>8 DEF SolvesStore, SolvesClass
    <3>2. SolvesSeq(x, constraints \o emitted)
          <=> SolvesSeq(x, constraints) /\ SolvesSeq(x, emitted)
      BY <2>1, SolvesConcat
    <3> HIDE DEF emitted
    <3>3. SolvesSeq(x, constraints)' <=> SolvesSeq(x, constraints) /\ SolvesSeq(x, emitted)
      BY <1>11, <3>2 DEF SolvesSeq
    <3>4. SolvesSeq(x, worklist)' <=> SolvesSeq(x, worklist')
      BY DEF SolvesSeq
    <3> QED BY <1>2, <1>3, <1>7, <1>9, <1>11, <3>1, <3>3, <3>4 DEF SolvesState
  <2>3. phase' \in {"unify"} \cup Verdicts /\ phase' \notin TypeError
    BY <1>3, <1>11, ServeFacts, SMTT(60) DEF TypeError
  <2>4. constraints' \in Seq(Constraint)
    BY <1>11, <2>1, SMTT(30)
  <2> QED BY <1>3, <1>8, <2>2, <2>3, <2>4, ServeFacts, StepKeeps
<1> QED BY <1>6, <1>10, <1>11, ZenonT(60)

LEMMA BindFreeKeeps ==
  ASSUME IInv, BindFree
  PROVE  IInv'
<1>1. PICK v \in TypeAuto, t \in Ctor :
        LET s == FindClass(store, v)
            i == s[2][v] IN
        /\ Binding(v, t) /\ s[1][i].bound = NoType
        /\ \/ /\ Occurs(s[1][i].members, t)
              /\ phase' = "ERROR_OCCURS_CHECK_INFINITE_TYPE"
              /\ SetStore(s)
           \/ /\ ~Occurs(s[1][i].members, t)
              /\ SetStore(<<[s[1] EXCEPT ![i].bound = t], s[2]>>)
              /\ UNCHANGED phase
        /\ UNCHANGED constraints
  BY ConcreteTypes DEF BindFree
<1> DEFINE s == FindClass(store, v)
           i == s[2][v]
           cl2 == [s[1] EXCEPT ![i].bound = t]
<1>2. /\ s = <<s[1], s[2]>> /\ StoreOK(<<s[1], s[2]>>)
      /\ i \in 1..Len(s[1]) /\ v \in s[1][i].members
      /\ \A x \in Sol : SolvesStore(x, s) <=> SolvesStore(x, store)
  BY Found1Facts
<1>3. /\ Serve
      /\ \A x : SolvesSeq(x, worklist) <=> SolvesSeq(x, worklist') /\ x \in Sat(v, t)
  BY <1>1, BindingFacts
<1>4. s[1][i].bound = NoType /\ UNCHANGED constraints
  BY <1>1
<1>5. \/ /\ Occurs(s[1][i].members, t) /\ phase' \in TypeError
         /\ classes' = s[1] /\ class_of' = s[2]
      \/ classes' = cl2 /\ class_of' = s[2] /\ UNCHANGED phase
  BY <1>1 DEF SetStore, TypeError
<1>6. constraints' \in Seq(Constraint)
  BY <1>3, <1>4, ServeFacts
<1> HIDE DEF s, i
<1>7. CASE /\ Occurs(s[1][i].members, t) /\ phase' \in TypeError
           /\ classes' = s[1] /\ class_of' = s[2]
  <2>1. s[1][i].members \subseteq TypeAuto
    BY <1>2, ClassFacts
  <2>2. ASSUME NEW x \in Sol, SolvesState(x)
        PROVE  FALSE
    <3>1. PICK u \in s[1][i].members : x \notin Sat(u, t)
      BY <1>7, <2>1, OccursUnsolvable
    <3>2. SolvesClass(x, s[1][i]) /\ x \in Sat(v, t)
      BY <1>2, <1>3, <2>2 DEF SolvesState, SolvesStore
    <3>3. x \in Sat(u, v)
      BY <1>2, <3>2 DEF SolvesClass
    <3> QED BY <1>2, <2>1, <3>1, <3>2, <3>3, SatFacts DEF Type
  <2>3. StoreOK(<<classes', class_of'>>)
    BY <1>2, <1>7
  <2>4. phase' \in {"unify"} \cup Verdicts
    BY <1>7 DEF TypeError, Verdicts
  <2> QED BY <1>3, <1>6, <1>7, <2>2, <2>3, <2>4, ServeFacts, StepKeeps
<1>8. CASE classes' = cl2 /\ class_of' = s[2] /\ UNCHANGED phase
  <2>1. /\ StoreOK(<<cl2, s[2]>>)
        /\ \A x \in Sol : (SolvesStore(x, <<s[1], s[2]>>) /\ x \in Sat(v, t))
                           <=> SolvesStore(x, <<cl2, s[2]>>)
    <3> DEFINE e == s[1]
               co == s[2]
    <3>1. StoreOK(<<e, co>>) /\ i \in 1..Len(e) /\ e[i].bound = NoType /\ v \in e[i].members
      BY <1>2, <1>4
    <3>2. cl2 = [e EXCEPT ![i].bound = t]
      OBVIOUS
    <3> HIDE DEF cl2, e, co
    <3>3. BoundShape(e, co, v, t, cl2)
      BY <3>1, <3>2, BindLemma
    <3> QED BY <3>3 DEF BoundShape, e, co
  <2> HIDE DEF cl2
  <2>2. store' = <<cl2, s[2]>> /\ StoreOK(<<classes', class_of'>>)
    BY <1>8, <2>1 DEF store
  <2>3. ASSUME NEW x \in Sol
        PROVE  SolvesState(x)' <=> SolvesState(x)
    <3>1. SolvesStore(x, store)' <=> SolvesStore(x, <<cl2, s[2]>>)
      BY <2>2 DEF SolvesStore, SolvesClass
    <3>2. SolvesSeq(x, constraints)' <=> SolvesSeq(x, constraints)
      BY <1>4
    <3>3. SolvesSeq(x, worklist)' <=> SolvesSeq(x, worklist')
      BY DEF SolvesSeq
    <3>4. SolvesStore(x, <<s[1], s[2]>>) <=> SolvesStore(x, store)
      BY <1>2
    <3> QED BY <1>3, <2>1, <3>1, <3>2, <3>3, <3>4 DEF SolvesState
  <2>4. phase' \in {"unify"} \cup Verdicts /\ phase' \notin TypeError
    BY <1>3, <1>8, ServeFacts DEF TypeError
  <2> QED BY <1>3, <1>6, <2>2, <2>3, <2>4, ServeFacts, StepKeeps
<1> HIDE DEF cl2
<1> QED BY <1>5, <1>7, <1>8, SMTT(60)

-----------------------------------------------------------------------------
(* The steps that serve no constraint.                                     *)
LEMMA QuietKeeps ==
  ASSUME IInv, UNCHANGED <<store, input>>, registry' \subseteq TypeAuto,
         constraints' \in Seq(Constraint), worklist' \in Seq(Constraint),
         phase' \in {"visit", "unify"} \cup Verdicts,
         phase' = "visit" => worklist' = <<>>,
         phase' \in TypeError <=> phase \in TypeError,
         \A x \in Sol : (SolvesSeq(x, constraints') /\ SolvesSeq(x, worklist'))
                        <=> (SolvesSeq(x, constraints) /\ SolvesSeq(x, worklist))
  PROVE  IInv'
<1>1. Parts
  BY InvParts
<1>2. \A x \in Sol : /\ SolvesInput(x)' <=> SolvesInput(x)
                     /\ SolvesStore(x, store)' <=> SolvesStore(x, store)
  BY DEF SolvesInput, SolvesStore, SolvesClass
<1>3. \A x \in Sol : /\ SolvesSeq(x, constraints)' <=> SolvesSeq(x, constraints')
                     /\ SolvesSeq(x, worklist)' <=> SolvesSeq(x, worklist')
  BY DEF SolvesSeq
<1>4. \A x \in Sol : SolvesState(x)' <=> SolvesState(x)
  BY <1>2, <1>3 DEF SolvesState
<1>5. TypeOK'
  BY <1>1 DEF Parts, TypeOK, store
<1>6. StoreOK(store)'
  BY <1>1 DEF Parts, StoreOK, Partition
<1> QED BY <1>1, <1>2, <1>4, <1>5, <1>6, InvPartsPrime DEF Parts

LEMMA FreshTypeVarKeeps ==
  ASSUME IInv, NEW v \in TypeAuto, FreshTypeVar(v)
  PROVE  IInv'
BY QuietKeeps DEF FreshTypeVar, IInv, TypeOK

LEMMA AddConstraintKeeps ==
  ASSUME IInv, NEW c \in Inputs, AddConstraint(c)
  PROVE  IInv'
<1>1. Parts
  BY InvParts
<1>2. c \in Constraint
  BY InputsAssumption
<1>3. /\ phase = "visit" /\ UNCHANGED <<registry, worklist, store, phase>>
      /\ constraints' = Append(constraints, c) /\ input' = input \cup {c}
  BY DEF AddConstraint
<1>4. TypeOK'
  BY <1>1, <1>2, <1>3 DEF Parts, TypeOK, store
<1>5. StoreOK(store)'
  BY <1>1, <1>3 DEF Parts, StoreOK, Partition
<1>6. ASSUME NEW x \in Sol
      PROVE  SolvesState(x)' <=> SolvesInput(x)'
  <2>1. SolvesState(x) <=> SolvesInput(x)
    BY <1>1, <1>3 DEF Parts, TypeError
  <2>2. SolvesInput(x)' <=> SolvesInput(x) /\ x \in Sat(c.lhs, c.rhs)
    BY <1>3 DEF SolvesInput
  <2>3. SolvesSeq(x, Append(constraints, c)) <=> SolvesSeq(x, constraints) /\ x \in Sat(c.lhs, c.rhs)
    BY <1>1, <1>2, SolvesAppend DEF Parts, TypeOK
  <2>4. SolvesSeq(x, constraints)' <=> SolvesSeq(x, constraints) /\ x \in Sat(c.lhs, c.rhs)
    BY <1>3, <2>3 DEF SolvesSeq
  <2>5. SolvesSeq(x, worklist)' <=> SolvesSeq(x, worklist)
    BY <1>3
  <2>6. SolvesStore(x, store)' <=> SolvesStore(x, store)
    BY <1>3 DEF SolvesStore, SolvesClass
  <2> QED BY <2>1, <2>2, <2>4, <2>5, <2>6 DEF SolvesState
<1> QED BY <1>1, <1>3, <1>4, <1>5, <1>6, InvPartsPrime DEF Parts, TypeError

(* An empty sequence of constraints has every solution.                    *)
LEMMA SolvesEmpty ==
  \A x : SolvesSeq(x, <<>>)
BY DEF SolvesSeq

LEMMA StartUnifyKeeps ==
  ASSUME IInv, StartUnify
  PROVE  IInv'
<1>1. /\ phase = "visit" /\ phase' = "unify" /\ UNCHANGED <<registry, store, input>>
      /\ worklist' = constraints /\ constraints' = <<>> /\ worklist = <<>>
  BY DEF StartUnify, IInv
<1>2. registry' \subseteq TypeAuto /\ constraints \in Seq(Constraint) /\ <<>> \in Seq(Constraint)
  BY <1>1 DEF IInv, TypeOK
<1>3. \A x \in Sol : (SolvesSeq(x, constraints') /\ SolvesSeq(x, worklist'))
                     <=> (SolvesSeq(x, constraints) /\ SolvesSeq(x, worklist))
  BY <1>1, SolvesEmpty
<1> QED BY <1>1, <1>2, <1>3, QuietKeeps DEF TypeError

LEMMA NextRoundKeeps ==
  ASSUME IInv, NextRound
  PROVE  IInv'
<1>1. /\ phase = "unify" /\ UNCHANGED <<registry, store, phase, input>>
      /\ worklist' = constraints /\ constraints' = <<>> /\ worklist = <<>>
  BY DEF NextRound
<1>2. registry' \subseteq TypeAuto /\ constraints \in Seq(Constraint) /\ <<>> \in Seq(Constraint)
  BY <1>1 DEF IInv, TypeOK
<1>3. \A x \in Sol : (SolvesSeq(x, constraints') /\ SolvesSeq(x, worklist'))
                     <=> (SolvesSeq(x, constraints) /\ SolvesSeq(x, worklist))
  BY <1>1, SolvesEmpty
<1> QED BY <1>1, <1>2, <1>3, QuietKeeps DEF TypeError

LEMMA FinishKeeps ==
  ASSUME IInv, Finish
  PROVE  IInv'
<1>1. /\ phase = "unify" /\ UNCHANGED <<registry, constraints, worklist, store, input>>
      /\ phase' \in {"ERROR_AMBIGUOUS_TYPE", "Well-typed"}
  BY DEF Finish
<1>2. registry' \subseteq TypeAuto /\ constraints' \in Seq(Constraint) /\ worklist' \in Seq(Constraint)
  BY <1>1 DEF IInv, TypeOK
<1> QED BY <1>1, <1>2, QuietKeeps DEF TypeError, Verdicts

LEMMA StutterKeeps ==
  ASSUME IInv, UNCHANGED vars
  PROVE  IInv'
<1>1. UNCHANGED <<registry, constraints, worklist, store, phase, input>>
  BY DEF vars, store
<1> QED BY <1>1, QuietKeeps DEF IInv, TypeOK

-----------------------------------------------------------------------------
LEMMA InitInv ==
  ASSUME Init
  PROVE  IInv
<1>1. /\ registry = {} /\ constraints = <<>> /\ worklist = <<>> /\ classes = <<>>
      /\ class_of = [v \in TypeAuto |-> 0] /\ phase = "visit" /\ input = {}
      /\ store = <<classes, class_of>>
  BY DEF Init, store
<1>2. TypeOK
  <2>1. constraints \in Seq(Constraint) /\ worklist \in Seq(Constraint) /\ classes \in Seq(EqClass)
    BY <1>1
  <2> QED BY <1>1, <2>1 DEF TypeOK
<1>3. StoreOK(store)
  BY <1>1, <1>2 DEF StoreOK, Partition, TypeOK
<1>4. \A x \in Sol : SolvesState(x) /\ SolvesInput(x)
  BY <1>1 DEF SolvesState, SolvesInput, SolvesStore, SolvesSeq
<1> QED BY <1>1, <1>2, <1>3, <1>4, InvParts DEF Parts, TypeError

LEMMA NextKeeps ==
  ASSUME IInv, [Next]_vars
  PROVE  IInv'
<1>1. ASSUME NEW v \in TypeAuto, FreshTypeVar(v) PROVE IInv'
  BY <1>1, FreshTypeVarKeeps
<1>2. ASSUME NEW c \in Inputs, AddConstraint(c) PROVE IInv'
  BY <1>2, AddConstraintKeeps
<1>3. CASE StartUnify
  BY <1>3, StartUnifyKeeps
<1>4. CASE UnifyStep
  BY <1>4, MergeSameKeeps, MergeFreeKeeps, MergeBoundKeeps, BindBoundKeeps, BindFreeKeeps,
     NextRoundKeeps, FinishKeeps DEF UnifyStep
<1>5. CASE UNCHANGED vars
  BY <1>5, StutterKeeps
<1> QED BY <1>1, <1>2, <1>3, <1>4, <1>5 DEF Next, Exit

(* The inductive invariant holds in every reachable state of the unifier.  *)
THEOREM Inductive == Spec => []IInv
<1>1. Init => IInv
  BY InitInv
<1>2. IInv /\ [Next]_vars => IInv'
  BY NextKeeps
<1> QED BY <1>1, <1>2, PTL DEF Spec

(* Every variable of Unifier keeps its type: in particular UnifyOne always *)
(* works on constraints between types, and class_of_ holds indices.        *)
THEOREM TypeCorrect == Spec => []TypeOK
<1>1. IInv => TypeOK
  BY DEF IInv
<1> QED BY <1>1, Inductive, PTL

(* classes_ and class_of_ describe one partition, whatever the constraints *)
(* and the order UnifyAll serves them in.                                  *)
THEOREM PartitionKept == Spec => []ClassesPartition
<1>1. IInv => ClassesPartition
  BY DEF IInv
<1> QED BY <1>1, Inductive, PTL

(* UnifyAll neither loses nor invents a solution of the constraints that   *)
(* the visitors added.                                                     *)
THEOREM SolutionsKept == Spec => []SolutionsPreserved
<1>1. IInv => SolutionsPreserved
  BY DEF IInv
<1> QED BY <1>1, Inductive, PTL

(* ReportUnificationError is reached only when no assignment of finite     *)
(* types satisfies the constraints.                                        *)
THEOREM ErrorsSound == Spec => []ErrorsJustified
<1>1. IInv => ErrorsJustified
  BY DEF IInv
<1> QED BY <1>1, Inductive, PTL

-----------------------------------------------------------------------------
(* The refinement of Reconstruction.                                       *)
LEMMA PhaseVerdicts ==
  /\ "Well-typed" \notin TypeError /\ "ERROR_AMBIGUOUS_TYPE" \notin TypeError
  /\ "visit" \notin TypeError /\ "unify" \notin TypeError
  /\ "visit" # "Well-typed" /\ "visit" # "ERROR_AMBIGUOUS_TYPE"
  /\ "unify" # "Well-typed" /\ "unify" # "ERROR_AMBIGUOUS_TYPE"
BY DEF TypeError

AbsVerdict == CASE phase = "Well-typed"           -> "accepted"
                [] phase \in TypeError            -> "type error"
                [] phase = "ERROR_AMBIGUOUS_TYPE" -> "ambiguous"
                [] OTHER                          -> "none"
AbsTyping  == IF phase = "Well-typed" THEN BindingSolutions ELSE {}

LEMMA VerdictOf ==
  /\ phase \in {"visit", "unify"} => AbsVerdict = "none" /\ AbsTyping = {}
  /\ phase \in TypeError => AbsVerdict = "type error" /\ AbsTyping = {}
  /\ phase = "ERROR_AMBIGUOUS_TYPE" => AbsVerdict = "ambiguous" /\ AbsTyping = {}
  /\ phase = "Well-typed" => AbsVerdict = "accepted" /\ AbsTyping = BindingSolutions
BY PhaseVerdicts DEF AbsVerdict, AbsTyping

LEMMA VerdictOfPrime ==
  /\ phase' \in {"visit", "unify"} => AbsVerdict' = "none" /\ AbsTyping' = {}
  /\ phase' \in TypeError => AbsVerdict' = "type error" /\ AbsTyping' = {}
  /\ phase' = "ERROR_AMBIGUOUS_TYPE" => AbsVerdict' = "ambiguous" /\ AbsTyping' = {}
  /\ phase' = "Well-typed" => AbsVerdict' = "accepted" /\ AbsTyping' = BindingSolutions'
BY PhaseVerdicts DEF AbsVerdict, AbsTyping, TypeError

(* A step of UnifyAll that serves a constraint goes on or reports an error *)
(* of types.                                                               *)
Serving == MergeSame \/ MergeFree \/ MergeBound \/ BindBound \/ BindFree

LEMMA ServingPhases ==
  ASSUME Serving
  PROVE  phase = "unify" /\ input' = input /\ (phase' = "unify" \/ phase' \in TypeError)
<1>1. Serve => phase = "unify" /\ input' = input
  BY DEF Serve
<1>2. CASE MergeSame
  BY <1>1, <1>2 DEF MergeSame, Merging
<1>3. CASE MergeFree
  <2>1. PICK a \in TypeAuto, b \in TypeAuto : Merging(a, b) /\ UNCHANGED phase
    BY <1>3, ZenonT(60) DEF MergeFree
  <2> QED BY <1>1, <2>1 DEF Merging
<1>4. CASE MergeBound
  <2>1. \E a \in TypeAuto, b \in TypeAuto : Merging(a, b)
    BY <1>4, ZenonT(60) DEF MergeBound
  <2>2. Serve
    BY <2>1 DEF Merging
  <2>3. \/ phase' = "ERROR_OCCURS_CHECK_INFINITE_TYPE"
        \/ phase' = "ERROR_UNEXPECTED_TYPE_FOR_EXPRESSION"
        \/ UNCHANGED phase
    BY <1>4, ZenonT(60) DEF MergeBound
  <2> QED BY <1>1, <2>2, <2>3 DEF TypeError
<1>5. CASE BindBound
  BY <1>1, <1>5, ZenonT(60) DEF BindBound, Binding, TypeError
<1>6. CASE BindFree
  <2>1. PICK v \in TypeAuto, t \in Ctor :
          /\ Binding(v, t)
          /\ phase' = "ERROR_OCCURS_CHECK_INFINITE_TYPE" \/ UNCHANGED phase
    BY <1>6, ConcreteTypes, ZenonT(60) DEF BindFree
  <2> QED BY <1>1, <2>1 DEF Binding, TypeError
<1> QED BY <1>2, <1>3, <1>4, <1>5, <1>6 DEF Serving

LEMMA QuietRefines ==
  ASSUME phase \in {"visit", "unify"}, phase' \in {"visit", "unify"}, input' = input
  PROVE  UNCHANGED <<InputSolutions, AbsVerdict, AbsTyping>>
BY VerdictOf, VerdictOfPrime DEF InputSolutions

LEMMA StepRefines ==
  ASSUME IInv, IInv', [Next]_vars
  PROVE  [Promise!Next]_<<InputSolutions, AbsVerdict, AbsTyping>>
<1>1. ASSUME NEW v \in TypeAuto, FreshTypeVar(v)
      PROVE  UNCHANGED <<InputSolutions, AbsVerdict, AbsTyping>>
  BY <1>1, QuietRefines DEF FreshTypeVar
<1>2. ASSUME NEW c \in Inputs, AddConstraint(c)
      PROVE  Promise!Constrain
  <2>1. phase = "visit" /\ phase' = "visit" /\ input' = input \cup {c}
    BY <1>2 DEF AddConstraint
  <2>2. InputSolutions' = InputSolutions \cap Sat(c.lhs, c.rhs)
    BY <2>1 DEF InputSolutions
  <2> QED BY <2>1, <2>2, VerdictOf, VerdictOfPrime DEF Promise!Constrain, AbsVerdict, AbsTyping
<1>3. CASE StartUnify
  BY <1>3, QuietRefines DEF StartUnify
<1>4. CASE Serving
  <2>1. CASE phase' = "unify"
    BY <1>4, <2>1, ServingPhases, QuietRefines
  <2>2. CASE phase' \in TypeError
    <3>1. InputSolutions' = InputSolutions
      BY <1>4, ServingPhases DEF InputSolutions
    <3>2. InputSolutions' = {}
      BY <2>2 DEF IInv, ErrorsJustified, TypeError
    <3>3. /\ AbsVerdict = "none" /\ AbsTyping = {}
          /\ AbsVerdict' = "type error" /\ AbsTyping' = {}
      BY <1>4, <2>2, ServingPhases, VerdictOf, VerdictOfPrime
    <3>4. Promise!RejectUnsolvable
      BY <3>1, <3>2, <3>3 DEF Promise!RejectUnsolvable, AbsVerdict, AbsTyping
    <3> QED BY <3>4 DEF Promise!Next
  <2> QED BY <1>4, <2>1, <2>2, ServingPhases
<1>5. CASE NextRound
  BY <1>5, QuietRefines DEF NextRound
<1>6. CASE Finish
  <2>1. /\ phase = "unify" /\ UNCHANGED <<constraints, worklist, store, input>>
        /\ worklist = <<>> /\ constraints = <<>>
        /\ phase' \in {"ERROR_AMBIGUOUS_TYPE", "Well-typed"}
    BY <1>6 DEF Finish
  <2>2. InputSolutions' = InputSolutions /\ AbsVerdict = "none" /\ AbsTyping = {}
    BY <2>1, VerdictOf DEF InputSolutions
  <2>3. CASE phase' = "ERROR_AMBIGUOUS_TYPE"
    <3>1. Promise!RejectAmbiguous
      BY <2>2, <2>3, VerdictOfPrime DEF Promise!RejectAmbiguous, AbsVerdict, AbsTyping
    <3> QED BY <3>1 DEF Promise!Next
  <2>4. CASE phase' = "Well-typed"
    <3>1. Remaining = InputSolutions
      BY <2>1, PhaseVerdicts DEF IInv, SolutionsPreserved
    <3>2. Remaining = BindingSolutions
      BY <2>1, SolvesEmpty DEF Remaining, BindingSolutions
    <3>3. BindingSolutions' = BindingSolutions
      BY <2>1 DEF BindingSolutions, SolvesStore, SolvesClass
    <3>4. AbsVerdict' = "accepted" /\ AbsTyping' = InputSolutions
      BY <2>4, <3>1, <3>2, <3>3, VerdictOfPrime
    <3>5. Promise!Accept
      BY <2>2, <3>4 DEF Promise!Accept, AbsVerdict, AbsTyping
    <3> QED BY <3>5 DEF Promise!Next
  <2> QED BY <2>1, <2>3, <2>4
<1>7. CASE UNCHANGED vars
  BY <1>7 DEF vars, store, InputSolutions, AbsVerdict, AbsTyping, BindingSolutions,
              SolvesStore, SolvesClass
<1> QED BY <1>1, <1>2, <1>3, <1>4, <1>5, <1>6, <1>7
    DEF Next, UnifyStep, Exit, Serving, Promise!Next

(* The unifier implements Reconstruction: errors are reported only on      *)
(* unsolvable programs, and the classes of an accepted program stand for   *)
(* exactly the solutions of the constraints its visitors added.            *)
THEOREM Refinement == Spec => ImplementsReconstruction
<1>1. Init => Promise!Init
  <2> SUFFICES ASSUME Init PROVE Promise!Init
    OBVIOUS
  <2>1. phase = "visit" /\ input = {}
    BY DEF Init
  <2>2. InputSolutions = Sol
    BY <2>1 DEF InputSolutions
  <2>3. AbsVerdict = "none" /\ AbsTyping = {}
    BY <2>1, VerdictOf
  <2> QED BY <2>2, <2>3 DEF Promise!Init, AbsVerdict, AbsTyping
<1>2. IInv /\ IInv' /\ [Next]_vars => [Promise!Next]_(Promise!vars)
  BY StepRefines DEF Promise!vars, AbsVerdict, AbsTyping
<1> QED BY <1>1, <1>2, Inductive, PTL DEF Spec, ImplementsReconstruction, Promise!Spec

-----------------------------------------------------------------------------
(* The last loop of UnifyAll: every variable that a constraint or a class  *)
(* mentions is registered, so that a program is only accepted when each of *)
(* them has a bound type, and then the constraints leave no choice.        *)
(* Only registered variables.                                              *)
Present(t)           == VarsOf(t) \subseteq registry
PresentIn(cs)        == \A i \in 1..Len(cs) : Present(cs[i].lhs) /\ Present(cs[i].rhs)
PresentBounds(cl)    == \A i \in 1..Len(cl) : cl[i].bound # NoType => Present(cl[i].bound)

Mentioned ==
  /\ PresentIn(constraints) /\ PresentIn(worklist) /\ PresentBounds(classes)
  /\ phase = "Well-typed" =>
       worklist = <<>> /\ constraints = <<>> /\ \A v \in registry : ~Unbound(v)

-----------------------------------------------------------------------------
(* Sequences of constraints.                                               *)
LEMMA PresentAppend ==
  ASSUME NEW cs \in Seq(Constraint), PresentIn(cs), NEW c \in Constraint, Present(c.lhs), Present(c.rhs)
  PROVE  PresentIn(Append(cs, c))
BY DEF PresentIn

LEMMA PresentConcat ==
  ASSUME NEW cs \in Seq(Constraint), NEW es \in Seq(Constraint), PresentIn(cs), PresentIn(es)
  PROVE  PresentIn(cs \o es)
<1> DEFINE both == cs \o es
           m == Len(cs)
           n == Len(es)
<1>1. /\ Len(both) = m + n /\ m \in Nat /\ n \in Nat
      /\ \A i \in 1..m : both[i] = cs[i]
      /\ \A i \in 1..n : both[m + i] = es[i]
  OBVIOUS
<1>2. ASSUME NEW i \in 1..Len(both) PROVE Present(both[i].lhs) /\ Present(both[i].rhs)
  <2>1. CASE i \in 1..m
    BY <1>1, <2>1 DEF PresentIn
  <2>2. CASE i \notin 1..m
    <3>1. i - m \in 1..n /\ both[m + (i - m)] = both[i]
      BY <1>1, <2>2
    <3> HIDE DEF both
    <3>2. both[i] = es[i - m]
      BY <1>1, <3>1
    <3> QED BY <3>1, <3>2 DEF PresentIn
  <2> QED BY <2>1, <2>2
<1> QED BY <1>2 DEF PresentIn

LEMMA ServePresent ==
  ASSUME IInv, Serve, PresentIn(worklist)
  PROVE  PresentIn(worklist') /\ Present(Served.lhs) /\ Present(Served.rhs)
<1>1. worklist \in Seq(Constraint) /\ worklist # <<>> /\ worklist' = SubSeq(worklist, 1, Len(worklist) - 1)
  BY DEF Serve, IInv, TypeOK
<1>2. Len(worklist) \in Nat \ {0}
  BY <1>1, AllButLast
<1>3. Len(worklist') = Len(worklist) - 1 /\ \A i \in 1..Len(worklist') : worklist'[i] = worklist[i]
  BY <1>1, AllButLast
<1>4. PresentIn(worklist')
  BY <1>2, <1>3 DEF PresentIn
<1>5. Present(Served.lhs) /\ Present(Served.rhs)
  BY <1>2 DEF PresentIn, Served
<1> QED BY <1>4, <1>5

(* What a comparison of two types adds holds no other variables.           *)
LEMMA EmitsPresent ==
  ASSUME NEW s \in Ctor, NEW t \in Ctor, Present(s), Present(t)
  PROVE  CmpEmits(s, t) \in Seq(Constraint) /\ PresentIn(CmpEmits(s, t))
<1>1. VarsOf(s) = AutosOf(s) /\ VarsOf(t) = AutosOf(t)
  BY TermsAssumption DEF VarsOf
<1>2. CmpEmits(s, t) \in Seq(Constraint)
  BY ComparatorAssumption
<1>3. \A i \in 1..Len(CmpEmits(s, t)) :
        /\ VarsOf(CmpEmits(s, t)[i].lhs) \subseteq AutosOf(s) \cup AutosOf(t)
        /\ VarsOf(CmpEmits(s, t)[i].rhs) \subseteq AutosOf(s) \cup AutosOf(t)
  BY ComparatorAssumption
<1> QED BY <1>1, <1>2, <1>3 DEF PresentIn, Present

-----------------------------------------------------------------------------
(* Classes.                                                                *)
LEMMA FindClassPresent ==
  ASSUME NEW cl, NEW co, StoreOK(<<cl, co>>), PresentBounds(cl), NEW v \in TypeAuto
  PROVE  PresentBounds(FindClass(<<cl, co>>, v)[1])
<1> DEFINE e == [members |-> {v}, bound |-> NoType]
<1>1. CASE co[v] # 0
  BY <1>1 DEF FindClass
<1>2. CASE co[v] = 0
  <2>1. FindClass(<<cl, co>>, v)[1] = Append(cl, e)
    BY <1>2 DEF FindClass
  <2>2. cl \in Seq(EqClass) /\ e \in EqClass
    BY DEF StoreOK, EqClass
  <2>3. e.bound = NoType
    OBVIOUS
  <2> HIDE DEF e
  <2>4. \A i \in 1..Len(Append(cl, e)) :
          (i \in 1..Len(cl) /\ Append(cl, e)[i] = cl[i]) \/ Append(cl, e)[i] = e
    BY <2>2
  <2> QED BY <2>1, <2>3, <2>4 DEF PresentBounds
<1> QED BY <1>1, <1>2

LEMMA StorePresent ==
  ASSUME IInv, PresentBounds(classes)
  PROVE  /\ \A v \in TypeAuto : PresentBounds(FindClass(store, v)[1])
         /\ \A a, b \in TypeAuto : PresentBounds(Found2(a, b)[1])
<1>1. StoreOK(<<classes, class_of>>) /\ store = <<classes, class_of>>
  BY InvParts DEF Parts, store
<1>2. \A v \in TypeAuto : PresentBounds(FindClass(store, v)[1])
  BY <1>1, FindClassPresent
<1>3. ASSUME NEW a \in TypeAuto, NEW b \in TypeAuto
      PROVE  PresentBounds(Found2(a, b)[1])
  <2> DEFINE f == FindClass(store, a)
  <2>1. FindShape(classes, class_of, a, f)
    BY <1>1, FindClassLemma
  <2>2. f = <<f[1], f[2]>> /\ StoreOK(f) /\ PresentBounds(f[1])
    BY <1>2, <2>1 DEF FindShape
  <2>3. Found2(a, b) = FindClass(f, b)
    BY DEF Found2
  <2> HIDE DEF f
  <2>4. StoreOK(<<f[1], f[2]>>) /\ FindClass(f, b) = FindClass(<<f[1], f[2]>>, b)
    BY <2>2
  <2> QED BY <2>2, <2>3, <2>4, FindClassPresent
<1> QED BY <1>2, <1>3

LEMMA AbsorbPresent ==
  ASSUME NEW cl, NEW co, StoreOK(<<cl, co>>), PresentBounds(cl),
         NEW i \in 1..Len(cl), NEW j \in 1..Len(cl), i # j,
         NEW f, f = Absorb(<<cl, co>>, i, j)
  PROVE  PresentBounds(f[1])
<1>1. AbsorbShape(cl, co, i, j, f)
  BY AbsorbFacts
<1>2. /\ Len(f[1]) = Len(cl) /\ f[1][i] = Merged(cl[i], cl[j]) /\ f[1][j] = Emptied
      /\ \A k \in 1..Len(cl) : k # i /\ k # j => f[1][k] = cl[k]
  BY <1>1 DEF AbsorbShape
<1>3. Merged(cl[i], cl[j]).bound \in {cl[i].bound, cl[j].bound} /\ Emptied.bound = NoType
  BY DEF Merged, Emptied
<1> QED BY <1>2, <1>3 DEF PresentBounds

-----------------------------------------------------------------------------
(* The steps of UnifyAll.                                                  *)
LEMMA ServingMentioned ==
  ASSUME IInv, Mentioned, Serving, Serve, PresentIn(constraints'), PresentBounds(classes')
  PROVE  Mentioned'
<1>1. registry' = registry /\ PresentIn(worklist')
  BY ServePresent DEF Serve, Mentioned
<1>2. phase' # "Well-typed"
  BY ServingPhases, PhaseVerdicts
<1>3. PresentIn(constraints)' /\ PresentIn(worklist)' /\ PresentBounds(classes)'
  BY <1>1 DEF PresentIn, PresentBounds, Present
<1> QED BY <1>2, <1>3 DEF Mentioned

LEMMA MergeSameMentioned ==
  ASSUME IInv, Mentioned, MergeSame
  PROVE  Mentioned'
<1>1. PICK a \in TypeAuto, b \in TypeAuto : Merging(a, b) /\ SetStore(Found2(a, b)) /\ UNCHANGED constraints
  BY DEF MergeSame
<1>2. classes' = Found2(a, b)[1] /\ Serve
  BY <1>1 DEF SetStore, Merging
<1> QED BY <1>1, <1>2, StorePresent, ServingMentioned DEF Mentioned, Serving

LEMMA AbsorbMentioned ==
  ASSUME IInv, Mentioned, Serving, NEW a \in TypeAuto, NEW b \in TypeAuto, Merging(a, b),
         NEW s, s = Found2(a, b), s[2][a] # s[2][b], SetStore(Absorb(s, s[2][a], s[2][b])),
         PresentIn(constraints')
  PROVE  Mentioned'
<1>1. /\ s = <<s[1], s[2]>> /\ StoreOK(<<s[1], s[2]>>)
      /\ s[2][a] \in 1..Len(s[1]) /\ s[2][b] \in 1..Len(s[1])
  BY Found2Facts
<1>2. PresentBounds(s[1])
  BY StorePresent DEF Mentioned
<1>3. PresentBounds(Absorb(s, s[2][a], s[2][b])[1])
  BY <1>1, <1>2, AbsorbPresent
<1> QED BY <1>3, ServingMentioned DEF SetStore, Merging

LEMMA MergeFreeMentioned ==
  ASSUME IInv, Mentioned, MergeFree
  PROVE  Mentioned'
<1>1. PICK a \in TypeAuto, b \in TypeAuto :
        LET s == Found2(a, b) IN
        /\ Merging(a, b) /\ s[2][a] # s[2][b]
        /\ SetStore(Absorb(s, s[2][a], s[2][b])) /\ UNCHANGED constraints
  BY DEF MergeFree
<1> QED BY <1>1, AbsorbMentioned DEF Mentioned, Serving

LEMMA MergeBoundMentioned ==
  ASSUME IInv, Mentioned, MergeBound
  PROVE  Mentioned'
<1>1. PICK a \in TypeAuto, b \in TypeAuto :
        LET s  == Found2(a, b)
            ca == s[1][s[2][a]]
            cb == s[1][s[2][b]] IN
        /\ Merging(a, b) /\ s[2][a] # s[2][b] /\ ca.bound # NoType /\ cb.bound # NoType
        /\ \/ SetStore(s) /\ UNCHANGED constraints
           \/ /\ constraints' = constraints \o CmpEmits(ca.bound, cb.bound)
              /\ SetStore(Absorb(s, s[2][a], s[2][b]))
  BY ZenonT(60) DEF MergeBound
<1> DEFINE s  == Found2(a, b)
           ca == s[1][s[2][a]]
           cb == s[1][s[2][b]]
<1>2. /\ s = <<s[1], s[2]>> /\ StoreOK(<<s[1], s[2]>>)
      /\ s[2][a] \in 1..Len(s[1]) /\ s[2][b] \in 1..Len(s[1])
      /\ PresentBounds(s[1])
  BY Found2Facts, StorePresent DEF Mentioned
<1>3. /\ Merging(a, b) /\ s[2][a] # s[2][b] /\ ca.bound # NoType /\ cb.bound # NoType
      /\ \/ SetStore(s) /\ UNCHANGED constraints
         \/ /\ constraints' = constraints \o CmpEmits(ca.bound, cb.bound)
            /\ SetStore(Absorb(s, s[2][a], s[2][b]))
  BY <1>1
<1>4. s = Found2(a, b)
  OBVIOUS
<1> HIDE DEF s
<1>5. CASE SetStore(s) /\ UNCHANGED constraints
  BY <1>2, <1>3, <1>5, ServingMentioned DEF SetStore, Merging, Mentioned, Serving
<1>6. CASE /\ constraints' = constraints \o CmpEmits(ca.bound, cb.bound)
           /\ SetStore(Absorb(s, s[2][a], s[2][b]))
  <2>1. ca.bound \in Ctor /\ cb.bound \in Ctor
    BY <1>2, <1>3, ClassFacts
  <2>2. Present(ca.bound) /\ Present(cb.bound)
    BY <1>2, <1>3 DEF PresentBounds
  <2>3. constraints \in Seq(Constraint) /\ PresentIn(constraints)
    BY DEF IInv, TypeOK, Mentioned
  <2>4. PresentIn(constraints')
    BY <1>6, <2>1, <2>2, <2>3, EmitsPresent, PresentConcat
  <2> QED BY <1>3, <1>4, <1>6, <2>4, AbsorbMentioned DEF Serving
<1> QED BY <1>3, <1>5, <1>6

LEMMA BoundPresent ==
  ASSUME IInv, Mentioned, NEW v \in TypeAuto, NEW t \in Ctor, Binding(v, t)
  PROVE  Serve /\ Present(t) /\ PresentBounds(FindClass(store, v)[1])
<1>1. Serve /\ (Served = [lhs |-> v, rhs |-> t] \/ Served = [lhs |-> t, rhs |-> v])
  BY DEF Binding
<1>2. Present(Served.lhs) /\ Present(Served.rhs)
  BY <1>1, ServePresent DEF Mentioned
<1>3. Present(t)
  BY <1>1, <1>2
<1> QED BY <1>1, <1>3, StorePresent DEF Mentioned

LEMMA BindBoundMentioned ==
  ASSUME IInv, Mentioned, BindBound
  PROVE  Mentioned'
<1>1. PICK v \in TypeAuto, t \in Ctor :
        LET s == FindClass(store, v)
            bound == s[1][s[2][v]].bound IN
        /\ Binding(v, t) /\ bound # NoType /\ SetStore(s)
        /\ UNCHANGED constraints \/ constraints' = constraints \o CmpEmits(bound, t)
  BY ConcreteTypes, ZenonT(60) DEF BindBound
<1> DEFINE s == FindClass(store, v)
           bound == s[1][s[2][v]].bound
<1>2. /\ s = <<s[1], s[2]>> /\ StoreOK(<<s[1], s[2]>>) /\ s[2][v] \in 1..Len(s[1])
      /\ PresentBounds(s[1]) /\ Present(t) /\ Serve
  BY <1>1, Found1Facts, BoundPresent
<1>3. /\ bound # NoType /\ SetStore(s)
      /\ UNCHANGED constraints \/ constraints' = constraints \o CmpEmits(bound, t)
  BY <1>1
<1> HIDE DEF s
<1>4. bound \in Ctor /\ Present(bound)
  BY <1>2, <1>3, ClassFacts DEF PresentBounds
<1>5. constraints \in Seq(Constraint) /\ PresentIn(constraints)
  BY DEF IInv, TypeOK, Mentioned
<1>6. PresentIn(constraints')
  BY <1>2, <1>3, <1>4, <1>5, EmitsPresent, PresentConcat
<1> QED BY <1>2, <1>3, <1>6, ServingMentioned DEF SetStore, Serving

LEMMA BindFreeMentioned ==
  ASSUME IInv, Mentioned, BindFree
  PROVE  Mentioned'
<1>1. PICK v \in TypeAuto, t \in Ctor :
        LET s == FindClass(store, v)
            i == s[2][v] IN
        /\ Binding(v, t) /\ UNCHANGED constraints
        /\ SetStore(s) \/ SetStore(<<[s[1] EXCEPT ![i].bound = t], s[2]>>)
  BY ConcreteTypes DEF BindFree
<1> DEFINE s == FindClass(store, v)
           i == s[2][v]
           cl2 == [s[1] EXCEPT ![i].bound = t]
<1>2. /\ s = <<s[1], s[2]>> /\ StoreOK(<<s[1], s[2]>>) /\ i \in 1..Len(s[1])
      /\ PresentBounds(s[1]) /\ Present(t) /\ Serve
  BY <1>1, Found1Facts, BoundPresent
<1>3. UNCHANGED constraints /\ (classes' = s[1] \/ classes' = cl2)
  BY <1>1 DEF SetStore
<1>4. s[1] \in Seq(EqClass)
  BY <1>2 DEF StoreOK
<1> HIDE DEF s
<1>5. Len(cl2) = Len(s[1]) /\ cl2[i].bound = t /\ \A k \in 1..Len(s[1]) : k # i => cl2[k] = s[1][k]
  BY <1>2, <1>4 DEF EqClass
<1> HIDE DEF cl2
<1>6. PresentBounds(classes')
  BY <1>2, <1>3, <1>5 DEF PresentBounds
<1> QED BY <1>2, <1>3, <1>6, ServingMentioned DEF Mentioned, Serving

LEMMA UnifyMentioned ==
  ASSUME IInv, Mentioned, UnifyStep
  PROVE  Mentioned'
<1>1. CASE NextRound
  <2>1. /\ worklist' = constraints /\ constraints' = <<>> /\ classes' = classes /\ phase' = phase
        /\ registry' = registry /\ phase = "unify"
    BY <1>1 DEF NextRound, store
  <2>2. PresentIn(<<>>)
    BY DEF PresentIn
  <2> QED BY <2>1, <2>2, PhaseVerdicts DEF Mentioned, PresentIn, PresentBounds, Present
<1>2. CASE Finish
  <2>1. /\ worklist = <<>> /\ constraints = <<>>
        /\ UNCHANGED <<registry, constraints, worklist, classes, class_of>>
        /\ phase' = "Well-typed" => \A v \in registry : ~Unbound(v)
    BY <1>2 DEF Finish, store
  <2> QED BY <2>1 DEF Mentioned, PresentIn, PresentBounds, Present, Unbound
<1> QED BY <1>1, <1>2, MergeSameMentioned, MergeFreeMentioned, MergeBoundMentioned,
           BindBoundMentioned, BindFreeMentioned DEF UnifyStep

LEMMA NextMentioned ==
  ASSUME IInv, Mentioned, [Next]_vars
  PROVE  Mentioned'
<1>1. ASSUME NEW v \in TypeAuto, FreshTypeVar(v) PROVE Mentioned'
  <2>1. /\ registry \subseteq registry' /\ phase' = "visit"
        /\ UNCHANGED <<constraints, worklist, classes>>
    BY <1>1 DEF FreshTypeVar, store
  <2> QED BY <2>1, PhaseVerdicts DEF Mentioned, PresentIn, PresentBounds, Present
<1>2. ASSUME NEW c \in Inputs, AddConstraint(c) PROVE Mentioned'
  <2>1. /\ constraints' = Append(constraints, c) /\ Present(c.lhs) /\ Present(c.rhs)
        /\ UNCHANGED <<registry, worklist, classes>> /\ phase' = "visit"
    BY <1>2 DEF AddConstraint, store, Present
  <2>2. constraints \in Seq(Constraint) /\ c \in Constraint
    BY InputsAssumption DEF IInv, TypeOK
  <2>3. PresentIn(constraints')
    BY <2>1, <2>2, PresentAppend DEF Mentioned
  <2> QED BY <2>1, <2>3, PhaseVerdicts DEF Mentioned, PresentIn, PresentBounds, Present
<1>3. CASE StartUnify
  <2>1. /\ worklist' = constraints /\ constraints' = <<>> /\ phase' = "unify"
        /\ UNCHANGED <<registry, classes>>
    BY <1>3 DEF StartUnify, store
  <2>2. PresentIn(<<>>)
    BY DEF PresentIn
  <2> QED BY <2>1, <2>2, PhaseVerdicts DEF Mentioned, PresentIn, PresentBounds, Present
<1>4. CASE Exit \/ UNCHANGED vars
  <2>1. UNCHANGED <<registry, constraints, worklist, classes, class_of, phase>>
    BY <1>4 DEF Exit, vars
  <2> QED BY <2>1 DEF Mentioned, PresentIn, PresentBounds, Present, Unbound
<1> QED BY <1>1, <1>2, <1>3, <1>4, UnifyMentioned DEF Next

-----------------------------------------------------------------------------
(* A set of numbers has a least one.                                       *)
LEMMA Smallest ==
  ASSUME NEW T \in SUBSET Nat, T # {}
  PROVE  \E n \in T : \A m \in T : n <= m
<1> DEFINE R == {ss \in Nat \X Nat : ss[1] < ss[2]}
<1>1. IsWellFoundedOn(R, Nat)
  BY NatLessThanWellFounded DEF OpToRel
<1>2. \E n \in T : \A m \in T : <<m, n>> \notin R
  <2> HIDE DEF R
  <2> QED BY <1>1, WFMin
<1>3. \A m, n \in Nat : <<m, n>> \notin R => n <= m
  OBVIOUS
<1> QED BY <1>2, <1>3

(* In every solution a registered variable of an accepted program has the  *)
(* value of its bound type, whose variables are registered too.            *)
LEMMA BoundValue ==
  ASSUME IInv, Mentioned, phase = "Well-typed", NEW v \in registry
  PROVE  \E t \in Ctor : /\ AutosOf(t) \subseteq registry
                         /\ \A x \in InputSolutions : Value(x, v) = Value(x, t)
<1> DEFINE i == class_of[v]
           t == classes[i].bound
<1>1. v \in TypeAuto /\ ~Unbound(v) /\ StoreOK(<<classes, class_of>>) /\ store = <<classes, class_of>>
  BY InvParts DEF Parts, TypeOK, Mentioned, store
<1>2. i \in 1..Len(classes) /\ t # NoType
  BY <1>1 DEF Unbound, StoreOK, Partition
<1>3. v \in classes[i].members /\ t \in Ctor
  BY <1>1, <1>2, ClassFacts
<1>4. AutosOf(t) \subseteq registry
  BY <1>2, <1>3, TermsAssumption DEF Mentioned, PresentBounds, Present, VarsOf
<1>5. ASSUME NEW x \in InputSolutions PROVE Value(x, v) = Value(x, t)
  <2>1. x \in Remaining
    BY PhaseVerdicts DEF IInv, SolutionsPreserved
  <2>2. SolvesStore(x, store) /\ store[1] = classes
    BY <1>1, <2>1 DEF Remaining, BindingSolutions
  <2>3. x \in Sat(v, t)
    BY <1>2, <1>3, <2>2 DEF SolvesStore, SolvesClass
  <2> QED BY <1>1, <1>3, <2>3, SatAssumption DEF Type
<1> QED BY <1>3, <1>4, <1>5

(* Two solutions that differ somewhere would differ at a variable with a   *)
(* smallest value; but that value is put together from smaller ones.       *)
LEMMA Determined ==
  ASSUME IInv, Mentioned
  PROVE  AcceptedDetermined
<1> SUFFICES ASSUME phase = "Well-typed", NEW x \in InputSolutions, NEW y \in InputSolutions,
                    NEW w \in registry, Value(x, w) # Value(y, w)
             PROVE  FALSE
  BY DEF AcceptedDetermined
<1> DEFINE D == {v \in registry : Value(x, v) # Value(y, v)}
           Z == {Size(Value(x, v)) : v \in D}
<1>1. registry \subseteq TypeAuto /\ x \in Sol /\ y \in Sol
  BY DEF IInv, TypeOK, InputSolutions
<1>2. Z \subseteq Nat /\ Z # {}
  BY <1>1, ValueAssumption DEF Type
<1>3. PICK n \in Z : \A m \in Z : n <= m
  BY <1>2, Smallest
<1>4. PICK v \in D : n = Size(Value(x, v))
  OBVIOUS
<1>5. \A u \in D : Size(Value(x, v)) <= Size(Value(x, u))
  BY <1>3, <1>4
<1>6. PICK t \in Ctor : /\ AutosOf(t) \subseteq registry
                        /\ Value(x, v) = Value(x, t) /\ Value(y, v) = Value(y, t)
  BY BoundValue
<1>7. \A u \in AutosOf(t) : Value(x, u) = Value(y, u)
  <2>1. ASSUME NEW u \in AutosOf(t), u \in D PROVE FALSE
    <3>1. Size(Value(x, u)) < Size(Value(x, t)) /\ Size(Value(x, u)) \in Nat /\ Size(Value(x, t)) \in Nat
      BY <1>1, <1>6, ValueAssumption DEF Type
    <3> QED BY <1>5, <1>6, <2>1, <3>1
  <2> QED BY <1>6, <2>1
<1>8. Value(x, t) = Value(y, t)
  <2>1. [u \in AutosOf(t) |-> Value(x, u)] = [u \in AutosOf(t) |-> Value(y, u)]
    BY <1>7
  <2> QED BY <1>1, <2>1, ValueAssumption
<1> QED BY <1>6, <1>8

(* An accepted program leaves no choice: whatever types, constraints and   *)
(* order of constraints, all solutions give every registered variable the  *)
(* same type (UnifyAll's last loop and its "ambiguous" error).             *)
THEOREM AcceptedIsDetermined == Spec => []AcceptedDetermined
<1>1. Init => Mentioned
  <2>1. Init => /\ constraints = <<>> /\ worklist = <<>> /\ classes = <<>> /\ phase = "visit"
    BY DEF Init
  <2> QED BY <2>1, PhaseVerdicts DEF Mentioned, PresentIn, PresentBounds
<1>2. IInv /\ Mentioned /\ [Next]_vars => Mentioned'
  BY NextMentioned
<1>3. IInv /\ Mentioned => AcceptedDetermined
  BY Determined
<1> QED BY <1>1, <1>2, <1>3, Inductive, PTL DEF Spec
=============================================================================
