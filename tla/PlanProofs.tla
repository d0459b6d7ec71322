----------------------------- MODULE PlanProofs -----------------------------
(***************************************************************************)
(* Proofs about plans: that the operations diffPatchGraphs derives from any  *)
(* two graphs are accepted by the native object and bring it from one to the *)
(* other, and that the merge in front of them keeps the edits of both sides. *)
(***************************************************************************)
EXTENDS PatchReconciliation, FiniteSetTheorems, SequenceTheorems, TLAPS

-----------------------------------------------------------------------------
(* Induction over the natural numbers.                                       *)

LEMMA LeastNat ==
  ASSUME NEW T, T \subseteq Nat, T # {}
  PROVE  \E x \in T : \A y \in T : ~(y < x)
<1>1. IsWellFoundedOn(OpToRel(<, Nat), Nat)
  BY NatLessThanWellFounded
<1>2. \E x \in T : \A y \in T : ~(<<y, x>> \in OpToRel(<, Nat))
  BY <1>1, WFMin
<1> QED
  BY <1>2 DEF OpToRel

\* What is true of 0 and passes from n to n + 1 is true of all.
LEMMA Induction ==
  ASSUME NEW T, NEW N \in Nat, 0 \in T, \A n \in 1..N : n - 1 \in T => n \in T
  PROVE  0..N \subseteq T
<1> SUFFICES ASSUME (0..N) \ T # {} PROVE FALSE
  OBVIOUS
<1>1. PICK x \in (0..N) \ T : \A y \in (0..N) \ T : ~(y < x)
  <2> DEFINE M == (0..N) \ T
  <2>1. M \subseteq Nat /\ M # {}
    OBVIOUS
  <2> HIDE DEF M
  <2>2. \E x \in M : \A y \in M : ~(y < x)
    BY <2>1, LeastNat
  <2> QED
    BY <2>2 DEF M
<1>2. x \in 1..N /\ x - 1 \in 0..N /\ x - 1 < x
  BY <1>1
<1> QED
  BY <1>1, <1>2

-----------------------------------------------------------------------------
(* Sequences of the elements of a finite set, in an order.                   *)

\* s has each element of S once.
Lists(s, S) ==
  /\ s \in Seq(S)
  /\ \A x \in S : \E i \in 1..Len(s) : s[i] = x
  /\ \A i, j \in 1..Len(s) : i < j => s[i] # s[j]

LEMMA ListsAreFunctions ==
  ASSUME NEW S, IsFiniteSet(S), NEW s
  PROVE  Lists(s, S) <=>
           s \in [1..Cardinality(S) -> S] /\ \A i, j \in DOMAIN s : i # j => s[i] # s[j]
<1>1. Cardinality(S) \in Nat /\ ExistsBijection(1..Cardinality(S), S)
  BY FS_CardinalityType
<1>2. IsFiniteSet(1..Cardinality(S)) /\ Cardinality(1..Cardinality(S)) = Cardinality(S)
  BY <1>1, FS_Interval
<1>3. ASSUME Lists(s, S)
      PROVE  s \in [1..Cardinality(S) -> S] /\ \A i, j \in DOMAIN s : i # j => s[i] # s[j]
  <2>1. s \in [1..Len(s) -> S] /\ Len(s) \in Nat
    BY <1>3 DEF Lists
  <2>2. \A i, j \in 1..Len(s) : s[i] = s[j] => i = j
    BY <1>3, <2>1 DEF Lists
  <2>3. s \in Bijection(1..Len(s), S)
    BY <1>3, <2>1, <2>2 DEF Lists, Bijection, Injection, Surjection, IsInjective
  <2>4. IsFiniteSet(1..Len(s)) /\ Cardinality(1..Len(s)) = Len(s)
    <3>1. \A n \in Nat : IsFiniteSet(1..n) /\ Cardinality(1..n) = n
      BY FS_Interval
    <3> QED
      BY <2>1, <3>1
  <2>5. Cardinality(S) = Len(s)
    BY <2>3, <2>4, FS_Bijection DEF ExistsBijection
  <2> QED
    BY <2>1, <2>2, <2>5
<1>4. ASSUME s \in [1..Cardinality(S) -> S], \A i, j \in DOMAIN s : i # j => s[i] # s[j]
      PROVE  Lists(s, S)
  <2>1. s \in Injection(1..Cardinality(S), S)
    BY <1>4 DEF Injection, IsInjective
  <2>2. s \in Surjection(1..Cardinality(S), S)
    BY <2>1, <1>2, FS_Injection
  <2>3. \A x \in S : \E i \in 1..Cardinality(S) : s[i] = x
    BY <2>2 DEF Surjection
  <2>4. s \in Seq(S) /\ Len(s) = Cardinality(S)
    BY <1>1, <1>4
  <2> QED
    BY <2>3, <2>4, <1>4, <1>1 DEF Lists
<1> QED
  BY <1>3, <1>4

LEMMA ListOfSet ==
  ASSUME NEW S, IsFiniteSet(S)
  PROVE  Lists(SetToSeq(S), S)
<1>1. Cardinality(S) \in Nat /\ ExistsBijection(1..Cardinality(S), S)
  BY FS_CardinalityType
<1>2. \E f \in [1..Cardinality(S) -> S] : IsInjective(f)
  BY <1>1 DEF ExistsBijection, Bijection, Injection, IsInjective
<1>3. SetToSeq(S) \in [1..Cardinality(S) -> S] /\ IsInjective(SetToSeq(S))
  BY <1>2 DEF SetToSeq
<1> QED
  BY <1>3, ListsAreFunctions DEF IsInjective

\* In t the elements come in the order of a rank.
Ascends(t, rank) == \A i, j \in 1..Len(t) : i < j => rank[t[i]] <= rank[t[j]]
Descends(t, rank) == \A i, j \in 1..Len(t) : i < j => rank[t[i]] >= rank[t[j]]

\* u is s, and then t.
Joins(u, s, t) ==
  /\ Len(u) = Len(s) + Len(t)
  /\ \A i \in 1..Len(u) : u[i] = IF i <= Len(s) THEN s[i] ELSE t[i - Len(s)]

LEMMA ListsJoin ==
  ASSUME NEW S, NEW T, S \cap T = {}, NEW s, NEW t, Lists(s, S), Lists(t, T)
  PROVE  Lists(s \o t, S \cup T) /\ Joins(s \o t, s, t)
<1>1. s \in Seq(S \cup T) /\ t \in Seq(S \cup T) /\ Len(s) \in Nat /\ Len(t) \in Nat
  BY DEF Lists
<1>2. /\ s \o t \in Seq(S \cup T)
      /\ Len(s \o t) = Len(s) + Len(t)
      /\ \A i \in 1..Len(s) + Len(t) :
            (s \o t)[i] = IF i <= Len(s) THEN s[i] ELSE t[i - Len(s)]
  BY <1>1, ConcatProperties
<1>3. ASSUME NEW x \in S \cup T
      PROVE  \E i \in 1..Len(s \o t) : (s \o t)[i] = x
  <2>1. CASE x \in S
    <3>1. PICK i \in 1..Len(s) : s[i] = x
      BY <2>1 DEF Lists
    <3>2. i \in 1..Len(s \o t) /\ (s \o t)[i] = x
      BY <3>1, <1>1, <1>2
    <3> QED
      BY <3>2
  <2>2. CASE x \in T
    <3>1. PICK i \in 1..Len(t) : t[i] = x
      BY <2>2 DEF Lists
    <3>2. i + Len(s) \in 1..Len(s \o t) /\ (s \o t)[i + Len(s)] = x
      BY <3>1, <1>1, <1>2
    <3> QED
      BY <3>2
  <2> QED
    BY <2>1, <2>2
<1>4. ASSUME NEW i \in 1..Len(s \o t), NEW j \in 1..Len(s \o t), i < j
      PROVE  (s \o t)[i] # (s \o t)[j]
  <2>1. CASE j <= Len(s)
    BY <1>1, <1>2, <1>4, <2>1 DEF Lists
  <2>2. CASE i <= Len(s) /\ ~(j <= Len(s))
    <3>1. (s \o t)[i] = s[i] /\ (s \o t)[j] = t[j - Len(s)]
      BY <1>1, <1>2, <2>2
    <3>2. s[i] \in S /\ t[j - Len(s)] \in T
      <4>1. i \in 1..Len(s) /\ j - Len(s) \in 1..Len(t)
        BY <1>1, <1>2, <2>2
      <4> QED
        BY <4>1, ElementOfSeq DEF Lists
    <3> QED
      BY <3>1, <3>2
  <2>3. CASE ~(i <= Len(s))
    <3>1. (s \o t)[i] = t[i - Len(s)] /\ (s \o t)[j] = t[j - Len(s)]
      BY <1>1, <1>2, <1>4, <2>3
    <3>2. i - Len(s) \in 1..Len(t) /\ j - Len(s) \in 1..Len(t) /\ i - Len(s) < j - Len(s)
      BY <1>1, <1>2, <1>4, <2>3
    <3>3. \A a, b \in 1..Len(t) : a < b => t[a] # t[b]
      BY DEF Lists
    <3> QED
      BY <3>1, <3>2, <3>3
  <2> QED
    BY <2>1, <2>2, <2>3
<1> QED
  BY <1>2, <1>3, <1>4 DEF Lists, Joins

LEMMA SingleList ==
  ASSUME NEW x
  PROVE  Lists(<<x>>, {x}) /\ Len(<<x>>) = 1 /\ <<x>>[1] = x
  BY DEF Lists

\* An element more, at either end.
LEMMA ListsGrow ==
  ASSUME NEW T, NEW x \in T, NEW t, Lists(t, T \ {x})
  PROVE  /\ \E u : Lists(u, T) /\ Joins(u, <<x>>, t)
         /\ \E u : Lists(u, T) /\ Joins(u, t, <<x>>)
<1>1. Lists(<<x>>, {x})
  BY SingleList
<1>2. PICK s, S, R : s = <<x>> /\ S = {x} /\ R = T \ {x}
  OBVIOUS
<1>3. /\ Lists(s, S) /\ Lists(t, R)
      /\ S \cap R = {} /\ R \cap S = {} /\ S \cup R = T /\ R \cup S = T
  BY <1>1, <1>2
<1>4. Lists(s \o t, T) /\ Joins(s \o t, s, t)
  BY <1>3, ListsJoin
<1>5. Lists(t \o s, T) /\ Joins(t \o s, t, s)
  BY <1>3, ListsJoin
<1> QED
  BY ONLY <1>2, <1>4, <1>5

LEMMA OrderedLists ==
  ASSUME NEW S, IsFiniteSet(S), NEW rank \in [S -> Nat]
  PROVE  /\ \E t : Lists(t, S) /\ Ascends(t, rank)
         /\ \E t : Lists(t, S) /\ Descends(t, rank)
<1> DEFINE Both(T) == /\ \E t : Lists(t, T) /\ Ascends(t, rank)
                      /\ \E t : Lists(t, T) /\ Descends(t, rank)
           N == {n \in 0..Cardinality(S) : \A T \in SUBSET S : Cardinality(T) = n => Both(T)}
<1>1. Cardinality(S) \in Nat
  BY FS_CardinalityType
<1>2. 0 \in N
  <2> SUFFICES ASSUME NEW T \in SUBSET S, Cardinality(T) = 0
               PROVE  Both(T)
    BY <1>1
  <2>1. IsFiniteSet(T)
    BY FS_Subset
  <2>2. T = {}
    BY <2>1, FS_EmptySet
  <2>3. Lists(<<>>, T) /\ Ascends(<<>>, rank) /\ Descends(<<>>, rank)
    BY <2>2 DEF Lists, Ascends, Descends
  <2> QED
    BY <2>3
<1>3. ASSUME NEW n \in 1..Cardinality(S), n - 1 \in N
      PROVE  n \in N
  <2> SUFFICES ASSUME NEW T \in SUBSET S, Cardinality(T) = n
               PROVE  Both(T)
    BY <1>1
  <2>1. IsFiniteSet(T)
    BY FS_Subset
  <2>2. T # {}
    BY <2>1, FS_EmptySet
  <2>3. PICK x \in T : \A y \in T : rank[x] <= rank[y]
    <3> DEFINE R == {rank[y] : y \in T}
    <3>1. R \subseteq Nat /\ R # {}
      BY <2>2
    <3> HIDE DEF R
    <3>2. PICK r \in R : \A q \in R : ~(q < r)
      BY <3>1, LeastNat
    <3>3. PICK x \in T : rank[x] = r
      BY <3>2 DEF R
    <3>4. \A y \in T : rank[y] \in R
      BY DEF R
    <3>5. \A y \in T : rank[y] \in Nat
      OBVIOUS
    <3>6. \A y \in T : rank[x] <= rank[y]
      BY <3>2, <3>3, <3>4
    <3> QED
      BY <3>6
  <2>4. Cardinality(T \ {x}) = n - 1
    BY <2>1, FS_RemoveElement
  <2>5. Both(T \ {x})
    BY <1>3, <2>4
  <2>8. \E t : Lists(t, T) /\ Ascends(t, rank)
    <3>1. PICK t : Lists(t, T \ {x}) /\ Ascends(t, rank)
      BY <2>5
    <3>0. PICK u : Lists(u, T) /\ Joins(u, <<x>>, t)
      BY <3>1, ListsGrow
    <3>2. /\ Lists(u, T) /\ Len(u) = 1 + Len(t)
          /\ \A i \in 1..Len(u) : u[i] = IF i <= 1 THEN <<x>>[i] ELSE t[i - 1]
      BY <3>0, SingleList DEF Joins
    <3>3. Len(t) \in Nat /\ \A i \in 1..Len(t) : t[i] \in T
      BY <3>1 DEF Lists
    <3>4. ASSUME NEW i \in 1..Len(u), NEW j \in 1..Len(u), i < j
          PROVE  rank[u[i]] <= rank[u[j]]
      <4>1. u[j] = t[j - 1] /\ j - 1 \in 1..Len(t)
        BY <3>2, <3>3, <3>4
      <4>2. CASE i = 1
        BY <4>1, <4>2, <3>2, <3>3, <2>3
      <4>3. CASE i # 1
        <5>1. u[i] = t[i - 1] /\ i - 1 \in 1..Len(t) /\ i - 1 < j - 1
          BY <3>2, <3>3, <3>4, <4>3
        <5> QED
          BY <4>1, <5>1, <3>1 DEF Ascends
      <4> QED
        BY <4>2, <4>3
    <3> QED
      BY <3>2, <3>4 DEF Ascends
  <2>9. \E t : Lists(t, T) /\ Descends(t, rank)
    <3>1. PICK t : Lists(t, T \ {x}) /\ Descends(t, rank)
      BY <2>5
    <3>0. PICK u : Lists(u, T) /\ Joins(u, t, <<x>>)
      BY <3>1, ListsGrow
    <3>2. /\ Lists(u, T) /\ Len(u) = Len(t) + 1
          /\ \A i \in 1..Len(u) : u[i] = IF i <= Len(t) THEN t[i] ELSE <<x>>[i - Len(t)]
      BY <3>0, SingleList DEF Joins
    <3>3. Len(t) \in Nat /\ \A i \in 1..Len(t) : t[i] \in T
      BY <3>1 DEF Lists
    <3>4. ASSUME NEW i \in 1..Len(u), NEW j \in 1..Len(u), i < j
          PROVE  rank[u[i]] >= rank[u[j]]
      <4>1. u[i] = t[i] /\ i \in 1..Len(t)
        BY <3>2, <3>3, <3>4
      <4>2. CASE j = Len(u)
        <5>1. u[j] = x
          BY <3>2, <3>3, <4>2
        <5>2. t[i] \in T /\ rank[t[i]] \in Nat /\ rank[x] \in Nat
          BY <3>3, <4>1
        <5> QED
          BY <4>1, <5>1, <5>2, <2>3
      <4>3. CASE j # Len(u)
        <5>1. u[j] = t[j] /\ j \in 1..Len(t)
          BY <3>2, <3>3, <4>3
        <5> QED
          BY <4>1, <5>1, <3>1, <3>4 DEF Descends
      <4> QED
        BY <4>2, <4>3
    <3> QED
      BY <3>2, <3>4 DEF Descends
  <2> QED
    BY <2>8, <2>9
<1> HIDE DEF N
<1>4. 0..Cardinality(S) \subseteq N
  BY <1>1, <1>2, <1>3, Induction
<1> QED
  BY <1>1, <1>4 DEF N
-----------------------------------------------------------------------------
(* The operations of a plan, and their order.                                *)

\* What patchGraphs are: a graph of this scope, with typed contents.
IsProper(graph) ==
  /\ graph = [boxes |-> graph.boxes, cords |-> graph.cords]
  /\ graph.boxes \in [Box -> Content \cup {Absent}]
  /\ graph.cords \subseteq Cord
  /\ IsGraph(graph)

Steps(from, to) ==
  Disconnects(from, to) \cup Deletes(from, to) \cup Creates(from, to)
    \cup Sets(from, to) \cup Connects(from, to)

\* x may come before y in a plan.
InOrder(x, y) ==
  /\ Phase(x) <= Phase(y)
  /\ x.op = "delete" /\ y.op = "delete" => Depth(x.box) >= Depth(y.box)
  /\ x.op = "create" /\ y.op = "create" => Depth(x.box) <= Depth(y.box)

Arranged(s, S) ==
  Lists(s, S) /\ \A i, j \in 1..Len(s) : i < j => InOrder(s[i], s[j])

LEMMA ArrangedJoin ==
  ASSUME NEW S, NEW T, NEW s, NEW t, Arranged(s, S), Arranged(t, T),
         \A x \in S, y \in T : x # y /\ InOrder(x, y)
  PROVE  Arranged(s \o t, S \cup T)
<1>1. Lists(s, S) /\ Lists(t, T) /\ S \cap T = {}
  BY DEF Arranged
<1>2. PICK u : u = s \o t
  OBVIOUS
<1>3. Lists(u, S \cup T) /\ Joins(u, s, t)
  BY <1>1, <1>2, ListsJoin
<1>4. Len(s) \in Nat /\ Len(t) \in Nat /\ Len(u) = Len(s) + Len(t)
  BY <1>1, <1>3 DEF Lists, Joins
<1>5. (\A i \in 1..Len(s) : s[i] \in S) /\ (\A i \in 1..Len(t) : t[i] \in T)
  BY <1>1, ElementOfSeq DEF Lists
<1>6. ASSUME NEW i \in 1..Len(u), NEW j \in 1..Len(u), i < j
      PROVE  InOrder(u[i], u[j])
  <2>0. /\ u[i] = IF i <= Len(s) THEN s[i] ELSE t[i - Len(s)]
        /\ u[j] = IF j <= Len(s) THEN s[j] ELSE t[j - Len(s)]
    BY <1>3 DEF Joins
  <2>1. CASE j <= Len(s)
    <3>1. u[i] = s[i] /\ u[j] = s[j] /\ i \in 1..Len(s) /\ j \in 1..Len(s)
      BY <1>4, <1>6, <2>0, <2>1
    <3> QED
      BY <3>1, <1>6 DEF Arranged
  <2>2. CASE i <= Len(s) /\ ~(j <= Len(s))
    <3>1. u[i] = s[i] /\ u[j] = t[j - Len(s)] /\ i \in 1..Len(s) /\ j - Len(s) \in 1..Len(t)
      BY <1>4, <1>6, <2>0, <2>2
    <3>2. u[i] \in S /\ u[j] \in T
      BY <3>1, <1>5
    <3> QED
      BY <3>2
  <2>3. CASE ~(i <= Len(s))
    <3>1. /\ u[i] = t[i - Len(s)] /\ u[j] = t[j - Len(s)]
          /\ i - Len(s) \in 1..Len(t) /\ j - Len(s) \in 1..Len(t) /\ i - Len(s) < j - Len(s)
      BY <1>4, <1>6, <2>0, <2>3
    <3>2. \A a, b \in 1..Len(t) : a < b => InOrder(t[a], t[b])
      BY DEF Arranged
    <3> QED
      BY <3>1, <3>2
  <2> QED
    BY <2>1, <2>2, <2>3
<1>7. Arranged(u, S \cup T)
  BY <1>3, <1>6 DEF Arranged
<1> QED
  BY ONLY <1>2, <1>7

LEMMA PathsAre ==
  /\ IsFiniteSet(Box) /\ IsFiniteSet(Attribute) /\ IsFiniteSet(Cord)
  /\ \A b \in Box : PathTo[b] \in Seq(Box) /\ Depth(b) \in Nat
  /\ \A cord \in Cord : cord[1] \in Box /\ cord[2] \in Box /\ cord = <<cord[1], cord[2]>>
<1>1. IsFiniteSet(Box \X Box)
  BY PlanAssumption, FS_Product
<1>2. Cord \subseteq Box \X Box
  BY PlanAssumption
<1>3. IsFiniteSet(Cord)
  BY <1>1, <1>2, FS_Subset
<1>4. \A b \in Box : PathTo[b] \in Seq(Box) /\ Depth(b) \in Nat
  BY PlanAssumption DEF Depth
<1> QED
  BY <1>2, <1>3, <1>4, PlanAssumption

LEMMA StepsAreFinite ==
  ASSUME NEW from, NEW to, IsProper(from), IsProper(to)
  PROVE  /\ IsFiniteSet(Disconnects(from, to)) /\ IsFiniteSet(Deletes(from, to))
         /\ IsFiniteSet(Creates(from, to)) /\ IsFiniteSet(Sets(from, to))
         /\ IsFiniteSet(Connects(from, to))
<1> DEFINE Cut == {c \in from.cords : c \notin to.cords \/ Touches(c, Replaced(from, to))}
           Made == {c \in to.cords : c \notin from.cords \/ Touches(c, Replaced(from, to))}
           Gone == BoxesOf(from) \ (BoxesOf(to) \ Replaced(from, to))
           New == BoxesOf(to) \ (BoxesOf(from) \ Replaced(from, to))
           At == {x \in ((BoxesOf(from) \cap BoxesOf(to)) \ Replaced(from, to)) \X Attribute :
                    IsSet(x[1], x[2], from, to)}
<1>1. IsFiniteSet(Box) /\ IsFiniteSet(Cord) /\ IsFiniteSet(Box \X Attribute)
  BY PathsAre, FS_Product
<1>2. /\ Cut \subseteq Cord /\ Made \subseteq Cord /\ Gone \subseteq Box /\ New \subseteq Box
      /\ At \subseteq Box \X Attribute
  BY DEF IsProper, BoxesOf
<1>3. IsFiniteSet(Cut) /\ IsFiniteSet(Made) /\ IsFiniteSet(Gone) /\ IsFiniteSet(New) /\ IsFiniteSet(At)
  BY <1>1, <1>2, FS_Subset
<1>4. IsFiniteSet(Disconnects(from, to))
  <2>1. [c \in Cut |-> [op |-> "disconnect", cord |-> c]] \in Surjection(Cut, Disconnects(from, to))
    BY DEF Disconnects, Surjection
  <2> QED
    BY <1>3, <2>1, FS_Surjection
<1>5. IsFiniteSet(Deletes(from, to))
  <2>1. [b \in Gone |-> [op |-> "delete", box |-> b]] \in Surjection(Gone, Deletes(from, to))
    BY DEF Deletes, Surjection
  <2> QED
    BY <1>3, <2>1, FS_Surjection
<1>6. IsFiniteSet(Creates(from, to))
  <2>1. [b \in New |-> [op |-> "create", box |-> b, content |-> to.boxes[b]]]
          \in Surjection(New, Creates(from, to))
    BY DEF Creates, Surjection
  <2> QED
    BY <1>3, <2>1, FS_Surjection
<1>7. IsFiniteSet(Sets(from, to))
  <2>1. [x \in At |-> [op |-> "set", box |-> x[1], attribute |-> x[2],
                        value |-> to.boxes[x[1]].attributes[x[2]]]]
          \in Surjection(At, Sets(from, to))
    BY DEF Sets, Surjection
  <2> QED
    BY <1>3, <2>1, FS_Surjection
<1>8. IsFiniteSet(Connects(from, to))
  <2>1. [c \in Made |-> [op |-> "connect", cord |-> c]] \in Surjection(Made, Connects(from, to))
    BY DEF Connects, Surjection
  <2> QED
    BY <1>3, <2>1, FS_Surjection
<1> QED
  BY <1>4, <1>5, <1>6, <1>7, <1>8

\* Each kind of operation, in a plan's order.
LEMMA KindsAreArranged ==
  ASSUME NEW from, NEW to, IsProper(from), IsProper(to)
  PROVE  /\ Arranged(SetToSeq(Disconnects(from, to)), Disconnects(from, to))
         /\ Arranged(Sorted(Deletes(from, to), DeepestFirst), Deletes(from, to))
         /\ Arranged(Sorted(Creates(from, to), OuterFirst), Creates(from, to))
         /\ Arranged(SetToSeq(Sets(from, to)), Sets(from, to))
         /\ Arranged(SetToSeq(Connects(from, to)), Connects(from, to))
<1>1. ASSUME NEW S, IsFiniteSet(S), \A x, y \in S : InOrder(x, y)
      PROVE  Arranged(SetToSeq(S), S)
  <2>1. Lists(SetToSeq(S), S)
    BY <1>1, ListOfSet
  <2>2. PICK s : s = SetToSeq(S)
    OBVIOUS
  <2>3. \A i \in 1..Len(s) : s[i] \in S
    BY <2>1, <2>2, ElementOfSeq DEF Lists
  <2> QED
    BY <1>1, <2>1, <2>2, <2>3 DEF Arranged
<1>2. \A x, y \in Disconnects(from, to) : InOrder(x, y)
  BY DEF Disconnects, InOrder, Phase
<1>3. \A x, y \in Connects(from, to) : InOrder(x, y)
  BY DEF Connects, InOrder, Phase
<1>4. \A x, y \in Sets(from, to) : InOrder(x, y)
  BY DEF Sets, InOrder, Phase
<1>5. ASSUME NEW S, IsFiniteSet(S), \A x \in S : x.op = "delete" /\ x.box \in Box
      PROVE  Arranged(Sorted(S, DeepestFirst), S)
  <2> DEFINE rank == [x \in S |-> Depth(x.box)]
  <2>1. rank \in [S -> Nat]
    BY <1>5, PathsAre
  <2>2. PICK t : Lists(t, S) /\ Descends(t, rank)
    BY <1>5, <2>1, OrderedLists
  <2>3. t \in SetToSeqs(S)
    BY <1>5, <2>2, ListsAreFunctions DEF SetToSeqs
  <2>4. DOMAIN t = 1..Len(t) /\ \A i \in 1..Len(t) : t[i] \in S
    BY <2>2, ElementOfSeq DEF Lists
  <2>5. \A i, j \in DOMAIN t : i < j => DeepestFirst(t[i], t[j])
    BY <2>2, <2>4 DEF Descends, DeepestFirst
  <2>6. PICK u : u = Sorted(S, DeepestFirst)
    OBVIOUS
  <2>7. u \in SetToSeqs(S) /\ \A i, j \in DOMAIN u : i < j => DeepestFirst(u[i], u[j])
    BY <2>3, <2>5, <2>6 DEF Sorted
  <2>8. Lists(u, S)
    BY <1>5, <2>7, ListsAreFunctions DEF SetToSeqs
  <2>9. DOMAIN u = 1..Len(u) /\ \A i \in 1..Len(u) : u[i] \in S
    BY <2>8, ElementOfSeq DEF Lists
  <2>10. \A i, j \in 1..Len(u) : i < j => InOrder(u[i], u[j])
    BY <1>5, <2>7, <2>9 DEF InOrder, Phase, DeepestFirst
  <2> QED
    BY <2>6, <2>8, <2>10 DEF Arranged
<1>6. ASSUME NEW S, IsFiniteSet(S), \A x \in S : x.op = "create" /\ x.box \in Box
      PROVE  Arranged(Sorted(S, OuterFirst), S)
  <2> DEFINE rank == [x \in S |-> Depth(x.box)]
  <2>1. rank \in [S -> Nat]
    BY <1>6, PathsAre
  <2>2. PICK t : Lists(t, S) /\ Ascends(t, rank)
    BY <1>6, <2>1, OrderedLists
  <2>3. t \in SetToSeqs(S)
    BY <1>6, <2>2, ListsAreFunctions DEF SetToSeqs
  <2>4. DOMAIN t = 1..Len(t) /\ \A i \in 1..Len(t) : t[i] \in S
    BY <2>2, ElementOfSeq DEF Lists
  <2>5. \A i, j \in DOMAIN t : i < j => OuterFirst(t[i], t[j])
    BY <2>2, <2>4 DEF Ascends, OuterFirst
  <2>6. PICK u : u = Sorted(S, OuterFirst)
    OBVIOUS
  <2>7. u \in SetToSeqs(S) /\ \A i, j \in DOMAIN u : i < j => OuterFirst(u[i], u[j])
    BY <2>3, <2>5, <2>6 DEF Sorted
  <2>8. Lists(u, S)
    BY <1>6, <2>7, ListsAreFunctions DEF SetToSeqs
  <2>9. DOMAIN u = 1..Len(u) /\ \A i \in 1..Len(u) : u[i] \in S
    BY <2>8, ElementOfSeq DEF Lists
  <2>10. \A i, j \in 1..Len(u) : i < j => InOrder(u[i], u[j])
    BY <1>6, <2>7, <2>9 DEF InOrder, Phase, OuterFirst
  <2> QED
    BY <2>6, <2>8, <2>10 DEF Arranged
<1>7. \A x \in Deletes(from, to) : x.op = "delete" /\ x.box \in Box
  BY DEF Deletes, BoxesOf
<1>8. \A x \in Creates(from, to) : x.op = "create" /\ x.box \in Box
  BY DEF Creates, BoxesOf
<1> QED
  BY <1>1, <1>2, <1>3, <1>4, <1>5, <1>6, <1>7, <1>8, StepsAreFinite

LEMMA OperationsAreArranged ==
  ASSUME NEW from, NEW to, IsProper(from), IsProper(to)
  PROVE  Arranged(Operations(from, to), Steps(from, to))
<1>1. PICK A, B, C, D, E :
        /\ A = Disconnects(from, to) /\ B = Deletes(from, to) /\ C = Creates(from, to)
        /\ D = Sets(from, to) /\ E = Connects(from, to)
  OBVIOUS
<1>2. PICK a, b, c, d, e :
        /\ a = SetToSeq(Disconnects(from, to)) /\ b = Sorted(Deletes(from, to), DeepestFirst)
        /\ c = Sorted(Creates(from, to), OuterFirst) /\ d = SetToSeq(Sets(from, to))
        /\ e = SetToSeq(Connects(from, to))
  OBVIOUS
<1>3. Arranged(a, A) /\ Arranged(b, B) /\ Arranged(c, C) /\ Arranged(d, D) /\ Arranged(e, E)
  BY <1>1, <1>2, KindsAreArranged
<1>4. /\ \A x \in A : x.op = "disconnect"
      /\ \A x \in B : x.op = "delete"
      /\ \A x \in C : x.op = "create"
      /\ \A x \in D : x.op = "set"
      /\ \A x \in E : x.op = "connect"
  BY <1>1 DEF Disconnects, Deletes, Creates, Sets, Connects
<1>5. \A x \in A, y \in B : x # y /\ InOrder(x, y)
  BY <1>4 DEF InOrder, Phase
<1>6. \A x \in A \cup B, y \in C : x # y /\ InOrder(x, y)
  BY <1>4 DEF InOrder, Phase
<1>7. \A x \in (A \cup B) \cup C, y \in D : x # y /\ InOrder(x, y)
  BY <1>4 DEF InOrder, Phase
<1>8. \A x \in ((A \cup B) \cup C) \cup D, y \in E : x # y /\ InOrder(x, y)
  BY <1>4 DEF InOrder, Phase
<1>9. Arranged(a \o b, A \cup B)
  BY <1>3, <1>5, ArrangedJoin
<1>10. Arranged((a \o b) \o c, (A \cup B) \cup C)
  BY <1>3, <1>6, <1>9, ArrangedJoin
<1>11. Arranged(((a \o b) \o c) \o d, ((A \cup B) \cup C) \cup D)
  BY <1>3, <1>7, <1>10, ArrangedJoin
<1>12. Arranged((((a \o b) \o c) \o d) \o e, (((A \cup B) \cup C) \cup D) \cup E)
  BY <1>3, <1>8, <1>11, ArrangedJoin
<1>13. Operations(from, to) = (((a \o b) \o c) \o d) \o e
  BY ONLY <1>2 DEF Operations
<1>14. Steps(from, to) = (((A \cup B) \cup C) \cup D) \cup E
  BY ONLY <1>1 DEF Steps
<1> QED
  BY ONLY <1>12, <1>13, <1>14
-----------------------------------------------------------------------------
(* Boxes inside boxes.                                                       *)

\* The box at place i of the path of b is i - 1 levels deep, on the same path.
PathFits(b, i) ==
  /\ PathTo[b][i] \in Box
  /\ Depth(PathTo[b][i]) = i - 1
  /\ \A j \in 1..(i - 1) : PathTo[PathTo[b][i]][j] = PathTo[b][j]

LEMMA PathsFit ==
  \A b \in Box : \A i \in 1..Depth(b) : PathFits(b, i)
<1> SUFFICES ASSUME NEW c \in Box
             PROVE  \A i \in 1..Depth(c) : PathFits(c, i)
  OBVIOUS
<1> DEFINE N == {n \in 0..Depth(c) :
                   \A b \in Box : Depth(b) = n => \A i \in 1..n : PathFits(b, i)}
<1>1. Depth(c) \in Nat
  BY PathsAre
<1>2. 0 \in N
  BY <1>1
<1>3. ASSUME NEW n \in 1..Depth(c), n - 1 \in N
      PROVE  n \in N
  <2> SUFFICES ASSUME NEW b \in Box, Depth(b) = n, NEW i \in 1..n
               PROVE  PathFits(b, i)
    BY <1>1
  <2>1. PathTo[b] \in Seq(Box) /\ Len(PathTo[b]) = n /\ PathTo[b] # <<>>
    BY <1>1, PathsAre DEF Depth
  <2>2. PICK l : l = Last(PathTo[b])
    OBVIOUS
  <2>3. l = PathTo[b][n] /\ l \in Box
    BY <2>1, <2>2, ElementOfSeq DEF Last
  <2>4. PathTo[b] = Append(PathTo[l], l) /\ PathTo[l] \in Seq(Box)
    BY <2>1, <2>2, <2>3, PlanAssumption
  <2>5. Len(PathTo[l]) = n - 1 /\ \A j \in 1..(n - 1) : PathTo[b][j] = PathTo[l][j]
    <3>1. Len(PathTo[b]) = Len(PathTo[l]) + 1 /\ Len(PathTo[l]) \in Nat
      BY <2>4, AppendProperties
    <3>2. \A j \in 1..Len(PathTo[l]) : Append(PathTo[l], l)[j] = PathTo[l][j]
      BY <2>4, AppendProperties
    <3> QED
      BY <2>1, <2>4, <3>1, <3>2
  <2>6. CASE i = n
    BY <2>3, <2>5, <2>6 DEF PathFits, Depth
  <2>7. CASE i # n
    <3>1. i \in 1..(n - 1)
      BY <2>7
    <3>2. PathFits(l, i)
      BY <1>3, <2>3, <2>5, <3>1 DEF Depth
    <3>3. PathTo[b][i] = PathTo[l][i] /\ \A j \in 1..(i - 1) : PathTo[b][j] = PathTo[l][j]
      BY <2>5, <3>1
    <3> QED
      BY <3>2, <3>3 DEF PathFits
  <2> QED
    BY <2>6, <2>7
<1> HIDE DEF N
<1>4. 0..Depth(c) \subseteq N
  BY <1>1, <1>2, <1>3, Induction
<1> QED
  BY <1>1, <1>4 DEF N

\* A box is inside those on its path.
LEMMA InsideIsOnPath ==
  ASSUME NEW b \in Box, NEW c \in Box
  PROVE  c \in Inside(b) <=> \E i \in 1..Depth(c) : PathTo[c][i] = b
<1>1. /\ PathTo[b] \in Seq(Box) /\ PathTo[c] \in Seq(Box)
      /\ Depth(b) = Len(PathTo[b]) /\ Depth(c) = Len(PathTo[c])
      /\ Depth(b) \in Nat /\ Depth(c) \in Nat
  BY PathsAre DEF Depth
<1>2. PICK s : s = Append(PathTo[b], b)
  OBVIOUS
<1>3. /\ s \in Seq(Box) /\ Len(s) = Depth(b) + 1 /\ s[Depth(b) + 1] = b
      /\ \A j \in 1..Depth(b) : s[j] = PathTo[b][j]
  BY <1>1, <1>2, AppendProperties
<1>4. c \in Inside(b) <=>
        Len(s) <= Len(PathTo[c]) /\ SubSeq(s, 1, Len(s)) = SubSeq(PathTo[c], 1, Len(s))
  BY <1>2 DEF Inside, IsPrefix
<1>5. ASSUME c \in Inside(b)
      PROVE  \E i \in 1..Depth(c) : PathTo[c][i] = b
  <2>1. Len(s) <= Len(PathTo[c]) /\ SubSeq(s, 1, Len(s)) = SubSeq(PathTo[c], 1, Len(s))
    BY <1>4, <1>5
  <2>2. Len(s) \in 1..Depth(c) /\ Len(s) = Depth(b) + 1
    BY <1>1, <1>3, <2>1
  <2>3. SubSeq(s, 1, Len(s))[Len(s)] = s[Len(s)]
    BY <1>3, <2>2, <1>1, SubSeqProperties
  <2>4. SubSeq(PathTo[c], 1, Len(s))[Len(s)] = PathTo[c][Len(s)]
    BY <1>1, <2>2, SubSeqProperties
  <2> QED
    BY <1>3, <2>1, <2>2, <2>3, <2>4
<1>6. ASSUME NEW i \in 1..Depth(c), PathTo[c][i] = b
      PROVE  c \in Inside(b)
  <2>1. Depth(b) = i - 1 /\ \A j \in 1..(i - 1) : PathTo[b][j] = PathTo[c][j]
    BY <1>6, PathsFit DEF PathFits
  <2>2. Len(s) = i /\ Len(s) <= Len(PathTo[c]) /\ \A j \in 1..i : s[j] = PathTo[c][j]
    BY <1>1, <1>3, <1>6, <2>1
  <2>3. /\ SubSeq(s, 1, i) \in Seq(Box) /\ Len(SubSeq(s, 1, i)) = i
        /\ \A j \in 1..i : SubSeq(s, 1, i)[j] = s[j]
    BY <1>1, <1>3, <2>2, SubSeqProperties
  <2>4. /\ SubSeq(PathTo[c], 1, i) \in Seq(Box) /\ Len(SubSeq(PathTo[c], 1, i)) = i
        /\ \A j \in 1..i : SubSeq(PathTo[c], 1, i)[j] = PathTo[c][j]
    BY <1>1, SubSeqProperties
  <2>5. SubSeq(s, 1, i) = SubSeq(PathTo[c], 1, i)
    <3>1. PICK x, y : x = SubSeq(s, 1, i) /\ y = SubSeq(PathTo[c], 1, i)
      OBVIOUS
    <3>2. /\ x \in Seq(Box) /\ y \in Seq(Box) /\ Len(x) = Len(y)
          /\ \A j \in 1..Len(x) : x[j] = y[j]
      BY <2>2, <2>3, <2>4, <3>1
    <3>3. x = y
      BY <3>2, SeqEqual
    <3> QED
      BY <3>1, <3>3
  <2> QED
    BY <1>4, <2>2, <2>5
<1> QED
  BY <1>5, <1>6

\* What is inside a box that is inside another is inside that one, and deeper.
LEMMA InsideNests ==
  ASSUME NEW a \in Box, NEW b \in Box, NEW c \in Box, c \in Inside(b)
  PROVE  /\ Depth(c) > Depth(b) /\ b # c
         /\ b \in Inside(a) => c \in Inside(a)
<1>1. PICK i \in 1..Depth(c) : PathTo[c][i] = b
  BY InsideIsOnPath
<1>2. Depth(b) = i - 1 /\ \A j \in 1..(i - 1) : PathTo[b][j] = PathTo[c][j]
  BY <1>1, PathsFit DEF PathFits
<1>3. Depth(b) \in Nat /\ Depth(c) \in Nat
  BY PathsAre
<1>4. ASSUME b \in Inside(a)
      PROVE  c \in Inside(a)
  <2>1. PICK j \in 1..Depth(b) : PathTo[b][j] = a
    BY <1>4, InsideIsOnPath
  <2>2. j \in 1..Depth(c) /\ PathTo[c][j] = a
    BY <2>1, <1>1, <1>2, <1>3
  <2> QED
    BY <2>2, InsideIsOnPath
<1> QED
  BY <1>1, <1>2, <1>3, <1>4
-----------------------------------------------------------------------------
(* What a plan changes.                                                      *)

CutOf(cord) == [op |-> "disconnect", cord |-> cord]
FreeOf(b) == [op |-> "delete", box |-> b]
MakeOf(to, b) == [op |-> "create", box |-> b, content |-> to.boxes[b]]
SetOf(to, b, a) ==
  [op |-> "set", box |-> b, attribute |-> a, value |-> to.boxes[b].attributes[a]]
JoinOf(cord) == [op |-> "connect", cord |-> cord]

\* A box that is in both graphs and is not replaced.
Stays(from, to, b) == b \in BoxesOf(from) /\ b \in BoxesOf(to) /\ b \notin Replaced(from, to)

LEMMA StepsAre ==
  ASSUME NEW from, NEW to
  PROVE  /\ \A c : CutOf(c) \in Steps(from, to) <=>
                c \in from.cords /\ (c \notin to.cords \/ Touches(c, Replaced(from, to)))
         /\ \A b : FreeOf(b) \in Steps(from, to) <=> b \in BoxesOf(from) /\ ~Stays(from, to, b)
         /\ \A b : MakeOf(to, b) \in Steps(from, to) <=> b \in BoxesOf(to) /\ ~Stays(from, to, b)
         /\ \A b, a : SetOf(to, b, a) \in Steps(from, to) <=>
                Stays(from, to, b) /\ a \in Attribute /\ IsSet(b, a, from, to)
         /\ \A c : JoinOf(c) \in Steps(from, to) <=>
                c \in to.cords /\ (c \notin from.cords \/ Touches(c, Replaced(from, to)))
<1>1. \A c : CutOf(c) \in Steps(from, to) <=> CutOf(c) \in Disconnects(from, to)
  BY DEF Steps, Disconnects, Deletes, Creates, Sets, Connects, CutOf
<1>2. \A b : FreeOf(b) \in Steps(from, to) <=> FreeOf(b) \in Deletes(from, to)
  BY DEF Steps, Disconnects, Deletes, Creates, Sets, Connects, FreeOf
<1>3. \A b : MakeOf(to, b) \in Steps(from, to) <=> MakeOf(to, b) \in Creates(from, to)
  BY DEF Steps, Disconnects, Deletes, Creates, Sets, Connects, MakeOf
<1>4. \A b, a : SetOf(to, b, a) \in Steps(from, to) <=> SetOf(to, b, a) \in Sets(from, to)
  BY DEF Steps, Disconnects, Deletes, Creates, Sets, Connects, SetOf
<1>5. \A c : JoinOf(c) \in Steps(from, to) <=> JoinOf(c) \in Connects(from, to)
  BY DEF Steps, Disconnects, Deletes, Creates, Sets, Connects, JoinOf
<1>6. \A c : CutOf(c) \in Disconnects(from, to) <=>
          c \in from.cords /\ (c \notin to.cords \/ Touches(c, Replaced(from, to)))
  BY DEF Disconnects, CutOf
<1>7. \A b : FreeOf(b) \in Deletes(from, to) <=> b \in BoxesOf(from) /\ ~Stays(from, to, b)
  BY DEF Deletes, FreeOf, Stays
<1>8. \A b : MakeOf(to, b) \in Creates(from, to) <=> b \in BoxesOf(to) /\ ~Stays(from, to, b)
  BY DEF Creates, MakeOf, Stays
<1>9. ASSUME NEW b, NEW a
      PROVE  SetOf(to, b, a) \in Sets(from, to) <=>
               Stays(from, to, b) /\ a \in Attribute /\ IsSet(b, a, from, to)
  <2> DEFINE At == {x \in ((BoxesOf(from) \cap BoxesOf(to)) \ Replaced(from, to)) \X Attribute :
                      IsSet(x[1], x[2], from, to)}
  <2>1. <<b, a>> \in At <=> Stays(from, to, b) /\ a \in Attribute /\ IsSet(b, a, from, to)
    BY DEF Stays
  <2>2. <<b, a>> \in At => SetOf(to, b, a) \in Sets(from, to)
    <3> SUFFICES ASSUME <<b, a>> \in At PROVE SetOf(to, b, a) \in Sets(from, to)
      OBVIOUS
    <3>1. PICK x \in At : x = <<b, a>>
      OBVIOUS
    <3>2. x[1] = b /\ x[2] = a
      BY <3>1
    <3>3. [op |-> "set", box |-> x[1], attribute |-> x[2],
           value |-> to.boxes[x[1]].attributes[x[2]]] \in Sets(from, to)
      BY DEF Sets
    <3> QED
      BY <3>2, <3>3 DEF SetOf
  <2>3. ASSUME SetOf(to, b, a) \in Sets(from, to)
        PROVE  <<b, a>> \in At
    <3>1. PICK x \in At : SetOf(to, b, a) =
            [op |-> "set", box |-> x[1], attribute |-> x[2],
             value |-> to.boxes[x[1]].attributes[x[2]]]
      BY <2>3 DEF Sets
    <3>2. x[1] = b /\ x[2] = a
      BY <3>1 DEF SetOf
    <3>3. x = <<b, a>>
      BY <3>2
    <3> QED
      BY <3>3
  <2> QED
    BY <2>1, <2>2, <2>3
<1>10. \A c : JoinOf(c) \in Connects(from, to) <=>
          c \in to.cords /\ (c \notin from.cords \/ Touches(c, Replaced(from, to)))
  BY DEF Connects, JoinOf
<1> QED
  BY <1>1, <1>2, <1>3, <1>4, <1>5, <1>6, <1>7, <1>8, <1>9, <1>10

\* An operation is one of five kinds.
LEMMA StepKinds ==
  ASSUME NEW from, NEW to, IsProper(from), IsProper(to), NEW o \in Steps(from, to)
  PROVE  \/ \E c \in Cord : o = CutOf(c)
         \/ \E b \in Box : o = FreeOf(b)
         \/ \E b \in Box : o = MakeOf(to, b)
         \/ \E b \in Box, a \in Attribute : o = SetOf(to, b, a)
         \/ \E c \in Cord : o = JoinOf(c)
<1>1. o \in Disconnects(from, to) => \E c \in Cord : o = CutOf(c)
  BY DEF Disconnects, CutOf, IsProper
<1>2. o \in Deletes(from, to) => \E b \in Box : o = FreeOf(b)
  BY DEF Deletes, FreeOf, BoxesOf
<1>3. o \in Creates(from, to) => \E b \in Box : o = MakeOf(to, b)
  BY DEF Creates, MakeOf, BoxesOf
<1>4. o \in Sets(from, to) => \E b \in Box, a \in Attribute : o = SetOf(to, b, a)
  BY DEF Sets, SetOf, BoxesOf
<1>5. o \in Connects(from, to) => \E c \in Cord : o = JoinOf(c)
  BY DEF Connects, JoinOf, IsProper
<1> QED
  BY <1>1, <1>2, <1>3, <1>4, <1>5 DEF Steps

\* A box that stays keeps its class, and all boxes around it stay.
LEMMA StayingIsClosed ==
  ASSUME NEW from, NEW to, IsProper(from), IsProper(to), NEW b \in Box, Stays(from, to, b)
  PROVE  /\ from.boxes[b].class = to.boxes[b].class
         /\ Holds(from, b) <=> Holds(to, b)
         /\ \A a \in Attribute : from.boxes[b].attributes[a] # to.boxes[b].attributes[a] =>
              IsSet(b, a, from, to)
         /\ \A i \in 1..Depth(b) :
              Stays(from, to, PathTo[b][i]) /\ Holds(from, PathTo[b][i]) /\ Holds(to, PathTo[b][i])
<1>1. ~RequiresReplacement(from.boxes[b], to.boxes[b])
  BY DEF Stays, Replaced
<1>2. from.boxes[b] # Absent /\ to.boxes[b] # Absent
  BY DEF Stays, BoxesOf
<1>3. ASSUME NEW i \in 1..Depth(b)
      PROVE  Stays(from, to, PathTo[b][i]) /\ Holds(from, PathTo[b][i]) /\ Holds(to, PathTo[b][i])
  <2>1. PICK p \in Box : p = PathTo[b][i]
    BY PathsFit DEF PathFits
  <2>2. i \in DOMAIN PathTo[b]
    BY PathsAre, LenProperties DEF Depth
  <2>3. Holds(from, p) /\ Holds(to, p)
    BY <2>1, <2>2 DEF IsProper, IsGraph, Reaches, Stays
  <2>4. b \in Inside(p)
    BY <2>1, InsideIsOnPath
  <2>5. p \notin Replaced(from, to)
    <3> SUFFICES ASSUME p \in Replaced(from, to) PROVE FALSE
      OBVIOUS
    <3>1. \A q \in Box : p \in Inside(q) => b \in Inside(q)
      BY <2>4, InsideNests
    <3>2. b \in Replaced(from, to)
      BY <2>4, <3>1 DEF Replaced, Stays, BoxesOf
    <3> QED
      BY <3>2 DEF Stays
  <2> QED
    BY <2>1, <2>3, <2>5 DEF Stays, Holds, BoxesOf
<1> QED
  BY <1>1, <1>2, <1>3 DEF RequiresReplacement, Holds, IsSet

\* What is inside a box that goes, goes as well.
LEMMA GoingTakesInside ==
  ASSUME NEW from, NEW to, IsProper(from), IsProper(to), NEW b \in Box, NEW c \in Inside(b),
         ~Stays(from, to, b)
  PROVE  c \in Box /\ ~Stays(from, to, c)
<1>1. c \in Box
  BY DEF Inside
<1>2. PICK i \in 1..Depth(c) : PathTo[c][i] = b
  BY <1>1, InsideIsOnPath
<1> QED
  BY <1>1, <1>2, StayingIsClosed

\* A cord of the old graph with an end that goes is cut.
LEMMA GoingIsCut ==
  ASSUME NEW from, NEW to, IsProper(from), IsProper(to), NEW c \in from.cords,
         NEW e \in {c[1], c[2]}, ~Stays(from, to, e)
  PROVE  CutOf(c) \in Steps(from, to)
<1>1. e \in BoxesOf(from)
  BY DEF IsProper, IsGraph
<1>2. c \in to.cords => e \in BoxesOf(to)
  BY DEF IsProper, IsGraph
<1>3. c \in to.cords => e \in Replaced(from, to)
  BY <1>1, <1>2 DEF Stays
<1> QED
  BY <1>3, StepsAre DEF Touches
-----------------------------------------------------------------------------
(* The patch when the operations of a set have been done.                    *)

MidBox(from, to, done, b) ==
  IF MakeOf(to, b) \in done THEN to.boxes[b]
  ELSE IF FreeOf(b) \in done \/ from.boxes[b] = Absent THEN Absent
  ELSE [class |-> from.boxes[b].class,
        attributes |-> [a \in Attribute |->
          IF SetOf(to, b, a) \in done THEN to.boxes[b].attributes[a]
          ELSE from.boxes[b].attributes[a]]]

MidCords(from, to, done) ==
  {c \in Cord : JoinOf(c) \in done \/ (c \in from.cords /\ CutOf(c) \notin done)}

Midway(from, to, done) ==
  [boxes |-> [b \in Box |-> MidBox(from, to, done, b)], cords |-> MidCords(from, to, done)]

\* o is next, after the operations of done.
IsNext(from, to, done, o) ==
  /\ done \subseteq Steps(from, to)
  /\ o \in Steps(from, to) \ done
  /\ \A x \in done : InOrder(x, o)
  /\ \A x \in Steps(from, to) \ done : x = o \/ InOrder(o, x)

LEMMA MidwayParts ==
  ASSUME NEW from, NEW to, NEW done
  PROVE  /\ Midway(from, to, done).boxes = [b \in Box |-> MidBox(from, to, done, b)]
         /\ Midway(from, to, done).cords = MidCords(from, to, done)
  BY DEF Midway

\* Which boxes there are, and of which class.
LEMMA MidwayBoxes ==
  ASSUME NEW from, NEW to, IsProper(from), IsProper(to), NEW done \in SUBSET Steps(from, to),
         NEW b \in Box
  PROVE  LET g == Midway(from, to, done)
         IN  /\ g.boxes[b] \in Content \cup {Absent}
             /\ MakeOf(to, b) \in done => g.boxes[b] = to.boxes[b] /\ g.boxes[b] # Absent
             /\ MakeOf(to, b) \notin done =>
                  /\ g.boxes[b] # Absent <=> from.boxes[b] # Absent /\ FreeOf(b) \notin done
                  /\ g.boxes[b] # Absent => g.boxes[b].class = from.boxes[b].class
<1> DEFINE attributes == [a \in Attribute |->
                            IF SetOf(to, b, a) \in done THEN to.boxes[b].attributes[a]
                            ELSE from.boxes[b].attributes[a]]
           box == [class |-> from.boxes[b].class, attributes |-> attributes]
<1>1. Midway(from, to, done).boxes[b] = MidBox(from, to, done, b)
  BY DEF Midway
<1>2. from.boxes[b] \in Content \cup {Absent} /\ to.boxes[b] \in Content \cup {Absent}
  BY DEF IsProper
<1>3. Absent \notin Content
  BY PlanAssumption
<1>4. MakeOf(to, b) \in done => to.boxes[b] # Absent
  BY StepsAre DEF BoxesOf
<1>5. from.boxes[b] # Absent => box \in Content
  <2> SUFFICES ASSUME from.boxes[b] # Absent PROVE box \in Content
    OBVIOUS
  <2>1. from.boxes[b] \in Content
    BY <1>2
  <2>2. \A a \in Attribute : SetOf(to, b, a) \in done => to.boxes[b] \in Content
    BY <1>2, StepsAre DEF Stays, BoxesOf
  <2>3. attributes \in [Attribute -> Settable \cup Structured \cup {Absent}]
    BY <2>1, <2>2 DEF Content
  <2> HIDE DEF attributes
  <2> QED
    BY <2>1, <2>3 DEF Content
<1>6. MidBox(from, to, done, b) =
        IF MakeOf(to, b) \in done THEN to.boxes[b]
        ELSE IF FreeOf(b) \in done \/ from.boxes[b] = Absent THEN Absent ELSE box
  BY DEF MidBox
<1>7. box.class = from.boxes[b].class
  OBVIOUS
<1> HIDE DEF box
<1> QED
  BY <1>1, <1>2, <1>3, <1>4, <1>5, <1>6, <1>7

LEMMA MidwayStarts ==
  ASSUME NEW from, NEW to, IsProper(from)
  PROVE  Midway(from, to, {}) = from
<1>1. ASSUME NEW b \in Box
      PROVE  MidBox(from, to, {}, b) = from.boxes[b]
  <2>1. CASE from.boxes[b] = Absent
    BY <2>1 DEF MidBox
  <2>2. CASE from.boxes[b] # Absent
    <3>1. from.boxes[b] \in Content
      BY <2>2 DEF IsProper
    <3>2. PICK box : box = from.boxes[b]
      OBVIOUS
    <3>3. box = [class |-> box.class, attributes |-> [a \in Attribute |-> box.attributes[a]]]
      BY <3>1, <3>2 DEF Content
    <3>4. MidBox(from, to, {}, b) =
            [class |-> box.class, attributes |-> [a \in Attribute |-> box.attributes[a]]]
      BY <2>2, <3>2 DEF MidBox
    <3> QED
      BY <3>2, <3>3, <3>4
  <2> QED
    BY <2>1, <2>2
<1>2. [b \in Box |-> MidBox(from, to, {}, b)] = from.boxes
  BY <1>1 DEF IsProper
<1>3. MidCords(from, to, {}) = from.cords
  BY DEF MidCords, IsProper
<1>4. from = [boxes |-> from.boxes, cords |-> from.cords]
  BY DEF IsProper
<1> QED
  BY <1>2, <1>3, <1>4 DEF Midway

LEMMA MidwayEnds ==
  ASSUME NEW from, NEW to, IsProper(from), IsProper(to)
  PROVE  Midway(from, to, Steps(from, to)) = to
<1> DEFINE all == Steps(from, to)
<1>1. ASSUME NEW b \in Box
      PROVE  MidBox(from, to, all, b) = to.boxes[b]
  <2>1. CASE MakeOf(to, b) \in all
    BY <2>1 DEF MidBox
  <2>2. CASE MakeOf(to, b) \notin all /\ to.boxes[b] = Absent
    <3>1. FreeOf(b) \in all \/ from.boxes[b] = Absent
      BY <2>2, StepsAre DEF BoxesOf, Stays
    <3> QED
      BY <2>2, <3>1 DEF MidBox
  <2>3. CASE MakeOf(to, b) \notin all /\ to.boxes[b] # Absent
    <3>1. Stays(from, to, b)
      BY <2>3, StepsAre DEF BoxesOf
    <3>2. FreeOf(b) \notin all /\ from.boxes[b] # Absent
      BY <3>1, StepsAre DEF Stays, BoxesOf
    <3>3. PICK old, new : old = from.boxes[b] /\ new = to.boxes[b]
      OBVIOUS
    <3>4. new \in Content /\ old \in Content
      BY <2>3, <3>2, <3>3 DEF IsProper
    <3>5. old.class = new.class
      BY <3>1, <3>3, StayingIsClosed
    <3>6. \A a \in Attribute : SetOf(to, b, a) \notin all => old.attributes[a] = new.attributes[a]
      BY <3>1, <3>3, StepsAre, StayingIsClosed
    <3>7. PICK attributes : attributes =
            [a \in Attribute |-> IF SetOf(to, b, a) \in all THEN new.attributes[a]
                                 ELSE old.attributes[a]]
      OBVIOUS
    <3>8. attributes = new.attributes
      BY <3>4, <3>6, <3>7 DEF Content
    <3>9. new = [class |-> new.class, attributes |-> new.attributes]
      BY <3>4 DEF Content
    <3>10. MidBox(from, to, all, b) = [class |-> old.class, attributes |-> attributes]
      BY <2>3, <3>2, <3>3, <3>7 DEF MidBox
    <3> QED
      BY <3>3, <3>5, <3>8, <3>9, <3>10
  <2> QED
    BY <2>1, <2>2, <2>3
<1>2. [b \in Box |-> MidBox(from, to, all, b)] = to.boxes
  BY <1>1 DEF IsProper
<1>3. MidCords(from, to, all) = to.cords
  <2>1. from.cords \subseteq Cord /\ to.cords \subseteq Cord
    BY DEF IsProper
  <2>2. \A c \in Cord : (JoinOf(c) \in all \/ (c \in from.cords /\ CutOf(c) \notin all)) <=> c \in to.cords
    BY StepsAre
  <2> QED
    BY <2>1, <2>2 DEF MidCords
<1>4. to = [boxes |-> to.boxes, cords |-> to.cords]
  BY DEF IsProper
<1> QED
  BY <1>2, <1>3, <1>4 DEF Midway

\* An operation that is next has those of earlier kinds before it, and none of
\* later ones; boxes are freed from the inside, and made from the outside.
LEMMA BeforeCut ==
  ASSUME NEW from, NEW to, NEW done, NEW c, IsNext(from, to, done, CutOf(c))
  PROVE  \A x \in done : x.op = "disconnect"
<1>1. \A x \in done : x \in Steps(from, to) /\ InOrder(x, CutOf(c))
  BY DEF IsNext
<1> QED
  BY <1>1 DEF InOrder, Phase, CutOf, Steps, Disconnects, Deletes, Creates, Sets, Connects

LEMMA BeforeFree ==
  ASSUME NEW from, NEW to, NEW done, NEW b, IsNext(from, to, done, FreeOf(b))
  PROVE  /\ \A x \in done : x.op \in {"disconnect", "delete"}
         /\ \A c : CutOf(c) \in Steps(from, to) => CutOf(c) \in done
         /\ \A a : FreeOf(a) \in done => Depth(a) >= Depth(b)
         /\ \A a : FreeOf(a) \in Steps(from, to) /\ ~(Depth(a) <= Depth(b)) => FreeOf(a) \in done
<1>1. \A x \in done : x \in Steps(from, to) /\ InOrder(x, FreeOf(b))
  BY DEF IsNext
<1>2. \A x \in Steps(from, to) \ done : x = FreeOf(b) \/ InOrder(FreeOf(b), x)
  BY DEF IsNext
<1>3. \A x \in done : x.op \in {"disconnect", "delete"}
  BY <1>1 DEF InOrder, Phase, FreeOf, Steps, Disconnects, Deletes, Creates, Sets, Connects
<1>4. \A c : CutOf(c) \in Steps(from, to) => CutOf(c) \in done
  BY <1>2 DEF InOrder, Phase, FreeOf, CutOf
<1>5. \A a : FreeOf(a) \in done => Depth(a) >= Depth(b)
  BY <1>1 DEF InOrder, FreeOf
<1>6. ASSUME NEW a, FreeOf(a) \in Steps(from, to), ~(Depth(a) <= Depth(b))
      PROVE  FreeOf(a) \in done
  <2>1. a \in Box /\ b \in Box
    <3>1. FreeOf(b) \in Steps(from, to)
      BY DEF IsNext
    <3> QED
      BY <1>6, <3>1, StepsAre DEF BoxesOf
  <2>2. Depth(a) \in Nat /\ Depth(b) \in Nat
    BY <2>1, PathsAre
  <2>3. FreeOf(a) # FreeOf(b)
    <3>1. a # b
      BY <1>6, <2>2
    <3> QED
      BY <3>1 DEF FreeOf
  <2>4. InOrder(FreeOf(b), FreeOf(a)) => Depth(b) >= Depth(a)
    BY DEF InOrder, FreeOf
  <2> QED
    BY <1>2, <1>6, <2>2, <2>3, <2>4
<1> QED
  BY <1>3, <1>4, <1>5, <1>6

LEMMA BeforeMake ==
  ASSUME NEW from, NEW to, NEW done, NEW b, IsNext(from, to, done, MakeOf(to, b))
  PROVE  /\ \A x \in done : x.op \in {"disconnect", "delete", "create"}
         /\ \A a : FreeOf(a) \in Steps(from, to) => FreeOf(a) \in done
         /\ \A a : MakeOf(to, a) \in Steps(from, to) /\ Depth(a) < Depth(b) => MakeOf(to, a) \in done
<1>1. \A x \in done : x \in Steps(from, to) /\ InOrder(x, MakeOf(to, b))
  BY DEF IsNext
<1>2. \A x \in Steps(from, to) \ done : x = MakeOf(to, b) \/ InOrder(MakeOf(to, b), x)
  BY DEF IsNext
<1>3. \A x \in done : x.op \in {"disconnect", "delete", "create"}
  BY <1>1 DEF InOrder, Phase, MakeOf, Steps, Disconnects, Deletes, Creates, Sets, Connects
<1>4. \A a : FreeOf(a) \in Steps(from, to) => FreeOf(a) \in done
  BY <1>2 DEF InOrder, Phase, FreeOf, MakeOf
<1>5. ASSUME NEW a, MakeOf(to, a) \in Steps(from, to), Depth(a) < Depth(b)
      PROVE  MakeOf(to, a) \in done
  <2>1. a \in Box /\ b \in Box
    <3>1. MakeOf(to, b) \in Steps(from, to)
      BY DEF IsNext
    <3> QED
      BY <1>5, <3>1, StepsAre DEF BoxesOf
  <2>2. Depth(a) \in Nat /\ Depth(b) \in Nat
    BY <2>1, PathsAre
  <2>3. MakeOf(to, a) # MakeOf(to, b)
    <3>1. a # b
      BY <1>5, <2>2
    <3> QED
      BY <3>1 DEF MakeOf
  <2>4. InOrder(MakeOf(to, b), MakeOf(to, a)) => Depth(b) <= Depth(a)
    BY DEF InOrder, MakeOf
  <2> QED
    BY <1>2, <1>5, <2>2, <2>3, <2>4
<1> QED
  BY <1>3, <1>4, <1>5

LEMMA BeforeSet ==
  ASSUME NEW from, NEW to, NEW done, NEW b, NEW a, IsNext(from, to, done, SetOf(to, b, a))
  PROVE  /\ \A x \in done : x.op # "connect"
         /\ \A c : MakeOf(to, c) \in Steps(from, to) => MakeOf(to, c) \in done
<1>1. \A x \in done : x \in Steps(from, to) /\ InOrder(x, SetOf(to, b, a))
  BY DEF IsNext
<1>2. \A x \in Steps(from, to) \ done : x = SetOf(to, b, a) \/ InOrder(SetOf(to, b, a), x)
  BY DEF IsNext
<1>3. \A x \in done : x.op # "connect"
  BY <1>1 DEF InOrder, Phase, SetOf
<1>4. \A c : MakeOf(to, c) \in Steps(from, to) => MakeOf(to, c) \in done
  BY <1>2 DEF InOrder, Phase, SetOf, MakeOf
<1> QED
  BY <1>3, <1>4

LEMMA BeforeJoin ==
  ASSUME NEW from, NEW to, NEW done, NEW c, IsNext(from, to, done, JoinOf(c))
  PROVE  \A b : MakeOf(to, b) \in Steps(from, to) => MakeOf(to, b) \in done
<1>1. \A x \in Steps(from, to) \ done : x = JoinOf(c) \/ InOrder(JoinOf(c), x)
  BY DEF IsNext
<1> QED
  BY <1>1 DEF InOrder, Phase, JoinOf, MakeOf

-----------------------------------------------------------------------------
(* Where an operation finds its patcher and its boxes.                       *)

\* A box that stays is there all the time, with its class.
LEMMA StayingIsThere ==
  ASSUME NEW from, NEW to, IsProper(from), IsProper(to), NEW done \in SUBSET Steps(from, to),
         NEW b \in Box, Stays(from, to, b)
  PROVE  /\ Midway(from, to, done).boxes[b] # Absent
         /\ Midway(from, to, done).boxes[b].class = from.boxes[b].class
         /\ Reaches(Midway(from, to, done), PathTo[b])
<1>1. ASSUME NEW a \in Box, Stays(from, to, a)
      PROVE  /\ Midway(from, to, done).boxes[a] # Absent
             /\ Midway(from, to, done).boxes[a].class = from.boxes[a].class
  <2>1. MakeOf(to, a) \notin done /\ FreeOf(a) \notin done /\ from.boxes[a] # Absent
    BY <1>1, StepsAre DEF Stays, BoxesOf
  <2> QED
    BY <2>1, MidwayBoxes
<1>2. ASSUME NEW i \in DOMAIN PathTo[b]
      PROVE  Holds(Midway(from, to, done), PathTo[b][i])
  <2>1. i \in 1..Depth(b)
    BY PathsAre, LenProperties DEF Depth
  <2>2. PICK p \in Box : p = PathTo[b][i]
    BY <2>1, PathsFit DEF PathFits
  <2>3. Stays(from, to, p) /\ Holds(from, p)
    BY <2>1, <2>2, StayingIsClosed
  <2> QED
    BY <1>1, <2>2, <2>3 DEF Holds
<1> QED
  BY <1>1, <1>2 DEF Reaches

\* A box of the old graph that is not freed yet, with those around it.
LEMMA OldIsThere ==
  ASSUME NEW from, NEW to, IsProper(from), IsProper(to), NEW done \in SUBSET Steps(from, to),
         NEW b \in BoxesOf(from), FreeOf(b) \notin done,
         \A a : MakeOf(to, a) \notin done,
         \A a \in Box : b \in Inside(a) => FreeOf(a) \notin done
  PROVE  /\ Midway(from, to, done).boxes[b] # Absent
         /\ Reaches(Midway(from, to, done), PathTo[b])
<1>0. b \in Box /\ from.boxes[b] # Absent
  BY DEF BoxesOf
<1>1. ASSUME NEW i \in DOMAIN PathTo[b]
      PROVE  Holds(Midway(from, to, done), PathTo[b][i])
  <2>1. i \in 1..Depth(b)
    BY <1>0, PathsAre, LenProperties DEF Depth
  <2>2. PICK p \in Box : p = PathTo[b][i]
    BY <1>0, <2>1, PathsFit DEF PathFits
  <2>3. b \in Inside(p)
    BY <1>0, <2>1, <2>2, InsideIsOnPath
  <2>4. Holds(from, p)
    BY <1>1, <2>2 DEF IsProper, IsGraph, Reaches
  <2> QED
    BY <2>2, <2>3, <2>4, MidwayBoxes DEF Holds
<1> QED
  BY <1>0, <1>1, MidwayBoxes DEF Reaches

\* Of a box of the new graph, all around it is there as soon as it is made.
LEMMA NewIsThere ==
  ASSUME NEW from, NEW to, IsProper(from), IsProper(to), NEW done \in SUBSET Steps(from, to),
         NEW b \in BoxesOf(to),
         \A a \in Box : b \in Inside(a) /\ MakeOf(to, a) \in Steps(from, to) => MakeOf(to, a) \in done
  PROVE  /\ Reaches(Midway(from, to, done), PathTo[b])
         /\ (MakeOf(to, b) \in Steps(from, to) => MakeOf(to, b) \in done) =>
              Midway(from, to, done).boxes[b] # Absent
<1>0. b \in Box /\ to.boxes[b] # Absent
  BY DEF BoxesOf
<1>1. ASSUME NEW a \in Box, to.boxes[a] # Absent,
             MakeOf(to, a) \in Steps(from, to) => MakeOf(to, a) \in done
      PROVE  /\ Midway(from, to, done).boxes[a] # Absent
             /\ Midway(from, to, done).boxes[a].class = to.boxes[a].class
  <2>1. CASE MakeOf(to, a) \in done
    BY <2>1, MidwayBoxes
  <2>2. CASE MakeOf(to, a) \notin done
    <3>1. Stays(from, to, a)
      BY <1>1, <2>2, StepsAre DEF BoxesOf
    <3> QED
      BY <3>1, StayingIsThere, StayingIsClosed
  <2> QED
    BY <2>1, <2>2
<1>2. ASSUME NEW i \in DOMAIN PathTo[b]
      PROVE  Holds(Midway(from, to, done), PathTo[b][i])
  <2>1. i \in 1..Depth(b)
    BY <1>0, PathsAre, LenProperties DEF Depth
  <2>2. PICK p \in Box : p = PathTo[b][i]
    BY <1>0, <2>1, PathsFit DEF PathFits
  <2>3. b \in Inside(p)
    BY <1>0, <2>1, <2>2, InsideIsOnPath
  <2>4. Holds(to, p)
    BY <1>2, <2>2 DEF IsProper, IsGraph, Reaches
  <2> QED
    BY <1>1, <2>2, <2>3, <2>4 DEF Holds
<1> QED
  BY <1>0, <1>1, <1>2 DEF Reaches

LEMMA Targets ==
  /\ \A b : Ends(FreeOf(b)) = {b} /\ TargetPath(FreeOf(b)) = PathTo[b]
  /\ \A to, b : Ends(MakeOf(to, b)) = {b} /\ TargetPath(MakeOf(to, b)) = PathTo[b]
  /\ \A to, b, a : Ends(SetOf(to, b, a)) = {b} /\ TargetPath(SetOf(to, b, a)) = PathTo[b]
  /\ \A c \in Cord : /\ Ends(CutOf(c)) = {c[1], c[2]} /\ TargetPath(CutOf(c)) = PathTo[c[1]]
                      /\ Ends(JoinOf(c)) = {c[1], c[2]} /\ TargetPath(JoinOf(c)) = PathTo[c[1]]
<1>1. ASSUME NEW b, NEW o, o.op \in {"delete", "create", "set"}, o.box = b
      PROVE  Ends(o) = {b} /\ TargetPath(o) = PathTo[b]
  <2>1. Ends(o) = {b}
    BY <1>1 DEF Ends
  <2>2. (CHOOSE x \in {b} : TRUE) = b
    OBVIOUS
  <2> QED
    BY <2>1, <2>2 DEF TargetPath
<1>2. ASSUME NEW c \in Cord, NEW o, o.op \in {"connect", "disconnect"}, o.cord = c
      PROVE  Ends(o) = {c[1], c[2]} /\ TargetPath(o) = PathTo[c[1]]
  <2>1. Ends(o) = {c[1], c[2]}
    BY <1>2 DEF Ends
  <2>2. PathTo[c[1]] = PathTo[c[2]]
    BY PlanAssumption
  <2>3. (CHOOSE x \in {c[1], c[2]} : TRUE) \in {c[1], c[2]}
    OBVIOUS
  <2> QED
    BY <2>1, <2>2, <2>3 DEF TargetPath
<1>3. \A b : FreeOf(b).op = "delete" /\ FreeOf(b).box = b
  BY DEF FreeOf
<1>4. \A to, b : MakeOf(to, b).op = "create" /\ MakeOf(to, b).box = b
  BY DEF MakeOf
<1>5. \A to, b, a : SetOf(to, b, a).op = "set" /\ SetOf(to, b, a).box = b
  BY DEF SetOf
<1>6. \A c : CutOf(c).op = "disconnect" /\ CutOf(c).cord = c /\ JoinOf(c).op = "connect" /\ JoinOf(c).cord = c
  BY DEF CutOf, JoinOf
<1> QED
  BY <1>1, <1>2, <1>3, <1>4, <1>5, <1>6

-----------------------------------------------------------------------------
(* One operation.                                                            *)

\* The next operation finds what it needs and does what it is for.
Works(from, to, done, o) ==
  /\ CanApply(Midway(from, to, done), o)
  /\ Effect(Midway(from, to, done), o) = Midway(from, to, done \cup {o})

LEMMA Kinds ==
  /\ \A c : CutOf(c).op = "disconnect" /\ CutOf(c).cord = c
  /\ \A b : FreeOf(b).op = "delete" /\ FreeOf(b).box = b
  /\ \A to, b : /\ MakeOf(to, b).op = "create" /\ MakeOf(to, b).box = b
                /\ MakeOf(to, b).content = to.boxes[b]
  /\ \A to, b, a : /\ SetOf(to, b, a).op = "set" /\ SetOf(to, b, a).box = b
                   /\ SetOf(to, b, a).attribute = a
                   /\ SetOf(to, b, a).value = to.boxes[b].attributes[a]
  /\ \A c : JoinOf(c).op = "connect" /\ JoinOf(c).cord = c
  BY DEF CutOf, FreeOf, MakeOf, SetOf, JoinOf

LEMMA CutWorks ==
  ASSUME NEW from, NEW to, IsProper(from), IsProper(to), NEW done, NEW c \in Cord,
         IsNext(from, to, done, CutOf(c))
  PROVE  Works(from, to, done, CutOf(c))
<1> DEFINE o == CutOf(c)
<1>1. done \in SUBSET Steps(from, to) /\ o \in Steps(from, to) /\ c \in from.cords
  BY StepsAre DEF IsNext
<1>2. /\ \A b : FreeOf(b) \notin done /\ MakeOf(to, b) \notin done
      /\ \A b, a : SetOf(to, b, a) \notin done
      /\ \A d : JoinOf(d) \notin done
  BY BeforeCut, Kinds
<1>3. c[1] \in BoxesOf(from) /\ c[2] \in BoxesOf(from)
  BY <1>1 DEF IsProper, IsGraph
<1>4. CanApply(Midway(from, to, done), o)
  <2>1. /\ Reaches(Midway(from, to, done), PathTo[c[1]])
        /\ Midway(from, to, done).boxes[c[1]] # Absent
        /\ Midway(from, to, done).boxes[c[2]] # Absent
    BY <1>1, <1>2, <1>3, OldIsThere
  <2>2. {c[1], c[2]} \subseteq BoxesOf(Midway(from, to, done))
    BY <1>3, <2>1 DEF BoxesOf
  <2> QED
    BY <2>1, <2>2, Targets DEF CanApply
<1>5. \A b \in Box : MidBox(from, to, done \cup {o}, b) = MidBox(from, to, done, b)
  <2>1. /\ \A b : MakeOf(to, b) # o /\ FreeOf(b) # o
        /\ \A b, a : SetOf(to, b, a) # o
    BY Kinds
  <2> HIDE DEF o
  <2> QED
    BY <2>1 DEF MidBox
<1>6. MidCords(from, to, done \cup {o}) = MidCords(from, to, done) \ {c}
  <2>1. \A d : JoinOf(d) # o /\ (CutOf(d) = o <=> d = c)
    BY Kinds
  <2> HIDE DEF o
  <2> QED
    BY <1>2, <2>1 DEF MidCords
<1>7. Effect(Midway(from, to, done), o) =
        [boxes |-> Midway(from, to, done).boxes, cords |-> Midway(from, to, done).cords \ {c}]
  BY Kinds DEF Effect, Corded
<1>8. [b \in Box |-> MidBox(from, to, done \cup {o}, b)] = [b \in Box |-> MidBox(from, to, done, b)]
  BY <1>5
<1> HIDE DEF o
<1>9. Effect(Midway(from, to, done), o) = Midway(from, to, done \cup {o})
  BY <1>6, <1>7, <1>8 DEF Midway
<1> QED
  BY <1>4, <1>9 DEF Works, o

LEMMA JoinWorks ==
  ASSUME NEW from, NEW to, IsProper(from), IsProper(to), NEW done, NEW c \in Cord,
         IsNext(from, to, done, JoinOf(c))
  PROVE  Works(from, to, done, JoinOf(c))
<1> DEFINE o == JoinOf(c)
<1>1. done \in SUBSET Steps(from, to) /\ o \in Steps(from, to) /\ c \in to.cords
  BY StepsAre DEF IsNext
<1>2. \A b : MakeOf(to, b) \in Steps(from, to) => MakeOf(to, b) \in done
  BY BeforeJoin
<1>3. c[1] \in BoxesOf(to) /\ c[2] \in BoxesOf(to)
  BY <1>1 DEF IsProper, IsGraph
<1>4. CanApply(Midway(from, to, done), o)
  <2>1. /\ Reaches(Midway(from, to, done), PathTo[c[1]])
        /\ Midway(from, to, done).boxes[c[1]] # Absent
        /\ Midway(from, to, done).boxes[c[2]] # Absent
    BY <1>1, <1>2, <1>3, NewIsThere
  <2>2. {c[1], c[2]} \subseteq BoxesOf(Midway(from, to, done))
    BY <1>3, <2>1 DEF BoxesOf
  <2> QED
    BY <2>1, <2>2, Targets DEF CanApply
<1>5. \A b \in Box : MidBox(from, to, done \cup {o}, b) = MidBox(from, to, done, b)
  <2>1. /\ \A b : MakeOf(to, b) # o /\ FreeOf(b) # o
        /\ \A b, a : SetOf(to, b, a) # o
    BY Kinds
  <2> HIDE DEF o
  <2> QED
    BY <2>1 DEF MidBox
<1>6. MidCords(from, to, done \cup {o}) = MidCords(from, to, done) \cup {c}
  <2>1. \A d : CutOf(d) # o /\ (JoinOf(d) = o <=> d = c)
    BY Kinds
  <2> HIDE DEF o
  <2> QED
    BY <2>1 DEF MidCords
<1>7. Effect(Midway(from, to, done), o) =
        [boxes |-> Midway(from, to, done).boxes, cords |-> Midway(from, to, done).cords \cup {c}]
  BY Kinds DEF Effect, Corded
<1>8. [b \in Box |-> MidBox(from, to, done \cup {o}, b)] = [b \in Box |-> MidBox(from, to, done, b)]
  BY <1>5
<1> HIDE DEF o
<1>9. Effect(Midway(from, to, done), o) = Midway(from, to, done \cup {o})
  BY <1>6, <1>7, <1>8 DEF Midway
<1> QED
  BY <1>4, <1>9 DEF Works, o

LEMMA FreeWorks ==
  ASSUME NEW from, NEW to, IsProper(from), IsProper(to), NEW done, NEW b \in Box,
         IsNext(from, to, done, FreeOf(b))
  PROVE  Works(from, to, done, FreeOf(b))
<1> DEFINE o == FreeOf(b)
           g == Midway(from, to, done)
           gone == {b} \cup Inside(b)
<1>1. done \in SUBSET Steps(from, to) /\ o \in Steps(from, to) \ done
  BY DEF IsNext
<1>2. b \in BoxesOf(from) /\ ~Stays(from, to, b)
  BY <1>1, StepsAre
<1>3. /\ \A a : MakeOf(to, a) \notin done
      /\ \A d : JoinOf(d) \notin done
      /\ \A a, x : SetOf(to, a, x) \notin done
  BY BeforeFree, Kinds
<1>4. \A c : CutOf(c) \in Steps(from, to) => CutOf(c) \in done
  BY BeforeFree
<1>5. CanApply(g, o)
  <2>1. \A a \in Box : b \in Inside(a) => FreeOf(a) \notin done
    <3> SUFFICES ASSUME NEW a \in Box, b \in Inside(a) PROVE FreeOf(a) \notin done
      OBVIOUS
    <3>1. Depth(b) > Depth(a) /\ Depth(a) \in Nat /\ Depth(b) \in Nat
      BY InsideNests, PathsAre
    <3>2. FreeOf(a) \in done => Depth(a) >= Depth(b)
      BY BeforeFree
    <3> QED
      BY <3>1, <3>2
  <2>2. g.boxes[b] # Absent /\ Reaches(g, PathTo[b])
    BY <1>1, <1>2, <1>3, <2>1, OldIsThere
  <2>3. {b} \subseteq BoxesOf(g)
    BY <2>2 DEF BoxesOf
  <2> QED
    BY <2>2, <2>3, Targets DEF CanApply
<1>6. Effect(g, o) = Without(g, b)
  BY Kinds DEF Effect
<1>7. ASSUME NEW a \in Box
      PROVE  MidBox(from, to, done \cup {o}, a) = IF a \in gone THEN Absent ELSE g.boxes[a]
  <2>1. g.boxes[a] = MidBox(from, to, done, a)
    BY DEF Midway
  <2>2. /\ \A x : MakeOf(to, x) # o /\ (FreeOf(x) = o <=> x = b)
        /\ \A x, y : SetOf(to, x, y) # o
    BY Kinds
  <2>3. CASE a = b
    BY <1>3, <2>2, <2>3 DEF MidBox
  <2>4. CASE a # b /\ a \in Inside(b)
    <3>1. from.boxes[a] # Absent => FreeOf(a) \in done
      <4> SUFFICES ASSUME from.boxes[a] # Absent PROVE FreeOf(a) \in done
        OBVIOUS
      <4>1. FreeOf(a) \in Steps(from, to)
        BY <1>2, <2>4, GoingTakesInside, StepsAre DEF BoxesOf
      <4>2. ~(Depth(a) <= Depth(b))
        BY <2>4, InsideNests, PathsAre
      <4> QED
        BY <4>1, <4>2, BeforeFree
    <3> HIDE DEF o
    <3> QED
      BY <1>3, <2>2, <2>4, <3>1 DEF MidBox
  <2>5. CASE a \notin gone
    <3> HIDE DEF o
    <3> QED
      BY <2>1, <2>2, <2>5 DEF MidBox
  <2> QED
    BY <2>3, <2>4, <2>5
<1>8. MidCords(from, to, done \cup {o}) = {c \in g.cords : {c[1], c[2]} \cap gone = {}}
  <2>1. g.cords = MidCords(from, to, done)
    BY DEF Midway
  <2>2. \A d : JoinOf(d) # o /\ CutOf(d) # o
    BY Kinds
  <2>3. MidCords(from, to, done \cup {o}) = g.cords
    <3> HIDE DEF o
    <3> QED
      BY <2>1, <2>2 DEF MidCords
  <2>4. ASSUME NEW c \in g.cords
        PROVE  {c[1], c[2]} \cap gone = {}
    <3> SUFFICES ASSUME NEW e \in {c[1], c[2]}, e \in gone PROVE FALSE
      OBVIOUS
    <3>1. c \in from.cords /\ CutOf(c) \notin done
      BY <1>3, <2>1 DEF MidCords
    <3>2. ~Stays(from, to, e)
      BY <1>2, GoingTakesInside
    <3>3. CutOf(c) \in Steps(from, to)
      BY <3>1, <3>2, GoingIsCut
    <3> QED
      BY <1>4, <3>1, <3>3
  <2> QED
    BY <2>3, <2>4
<1>9. Effect(g, o) = Midway(from, to, done \cup {o})
  <2>1. [a \in Box |-> MidBox(from, to, done \cup {o}, a)] =
          [a \in Box |-> IF a \in gone THEN Absent ELSE g.boxes[a]]
    BY <1>7
  <2> HIDE DEF o, g
  <2> QED
    BY <1>6, <1>8, <2>1 DEF Midway, Without
<1> QED
  BY <1>5, <1>9 DEF Works

LEMMA MakeWorks ==
  ASSUME NEW from, NEW to, IsProper(from), IsProper(to), NEW done, NEW b \in Box,
         IsNext(from, to, done, MakeOf(to, b))
  PROVE  /\ Works(from, to, done, MakeOf(to, b))
         /\ Midway(from, to, done).boxes[b] = Absent
<1> DEFINE o == MakeOf(to, b)
           g == Midway(from, to, done)
<1>1. done \in SUBSET Steps(from, to) /\ o \in Steps(from, to) \ done
  BY DEF IsNext
<1>2. b \in BoxesOf(to) /\ ~Stays(from, to, b)
  BY <1>1, StepsAre
<1>3. CanApply(g, o)
  <2>1. \A a \in Box : b \in Inside(a) /\ MakeOf(to, a) \in Steps(from, to) => MakeOf(to, a) \in done
    BY BeforeMake, InsideNests, PathsAre
  <2>2. Reaches(g, PathTo[b])
    BY <1>1, <1>2, <2>1, NewIsThere
  <2> QED
    BY <2>2, Targets, Kinds DEF CanApply
<1>4. g.boxes[b] = Absent
  <2>1. from.boxes[b] # Absent => FreeOf(b) \in done
    BY <1>2, StepsAre, BeforeMake DEF BoxesOf
  <2> QED
    BY <1>1, <2>1, MidwayBoxes
<1>5. /\ \A x : FreeOf(x) # o /\ (MakeOf(to, x) = o <=> x = b)
      /\ \A x, y : SetOf(to, x, y) # o
      /\ \A x : CutOf(x) # o /\ JoinOf(x) # o
  BY Kinds
<1>6. Effect(g, o) = [boxes |-> [g.boxes EXCEPT ![b] = to.boxes[b]], cords |-> g.cords]
  <2>1. o.op = "create" /\ o.box = b /\ o.content = to.boxes[b]
    BY Kinds
  <2> HIDE DEF o, g
  <2>2. Effect(g, o) = With(g, o.box, o.content)
    BY <2>1 DEF Effect
  <2>3. Effect(g, o) = With(g, b, to.boxes[b])
    BY <2>1, <2>2
  <2> QED
    BY <2>3 DEF With
<1>7. [a \in Box |-> MidBox(from, to, done \cup {o}, a)] = [g.boxes EXCEPT ![b] = to.boxes[b]]
  <2>1. g.boxes = [a \in Box |-> MidBox(from, to, done, a)]
    BY DEF Midway
  <2>2. MidBox(from, to, done \cup {o}, b) = to.boxes[b]
    BY DEF MidBox
  <2> HIDE DEF o, g
  <2>3. \A a \in Box : a # b => MidBox(from, to, done \cup {o}, a) = MidBox(from, to, done, a)
    BY <1>5 DEF MidBox
  <2> QED
    BY <2>1, <2>2, <2>3
<1>8. MidCords(from, to, done \cup {o}) = g.cords
  <2>1. g.cords = MidCords(from, to, done)
    BY DEF Midway
  <2> HIDE DEF o, g
  <2> QED
    BY <1>5, <2>1 DEF MidCords
<1>9. Effect(g, o) = Midway(from, to, done \cup {o})
  <2> HIDE DEF o, g
  <2> QED
    BY <1>6, <1>7, <1>8 DEF Midway
<1> QED
  BY <1>3, <1>4, <1>9 DEF Works

LEMMA SetWorks ==
  ASSUME NEW from, NEW to, IsProper(from), IsProper(to), NEW done, NEW b \in Box, NEW a \in Attribute,
         IsNext(from, to, done, SetOf(to, b, a))
  PROVE  Works(from, to, done, SetOf(to, b, a))
<1> DEFINE o == SetOf(to, b, a)
           g == Midway(from, to, done)
<1>1. done \in SUBSET Steps(from, to) /\ o \in Steps(from, to) \ done
  BY DEF IsNext
<1>2. Stays(from, to, b)
  BY <1>1, StepsAre
<1>3. CanApply(g, o)
  <2>1. g.boxes[b] # Absent /\ Reaches(g, PathTo[b])
    BY <1>1, <1>2, StayingIsThere
  <2>2. {b} \subseteq BoxesOf(g)
    BY <2>1 DEF BoxesOf
  <2> QED
    BY <2>1, <2>2, Targets DEF CanApply
<1>4. /\ \A x : FreeOf(x) # o /\ MakeOf(to, x) # o
      /\ \A x, y : SetOf(to, x, y) = o <=> x = b /\ y = a
      /\ \A x : CutOf(x) # o /\ JoinOf(x) # o
  <2>1. \A x, y : SetOf(to, x, y) = o => x = b /\ y = a
    BY DEF SetOf
  <2> QED
    BY <2>1, Kinds
<1>5. MakeOf(to, b) \notin done /\ FreeOf(b) \notin done /\ from.boxes[b] # Absent
  BY <1>1, <1>2, StepsAre DEF Stays, BoxesOf
<1> DEFINE value == to.boxes[b].attributes[a]
           Mid(d) == [x \in Attribute |-> IF SetOf(to, b, x) \in d THEN to.boxes[b].attributes[x]
                                           ELSE from.boxes[b].attributes[x]]
<1>6. /\ MidBox(from, to, done, b) = [class |-> from.boxes[b].class, attributes |-> Mid(done)]
      /\ MidBox(from, to, done \cup {o}, b) =
           [class |-> from.boxes[b].class, attributes |-> Mid(done \cup {o})]
  <2> HIDE DEF o
  <2> QED
    BY <1>4, <1>5 DEF MidBox
<1>7. Mid(done \cup {o}) = [Mid(done) EXCEPT ![a] = value]
  <2>1. \A x \in Attribute : SetOf(to, b, x) \in done \cup {o} <=> SetOf(to, b, x) \in done \/ x = a
    <3> HIDE DEF o
    <3> QED
      BY <1>4
  <2> HIDE DEF o
  <2> QED
    BY <2>1
<1>8. g.boxes = [x \in Box |-> MidBox(from, to, done, x)] /\ g.cords = MidCords(from, to, done)
  BY DEF Midway
<1> HIDE DEF g, Mid
<1>9. Effect(g, o) = With(g, b, [class |-> g.boxes[b].class,
                                 attributes |-> [g.boxes[b].attributes EXCEPT ![a] = value]])
  BY Kinds DEF Effect
<1>10. [class |-> g.boxes[b].class, attributes |-> [g.boxes[b].attributes EXCEPT ![a] = value]] =
         MidBox(from, to, done \cup {o}, b)
  <2>1. g.boxes[b] = [class |-> from.boxes[b].class, attributes |-> Mid(done)]
    BY <1>6, <1>8
  <2>2. g.boxes[b].class = from.boxes[b].class /\ g.boxes[b].attributes = Mid(done)
    BY <2>1
  <2> HIDE DEF o, value
  <2> QED
    BY <1>6, <1>7, <2>2
<1> HIDE DEF o
<1>11. \A x \in Box : x # b => MidBox(from, to, done \cup {o}, x) = MidBox(from, to, done, x)
  BY <1>4 DEF MidBox
<1>12. [g.boxes EXCEPT ![b] = MidBox(from, to, done \cup {o}, b)] =
         [x \in Box |-> MidBox(from, to, done \cup {o}, x)]
  BY <1>8, <1>11
<1>13. MidCords(from, to, done \cup {o}) = g.cords
  BY <1>4, <1>8 DEF MidCords
<1>14. Effect(g, o) = Midway(from, to, done \cup {o})
  BY <1>9, <1>10, <1>12, <1>13 DEF Midway, With
<1> QED
  BY <1>3, <1>14 DEF Works, g, o

LEMMA NextWorks ==
  ASSUME NEW from, NEW to, IsProper(from), IsProper(to), NEW done, NEW o,
         IsNext(from, to, done, o)
  PROVE  /\ Works(from, to, done, o)
         /\ o.op = "create" => o.box \notin BoxesOf(Midway(from, to, done))
<1>1. o \in Steps(from, to)
  BY DEF IsNext
<1>2. CASE \E c \in Cord : o = CutOf(c)
  BY <1>2, CutWorks, Kinds
<1>3. CASE \E b \in Box : o = FreeOf(b)
  BY <1>3, FreeWorks, Kinds
<1>4. CASE \E b \in Box : o = MakeOf(to, b)
  BY <1>4, MakeWorks, Kinds DEF BoxesOf
<1>5. CASE \E b \in Box, a \in Attribute : o = SetOf(to, b, a)
  BY <1>5, SetWorks, Kinds
<1>6. CASE \E c \in Cord : o = JoinOf(c)
  BY <1>6, JoinWorks, Kinds
<1> QED
  BY <1>1, <1>2, <1>3, <1>4, <1>5, <1>6, StepKinds
-----------------------------------------------------------------------------
(* All operations, one by one.                                               *)

DoneBy(ops, n) == {ops[i] : i \in 1..n}

LEMMA PlansRun ==
  ASSUME NEW from, NEW to, IsProper(from), IsProper(to)
  PROVE  LET ops == Operations(from, to)
         IN  /\ ops \in Seq(Steps(from, to)) /\ Len(ops) \in Nat
             /\ DoneBy(ops, 0) = {} /\ DoneBy(ops, Len(ops)) = Steps(from, to)
             /\ \A n \in 1..Len(ops) :
                  /\ IsNext(from, to, DoneBy(ops, n - 1), ops[n])
                  /\ DoneBy(ops, n) = DoneBy(ops, n - 1) \cup {ops[n]}
             /\ \A n \in 2..Len(ops) : Phase(ops[n - 1]) <= Phase(ops[n])
<1>1. PICK ops : ops = Operations(from, to)
  OBVIOUS
<1>2. Arranged(ops, Steps(from, to))
  BY <1>1, OperationsAreArranged
<1>3. ops \in Seq(Steps(from, to)) /\ Len(ops) \in Nat
  BY <1>2 DEF Arranged, Lists
<1>4. \A i \in 1..Len(ops) : ops[i] \in Steps(from, to)
  BY <1>3, ElementOfSeq
<1>5. \A x \in Steps(from, to) : \E i \in 1..Len(ops) : ops[i] = x
  BY <1>2 DEF Arranged, Lists
<1>6. \A i, j \in 1..Len(ops) : i < j => ops[i] # ops[j] /\ InOrder(ops[i], ops[j])
  BY <1>2 DEF Arranged, Lists
<1>7. DoneBy(ops, 0) = {}
  BY DEF DoneBy
<1>8. DoneBy(ops, Len(ops)) = Steps(from, to)
  BY <1>4, <1>5 DEF DoneBy
<1>9. ASSUME NEW n \in 1..Len(ops)
      PROVE  /\ IsNext(from, to, DoneBy(ops, n - 1), ops[n])
             /\ DoneBy(ops, n) = DoneBy(ops, n - 1) \cup {ops[n]}
  <2>1. DoneBy(ops, n - 1) \subseteq Steps(from, to)
    BY <1>3, <1>4 DEF DoneBy
  <2>2. ops[n] \in Steps(from, to)
    BY <1>4
  <2>3. \A i \in 1..(n - 1) : ops[i] # ops[n] /\ InOrder(ops[i], ops[n])
    BY <1>3, <1>6
  <2>4. ops[n] \notin DoneBy(ops, n - 1) /\ \A x \in DoneBy(ops, n - 1) : InOrder(x, ops[n])
    BY <2>3 DEF DoneBy
  <2>5. ASSUME NEW x \in Steps(from, to) \ DoneBy(ops, n - 1)
        PROVE  x = ops[n] \/ InOrder(ops[n], x)
    <3>1. PICK i \in 1..Len(ops) : ops[i] = x
      BY <1>5
    <3>2. i \notin 1..(n - 1)
      BY <3>1, <2>5 DEF DoneBy
    <3>3. i = n \/ n < i
      BY <1>3, <3>2
    <3> QED
      BY <1>6, <3>1, <3>3
  <2>6. DoneBy(ops, n) = DoneBy(ops, n - 1) \cup {ops[n]}
    <3>1. 1..n = (1..(n - 1)) \cup {n}
      BY <1>3
    <3> QED
      BY <3>1 DEF DoneBy
  <2> QED
    BY <2>1, <2>2, <2>4, <2>5, <2>6 DEF IsNext
<1>10. \A n \in 2..Len(ops) : Phase(ops[n - 1]) <= Phase(ops[n])
  <2>1. \A n \in 2..Len(ops) : n - 1 \in 1..Len(ops) /\ n \in 1..Len(ops) /\ n - 1 < n
    BY <1>3
  <2>2. \A n \in 2..Len(ops) : InOrder(ops[n - 1], ops[n])
    BY <1>6, <2>1
  <2> QED
    BY <2>2 DEF InOrder
<1>11. \A n \in 1..Len(ops) :
          /\ IsNext(from, to, DoneBy(ops, n - 1), ops[n])
          /\ DoneBy(ops, n) = DoneBy(ops, n - 1) \cup {ops[n]}
  BY <1>9
<1> QED
  BY ONLY <1>1, <1>3, <1>7, <1>8, <1>10, <1>11

-----------------------------------------------------------------------------
(* The simulation before a plan runs.                                        *)

Patchers(graph) == {b \in Box : Holds(graph, b)}

\* What validate_plan knows of a graph.
Mirror(graph, phase) ==
  [valid |-> TRUE, phase |-> phase, boxes |-> BoxesOf(graph), patchers |-> Patchers(graph)]

\* The known boxes and patchers before and after an operation.
Mirrored(g, h, o) ==
  /\ BoxesOf(h) =
       CASE o.op = "delete" -> BoxesOf(g) \ ({o.box} \cup Inside(o.box))
         [] o.op = "create" -> BoxesOf(g) \cup {o.box}
         [] OTHER -> BoxesOf(g)
  /\ Patchers(h) =
       CASE o.op = "delete" -> Patchers(g) \ ({o.box} \cup Inside(o.box))
         [] o.op = "create" /\ o.content.class \in Subpatcher -> Patchers(g) \cup {o.box}
         [] OTHER -> Patchers(g)

\* They change as those of the patch do.
LEMMA SetsMirrored ==
  ASSUME NEW from, NEW to, IsProper(from), IsProper(to), NEW done, NEW o,
         IsNext(from, to, done, o),
         NEW g, NEW h, g = Midway(from, to, done), h = Midway(from, to, done \cup {o})
  PROVE  Mirrored(g, h, o)
<1>1. g = Midway(from, to, done) /\ h = Midway(from, to, done \cup {o})
  OBVIOUS
<1>2. done \in SUBSET Steps(from, to) /\ o \in Steps(from, to)
  BY DEF IsNext
<1>3. h = Effect(g, o) /\ CanApply(g, o) /\ (o.op = "create" => o.box \notin BoxesOf(g))
  BY <1>1, NextWorks DEF Works
<1>4. g.boxes \in [Box -> Content \cup {Absent}] /\ Absent \notin Content
  <2>1. g.boxes = [b \in Box |-> MidBox(from, to, done, b)]
    BY <1>1 DEF Midway
  <2>2. \A b \in Box : g.boxes[b] \in Content \cup {Absent}
    BY <1>1, <1>2, MidwayBoxes
  <2> QED
    BY <2>1, <2>2, PlanAssumption
<1>5. CASE o.op \in {"disconnect", "connect"}
  <2>1. h.boxes = g.boxes
    BY <1>3, <1>5 DEF Effect, Corded
  <2>2. BoxesOf(h) = BoxesOf(g) /\ Patchers(h) = Patchers(g)
    BY <2>1 DEF BoxesOf, Patchers, Holds
  <2>3. o.op # "delete" /\ o.op # "create"
    BY <1>5
  <2> QED
    BY <2>2, <2>3 DEF Mirrored
<1>6. CASE o.op = "delete"
  <2>1. h.boxes = [c \in Box |-> IF c \in {o.box} \cup Inside(o.box) THEN Absent ELSE g.boxes[c]]
    <3>1. h = Without(g, o.box)
      BY <1>3, <1>6 DEF Effect
    <3> QED
      BY ONLY <3>1 DEF Without
  <2>2. /\ BoxesOf(h) = BoxesOf(g) \ ({o.box} \cup Inside(o.box))
        /\ Patchers(h) = Patchers(g) \ ({o.box} \cup Inside(o.box))
    BY <2>1 DEF BoxesOf, Patchers, Holds
  <2> QED
    BY <1>6, <2>2 DEF Mirrored
<1>7. CASE o.op = "create"
  <2>1. PICK b \in Box : o = MakeOf(to, b)
    BY <1>2, <1>7, StepKinds, Kinds
  <2>2. o.box = b /\ o.content = to.boxes[b] /\ to.boxes[b] # Absent
    BY <1>2, <2>1, Kinds, StepsAre DEF BoxesOf
  <2>3. h.boxes = [g.boxes EXCEPT ![b] = o.content]
    BY <1>3, <1>7, <2>2 DEF Effect, With
  <2>4. h.boxes[b] = o.content /\ \A c \in Box : c # b => h.boxes[c] = g.boxes[c]
    BY <1>4, <2>3
  <2>5. BoxesOf(h) = BoxesOf(g) \cup {b}
    BY <2>2, <2>4 DEF BoxesOf
  <2>6. b \notin Patchers(g)
    BY <1>3, <1>7, <2>2 DEF Patchers, Holds, BoxesOf
  <2>7. Patchers(h) = IF o.content.class \in Subpatcher THEN Patchers(g) \cup {b} ELSE Patchers(g)
    BY <2>2, <2>4, <2>6 DEF Patchers, Holds
  <2> QED
    BY <1>7, <2>2, <2>5, <2>7 DEF Mirrored
<1>8. CASE o.op = "set"
  <2>1. PICK b \in Box, a \in Attribute : o = SetOf(to, b, a)
    BY <1>2, <1>8, StepKinds, Kinds
  <2>2. Stays(from, to, b) /\ o.box = b
    BY <1>2, <2>1, Kinds, StepsAre
  <2>3. done \cup {o} \in SUBSET Steps(from, to)
    BY <1>2
  <2>4. /\ g.boxes[b] # Absent /\ h.boxes[b] # Absent
        /\ g.boxes[b].class = h.boxes[b].class
    BY <1>1, <1>2, <2>2, <2>3, StayingIsThere
  <2>5. \A c \in Box : c # b => h.boxes[c] = g.boxes[c]
    <3>1. PICK content : h = With(g, b, content)
      BY <1>3, <1>8, <2>2 DEF Effect
    <3>2. h.boxes = [g.boxes EXCEPT ![b] = content]
      BY <3>1 DEF With
    <3> QED
      BY <1>4, <3>2
  <2>6. BoxesOf(h) = BoxesOf(g) /\ Patchers(h) = Patchers(g)
    BY <2>4, <2>5 DEF BoxesOf, Patchers, Holds
  <2> QED
    BY <1>8, <2>6 DEF Mirrored
<1>9. o.op \in {"disconnect", "delete", "create", "set", "connect"}
  BY <1>2, StepKinds, Kinds
<1> QED
  BY <1>5, <1>6, <1>7, <1>8, <1>9

LEMMA SimulationMirrors ==
  ASSUME NEW from, NEW to, IsProper(from), IsProper(to), NEW done, NEW o,
         IsNext(from, to, done, o), NEW phase, phase <= Phase(o)
  PROVE  Simulated(Mirror(Midway(from, to, done), phase), o) =
           Mirror(Midway(from, to, done \cup {o}), Phase(o))
<1>1. PICK g, h : g = Midway(from, to, done) /\ h = Midway(from, to, done \cup {o})
  OBVIOUS
<1>2. PICK state : state = Mirror(g, phase)
  OBVIOUS
<1>3. /\ state.valid = TRUE /\ state.phase = phase
      /\ state.boxes = BoxesOf(g) /\ state.patchers = Patchers(g)
  BY <1>2 DEF Mirror
<1>4. CanApply(g, o) /\ (o.op = "create" => o.box \notin BoxesOf(g))
  BY <1>1, NextWorks DEF Works
<1>5. /\ state.valid
      /\ Phase(o) >= state.phase
      /\ PathIsThere(state, TargetPath(o))
      /\ IF o.op = "create" THEN o.box \notin state.boxes ELSE Ends(o) \subseteq state.boxes
  <2>1. o \in Steps(from, to)
    BY DEF IsNext
  <2>2. PICK b \in Box : TargetPath(o) = PathTo[b]
    BY <2>1, StepKinds, Targets, PathsAre
  <2>3. \A i \in DOMAIN PathTo[b] : PathTo[b][i] \in Box
    BY PathsAre, LenProperties, ElementOfSeq
  <2>4. PathIsThere(state, TargetPath(o))
    BY <1>3, <1>4, <2>2, <2>3 DEF CanApply, Reaches, PathIsThere, Patchers
  <2>5. Phase(o) >= state.phase
    <3>1. Phase(o) \in Nat
      BY <2>1, StepKinds, Kinds DEF Phase
    <3> QED
      BY <1>3, <3>1
  <2> QED
    BY <1>3, <1>4, <2>4, <2>5 DEF CanApply
<1>6. Mirrored(g, h, o)
  BY <1>1, SetsMirrored
<1>7. Simulated(state, o) =
        [valid |-> TRUE, phase |-> Phase(o), boxes |-> BoxesOf(h), patchers |-> Patchers(h)]
  BY <1>3, <1>5, <1>6 DEF Simulated, Mirrored
<1> QED
  BY <1>1, <1>2, <1>7 DEF Mirror

LEMMA SimulationRuns ==
  ASSUME NEW from, NEW to, IsProper(from), IsProper(to),
         NEW state, state.valid = TRUE, state.boxes = BoxesOf(from), state.patchers = Patchers(from)
  PROVE  /\ Validated(state, Operations(from, to)).valid = TRUE
         /\ Validated(state, Operations(from, to)).boxes = BoxesOf(to)
         /\ Validated(state, Operations(from, to)).patchers = Patchers(to)
<1>1. PICK ops : ops = Operations(from, to)
  OBVIOUS
<1>2. /\ Len(ops) \in Nat
      /\ DoneBy(ops, 0) = {} /\ DoneBy(ops, Len(ops)) = Steps(from, to)
      /\ \A n \in 1..Len(ops) :
           /\ IsNext(from, to, DoneBy(ops, n - 1), ops[n])
           /\ DoneBy(ops, n) = DoneBy(ops, n - 1) \cup {ops[n]}
      /\ \A n \in 2..Len(ops) : Phase(ops[n - 1]) <= Phase(ops[n])
  BY <1>1, PlansRun
<1>3. PICK at : at = [n \in 0..Len(ops) |-> IF n = 0 THEN 0 ELSE Phase(ops[n])]
  OBVIOUS
<1>4. \A n \in 1..Len(ops) : at[n] = Phase(ops[n]) /\ at[n - 1] <= Phase(ops[n])
  <2> SUFFICES ASSUME NEW n \in 1..Len(ops)
               PROVE  at[n] = Phase(ops[n]) /\ at[n - 1] <= Phase(ops[n])
    OBVIOUS
  <2>1. at[n] = Phase(ops[n]) /\ n - 1 \in 0..Len(ops)
    BY <1>2, <1>3
  <2>2. ops[n] \in Steps(from, to)
    BY <1>2 DEF IsNext
  <2>3. Phase(ops[n]) >= 0
    BY <2>2, StepKinds, Kinds DEF Phase
  <2>4. CASE n = 1
    BY <1>2, <1>3, <2>1, <2>3, <2>4
  <2>5. CASE n # 1
    <3>1. n \in 2..Len(ops) /\ at[n - 1] = Phase(ops[n - 1])
      BY <1>2, <1>3, <2>1, <2>5
    <3> QED
      BY <1>2, <2>1, <3>1
  <2> QED
    BY <2>1, <2>4, <2>5
<1>5. PICK mirror : mirror =
        [n \in 0..Len(ops) |-> Mirror(Midway(from, to, DoneBy(ops, n)), at[n])]
  OBVIOUS
<1> DEFINE start == [valid |-> state.valid, phase |-> 0,
                     boxes |-> state.boxes, patchers |-> state.patchers]
           Runs(run) == run = [n \in 0..Len(ops) |-> IF n = 0 THEN start
                                                      ELSE Simulated(run[n - 1], ops[n])]
<1>6. mirror[0] = start
  <2>1. Midway(from, to, DoneBy(ops, 0)) = from
    BY <1>2, MidwayStarts
  <2>2. at[0] = 0 /\ mirror[0] = Mirror(Midway(from, to, DoneBy(ops, 0)), at[0])
    BY <1>2, <1>3, <1>5
  <2> QED
    BY <2>1, <2>2 DEF Mirror
<1>7. \A n \in 1..Len(ops) : mirror[n] = Simulated(mirror[n - 1], ops[n])
  <2> SUFFICES ASSUME NEW n \in 1..Len(ops)
               PROVE  mirror[n] = Simulated(mirror[n - 1], ops[n])
    OBVIOUS
  <2>1. PICK done, o, p : done = DoneBy(ops, n - 1) /\ o = ops[n] /\ p = at[n - 1]
    OBVIOUS
  <2>2. n \in 0..Len(ops) /\ n - 1 \in 0..Len(ops)
    BY <1>2
  <2>3. mirror[n - 1] = Mirror(Midway(from, to, done), p)
    BY <1>5, <2>1, <2>2
  <2>4. mirror[n] = Mirror(Midway(from, to, done \cup {o}), Phase(o))
    BY <1>2, <1>4, <1>5, <2>1, <2>2
  <2>5. IsNext(from, to, done, o) /\ p <= Phase(o)
    BY <1>2, <1>4, <2>1
  <2>6. Simulated(Mirror(Midway(from, to, done), p), o) =
          Mirror(Midway(from, to, done \cup {o}), Phase(o))
    BY <2>5, SimulationMirrors
  <2> QED
    BY <2>1, <2>3, <2>4, <2>6
<1>8. Runs(mirror)
  <2> HIDE DEF start
  <2>1. PICK f : f = [n \in 0..Len(ops) |-> IF n = 0 THEN start ELSE Simulated(mirror[n - 1], ops[n])]
    OBVIOUS
  <2>2. ASSUME NEW n \in 0..Len(ops)
        PROVE  mirror[n] = f[n]
    <3>1. CASE n = 0
      BY <1>6, <2>1, <3>1
    <3>2. CASE n # 0
      <4>1. n \in 1..Len(ops)
        BY <1>2, <3>2
      <4> QED
        BY <1>7, <2>1, <3>2, <4>1
    <3> QED
      BY <3>1, <3>2
  <2>3. mirror = [n \in 0..Len(ops) |-> mirror[n]] /\ f = [n \in 0..Len(ops) |-> f[n]]
    BY <1>5, <2>1
  <2>4. mirror = f
    BY <2>2, <2>3
  <2> QED
    BY <2>1, <2>4
<1>9. PICK run : run = Simulation(state, ops)
  OBVIOUS
<1>10. run = CHOOSE r : Runs(r)
  BY <1>9 DEF Simulation
<1>11. Runs(run)
  BY <1>8, <1>10
<1>12. run[0] = start /\ \A n \in 1..Len(ops) : run[n] = Simulated(run[n - 1], ops[n])
  <2> HIDE DEF start
  <2>1. 0 \in 0..Len(ops) /\ \A n \in 1..Len(ops) : n \in 0..Len(ops) /\ n # 0
    BY <1>2
  <2> QED
    BY <1>11, <2>1
<1> DEFINE N == {n \in 0..Len(ops) : run[n] = mirror[n]}
<1>13. 0..Len(ops) \subseteq N
  <2>1. 0 \in N
    BY <1>2, <1>6, <1>12
  <2>2. ASSUME NEW n \in 1..Len(ops), n - 1 \in N
        PROVE  n \in N
    <3>1. run[n - 1] = mirror[n - 1] /\ n \in 0..Len(ops)
      BY <2>2, <1>2
    <3> QED
      BY <3>1, <1>7, <1>12
  <2> HIDE DEF N
  <2> QED
    BY <1>2, <2>1, <2>2, Induction
<1>14. Validated(state, ops) = mirror[Len(ops)]
  BY <1>2, <1>9, <1>13 DEF Validated
<1>15. mirror[Len(ops)] = Mirror(to, at[Len(ops)])
  <2>1. mirror[Len(ops)] = Mirror(Midway(from, to, DoneBy(ops, Len(ops))), at[Len(ops)])
    BY <1>2, <1>5
  <2>2. Midway(from, to, DoneBy(ops, Len(ops))) = to
    BY <1>2, MidwayEnds
  <2> QED
    BY <2>1, <2>2
<1> QED
  BY <1>1, <1>14, <1>15 DEF Mirror

\* A plan sets only what its two graphs tell apart, of a box that stays.
LEMMA SetsAreChanges ==
  ASSUME NEW from, NEW to, IsProper(from), IsProper(to), SetsUnsafe(Operations(from, to))
  PROVE  \E b \in BoxesOf(from) \cap BoxesOf(to), a \in Unsafe :
           from.boxes[b].attributes[a] # to.boxes[b].attributes[a]
<1>1. PICK ops : ops = Operations(from, to)
  OBVIOUS
<1>2. ops \in Seq(Steps(from, to))
  BY <1>1, PlansRun
<1>3. PICK i \in DOMAIN ops : ops[i].op = "set" /\ ops[i].attribute \in Unsafe
  BY <1>1 DEF SetsUnsafe
<1>4. PICK o \in Steps(from, to) : o.op = "set" /\ o.attribute \in Unsafe
  BY <1>2, <1>3, ElementOfSeq, LenProperties
<1>5. PICK b \in Box, a \in Attribute : o = SetOf(to, b, a)
  BY <1>4, StepKinds, Kinds
<1>6. a \in Unsafe /\ Stays(from, to, b) /\ IsSet(b, a, from, to)
  BY <1>4, <1>5, Kinds, StepsAre
<1> QED
  BY <1>6 DEF Stays, IsSet

\* The native object accepts every plan that was derived from two graphs, if
\* neither it nor its reverse sets an unsafe attribute.
LEMMA PlansAreAccepted ==
  ASSUME NEW from, NEW to, IsProper(from), IsProper(to),
         ~SetsUnsafe(Operations(from, to)), ~SetsUnsafe(Operations(to, from))
  PROVE  IsAccepted(from, Operations(from, to), Operations(to, from))
<1>1. PICK seed, reached, restored :
        /\ seed = Seed(from)
        /\ reached = Validated(seed, Operations(from, to))
        /\ restored = Validated(reached, Operations(to, from))
  OBVIOUS
<1>2. seed.valid = TRUE /\ seed.boxes = BoxesOf(from) /\ seed.patchers = Patchers(from)
  BY <1>1 DEF Seed, Patchers, Holds, BoxesOf
<1>3. reached.valid = TRUE /\ reached.boxes = BoxesOf(to) /\ reached.patchers = Patchers(to)
  BY <1>1, <1>2, SimulationRuns
<1>4. restored.valid = TRUE /\ restored.boxes = BoxesOf(from)
  BY <1>1, <1>3, SimulationRuns
<1> QED
  BY <1>1, <1>4 DEF IsAccepted
-----------------------------------------------------------------------------
(* The merge.                                                                *)

LEMMA GraphsAreProper ==
  ASSUME NEW graph \in Graph
  PROVE  IsProper(graph)
<1>1. /\ graph \in [boxes : {boxes \in [Box -> (UNION {Contents[b] : b \in Box}) \cup {Absent}] :
                             \A b \in Box : boxes[b] \in Contents[b] \cup {Absent}},
                    cords : SUBSET Cord]
      /\ IsGraph(graph)
  BY DEF Graph
<1>2. graph.boxes \in [Box -> (UNION {Contents[b] : b \in Box}) \cup {Absent}]
  BY <1>1
<1>3. \A b \in Box : graph.boxes[b] \in Contents[b] \cup {Absent}
  BY <1>1
<1>4. \A b \in Box : Contents[b] \subseteq Content
  BY PlanAssumption
<1>5. graph.boxes \in [Box -> Content \cup {Absent}]
  BY <1>2, <1>3, <1>4
<1>6. graph.cords \subseteq Cord /\ graph = [boxes |-> graph.boxes, cords |-> graph.cords]
  BY <1>1
<1> QED
  BY <1>1, <1>5, <1>6 DEF IsProper

\* Of two sides without a conflict, one changed nothing, or both did the same.
LEMMA TakenIs ==
  ASSUME NEW base, NEW live, NEW desire
  PROVE  /\ Taken(base, live, desire) \in {base, live, desire}
         /\ ~Conflict(base, live, desire) =>
              \/ base = desire /\ Taken(base, live, desire) = live
              \/ base = live /\ Taken(base, live, desire) = desire
              \/ live = desire /\ Taken(base, live, desire) = desire
  BY DEF Taken, Conflict

\* What a merge is made of.
SidesAreProper == IsProper(intent) /\ IsProper(current) /\ IsProper(wanted)

NoMergeConflict == ~MergeConflicts

\* Above a box that is walked to, and above the border of one that is not, all
\* three graphs hold the patchers.
LEMMA Borders ==
  ASSUME NEW b \in Box, ~Walked(b)
  PROVE  /\ Border(b) \in Box /\ b \in Inside(Border(b))
         /\ Walked(Border(b)) /\ ~Joint(Border(b))
         /\ \A i \in 1..Depth(b) : PathTo[b][i] = Border(b) \/ Border(b) \in Inside(PathTo[b][i])
                                      \/ PathTo[b][i] \in Inside(Border(b))
         /\ \A i \in 1..Depth(b) : Border(b) \in Inside(PathTo[b][i]) => Walked(PathTo[b][i]) /\ Joint(PathTo[b][i])
         /\ \A i \in 1..Depth(b) : PathTo[b][i] \in Inside(Border(b)) =>
              ~Walked(PathTo[b][i]) /\ Border(PathTo[b][i]) = Border(b)
<1> DEFINE Out == {i \in DOMAIN PathTo[b] : ~Joint(PathTo[b][i])}
<1>1. DOMAIN PathTo[b] = 1..Depth(b) /\ Depth(b) \in Nat
  BY PathsAre, LenProperties DEF Depth
<1>2. Out \subseteq Nat /\ Out # {}
  BY <1>1 DEF Walked
<1>3. \E x \in Out : \A y \in Out : ~(y < x)
  <2> HIDE DEF Out
  <2> QED
    BY <1>2, LeastNat
<1>4. PICK k : k = Min(Out)
  OBVIOUS
<1>5. k \in Out /\ \A y \in Out : k <= y
  <2>1. \E x \in Out : \A y \in Out : x <= y
    <3> HIDE DEF Out
    <3> QED
      BY <1>2, <1>3
  <2> HIDE DEF Out
  <2> QED
    BY <1>4, <2>1 DEF Min
<1>6. PICK d \in Box : d = PathTo[b][k]
  BY <1>1, <1>5, PathsFit DEF PathFits
<1>7. Border(b) = d
  BY <1>4, <1>6 DEF Border
<1>8. k \in 1..Depth(b) /\ ~Joint(d) /\ \A i \in 1..Depth(b) : i < k => Joint(PathTo[b][i])
  BY <1>1, <1>5, <1>6
<1>9. Depth(d) = k - 1 /\ \A j \in 1..(k - 1) : PathTo[d][j] = PathTo[b][j]
  BY <1>6, <1>8, PathsFit DEF PathFits
<1>10. b \in Inside(d)
  BY <1>6, <1>8, InsideIsOnPath
<1>11. DOMAIN PathTo[d] = 1..(k - 1)
  BY <1>9, PathsAre, LenProperties DEF Depth
<1>12. Walked(d)
  BY <1>1, <1>8, <1>9, <1>11 DEF Walked
<1>13. ASSUME NEW i \in 1..Depth(b)
       PROVE  LET p == PathTo[b][i]
              IN  /\ p = d \/ d \in Inside(p) \/ p \in Inside(d)
                  /\ d \in Inside(p) => Walked(p) /\ Joint(p)
                  /\ p \in Inside(d) => ~Walked(p) /\ Border(p) = d
  <2>1. PICK p : p = PathTo[b][i]
    OBVIOUS
  <2>2. /\ p \in Box /\ Depth(p) = i - 1
        /\ \A j \in 1..(i - 1) : PathTo[p][j] = PathTo[b][j]
    BY <2>1, PathsFit DEF PathFits
  <2>3. DOMAIN PathTo[p] = 1..(i - 1)
    BY <2>2, PathsAre, LenProperties DEF Depth
  <2>4. d \in Inside(p) <=> i < k
    <3>1. i < k => d \in Inside(p)
      BY <1>1, <1>8, <1>9, <2>1, <2>2, InsideIsOnPath
    <3>2. d \in Inside(p) => Depth(d) > Depth(p)
      BY <2>2, InsideNests
    <3> QED
      BY <1>1, <1>8, <1>9, <2>2, <3>1, <3>2
  <2>5. p \in Inside(d) <=> i > k
    <3>1. i > k => k \in 1..Depth(p) /\ PathTo[p][k] = d
      BY <1>1, <1>6, <1>8, <2>2
    <3>2. i > k => p \in Inside(d)
      BY <2>2, <3>1, InsideIsOnPath
    <3>3. p \in Inside(d) => Depth(p) > Depth(d)
      BY <2>2, InsideNests
    <3> QED
      BY <1>1, <1>8, <1>9, <2>2, <3>2, <3>3
  <2>6. i = k => p = d
    BY <1>6, <2>1
  <2>7. ASSUME i < k
        PROVE  Walked(p) /\ Joint(p)
    <3>1. Joint(p)
      BY <1>8, <2>1, <2>7
    <3>2. \A j \in 1..(i - 1) : j \in 1..Depth(b) /\ j < k
      BY <1>1, <1>8, <2>7
    <3>3. \A j \in 1..(i - 1) : Joint(PathTo[p][j])
      BY <1>8, <2>2, <3>2
    <3> QED
      BY <2>3, <3>1, <3>3 DEF Walked
  <2>8. ASSUME i > k
        PROVE  ~Walked(p) /\ Border(p) = d
    <3>1. k \in 1..(i - 1) /\ PathTo[p][k] = d
      BY <1>1, <1>6, <1>8, <2>2, <2>8
    <3>2. ~Walked(p)
      BY <1>8, <2>3, <3>1 DEF Walked
    <3>3. PICK P : P = {j \in DOMAIN PathTo[p] : ~Joint(PathTo[p][j])}
      OBVIOUS
    <3>4. P = {j \in 1..(i - 1) : ~Joint(PathTo[b][j])}
      BY <2>2, <2>3, <3>3
    <3>5. k \in P
      BY <1>6, <1>8, <3>1, <3>4
    <3>6. \A j \in P : k <= j /\ j \in Nat
      BY <1>1, <1>5, <3>4
    <3>7. Min(P) = k
      <4>1. PICK m : m = Min(P)
        OBVIOUS
      <4>2. k \in Nat
        BY <1>1, <1>5
      <4>3. m \in P /\ \A y \in P : m <= y
        BY <3>5, <3>6, <4>1 DEF Min
      <4> QED
        BY <3>5, <3>6, <4>1, <4>2, <4>3
    <3> QED
      BY <3>1, <3>2, <3>3, <3>7 DEF Border
  <2> QED
    BY <1>1, <1>8, <2>1, <2>4, <2>5, <2>6, <2>7, <2>8
<1> QED
  BY <1>7, <1>8, <1>10, <1>12, <1>13

\* What the merge compares of a box.
LEMMA PartsAre ==
  ASSUME NEW graph, NEW d
  PROVE  /\ \A c \in {d} \cup Inside(d) : Tree(graph, d).boxes[c] = graph.boxes[c]
         /\ \A c \in Inside(d) : Node(graph, d).boxes[c] = graph.boxes[c]
         /\ Node(graph, d).there <=> Holds(graph, d)
         /\ \A cord : cord[1] \in Inside(d) =>
              /\ cord \in Tree(graph, d).cords <=> cord \in graph.cords
              /\ cord \in Node(graph, d).cords <=> cord \in graph.cords
<1>1. /\ Tree(graph, d).boxes = [c \in {d} \cup Inside(d) |-> graph.boxes[c]]
      /\ Tree(graph, d).cords = {cord \in graph.cords : cord[1] \in Inside(d)}
  BY DEF Tree
<1>2. /\ Node(graph, d).boxes = [c \in Inside(d) |-> graph.boxes[c]]
      /\ Node(graph, d).cords = {cord \in graph.cords : cord[1] \in Inside(d)}
      /\ Node(graph, d).there = Holds(graph, d)
  BY DEF Node
<1> QED
  BY <1>1, <1>2

\* Two graphs have the same in d, as far as the merge compares it as a whole.
Same(g, h, d) ==
  /\ \A c \in Inside(d) : g.boxes[c] = h.boxes[c]
  /\ ~InAll(d) => g.boxes[d] = h.boxes[d]
  /\ InAll(d) => (Holds(g, d) <=> Holds(h, d))
  /\ \A cord \in Cord : cord[1] \in Inside(d) => (cord \in g.cords <=> cord \in h.cords)

\* The merged graph has in d what graph has.
WholeOf(graph, d) ==
  /\ \A c \in Inside(d) : Whole(d).boxes[c] = graph.boxes[c]
  /\ ~InAll(d) => Whole(d).boxes[d] = graph.boxes[d]
  /\ \A cord \in Cord : cord[1] \in Inside(d) => (cord \in Whole(d).cords <=> cord \in graph.cords)

\* Without a conflict one side changed nothing in d, or both made the same of it.
WholeKeeps(d) ==
  \/ Same(intent, wanted, d) /\ WholeOf(current, d)
  \/ Same(intent, current, d) /\ WholeOf(wanted, d)
  \/ Same(current, wanted, d) /\ WholeOf(wanted, d)

LEMMA WholeIs ==
  ASSUME NEW d \in Box, ~WholeConflicts(d)
  PROVE  WholeKeeps(d)
<1>1. ASSUME NEW g, NEW h, InAll(d), Node(g, d) = Node(h, d)
      PROVE  Same(g, h, d)
  <2>1. PICK x, y : x = Node(g, d) /\ y = Node(h, d)
    OBVIOUS
  <2>2. x = y
    BY <1>1, <2>1
  <2>3. \A c \in Inside(d) : g.boxes[c] = x.boxes[c] /\ h.boxes[c] = y.boxes[c]
    BY <2>1, PartsAre
  <2>4. \A cord \in Cord : cord[1] \in Inside(d) =>
          (cord \in g.cords <=> cord \in x.cords) /\ (cord \in h.cords <=> cord \in y.cords)
    BY <2>1, PartsAre
  <2>5. (Holds(g, d) <=> x.there) /\ (Holds(h, d) <=> y.there)
    BY <2>1, PartsAre
  <2> QED
    BY <1>1, <2>2, <2>3, <2>4, <2>5 DEF Same
<1>2. ASSUME NEW g, NEW h, ~InAll(d), Tree(g, d) = Tree(h, d)
      PROVE  Same(g, h, d)
  <2>1. PICK x, y : x = Tree(g, d) /\ y = Tree(h, d)
    OBVIOUS
  <2>2. x = y
    BY <1>2, <2>1
  <2>3. \A c \in {d} \cup Inside(d) : g.boxes[c] = x.boxes[c] /\ h.boxes[c] = y.boxes[c]
    BY <2>1, PartsAre
  <2>4. \A cord \in Cord : cord[1] \in Inside(d) =>
          (cord \in g.cords <=> cord \in x.cords) /\ (cord \in h.cords <=> cord \in y.cords)
    BY <2>1, PartsAre
  <2> QED
    BY <1>2, <2>2, <2>3, <2>4 DEF Same
<1>3. ASSUME NEW graph, InAll(d), Whole(d) = Node(graph, d)
      PROVE  WholeOf(graph, d)
  <2>1. PICK w : w = Node(graph, d)
    OBVIOUS
  <2>2. /\ \A c \in Inside(d) : w.boxes[c] = graph.boxes[c]
        /\ \A cord \in Cord : cord[1] \in Inside(d) => (cord \in w.cords <=> cord \in graph.cords)
    BY <2>1, PartsAre
  <2> QED
    BY <1>3, <2>1, <2>2 DEF WholeOf
<1>4. ASSUME NEW graph, ~InAll(d), Whole(d) = Tree(graph, d)
      PROVE  WholeOf(graph, d)
  <2>1. PICK w : w = Tree(graph, d)
    OBVIOUS
  <2>2. /\ \A c \in {d} \cup Inside(d) : w.boxes[c] = graph.boxes[c]
        /\ \A cord \in Cord : cord[1] \in Inside(d) => (cord \in w.cords <=> cord \in graph.cords)
    BY <2>1, PartsAre
  <2> QED
    BY <1>4, <2>1, <2>2 DEF WholeOf
<1>5. CASE InAll(d)
  <2>1. PICK x, y, z : x = Node(intent, d) /\ y = Node(current, d) /\ z = Node(wanted, d)
    OBVIOUS
  <2>2. ~Conflict(x, y, z) /\ Whole(d) = Taken(x, y, z)
    BY <1>5, <2>1 DEF WholeConflicts, Whole
  <2>3. \/ x = z /\ Whole(d) = y
        \/ x = y /\ Whole(d) = z
        \/ y = z /\ Whole(d) = z
    BY <2>2, TakenIs
  <2>4. /\ x = z => Same(intent, wanted, d)
        /\ x = y => Same(intent, current, d)
        /\ y = z => Same(current, wanted, d)
    BY <1>1, <1>5, <2>1
  <2>5. /\ Whole(d) = y => WholeOf(current, d)
        /\ Whole(d) = z => WholeOf(wanted, d)
    BY <1>3, <1>5, <2>1
  <2> QED
    BY <2>3, <2>4, <2>5 DEF WholeKeeps
<1>6. CASE ~InAll(d)
  <2>1. PICK x, y, z : x = Tree(intent, d) /\ y = Tree(current, d) /\ z = Tree(wanted, d)
    OBVIOUS
  <2>2. ~Conflict(x, y, z) /\ Whole(d) = Taken(x, y, z)
    BY <1>6, <2>1 DEF WholeConflicts, Whole
  <2>3. \/ x = z /\ Whole(d) = y
        \/ x = y /\ Whole(d) = z
        \/ y = z /\ Whole(d) = z
    BY <2>2, TakenIs
  <2>4. /\ x = z => Same(intent, wanted, d)
        /\ x = y => Same(intent, current, d)
        /\ y = z => Same(current, wanted, d)
    BY <1>2, <1>6, <2>1
  <2>5. /\ Whole(d) = y => WholeOf(current, d)
        /\ Whole(d) = z => WholeOf(wanted, d)
    BY <1>4, <1>6, <2>1
  <2> QED
    BY <2>3, <2>4, <2>5 DEF WholeKeeps
<1> QED
  BY <1>5, <1>6

\* A box that all graphs have is walked to.
LEMMA CommonIsWalked ==
  ASSUME SidesAreProper, NEW b \in Box, InAll(b)
  PROVE  Walked(b)
<1>1. ASSUME NEW side \in Sides
      PROVE  Reaches(side, PathTo[b])
  <2>1. side.boxes[b] # Absent
    BY <1>1 DEF InAll
  <2>2. IsGraph(side)
    BY <1>1 DEF SidesAreProper, IsProper, Sides
  <2> QED
    BY <2>1, <2>2 DEF IsGraph, BoxesOf
<1> QED
  BY <1>1 DEF Walked, Joint, Reaches

LEMMA FieldsAreContent ==
  ASSUME NEW x \in Content, NEW y \in Content, NEW z \in Content
  PROVE  Fields(x, y, z) \in Content
<1>1. Taken(x.class, y.class, z.class) \in Class
  BY TakenIs DEF Content
<1>2. \A a \in Attribute :
        Taken(x.attributes[a], y.attributes[a], z.attributes[a])
          \in Settable \cup Structured \cup {Absent}
  BY TakenIs DEF Content
<1> QED
  BY <1>1, <1>2 DEF Fields, Content

\* Above a box that is walked to, the merged graph holds the patchers.
LEMMA AboveWalked ==
  ASSUME SidesAreProper, NEW b \in Box, Walked(b), Joint(b)
  PROVE  InAll(b) /\ Holds(MergedGraph, b)
<1>1. InAll(b)
  BY DEF Joint, InAll, Holds
<1>2. /\ MergedGraph.boxes[b] = Fields(intent.boxes[b], current.boxes[b], wanted.boxes[b])
  BY <1>1 DEF MergedGraph, MergedBoxes
<1>3. /\ \A side \in Sides : side.boxes[b].class \in Subpatcher
  BY DEF Joint, Holds
<1>4. PICK x, y, z : x = intent.boxes[b] /\ y = current.boxes[b] /\ z = wanted.boxes[b]
  OBVIOUS
<1>5. x \in Content /\ y \in Content /\ z \in Content
  BY <1>1, <1>4 DEF SidesAreProper, IsProper, InAll, Sides
<1>6. Fields(x, y, z).class = Taken(x.class, y.class, z.class)
  BY DEF Fields
<1>7. Fields(x, y, z).class \in Subpatcher
  BY <1>3, <1>4, <1>6, TakenIs DEF Sides
<1>8. Fields(x, y, z) \in Content
  BY <1>5, FieldsAreContent
<1>9. Absent \notin Content
  BY PlanAssumption
<1> QED
  BY <1>1, <1>2, <1>4, <1>7, <1>8, <1>9 DEF Holds

\* At the border the merged graph has the box, and holds its patcher if the graph
\* that the patcher was taken from does.
LEMMA AtBorder ==
  ASSUME SidesAreProper, NoMergeConflict, NEW d \in Box, Walked(d), ~Joint(d)
  PROVE  \E graph \in {current, wanted} :
           WholeOf(graph, d) /\ (Holds(graph, d) => Holds(MergedGraph, d))
<1>1. ~WholeConflicts(d)
  BY DEF NoMergeConflict, MergeConflicts
<1>2. WholeKeeps(d)
  BY <1>1, WholeIs
<1>3. CASE ~InAll(d)
  <2>1. \A graph : WholeOf(graph, d) => MergedGraph.boxes[d] = graph.boxes[d]
    BY <1>3 DEF MergedGraph, MergedBoxes, WholeOf
  <2> QED
    BY <1>2, <2>1 DEF WholeKeeps, Holds
<1>4. CASE InAll(d)
  <2>1. PICK x, y, z : x = intent.boxes[d] /\ y = current.boxes[d] /\ z = wanted.boxes[d]
    OBVIOUS
  <2>2. x \in Content /\ y \in Content /\ z \in Content
    BY <1>4, <2>1 DEF SidesAreProper, IsProper, InAll, Sides
  <2>3. MergedGraph.boxes[d] = Fields(x, y, z) /\ Fields(x, y, z) \in Content
    BY <1>4, <2>1, <2>2, FieldsAreContent DEF MergedGraph, MergedBoxes
  <2>4. ~Conflict(x.class, y.class, z.class)
    BY <1>4, <2>1 DEF NoMergeConflict, MergeConflicts, FieldsConflict
  <2>5. Fields(x, y, z).class = Taken(x.class, y.class, z.class)
    BY DEF Fields
  <2>6. \A side \in Sides : Holds(side, d) <=> side.boxes[d].class \in Subpatcher
    BY <1>4 DEF InAll, Holds
  <2>7. Holds(MergedGraph, d) <=> Taken(x.class, y.class, z.class) \in Subpatcher
    BY <2>3, <2>5, PlanAssumption DEF Holds
  <2>8. /\ Holds(intent, d) <=> x.class \in Subpatcher
        /\ Holds(current, d) <=> y.class \in Subpatcher
        /\ Holds(wanted, d) <=> z.class \in Subpatcher
    BY <2>1, <2>6 DEF Sides
  <2>9. ~(Holds(intent, d) /\ Holds(current, d) /\ Holds(wanted, d))
    BY DEF Joint, Sides
  <2>10. /\ Same(intent, wanted, d) => (Holds(intent, d) <=> Holds(wanted, d))
         /\ Same(intent, current, d) => (Holds(intent, d) <=> Holds(current, d))
         /\ Same(current, wanted, d) => (Holds(current, d) <=> Holds(wanted, d))
    BY <1>4 DEF Same
  <2>11. CASE Same(intent, wanted, d) /\ WholeOf(current, d)
    <3>1. Holds(current, d) => Taken(x.class, y.class, z.class) = y.class
      BY <2>4, <2>8, <2>9, <2>10, <2>11 DEF Conflict, Taken
    <3> QED
      BY <2>7, <2>8, <2>11, <3>1
  <2>12. CASE Same(intent, current, d) /\ WholeOf(wanted, d)
    <3>1. Holds(wanted, d) => Taken(x.class, y.class, z.class) = z.class
      BY <2>4, <2>8, <2>9, <2>10, <2>12 DEF Conflict, Taken
    <3> QED
      BY <2>7, <2>8, <2>12, <3>1
  <2>13. CASE Same(current, wanted, d) /\ WholeOf(wanted, d)
    <3>1. Holds(wanted, d) => Taken(x.class, y.class, z.class) = z.class
      BY <2>4, <2>8, <2>9, <2>10, <2>13 DEF Conflict, Taken
    <3> QED
      BY <2>7, <2>8, <2>13, <3>1
  <2> QED
    BY <1>2, <2>11, <2>12, <2>13 DEF WholeKeeps
<1> QED
  BY <1>3, <1>4

\* A merge without a conflict gives a graph: the patchers around every box and
\* both ends of every cord are there.
LEMMA MergedIsProper ==
  ASSUME SidesAreProper, NoMergeConflict
  PROVE  IsProper(MergedGraph)
<1>1. /\ MergedGraph = [boxes |-> MergedGraph.boxes, cords |-> MergedGraph.cords]
      /\ MergedGraph.boxes = MergedBoxes /\ MergedGraph.cords = MergedCords
  BY DEF MergedGraph
<1>2. /\ \A side \in {current, wanted}, b \in Box : side.boxes[b] \in Content \cup {Absent}
      /\ \A side \in {current, wanted} : IsGraph(side)
  BY DEF SidesAreProper, IsProper
<1>3. \A b \in Box : PathTo[b] \in Seq(Box) /\ Depth(b) \in Nat /\ DOMAIN PathTo[b] = 1..Depth(b)
  BY PathsAre, LenProperties DEF Depth
<1>4. ASSUME NEW b \in Box
      PROVE  /\ MergedBoxes[b] \in Content \cup {Absent}
             /\ MergedBoxes[b] # Absent => Reaches(MergedGraph, PathTo[b])
  <2>1. ASSUME Walked(b)
        PROVE  Reaches(MergedGraph, PathTo[b])
    <3>1. ASSUME NEW i \in 1..Depth(b)
          PROVE  Holds(MergedGraph, PathTo[b][i])
      <4>1. PICK p \in Box : p = PathTo[b][i]
        BY PathsFit DEF PathFits
      <4>2. Depth(p) = i - 1 /\ \A j \in 1..(i - 1) : PathTo[p][j] = PathTo[b][j] /\ j \in 1..Depth(b)
        BY <1>3, <4>1, PathsFit DEF PathFits
      <4>3. Joint(p)
        BY <1>3, <2>1, <4>1 DEF Walked
      <4>4. Walked(p)
        BY <1>3, <2>1, <4>2 DEF Walked
      <4> QED
        BY <4>1, <4>3, <4>4, AboveWalked
    <3> QED
      BY <1>3, <3>1 DEF Reaches
  <2>2. CASE Walked(b) /\ InAll(b)
    <3>1. PICK x, y, z : x = intent.boxes[b] /\ y = current.boxes[b] /\ z = wanted.boxes[b]
      OBVIOUS
    <3>2. x \in Content /\ y \in Content /\ z \in Content
      BY <2>2, <3>1 DEF SidesAreProper, IsProper, InAll, Sides
    <3>3. MergedBoxes[b] = Fields(x, y, z)
      BY <2>2, <3>1 DEF MergedBoxes
    <3> QED
      BY <2>1, <2>2, <3>2, <3>3, FieldsAreContent
  <2>3. CASE Walked(b) /\ ~InAll(b)
    <3>1. ~Joint(b)
      BY <2>3 DEF Joint, InAll, Holds
    <3>2. PICK graph \in {current, wanted} : WholeOf(graph, b)
      BY <2>3, <3>1, AtBorder
    <3>3. MergedBoxes[b] = graph.boxes[b]
      BY <2>3, <3>2 DEF MergedBoxes, WholeOf
    <3> QED
      BY <1>2, <2>1, <2>3, <3>3
  <2>4. CASE ~Walked(b)
    <3>1. PICK d \in Box : d = Border(b) /\ b \in Inside(d) /\ Walked(d) /\ ~Joint(d)
      BY <2>4, Borders
    <3>2. PICK graph \in {current, wanted} :
            WholeOf(graph, d) /\ (Holds(graph, d) => Holds(MergedGraph, d))
      BY <3>1, AtBorder
    <3>3. \A c \in Inside(d) : ~Walked(c) /\ Border(c) = d => MergedBoxes[c] = graph.boxes[c]
      BY <3>2 DEF MergedBoxes, WholeOf, Inside
    <3>4. MergedBoxes[b] = graph.boxes[b]
      BY <2>4, <3>1, <3>3
    <3>5. ASSUME graph.boxes[b] # Absent, NEW i \in 1..Depth(b)
          PROVE  Holds(MergedGraph, PathTo[b][i])
      <4>1. PICK p \in Box : p = PathTo[b][i]
        BY PathsFit DEF PathFits
      <4>2. Holds(graph, p)
        BY <1>2, <1>3, <3>5, <4>1 DEF IsGraph, BoxesOf, Reaches
      <4>3. /\ p = d \/ d \in Inside(p) \/ p \in Inside(d)
            /\ d \in Inside(p) => Walked(p) /\ Joint(p)
            /\ p \in Inside(d) => ~Walked(p) /\ Border(p) = d
        BY <2>4, <3>1, <4>1, Borders
      <4>4. CASE p = d
        BY <3>2, <4>1, <4>2, <4>4
      <4>5. CASE d \in Inside(p)
        BY <4>1, <4>3, <4>5, AboveWalked
      <4>6. CASE p \in Inside(d)
        <5>1. MergedBoxes[p] = graph.boxes[p]
          BY <3>3, <4>3, <4>6
        <5> QED
          BY <1>1, <4>1, <4>2, <5>1 DEF Holds
      <4> QED
        BY <4>3, <4>4, <4>5, <4>6
    <3>6. graph.boxes[b] # Absent => Reaches(MergedGraph, PathTo[b])
      BY <1>3, <3>5 DEF Reaches
    <3> QED
      BY <1>2, <3>4, <3>6
  <2> QED
    BY <2>2, <2>3, <2>4
<1>5. MergedBoxes \in [Box -> Content \cup {Absent}]
  <2>1. MergedBoxes = [b \in Box |-> MergedBoxes[b]]
    BY DEF MergedBoxes
  <2> QED
    BY <1>4, <2>1
<1>6. MergedCords \subseteq Cord
  BY DEF MergedCords
<1>7. \A cord \in MergedCords : {cord[1], cord[2]} \subseteq BoxesOf(MergedGraph)
  BY DEF NoMergeConflict, MergeConflicts
<1> QED
  BY <1>1, <1>4, <1>5, <1>6, <1>7 DEF IsProper, IsGraph, BoxesOf

-----------------------------------------------------------------------------
(* The edits of both sides.                                                  *)

\* What MergeKeepsEdits says of the graph that the plan is to reach.
KeptIn(graph) ==
  /\ \A cord \in Cord :
       Kept(cord \in intent.cords, cord \in current.cords,
            cord \in wanted.cords, cord \in graph.cords)
  /\ \A b \in Box :
       LET base == intent.boxes[b]
           live == current.boxes[b]
           desire == wanted.boxes[b]
           merged == graph.boxes[b]
       IN  IF ~InAll(b) THEN Kept(base, live, desire, merged)
           ELSE /\ merged # Absent
                /\ Kept(base.class, live.class, desire.class, merged.class)
                /\ \A a \in Attribute :
                     Kept(base.attributes[a], live.attributes[a],
                          desire.attributes[a], merged.attributes[a])

LEMMA TakenKeeps ==
  ASSUME NEW base, NEW live, NEW desire, ~Conflict(base, live, desire)
  PROVE  Kept(base, live, desire, Taken(base, live, desire))
BY DEF Conflict, Taken, Kept

LEMMA WholeKeepsEdits ==
  ASSUME NEW d \in Box, WholeKeeps(d)
  PROVE  /\ \A c \in Inside(d) :
              Kept(intent.boxes[c], current.boxes[c], wanted.boxes[c], Whole(d).boxes[c])
         /\ ~InAll(d) =>
              Kept(intent.boxes[d], current.boxes[d], wanted.boxes[d], Whole(d).boxes[d])
         /\ \A cord \in Cord : cord[1] \in Inside(d) =>
              Kept(cord \in intent.cords, cord \in current.cords,
                   cord \in wanted.cords, cord \in Whole(d).cords)
<1>1. CASE Same(intent, wanted, d) /\ WholeOf(current, d)
  BY <1>1 DEF Same, WholeOf, Kept
<1>2. CASE Same(intent, current, d) /\ WholeOf(wanted, d)
  BY <1>2 DEF Same, WholeOf, Kept
<1>3. CASE Same(current, wanted, d) /\ WholeOf(wanted, d)
  BY <1>3 DEF Same, WholeOf, Kept
<1> QED
  BY <1>1, <1>2, <1>3 DEF WholeKeeps

LEMMA MergedKeepsEdits ==
  ASSUME SidesAreProper, NoMergeConflict
  PROVE  KeptIn(MergedGraph)
<1>1. MergedGraph.boxes = MergedBoxes /\ MergedGraph.cords = MergedCords
  BY DEF MergedGraph
<1>2. ASSUME NEW d \in Box, Walked(d), ~Joint(d)
      PROVE  WholeKeeps(d)
  BY <1>2, WholeIs DEF NoMergeConflict, MergeConflicts
<1>3. ASSUME NEW cord \in Cord
      PROVE  Kept(cord \in intent.cords, cord \in current.cords,
                  cord \in wanted.cords, cord \in MergedCords)
  <2>1. CASE Walked(cord[1])
    <3>1. cord \in MergedCords <=>
            Taken(cord \in intent.cords, cord \in current.cords, cord \in wanted.cords)
      BY <2>1 DEF MergedCords
    <3>2. CASE (cord \in intent.cords) = (cord \in wanted.cords)
      BY <3>1, <3>2 DEF Taken, Kept
    <3>3. CASE (cord \in intent.cords) # (cord \in wanted.cords)
      BY <3>1, <3>3 DEF Taken, Kept
    <3> QED
      BY <3>2, <3>3
  <2>2. CASE ~Walked(cord[1])
    <3>1. PICK d \in Box : d = Border(cord[1]) /\ cord[1] \in Inside(d) /\ Walked(d) /\ ~Joint(d)
      BY <2>2, PathsAre, Borders
    <3>2. cord \in MergedCords <=> cord \in Whole(d).cords
      BY <2>2, <3>1 DEF MergedCords
    <3> QED
      BY <1>2, <3>1, <3>2, WholeKeepsEdits DEF Kept
  <2> QED
    BY <2>1, <2>2
<1>4. ASSUME NEW b \in Box, ~InAll(b)
      PROVE  Kept(intent.boxes[b], current.boxes[b], wanted.boxes[b], MergedBoxes[b])
  <2>1. CASE Walked(b)
    <3>1. ~Joint(b)
      BY <1>4 DEF Joint, InAll, Holds
    <3>2. MergedBoxes[b] = Whole(b).boxes[b]
      BY <1>4, <2>1 DEF MergedBoxes
    <3> QED
      BY <1>2, <1>4, <2>1, <3>1, <3>2, WholeKeepsEdits
  <2>2. CASE ~Walked(b)
    <3>1. PICK d \in Box : d = Border(b) /\ b \in Inside(d) /\ Walked(d) /\ ~Joint(d)
      BY <2>2, Borders
    <3>2. MergedBoxes[b] = Whole(d).boxes[b]
      BY <2>2, <3>1 DEF MergedBoxes
    <3> QED
      BY <1>2, <3>1, <3>2, WholeKeepsEdits
  <2> QED
    BY <2>1, <2>2
<1>5. ASSUME NEW b \in Box, InAll(b)
      PROVE  /\ MergedBoxes[b] # Absent
             /\ Kept(intent.boxes[b].class, current.boxes[b].class, wanted.boxes[b].class,
                     MergedBoxes[b].class)
             /\ \A a \in Attribute :
                  Kept(intent.boxes[b].attributes[a], current.boxes[b].attributes[a],
                       wanted.boxes[b].attributes[a], MergedBoxes[b].attributes[a])
  <2>1. Walked(b)
    BY <1>5, CommonIsWalked
  <2>2. PICK x, y, z : x = intent.boxes[b] /\ y = current.boxes[b] /\ z = wanted.boxes[b]
    OBVIOUS
  <2>3. MergedBoxes[b] = Fields(x, y, z)
    BY <1>5, <2>1, <2>2 DEF MergedBoxes
  <2>4. x \in Content /\ y \in Content /\ z \in Content
    BY <1>5, <2>2 DEF SidesAreProper, IsProper, InAll, Sides
  <2>5. ~FieldsConflict(x, y, z)
    BY <1>5, <2>1, <2>2 DEF NoMergeConflict, MergeConflicts
  <2>6. /\ Fields(x, y, z).class = Taken(x.class, y.class, z.class)
        /\ \A a \in Attribute : Fields(x, y, z).attributes[a] =
                                  Taken(x.attributes[a], y.attributes[a], z.attributes[a])
    BY DEF Fields
  <2>7. /\ Kept(x.class, y.class, z.class, Fields(x, y, z).class)
        /\ \A a \in Attribute :
             Kept(x.attributes[a], y.attributes[a], z.attributes[a], Fields(x, y, z).attributes[a])
    BY <2>5, <2>6, TakenKeeps DEF FieldsConflict
  <2>8. Fields(x, y, z) # Absent
    BY <2>4, FieldsAreContent, PlanAssumption
  <2> QED
    BY <2>2, <2>3, <2>7, <2>8
<1> QED
  BY <1>1, <1>3, <1>4, <1>5 DEF KeptIn

\* Without reconciliation there is nothing on the live side to keep.
LEMMA WantedKeepsEdits ==
  ASSUME intent = current
  PROVE  KeptIn(wanted)
<1>1. ASSUME NEW b \in Box, InAll(b)
      PROVE  wanted.boxes[b] # Absent
  BY <1>1 DEF InAll, Sides
<1> QED
  BY <1>1 DEF KeptIn, Kept

-----------------------------------------------------------------------------
(* Operations on any graph, as after a failure.                              *)

LEMMA WithoutIsProper ==
  ASSUME NEW graph, IsProper(graph), NEW b \in Box
  PROVE  /\ IsProper(Without(graph, b))
         /\ \A c \in Box : Without(graph, b).boxes[c] =
              IF c \in {b} \cup Inside(b) THEN Absent ELSE graph.boxes[c]
         /\ Reaches(graph, PathTo[b]) => Reaches(Without(graph, b), PathTo[b])
<1> DEFINE gone == {b} \cup Inside(b)
           less == Without(graph, b)
<1>1. /\ less = [boxes |-> less.boxes, cords |-> less.cords]
      /\ less.boxes = [c \in Box |-> IF c \in gone THEN Absent ELSE graph.boxes[c]]
      /\ less.cords = {cord \in graph.cords : {cord[1], cord[2]} \cap gone = {}}
  BY DEF Without
<1> HIDE DEF less
<1>2. \A c \in Box : DOMAIN PathTo[c] = 1..Depth(c)
  BY PathsAre, LenProperties DEF Depth
<1>3. ASSUME NEW c \in Box, c \notin gone, NEW i \in 1..Depth(c)
      PROVE  PathTo[c][i] \in Box \ gone
  <2>1. PICK p \in Box : p = PathTo[c][i]
    BY PathsFit DEF PathFits
  <2>2. c \in Inside(p)
    BY <2>1, InsideIsOnPath
  <2>3. p \in Inside(b) => c \in Inside(b)
    BY <2>1, <2>2, InsideNests
  <2> QED
    BY <1>3, <2>1, <2>2, <2>3
<1>4. \A c \in Box \ gone : Holds(graph, c) => Holds(less, c)
  BY <1>1 DEF Holds
<1>5. \A c \in Box \ gone : graph.boxes[c] # Absent => Reaches(less, PathTo[c])
  BY <1>2, <1>3, <1>4 DEF IsProper, IsGraph, BoxesOf, Reaches
<1>6. IsProper(less)
  BY <1>1, <1>5 DEF IsProper, IsGraph, BoxesOf
<1>7. ASSUME Reaches(graph, PathTo[b]), NEW i \in 1..Depth(b)
      PROVE  Holds(less, PathTo[b][i])
  <2>1. PICK p \in Box : p = PathTo[b][i] /\ Depth(p) = i - 1
    BY PathsFit DEF PathFits
  <2>2. p \notin gone
    BY <2>1, InsideNests, PathsAre
  <2> QED
    BY <1>2, <1>4, <1>7, <2>1, <2>2 DEF Reaches
<1>8. Reaches(graph, PathTo[b]) => Reaches(less, PathTo[b])
  BY <1>2, <1>7 DEF Reaches
<1> QED
  BY <1>1, <1>6, <1>8 DEF less

LEMMA WithIsProper ==
  ASSUME NEW graph, IsProper(graph), NEW b \in Box, NEW content \in Content,
         Reaches(graph, PathTo[b]),
         graph.boxes[b] = Absent \/ content.class = graph.boxes[b].class
  PROVE  IsProper(With(graph, b, content))
<1> DEFINE more == With(graph, b, content)
<1>1. /\ more = [boxes |-> more.boxes, cords |-> more.cords]
      /\ more.boxes = [graph.boxes EXCEPT ![b] = content]
      /\ more.cords = graph.cords
  BY DEF With
<1> HIDE DEF more
<1>2. \A c \in Box : more.boxes[c] = IF c = b THEN content ELSE graph.boxes[c]
  BY <1>1 DEF IsProper
<1>3. \A c \in Box : Holds(graph, c) => Holds(more, c)
  BY <1>2, PlanAssumption DEF Holds
<1>4. \A c \in Box : \A i \in DOMAIN PathTo[c] : PathTo[c][i] \in Box
  BY PathsFit, PathsAre, LenProperties DEF Depth, PathFits
<1>5. \A c \in Box : Reaches(graph, PathTo[c]) => Reaches(more, PathTo[c])
  BY <1>3, <1>4 DEF Reaches
<1>6. \A c \in BoxesOf(more) : Reaches(more, PathTo[c])
  BY <1>2, <1>5 DEF BoxesOf, IsProper, IsGraph
<1>7. BoxesOf(graph) \subseteq BoxesOf(more)
  BY <1>2, PlanAssumption DEF BoxesOf
<1>8. more.boxes \in [Box -> Content \cup {Absent}]
  BY <1>1 DEF IsProper
<1>9. IsProper(more)
  BY <1>1, <1>6, <1>7, <1>8 DEF IsProper, IsGraph
<1> QED
  BY <1>9 DEF more

LEMMA CordedIsProper ==
  ASSUME NEW graph, IsProper(graph), NEW cords \in SUBSET Cord,
         \A cord \in cords : {cord[1], cord[2]} \subseteq BoxesOf(graph)
  PROVE  IsProper(Corded(graph, cords))
<1>1. PICK g : g = Corded(graph, cords)
  OBVIOUS
<1>2. /\ g = [boxes |-> g.boxes, cords |-> g.cords]
      /\ g.boxes = graph.boxes /\ g.cords = cords
  BY <1>1 DEF Corded
<1>3. BoxesOf(g) = BoxesOf(graph) /\ \A path : Reaches(g, path) <=> Reaches(graph, path)
  BY <1>2 DEF BoxesOf, Reaches, Holds
<1> QED
  BY <1>1, <1>2, <1>3 DEF IsProper, IsGraph

\* Whatever operation of a plan runs, on whatever graph, it leaves a graph.
LEMMA EffectIsProper ==
  ASSUME NEW from, NEW to, IsProper(from), IsProper(to), NEW o \in Steps(from, to),
         NEW graph, IsProper(graph), CanApply(graph, o),
         o.op = "create" => o.box \notin BoxesOf(graph)
  PROVE  IsProper(Effect(graph, o))
<1>1. ASSUME NEW c \in Cord, o = CutOf(c)
      PROVE  IsProper(Effect(graph, o))
  <2>1. Effect(graph, o) = Corded(graph, graph.cords \ {c})
    BY <1>1, Kinds DEF Effect
  <2>2. graph.cords \ {c} \in SUBSET Cord
    BY DEF IsProper
  <2>3. \A cord \in graph.cords \ {c} : {cord[1], cord[2]} \subseteq BoxesOf(graph)
    BY DEF IsProper, IsGraph
  <2> QED
    BY <2>1, <2>2, <2>3, CordedIsProper
<1>2. ASSUME NEW b \in Box, o = FreeOf(b)
      PROVE  IsProper(Effect(graph, o))
  <2>1. Effect(graph, o) = Without(graph, b)
    BY <1>2, Kinds DEF Effect
  <2> QED
    BY <2>1, WithoutIsProper
<1>3. ASSUME NEW b \in Box, o = MakeOf(to, b)
      PROVE  IsProper(Effect(graph, o))
  <2>1. o.op = "create" /\ o.box = b /\ o.content = to.boxes[b]
    BY <1>3, Kinds
  <2>2. Effect(graph, o) = With(graph, b, to.boxes[b])
    BY <2>1 DEF Effect
  <2>3. to.boxes[b] \in Content
    BY <1>3, StepsAre DEF BoxesOf, IsProper
  <2>4. Reaches(graph, PathTo[b])
    BY <1>3, Targets DEF CanApply
  <2>5. graph.boxes[b] = Absent
    BY <2>1 DEF BoxesOf
  <2> QED
    BY <2>2, <2>3, <2>4, <2>5, WithIsProper
<1>4. ASSUME NEW b \in Box, NEW a \in Attribute, o = SetOf(to, b, a)
      PROVE  IsProper(Effect(graph, o))
  <2>1. o.op = "set" /\ o.box = b /\ o.attribute = a /\ o.value = to.boxes[b].attributes[a]
    BY <1>4, Kinds
  <2>2. PICK content : content = [class |-> graph.boxes[b].class,
                                  attributes |-> [graph.boxes[b].attributes EXCEPT ![a] = o.value]]
    OBVIOUS
  <2>3. Effect(graph, o) = With(graph, b, content)
    BY <2>1, <2>2 DEF Effect
  <2>4. Reaches(graph, PathTo[b]) /\ b \in BoxesOf(graph)
    BY <1>4, <2>1, Targets DEF CanApply
  <2>5. graph.boxes[b] \in Content
    BY <2>4 DEF BoxesOf, IsProper
  <2>6. o.value \in Settable
    BY <1>4, <2>1, StepsAre DEF IsSet
  <2>7. content \in Content /\ content.class = graph.boxes[b].class
    BY <2>2, <2>5, <2>6 DEF Content
  <2> QED
    BY <2>3, <2>4, <2>7, WithIsProper
<1>5. ASSUME NEW c \in Cord, o = JoinOf(c)
      PROVE  IsProper(Effect(graph, o))
  <2>1. Effect(graph, o) = Corded(graph, graph.cords \cup {c})
    BY <1>5, Kinds DEF Effect
  <2>2. {c[1], c[2]} \subseteq BoxesOf(graph)
    BY <1>5, Targets, Kinds DEF CanApply
  <2>3. graph.cords \cup {c} \in SUBSET Cord
    BY DEF IsProper
  <2>4. \A cord \in graph.cords \cup {c} : {cord[1], cord[2]} \subseteq BoxesOf(graph)
    BY <2>2 DEF IsProper, IsGraph
  <2> QED
    BY <2>1, <2>3, <2>4, CordedIsProper
<1> QED
  BY <1>1, <1>2, <1>3, <1>4, <1>5, StepKinds

LEMMA ReversedIsProper ==
  ASSUME NEW from, NEW to, IsProper(from), IsProper(to), NEW o \in Steps(from, to),
         NEW graph, IsProper(graph)
  PROVE  IsProper(Reversed(graph, o))
<1>1. CASE ~CanApply(graph, o)
  BY <1>1 DEF Reversed
<1>2. CASE CanApply(graph, o) /\ o.op # "create"
  BY <1>2, EffectIsProper DEF Reversed
<1>3. CASE CanApply(graph, o) /\ o.op = "create"
  <2>1. PICK b \in Box : o = MakeOf(to, b)
    BY <1>3, StepKinds, Kinds
  <2>2. o.box = b /\ o.content = to.boxes[b] /\ to.boxes[b] \in Content
    BY <2>1, Kinds, StepsAre DEF BoxesOf, IsProper
  <2>3. PICK less : less = Without(graph, b)
    OBVIOUS
  <2>4. Reversed(graph, o) = With(less, b, to.boxes[b])
    BY <1>3, <2>2, <2>3 DEF Reversed
  <2>5. Reaches(graph, PathTo[b])
    BY <1>3, <2>1, Targets DEF CanApply
  <2>6. IsProper(less) /\ less.boxes[b] = Absent /\ Reaches(less, PathTo[b])
    BY <2>3, <2>5, WithoutIsProper
  <2> QED
    BY <2>2, <2>4, <2>6, WithIsProper
<1> QED
  BY <1>1, <1>2, <1>3

-----------------------------------------------------------------------------
(* The reverse operations.                                                   *)

\* b was freed since, or a box around it, perhaps to be made again.
Hit(to, done, b) ==
  \E a \in Box : b \in {a} \cup Inside(a) /\ (FreeOf(a) \in done \/ MakeOf(to, a) \in done)

\* What the operations of done, of a plan that is to lead to a graph, have made of
\* the graph mid that the failure left.
BackBox(mid, to, done, b) ==
  IF MakeOf(to, b) \in done THEN to.boxes[b]
  ELSE IF Hit(to, done, b) \/ mid.boxes[b] = Absent THEN Absent
  ELSE [class |-> mid.boxes[b].class,
        attributes |-> [a \in Attribute |->
          IF SetOf(to, b, a) \in done THEN to.boxes[b].attributes[a]
          ELSE mid.boxes[b].attributes[a]]]

BackCords(mid, to, done) ==
  {c \in Cord : \/ JoinOf(c) \in done
                \/ /\ c \in mid.cords /\ CutOf(c) \notin done
                   /\ ~Hit(to, done, c[1]) /\ ~Hit(to, done, c[2])}

Back(mid, to, done) ==
  [boxes |-> [b \in Box |-> BackBox(mid, to, done, b)], cords |-> BackCords(mid, to, done)]

LEMMA BackStarts ==
  ASSUME NEW mid, IsProper(mid), NEW to
  PROVE  Back(mid, to, {}) = mid
<1>1. \A b : ~Hit(to, {}, b)
  BY DEF Hit
<1>2. ASSUME NEW b \in Box
      PROVE  BackBox(mid, to, {}, b) = mid.boxes[b]
  <2>1. CASE mid.boxes[b] = Absent
    BY <2>1 DEF BackBox
  <2>2. CASE mid.boxes[b] # Absent
    <3>1. PICK box : box = mid.boxes[b]
      OBVIOUS
    <3>2. box \in Content
      BY <2>2, <3>1 DEF IsProper
    <3>3. box = [class |-> box.class, attributes |-> [a \in Attribute |-> box.attributes[a]]]
      BY <3>2 DEF Content
    <3>4. BackBox(mid, to, {}, b) =
            [class |-> box.class, attributes |-> [a \in Attribute |-> box.attributes[a]]]
      BY <1>1, <2>2, <3>1 DEF BackBox
    <3> QED
      BY <3>1, <3>3, <3>4
  <2> QED
    BY <2>1, <2>2
<1>3. [b \in Box |-> BackBox(mid, to, {}, b)] = mid.boxes
  BY <1>2 DEF IsProper
<1>4. BackCords(mid, to, {}) = mid.cords
  BY <1>1 DEF BackCords, IsProper
<1>5. mid = [boxes |-> mid.boxes, cords |-> mid.cords]
  BY DEF IsProper
<1> QED
  BY <1>3, <1>4, <1>5 DEF Back

\* The next reverse operation does what it is for.
Undoes(mid, to, done, o) == Reversed(Back(mid, to, done), o) = Back(mid, to, done \cup {o})

LEMMA CutReverses ==
  ASSUME NEW from, NEW to, NEW done, NEW c \in Cord, IsNext(from, to, done, CutOf(c)),
         NEW mid, IsProper(Back(mid, to, done))
  PROVE  Undoes(mid, to, done, CutOf(c))
<1>1. PICK o, g : o = CutOf(c) /\ g = Back(mid, to, done)
  OBVIOUS
<1>2. /\ g = [boxes |-> g.boxes, cords |-> g.cords]
      /\ g.boxes = [b \in Box |-> BackBox(mid, to, done, b)]
      /\ g.cords = BackCords(mid, to, done)
  BY <1>1 DEF Back
<1>3. o.op = "disconnect" /\ o.cord = c
  BY <1>1, Kinds
<1>4. Reversed(g, o) = [boxes |-> g.boxes, cords |-> g.cords \ {c}]
  <2>1. CASE CanApply(g, o)
    BY <1>3, <2>1 DEF Reversed, Effect, Corded
  <2>2. CASE ~CanApply(g, o)
    <3>1. c \in g.cords => CanApply(g, o)
      BY <1>1, Targets DEF CanApply, IsProper, IsGraph
    <3>2. g.cords \ {c} = g.cords
      BY <2>2, <3>1
    <3> QED
      BY <1>2, <2>2, <3>2 DEF Reversed
  <2> QED
    BY <2>1, <2>2
<1>5. /\ \A x : FreeOf(x) # o /\ MakeOf(to, x) # o /\ JoinOf(x) # o
      /\ \A x, y : SetOf(to, x, y) # o
      /\ \A x : CutOf(x) = o <=> x = c
  BY <1>1, Kinds
<1>6. \A b : Hit(to, done \cup {o}, b) <=> Hit(to, done, b)
  BY <1>5 DEF Hit
<1>7. \A b \in Box : BackBox(mid, to, done \cup {o}, b) = BackBox(mid, to, done, b)
  BY <1>5, <1>6 DEF BackBox
<1>8. BackCords(mid, to, done \cup {o}) = g.cords \ {c}
  <2>1. \A d : JoinOf(d) \notin done
    BY BeforeCut, Kinds
  <2> QED
    BY <1>2, <1>5, <1>6, <2>1 DEF BackCords
<1>9. [b \in Box |-> BackBox(mid, to, done \cup {o}, b)] = g.boxes
  BY <1>2, <1>7
<1> QED
  BY <1>1, <1>4, <1>8, <1>9 DEF Back, Undoes

LEMMA FreeReverses ==
  ASSUME NEW from, NEW to, NEW done, NEW b \in Box, IsNext(from, to, done, FreeOf(b)),
         NEW mid, IsProper(Back(mid, to, done))
  PROVE  Undoes(mid, to, done, FreeOf(b))
<1> DEFINE gone == {b} \cup Inside(b)
<1>1. PICK o, g : o = FreeOf(b) /\ g = Back(mid, to, done)
  OBVIOUS
<1>2. /\ g = [boxes |-> g.boxes, cords |-> g.cords]
      /\ g.boxes = [x \in Box |-> BackBox(mid, to, done, x)]
      /\ g.cords = BackCords(mid, to, done)
  BY <1>1 DEF Back
<1>3. o.op = "delete" /\ o.box = b
  BY <1>1, Kinds
<1>4. Reversed(g, o) = Without(g, b)
  <2>1. CASE CanApply(g, o)
    BY <1>3, <2>1 DEF Reversed, Effect
  <2>2. CASE ~CanApply(g, o)
    <3>1. \A x \in BoxesOf(g) : Reaches(g, PathTo[x])
      BY <1>1 DEF IsProper, IsGraph
    <3>2. b \in BoxesOf(g) => CanApply(g, o)
      BY <1>1, <3>1, Targets DEF CanApply
    <3>3. ASSUME NEW x \in Inside(b), x \in BoxesOf(g)
          PROVE  FALSE
      <4>1. PICK i \in 1..Depth(x) : PathTo[x][i] = b
        BY <3>3, InsideIsOnPath DEF BoxesOf
      <4>2. DOMAIN PathTo[x] = 1..Depth(x)
        BY <3>3, PathsAre, LenProperties DEF Depth, BoxesOf
      <4>3. Holds(g, b)
        BY <3>1, <3>3, <4>1, <4>2 DEF Reaches
      <4> QED
        BY <2>2, <3>2, <4>3 DEF Holds, BoxesOf
    <3>4. \A x \in gone : x \notin BoxesOf(g)
      BY <2>2, <3>2, <3>3
    <3>5. g.boxes = [x \in Box |-> g.boxes[x]]
      BY <1>2
    <3>6. [x \in Box |-> IF x \in gone THEN Absent ELSE g.boxes[x]] = g.boxes
      BY <3>4, <3>5 DEF BoxesOf
    <3>7. {cord \in g.cords : {cord[1], cord[2]} \cap gone = {}} = g.cords
      BY <1>1, <3>4 DEF IsProper, IsGraph
    <3>8. Without(g, b) = g
      BY <1>2, <3>6, <3>7 DEF Without
    <3> QED
      BY <2>2, <3>8 DEF Reversed
  <2> QED
    BY <2>1, <2>2
<1>5. /\ \A x : CutOf(x) # o /\ MakeOf(to, x) # o /\ JoinOf(x) # o
      /\ \A x, y : SetOf(to, x, y) # o
      /\ \A x : FreeOf(x) = o <=> x = b
  BY <1>1, Kinds
<1>6. \A x : MakeOf(to, x) \notin done /\ JoinOf(x) \notin done
  BY BeforeFree, Kinds
<1>7. \A x : Hit(to, done \cup {o}, x) <=> Hit(to, done, x) \/ x \in gone
  BY <1>5 DEF Hit
<1>8. \A x \in Box : BackBox(mid, to, done \cup {o}, x) =
                       IF x \in gone THEN Absent ELSE BackBox(mid, to, done, x)
  <2> HIDE DEF gone
  <2> QED
    BY <1>5, <1>6, <1>7 DEF BackBox
<1>9. BackCords(mid, to, done \cup {o}) = {cord \in g.cords : {cord[1], cord[2]} \cap gone = {}}
  <2> HIDE DEF gone
  <2> QED
    BY <1>2, <1>5, <1>6, <1>7 DEF BackCords
<1>10. [x \in Box |-> BackBox(mid, to, done \cup {o}, x)] =
         [x \in Box |-> IF x \in gone THEN Absent ELSE g.boxes[x]]
  BY <1>2, <1>8
<1> QED
  BY <1>1, <1>4, <1>9, <1>10 DEF Back, Undoes, Without

LEMMA MakeReverses ==
  ASSUME NEW from, NEW to, NEW done, NEW b \in Box, IsNext(from, to, done, MakeOf(to, b)),
         NEW mid, CanApply(Back(mid, to, done), MakeOf(to, b))
  PROVE  Undoes(mid, to, done, MakeOf(to, b))
<1> DEFINE gone == {b} \cup Inside(b)
<1>1. PICK o, g : o = MakeOf(to, b) /\ g = Back(mid, to, done)
  OBVIOUS
<1>2. /\ g.boxes = [x \in Box |-> BackBox(mid, to, done, x)]
      /\ g.cords = BackCords(mid, to, done)
  BY <1>1 DEF Back
<1>3. o.op = "create" /\ o.box = b /\ o.content = to.boxes[b]
  BY <1>1, Kinds
<1>4. Reversed(g, o) = With(Without(g, b), b, to.boxes[b])
  BY <1>1, <1>3 DEF Reversed
<1>5. /\ \A x : CutOf(x) # o /\ FreeOf(x) # o /\ JoinOf(x) # o
      /\ \A x, y : SetOf(to, x, y) # o
      /\ \A x : MakeOf(to, x) = o <=> x = b
  BY <1>1, Kinds
<1>6. \A x : JoinOf(x) \notin done
  BY BeforeMake, Kinds
<1>7. ASSUME NEW x \in Inside(b)
      PROVE  MakeOf(to, x) \notin done
  <2>1. x \in Box /\ Depth(x) > Depth(b) /\ Depth(x) \in Nat /\ Depth(b) \in Nat
    BY <1>7, InsideNests, PathsAre DEF Inside
  <2>2. MakeOf(to, x) \in done => InOrder(MakeOf(to, x), o)
    BY <1>1 DEF IsNext
  <2>3. InOrder(MakeOf(to, x), o) => Depth(x) <= Depth(b)
    BY <1>1, Kinds DEF InOrder
  <2> QED
    BY <2>1, <2>2, <2>3
<1>8. \A x : Hit(to, done \cup {o}, x) <=> Hit(to, done, x) \/ x \in gone
  BY <1>5 DEF Hit
<1>9. \A x \in Box : BackBox(mid, to, done \cup {o}, x) =
        IF x = b THEN to.boxes[b] ELSE IF x \in gone THEN Absent ELSE BackBox(mid, to, done, x)
  <2>1. b \in gone /\ \A x \in gone : x = b \/ x \in Inside(b)
    OBVIOUS
  <2> HIDE DEF gone
  <2> QED
    BY <1>5, <1>7, <1>8, <2>1 DEF BackBox
<1>10. BackCords(mid, to, done \cup {o}) = {cord \in g.cords : {cord[1], cord[2]} \cap gone = {}}
  <2> HIDE DEF gone
  <2>1. g.cords = {c \in Cord : /\ c \in mid.cords /\ CutOf(c) \notin done
                                /\ ~Hit(to, done, c[1]) /\ ~Hit(to, done, c[2])}
    BY <1>2, <1>6 DEF BackCords
  <2>2. BackCords(mid, to, done \cup {o}) =
          {c \in Cord : /\ c \in mid.cords /\ CutOf(c) \notin done
                        /\ ~Hit(to, done \cup {o}, c[1]) /\ ~Hit(to, done \cup {o}, c[2])}
    BY <1>5, <1>6 DEF BackCords
  <2> QED
    BY <1>8, <2>1, <2>2
<1>11. [x \in Box |-> BackBox(mid, to, done \cup {o}, x)] =
         [[x \in Box |-> IF x \in gone THEN Absent ELSE g.boxes[x]] EXCEPT ![b] = to.boxes[b]]
  <2> HIDE DEF gone
  <2> QED
    BY <1>2, <1>9
<1> QED
  BY <1>1, <1>4, <1>10, <1>11 DEF Back, Undoes, With, Without

LEMMA SetReverses ==
  ASSUME NEW from, NEW to, NEW done, NEW b \in Box, NEW a \in Attribute,
         IsNext(from, to, done, SetOf(to, b, a)),
         NEW mid, CanApply(Back(mid, to, done), SetOf(to, b, a))
  PROVE  Undoes(mid, to, done, SetOf(to, b, a))
<1>1. PICK o, g, value :
        o = SetOf(to, b, a) /\ g = Back(mid, to, done) /\ value = to.boxes[b].attributes[a]
  OBVIOUS
<1>2. /\ g.boxes = [x \in Box |-> BackBox(mid, to, done, x)]
      /\ g.cords = BackCords(mid, to, done)
  BY <1>1 DEF Back
<1>3. o.op = "set" /\ o.box = b /\ o.attribute = a /\ o.value = value
  BY <1>1, Kinds
<1>4. Reversed(g, o) = With(g, b, [class |-> g.boxes[b].class,
                                   attributes |-> [g.boxes[b].attributes EXCEPT ![a] = value]])
  <2>1. Reversed(g, o) = Effect(g, o)
    BY <1>1, <1>3 DEF Reversed
  <2> QED
    BY <1>3, <2>1 DEF Effect
<1>5. /\ \A x : CutOf(x) # o /\ FreeOf(x) # o /\ JoinOf(x) # o /\ MakeOf(to, x) # o
      /\ \A x, y : SetOf(to, x, y) = o <=> x = b /\ y = a
  <2>1. \A x, y : SetOf(to, x, y) = o => x = b /\ y = a
    BY <1>1 DEF SetOf
  <2> QED
    BY <1>1, <2>1, Kinds
<1>6. \A x : Hit(to, done \cup {o}, x) <=> Hit(to, done, x)
  BY <1>5 DEF Hit
<1>7. MakeOf(to, b) \notin done /\ ~Hit(to, done, b) /\ mid.boxes[b] # Absent
  <2>1. Stays(from, to, b) /\ done \subseteq Steps(from, to)
    BY StepsAre DEF IsNext
  <2>2. MakeOf(to, b) \notin done
    BY <2>1, StepsAre
  <2>3. g.boxes[b] # Absent
    BY <1>1, <1>3, Targets DEF CanApply, BoxesOf
  <2> QED
    BY <1>2, <2>2, <2>3 DEF BackBox
<1> DEFINE Mid(d) == [x \in Attribute |-> IF SetOf(to, b, x) \in d THEN to.boxes[b].attributes[x]
                                           ELSE mid.boxes[b].attributes[x]]
<1>8. /\ BackBox(mid, to, done, b) = [class |-> mid.boxes[b].class, attributes |-> Mid(done)]
      /\ BackBox(mid, to, done \cup {o}, b) =
           [class |-> mid.boxes[b].class, attributes |-> Mid(done \cup {o})]
  BY <1>5, <1>6, <1>7 DEF BackBox
<1>9. Mid(done \cup {o}) = [Mid(done) EXCEPT ![a] = value]
  <2>1. \A x \in Attribute : SetOf(to, b, x) \in done \cup {o} <=> SetOf(to, b, x) \in done \/ x = a
    BY <1>5
  <2> QED
    BY <1>1, <2>1
<1> HIDE DEF Mid
<1>10. [class |-> g.boxes[b].class, attributes |-> [g.boxes[b].attributes EXCEPT ![a] = value]] =
         BackBox(mid, to, done \cup {o}, b)
  <2>1. g.boxes[b] = [class |-> mid.boxes[b].class, attributes |-> Mid(done)]
    BY <1>2, <1>8
  <2>2. g.boxes[b].class = mid.boxes[b].class /\ g.boxes[b].attributes = Mid(done)
    BY <2>1
  <2> QED
    BY <1>8, <1>9, <2>2
<1>11. \A x \in Box : x # b => BackBox(mid, to, done \cup {o}, x) = BackBox(mid, to, done, x)
  BY <1>5, <1>6 DEF BackBox
<1>12. [g.boxes EXCEPT ![b] = BackBox(mid, to, done \cup {o}, b)] =
         [x \in Box |-> BackBox(mid, to, done \cup {o}, x)]
  BY <1>2, <1>11
<1>13. BackCords(mid, to, done \cup {o}) = g.cords
  BY <1>2, <1>5, <1>6 DEF BackCords
<1> QED
  BY <1>1, <1>4, <1>10, <1>12, <1>13 DEF Back, Undoes, With

LEMMA JoinReverses ==
  ASSUME NEW to, NEW done, NEW c \in Cord,
         NEW mid, CanApply(Back(mid, to, done), JoinOf(c))
  PROVE  Undoes(mid, to, done, JoinOf(c))
<1>1. PICK o, g : o = JoinOf(c) /\ g = Back(mid, to, done)
  OBVIOUS
<1>2. /\ g.boxes = [b \in Box |-> BackBox(mid, to, done, b)]
      /\ g.cords = BackCords(mid, to, done)
  BY <1>1 DEF Back
<1>3. o.op = "connect" /\ o.cord = c
  BY <1>1, Kinds
<1>4. Reversed(g, o) = [boxes |-> g.boxes, cords |-> g.cords \cup {c}]
  BY <1>1, <1>3 DEF Reversed, Effect, Corded
<1>5. /\ \A x : FreeOf(x) # o /\ MakeOf(to, x) # o /\ CutOf(x) # o
      /\ \A x, y : SetOf(to, x, y) # o
      /\ \A x : JoinOf(x) = o <=> x = c
  BY <1>1, Kinds
<1>6. \A b : Hit(to, done \cup {o}, b) <=> Hit(to, done, b)
  BY <1>5 DEF Hit
<1>7. \A b \in Box : BackBox(mid, to, done \cup {o}, b) = BackBox(mid, to, done, b)
  BY <1>5, <1>6 DEF BackBox
<1>8. BackCords(mid, to, done \cup {o}) = g.cords \cup {c}
  BY <1>2, <1>5, <1>6 DEF BackCords
<1>9. [b \in Box |-> BackBox(mid, to, done \cup {o}, b)] = g.boxes
  BY <1>2, <1>7
<1> QED
  BY <1>1, <1>4, <1>8, <1>9 DEF Back, Undoes

LEMMA NextReverses ==
  ASSUME NEW from, NEW to, IsProper(from), IsProper(to), NEW done, NEW o,
         IsNext(from, to, done, o),
         NEW mid, IsProper(Back(mid, to, done)), CanReverse(Back(mid, to, done), o)
  PROVE  Undoes(mid, to, done, o)
<1>1. o \in Steps(from, to)
  BY DEF IsNext
<1>2. o.op \notin {"disconnect", "delete"} => CanApply(Back(mid, to, done), o)
  BY DEF CanReverse
<1>3. ASSUME NEW c \in Cord, o = CutOf(c)
      PROVE  Undoes(mid, to, done, o)
  BY <1>3, CutReverses
<1>4. ASSUME NEW b \in Box, o = FreeOf(b)
      PROVE  Undoes(mid, to, done, o)
  BY <1>4, FreeReverses
<1>5. ASSUME NEW b \in Box, o = MakeOf(to, b)
      PROVE  Undoes(mid, to, done, o)
  BY <1>2, <1>5, Kinds, MakeReverses
<1>6. ASSUME NEW b \in Box, NEW a \in Attribute, o = SetOf(to, b, a)
      PROVE  Undoes(mid, to, done, o)
  BY <1>2, <1>6, Kinds, SetReverses
<1>7. ASSUME NEW c \in Cord, o = JoinOf(c)
      PROVE  Undoes(mid, to, done, o)
  BY <1>2, <1>7, Kinds, JoinReverses
<1> QED
  BY <1>1, <1>3, <1>4, <1>5, <1>6, <1>7, StepKinds

\* A graph but for some cords.
But(graph, cords) == Corded(graph, graph.cords \ cords)

LEMMA ButIsProper ==
  ASSUME NEW graph, IsProper(graph), NEW cords
  PROVE  IsProper(But(graph, cords)) /\ But(graph, {}) = graph
<1>1. graph.cords \ cords \in SUBSET Cord
  BY DEF IsProper
<1>2. \A cord \in graph.cords \ cords : {cord[1], cord[2]} \subseteq BoxesOf(graph)
  BY DEF IsProper, IsGraph
<1>3. IsProper(Corded(graph, graph.cords \ cords))
  BY <1>1, <1>2, CordedIsProper
<1>4. graph.cords \ {} = graph.cords
  OBVIOUS
<1>5. Corded(graph, graph.cords) = graph
  BY DEF Corded, IsProper
<1> QED
  BY <1>3, <1>4, <1>5 DEF But

\* Operations look at boxes only, so that a reverse operation does the same
\* beside some cords more, of which it connects its own again; one that Max
\* refuses to disconnect is one more of them.
LEMMA ButReverses ==
  ASSUME NEW from, NEW to, IsProper(from), IsProper(to), NEW o \in Steps(from, to),
         NEW graph, IsProper(graph), NEW cords
  PROVE  /\ CanReverse(graph, o) => CanReverse(But(graph, cords), o)
         /\ o.op # "connect" =>
              But(Reversed(graph, o), cords) = Reversed(But(graph, cords), o)
         /\ o.op = "connect" /\ CanReverse(graph, o) =>
              But(Reversed(graph, o), cords \ {o.cord}) = Reversed(But(graph, cords), o)
         /\ o.op = "disconnect" /\ o.cord \in graph.cords =>
              But(graph, cords \cup {o.cord}) = Reversed(But(graph, cords), o)
<1>1. PICK g : g = But(graph, cords)
  OBVIOUS
<1>2. g = [boxes |-> graph.boxes, cords |-> graph.cords \ cords]
  BY <1>1 DEF But, Corded
<1>3. g.boxes = graph.boxes /\ g.cords = graph.cords \ cords
  BY <1>2
<1>4. CanApply(g, o) <=> CanApply(graph, o)
  BY <1>3 DEF CanApply, Reaches, Holds, BoxesOf
<1>5. CanReverse(graph, o) => CanReverse(g, o)
  BY <1>4 DEF CanReverse
<1>6. CASE ~CanApply(graph, o)
  <2>1. Reversed(graph, o) = graph /\ Reversed(g, o) = g
    BY <1>4, <1>6 DEF Reversed
  <2>2. o.op = "connect" => ~CanReverse(graph, o)
    BY <1>6 DEF CanReverse
  <2>3. o.op = "disconnect" => o.cord \notin graph.cords
    <3> SUFFICES ASSUME o.op = "disconnect", o.cord \in graph.cords
                 PROVE  FALSE
      OBVIOUS
    <3>1. PICK c \in Cord : o = CutOf(c)
      BY StepKinds, Kinds
    <3>2. c \in graph.cords
      BY <3>1, Kinds
    <3>3. c[1] \in BoxesOf(graph) /\ c[2] \in BoxesOf(graph) /\ Reaches(graph, PathTo[c[1]])
      BY <3>2 DEF IsProper, IsGraph
    <3> QED
      BY <1>6, <3>1, <3>3, Targets DEF CanApply
  <2> QED
    BY <1>1, <1>5, <2>1, <2>2, <2>3
<1>7. CASE CanApply(graph, o)
  <2>1. CASE o.op = "disconnect"
    <3>1. /\ Reversed(graph, o) = [boxes |-> graph.boxes, cords |-> graph.cords \ {o.cord}]
          /\ Reversed(g, o) = [boxes |-> graph.boxes, cords |-> (graph.cords \ cords) \ {o.cord}]
      BY <1>3, <1>4, <1>7, <2>1 DEF Reversed, Effect, Corded
    <3>2. But(Reversed(graph, o), cords) =
            [boxes |-> graph.boxes, cords |-> (graph.cords \ {o.cord}) \ cords]
      BY <3>1 DEF But, Corded
    <3>3. But(graph, cords \cup {o.cord}) =
            [boxes |-> graph.boxes, cords |-> graph.cords \ (cords \cup {o.cord})]
      BY DEF But, Corded
    <3>4. /\ (graph.cords \ {o.cord}) \ cords = (graph.cords \ cords) \ {o.cord}
          /\ graph.cords \ (cords \cup {o.cord}) = (graph.cords \ cords) \ {o.cord}
      OBVIOUS
    <3> QED
      BY <1>1, <1>5, <2>1, <3>1, <3>2, <3>3, <3>4
  <2>2. CASE o.op = "connect"
    <3>1. /\ Reversed(graph, o) = [boxes |-> graph.boxes, cords |-> graph.cords \cup {o.cord}]
          /\ Reversed(g, o) = [boxes |-> graph.boxes, cords |-> (graph.cords \ cords) \cup {o.cord}]
      BY <1>3, <1>4, <1>7, <2>2 DEF Reversed, Effect, Corded
    <3>2. But(Reversed(graph, o), cords \ {o.cord}) =
            [boxes |-> graph.boxes, cords |-> (graph.cords \cup {o.cord}) \ (cords \ {o.cord})]
      BY <3>1 DEF But, Corded
    <3>3. (graph.cords \cup {o.cord}) \ (cords \ {o.cord}) = (graph.cords \ cords) \cup {o.cord}
      OBVIOUS
    <3> QED
      BY <1>1, <1>5, <2>2, <3>1, <3>2, <3>3
  <2>3. \A b : /\ Without(g, b).boxes = Without(graph, b).boxes
               /\ Without(g, b).cords = Without(graph, b).cords \ cords
               /\ Without(g, b) = [boxes |-> Without(graph, b).boxes,
                                   cords |-> Without(graph, b).cords \ cords]
    BY <1>3 DEF Without
  <2>4. CASE o.op = "delete"
    <3>1. Reversed(graph, o) = Without(graph, o.box) /\ Reversed(g, o) = Without(g, o.box)
      BY <1>4, <1>7, <2>4 DEF Reversed, Effect
    <3>2. But(Reversed(graph, o), cords) = Reversed(g, o)
      BY <2>3, <3>1 DEF But, Corded
    <3> QED
      BY <1>1, <1>5, <2>4, <3>2
  <2>5. CASE o.op = "create"
    <3>1. /\ Reversed(graph, o) = With(Without(graph, o.box), o.box, o.content)
          /\ Reversed(g, o) = With(Without(g, o.box), o.box, o.content)
      BY <1>4, <1>7, <2>5 DEF Reversed
    <3>2. PICK rest : rest = Without(graph, o.box)
      OBVIOUS
    <3>3. PICK short : short = Without(g, o.box)
      OBVIOUS
    <3>4. short.boxes = rest.boxes /\ short.cords = rest.cords \ cords
      BY <2>3, <3>2, <3>3
    <3>5. But(With(rest, o.box, o.content), cords) = With(short, o.box, o.content)
      BY <3>4 DEF But, Corded, With
    <3>6. But(Reversed(graph, o), cords) = Reversed(g, o)
      BY <3>1, <3>2, <3>3, <3>5
    <3> QED
      BY <1>1, <1>5, <2>5, <3>6
  <2>6. CASE o.op = "set"
    <3>1. Reversed(graph, o) = Effect(graph, o) /\ Reversed(g, o) = Effect(g, o)
      BY <1>4, <1>7, <2>6 DEF Reversed
    <3>2. PICK content : content =
            [class |-> graph.boxes[o.box].class,
             attributes |-> [graph.boxes[o.box].attributes EXCEPT ![o.attribute] = o.value]]
      OBVIOUS
    <3>3. Effect(graph, o) = With(graph, o.box, content) /\ Effect(g, o) = With(g, o.box, content)
      BY <1>3, <2>6, <3>2 DEF Effect
    <3>4. But(With(graph, o.box, content), cords) = With(g, o.box, content)
      BY <1>3 DEF But, Corded, With
    <3> QED
      BY <1>1, <1>5, <2>6, <3>1, <3>3, <3>4
  <2> QED
    BY <2>1, <2>2, <2>4, <2>5, <2>6, StepKinds, Kinds
<1> QED
  BY <1>6, <1>7

\* A box that the reverse plan leaves in place is not freed with another.
LEMMA StayingIsNotHit ==
  ASSUME NEW from, NEW to, IsProper(from), IsProper(to), NEW b \in Box, Stays(from, to, b)
  PROVE  ~Hit(to, Steps(from, to), b)
<1> SUFFICES ASSUME NEW a \in Box, b \in {a} \cup Inside(a),
                    FreeOf(a) \in Steps(from, to) \/ MakeOf(to, a) \in Steps(from, to)
             PROVE  FALSE
  BY DEF Hit
<1>1. ~Stays(from, to, a)
  BY StepsAre
<1> QED
  BY <1>1, GoingTakesInside

\* All reverse operations lead back, from wherever the plan stopped, if they
\* replace all boxes that the plan replaces.
LEMMA BackEnds ==
  ASSUME NEW from, NEW to, IsProper(from), IsProper(to), NEW did \in SUBSET Steps(from, to),
         Replaced(from, to) \subseteq Replaced(to, from)
  PROVE  Back(Midway(from, to, did), from, Steps(to, from)) = from
<1>1. PICK mid, all : mid = Midway(from, to, did) /\ all = Steps(to, from)
  OBVIOUS
<1>2. \A b \in Box : Stays(to, from, b) => Stays(from, to, b) /\ ~Hit(from, all, b)
  BY <1>1, StayingIsNotHit DEF Stays
<1>3. ASSUME NEW b \in Box
      PROVE  BackBox(mid, from, all, b) = from.boxes[b]
  <2>1. CASE MakeOf(from, b) \in all
    BY <2>1 DEF BackBox
  <2>2. CASE MakeOf(from, b) \notin all /\ from.boxes[b] = Absent
    <3>1. CASE to.boxes[b] = Absent
      <4>1. MakeOf(to, b) \notin did
        BY <3>1, StepsAre DEF BoxesOf
      <4>2. mid.boxes[b] = Absent
        BY <1>1, <2>2, <4>1 DEF Midway, MidBox
      <4> QED
        BY <2>2, <4>2 DEF BackBox
    <3>2. CASE to.boxes[b] # Absent
      <4>1. FreeOf(b) \in all
        BY <1>1, <2>2, <3>2, StepsAre DEF BoxesOf, Stays
      <4>2. Hit(from, all, b)
        BY <4>1 DEF Hit
      <4> QED
        BY <2>2, <4>2 DEF BackBox
    <3> QED
      BY <3>1, <3>2
  <2>3. CASE MakeOf(from, b) \notin all /\ from.boxes[b] # Absent
    <3>1. Stays(to, from, b)
      BY <1>1, <2>3, StepsAre DEF BoxesOf
    <3>2. Stays(from, to, b) /\ ~Hit(from, all, b)
      BY <1>2, <3>1
    <3>3. MakeOf(to, b) \notin did /\ FreeOf(b) \notin did
      BY <3>2, StepsAre
    <3>4. PICK old, new : old = from.boxes[b] /\ new = to.boxes[b]
      OBVIOUS
    <3>5. old \in Content
      BY <2>3, <3>4 DEF IsProper
    <3>6. PICK middle : middle = [a \in Attribute |-> IF SetOf(to, b, a) \in did
                                    THEN new.attributes[a] ELSE old.attributes[a]]
      OBVIOUS
    <3>7. mid.boxes[b] = [class |-> old.class, attributes |-> middle]
      BY <1>1, <2>3, <3>3, <3>4, <3>6 DEF Midway, MidBox
    <3>8. mid.boxes[b] # Absent
      BY <1>1, <2>3, <3>3, MidwayBoxes
    <3>9. mid.boxes[b].class = old.class /\ mid.boxes[b].attributes = middle
      BY <3>7
    <3>10. PICK attributes : attributes =
             [a \in Attribute |-> IF SetOf(from, b, a) \in all THEN old.attributes[a]
                                  ELSE middle[a]]
      OBVIOUS
    <3>11. \A a \in Attribute : SetOf(from, b, a) \notin all => old.attributes[a] = new.attributes[a]
      BY <1>1, <3>1, <3>4, StepsAre, StayingIsClosed
    <3>12. attributes = old.attributes
      BY <3>5, <3>6, <3>10, <3>11 DEF Content
    <3>13. old = [class |-> old.class, attributes |-> old.attributes]
      BY <3>5 DEF Content
    <3>14. BackBox(mid, from, all, b) = [class |-> old.class, attributes |-> attributes]
      BY <2>3, <3>2, <3>4, <3>8, <3>9, <3>10 DEF BackBox
    <3> QED
      BY <3>4, <3>12, <3>13, <3>14
  <2> QED
    BY <2>1, <2>2, <2>3
<1>4. [b \in Box |-> BackBox(mid, from, all, b)] = from.boxes
  BY <1>3 DEF IsProper
<1>5. from.cords \subseteq Cord /\ to.cords \subseteq Cord
  BY DEF IsProper
<1>6. ASSUME NEW c \in Cord
      PROVE  c \in BackCords(mid, from, all) <=> c \in from.cords
  <2>1. c \in mid.cords <=> JoinOf(c) \in did \/ (c \in from.cords /\ CutOf(c) \notin did)
    BY <1>1 DEF Midway, MidCords
  <2>2. CASE c \in from.cords /\ JoinOf(c) \in all
    BY <2>2 DEF BackCords
  <2>3. CASE c \in from.cords /\ JoinOf(c) \notin all
    <3>1. c \in to.cords /\ ~Touches(c, Replaced(to, from))
      BY <1>1, <2>3, StepsAre
    <3>2. ~Touches(c, Replaced(from, to))
      BY <3>1 DEF Touches
    <3>3. CutOf(c) \notin did /\ CutOf(c) \notin all
      BY <1>1, <2>3, <3>1, <3>2, StepsAre
    <3>4. \A e \in {c[1], c[2]} : e \in Box /\ Stays(to, from, e)
      BY <2>3, <3>1, PathsAre DEF Touches, Stays, IsProper, IsGraph
    <3> QED
      BY <1>2, <2>1, <2>3, <3>3, <3>4 DEF BackCords
  <2>4. CASE c \notin from.cords
    <3>1. JoinOf(c) \notin all
      BY <1>1, <2>4, StepsAre
    <3>2. JoinOf(c) \in did => c \in to.cords
      BY StepsAre
    <3>3. c \in mid.cords => CutOf(c) \in all
      BY <1>1, <2>1, <2>4, <3>2, StepsAre
    <3> QED
      BY <2>4, <3>1, <3>3 DEF BackCords
  <2> QED
    BY <2>2, <2>3, <2>4
<1>7. BackCords(mid, from, all) = from.cords
  BY <1>5, <1>6 DEF BackCords
<1>8. from = [boxes |-> from.boxes, cords |-> from.cords]
  BY DEF IsProper
<1> QED
  BY <1>1, <1>4, <1>7, <1>8 DEF Back

-----------------------------------------------------------------------------
(* The invariant.                                                            *)

\* s is what remains of the operations after n of them.
Rest(s, ops, n) ==
  /\ n \in 0..Len(ops)
  /\ Len(s) = Len(ops) - n
  /\ \A i \in 1..Len(s) : s[i] = ops[n + i]

\* Of a plan some operations have run, and those that remain are pending.
Underway(from, to, graph, rest) ==
  /\ rest \in Seq(Steps(from, to))
  /\ \E n \in Nat : /\ Rest(rest, Operations(from, to), n)
                    /\ graph = Midway(from, to, DoneBy(Operations(from, to), n))

\* A plan has failed.  What has run of it and of its reverse tells the graph, and
\* what remains of the reverse is pending.
Reversing(from, to, graph, rest) ==
  \E did \in SUBSET Steps(from, to), n \in Nat :
    /\ Rest(rest, Operations(to, from), n)
    /\ graph = Back(Midway(from, to, did), from, DoneBy(Operations(to, from), n))

\* A plan frees no box of a set.
Spares(from, to, boxes) ==
  \A b \in boxes : b \in BoxesOf(from) /\ FreeOf(b) \notin Steps(from, to)

PlanInv ==
  /\ SidesAreProper /\ IsProper(desired) /\ IsProper(patch)
  /\ faults \in Nat
  /\ stage \in {"reconciling", "conflict", "validating", "applying", "applied", "reversing",
                "restored", "broken", "refused"}
  /\ stage \in {"reconciling", "validating", "applying"} => clinging = {}
  /\ stage = "refused" => ChangesUnsafe /\ patch = current
  /\ stage = "reconciling" => patch = current /\ unmanaged \subseteq BoxesOf(current)
  /\ stage = "validating" =>
       patch = current /\ pending = Operations(current, desired) /\ KeptIn(desired)
  /\ stage = "applying" => Underway(current, desired, patch, pending)
  /\ stage \in {"validating", "applying"} => Spares(current, desired, unmanaged)
  /\ stage = "applied" => patch = desired
  /\ stage = "reversing" =>
       /\ faults > 0 /\ pending \in Seq(Steps(desired, current))
       /\ ~stuck => Reversing(current, desired, But(patch, clinging), pending)
  /\ stage = "restored" /\ Replaced(current, desired) \subseteq Replaced(desired, current) =>
       But(patch, clinging) = current

\* A plan that has not begun is underway; the first of the rest finds all it
\* needs and leaves the plan underway; one that has no rest is done.
LEMMA BeginsUnderway ==
  ASSUME NEW from, NEW to, IsProper(from), IsProper(to)
  PROVE  Underway(from, to, from, Operations(from, to))
<1>1. PICK ops : ops = Operations(from, to)
  OBVIOUS
<1>2. ops \in Seq(Steps(from, to)) /\ Len(ops) \in Nat /\ DoneBy(ops, 0) = {}
  BY <1>1, PlansRun
<1>3. Rest(ops, ops, 0)
  BY <1>2 DEF Rest
<1>4. from = Midway(from, to, DoneBy(ops, 0))
  BY <1>2, MidwayStarts
<1> QED
  BY <1>1, <1>2, <1>3, <1>4 DEF Underway

LEMMA NextIsThere ==
  ASSUME NEW from, NEW to, IsProper(from), IsProper(to), NEW graph, NEW rest,
         Underway(from, to, graph, rest), rest # <<>>
  PROVE  /\ Head(rest) \in Steps(from, to)
         /\ CanApply(graph, Head(rest))
         /\ Head(rest).op = "create" => Head(rest).box \notin BoxesOf(graph)
         /\ Underway(from, to, Effect(graph, Head(rest)), Tail(rest))
<1>1. PICK ops : ops = Operations(from, to)
  OBVIOUS
<1>2. PICK n \in Nat : Rest(rest, ops, n) /\ graph = Midway(from, to, DoneBy(ops, n))
  BY <1>1 DEF Underway
<1>3. /\ Len(ops) \in Nat
      /\ \A k \in 1..Len(ops) :
           /\ IsNext(from, to, DoneBy(ops, k - 1), ops[k])
           /\ DoneBy(ops, k) = DoneBy(ops, k - 1) \cup {ops[k]}
  BY <1>1, PlansRun
<1>4. /\ rest \in Seq(Steps(from, to)) /\ Head(rest) = rest[1]
      /\ Len(rest) \in Nat /\ Len(rest) > 0
      /\ Tail(rest) \in Seq(Steps(from, to)) /\ Len(Tail(rest)) = Len(rest) - 1
      /\ \A i \in 1..Len(Tail(rest)) : Tail(rest)[i] = rest[i + 1]
  BY EmptySeq, HeadTailProperties, LenProperties DEF Underway
<1>5. n + 1 \in 1..Len(ops) /\ Head(rest) = ops[n + 1] /\ (n + 1) - 1 = n
  BY <1>2, <1>3, <1>4 DEF Rest
<1>6. IsNext(from, to, DoneBy(ops, n), Head(rest))
  BY <1>3, <1>5
<1>7. DoneBy(ops, n + 1) = DoneBy(ops, n) \cup {Head(rest)}
  BY <1>3, <1>5
<1>8. /\ Works(from, to, DoneBy(ops, n), Head(rest))
      /\ Head(rest).op = "create" => Head(rest).box \notin BoxesOf(graph)
  BY <1>2, <1>6, NextWorks
<1>9. Effect(graph, Head(rest)) = Midway(from, to, DoneBy(ops, n + 1))
  BY <1>2, <1>7, <1>8 DEF Works
<1>10. Rest(Tail(rest), ops, n + 1)
  BY <1>2, <1>3, <1>4, <1>5 DEF Rest
<1>11. Underway(from, to, Effect(graph, Head(rest)), Tail(rest))
  BY <1>1, <1>4, <1>9, <1>10 DEF Underway
<1> QED
  BY <1>2, <1>6, <1>8, <1>11 DEF Works, IsNext

LEMMA EndsUnderway ==
  ASSUME NEW from, NEW to, IsProper(from), IsProper(to), NEW graph, Underway(from, to, graph, <<>>)
  PROVE  graph = to
<1>1. PICK ops : ops = Operations(from, to)
  OBVIOUS
<1>2. PICK n \in Nat : Rest(<<>>, ops, n) /\ graph = Midway(from, to, DoneBy(ops, n))
  BY <1>1 DEF Underway
<1>3. Len(ops) \in Nat /\ DoneBy(ops, Len(ops)) = Steps(from, to)
  BY <1>1, PlansRun
<1>4. n = Len(ops)
  BY <1>2, <1>3 DEF Rest
<1> QED
  BY <1>2, <1>3, <1>4, MidwayEnds

LEMMA BeginsReversing ==
  ASSUME NEW from, NEW to, IsProper(from), IsProper(to), NEW graph, NEW rest,
         IsProper(graph), Underway(from, to, graph, rest)
  PROVE  Reversing(from, to, graph, Operations(to, from))
<1>1. PICK back : back = Operations(to, from)
  OBVIOUS
<1>2. back \in Seq(Steps(to, from)) /\ Len(back) \in Nat /\ DoneBy(back, 0) = {}
  BY <1>1, PlansRun
<1>3. PICK ops : ops = Operations(from, to)
  OBVIOUS
<1>4. PICK n \in Nat : Rest(rest, ops, n) /\ graph = Midway(from, to, DoneBy(ops, n))
  BY <1>3 DEF Underway
<1>5. ops \in Seq(Steps(from, to)) /\ Len(ops) \in Nat
  BY <1>3, PlansRun
<1>6. \A i \in 1..n : ops[i] \in Steps(from, to)
  BY <1>4, <1>5, ElementOfSeq DEF Rest
<1>7. PICK did : did = DoneBy(ops, n)
  OBVIOUS
<1>8. did \in SUBSET Steps(from, to)
  BY <1>6, <1>7 DEF DoneBy
<1>9. Rest(back, back, 0)
  BY <1>2 DEF Rest
<1>10. graph = Back(Midway(from, to, did), from, DoneBy(back, 0))
  BY <1>2, <1>4, <1>7, BackStarts
<1> QED
  BY <1>1, <1>2, <1>8, <1>9, <1>10 DEF Reversing

LEMMA GoesOnReversing ==
  ASSUME NEW from, NEW to, IsProper(from), IsProper(to), NEW graph, NEW rest,
         IsProper(graph), rest \in Seq(Steps(to, from)), rest # <<>>,
         Reversing(from, to, graph, rest), CanReverse(graph, Head(rest))
  PROVE  Reversing(from, to, Reversed(graph, Head(rest)), Tail(rest))
<1>1. PICK ops : ops = Operations(to, from)
  OBVIOUS
<1>2. /\ Head(rest) = rest[1] /\ Len(rest) \in Nat /\ Len(rest) > 0
      /\ Len(Tail(rest)) = Len(rest) - 1
      /\ \A i \in 1..Len(Tail(rest)) : Tail(rest)[i] = rest[i + 1]
  BY EmptySeq, HeadTailProperties, LenProperties
<1>3. /\ Len(ops) \in Nat
      /\ \A k \in 1..Len(ops) :
           /\ IsNext(to, from, DoneBy(ops, k - 1), ops[k])
           /\ DoneBy(ops, k) = DoneBy(ops, k - 1) \cup {ops[k]}
  BY <1>1, PlansRun
<1>4. PICK did \in SUBSET Steps(from, to), n \in Nat :
        Rest(rest, ops, n) /\ graph = Back(Midway(from, to, did), from, DoneBy(ops, n))
  BY <1>1 DEF Reversing
<1>5. n + 1 \in 1..Len(ops) /\ Head(rest) = ops[n + 1] /\ (n + 1) - 1 = n
  BY <1>2, <1>3, <1>4 DEF Rest
<1>6. PICK o, done, mid : o = Head(rest) /\ done = DoneBy(ops, n) /\ mid = Midway(from, to, did)
  OBVIOUS
<1>7. IsNext(to, from, done, o) /\ DoneBy(ops, n + 1) = done \cup {o}
  BY <1>3, <1>5, <1>6
<1>8. graph = Back(mid, from, done)
  BY <1>4, <1>6
<1>9. Undoes(mid, from, done, o)
  <2>1. IsProper(Back(mid, from, done)) /\ CanReverse(Back(mid, from, done), o)
    BY <1>6, <1>8
  <2> QED
    BY <1>7, <2>1, NextReverses
<1>10. Reversed(graph, o) = Back(mid, from, DoneBy(ops, n + 1))
  BY <1>7, <1>8, <1>9 DEF Undoes
<1>11. Rest(Tail(rest), ops, n + 1)
  BY <1>2, <1>3, <1>4, <1>5 DEF Rest
<1>12. n + 1 \in Nat
  OBVIOUS
<1> QED
  BY <1>1, <1>6, <1>10, <1>11, <1>12 DEF Reversing

LEMMA EndsReversing ==
  ASSUME NEW from, NEW to, IsProper(from), IsProper(to), NEW graph,
         Reversing(from, to, graph, <<>>), Replaced(from, to) \subseteq Replaced(to, from)
  PROVE  graph = from
<1>1. PICK ops : ops = Operations(to, from)
  OBVIOUS
<1>2. PICK did \in SUBSET Steps(from, to), n \in Nat :
        Rest(<<>>, ops, n) /\ graph = Back(Midway(from, to, did), from, DoneBy(ops, n))
  BY <1>1 DEF Reversing
<1>3. Len(ops) \in Nat /\ DoneBy(ops, Len(ops)) = Steps(to, from)
  BY <1>1, PlansRun
<1>4. n = Len(ops)
  BY <1>2, <1>3 DEF Rest
<1> QED
  BY <1>2, <1>3, <1>4, BackEnds

\* What a plan spares is not freed with a box around it either.
LEMMA SparedIsNotInside ==
  ASSUME NEW from, NEW to, IsProper(from), IsProper(to), NEW boxes, Spares(from, to, boxes),
         NEW o \in Steps(from, to), o.op = "delete"
  PROVE  boxes \cap ({o.box} \cup Inside(o.box)) = {}
<1>1. PICK b \in Box : o = FreeOf(b)
  BY StepKinds, Kinds
<1>2. o.box = b /\ ~Stays(from, to, b)
  BY <1>1, Kinds, StepsAre
<1>3. \A c \in Inside(b) : ~Stays(from, to, c)
  BY <1>2, GoingTakesInside
<1>4. \A c \in BoxesOf(from) : ~Stays(from, to, c) => FreeOf(c) \in Steps(from, to)
  BY StepsAre
<1> QED
  BY <1>2, <1>3, <1>4 DEF Spares

LEMMA InitSatisfies == NeedsNone \/ NeedsReconciliation => PlanInv
<1>1. \A graph \in Graph : IsProper(graph)
  BY GraphsAreProper
<1>2. ASSUME NeedsNone
      PROVE  PlanInv
  <2>1. IsProper(patch) /\ IsProper(desired) /\ SidesAreProper
    BY <1>1, <1>2 DEF NeedsNone, Init, SidesAreProper
  <2>2. KeptIn(desired)
    BY <1>2, WantedKeepsEdits DEF NeedsNone
  <2>3. Spares(current, desired, unmanaged)
    BY <1>2 DEF NeedsNone, Spares
  <2> QED
    BY <1>2, <2>1, <2>2, <2>3 DEF NeedsNone, Init, PlanInv
<1>3. ASSUME NeedsReconciliation
      PROVE  PlanInv
  <2>1. SidesAreProper /\ IsProper(desired) /\ IsProper(patch)
    BY <1>1, <1>3, ReconciliationAssumption DEF NeedsReconciliation, SidesAreProper
  <2>2. unmanaged \subseteq BoxesOf(current)
    BY <1>3 DEF NeedsReconciliation
  <2> QED
    BY <1>3, <2>1, <2>2, PlanAssumption DEF NeedsReconciliation, PlanInv
<1> QED
  BY <1>2, <1>3

LEMMA StepSatisfies == PlanInv /\ [ReconcilingNext]_allVars => PlanInv'
<1> SUFFICES ASSUME PlanInv, [ReconcilingNext]_allVars
             PROVE  PlanInv'
  OBVIOUS
<1>1. /\ SidesAreProper /\ IsProper(desired) /\ IsProper(current) /\ IsProper(patch)
      /\ faults \in Nat
  BY DEF PlanInv, SidesAreProper
<1>2. CASE UNCHANGED allVars
  BY <1>2 DEF PlanInv, SidesAreProper, KeptIn, InAll, Sides, ChangesUnsafe, allVars, inputs, vars
<1>3. ASSUME Reconciles, stage' = "conflict"
      PROVE  PlanInv'
  <2>1. UNCHANGED <<current, desired, patch, clinging, faults, intent, wanted>>
    BY <1>3 DEF Reconciles, inputs
  <2> QED
    BY <1>1, <1>3, <2>1 DEF PlanInv, SidesAreProper
<1>4. ASSUME Reconciles, stage' # "conflict"
      PROVE  PlanInv'
  <2>1. NoMergeConflict /\ AtRisk(current, MergedGraph) \cap unmanaged = {}
    BY <1>4 DEF Reconciles, NoMergeConflict
  <2>2. PICK merged : merged = MergedGraph
    OBVIOUS
  <2>3. IsProper(merged) /\ KeptIn(merged)
    BY <1>1, <2>1, <2>2, MergedIsProper, MergedKeepsEdits
  <2>4. /\ stage = "reconciling" /\ stage' = "validating"
        /\ desired' = merged /\ pending' = Operations(current, merged)
        /\ current' = current /\ patch' = patch /\ faults' = faults /\ clinging' = clinging
        /\ intent' = intent /\ wanted' = wanted /\ unmanaged' = unmanaged
    BY <1>4, <2>2 DEF Reconciles, inputs
  <2>5. patch = current /\ unmanaged \subseteq BoxesOf(current) /\ clinging = {}
    BY <2>4 DEF PlanInv
  <2>6. Spares(current, merged, unmanaged)
    <3>1. ASSUME NEW b \in unmanaged
          PROVE  FreeOf(b) \notin Steps(current, merged)
      <4>1. SUFFICES ASSUME FreeOf(b) \in Steps(current, merged)
                     PROVE  FALSE
        OBVIOUS
      <4>2. b \in BoxesOf(current) /\ ~Stays(current, merged, b)
        BY <4>1, StepsAre
      <4>3. FreeOf(b) \in Deletes(current, merged)
        BY <4>2 DEF Deletes, FreeOf, Stays
      <4>4. b \in AtRisk(current, merged)
        BY <4>3, Kinds DEF AtRisk
      <4> QED
        BY <2>1, <2>2, <3>1, <4>4
    <3> QED
      BY <2>5, <3>1 DEF Spares
  <2>7. KeptIn(desired)'
    BY <2>3, <2>4 DEF KeptIn, InAll, Sides
  <2>8. Spares(current, desired, unmanaged)' /\ IsProper(desired)'
    BY <2>3, <2>4, <2>6
  <2>9. SidesAreProper'
    BY <1>1, <2>4 DEF SidesAreProper
  <2> QED
    BY <1>1, <2>4, <2>5, <2>7, <2>8, <2>9 DEF PlanInv
<1>5. ASSUME RunsPlan
      PROVE  PlanInv'
  <2>1. /\ UNCHANGED <<current, desired, intent, wanted>> /\ unmanaged' \subseteq unmanaged
    BY <1>5 DEF RunsPlan, inputs, Next, Validates, Applies, Fails, Completes, Reverses, GivesUp
  <2>2. SidesAreProper' /\ IsProper(desired)'
    BY <1>1, <2>1 DEF SidesAreProper
  <2>3. Spares(current, desired, unmanaged) => Spares(current, desired, unmanaged)'
    BY <2>1 DEF Spares
  <2>4. CASE Validates
    <3>1. /\ stage = "validating" /\ patch = current /\ pending = Operations(current, desired)
          /\ clinging = {} /\ UNCHANGED <<patch, pending, clinging, faults>>
      BY <2>4 DEF Validates, PlanInv
    <3>2. ASSUME stage' = "refused"
          PROVE  PlanInv'
      <4>1. ~IsAccepted(patch, pending, Operations(desired, current))
        BY <2>4, <3>2 DEF Validates
      <4>2. \/ SetsUnsafe(Operations(current, desired))
            \/ SetsUnsafe(Operations(desired, current))
        BY <1>1, <3>1, <4>1, PlansAreAccepted
      <4>3. ChangesUnsafe
        BY <1>1, <4>2, SetsAreChanges DEF ChangesUnsafe
      <4>4. ChangesUnsafe' /\ (patch = current)'
        BY <2>1, <3>1, <4>3 DEF ChangesUnsafe
      <4> QED
        BY <1>1, <2>2, <3>1, <3>2, <4>4 DEF PlanInv
    <3>3. ASSUME stage' = "applying"
          PROVE  PlanInv'
      <4>1. Underway(current, desired, patch, pending)'
        BY <1>1, <2>1, <3>1, BeginsUnderway
      <4>2. Spares(current, desired, unmanaged)'
        BY <2>3, <3>1 DEF PlanInv
      <4> QED
        BY <1>1, <2>2, <3>1, <3>3, <4>1, <4>2 DEF PlanInv
    <3> QED
      BY <2>4, <3>2, <3>3 DEF Validates
  <2>5. CASE Applies
    <3>1. /\ stage = "applying" /\ pending # <<>> /\ UNCHANGED <<stage, clinging, faults>>
          /\ patch' = Effect(patch, Head(pending)) /\ pending' = Tail(pending)
      BY <2>5 DEF Applies
    <3>2. Underway(current, desired, patch, pending)
      BY <3>1 DEF PlanInv
    <3>3. Underway(current, desired, Effect(patch, Head(pending)), Tail(pending))
      BY <1>1, <3>1, <3>2, NextIsThere
    <3>4. Underway(current, desired, patch, pending)'
      BY <2>1, <3>1, <3>3
    <3>5. IsProper(patch')
      BY <1>1, <3>1, <3>2, NextIsThere, EffectIsProper
    <3>6. Spares(current, desired, unmanaged)'
      BY <2>3, <3>1 DEF PlanInv
    <3> QED
      BY <1>1, <2>2, <3>1, <3>4, <3>5, <3>6 DEF PlanInv
  <2>6. CASE Fails
    <3>1. stage = "applying" /\ pending # <<>> /\ stage' = "reversing"
      BY <2>6 DEF Fails
    <3>2. Underway(current, desired, patch, pending)
      BY <3>1 DEF PlanInv
    <3>3. CanApply(patch, Head(pending))
      BY <1>1, <3>1, <3>2, NextIsThere
    <3>4. /\ faults' = faults + 1 /\ UNCHANGED <<patch, stuck, clinging>>
          /\ pending' = Operations(desired, current)
      BY <2>6, <3>3 DEF Fails
    <3>5. /\ Reversing(current, desired, patch, Operations(desired, current))
          /\ Operations(desired, current) \in Seq(Steps(desired, current))
      BY <1>1, <3>2, BeginsReversing, PlansRun
    <3>6. But(patch, clinging) = patch
      BY <1>1, <3>1, ButIsProper DEF PlanInv
    <3>7. /\ Reversing(current, desired, But(patch, clinging), pending)'
          /\ (pending \in Seq(Steps(desired, current)))'
      BY <2>1, <3>4, <3>5, <3>6
    <3> QED
      BY <1>1, <2>2, <3>1, <3>4, <3>7 DEF PlanInv
  <2>7. CASE Completes
    <3>1. /\ stage = "applying" /\ pending = <<>> /\ stage' = "applied"
          /\ UNCHANGED <<patch, faults>>
      BY <2>7 DEF Completes
    <3>2. Underway(current, desired, patch, <<>>)
      BY <3>1 DEF PlanInv
    <3>3. patch = desired
      BY <1>1, <3>2, EndsUnderway
    <3> QED
      BY <1>1, <2>1, <2>2, <3>1, <3>3 DEF PlanInv
  <2>8. CASE Reverses
    <3>1. /\ stage = "reversing" /\ stage' = stage /\ faults' \in {faults, faults + 1}
          /\ pending # <<>> /\ pending' = Tail(pending)
      BY <2>8 DEF Reverses
    <3>2. /\ faults > 0 /\ pending \in Seq(Steps(desired, current))
          /\ ~stuck => Reversing(current, desired, But(patch, clinging), pending)
      BY <3>1 DEF PlanInv
    <3>3. PICK o : o = Head(pending)
      OBVIOUS
    <3>4. /\ Tail(pending) \in Seq(Steps(desired, current))
          /\ o \in Steps(desired, current)
      BY <3>1, <3>2, <3>3, HeadTailProperties
    <3>5. ASSUME ~stuck, CanReverse(patch, o)
          PROVE  Reversing(current, desired, Reversed(But(patch, clinging), o), Tail(pending))
      <4>1. PICK graph : graph = But(patch, clinging)
        OBVIOUS
      <4>2. IsProper(graph) /\ CanReverse(graph, o)
        BY <1>1, <3>4, <3>5, <4>1, ButIsProper, ButReverses
      <4>3. Reversing(current, desired, graph, pending)
        BY <3>2, <3>5, <4>1
      <4> QED
        BY <1>1, <3>1, <3>2, <3>3, <4>1, <4>2, <4>3, GoesOnReversing
    <3>6. \/ /\ patch' = Reversed(patch, o)
             /\ ~stuck' => ~stuck /\ CanReverse(patch, o)
             /\ clinging' = IF o.op = "connect" THEN clinging \ {o.cord} ELSE clinging
          \/ /\ stuck'
             /\ patch' = patch \/ (o.op = "create" /\ patch' = Without(patch, o.box))
          \/ /\ o.op = "disconnect" /\ o.cord \in patch.cords
             /\ clinging' = clinging \cup {o.cord} /\ patch' = patch /\ (~stuck' => ~stuck)
      BY <2>8, <3>3 DEF Reverses
    <3>7. o.op = "create" => o.box \in Box
      BY <1>1, <3>4, StepKinds, Kinds
    <3>8. IsProper(patch')
      <4>1. IsProper(Reversed(patch, o))
        BY <1>1, <3>4, ReversedIsProper
      <4>2. o.op = "create" => IsProper(Without(patch, o.box))
        BY <1>1, <3>7, WithoutIsProper
      <4>3. patch' \in {patch, Reversed(patch, o)} \/ (o.op = "create" /\ patch' = Without(patch, o.box))
        BY <3>6
      <4> QED
        BY <1>1, <4>1, <4>2, <4>3
    <3>9. ASSUME ~stuck'
          PROVE  Reversing(current, desired, But(patch', clinging'), Tail(pending))
      <4>1. ~stuck /\ CanReverse(patch, o)
        BY <3>6, <3>9 DEF CanReverse
      <4>2. \/ /\ patch' = Reversed(patch, o)
               /\ clinging' = IF o.op = "connect" THEN clinging \ {o.cord} ELSE clinging
            \/ /\ o.op = "disconnect" /\ o.cord \in patch.cords
               /\ clinging' = clinging \cup {o.cord} /\ patch' = patch
        BY <3>6, <3>9
      <4>3. But(patch', clinging') = Reversed(But(patch, clinging), o)
        BY <1>1, <3>4, <4>1, <4>2, ButReverses
      <4> QED
        BY <3>5, <4>1, <4>3
    <3>10. /\ ~stuck' => Reversing(current, desired, But(patch, clinging), pending)'
           /\ (pending \in Seq(Steps(desired, current)))'
      BY <2>1, <3>1, <3>4, <3>9
    <3> QED
      BY <1>1, <2>2, <3>1, <3>2, <3>8, <3>10 DEF PlanInv
  <2>9. CASE GivesUp
    <3>1. /\ stage = "reversing" /\ pending = <<>> /\ UNCHANGED <<faults, patch, clinging>>
          /\ stage' = IF stuck THEN "broken" ELSE "restored"
      BY <2>9 DEF GivesUp
    <3>2. CASE stuck
      BY <1>1, <2>2, <3>1, <3>2 DEF PlanInv
    <3>3. CASE ~stuck
      <4>1. Reversing(current, desired, But(patch, clinging), <<>>)
        BY <3>1, <3>3 DEF PlanInv
      <4>2. Replaced(current, desired) \subseteq Replaced(desired, current) =>
              But(patch, clinging) = current
        BY <1>1, <4>1, EndsReversing
      <4>3. (Replaced(current, desired) \subseteq Replaced(desired, current) =>
               But(patch, clinging) = current)'
        BY <2>1, <3>1, <4>2
      <4> QED
        BY <1>1, <2>2, <3>1, <3>3, <4>3 DEF PlanInv
    <3> QED
      BY <3>2, <3>3
  <2> QED
    BY <1>5, <2>4, <2>5, <2>6, <2>7, <2>8, <2>9 DEF RunsPlan, Next
<1> QED
  BY <1>2, <1>3, <1>4, <1>5 DEF ReconcilingNext

LEMMA PlanInvHolds == ReconcilingSpec => []PlanInv
BY InitSatisfies, StepSatisfies, PTL DEF ReconcilingSpec

-----------------------------------------------------------------------------
(* Types.                                                                    *)

\* What PlanInv does not say of the state.
PlanTypes ==
  /\ {acknowledged, intent, wanted} \subseteq Graph
  /\ unmanaged \subseteq BoxesOf(patch) /\ unclear \subseteq Box
  /\ stuck \in BOOLEAN /\ clinging \subseteq Cord
  /\ faults \in 0..MaxFaults
  /\ stage \notin {"reconciling", "conflict"} =>
       pending \in Seq(Steps(current, desired) \cup Steps(desired, current))

\* An operation takes no boxes but those it frees.
LEMMA EffectKeepsBoxes ==
  ASSUME NEW from, NEW to, IsProper(from), IsProper(to), NEW o \in Steps(from, to),
         NEW graph, IsProper(graph)
  PROVE  BoxesOf(graph) \ (IF o.op = "delete" THEN {o.box} \cup Inside(o.box) ELSE {})
           \subseteq BoxesOf(Effect(graph, o))
<1>1. PICK g : g = Effect(graph, o)
  OBVIOUS
<1>2. CASE o.op = "delete"
  BY <1>2 DEF Effect, Without, BoxesOf
<1>3. CASE o.op \in {"disconnect", "connect"}
  BY <1>3 DEF Effect, Corded, BoxesOf
<1>4. CASE o.op = "create"
  <2>1. PICK b \in Box : o = MakeOf(to, b)
    BY <1>4, StepKinds, Kinds
  <2>2. o.box = b /\ o.content = to.boxes[b] /\ to.boxes[b] # Absent
    BY <2>1, Kinds, StepsAre DEF BoxesOf
  <2>3. Effect(graph, o).boxes = [graph.boxes EXCEPT ![b] = to.boxes[b]]
    BY <1>4, <2>2 DEF Effect, With
  <2> QED
    BY <1>4, <2>2, <2>3 DEF BoxesOf, IsProper
<1>5. CASE o.op = "set"
  <2>1. PICK b \in Box, a \in Attribute : o = SetOf(to, b, a)
    BY <1>5, StepKinds, Kinds
  <2>2. o.box = b
    BY <2>1, Kinds
  <2>3. ASSUME b \in BoxesOf(graph)
        PROVE  [class |-> graph.boxes[b].class,
                attributes |-> [graph.boxes[b].attributes EXCEPT ![o.attribute] = o.value]] # Absent
    <3>1. o.attribute = a /\ o.value \in Settable
      BY <2>1, Kinds, StepsAre DEF IsSet
    <3>2. graph.boxes[b] \in Content
      BY <2>3 DEF BoxesOf, IsProper
    <3>3. PICK content : content = [class |-> graph.boxes[b].class,
            attributes |-> [graph.boxes[b].attributes EXCEPT ![o.attribute] = o.value]]
      OBVIOUS
    <3>4. content \in Content
      BY <3>1, <3>2, <3>3 DEF Content
    <3> QED
      BY <3>3, <3>4, PlanAssumption
  <2>4. PICK content : content = [class |-> graph.boxes[b].class,
          attributes |-> [graph.boxes[b].attributes EXCEPT ![o.attribute] = o.value]]
    OBVIOUS
  <2>5. Effect(graph, o).boxes = [graph.boxes EXCEPT ![b] = content]
    BY <1>5, <2>2, <2>4 DEF Effect, With
  <2>6. \A c \in Box : Effect(graph, o).boxes[c] = IF c = b THEN content ELSE graph.boxes[c]
    BY <2>5 DEF IsProper
  <2> QED
    BY <1>5, <2>3, <2>4, <2>6 DEF BoxesOf
<1> QED
  BY <1>2, <1>3, <1>4, <1>5, StepKinds, Kinds

LEMMA ReversedKeepsBoxes ==
  ASSUME NEW from, NEW to, IsProper(from), IsProper(to), NEW o \in Steps(from, to),
         NEW graph, IsProper(graph)
  PROVE  BoxesOf(graph) \
           (IF o.op \in {"delete", "create"} THEN {o.box} \cup Inside(o.box) ELSE {})
             \subseteq BoxesOf(Reversed(graph, o))
<1>1. CASE ~CanApply(graph, o)
  BY <1>1 DEF Reversed
<1>2. CASE CanApply(graph, o) /\ o.op # "create"
  BY <1>2, EffectKeepsBoxes DEF Reversed
<1>3. CASE CanApply(graph, o) /\ o.op = "create"
  <2>1. PICK less : less = Without(graph, o.box)
    OBVIOUS
  <2>2. Reversed(graph, o).boxes = [less.boxes EXCEPT ![o.box] = o.content]
    BY <1>3, <2>1 DEF Reversed, With
  <2>3. less.boxes = [c \in Box |-> IF c \in {o.box} \cup Inside(o.box) THEN Absent ELSE graph.boxes[c]]
    BY <2>1 DEF Without
  <2> QED
    BY <1>3, <2>2, <2>3 DEF BoxesOf
<1> QED
  BY <1>1, <1>2, <1>3

LEMMA InitHasTypes == NeedsNone \/ NeedsReconciliation => PlanTypes
<1>1. 0 \in 0..MaxFaults /\ MaxFaults \in 0..MaxFaults
  BY PlanAssumption
<1>2. ASSUME NeedsNone
      PROVE  PlanTypes
  <2>1. current \in Graph /\ desired \in Graph /\ pending = Operations(current, desired)
    BY <1>2 DEF NeedsNone, Init
  <2>2. pending \in Seq(Steps(current, desired))
    BY <2>1, GraphsAreProper, PlansRun
  <2>3. PICK S, T : S = Steps(current, desired) /\ T = S \cup Steps(desired, current)
    OBVIOUS
  <2>4. pending \in Seq(T)
    BY <2>2, <2>3, SeqMonotonic
  <2>5. pending \in Seq(Steps(current, desired) \cup Steps(desired, current))
    BY <2>3, <2>4
  <2>6. acknowledged \in Graph /\ intent \in Graph /\ wanted \in Graph
    BY <1>2, <2>1 DEF NeedsNone
  <2>7. stuck = FALSE /\ clinging = {} /\ faults = 0 /\ unmanaged = {} /\ unclear = {}
    BY <1>2 DEF NeedsNone, Init
  <2> QED
    BY <1>1, <2>5, <2>6, <2>7 DEF PlanTypes
<1>3. ASSUME NeedsReconciliation
      PROVE  PlanTypes
  BY <1>1, <1>3, ReconciliationAssumption DEF NeedsReconciliation, PlanTypes, BoxesOf
<1> QED
  BY <1>2, <1>3

LEMMA StepHasTypes ==
  PlanInv /\ PlanTypes /\ [ReconcilingNext]_allVars => PlanTypes'
<1> SUFFICES ASSUME PlanInv, PlanTypes, [ReconcilingNext]_allVars
             PROVE  PlanTypes'
  OBVIOUS
<1>1. IsProper(current) /\ IsProper(desired) /\ IsProper(patch)
  BY DEF PlanInv, SidesAreProper
<1>2. CASE UNCHANGED allVars
  BY <1>2 DEF PlanTypes, allVars, inputs, vars
<1>3. ASSUME Reconciles
      PROVE  PlanTypes'
  <2>1. UNCHANGED <<patch, stuck, clinging, faults, acknowledged, intent, wanted, unclear, unmanaged>>
    BY <1>3 DEF Reconciles, inputs
  <2>2. CASE stage' = "conflict"
    BY <2>1, <2>2 DEF PlanTypes
  <2>3. CASE stage' # "conflict"
    <3>1. PICK merged : merged = MergedGraph
      OBVIOUS
    <3>2. /\ NoMergeConflict /\ desired' = merged /\ current' = current
          /\ pending' = Operations(current, merged)
      BY <1>3, <2>3, <3>1 DEF Reconciles, NoMergeConflict
    <3>3. IsProper(merged)
      BY <3>1, <3>2, MergedIsProper DEF PlanInv
    <3>4. pending' \in Seq(Steps(current, merged) \cup Steps(merged, current))
      BY <1>1, <3>2, <3>3, PlansRun, SeqMonotonic
    <3>5. pending' \in Seq(Steps(current, desired)' \cup Steps(desired, current)')
      BY <3>2, <3>4
    <3> QED
      BY <2>1, <3>5 DEF PlanTypes
  <2> QED
    BY <2>2, <2>3
<1>4. ASSUME RunsPlan
      PROVE  PlanTypes'
  <2>1. /\ UNCHANGED <<current, desired, acknowledged, intent, wanted, unclear>>
        /\ unmanaged' = unmanaged \ Freed
        /\ stage \notin {"reconciling", "conflict"}
    BY <1>4 DEF RunsPlan, inputs, Next, Validates, Applies, Fails, Completes, Reverses, GivesUp
  <2>2. PICK T : T = Steps(current, desired) \cup Steps(desired, current)
    OBVIOUS
  <2>3. pending \in Seq(T) /\ (pending # <<>> => Tail(pending) \in Seq(T) /\ Head(pending) \in T)
    BY <2>1, <2>2, HeadTailProperties DEF PlanTypes
  <2>4. Operations(desired, current) \in Seq(T)
    BY <1>1, <2>2, PlansRun, SeqMonotonic
  <2>5. pending' \in Seq(T)
    BY <1>4, <2>3, <2>4
      DEF RunsPlan, Next, Validates, Applies, Fails, Completes, Reverses, GivesUp
  <2>6. pending' \in Seq((Steps(current, desired) \cup Steps(desired, current))')
    BY <2>1, <2>2, <2>5
  <2>7. stuck' \in BOOLEAN /\ clinging' \subseteq Cord
    <3>1. stuck' \in BOOLEAN
      BY <1>4 DEF PlanTypes, RunsPlan, Next, Validates, Applies, Fails, Completes, Reverses, GivesUp
    <3>2. \/ clinging' \subseteq clinging
          \/ \E cord \in patch.cords : clinging' = clinging \cup {cord}
      BY <1>4 DEF RunsPlan, Next, Validates, Applies, Fails, Completes, Reverses, GivesUp
    <3>3. patch.cords \subseteq Cord /\ clinging \subseteq Cord
      BY <1>1 DEF IsProper, PlanTypes
    <3> QED
      BY <3>1, <3>2, <3>3
  <2>8. faults' \in 0..MaxFaults
    <3>1. faults \in 0..MaxFaults /\ MaxFaults \in Nat
      BY PlanAssumption DEF PlanTypes
    <3>2. faults' = faults \/ (faults < MaxFaults /\ faults' = faults + 1) \/ Fails
      BY <1>4 DEF RunsPlan, Next, Validates, Applies, Completes, Reverses, GivesUp
    <3>3. Fails => faults' = faults \/ (faults < MaxFaults /\ faults' = faults + 1)
      BY <3>1 DEF Fails
    <3> QED
      BY <3>1, <3>2, <3>3
  <2>9. unmanaged' \subseteq BoxesOf(patch')
    <3>1. unmanaged \subseteq BoxesOf(patch)
      BY DEF PlanTypes
    <3>2. CASE patch' = patch
      BY <2>1, <3>1, <3>2
    <3>3. CASE Applies
      <4>1. /\ stage = "applying" /\ pending # <<>> /\ pending' = Tail(pending)
            /\ patch' = Effect(patch, Head(pending))
        BY <3>3 DEF Applies
      <4>2. PICK o : o = Head(pending)
        OBVIOUS
      <4>3. o \in Steps(current, desired) /\ CanApply(patch, o)
        BY <1>1, <4>1, <4>2, NextIsThere DEF PlanInv
      <4>4. BoxesOf(patch) \ (IF o.op = "delete" THEN {o.box} \cup Inside(o.box) ELSE {})
              \subseteq BoxesOf(Effect(patch, o))
        BY <1>1, <4>3, EffectKeepsBoxes
      <4>5. o.op = "delete" => Freed = {o.box} \cup Inside(o.box)
        BY <4>1, <4>2 DEF Freed
      <4> QED
        BY <2>1, <3>1, <4>1, <4>2, <4>4, <4>5
    <3>4. CASE Reverses
      <4>1. stage = "reversing" /\ pending # <<>> /\ pending' = Tail(pending)
        BY <3>4 DEF Reverses
      <4>2. PICK o : o = Head(pending)
        OBVIOUS
      <4>3. o \in Steps(desired, current)
        BY <4>1, <4>2, HeadTailProperties DEF PlanInv
      <4>4. \/ patch' = Reversed(patch, o)
            \/ patch' = patch \/ (o.op = "create" /\ patch' = Without(patch, o.box))
        BY <3>4, <4>2 DEF Reverses
      <4>5. o.op \in {"delete", "create"} => Freed = {o.box} \cup Inside(o.box)
        BY <4>1, <4>2 DEF Freed
      <4>6. BoxesOf(patch) \ (IF o.op \in {"delete", "create"} THEN {o.box} \cup Inside(o.box) ELSE {})
              \subseteq BoxesOf(Reversed(patch, o))
        BY <1>1, <4>3, ReversedKeepsBoxes
      <4>7. o.op = "create" =>
              BoxesOf(patch) \ ({o.box} \cup Inside(o.box)) \subseteq BoxesOf(Without(patch, o.box))
        BY DEF BoxesOf, Without
      <4> QED
        BY <2>1, <3>1, <4>4, <4>5, <4>6, <4>7
    <3> QED
      BY <1>4, <3>2, <3>3, <3>4 DEF RunsPlan, Next, Validates, Fails, Completes, GivesUp
  <2> QED
    BY <2>1, <2>6, <2>7, <2>8, <2>9 DEF PlanTypes
<1> QED
  BY <1>2, <1>3, <1>4 DEF ReconcilingNext

\* Every variable keeps its type; in particular the patch is a graph between any
\* two operations, of a plan or of its reverse, also when some of them fail.
THEOREM PlanTypesHold == ReconcilingSpec => []ReconcilingTypeOK
<1>1. ReconcilingSpec => [](PlanInv /\ PlanTypes)
  BY InitSatisfies, StepSatisfies, InitHasTypes, StepHasTypes, PTL DEF ReconcilingSpec
<1>2. PlanInv /\ PlanTypes => ReconcilingTypeOK
  <2> SUFFICES ASSUME PlanInv, PlanTypes
               PROVE  ReconcilingTypeOK
    OBVIOUS
  <2>1. {acknowledged, intent, wanted} \subseteq Graph
        /\ unmanaged \subseteq BoxesOf(patch) /\ unclear \subseteq Box
    BY DEF PlanTypes
  <2>2. ASSUME stage \notin {"reconciling", "conflict"}
        PROVE  TypeOK
    <3>1. \A graph \in {current, desired, patch} : IsProper(graph)
      BY DEF PlanInv, SidesAreProper
    <3>2. \A graph \in {current, desired, patch} :
            IsGraph(graph) /\ \A b \in Box : graph.boxes[b] \in Content \cup {Absent}
      BY <3>1 DEF IsProper
    <3>3. PICK T : T = Steps(current, desired) \cup Steps(desired, current)
      OBVIOUS
    <3>4. \A o \in T : o.op \in {"disconnect", "delete", "create", "set", "connect"}
      <4>1. IsProper(current) /\ IsProper(desired)
        BY <3>1
      <4> QED
        BY <3>3, <4>1, StepKinds, Kinds
    <3>5. pending \in Seq(T)
      BY <2>2, <3>3 DEF PlanTypes
    <3>6. \A i \in DOMAIN pending : pending[i] \in T
      BY <3>5, ElementOfSeq, LenProperties
    <3>7. \A i \in DOMAIN pending :
            pending[i].op \in {"disconnect", "delete", "create", "set", "connect"}
      BY <3>4, <3>6
    <3> QED
      BY <2>2, <3>2, <3>7 DEF TypeOK, PlanInv, PlanTypes
  <2> QED
    BY <2>1, <2>2 DEF ReconcilingTypeOK
<1> QED
  BY <1>1, <1>2, PTL

-----------------------------------------------------------------------------
(* Theorems.                                                                 *)

\* Whatever the two graphs, the native object accepts the plan diffPatchGraphs
\* derives from them, unless they differ in an unsafe attribute of a box that
\* stays, and then the patch is as it was; no operation of it lacks a patcher or
\* a box because of those before it, and one that ran to its end left the desired
\* graph, also when that is a merge.
THEOREM PlansAlwaysArrive == ReconcilingSpec => []PlansArrive
<1>1. PlanInv => PlansArrive
  BY DEF PlanInv, PlansArrive
<1> QED
  BY <1>1, PlanInvHolds, PTL

\* Whatever the three graphs, a merge that mergePatchGraphs reports no conflict
\* for keeps every edit of either side, and undoes none.
THEOREM MergesKeepEdits == ReconcilingSpec => []MergeKeepsEdits
<1>1. PlanInv => MergeKeepsEdits
  BY DEF PlanInv, MergeKeepsEdits, KeptIn
<1> QED
  BY <1>1, PlanInvHolds, PTL

\* No operation of a plan frees a managed box with a cord to an unmanaged one,
\* nor a box around it: externalConnectionConflicts looked at each deletion, and
\* a plan that frees a box lists all that is in it.
THEOREM UnmanagedCordsAreKept == ReconcilingSpec => UnmanagedCordsSurvive
<1>1. PlanInv /\ [ReconcilingNext]_allVars =>
        [stage = "applying" => unmanaged' = unmanaged]_allVars
  <2> SUFFICES ASSUME PlanInv, ReconcilingNext, stage = "applying"
               PROVE  unmanaged' = unmanaged
    BY DEF allVars
  <2>1. /\ IsProper(current) /\ IsProper(desired)
        /\ Underway(current, desired, patch, pending) /\ Spares(current, desired, unmanaged)
    BY DEF PlanInv, SidesAreProper
  <2>2. unmanaged' = unmanaged \ Freed
    BY DEF ReconcilingNext, Reconciles, RunsPlan
  <2>3. CASE pending # <<>> /\ Head(pending).op = "delete"
    <3>1. Head(pending) \in Steps(current, desired)
      BY <2>1, <2>3, NextIsThere
    <3>2. unmanaged \cap ({Head(pending).box} \cup Inside(Head(pending).box)) = {}
      BY <2>1, <2>3, <3>1, SparedIsNotInside
    <3> QED
      BY <2>2, <3>2 DEF Freed
  <2>4. CASE ~(pending # <<>> /\ Head(pending).op = "delete")
    BY <2>2, <2>4 DEF Freed
  <2> QED
    BY <2>3, <2>4
<1> QED
  BY <1>1, PlanInvHolds, PTL DEF ReconcilingSpec, UnmanagedCordsSurvive

\* Wherever a plan fails, reverse operations that all succeeded lead back to the
\* graph it started from, if they replace every box that the plan replaces, and
\* but for the cords that Max refused to disconnect again.
THEOREM SymmetricRollbacksRestore == ReconcilingSpec => []SymmetricRollbackRestores
<1>1. PlanInv => SymmetricRollbackRestores
  BY DEF PlanInv, SymmetricRollbackRestores, RollbackRestores, But
<1> QED
  BY <1>1, PlanInvHolds, PTL
=============================================================================
