---------------------------- MODULE ReviewProofs ----------------------------
(***************************************************************************)
(* Proofs about the review of a person's edits: that the clusters of any   *)
(* set of changes are its connected components, in whichever order they    *)
(* come, and that the changes name what the merge finds different.         *)
(***************************************************************************)
EXTENDS PatchReview, PlanProofs

-----------------------------------------------------------------------------
(* Changes that share an identity.                                           *)

\* The keys of the map in buildEditClusters that a change has.
KeysOf(change) == {<<change.boxes[1].path, key>> : key \in IdentityKeys(change)}

Share(x, y) == KeysOf(x) \cap KeysOf(y) # {}

LEMMA KeysAre ==
  ASSUME NEW x, NEW k
  PROVE  k \in KeysOf(x) <=>
           \/ \E box \in InEvidence(x) : k = <<x.boxes[1].path, <<"runtime", box.runtime>>>>
           \/ \E box \in InEvidence(x) :
                box.id # Absent /\ k = <<x.boxes[1].path, <<"managed", box.id>>>>
BY DEF KeysOf, IdentityKeys, ManagedIds

LEMMA ApartSharesNothing ==
  ASSUME NEW x, NEW y
  PROVE  /\ Share(x, y) <=> ~Apart(x, y)
         /\ Share(x, y) <=> Share(y, x)
<1>1. ASSUME Share(x, y)
      PROVE  ~Apart(x, y)
  <2>1. PICK k : k \in KeysOf(x) /\ k \in KeysOf(y)
    BY <1>1 DEF Share
  <2>2. CASE \E box \in InEvidence(x) : k = <<x.boxes[1].path, <<"runtime", box.runtime>>>>
    <3>1. PICK box \in InEvidence(x) : k = <<x.boxes[1].path, <<"runtime", box.runtime>>>>
      BY <2>2
    <3>2. \/ \E other \in InEvidence(y) : k = <<y.boxes[1].path, <<"runtime", other.runtime>>>>
          \/ \E other \in InEvidence(y) : k = <<y.boxes[1].path, <<"managed", other.id>>>>
      BY <2>1, KeysAre
    <3>3. PICK other \in InEvidence(y) : k = <<y.boxes[1].path, <<"runtime", other.runtime>>>>
      BY <3>1, <3>2
    <3>4. x.boxes[1].path = y.boxes[1].path /\ box.runtime = other.runtime
      BY <3>1, <3>3
    <3> QED
      BY <3>4 DEF Apart
  <2>3. CASE \E box \in InEvidence(x) :
               box.id # Absent /\ k = <<x.boxes[1].path, <<"managed", box.id>>>>
    <3>1. PICK box \in InEvidence(x) :
                 box.id # Absent /\ k = <<x.boxes[1].path, <<"managed", box.id>>>>
      BY <2>3
    <3>2. \/ \E other \in InEvidence(y) : k = <<y.boxes[1].path, <<"runtime", other.runtime>>>>
          \/ \E other \in InEvidence(y) : k = <<y.boxes[1].path, <<"managed", other.id>>>>
      BY <2>1, KeysAre
    <3>3. PICK other \in InEvidence(y) : k = <<y.boxes[1].path, <<"managed", other.id>>>>
      BY <3>1, <3>2
    <3>4. x.boxes[1].path = y.boxes[1].path /\ box.id = other.id
      BY <3>1, <3>3
    <3> QED
      BY <3>1, <3>4 DEF Apart
  <2> QED
    BY <2>1, <2>2, <2>3, KeysAre
<1>2. ASSUME ~Apart(x, y)
      PROVE  Share(x, y)
  <2>1. PICK box \in InEvidence(x), other \in InEvidence(y) :
               /\ x.boxes[1].path = y.boxes[1].path
               /\ box.runtime = other.runtime \/ (box.id = other.id /\ box.id # Absent)
    BY <1>2 DEF Apart
  <2>2. CASE box.runtime = other.runtime
    <3>1. PICK k : k = <<x.boxes[1].path, <<"runtime", box.runtime>>>>
      OBVIOUS
    <3>2. k \in KeysOf(x) /\ k \in KeysOf(y)
      BY <2>1, <2>2, <3>1, KeysAre
    <3> QED
      BY <3>2 DEF Share
  <2>3. CASE box.id = other.id /\ box.id # Absent
    <3>1. PICK k : k = <<x.boxes[1].path, <<"managed", box.id>>>>
      OBVIOUS
    <3>2. k \in KeysOf(x) /\ k \in KeysOf(y)
      BY <2>1, <2>3, <3>1, KeysAre
    <3> QED
      BY <3>2 DEF Share
  <2> QED
    BY <2>1, <2>2, <2>3
<1> QED
  BY <1>1, <1>2 DEF Share

-----------------------------------------------------------------------------
(* What the loop of buildEditClusters keeps.                                 *)

\* No part of a cluster shares nothing with the rest of it.
IsConnected(cluster) ==
  \A part \in (SUBSET cluster) \ {{}, cluster} :
    \E x \in part, y \in cluster \ part : Share(x, y)

\* After the changes of a set, in any order: each of their keys has a first one,
\* which is in the cluster of all that have the key.
IsGrouping(changes, grouped) ==
  /\ \A first \in grouped.firsts : first.change \in changes /\ first.key \in KeysOf(first.change)
  /\ \A x \in changes : \A k \in KeysOf(x) : \E first \in grouped.firsts : first.key = k
  /\ UNION grouped.clusters = changes
  /\ \A left, right \in grouped.clusters : left # right => left \cap right = {}
  /\ \A x \in changes, first \in grouped.firsts :
       first.key \in KeysOf(x) =>
         \E cluster \in grouped.clusters : x \in cluster /\ first.change \in cluster
  /\ \A cluster \in grouped.clusters : IsConnected(cluster)

LEMMA JoiningIsConnected ==
  ASSUME NEW touched, NEW x, x \notin UNION touched,
         \A cluster \in touched : IsConnected(cluster) /\ \E y \in cluster : Share(x, y)
  PROVE  IsConnected((UNION touched) \cup {x})
<1> SUFFICES ASSUME NEW part \in SUBSET ((UNION touched) \cup {x}),
                    part # {}, part # (UNION touched) \cup {x}
             PROVE  \E y \in part, z \in ((UNION touched) \cup {x}) \ part : Share(y, z)
  BY DEF IsConnected
<1>1. ASSUME NEW cluster \in touched, cluster \cap part # {}, ~(cluster \subseteq part)
      PROVE  \E y \in part, z \in ((UNION touched) \cup {x}) \ part : Share(y, z)
  <2>1. PICK half : half = cluster \cap part
    OBVIOUS
  <2>2. half \in (SUBSET cluster) \ {{}, cluster}
    BY <1>1, <2>1
  <2>3. PICK y \in half, z \in cluster \ half : Share(y, z)
    BY <2>2 DEF IsConnected
  <2>4. y \in part /\ z \in UNION touched /\ z \notin part
    BY <2>1, <2>3
  <2> QED
    BY <2>3, <2>4
<1>2. CASE x \in part
  <2>1. PICK z \in UNION touched : z \notin part
    BY <1>2
  <2>2. PICK cluster \in touched : z \in cluster
    BY <2>1
  <2>3. CASE cluster \cap part = {}
    <3>1. PICK y \in cluster : Share(x, y)
      OBVIOUS
    <3> QED
      BY <1>2, <2>3, <3>1
  <2> QED
    BY <1>1, <2>1, <2>2, <2>3
<1>3. CASE x \notin part
  <2>1. PICK z \in part : z \in UNION touched
    BY <1>3
  <2>2. PICK cluster \in touched : z \in cluster
    BY <2>1
  <2>3. CASE cluster \subseteq part
    <3>1. PICK y \in cluster : Share(x, y)
      OBVIOUS
    <3>2. Share(y, x)
      BY <3>1, ApartSharesNothing
    <3> QED
      BY <1>3, <2>3, <3>1, <3>2
  <2> QED
    BY <1>1, <2>1, <2>2, <2>3
<1> QED
  BY <1>2, <1>3

LEMMA JoinedIsGrouping ==
  ASSUME NEW changes, NEW grouped, IsGrouping(changes, grouped), NEW x, x \notin changes
  PROVE  IsGrouping(changes \cup {x}, Joined(x, grouped))
<1>1. PICK shared : shared = {first \in grouped.firsts : first.key \in KeysOf(x)}
  OBVIOUS
<1>2. PICK joining : joining = {x} \cup {first.change : first \in shared}
  OBVIOUS
<1>3. PICK touched : touched = {cluster \in grouped.clusters : cluster \cap joining # {}}
  OBVIOUS
<1>4. PICK new : new = (UNION touched) \cup {x}
  OBVIOUS
<1>5. PICK added : added = {[key |-> key, change |-> x] :
                              key \in KeysOf(x) \ {first.key : first \in shared}}
  OBVIOUS
<1>6. PICK g : g = Joined(x, grouped)
  OBVIOUS
<1>7. g.firsts = grouped.firsts \cup added /\ g.clusters = (grouped.clusters \ touched) \cup {new}
  BY <1>1, <1>2, <1>3, <1>4, <1>5, <1>6 DEF Joined, KeysOf
<1>8. \A first \in added :
        /\ first.change = x /\ first.key \in KeysOf(x)
        /\ \A other \in grouped.firsts : other.key # first.key
  BY <1>1, <1>5
<1>9. /\ \A first \in grouped.firsts :
           first.change \in changes /\ first.key \in KeysOf(first.change)
      /\ \A y \in changes : \A k \in KeysOf(y) : \E first \in grouped.firsts : first.key = k
      /\ UNION grouped.clusters = changes
      /\ \A left, right \in grouped.clusters : left # right => left \cap right = {}
      /\ \A y \in changes, first \in grouped.firsts :
           first.key \in KeysOf(y) =>
             \E cluster \in grouped.clusters : y \in cluster /\ first.change \in cluster
      /\ \A cluster \in grouped.clusters : IsConnected(cluster)
  BY DEF IsGrouping
<1>10. \A cluster \in touched : \E first \in shared : first.change \in cluster
  BY <1>2, <1>3, <1>9
<1>11. \A first \in g.firsts : first.change \in changes \cup {x} /\ first.key \in KeysOf(first.change)
  BY <1>7, <1>8, <1>9
<1>12. \A y \in changes \cup {x} : \A k \in KeysOf(y) : \E first \in g.firsts : first.key = k
  <2> SUFFICES ASSUME NEW k \in KeysOf(x), \A first \in shared : first.key # k
               PROVE  \E first \in added : first.key = k
    BY <1>1, <1>7, <1>9
  <2>1. [key |-> k, change |-> x] \in added
    BY <1>5
  <2> QED
    BY <2>1
<1>13. UNION g.clusters = changes \cup {x}
  <2>1. UNION g.clusters = (UNION (grouped.clusters \ touched)) \cup new
    BY <1>7
  <2>2. UNION grouped.clusters = (UNION (grouped.clusters \ touched)) \cup (UNION touched)
    BY <1>3
  <2> QED
    BY <1>4, <1>9, <2>1, <2>2
<1>14. \A left, right \in g.clusters : left # right => left \cap right = {}
  <2>1. \A left \in grouped.clusters \ touched : left \cap new = {}
    <3> SUFFICES ASSUME NEW left \in grouped.clusters \ touched, NEW y \in left, y \in new
                 PROVE  FALSE
      OBVIOUS
    <3>1. y # x
      BY <1>9
    <3>2. PICK cluster \in touched : y \in cluster
      BY <1>4, <3>1
    <3>3. cluster \in grouped.clusters /\ cluster # left
      BY <1>3, <3>2
    <3> QED
      BY <1>9, <3>2, <3>3
  <2> QED
    BY <1>7, <1>9, <2>1
<1>15. \A y \in changes \cup {x}, first \in g.firsts :
         first.key \in KeysOf(y) =>
           \E cluster \in g.clusters : y \in cluster /\ first.change \in cluster
  <2>1. ASSUME NEW y \in changes, NEW first \in grouped.firsts, first.key \in KeysOf(y)
        PROVE  \E cluster \in g.clusters : y \in cluster /\ first.change \in cluster
    <3>1. PICK cluster \in grouped.clusters : y \in cluster /\ first.change \in cluster
      BY <1>9, <2>1
    <3>2. CASE cluster \in touched
      BY <1>4, <1>7, <3>1, <3>2
    <3>3. CASE cluster \notin touched
      BY <1>7, <3>1, <3>3
    <3> QED
      BY <3>2, <3>3
  <2>2. ASSUME NEW first \in grouped.firsts, first.key \in KeysOf(x)
        PROVE  \E cluster \in g.clusters : x \in cluster /\ first.change \in cluster
    <3>1. first \in shared /\ first.change \in joining /\ first.change \in changes
      BY <1>1, <1>2, <1>9, <2>2
    <3>2. PICK cluster \in grouped.clusters : first.change \in cluster
      BY <1>9, <3>1
    <3>3. cluster \in touched
      BY <1>3, <3>1, <3>2
    <3> QED
      BY <1>4, <1>7, <3>2, <3>3
  <2>3. ASSUME NEW y \in changes \cup {x}, NEW first \in added, first.key \in KeysOf(y)
        PROVE  y = x /\ first.change = x
    BY <1>8, <1>9, <2>3
  <2>4. x \in new /\ new \in g.clusters
    BY <1>4, <1>7
  <2> QED
    BY <1>7, <2>1, <2>2, <2>3, <2>4
<1>16. \A cluster \in g.clusters : IsConnected(cluster)
  <2>1. \A cluster \in touched : IsConnected(cluster) /\ \E y \in cluster : Share(x, y)
    <3> SUFFICES ASSUME NEW cluster \in touched
                 PROVE  IsConnected(cluster) /\ \E y \in cluster : Share(x, y)
      OBVIOUS
    <3>1. PICK first \in shared : first.change \in cluster
      BY <1>10
    <3>2. first.key \in KeysOf(x) /\ first.key \in KeysOf(first.change)
      BY <1>1, <1>9, <3>1
    <3> QED
      BY <1>3, <1>9, <3>1, <3>2 DEF Share
  <2>2. x \notin UNION touched
    BY <1>3, <1>9
  <2>3. IsConnected(new)
    BY <1>4, <2>1, <2>2, JoiningIsConnected
  <2> QED
    BY <1>7, <1>9, <2>3
<1> QED
  BY <1>6, <1>11, <1>12, <1>13, <1>14, <1>15, <1>16 DEF IsGrouping

-----------------------------------------------------------------------------
(* The loop itself, over any finite set.                                     *)

Nothing == [firsts |-> {}, clusters |-> {}]

First(changes) == CHOOSE x \in changes : TRUE

\* A fold of the subsets of S with at most n elements.
FoldsTo(fold, S, n) ==
  fold = [s \in {t \in SUBSET S : Cardinality(t) <= n} |->
            IF s = {} THEN Nothing ELSE Joined(First(s), fold[s \ {First(s)}])]

LEMMA FoldExists ==
  ASSUME NEW S, IsFiniteSet(S)
  PROVE  \E fold : FoldsTo(fold, S, Cardinality(S))
<1> DEFINE N == {n \in 0..Cardinality(S) : \E fold : FoldsTo(fold, S, n)}
<1>1. Cardinality(S) \in Nat
  BY FS_CardinalityType
<1>2. \A s \in SUBSET S : IsFiniteSet(s) /\ Cardinality(s) \in Nat
  BY FS_Subset, FS_CardinalityType
<1>3. \A s \in SUBSET S : s # {} =>
        /\ First(s) \in s /\ s \ {First(s)} \in SUBSET S
        /\ Cardinality(s \ {First(s)}) = Cardinality(s) - 1
        /\ Cardinality(s) # 0
  BY <1>2, FS_RemoveElement, FS_EmptySet DEF First
<1>4. 0 \in N
  <2>1. PICK D : D = {t \in SUBSET S : Cardinality(t) <= 0}
    OBVIOUS
  <2>2. \A s \in D : s = {}
    <3> SUFFICES ASSUME NEW s \in SUBSET S, Cardinality(s) <= 0
                 PROVE  s = {}
      BY <2>1
    <3>1. Cardinality(s) \in Nat
      BY <1>2
    <3>2. Cardinality(s) = 0
      BY <3>1
    <3> QED
      BY <1>3, <3>2
  <2>3. PICK fold : fold = [s \in D |-> Nothing]
    OBVIOUS
  <2>4. PICK other : other = [s \in D |-> IF s = {} THEN Nothing
                                          ELSE Joined(First(s), fold[s \ {First(s)}])]
    OBVIOUS
  <2>5. fold = other
    BY <2>2, <2>3, <2>4
  <2>6. FoldsTo(fold, S, 0)
    BY <2>1, <2>4, <2>5 DEF FoldsTo
  <2> QED
    BY <1>1, <2>6
<1>5. ASSUME NEW n \in 1..Cardinality(S), n - 1 \in N
      PROVE  n \in N
  <2>1. PICK less : FoldsTo(less, S, n - 1)
    BY <1>5
  <2>2. PICK D : D = {t \in SUBSET S : Cardinality(t) <= n - 1}
    OBVIOUS
  <2>3. PICK E : E = {t \in SUBSET S : Cardinality(t) <= n}
    OBVIOUS
  <2>4. \A s \in D : less[s] = IF s = {} THEN Nothing ELSE Joined(First(s), less[s \ {First(s)}])
    BY <2>1, <2>2 DEF FoldsTo
  <2>5. PICK fold : fold = [s \in E |-> IF s = {} THEN Nothing
                                         ELSE Joined(First(s), less[s \ {First(s)}])]
    OBVIOUS
  <2>6. \A s \in D : s \in E /\ fold[s] = less[s]
    <3>1. \A s \in D : s \in E
      BY <1>1, <1>2, <2>2, <2>3
    <3> QED
      BY <2>4, <2>5, <3>1
  <2>7. \A s \in E : s # {} => s \ {First(s)} \in D
    BY <1>1, <1>2, <1>3, <2>2, <2>3
  <2>8. fold = [s \in E |-> IF s = {} THEN Nothing ELSE Joined(First(s), fold[s \ {First(s)}])]
    <3>1. PICK other : other = [s \in E |-> IF s = {} THEN Nothing
                                            ELSE Joined(First(s), fold[s \ {First(s)}])]
      OBVIOUS
    <3>2. \A s \in E : fold[s] = other[s]
      BY <2>5, <2>6, <2>7, <3>1
    <3>3. fold = [s \in E |-> fold[s]] /\ other = [s \in E |-> other[s]]
      BY <2>5, <3>1
    <3>4. fold = other
      BY <3>2, <3>3
    <3> QED
      BY <3>1, <3>4
  <2>9. FoldsTo(fold, S, n)
    BY <2>3, <2>8 DEF FoldsTo
  <2> QED
    BY <2>9
<1> HIDE DEF N
<1>6. 0..Cardinality(S) \subseteq N
  BY <1>1, <1>4, <1>5, Induction
<1>7. Cardinality(S) \in N
  BY <1>1, <1>6
<1> QED
  BY <1>7 DEF N

\* Whatever the order in which CHOOSE takes them, the changes are grouped.
LEMMA FoldGroups ==
  ASSUME NEW S, IsFiniteSet(S)
  PROVE  IsGrouping(S, FoldSet(Joined, Nothing, S))
<1> DEFINE Is(f) == f = [s \in SUBSET S |-> IF s = {} THEN Nothing
                                             ELSE Joined(First(s), f[s \ {First(s)}])]
<1>1. PICK fold : fold = CHOOSE f : Is(f)
  OBVIOUS
<1>2. FoldSet(Joined, Nothing, S) = fold[S]
  BY <1>1 DEF FoldSet, MapThenFoldSet, First
<1>3. Is(fold)
  <2>1. PICK f : FoldsTo(f, S, Cardinality(S))
    BY FoldExists
  <2>2. {t \in SUBSET S : Cardinality(t) <= Cardinality(S)} = SUBSET S
    BY FS_Subset
  <2>3. Is(f)
    BY <2>1, <2>2 DEF FoldsTo
  <2> QED
    BY <1>1, <2>3
<1>4. \A s \in SUBSET S :
        fold[s] = IF s = {} THEN Nothing ELSE Joined(First(s), fold[s \ {First(s)}])
  BY <1>3
<1> HIDE DEF Is
<1> DEFINE N == {n \in 0..Cardinality(S) :
                   \A s \in SUBSET S : Cardinality(s) = n => IsGrouping(s, fold[s])}
<1>5. Cardinality(S) \in Nat
  BY FS_CardinalityType
<1>6. \A s \in SUBSET S : IsFiniteSet(s) /\ Cardinality(s) \in Nat
  BY FS_Subset, FS_CardinalityType
<1>7. 0 \in N
  <2>1. \A s \in SUBSET S : Cardinality(s) = 0 => s = {}
    BY <1>6, FS_EmptySet
  <2>2. fold[{}] = Nothing
    BY <1>4
  <2>3. IsGrouping({}, Nothing)
    BY DEF IsGrouping, Nothing
  <2> QED
    BY <1>5, <2>1, <2>2, <2>3
<1>8. ASSUME NEW n \in 1..Cardinality(S), n - 1 \in N
      PROVE  n \in N
  <2> SUFFICES ASSUME NEW s \in SUBSET S, Cardinality(s) = n
               PROVE  IsGrouping(s, fold[s])
    OBVIOUS
  <2>1. s # {}
    BY FS_EmptySet
  <2>2. PICK x : x = First(s)
    OBVIOUS
  <2>3. PICK rest : rest = s \ {x}
    OBVIOUS
  <2>4. x \in s /\ rest \in SUBSET S /\ Cardinality(rest) = n - 1 /\ x \notin rest /\ rest \cup {x} = s
    <3>1. x \in s
      BY <2>1, <2>2 DEF First
    <3>2. Cardinality(s \ {x}) = Cardinality(s) - 1
      BY <1>6, <3>1, FS_RemoveElement
    <3> QED
      BY <2>3, <3>1, <3>2
  <2>5. IsGrouping(rest, fold[rest])
    BY <1>8, <2>4
  <2>6. fold[s] = Joined(x, fold[rest])
    BY <1>4, <2>1, <2>2, <2>3
  <2> QED
    BY <2>4, <2>5, <2>6, JoinedIsGrouping
<1> HIDE DEF N
<1>9. 0..Cardinality(S) \subseteq N
  BY <1>5, <1>7, <1>8, Induction
<1>10. Cardinality(S) \in N /\ S \in SUBSET S
  BY <1>5, <1>9
<1> QED
  BY <1>2, <1>10 DEF N

\* The clusters of any finite set of changes are its connected components.
LEMMA ClustersAre ==
  ASSUME NEW changes, IsFiniteSet(changes)
  PROVE  /\ ClustersAreComponents(changes, Clusters(changes))
         /\ \A x, y \in changes, cluster \in Clusters(changes) :
              x \in cluster /\ Share(x, y) => y \in cluster
<1>1. PICK g : g = FoldSet(Joined, Nothing, changes)
  OBVIOUS
<1>2. IsGrouping(changes, g) /\ Clusters(changes) = g.clusters
  BY <1>1, FoldGroups DEF Clusters, Nothing
<1>3. /\ \A x \in changes : \A k \in KeysOf(x) : \E first \in g.firsts : first.key = k
      /\ UNION g.clusters = changes
      /\ \A left, right \in g.clusters : left # right => left \cap right = {}
      /\ \A y \in changes, first \in g.firsts :
           first.key \in KeysOf(y) =>
             \E cluster \in g.clusters : y \in cluster /\ first.change \in cluster
      /\ \A cluster \in g.clusters : IsConnected(cluster)
  BY <1>2 DEF IsGrouping
<1>4. ASSUME NEW x \in changes, NEW y \in changes, NEW cluster \in g.clusters,
             x \in cluster, Share(x, y)
      PROVE  y \in cluster
  <2>1. PICK k : k \in KeysOf(x) /\ k \in KeysOf(y)
    BY <1>4 DEF Share
  <2>2. PICK first \in g.firsts : first.key = k
    BY <1>3, <2>1
  <2>3. PICK left \in g.clusters : x \in left /\ first.change \in left
    BY <1>3, <2>1, <2>2
  <2>4. PICK right \in g.clusters : y \in right /\ first.change \in right
    BY <1>3, <2>1, <2>2
  <2>5. left = cluster /\ right = left
    BY <1>3, <1>4, <2>3, <2>4
  <2> QED
    BY <2>4, <2>5
<1>5. ASSUME NEW left \in g.clusters, NEW right \in g.clusters, left # right,
             NEW x \in left, NEW y \in right
      PROVE  x # y /\ Apart(x, y)
  <2>1. x \in changes /\ y \in changes /\ y \notin left
    BY <1>3, <1>5
  <2>2. ~Share(x, y)
    BY <1>4, <2>1
  <2> QED
    BY <2>1, <2>2, ApartSharesNothing
<1>6. ASSUME NEW cluster \in g.clusters, NEW part \in (SUBSET cluster) \ {{}, cluster}
      PROVE  \E x \in part, y \in cluster \ part : ~Apart(x, y)
  <2>1. PICK x \in part, y \in cluster \ part : Share(x, y)
    BY <1>3 DEF IsConnected
  <2> QED
    BY <2>1, ApartSharesNothing
<1> QED
  BY <1>2, <1>3, <1>4, <1>5, <1>6 DEF ClustersAreComponents

-----------------------------------------------------------------------------
(* The changes between the two snapshots.                                    *)

\* What the two graphs of a review are.
Reviewable ==
  /\ IsProper(acknowledged) /\ IsProper(current)
  /\ unclear \subseteq BoxesOf(acknowledged)
  /\ unmanaged \subseteq BoxesOf(current)

\* A box in the snapshot before, and in the live one.
Was(b) == SnapshotBox(acknowledged, b, {}, {})
Now(b, recreated) == SnapshotBox(current, b, recreated, Renamed)

Removal(b) == [kind |-> "box_removed", boxes |-> <<Was(b)>>]
Addition(b, recreated) == [kind |-> "box_added", boxes |-> <<Now(b, recreated)>>]
Neighbour(b) == [kind |-> "box_added", boxes |-> <<LooseBox(b)>>]
Edit(b, recreated) == [kind |-> "box_changed", boxes |-> <<Was(b), Now(b, recreated)>>]
Unplugging(cord) == [kind |-> "connection_removed", boxes |-> <<Was(cord[1]), Was(cord[2])>>]
Plugging(cord, recreated) ==
  [kind |-> "connection_added", boxes |-> <<Now(cord[1], recreated), Now(cord[2], recreated)>>]
Attachment(b, recreated) ==
  [kind |-> "connection_added", boxes |-> <<LooseBox(b), Now(b, recreated)>>]

LEMMA RecreationsAre ==
  ASSUME Reviewable, NEW recreated \in Recreations
  PROVE  /\ recreated \subseteq BoxesOf(acknowledged) \cap BoxesOf(current)
         /\ Renamed \subseteq BoxesOf(acknowledged) \cap BoxesOf(current)
         /\ recreated \cap Renamed = {}
BY DEF Reviewable, Recreations, Renamed

LEMMA BoxesAre ==
  ASSUME NEW b, NEW recreated
  PROVE  /\ Was(b).id = b /\ Was(b).path = PathTo[b] /\ Was(b).runtime = <<b, 1>>
         /\ Was(b).content = acknowledged.boxes[b]
         /\ Now(b, recreated).id = IF b \in Renamed THEN Absent ELSE b
         /\ Now(b, recreated).path = PathTo[b]
         /\ Now(b, recreated).runtime = <<b, IF b \in recreated THEN 2 ELSE 1>>
         /\ Now(b, recreated).content = current.boxes[b]
         /\ LooseBox(b).id = Absent /\ LooseBox(b).path = PathTo[b]
         /\ LooseBox(b).runtime = <<Loose, 1>>
BY DEF Was, Now, SnapshotBox, LooseBox, Runtime

LEMMA KeysDiffer ==
  ASSUME NEW b \in Box, NEW c \in Box, NEW recreated
  PROVE  /\ Key(Was(b)) = Key(Now(c, recreated)) <=> b = c /\ b \notin recreated
         /\ Key(LooseBox(b)) # Key(Was(c))
         /\ Key(LooseBox(b)) # Key(Now(c, recreated))
<1>1. /\ Key(Was(b)) = <<PathTo[b], <<b, 1>>>> /\ Key(Was(c)) = <<PathTo[c], <<c, 1>>>>
      /\ Key(Now(c, recreated)) = <<PathTo[c], <<c, IF c \in recreated THEN 2 ELSE 1>>>>
      /\ Key(LooseBox(b)) = <<PathTo[b], <<Loose, 1>>>>
  BY BoxesAre DEF Key
<1>2. Loose # c
  BY ReviewAssumption
<1> QED
  BY <1>1, <1>2

LEMMA SnapshotsAre ==
  ASSUME NEW recreated
  PROVE  /\ Baseline.boxes = {Was(b) : b \in BoxesOf(acknowledged)}
         /\ Baseline.cords = {<<Was(cord[1]), Was(cord[2])>> : cord \in acknowledged.cords}
         /\ Live(recreated).boxes =
              {Now(b, recreated) : b \in BoxesOf(current)} \cup {LooseBox(b) : b \in unmanaged}
         /\ Live(recreated).cords =
              {<<Now(cord[1], recreated), Now(cord[2], recreated)>> : cord \in current.cords}
                \cup {<<LooseBox(b), Now(b, recreated)>> : b \in unmanaged}
BY DEF Baseline, Live, SnapshotOf, Was, Now

LEMMA EndsAre ==
  ASSUME NEW graph, IsProper(graph), NEW cord \in graph.cords
  PROVE  /\ cord[1] \in BoxesOf(graph) /\ cord[2] \in BoxesOf(graph)
         /\ cord[1] \in Box /\ cord[2] \in Box /\ PathTo[cord[1]] = PathTo[cord[2]]
         /\ cord = <<cord[1], cord[2]>>
<1>1. cord \in Cord /\ {cord[1], cord[2]} \subseteq BoxesOf(graph)
  BY DEF IsProper, IsGraph
<1> QED
  BY <1>1, PlanAssumption

\* The changes of boxes, and of cords, one by one.
BoxChanges(recreated) ==
  {Removal(b) : b \in {x \in BoxesOf(acknowledged) : x \notin BoxesOf(current) \/ x \in recreated}}
    \cup {Addition(b, recreated) :
            b \in {x \in BoxesOf(current) : x \notin BoxesOf(acknowledged) \/ x \in recreated}}
    \cup {Neighbour(b) : b \in unmanaged}
    \cup {Edit(b, recreated) :
            b \in {x \in (BoxesOf(acknowledged) \cap BoxesOf(current)) \ recreated :
                     Was(x) # Now(x, recreated)}}

Reaching(cord, recreated) == cord[1] \in recreated \/ cord[2] \in recreated

CordChanges(recreated) ==
  {Unplugging(cord) : cord \in {x \in acknowledged.cords :
                                  x \notin current.cords \/ Reaching(x, recreated)}}
    \cup {Plugging(cord, recreated) : cord \in {x \in current.cords :
                                  x \notin acknowledged.cords \/ Reaching(x, recreated)}}
    \cup {Attachment(b, recreated) : b \in unmanaged}

LEMMA ChangesAre ==
  ASSUME Reviewable, NEW recreated \in Recreations
  PROVE  Changes(Baseline, Live(recreated)) = BoxChanges(recreated) \cup CordChanges(recreated)
<1>1. PICK from, to : from = Baseline /\ to = Live(recreated)
  OBVIOUS
<1>2. /\ from.boxes = {Was(b) : b \in BoxesOf(acknowledged)}
      /\ from.cords = {<<Was(cord[1]), Was(cord[2])>> : cord \in acknowledged.cords}
      /\ to.boxes = {Now(b, recreated) : b \in BoxesOf(current)} \cup {LooseBox(b) : b \in unmanaged}
      /\ to.cords = {<<Now(cord[1], recreated), Now(cord[2], recreated)>> : cord \in current.cords}
                      \cup {<<LooseBox(b), Now(b, recreated)>> : b \in unmanaged}
  BY <1>1, SnapshotsAre
<1>3. /\ BoxesOf(acknowledged) \subseteq Box /\ BoxesOf(current) \subseteq Box
      /\ unmanaged \subseteq Box /\ unmanaged \subseteq BoxesOf(current)
      /\ recreated \subseteq BoxesOf(acknowledged) \cap BoxesOf(current)
  BY RecreationsAre DEF BoxesOf, Reviewable
<1>4. Missing(from.boxes, to.boxes) =
        {Was(b) : b \in {x \in BoxesOf(acknowledged) : x \notin BoxesOf(current) \/ x \in recreated}}
  <2>1. ASSUME NEW b \in BoxesOf(acknowledged)
        PROVE  (\A other \in to.boxes : Key(other) # Key(Was(b)))
                 <=> b \notin BoxesOf(current) \/ b \in recreated
    <3>1. b \in Box
      BY <1>3
    <3>2. \A c \in unmanaged : Key(LooseBox(c)) # Key(Was(b))
      BY <1>3, <3>1, KeysDiffer
    <3>3. \A c \in BoxesOf(current) : Key(Now(c, recreated)) = Key(Was(b)) <=> b = c /\ b \notin recreated
      BY <1>3, <3>1, KeysDiffer
    <3> QED
      BY <1>2, <3>2, <3>3
  <2> QED
    BY <1>2, <2>1 DEF Missing
<1>5. Missing(to.boxes, from.boxes) =
        {Now(b, recreated) :
           b \in {x \in BoxesOf(current) : x \notin BoxesOf(acknowledged) \/ x \in recreated}}
          \cup {LooseBox(b) : b \in unmanaged}
  <2>1. ASSUME NEW b \in BoxesOf(current)
        PROVE  (\A other \in from.boxes : Key(other) # Key(Now(b, recreated)))
                 <=> b \notin BoxesOf(acknowledged) \/ b \in recreated
    <3>1. b \in Box
      BY <1>3
    <3>2. \A c \in BoxesOf(acknowledged) :
            Key(Was(c)) = Key(Now(b, recreated)) <=> c = b /\ c \notin recreated
      BY <1>3, <3>1, KeysDiffer
    <3> QED
      BY <1>2, <3>2
  <2>2. ASSUME NEW b \in unmanaged
        PROVE  \A other \in from.boxes : Key(other) # Key(LooseBox(b))
    <3>1. \A c \in BoxesOf(acknowledged) : Key(LooseBox(b)) # Key(Was(c))
      BY <1>3, KeysDiffer
    <3> QED
      BY <1>2, <3>1
  <2> QED
    BY <1>2, <2>1, <2>2 DEF Missing
<1>6. ChangedPairs(from.boxes, to.boxes) =
        {<<Was(b), Now(b, recreated)>> :
           b \in {x \in (BoxesOf(acknowledged) \cap BoxesOf(current)) \ recreated :
                    Was(x) # Now(x, recreated)}}
  <2>1. ASSUME NEW pair \in ChangedPairs(from.boxes, to.boxes)
        PROVE  \E b \in (BoxesOf(acknowledged) \cap BoxesOf(current)) \ recreated :
                 Was(b) # Now(b, recreated) /\ pair = <<Was(b), Now(b, recreated)>>
    <3>1. /\ pair[1] \in from.boxes /\ pair[2] \in to.boxes /\ pair = <<pair[1], pair[2]>>
          /\ Key(pair[1]) = Key(pair[2]) /\ pair[1] # pair[2]
      BY DEF ChangedPairs
    <3>2. PICK b \in BoxesOf(acknowledged) : pair[1] = Was(b)
      BY <1>2, <3>1
    <3>3. pair[2] \notin {LooseBox(c) : c \in unmanaged}
      BY <1>3, <3>1, <3>2, KeysDiffer
    <3>4. PICK c \in BoxesOf(current) : pair[2] = Now(c, recreated)
      BY <1>2, <3>1, <3>3
    <3>5. b = c /\ b \notin recreated
      BY <1>3, <3>1, <3>2, <3>4, KeysDiffer
    <3> QED
      BY <3>1, <3>2, <3>4, <3>5
  <2>2. ASSUME NEW b \in (BoxesOf(acknowledged) \cap BoxesOf(current)) \ recreated,
               Was(b) # Now(b, recreated)
        PROVE  <<Was(b), Now(b, recreated)>> \in ChangedPairs(from.boxes, to.boxes)
    <3>1. Key(Was(b)) = Key(Now(b, recreated))
      BY <1>3, KeysDiffer
    <3>2. Was(b) \in from.boxes /\ Now(b, recreated) \in to.boxes
      BY <1>2
    <3> QED
      BY <2>2, <3>1, <3>2 DEF ChangedPairs
  <2> QED
    BY <2>1, <2>2
<1>7. WithoutCords(from.cords, to.cords) =
        {<<Was(cord[1]), Was(cord[2])>> : cord \in {x \in acknowledged.cords :
           x \notin current.cords \/ Reaching(x, recreated)}}
  <2>1. ASSUME NEW cord \in acknowledged.cords
        PROVE  (\A other \in to.cords : CordKey(other) # CordKey(<<Was(cord[1]), Was(cord[2])>>))
                 <=> cord \notin current.cords \/ Reaching(cord, recreated)
    <3>1. cord[1] \in Box /\ cord[2] \in Box /\ cord = <<cord[1], cord[2]>>
      BY EndsAre DEF Reviewable
    <3>2. \A c \in unmanaged : CordKey(<<LooseBox(c), Now(c, recreated)>>)
                                 # CordKey(<<Was(cord[1]), Was(cord[2])>>)
      BY <1>3, <3>1, KeysDiffer DEF CordKey
    <3>3. \A c \in current.cords :
            CordKey(<<Now(c[1], recreated), Now(c[2], recreated)>>)
                = CordKey(<<Was(cord[1]), Was(cord[2])>>)
              <=> cord = c /\ ~Reaching(cord, recreated)
      <4> SUFFICES ASSUME NEW c \in current.cords
                   PROVE  CordKey(<<Now(c[1], recreated), Now(c[2], recreated)>>)
                            = CordKey(<<Was(cord[1]), Was(cord[2])>>)
                          <=> cord = c /\ ~Reaching(cord, recreated)
        OBVIOUS
      <4>1. c[1] \in Box /\ c[2] \in Box /\ c = <<c[1], c[2]>>
        BY EndsAre DEF Reviewable
      <4>2. /\ Key(Was(cord[1])) = Key(Now(c[1], recreated)) <=> cord[1] = c[1] /\ cord[1] \notin recreated
            /\ Key(Was(cord[2])) = Key(Now(c[2], recreated)) <=> cord[2] = c[2] /\ cord[2] \notin recreated
        BY <3>1, <4>1, KeysDiffer
      <4>3. cord = c <=> cord[1] = c[1] /\ cord[2] = c[2]
        BY <3>1, <4>1
      <4> QED
        BY <4>2, <4>3 DEF CordKey, Reaching
    <3> QED
      BY <1>2, <3>2, <3>3
  <2> QED
    BY <1>2, <2>1 DEF WithoutCords
<1>8. WithoutCords(to.cords, from.cords) =
        {<<Now(cord[1], recreated), Now(cord[2], recreated)>> : cord \in {x \in current.cords :
           x \notin acknowledged.cords \/ Reaching(x, recreated)}}
          \cup {<<LooseBox(b), Now(b, recreated)>> : b \in unmanaged}
  <2>1. ASSUME NEW cord \in current.cords
        PROVE  (\A other \in from.cords :
                  CordKey(other) # CordKey(<<Now(cord[1], recreated), Now(cord[2], recreated)>>))
                 <=> cord \notin acknowledged.cords \/ Reaching(cord, recreated)
    <3>1. cord[1] \in Box /\ cord[2] \in Box /\ cord = <<cord[1], cord[2]>>
      BY EndsAre DEF Reviewable
    <3>2. \A c \in acknowledged.cords :
            CordKey(<<Was(c[1]), Was(c[2])>>)
                = CordKey(<<Now(cord[1], recreated), Now(cord[2], recreated)>>)
              <=> cord = c /\ ~Reaching(cord, recreated)
      <4> SUFFICES ASSUME NEW c \in acknowledged.cords
                   PROVE  CordKey(<<Was(c[1]), Was(c[2])>>)
                            = CordKey(<<Now(cord[1], recreated), Now(cord[2], recreated)>>)
                          <=> cord = c /\ ~Reaching(cord, recreated)
        OBVIOUS
      <4>1. c[1] \in Box /\ c[2] \in Box /\ c = <<c[1], c[2]>>
        BY EndsAre DEF Reviewable
      <4>2. /\ Key(Was(c[1])) = Key(Now(cord[1], recreated)) <=> c[1] = cord[1] /\ c[1] \notin recreated
            /\ Key(Was(c[2])) = Key(Now(cord[2], recreated)) <=> c[2] = cord[2] /\ c[2] \notin recreated
        BY <3>1, <4>1, KeysDiffer
      <4>3. cord = c <=> cord[1] = c[1] /\ cord[2] = c[2]
        BY <3>1, <4>1
      <4> QED
        BY <4>2, <4>3 DEF CordKey, Reaching
    <3> QED
      <4>1. PICK k : k = CordKey(<<Now(cord[1], recreated), Now(cord[2], recreated)>>)
        OBVIOUS
      <4>2. (\A other \in from.cords : CordKey(other) # k)
              <=> \A c \in acknowledged.cords : CordKey(<<Was(c[1]), Was(c[2])>>) # k
        BY <1>2
      <4>3. (\A c \in acknowledged.cords : CordKey(<<Was(c[1]), Was(c[2])>>) # k)
              <=> \A c \in acknowledged.cords : ~(cord = c /\ ~Reaching(cord, recreated))
        BY <3>2, <4>1
      <4> QED
        BY <4>1, <4>2, <4>3
  <2>2. ASSUME NEW b \in unmanaged
        PROVE  \A other \in from.cords : CordKey(other) # CordKey(<<LooseBox(b), Now(b, recreated)>>)
    <3> SUFFICES ASSUME NEW c \in acknowledged.cords
                 PROVE  CordKey(<<Was(c[1]), Was(c[2])>>) # CordKey(<<LooseBox(b), Now(b, recreated)>>)
      BY <1>2
    <3>1. c[1] \in Box /\ b \in Box
      BY <1>3, EndsAre DEF Reviewable
    <3>2. Key(LooseBox(b)) # Key(Was(c[1]))
      BY <3>1, KeysDiffer
    <3> QED
      BY <3>2 DEF CordKey
  <2> QED
    BY <1>2, <2>1, <2>2 DEF WithoutCords
<1>9. Changes(from, to) =
        {[kind |-> "box_removed", boxes |-> <<box>>] : box \in Missing(from.boxes, to.boxes)}
          \cup {[kind |-> "box_added", boxes |-> <<box>>] : box \in Missing(to.boxes, from.boxes)}
          \cup {[kind |-> "box_changed", boxes |-> pair] : pair \in ChangedPairs(from.boxes, to.boxes)}
          \cup {[kind |-> "connection_removed", boxes |-> cord] :
                  cord \in WithoutCords(from.cords, to.cords)}
          \cup {[kind |-> "connection_added", boxes |-> cord] :
                  cord \in WithoutCords(to.cords, from.cords)}
  BY DEF Changes
<1> QED
  BY <1>1, <1>4, <1>5, <1>6, <1>7, <1>8, <1>9
     DEF BoxChanges, CordChanges, Removal, Addition, Neighbour, Edit, Unplugging, Plugging, Attachment

\* One case for each kind.
LEMMA ChangeKinds ==
  ASSUME Reviewable, NEW recreated \in Recreations, NEW x \in Changes(Baseline, Live(recreated))
  PROVE  \/ \E b \in BoxesOf(acknowledged) :
              x = Removal(b) /\ (b \notin BoxesOf(current) \/ b \in recreated)
         \/ \E b \in BoxesOf(current) :
              x = Addition(b, recreated) /\ (b \notin BoxesOf(acknowledged) \/ b \in recreated)
         \/ \E b \in unmanaged : x = Neighbour(b)
         \/ \E b \in (BoxesOf(acknowledged) \cap BoxesOf(current)) \ recreated :
              x = Edit(b, recreated) /\ Was(b) # Now(b, recreated)
         \/ \E cord \in acknowledged.cords :
              x = Unplugging(cord) /\ (cord \notin current.cords \/ Reaching(cord, recreated))
         \/ \E cord \in current.cords :
              x = Plugging(cord, recreated)
                /\ (cord \notin acknowledged.cords \/ Reaching(cord, recreated))
         \/ \E b \in unmanaged : x = Attachment(b, recreated)
BY ChangesAre DEF BoxChanges, CordChanges

LEMMA ChangesAreFinite ==
  ASSUME Reviewable, NEW recreated \in Recreations
  PROVE  IsFiniteSet(Changes(Baseline, Live(recreated)))
<1>1. PICK kinds : kinds = {Removal(b) : b \in Box}
  OBVIOUS
<1>2. PICK additions : additions = {Addition(b, recreated) : b \in Box}
  OBVIOUS
<1>3. PICK neighbours : neighbours = {Neighbour(b) : b \in Box}
  OBVIOUS
<1>4. PICK edits : edits = {Edit(b, recreated) : b \in Box}
  OBVIOUS
<1>5. PICK unplugged : unplugged = {Unplugging(cord) : cord \in Cord}
  OBVIOUS
<1>6. PICK plugged : plugged = {Plugging(cord, recreated) : cord \in Cord}
  OBVIOUS
<1>7. PICK attached : attached = {Attachment(b, recreated) : b \in Box}
  OBVIOUS
<1>8. IsFiniteSet(Box) /\ IsFiniteSet(Cord)
  BY PathsAre
<1>9. IsFiniteSet(kinds)
  <2>1. [b \in Box |-> Removal(b)] \in Surjection(Box, kinds)
    BY <1>1 DEF Surjection
  <2> QED
    BY <1>8, <2>1, FS_Surjection
<1>10. IsFiniteSet(additions)
  <2>1. [b \in Box |-> Addition(b, recreated)] \in Surjection(Box, additions)
    BY <1>2 DEF Surjection
  <2> QED
    BY <1>8, <2>1, FS_Surjection
<1>11. IsFiniteSet(neighbours)
  <2>1. [b \in Box |-> Neighbour(b)] \in Surjection(Box, neighbours)
    BY <1>3 DEF Surjection
  <2> QED
    BY <1>8, <2>1, FS_Surjection
<1>12. IsFiniteSet(edits)
  <2>1. [b \in Box |-> Edit(b, recreated)] \in Surjection(Box, edits)
    BY <1>4 DEF Surjection
  <2> QED
    BY <1>8, <2>1, FS_Surjection
<1>13. IsFiniteSet(unplugged)
  <2>1. [cord \in Cord |-> Unplugging(cord)] \in Surjection(Cord, unplugged)
    BY <1>5 DEF Surjection
  <2> QED
    BY <1>8, <2>1, FS_Surjection
<1>14. IsFiniteSet(plugged)
  <2>1. [cord \in Cord |-> Plugging(cord, recreated)] \in Surjection(Cord, plugged)
    BY <1>6 DEF Surjection
  <2> QED
    BY <1>8, <2>1, FS_Surjection
<1>15. IsFiniteSet(attached)
  <2>1. [b \in Box |-> Attachment(b, recreated)] \in Surjection(Box, attached)
    BY <1>7 DEF Surjection
  <2> QED
    BY <1>8, <2>1, FS_Surjection
<1>16. PICK all : all = kinds \cup (additions \cup (neighbours \cup (edits
                          \cup (unplugged \cup (plugged \cup attached)))))
  OBVIOUS
<1>17. IsFiniteSet(all)
  BY <1>9, <1>10, <1>11, <1>12, <1>13, <1>14, <1>15, <1>16, FS_Union
<1>18. /\ BoxesOf(acknowledged) \subseteq Box /\ BoxesOf(current) \subseteq Box /\ unmanaged \subseteq Box
       /\ acknowledged.cords \subseteq Cord /\ current.cords \subseteq Cord
  BY DEF BoxesOf, Reviewable, IsProper
<1>19. Changes(Baseline, Live(recreated)) \subseteq all
  BY <1>1, <1>2, <1>3, <1>4, <1>5, <1>6, <1>7, <1>16, <1>18, ChangeKinds
<1> QED
  BY <1>17, <1>19, FS_Subset

-----------------------------------------------------------------------------
(* What the changes name.                                                    *)

LEMMA RangeOfOne ==
  ASSUME NEW a
  PROVE  Range(<<a>>) = {a}
BY DEF Range

LEMMA RangeOfTwo ==
  ASSUME NEW a, NEW b
  PROVE  Range(<<a, b>>) = {a, b}
BY DEF Range

LEMMA EvidenceIs ==
  ASSUME NEW b, NEW recreated, b # Absent
  PROVE  /\ InEvidence(Removal(b)) = {Was(b)}
         /\ InEvidence(Addition(b, recreated)) = {Now(b, recreated)}
         /\ InEvidence(Neighbour(b)) = {LooseBox(b)}
         /\ IsRenaming(Edit(b, recreated)) <=> b \in Renamed
         /\ InEvidence(Edit(b, recreated)) =
              IF b \in Renamed THEN {Was(b), Now(b, recreated)} ELSE {Now(b, recreated)}
         /\ InEvidence(Attachment(b, recreated)) = {LooseBox(b), Now(b, recreated)}
<1>1. IsRenaming(Edit(b, recreated)) <=> b \in Renamed
  <2>1. /\ Edit(b, recreated).kind = "box_changed" /\ Edit(b, recreated).boxes[1] = Was(b)
        /\ Edit(b, recreated).boxes[2] = Now(b, recreated)
    BY DEF Edit
  <2> QED
    BY <2>1, BoxesAre DEF IsRenaming
<1>2. InEvidence(Removal(b)) = {Was(b)}
  BY RangeOfOne DEF InEvidence, Removal
<1>3. InEvidence(Addition(b, recreated)) = {Now(b, recreated)}
  BY RangeOfOne DEF InEvidence, Addition
<1>4. InEvidence(Neighbour(b)) = {LooseBox(b)}
  BY RangeOfOne DEF InEvidence, Neighbour
<1>5. InEvidence(Edit(b, recreated)) =
        IF b \in Renamed THEN {Was(b), Now(b, recreated)} ELSE {Now(b, recreated)}
  <2>1. PICK x : x = Edit(b, recreated)
    OBVIOUS
  <2>2. x.kind = "box_changed" /\ x.boxes = <<Was(b), Now(b, recreated)>>
    BY <2>1 DEF Edit
  <2>3. Range(x.boxes) = {Was(b), Now(b, recreated)} /\ x.boxes[2] = Now(b, recreated)
    BY <2>2, RangeOfTwo
  <2>4. IsRenaming(x) <=> b \in Renamed
    BY <1>1, <2>1
  <2>5. InEvidence(x) = IF IsRenaming(x) THEN Range(x.boxes) ELSE {x.boxes[2]}
    BY <2>2 DEF InEvidence
  <2> QED
    BY <2>1, <2>3, <2>4, <2>5
<1>6. InEvidence(Attachment(b, recreated)) = {LooseBox(b), Now(b, recreated)}
  BY RangeOfTwo DEF InEvidence, Attachment
<1> QED
  BY <1>1, <1>2, <1>3, <1>4, <1>5, <1>6

LEMMA CordEvidenceIs ==
  ASSUME NEW b, NEW c, NEW recreated
  PROVE  /\ InEvidence(Unplugging(<<b, c>>)) = {Was(b), Was(c)}
         /\ InEvidence(Plugging(<<b, c>>, recreated)) = {Now(b, recreated), Now(c, recreated)}
<1>1. InEvidence(Unplugging(<<b, c>>)) = {Was(b), Was(c)}
  BY RangeOfTwo DEF InEvidence, Unplugging
<1>2. InEvidence(Plugging(<<b, c>>, recreated)) = {Now(b, recreated), Now(c, recreated)}
  BY RangeOfTwo DEF InEvidence, Plugging
<1> QED
  BY <1>1, <1>2

\* The managed boxes that a change names, and its patcher.
LEMMA NamesAre ==
  ASSUME NEW b \in Box, NEW recreated
  PROVE  /\ ManagedIds(Removal(b)) = {b} /\ Removal(b).boxes[1].path = PathTo[b]
         /\ ManagedIds(Addition(b, recreated)) = {b} \ Renamed
         /\ Addition(b, recreated).boxes[1].path = PathTo[b]
         /\ ManagedIds(Neighbour(b)) = {} /\ Neighbour(b).boxes[1].path = PathTo[b]
         /\ ManagedIds(Edit(b, recreated)) = {b} /\ Edit(b, recreated).boxes[1].path = PathTo[b]
         /\ ManagedIds(Attachment(b, recreated)) = {b} \ Renamed
         /\ Attachment(b, recreated).boxes[1].path = PathTo[b]
<1>1. b # Absent
  BY ReviewAssumption
<1>2. PICK was, now, loose : was = Was(b) /\ now = Now(b, recreated) /\ loose = LooseBox(b)
  OBVIOUS
<1>3. /\ was.id = b /\ loose.id = Absent /\ now.id = IF b \in Renamed THEN Absent ELSE b
      /\ was.path = PathTo[b] /\ now.path = PathTo[b] /\ loose.path = PathTo[b]
  BY <1>2, BoxesAre
<1>4. /\ InEvidence(Removal(b)) = {was}
      /\ InEvidence(Addition(b, recreated)) = {now}
      /\ InEvidence(Neighbour(b)) = {loose}
      /\ InEvidence(Edit(b, recreated)) = IF b \in Renamed THEN {was, now} ELSE {now}
      /\ InEvidence(Attachment(b, recreated)) = {loose, now}
  BY <1>1, <1>2, EvidenceIs
<1>5. ManagedIds(Removal(b)) = {b}
  BY <1>1, <1>3, <1>4 DEF ManagedIds
<1>6. ManagedIds(Addition(b, recreated)) = {b} \ Renamed
  BY <1>1, <1>3, <1>4 DEF ManagedIds
<1>7. ManagedIds(Neighbour(b)) = {}
  BY <1>1, <1>3, <1>4 DEF ManagedIds
<1>8. ManagedIds(Edit(b, recreated)) = {b}
  BY <1>1, <1>3, <1>4 DEF ManagedIds
<1>9. ManagedIds(Attachment(b, recreated)) = {b} \ Renamed
  BY <1>1, <1>3, <1>4 DEF ManagedIds
<1>10. /\ Removal(b).boxes[1] = was /\ Addition(b, recreated).boxes[1] = now
       /\ Neighbour(b).boxes[1] = loose /\ Edit(b, recreated).boxes[1] = was
       /\ Attachment(b, recreated).boxes[1] = loose
  BY <1>2 DEF Removal, Addition, Neighbour, Edit, Attachment
<1> QED
  BY <1>3, <1>5, <1>6, <1>7, <1>8, <1>9, <1>10

LEMMA CordNamesAre ==
  ASSUME NEW cord, cord[1] \in Box, cord[2] \in Box, cord = <<cord[1], cord[2]>>, NEW recreated
  PROVE  /\ ManagedIds(Unplugging(cord)) = {cord[1], cord[2]}
         /\ Unplugging(cord).boxes[1].path = PathTo[cord[1]]
         /\ ManagedIds(Plugging(cord, recreated)) = {cord[1], cord[2]} \ Renamed
         /\ Plugging(cord, recreated).boxes[1].path = PathTo[cord[1]]
<1>1. PICK b, c : b = cord[1] /\ c = cord[2] /\ cord = <<b, c>>
  OBVIOUS
<1>2. b # Absent /\ c # Absent
  BY <1>1, ReviewAssumption
<1>3. /\ Was(b).id = b /\ Was(c).id = c
      /\ Now(b, recreated).id = IF b \in Renamed THEN Absent ELSE b
      /\ Now(c, recreated).id = IF c \in Renamed THEN Absent ELSE c
      /\ Was(b).path = PathTo[b] /\ Now(b, recreated).path = PathTo[b]
  BY BoxesAre
<1>4. ManagedIds(Unplugging(cord)) = {b, c}
  BY <1>1, <1>2, <1>3, CordEvidenceIs DEF ManagedIds
<1>5. ManagedIds(Plugging(cord, recreated)) = {b, c} \ Renamed
  BY <1>1, <1>2, <1>3, CordEvidenceIs DEF ManagedIds
<1>6. Unplugging(cord).boxes[1] = Was(b) /\ Plugging(cord, recreated).boxes[1] = Now(b, recreated)
  BY <1>1 DEF Unplugging, Plugging
<1> QED
  BY <1>1, <1>3, <1>4, <1>5, <1>6

\* Every change is in the patcher of the boxes it names.
LEMMA NamedAreInPatcher ==
  ASSUME Reviewable, NEW recreated \in Recreations,
         NEW x \in Changes(Baseline, Live(recreated)), NEW b \in ManagedIds(x)
  PROVE  x.boxes[1].path = PathTo[b] /\ b \in Box
<1>1. /\ BoxesOf(acknowledged) \subseteq Box /\ BoxesOf(current) \subseteq Box /\ unmanaged \subseteq Box
  BY DEF BoxesOf, Reviewable
<1>2. \A cord \in acknowledged.cords \cup current.cords :
        /\ cord[1] \in Box /\ cord[2] \in Box /\ PathTo[cord[1]] = PathTo[cord[2]]
        /\ cord = <<cord[1], cord[2]>>
  BY EndsAre DEF Reviewable
<1>3. CASE \E a \in Box : x \in {Removal(a), Addition(a, recreated), Neighbour(a),
                                   Edit(a, recreated), Attachment(a, recreated)}
  BY <1>3, NamesAre
<1>4. CASE \E cord \in acknowledged.cords \cup current.cords :
              x \in {Unplugging(cord), Plugging(cord, recreated)}
  <2>1. PICK cord \in acknowledged.cords \cup current.cords :
               x \in {Unplugging(cord), Plugging(cord, recreated)}
    BY <1>4
  <2>2. ManagedIds(x) \subseteq {cord[1], cord[2]} /\ x.boxes[1].path = PathTo[cord[1]]
    BY <1>2, <2>1, CordNamesAre
  <2> QED
    BY <1>2, <2>1, <2>2
<1> QED
  BY <1>1, <1>3, <1>4, ChangeKinds

\* The review names the boxes that the merge finds different, and no others.
LEMMA NamedEditsAre ==
  ASSUME Reviewable, NEW recreated \in Recreations
  PROVE  EditsAreNamed(Changes(Baseline, Live(recreated)), recreated)
<1>1. PICK changes : changes = Changes(Baseline, Live(recreated))
  OBVIOUS
<1>2. /\ BoxesOf(acknowledged) \subseteq Box /\ BoxesOf(current) \subseteq Box
      /\ unmanaged \subseteq Box /\ unmanaged \subseteq BoxesOf(current)
  BY DEF BoxesOf, Reviewable
<1>3. /\ recreated \subseteq BoxesOf(acknowledged) \cap BoxesOf(current)
      /\ Renamed \subseteq BoxesOf(acknowledged) \cap BoxesOf(current)
      /\ recreated \cap Renamed = {}
  BY RecreationsAre
<1>4. \A cord \in acknowledged.cords \cup current.cords :
        cord[1] \in Box /\ cord[2] \in Box /\ cord = <<cord[1], cord[2]>>
  BY EndsAre DEF Reviewable
<1>5. changes = BoxChanges(recreated) \cup CordChanges(recreated)
  BY <1>1, ChangesAre
<1> DEFINE Differs(b) == \/ acknowledged.boxes[b] # current.boxes[b]
                         \/ b \in recreated \cup Renamed \cup unmanaged
                         \/ CordsOf(acknowledged, {b}) # CordsOf(current, {b})
                         \/ \E cord \in CordsOf(current, {b}) :
                              {cord[1], cord[2]} \cap recreated # {}
<1>6. ASSUME NEW x \in changes, NEW b \in ManagedIds(x)
      PROVE  b \in Box /\ Differs(b)
  <2>1. b \in Box
    BY <1>1, NamedAreInPatcher
  <2>2. ASSUME NEW a \in BoxesOf(acknowledged), x = Removal(a),
               a \notin BoxesOf(current) \/ a \in recreated
        PROVE  Differs(b)
    <3>1. a = b
      BY <1>2, <2>2, NamesAre
    <3> QED
      BY <1>2, <2>2, <3>1 DEF BoxesOf
  <2>3. ASSUME NEW a \in BoxesOf(current), x = Addition(a, recreated),
               a \notin BoxesOf(acknowledged) \/ a \in recreated
        PROVE  Differs(b)
    <3>1. a = b
      BY <1>2, <2>3, NamesAre
    <3> QED
      BY <1>2, <2>3, <3>1 DEF BoxesOf
  <2>4. ASSUME NEW a \in unmanaged, x = Neighbour(a) \/ x = Attachment(a, recreated)
        PROVE  Differs(b)
    <3>1. a = b
      BY <1>2, <2>4, NamesAre
    <3> QED
      BY <2>4, <3>1
  <2>5. ASSUME NEW a \in (BoxesOf(acknowledged) \cap BoxesOf(current)) \ recreated,
               x = Edit(a, recreated), Was(a) # Now(a, recreated)
        PROVE  Differs(b)
    <3>1. a = b
      BY <1>2, <2>5, NamesAre
    <3>2. CASE a \in Renamed
      BY <3>1, <3>2
    <3>3. CASE a \notin Renamed
      <4>1. acknowledged.boxes[a] # current.boxes[a]
        BY <2>5, <3>3 DEF Was, Now, SnapshotBox, Runtime
      <4> QED
        BY <3>1, <4>1
    <3> QED
      BY <3>2, <3>3
  <2>6. ASSUME NEW cord \in acknowledged.cords, x = Unplugging(cord),
               cord \notin current.cords \/ Reaching(cord, recreated)
        PROVE  Differs(b)
    <3>1. b \in {cord[1], cord[2]}
      BY <1>4, <2>6, CordNamesAre
    <3>2. cord \in CordsOf(acknowledged, {b})
      BY <3>1 DEF CordsOf
    <3>3. CASE cord \notin CordsOf(current, {b})
      BY <3>2, <3>3
    <3>4. CASE cord \in CordsOf(current, {b})
      BY <2>6, <3>4 DEF CordsOf, Reaching
    <3> QED
      BY <3>3, <3>4
  <2>7. ASSUME NEW cord \in current.cords, x = Plugging(cord, recreated),
               cord \notin acknowledged.cords \/ Reaching(cord, recreated)
        PROVE  Differs(b)
    <3>1. b \in {cord[1], cord[2]}
      BY <1>4, <2>7, CordNamesAre
    <3>2. cord \in CordsOf(current, {b})
      BY <3>1 DEF CordsOf
    <3>3. CASE cord \notin CordsOf(acknowledged, {b})
      BY <3>2, <3>3
    <3>4. CASE cord \in CordsOf(acknowledged, {b})
      BY <2>7, <3>2, <3>4 DEF CordsOf, Reaching
    <3> QED
      BY <3>3, <3>4
  <2> HIDE DEF Differs
  <2> QED
    BY <1>1, <2>1, <2>2, <2>3, <2>4, <2>5, <2>6, <2>7, ChangeKinds
<1>7. ASSUME NEW b \in Box, Differs(b)
      PROVE  \E x \in changes : b \in ManagedIds(x)
  <2>1. CASE b \in Renamed
    <3>1. b \in (BoxesOf(acknowledged) \cap BoxesOf(current)) \ recreated
      BY <1>3, <2>1
    <3>2. Was(b) # Now(b, recreated)
      <4>1. Was(b).id = b /\ Now(b, recreated).id = Absent /\ b # Absent
        BY <2>1, BoxesAre, ReviewAssumption
      <4> QED
        BY <4>1
    <3>3. Edit(b, recreated) \in changes
      BY <1>5, <3>1, <3>2 DEF BoxChanges
    <3> QED
      BY <3>3, NamesAre
  <2>2. CASE b \in recreated
    <3>1. Removal(b) \in changes
      BY <1>3, <1>5, <2>2 DEF BoxChanges
    <3> QED
      BY <3>1, NamesAre
  <2>3. CASE b \in unmanaged /\ b \notin Renamed
    <3>1. Attachment(b, recreated) \in changes
      BY <1>5, <2>3 DEF CordChanges
    <3> QED
      BY <2>3, <3>1, NamesAre
  <2>4. CASE acknowledged.boxes[b] # current.boxes[b] /\ b \notin Renamed /\ b \notin recreated
    <3>1. CASE b \notin BoxesOf(current)
      <4>1. b \in BoxesOf(acknowledged)
        BY <2>4, <3>1 DEF BoxesOf
      <4>2. Removal(b) \in changes
        BY <1>5, <3>1, <4>1 DEF BoxChanges
      <4> QED
        BY <4>2, NamesAre
    <3>2. CASE b \in BoxesOf(current) /\ b \notin BoxesOf(acknowledged)
      <4>1. Addition(b, recreated) \in changes
        BY <1>5, <3>2 DEF BoxChanges
      <4> QED
        BY <2>4, <4>1, NamesAre
    <3>3. CASE b \in BoxesOf(current) /\ b \in BoxesOf(acknowledged)
      <4>1. Was(b) # Now(b, recreated)
        BY <2>4, BoxesAre
      <4>2. Edit(b, recreated) \in changes
        BY <1>5, <2>4, <3>3, <4>1 DEF BoxChanges
      <4> QED
        BY <4>2, NamesAre
    <3> QED
      BY <3>1, <3>2, <3>3
  <2>5. ASSUME NEW cord \in acknowledged.cords, cord \notin current.cords, b \in {cord[1], cord[2]}
        PROVE  \E x \in changes : b \in ManagedIds(x)
    <3>1. Unplugging(cord) \in changes
      BY <1>5, <2>5 DEF CordChanges
    <3>2. b \in ManagedIds(Unplugging(cord))
      BY <1>4, <2>5, CordNamesAre
    <3> QED
      BY <3>1, <3>2
  <2>6. ASSUME NEW cord \in current.cords, cord \notin acknowledged.cords \/ Reaching(cord, recreated),
               b \in {cord[1], cord[2]}, b \notin Renamed
        PROVE  \E x \in changes : b \in ManagedIds(x)
    <3>1. Plugging(cord, recreated) \in changes
      BY <1>5, <2>6 DEF CordChanges
    <3>2. b \in ManagedIds(Plugging(cord, recreated))
      BY <1>4, <2>6, CordNamesAre
    <3> QED
      BY <3>1, <3>2
  <2>7. CASE CordsOf(acknowledged, {b}) # CordsOf(current, {b}) /\ b \notin Renamed
    <3>1. PICK cord : \/ cord \in CordsOf(acknowledged, {b}) /\ cord \notin CordsOf(current, {b})
                      \/ cord \in CordsOf(current, {b}) /\ cord \notin CordsOf(acknowledged, {b})
      BY <2>7
    <3>2. \/ cord \in acknowledged.cords /\ cord \notin current.cords /\ b \in {cord[1], cord[2]}
          \/ cord \in current.cords /\ cord \notin acknowledged.cords /\ b \in {cord[1], cord[2]}
      BY <3>1 DEF CordsOf
    <3> QED
      BY <2>5, <2>6, <2>7, <3>2
  <2>8. CASE (\E cord \in CordsOf(current, {b}) : {cord[1], cord[2]} \cap recreated # {})
               /\ b \notin Renamed
    <3>1. PICK cord \in CordsOf(current, {b}) : {cord[1], cord[2]} \cap recreated # {}
      BY <2>8
    <3>2. cord \in current.cords /\ b \in {cord[1], cord[2]} /\ Reaching(cord, recreated)
      BY <3>1 DEF CordsOf, Reaching
    <3> QED
      BY <2>6, <2>8, <3>2
  <2> QED
    BY <1>7, <2>1, <2>2, <2>3, <2>4, <2>7, <2>8
<1> HIDE DEF Differs
<1>8. AffectedManagedIds(changes) = {b \in Box : Differs(b)}
  BY <1>6, <1>7 DEF AffectedManagedIds
<1> QED
  BY <1>1, <1>8 DEF EditsAreNamed, Differs

\* A renamed box has a change of its own, in the cluster of all that name it.
LEMMA BordersAre ==
  ASSUME Reviewable, NEW recreated \in Recreations
  PROVE  BordersAreRisks(Clusters(Changes(Baseline, Live(recreated))))
<1>1. PICK changes : changes = Changes(Baseline, Live(recreated))
  OBVIOUS
<1> SUFFICES ASSUME NEW cluster \in Clusters(changes), NEW x \in cluster,
                    ManagedIds(x) \cap Renamed # {} \/ UnmanagedIds(x) # {}
             PROVE  Risks(cluster) \ {"mixed_effects"} # {}
  BY <1>1 DEF BordersAreRisks
<1>2. IsFiniteSet(changes)
  BY <1>1, ChangesAreFinite
<1>3. x \in changes
  BY <1>2, ClustersAre DEF ClustersAreComponents
<1>4. CASE UnmanagedIds(x) # {}
  <2>1. "touches_unmanaged_state" \in Risks(cluster)
    BY <1>4 DEF Risks
  <2> QED
    BY <2>1
<1>5. CASE ManagedIds(x) \cap Renamed # {}
  <2>1. PICK b \in ManagedIds(x) : b \in Renamed
    BY <1>5
  <2>2. b \in Box /\ x.boxes[1].path = PathTo[b] /\ b # Absent
    BY <1>1, <1>3, NamedAreInPatcher, ReviewAssumption
  <2>3. PICK y : y = Edit(b, recreated)
    OBVIOUS
  <2>4. y \in changes
    <3>1. b \in (BoxesOf(acknowledged) \cap BoxesOf(current)) \ recreated
      BY <2>1, RecreationsAre
    <3>2. Was(b) # Now(b, recreated)
      <4>1. Was(b).id = b /\ Now(b, recreated).id = Absent
        BY <2>1, BoxesAre
      <4> QED
        BY <2>2, <4>1
    <3> QED
      BY <1>1, <2>3, <3>1, <3>2, ChangesAre DEF BoxChanges
  <2>5. b \in ManagedIds(y) /\ y.boxes[1].path = PathTo[b]
    BY <2>2, <2>3, NamesAre
  <2>6. PICK k : k = <<PathTo[b], <<"managed", b>>>>
    OBVIOUS
  <2>7. k \in KeysOf(x) /\ k \in KeysOf(y)
    BY <2>1, <2>2, <2>5, <2>6 DEF KeysOf, IdentityKeys
  <2>8. y \in cluster
    BY <1>2, <1>3, <2>4, <2>7, ClustersAre DEF Share
  <2>9. "ownership" \in SignalKinds(y)
    <3>1. IsRenaming(y) /\ y.kind = "box_changed"
      BY <2>1, <2>2, <2>3, EvidenceIs DEF Edit
    <3> QED
      BY <3>1 DEF SignalKinds
  <2>10. "ownership" \in UNION {SignalKinds(change) : change \in cluster}
    BY <2>8, <2>9
  <2>11. "ownership_boundary_changed" \in Risks(cluster)
    BY <2>10 DEF Risks
  <2> QED
    BY <2>11
<1> QED
  BY <1>4, <1>5

-----------------------------------------------------------------------------
(* Theorem.                                                                  *)

\* What the plans' invariants do not say of the inputs.
InputsInv == acknowledged \in Graph /\ unclear \subseteq BoxesOf(acknowledged)

LEMMA InputsInvHolds == ReconcilingSpec => []InputsInv
<1>1. NeedsNone \/ NeedsReconciliation => InputsInv
  BY ReconciliationAssumption DEF NeedsNone, NeedsReconciliation, Init, InputsInv
<1>2. InputsInv /\ [ReconcilingNext]_allVars => InputsInv'
  BY DEF InputsInv, ReconcilingNext, Reconciles, RunsPlan, allVars, inputs, BoxesOf
<1> QED
  BY <1>1, <1>2, PTL DEF ReconcilingSpec

\* Whatever a person did to a patch of any size, the review names every managed
\* box that the merge will find different and no other, its clusters are the
\* connected components of the changes, and one with a renamed box or an
\* unmanaged neighbour says so (reviewPatchEdits against reconcilePatchGraphs).
THEOREM ReviewsExplain == ReconcilingSpec => []ReviewExplains
<1>1. PlanInv /\ InputsInv => ReviewExplains
  <2> SUFFICES ASSUME PlanInv, InputsInv, stage = "reconciling", NEW recreated \in Recreations
               PROVE  LET changes == Changes(Baseline, Live(recreated))
                          clusters == Clusters(changes)
                      IN  /\ ClustersAreComponents(changes, clusters)
                          /\ EditsAreNamed(changes, recreated)
                          /\ BordersAreRisks(clusters)
    BY DEF ReviewExplains
  <2>1. Reviewable
    BY GraphsAreProper DEF Reviewable, PlanInv, SidesAreProper, InputsInv
  <2>2. ClustersAreComponents(Changes(Baseline, Live(recreated)),
                              Clusters(Changes(Baseline, Live(recreated))))
    BY <2>1, ChangesAreFinite, ClustersAre
  <2> QED
    BY <2>1, <2>2, NamedEditsAre, BordersAre
<1> QED
  BY <1>1, PlanInvHolds, InputsInvHolds, PTL
=============================================================================
