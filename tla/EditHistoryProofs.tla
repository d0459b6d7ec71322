------------------------- MODULE EditHistoryProofs -------------------------
(***************************************************************************)
(* Proofs about EditHistory and the ledger it includes: for every set of   *)
(* identities, any size of the ring and of the files, and any number of    *)
(* sessions, edits, decisions, restarts and faults.                        *)
(***************************************************************************)
EXTENDS EditHistory, SequenceTheorems, FiniteSetTheorems, TLAPS

-----------------------------------------------------------------------------
(* Induction, and functions defined by recursion over a sequence.            *)

LEMMA LeastNat ==
  ASSUME NEW T, T \subseteq Nat, T # {}
  PROVE  \E x \in T : \A y \in T : ~(y < x)
<1>1. IsWellFoundedOn(OpToRel(<, Nat), Nat)
  BY NatLessThanWellFounded
<1>2. \E x \in T : \A y \in T : ~(<<y, x>> \in OpToRel(<, Nat))
  BY <1>1, WFMin
<1> QED
  BY <1>2 DEF OpToRel

\* What is true of 0 and passes from n to n + 1 is true of all.
LEMMA Induction ==
  ASSUME NEW T, NEW N \in Nat, 0 \in T, \A n \in 1..N : n - 1 \in T => n \in T
  PROVE  0..N \subseteq T
<1> SUFFICES ASSUME (0..N) \ T # {} PROVE FALSE
  OBVIOUS
<1>1. PICK x \in (0..N) \ T : \A y \in (0..N) \ T : ~(y < x)
  <2> DEFINE M == (0..N) \ T
  <2>1. M \subseteq Nat /\ M # {}
    OBVIOUS
  <2> HIDE DEF M
  <2>2. \E x \in M : \A y \in M : ~(y < x)
    BY <2>1, LeastNat
  <2> QED
    BY <2>2 DEF M
<1>2. x \in 1..N /\ x - 1 \in 0..N /\ x - 1 < x
  BY <1>1
<1> QED
  BY <1>1, <1>2

Folds(f, base, step, seq) ==
  /\ f[0] = base
  /\ \A n \in 1..Len(seq) : f[n] = step[<<f[n - 1], seq[n]>>]

\* There is one function that folds a step over a sequence.
LEMMA FoldExists ==
  ASSUME NEW S, NEW base \in S, NEW X, NEW step \in [S \X X -> S], NEW seq \in Seq(X)
  PROVE  \E f \in [0..Len(seq) -> S] : Folds(f, base, step, seq)
<1> DEFINE F(f, n) == /\ f \in [0..n -> S]
                      /\ f[0] = base
                      /\ \A k \in 1..n : f[k] = step[<<f[k - 1], seq[k]>>]
           T == {n \in 0..Len(seq) : \E f : F(f, n)}
<1>1. Len(seq) \in Nat /\ \A n \in 1..Len(seq) : seq[n] \in X
  BY LenProperties
<1>2. 0 \in T
  <2>1. F([k \in 0..0 |-> base], 0)
    OBVIOUS
  <2> HIDE DEF F
  <2> QED
    BY <1>1, <2>1
<1>3. ASSUME NEW n \in 1..Len(seq), n - 1 \in T PROVE n \in T
  <2>1. PICK f : F(f, n - 1)
    BY <1>3
  <2> DEFINE g == [k \in 0..n |-> IF k = n THEN step[<<f[n - 1], seq[n]>>] ELSE f[k]]
  <2>2. n - 1 \in 0..n - 1 /\ n \in Nat /\ \A k \in 0..n : k = n \/ k \in 0..n - 1
    BY <1>1
  <2>3. step[<<f[n - 1], seq[n]>>] \in S
    BY <1>1, <2>1, <2>2
  <2>4. g \in [0..n -> S]
    BY <2>1, <2>2, <2>3
  <2>5. g[0] = base
    BY <1>1, <2>1
  <2>6. ASSUME NEW k \in 1..n PROVE g[k] = step[<<g[k - 1], seq[k]>>]
    <3>1. k - 1 \in 0..n /\ k - 1 # n /\ k \in 0..n
      BY <1>1
    <3>2. g[k - 1] = f[k - 1]
      BY <3>1
    <3>3. CASE k = n
      BY <3>1, <3>2, <3>3
    <3>4. CASE k # n
      <4>1. k \in 1..n - 1
        BY <1>1, <3>4
      <4> QED
        BY <2>1, <3>1, <3>2, <3>4, <4>1
    <3> QED
      BY <3>3, <3>4
  <2>7. F(g, n)
    BY <2>4, <2>5, <2>6
  <2> HIDE DEF F, g
  <2> QED
    BY <1>1, <2>7
<1>4. 0..Len(seq) \subseteq T
  <2> HIDE DEF T
  <2> QED
    BY <1>1, <1>2, <1>3, Induction
<1>5. Len(seq) \in T
  BY <1>1, <1>4
<1> QED
  BY <1>5 DEF Folds

LEMMA FoldUnique ==
  ASSUME NEW base, NEW step, NEW seq, NEW other, NEW f, NEW g, NEW N \in Nat,
         f[0] = g[0],
         \A n \in 1..N : /\ f[n] = step[<<f[n - 1], seq[n]>>]
                         /\ g[n] = step[<<g[n - 1], other[n]>>]
                         /\ seq[n] = other[n]
  PROVE  \A n \in 0..N : f[n] = g[n]
<1> DEFINE T == {n \in Nat : f[n] = g[n]}
<1>1. 0 \in T
  OBVIOUS
<1>2. ASSUME NEW n \in 1..N, n - 1 \in T PROVE n \in T
  <2>1. f[n - 1] = g[n - 1]
    BY <1>2
  <2>2. /\ f[n] = step[<<f[n - 1], seq[n]>>] /\ g[n] = step[<<g[n - 1], other[n]>>]
        /\ seq[n] = other[n]
    OBVIOUS
  <2>3. f[n] = g[n]
    BY <2>1, <2>2, Zenon
  <2> QED
    BY <2>1, <2>3
<1>3. 0..N \subseteq T
  <2> HIDE DEF T
  <2> QED
    BY <1>1, <1>2, Induction
<1> QED
  BY <1>3

-----------------------------------------------------------------------------
(* The ledger, and what replaying its file gives.                            *)

\* AliasesEnd, of any memory.
Ends(m) == \A S \in SUBSET DOMAIN m.aliases : S # {} => \E i \in S : m.aliases[i] \notin S

\* The lines of a ledger file.
Line == {d \in Decision : WellFormed(d)}

\* The aliases of a memory are a function among identities.
LEMMA AliasFunction ==
  ASSUME NEW m \in Memory
  PROVE  /\ DOMAIN m.aliases \subseteq Identity
         /\ m.aliases \in [DOMAIN m.aliases -> Identity]
         /\ \A a : DOMAIN a \subseteq Identity /\ a \in [DOMAIN a -> Identity]
              => a \in UNION {[A -> Identity] : A \in SUBSET Identity}
BY DEF Memory

LEMMA NoIdentitiesIsMemory == NoIdentities \in Memory
<1>1. [i \in {} |-> i] \in [{} -> Identity]
  OBVIOUS
<1>2. {} \in SUBSET Identity
  OBVIOUS
<1>3. [i \in {} |-> i] \in UNION {[A -> Identity] : A \in SUBSET Identity}
  BY <1>1, <1>2
<1> QED
  BY <1>3 DEF NoIdentities, Memory

LEMMA AppliedIsMemory ==
  ASSUME NEW m \in Memory, NEW d \in Line
  PROVE  Applied(m, d) \in Memory
<1>1. CASE ~Applicable(m, d)
  BY <1>1 DEF Applied
<1>2. CASE Applicable(m, d) /\ d.action = "forget"
  BY <1>2 DEF Applied, Memory, Line, Decision
<1>3. CASE Applicable(m, d) /\ d.action # "forget"
  <2>1. d.source \in Identity /\ d.target \in Identity
    BY <1>3 DEF Line, Decision, WellFormed
  <2>2. /\ DOMAIN Redirected(m, d) \subseteq Identity
        /\ Redirected(m, d) \in [DOMAIN Redirected(m, d) -> Identity]
    BY <2>1, AliasFunction DEF Redirected
  <2>3. Redirected(m, d) \in UNION {[A -> Identity] : A \in SUBSET Identity}
    BY <2>2, AliasFunction
  <2> QED
    BY <1>3, <2>1, <2>3 DEF Applied, Memory
<1> QED
  BY <1>1, <1>2, <1>3

\* Replay applies one line after the other.
LEMMA ReplayFolds ==
  ASSUME NEW file \in Seq(Line)
  PROVE  \E f \in [0..Len(file) -> Memory] :
           /\ f[0] = NoIdentities
           /\ \A n \in 1..Len(file) : f[n] = Applied(f[n - 1], file[n])
           /\ Replay(file) = f[Len(file)]
<1> DEFINE F(f) == f = [n \in 0..Len(file) |->
                          IF n = 0 THEN NoIdentities ELSE Applied(f[n - 1], file[n])]
           step == [p \in Memory \X Line |-> Applied(p[1], p[2])]
<1>1. Len(file) \in Nat /\ \A n \in 1..Len(file) : file[n] \in Line
  BY LenProperties
<1>2. step \in [Memory \X Line -> Memory]
  BY AppliedIsMemory
<1>3. PICK g \in [0..Len(file) -> Memory] : Folds(g, NoIdentities, step, file)
  <2> HIDE DEF step
  <2> QED
    BY <1>2, NoIdentitiesIsMemory, FoldExists
<1>4. /\ g[0] = NoIdentities
      /\ \A n \in 1..Len(file) : g[n] = Applied(g[n - 1], file[n])
  <2>1. ASSUME NEW n \in 1..Len(file) PROVE g[n] = Applied(g[n - 1], file[n])
    <3>1. g[n - 1] \in Memory /\ file[n] \in Line
      BY <1>1
    <3>2. step[<<g[n - 1], file[n]>>] = Applied(g[n - 1], file[n])
      BY <3>1
    <3> QED
      BY <1>3, <3>2 DEF Folds
  <2> QED
    BY <1>3, <2>1 DEF Folds
<1>5. F(g)
  BY <1>1, <1>4
<1>6. PICK f : F(f) /\ Replay(file) = f[Len(file)]
  BY <1>5 DEF Replay
<1>7. f[0] = g[0] /\ \A n \in 1..Len(file) : f[n] = Applied(f[n - 1], file[n])
  BY <1>1, <1>4, <1>6
<1>8. f[Len(file)] = g[Len(file)]
  <2> DEFINE T == {n \in Nat : f[n] = g[n]}
  <2>1. 0 \in T
    BY <1>7
  <2>2. ASSUME NEW n \in 1..Len(file), n - 1 \in T PROVE n \in T
    <3>1. f[n] = Applied(f[n - 1], file[n]) /\ g[n] = Applied(g[n - 1], file[n])
      BY <1>4, <1>7
    <3>2. f[n - 1] = g[n - 1]
      BY <2>2
    <3>3. f[n] = g[n]
      BY <3>1, <3>2
    <3> QED
      BY <1>1, <3>3
  <2> HIDE DEF T
  <2>3. 0..Len(file) \subseteq T
    BY <1>1, <2>1, <2>2, Induction
  <2>4. Len(file) \in T
    BY <1>1, <2>3
  <2> QED
    BY <2>4 DEF T
<1> QED
  BY <1>4, <1>6, <1>8

LEMMA ReplayType ==
  ASSUME NEW file \in Seq(Line)
  PROVE  Replay(file) \in Memory
<1>1. Len(file) \in Nat
  BY LenProperties
<1> QED
  BY <1>1, ReplayFolds

LEMMA ReplayOfNothing == Replay(<<>>) = NoIdentities
<1>1. <<>> \in Seq(Line) /\ Len(<<>>) = 0
  BY EmptySeq
<1> QED
  BY <1>1, ReplayFolds

\* One more decision.
LEMMA ReplayAppend ==
  ASSUME NEW file \in Seq(Line), NEW d \in Line
  PROVE  Replay(Append(file, d)) = Applied(Replay(file), d)
<1>1. PICK f \in [0..Len(file) -> Memory] :
        /\ f[0] = NoIdentities
        /\ \A n \in 1..Len(file) : f[n] = Applied(f[n - 1], file[n])
        /\ Replay(file) = f[Len(file)]
  BY ReplayFolds
<1> DEFINE longer == Append(file, d)
<1>2. /\ longer \in Seq(Line) /\ Len(longer) = Len(file) + 1 /\ Len(file) \in Nat
      /\ \A n \in 1..Len(file) : longer[n] = file[n]
      /\ longer[Len(longer)] = d
  BY AppendProperties, LenProperties
<1>3. PICK g \in [0..Len(longer) -> Memory] :
        /\ g[0] = NoIdentities
        /\ \A n \in 1..Len(longer) : g[n] = Applied(g[n - 1], longer[n])
        /\ Replay(longer) = g[Len(longer)]
  BY <1>2, ReplayFolds
<1> HIDE DEF longer
<1>4. g[Len(file)] = f[Len(file)]
  <2> DEFINE T == {n \in Nat : f[n] = g[n]}
  <2>1. 0 \in T
    BY <1>1, <1>3
  <2>2. ASSUME NEW n \in 1..Len(file), n - 1 \in T PROVE n \in T
    <3>1. n \in 1..Len(longer) /\ longer[n] = file[n]
      BY <1>2
    <3>2. f[n] = Applied(f[n - 1], file[n]) /\ g[n] = Applied(g[n - 1], file[n])
      BY <1>1, <1>3, <3>1
    <3>3. f[n - 1] = g[n - 1]
      BY <2>2
    <3>4. f[n] = g[n]
      BY <3>2, <3>3
    <3> QED
      BY <1>2, <3>4
  <2> HIDE DEF T
  <2>3. 0..Len(file) \subseteq T
    BY <1>2, <2>1, <2>2, Induction
  <2>4. Len(file) \in T
    BY <1>2, <2>3
  <2> QED
    BY <2>4 DEF T
<1>5. Len(longer) \in 1..Len(longer) /\ Len(longer) - 1 = Len(file)
  BY <1>2
<1>6. g[Len(longer)] = Applied(g[Len(file)], d)
  BY <1>2, <1>3, <1>5
<1> QED
  BY <1>1, <1>3, <1>4, <1>6 DEF longer

\* No decision, valid or not, closes a cycle of aliases: neither one that is
\* taken, nor a line of the file that is replayed.
THEOREM DecisionsCloseNoCycle ==
  ASSUME NEW m \in Memory, Ends(m), NEW d \in Line
  PROVE  Ends(Applied(m, d))
<1>1. CASE ~Applicable(m, d) \/ d.action = "forget"
  <2>1. Applied(m, d).aliases = m.aliases
    BY <1>1 DEF Applied, Memory
  <2> QED
    BY <2>1 DEF Ends
<1>2. CASE Applicable(m, d) /\ d.action # "forget"
  <2>1. Applied(m, d).aliases = Redirected(m, d)
    BY <1>2 DEF Applied, Memory
  <2>2. ASSUME NEW S \in SUBSET DOMAIN Redirected(m, d), S # {}
        PROVE  \E i \in S : Redirected(m, d)[i] \notin S
    <3>1. d.target \notin DOMAIN Redirected(m, d)
      BY <1>2 DEF Applicable, IsAlias, Redirected
    <3>2. CASE d.source \in S
      BY <3>1, <3>2 DEF Redirected
    <3>3. CASE d.source \notin S
      <4>1. S \in SUBSET DOMAIN m.aliases /\ \A i \in S : Redirected(m, d)[i] = m.aliases[i]
        BY <2>2, <3>3 DEF Redirected
      <4> QED
        BY <2>2, <4>1 DEF Ends
    <3> QED
      BY <3>2, <3>3
  <2> QED
    BY <2>1, <2>2 DEF Ends
<1> QED
  BY <1>1, <1>2

\* No file of decisions replays to a cycle of aliases.
LEMMA ReplayEnds ==
  ASSUME NEW file \in Seq(Line)
  PROVE  Ends(Replay(file))
<1>1. PICK f \in [0..Len(file) -> Memory] :
        /\ f[0] = NoIdentities
        /\ \A n \in 1..Len(file) : f[n] = Applied(f[n - 1], file[n])
        /\ Replay(file) = f[Len(file)]
  BY ReplayFolds
<1>2. Len(file) \in Nat /\ \A n \in 1..Len(file) : file[n] \in Line
  BY LenProperties
<1> DEFINE T == {n \in Nat : Ends(f[n])}
<1>3. 0 \in T
  BY <1>1 DEF Ends, NoIdentities
<1>4. ASSUME NEW n \in 1..Len(file), n - 1 \in T PROVE n \in T
  <2>1. f[n - 1] \in Memory /\ Ends(f[n - 1]) /\ file[n] \in Line /\ n \in Nat
    BY <1>2, <1>4
  <2>2. Ends(Applied(f[n - 1], file[n]))
    BY <2>1, DecisionsCloseNoCycle
  <2>3. Ends(f[n])
    BY <1>1, <2>2
  <2> QED
    BY <2>1, <2>3
<1> HIDE DEF T
<1>5. 0..Len(file) \subseteq T
  BY <1>2, <1>3, <1>4, Induction
<1>6. Len(file) \in T
  BY <1>2, <1>5
<1> QED
  BY <1>1, <1>6 DEF T

-----------------------------------------------------------------------------
(* Subsequences.                                                             *)

\* The entries of t are those of s at the places e, in their order.
Picks(e, t, s) ==
  /\ e \in [1..Len(t) -> 1..Len(s)]
  /\ \A j, k \in 1..Len(t) : j < k => e[j] < e[k]
  /\ \A k \in 1..Len(t) : t[k] = s[e[k]]

PartOf(t, s) == \E e : Picks(e, t, s)

LEMMA PartOfItself ==
  ASSUME NEW X, NEW s \in Seq(X)
  PROVE  PartOf(s, s)
<1>1. Len(s) \in Nat
  BY LenProperties
<1>2. Picks([k \in 1..Len(s) |-> k], s, s)
  BY <1>1 DEF Picks
<1> QED
  BY <1>2 DEF PartOf

LEMMA PartOfPart ==
  ASSUME NEW X, NEW s \in Seq(X), NEW t \in Seq(X), NEW u \in Seq(X),
         PartOf(u, t), PartOf(t, s)
  PROVE  PartOf(u, s)
<1>1. Len(s) \in Nat /\ Len(t) \in Nat /\ Len(u) \in Nat
  BY LenProperties
<1>2. PICK d : Picks(d, u, t)
  BY DEF PartOf
<1>3. PICK e : Picks(e, t, s)
  BY DEF PartOf
<1> DEFINE g == [k \in 1..Len(u) |-> e[d[k]]]
<1>4. \A k \in 1..Len(u) : d[k] \in 1..Len(t) /\ e[d[k]] \in 1..Len(s)
  BY <1>2, <1>3 DEF Picks
<1>5. g \in [1..Len(u) -> 1..Len(s)]
  BY <1>4
<1>6. ASSUME NEW j \in 1..Len(u), NEW k \in 1..Len(u), j < k PROVE g[j] < g[k]
  <2>1. d[j] < d[k]
    BY <1>2, <1>6 DEF Picks
  <2>2. e[d[j]] < e[d[k]]
    BY <1>3, <1>4, <2>1 DEF Picks
  <2> QED
    BY <2>2
<1>7. ASSUME NEW k \in 1..Len(u) PROVE u[k] = s[g[k]]
  <2>1. u[k] = t[d[k]]
    BY <1>2 DEF Picks
  <2>2. t[d[k]] = s[e[d[k]]]
    BY <1>3, <1>4 DEF Picks
  <2> QED
    BY <2>1, <2>2
<1>8. Picks(g, u, s)
  BY <1>5, <1>6, <1>7 DEF Picks
<1> QED
  BY <1>8 DEF PartOf

LEMMA PartOfMembers ==
  ASSUME NEW X, NEW s \in Seq(X), NEW t \in Seq(X), PartOf(t, s)
  PROVE  \A k \in 1..Len(t) : \E j \in 1..Len(s) : t[k] = s[j]
BY DEF PartOf, Picks

LEMMA SubSeqIsPart ==
  ASSUME NEW X, NEW s \in Seq(X), NEW m \in Nat \ {0}, NEW n \in 0..Len(s)
  PROVE  /\ SubSeq(s, m, n) \in Seq(X)
         /\ Len(SubSeq(s, m, n)) = IF m <= n THEN n - m + 1 ELSE 0
         /\ \A i \in 1..Len(SubSeq(s, m, n)) : SubSeq(s, m, n)[i] = s[m + i - 1]
         /\ PartOf(SubSeq(s, m, n), s)
<1>1. Len(s) \in Nat /\ \A i \in 1..Len(s) : s[i] \in X
  BY LenProperties
<1> DEFINE t == SubSeq(s, m, n)
<1>2. /\ t \in Seq(X) /\ Len(t) = (IF m <= n THEN n - m + 1 ELSE 0)
      /\ \A i \in 1..n - m + 1 : t[i] = s[m + i - 1]
  <2>1. \A i \in m..n : s[i] \in X
    BY <1>1
  <2> QED
    BY <1>1, <2>1, SubSeqProperties
<1>3. \A i \in 1..Len(t) : t[i] = s[m + i - 1] /\ m + i - 1 \in 1..Len(s)
  BY <1>1, <1>2
<1> HIDE DEF t
<1> DEFINE e == [i \in 1..Len(t) |-> m + i - 1]
<1>4. Len(t) \in Nat
  BY <1>2, LenProperties
<1>5. Picks(e, t, s)
  BY <1>3, <1>4 DEF Picks
<1>6. PartOf(t, s)
  BY <1>5 DEF PartOf
<1> QED
  BY <1>2, <1>3, <1>6 DEF t

\* The entries of seq that are in S, in their order.
LEMMA SelectedPicks ==
  ASSUME NEW X, NEW seq \in Seq(X), NEW S
  PROVE  /\ Selected(seq, S) \in Seq(X)
         /\ \E e : /\ Picks(e, Selected(seq, S), seq)
                   /\ \A k \in 1..Len(Selected(seq, S)) : seq[e[k]] \in S
                   /\ \A k \in 1..Len(seq) : seq[k] \in S =>
                        \E j \in 1..Len(Selected(seq, S)) : e[j] = k
<1> DEFINE F(f) == f = [n \in 0..Len(seq) |->
                          IF n = 0 THEN <<>>
                          ELSE IF seq[n] \in S THEN Append(f[n - 1], seq[n]) ELSE f[n - 1]]
           step == [p \in Seq(X) \X X |-> IF p[2] \in S THEN Append(p[1], p[2]) ELSE p[1]]
<1>1. Len(seq) \in Nat /\ \A n \in 1..Len(seq) : seq[n] \in X
  BY LenProperties
<1>2. <<>> \in Seq(X) /\ Len(<<>>) = 0
  BY EmptySeq
<1>3. step \in [Seq(X) \X X -> Seq(X)]
  BY AppendProperties
<1>4. PICK g \in [0..Len(seq) -> Seq(X)] : Folds(g, <<>>, step, seq)
  <2> HIDE DEF step
  <2> QED
    BY <1>2, <1>3, FoldExists
<1>5. /\ g[0] = <<>>
      /\ \A n \in 1..Len(seq) :
           g[n] = IF seq[n] \in S THEN Append(g[n - 1], seq[n]) ELSE g[n - 1]
  <2>1. ASSUME NEW n \in 1..Len(seq)
        PROVE  g[n] = IF seq[n] \in S THEN Append(g[n - 1], seq[n]) ELSE g[n - 1]
    <3>1. g[n - 1] \in Seq(X) /\ seq[n] \in X
      BY <1>1
    <3>2. step[<<g[n - 1], seq[n]>>] = IF seq[n] \in S THEN Append(g[n - 1], seq[n]) ELSE g[n - 1]
      BY <3>1
    <3> QED
      BY <1>4, <3>2 DEF Folds
  <2> QED
    BY <1>4, <2>1 DEF Folds
<1>6. F(g)
  <2>1. \A n \in 0..Len(seq) : n = 0 \/ n \in 1..Len(seq)
    BY <1>1
  <2>2. \A n \in 0..Len(seq) :
          g[n] = IF n = 0 THEN <<>>
                 ELSE IF seq[n] \in S THEN Append(g[n - 1], seq[n]) ELSE g[n - 1]
    BY <1>5, <2>1, Zenon
  <2> QED
    BY <2>2
<1>7. PICK f : F(f) /\ Selected(seq, S) = f[Len(seq)]
  BY <1>6 DEF Selected
<1>8. /\ f[0] = <<>>
      /\ \A n \in 1..Len(seq) :
           f[n] = IF seq[n] \in S THEN Append(f[n - 1], seq[n]) ELSE f[n - 1]
  <2>1. 0 \in 0..Len(seq) /\ \A n \in 1..Len(seq) : n \in 0..Len(seq) /\ n # 0
    BY <1>1
  <2>2. f = [n \in 0..Len(seq) |->
               IF n = 0 THEN <<>>
               ELSE IF seq[n] \in S THEN Append(f[n - 1], seq[n]) ELSE f[n - 1]]
    BY <1>7
  <2> HIDE DEF F
  <2>3. \A n \in 0..Len(seq) :
          f[n] = IF n = 0 THEN <<>>
                 ELSE IF seq[n] \in S THEN Append(f[n - 1], seq[n]) ELSE f[n - 1]
    BY ONLY <2>2, Zenon
  <2> QED
    BY <2>1, <2>3, Zenon
<1> DEFINE P(n, e) == /\ f[n] \in Seq(X)
                      /\ e \in [1..Len(f[n]) -> 1..n]
                      /\ \A j, k \in 1..Len(f[n]) : j < k => e[j] < e[k]
                      /\ \A k \in 1..Len(f[n]) : f[n][k] = seq[e[k]] /\ seq[e[k]] \in S
                      /\ \A k \in 1..n : seq[k] \in S => \E j \in 1..Len(f[n]) : e[j] = k
           T == {n \in Nat : \E e : P(n, e)}
<1>9. 0 \in T
  <2>1. P(0, [k \in {} |-> 0])
    BY <1>2, <1>8
  <2> HIDE DEF P
  <2> QED
    BY <2>1
<1>10. ASSUME NEW n \in 1..Len(seq), n - 1 \in T PROVE n \in T
  <2>1. PICK e : P(n - 1, e)
    BY <1>10
  <2>2. n \in Nat /\ n - 1 \in Nat /\ seq[n] \in X
    BY <1>1
  <2>3. CASE seq[n] \notin S
    <3>1. f[n] = f[n - 1]
      BY <1>8, <2>3
    <3>2. P(n, e)
      <4>1. \A k \in 1..n : k = n \/ k \in 1..n - 1
        BY <2>2
      <4>2. \A k \in 1..n - 1 : k \in 1..n
        BY <2>2
      <4> QED
        BY <2>1, <2>3, <3>1, <4>1, <4>2
    <3> HIDE DEF P
    <3> QED
      BY <2>2, <3>2
  <2>4. CASE seq[n] \in S
    <3> DEFINE m == Len(f[n - 1])
               d == [k \in 1..m + 1 |-> IF k = m + 1 THEN n ELSE e[k]]
    <3>1. f[n] = Append(f[n - 1], seq[n])
      BY <1>8, <2>4
    <3>2. f[n - 1] \in Seq(X) /\ m \in Nat
      <4>1. f[n - 1] \in Seq(X)
        BY <2>1
      <4>2. \A s \in Seq(X) : Len(s) \in Nat
        BY LenProperties
      <4>3. Len(f[n - 1]) \in Nat
        BY <4>1, <4>2, Zenon
      <4> QED
        BY <4>1, <4>3, Zenon
    <3>3. /\ f[n] \in Seq(X) /\ Len(f[n]) = m + 1
          /\ \A k \in 1..m : f[n][k] = f[n - 1][k]
          /\ f[n][m + 1] = seq[n]
      BY <2>2, <3>1, <3>2, AppendProperties
    <3>4. \A k \in 1..m + 1 : k = m + 1 \/ k \in 1..m
      <4>1. m \in Nat
        BY <3>2
      <4> HIDE DEF m
      <4> QED
        BY <4>1
    <3>5. /\ \A k \in 1..m : e[k] \in 1..n - 1
          /\ \A j, k \in 1..m : j < k => e[j] < e[k]
          /\ \A k \in 1..m : f[n - 1][k] = seq[e[k]] /\ seq[e[k]] \in S
          /\ \A k \in 1..n - 1 : seq[k] \in S => \E j \in 1..m : e[j] = k
      BY <2>1
    <3> HIDE DEF m, F, T
    <3>6. d \in [1..m + 1 -> 1..n]
      BY <2>2, <3>4, <3>5
    <3>7. \A j, k \in 1..m + 1 : j < k => d[j] < d[k]
      <4> SUFFICES ASSUME NEW j \in 1..m + 1, NEW k \in 1..m + 1, j < k PROVE d[j] < d[k]
        OBVIOUS
      <4>1. j \in 1..m /\ j # m + 1
        BY <3>2
      <4>2. d[j] = e[j] /\ e[j] \in 1..n - 1
        BY <3>5, <4>1
      <4>3. CASE k = m + 1
        BY <2>2, <4>2, <4>3
      <4>4. CASE k \in 1..m
        BY <3>2, <3>5, <4>1, <4>2, <4>4
      <4> QED
        BY <3>4, <4>3, <4>4
    <3>8. \A k \in 1..m + 1 : f[n][k] = seq[d[k]] /\ seq[d[k]] \in S
      <4> SUFFICES ASSUME NEW k \in 1..m + 1 PROVE f[n][k] = seq[d[k]] /\ seq[d[k]] \in S
        OBVIOUS
      <4>1. CASE k = m + 1
        BY <2>4, <3>3, <4>1
      <4>2. CASE k \in 1..m
        <5>1. k # m + 1
          BY <3>2, <4>2
        <5>2. d[k] = e[k]
          BY <5>1
        <5> QED
          BY <3>3, <3>5, <4>2, <5>2
      <4> QED
        BY <3>4, <4>1, <4>2
    <3>9. \A k \in 1..n : seq[k] \in S => \E j \in 1..m + 1 : d[j] = k
      <4> SUFFICES ASSUME NEW k \in 1..n, seq[k] \in S PROVE \E j \in 1..m + 1 : d[j] = k
        OBVIOUS
      <4>1. CASE k = n
        <5>1. m + 1 \in 1..m + 1
          BY <3>2
        <5> QED
          BY <4>1, <5>1
      <4>2. CASE k \in 1..n - 1
        <5>1. PICK j \in 1..m : e[j] = k
          BY <3>5, <4>2
        <5>2. j \in 1..m + 1 /\ j # m + 1
          BY <3>2
        <5> QED
          BY <5>1, <5>2
      <4> QED
        BY <2>2, <4>1, <4>2
    <3>10. P(n, d)
      BY <3>3, <3>6, <3>7, <3>8, <3>9
    <3> HIDE DEF P, d
    <3> QED
      BY <2>2, <3>10 DEF T
  <2> QED
    BY <2>3, <2>4
<1>11. 0..Len(seq) \subseteq T
  <2> HIDE DEF T
  <2> QED
    BY <1>1, <1>9, <1>10, Induction
<1>12. PICK e : P(Len(seq), e)
  <2>1. Len(seq) \in T
    <3> HIDE DEF T
    <3> QED
      BY <1>1, <1>11
  <2> HIDE DEF P
  <2> QED
    BY <2>1
<1> DEFINE t == f[Len(seq)]
<1>13. /\ t \in Seq(X)
       /\ e \in [1..Len(t) -> 1..Len(seq)]
       /\ \A j, k \in 1..Len(t) : j < k => e[j] < e[k]
       /\ \A k \in 1..Len(t) : t[k] = seq[e[k]] /\ seq[e[k]] \in S
       /\ \A k \in 1..Len(seq) : seq[k] \in S => \E j \in 1..Len(t) : e[j] = k
  BY <1>12
<1>14. Selected(seq, S) = t
  BY <1>7
<1> HIDE DEF t, F, P, T
<1>15. Picks(e, t, seq)
  BY <1>13 DEF Picks
<1> QED
  BY <1>13, <1>14, <1>15

LEMMA SelectedIsPart ==
  ASSUME NEW X, NEW seq \in Seq(X), NEW S
  PROVE  /\ Selected(seq, S) \in Seq(X)
         /\ PartOf(Selected(seq, S), seq)
         /\ \A k \in 1..Len(Selected(seq, S)) : Selected(seq, S)[k] \in S
         /\ \A k \in 1..Len(seq) : seq[k] \in S =>
              \E j \in 1..Len(Selected(seq, S)) : Selected(seq, S)[j] = seq[k]
<1> DEFINE t == Selected(seq, S)
<1>1. PICK e :
        /\ Picks(e, t, seq)
        /\ t \in Seq(X)
        /\ \A k \in 1..Len(t) : t[k] = seq[e[k]] /\ seq[e[k]] \in S
        /\ \A k \in 1..Len(seq) : seq[k] \in S => \E j \in 1..Len(t) : e[j] = k
  BY SelectedPicks DEF Picks
<1> HIDE DEF t
<1>2. PartOf(t, seq)
  BY <1>1 DEF PartOf
<1>3. \A k \in 1..Len(t) : t[k] \in S
  BY <1>1
<1>4. \A k \in 1..Len(seq) : seq[k] \in S => \E j \in 1..Len(t) : t[j] = seq[k]
  BY <1>1
<1> QED
  BY <1>1, <1>2, <1>3, <1>4 DEF t

-----------------------------------------------------------------------------
(* What the store does with its files.                                       *)

LEMMA ConcatIsPart ==
  ASSUME NEW X, NEW s \in Seq(X), NEW k \in 0..Len(s), NEW a \in Seq(X),
         PartOf(a, SubSeq(s, 1, k))
  PROVE  /\ a \o SubSeq(s, k + 1, Len(s)) \in Seq(X)
         /\ PartOf(a \o SubSeq(s, k + 1, Len(s)), s)
<1> DEFINE c == SubSeq(s, 1, k)
           b == SubSeq(s, k + 1, Len(s))
           t == a \o b
<1>1. Len(s) \in Nat /\ k \in Nat /\ k <= Len(s)
  BY LenProperties
<1>2. c \in Seq(X) /\ Len(c) = k /\ \A i \in 1..Len(c) : c[i] = s[i]
  BY <1>1, SubSeqIsPart
<1>3. /\ b \in Seq(X) /\ Len(b) = Len(s) - k
      /\ \A i \in 1..Len(b) : b[i] = s[k + i]
  <2>1. k + 1 \in Nat \ {0} /\ Len(s) \in 0..Len(s)
    BY <1>1
  <2>2. /\ b \in Seq(X) /\ Len(b) = IF k + 1 <= Len(s) THEN Len(s) - (k + 1) + 1 ELSE 0
        /\ \A i \in 1..Len(b) : b[i] = s[(k + 1) + i - 1]
    BY <2>1, SubSeqIsPart
  <2>3. Len(b) = Len(s) - k
    BY <1>1, <2>2
  <2> HIDE DEF b
  <2>4. \A i \in 1..Len(b) : (k + 1) + i - 1 = k + i
    BY <1>1
  <2> QED
    BY <2>2, <2>3, <2>4
<1>4. PICK e : Picks(e, a, c)
  BY DEF PartOf
<1> HIDE DEF c, b
<1>5. Len(a) \in Nat /\ Len(b) \in Nat
  BY <1>3, LenProperties
<1>6. /\ t \in Seq(X) /\ Len(t) = Len(a) + Len(b)
      /\ \A i \in 1..Len(a) + Len(b) : t[i] = IF i <= Len(a) THEN a[i] ELSE b[i - Len(a)]
  BY <1>3, ConcatProperties
<1> HIDE DEF t
<1> DEFINE g == [i \in 1..Len(t) |-> IF i <= Len(a) THEN e[i] ELSE k + (i - Len(a))]
<1>7. \A i \in 1..Len(a) : e[i] \in 1..k /\ a[i] = s[e[i]]
  BY <1>2, <1>4 DEF Picks
<1>8. \A i \in 1..Len(t) : i <= Len(a) => i \in 1..Len(a)
  BY <1>5, <1>6
<1>9. \A i \in 1..Len(t) : ~(i <= Len(a)) => i - Len(a) \in 1..Len(b)
  BY <1>5, <1>6
<1>10. ASSUME NEW i \in 1..Len(t) PROVE g[i] \in 1..Len(s) /\ t[i] = s[g[i]]
  <2>1. CASE i <= Len(a)
    BY <1>1, <1>6, <1>7, <1>8, <2>1
  <2>2. CASE ~(i <= Len(a))
    <3>1. i - Len(a) \in 1..Len(b) /\ g[i] = k + (i - Len(a)) /\ t[i] = b[i - Len(a)]
      BY <1>6, <1>9, <2>2
    <3>2. t[i] = s[k + (i - Len(a))]
      BY <1>3, <3>1
    <3>3. k + (i - Len(a)) \in 1..Len(s)
      BY <1>1, <1>3, <1>5, <3>1
    <3> QED
      BY <3>1, <3>2, <3>3
  <2> QED
    BY <2>1, <2>2
<1>11. ASSUME NEW i \in 1..Len(t), NEW j \in 1..Len(t), i < j PROVE g[i] < g[j]
  <2>1. CASE j <= Len(a)
    <3>1. i <= Len(a)
      BY <1>5, <1>6, <1>11, <2>1
    <3> QED
      BY <1>4, <1>8, <1>11, <2>1, <3>1 DEF Picks
  <2>2. CASE ~(j <= Len(a)) /\ i <= Len(a)
    <3>1. g[i] \in 1..k /\ g[j] = k + (j - Len(a)) /\ j - Len(a) \in 1..Len(b)
      BY <1>7, <1>8, <1>9, <2>2
    <3> HIDE DEF g
    <3> QED
      BY <1>1, <1>5, <3>1
  <2>3. CASE ~(j <= Len(a)) /\ ~(i <= Len(a))
    BY <1>1, <1>5, <1>6, <1>11, <2>3
  <2> QED
    BY <2>1, <2>2, <2>3
<1>12. Picks(g, t, s)
  BY <1>10, <1>11 DEF Picks
<1>13. PartOf(t, s)
  BY <1>12 DEF PartOf
<1> QED
  BY <1>6, <1>13 DEF t, b

LEMMA WithoutIsPart ==
  ASSUME NEW X, NEW fs \in Seq(X), NEW k \in 0..Len(fs), NEW s, NEW n
  PROVE  Without(fs, k, s, n) \in Seq(X) /\ PartOf(Without(fs, k, s, n), fs)
<1>1. Len(fs) \in Nat
  BY LenProperties
<1>2. SubSeq(fs, 1, k) \in Seq(X)
  BY <1>1, SubSeqIsPart
<1> DEFINE a == Selected(SubSeq(fs, 1, k), {f \in Range(fs) : IsFile(f, s, n)})
<1>3. a \in Seq(X) /\ PartOf(a, SubSeq(fs, 1, k))
  BY <1>2, SelectedIsPart
<1>4. Without(fs, k, s, n) = a \o SubSeq(fs, k + 1, Len(fs))
  BY DEF Without
<1> HIDE DEF a
<1> QED
  BY <1>3, <1>4, ConcatIsPart

\* Pruning takes files away and leaves the order of the rest.
LEMMA PrunedIsPart ==
  ASSUME NEW X, NEW fs \in Seq(X), NEW old \in 0..Len(fs), NEW s, NEW n
  PROVE  Pruned(fs, old, s, n) \in Seq(X) /\ PartOf(Pruned(fs, old, s, n), fs)
<1> DEFINE young == Without(fs, old, s, n)
           enough == {k \in 0..Len(young) :
                        \/ TotalLines(Without(young, k, s, n)) <= RetainedLines
                        \/ k = Len(young)}
<1>1. young \in Seq(X) /\ PartOf(young, fs)
  BY WithoutIsPart
<1>2. Pruned(fs, old, s, n) = Without(young, Min(enough), s, n)
  BY DEF Pruned
<1> HIDE DEF young
<1>3. Len(young) \in Nat
  BY <1>1, LenProperties
<1>4. enough \subseteq Nat /\ enough # {} /\ enough \subseteq 0..Len(young)
  BY <1>3
<1> HIDE DEF enough
<1>5. \E x \in enough : \A y \in enough : x <= y
  <2>1. PICK x \in enough : \A y \in enough : ~(y < x)
    BY <1>4, LeastNat
  <2> QED
    BY <1>4, <2>1
<1>6. Min(enough) \in 0..Len(young)
  BY <1>4, <1>5 DEF Min
<1>7. /\ Without(young, Min(enough), s, n) \in Seq(X)
      /\ PartOf(Without(young, Min(enough), s, n), young)
  BY <1>1, <1>6, WithoutIsPart
<1> QED
  BY <1>1, <1>2, <1>7, PartOfPart

Longer(file, line) == [file EXCEPT !.lines = Append(@, line)]

\* Appending takes the file, or a new one without a header, to the end.
Splits(fs, s, n, line, rest, file) ==
  /\ rest \in Seq(File)
  /\ file \in File
  /\ Appended(fs, s, n, line) = Append(rest, Longer(file, line))
  /\ PartOf(rest, fs)
  /\ \A k \in 1..Len(rest) : ~IsFile(rest[k], s, n)
  /\ IsFile(file, s, n)
  /\ \/ \E k \in 1..Len(fs) : file = fs[k]
     \/ ~file.header /\ file.lines = <<>>

LEMMA AppendedSplits ==
  ASSUME NEW fs \in Seq(File), NEW s \in Nat \ {0}, NEW n \in Nat \ {0},
         NEW line \in Observation \cup {Saved}
  PROVE  \E rest, file : Splits(fs, s, n, line, rest, file)
<1> DEFINE mine == {f \in Range(fs) : IsFile(f, s, n)}
           empty == [session |-> s, chunk |-> n, header |-> FALSE, lines |-> <<>>]
           file == IF mine = {} THEN empty ELSE CHOOSE f \in mine : TRUE
           rest == Selected(fs, Range(fs) \ mine)
<1>1. Appended(fs, s, n, line) = Append(rest, Longer(file, line))
  BY DEF Appended, Longer
<1>2. DOMAIN fs = 1..Len(fs) /\ Len(fs) \in Nat /\ \A k \in 1..Len(fs) : fs[k] \in File
  BY LenProperties
<1>3. empty \in File
  <2>1. <<>> \in Seq(Observation \cup {Saved})
    BY EmptySeq
  <2> QED
    BY <2>1 DEF File
<1>4. /\ file \in File /\ IsFile(file, s, n)
      /\ (\E k \in 1..Len(fs) : file = fs[k]) \/ (~file.header /\ file.lines = <<>>)
  <2>1. CASE mine = {}
    BY <1>3, <2>1 DEF IsFile
  <2>2. CASE mine # {}
    <3>1. file \in mine
      BY <2>2
    <3> HIDE DEF file
    <3> QED
      BY <1>2, <3>1 DEF Range
  <2> QED
    BY <2>1, <2>2
<1>5. /\ rest \in Seq(File) /\ PartOf(rest, fs)
      /\ \A k \in 1..Len(rest) : rest[k] \in Range(fs) \ mine
  BY SelectedIsPart
<1>6. \A k \in 1..Len(rest) : ~IsFile(rest[k], s, n)
  BY <1>5
<1> HIDE DEF file, rest
<1>7. Splits(fs, s, n, line, rest, file)
  BY <1>1, <1>4, <1>5, <1>6 DEF Splits
<1> QED
  BY <1>7

LEMMA LongerFile ==
  ASSUME NEW file \in File, NEW line \in Observation \cup {Saved}
  PROVE  /\ Longer(file, line) \in File
         /\ Longer(file, line).session = file.session
         /\ Longer(file, line).chunk = file.chunk
         /\ Longer(file, line).header = file.header
         /\ Len(file.lines) \in Nat
         /\ Len(Longer(file, line).lines) = Len(file.lines) + 1
         /\ \A a \in 1..Len(file.lines) : Longer(file, line).lines[a] = file.lines[a]
         /\ Longer(file, line).lines[Len(file.lines) + 1] = line
<1> DEFINE longer == Longer(file, line)
<1>1. file.lines \in Seq(Observation \cup {Saved})
  BY DEF File
<1>2. longer.lines = Append(file.lines, line)
  BY DEF File, Longer
<1>3. /\ Len(file.lines) \in Nat
      /\ longer.lines \in Seq(Observation \cup {Saved})
      /\ Len(longer.lines) = Len(file.lines) + 1
      /\ \A a \in 1..Len(file.lines) : longer.lines[a] = file.lines[a]
      /\ longer.lines[Len(file.lines) + 1] = line
  BY <1>1, <1>2, AppendProperties, LenProperties
<1>4. /\ longer \in File /\ longer.session = file.session /\ longer.chunk = file.chunk
      /\ longer.header = file.header
  BY <1>2, <1>3 DEF File, Longer
<1> QED
  BY <1>3, <1>4

LEMMA NewChunkIsFile ==
  ASSUME NEW s \in Nat \ {0}, NEW n \in Nat \ {0}
  PROVE  NewChunk(s, n) \in File /\ Len(NewChunk(s, n).lines) = 0
<1>1. <<>> \in Seq(Observation \cup {Saved}) /\ Len(<<>>) = 0
  BY EmptySeq
<1> QED
  BY <1>1 DEF File, NewChunk

-----------------------------------------------------------------------------
(* Loading.                                                                  *)

Rising(seq) == \A j, k \in 1..Len(seq) : j < k => seq[j].sequence < seq[k].sequence

\* No number of the one is a number of the other.
Apart(S, T) == \A o \in S, p \in T : o.sequence # p.sequence

LEMMA RangeIs ==
  ASSUME NEW X, NEW seq \in Seq(X)
  PROVE  /\ Range(seq) \subseteq X
         /\ Len(seq) \in Nat
         /\ DOMAIN seq = 1..Len(seq)
         /\ \A k \in 1..Len(seq) : seq[k] \in X /\ seq[k] \in Range(seq)
         /\ \A o \in Range(seq) : \E k \in 1..Len(seq) : o = seq[k]
BY LenProperties DEF Range

LEMMA PlacedAt ==
  ASSUME NEW seq \in Seq(Observation), NEW o \in Observation, NEW p \in 0..Len(seq)
  PROVE  LET t == InsertAt(seq, 1 + p, o)
         IN  /\ t \in Seq(Observation)
             /\ Len(t) = Len(seq) + 1
             /\ \A i \in 1..p : t[i] = seq[i]
             /\ t[p + 1] = o
             /\ \A i \in p + 1..Len(seq) : t[i + 1] = seq[i]
<1> DEFINE a == SubSeq(seq, 1, p)
           b == SubSeq(seq, 1 + p, Len(seq))
           m == <<o>>
           t == (a \o m) \o b
<1>1. InsertAt(seq, 1 + p, o) = t
  <2>1. (1 + p) - 1 = p
    BY LenProperties
  <2> QED
    BY <2>1 DEF InsertAt
<1>2. Len(seq) \in Nat /\ p \in Nat /\ p <= Len(seq) /\ Len(seq) - p \in Nat
  BY LenProperties
<1>3. a \in Seq(Observation) /\ Len(a) = p /\ \A i \in 1..p : a[i] = seq[i]
  BY <1>2, SubSeqIsPart
<1>4. /\ b \in Seq(Observation) /\ Len(b) = Len(seq) - p
      /\ \A i \in 1..Len(b) : b[i] = seq[p + i]
  <2>1. 1 + p \in Nat \ {0} /\ Len(seq) \in 0..Len(seq)
    BY <1>2
  <2>2. /\ b \in Seq(Observation)
        /\ Len(b) = IF 1 + p <= Len(seq) THEN Len(seq) - (1 + p) + 1 ELSE 0
        /\ \A i \in 1..Len(b) : b[i] = seq[(1 + p) + i - 1]
    BY <2>1, SubSeqIsPart
  <2> HIDE DEF b
  <2>3. Len(b) = Len(seq) - p
    BY <1>2, <2>2
  <2>4. \A i \in 1..Len(b) : (1 + p) + i - 1 = p + i
    BY <1>2
  <2> QED
    BY <2>2, <2>3, <2>4
<1>5. m \in Seq(Observation) /\ Len(m) = 1 /\ m[1] = o
  OBVIOUS
<1> HIDE DEF a, b, m
<1>6. /\ a \o m \in Seq(Observation) /\ Len(a \o m) = p + 1
      /\ \A i \in 1..p + 1 : (a \o m)[i] = IF i <= p THEN a[i] ELSE m[i - p]
  <2>1. /\ a \o m \in Seq(Observation) /\ Len(a \o m) = Len(a) + Len(m)
        /\ \A i \in 1..Len(a) + Len(m) :
             (a \o m)[i] = IF i <= Len(a) THEN a[i] ELSE m[i - Len(a)]
    BY <1>3, <1>5, ConcatProperties
  <2> QED
    BY <1>3, <1>5, <2>1
<1>7. /\ \A i \in 1..p : (a \o m)[i] = seq[i]
      /\ (a \o m)[p + 1] = o
  <2>1. \A i \in 1..p : i \in 1..p + 1 /\ i <= p
    BY <1>2
  <2>2. p + 1 \in 1..p + 1 /\ ~(p + 1 <= p) /\ (p + 1) - p = 1
    BY <1>2
  <2> QED
    BY <1>3, <1>5, <1>6, <2>1, <2>2
<1> DEFINE c == a \o m
<1> HIDE DEF c
<1>8. /\ c \in Seq(Observation) /\ Len(c) = p + 1
      /\ \A i \in 1..p : c[i] = seq[i]
      /\ c[p + 1] = o
  BY <1>6, <1>7 DEF c
<1>9. /\ c \o b \in Seq(Observation) /\ Len(c \o b) = (p + 1) + (Len(seq) - p)
      /\ \A i \in 1..(p + 1) + (Len(seq) - p) :
           (c \o b)[i] = IF i <= p + 1 THEN c[i] ELSE b[i - (p + 1)]
  <2>1. /\ c \o b \in Seq(Observation) /\ Len(c \o b) = Len(c) + Len(b)
        /\ \A i \in 1..Len(c) + Len(b) :
             (c \o b)[i] = IF i <= Len(c) THEN c[i] ELSE b[i - Len(c)]
    BY <1>4, <1>8, ConcatProperties
  <2> QED
    BY <1>4, <1>8, <2>1
<1>10. t = c \o b
  BY DEF c
<1> HIDE DEF t
<1>11. Len(t) = Len(seq) + 1 /\ t \in Seq(Observation)
  BY <1>2, <1>9, <1>10
<1>12. \A i \in 1..Len(seq) + 1 : t[i] = IF i <= p + 1 THEN c[i] ELSE b[i - (p + 1)]
  <2>1. (p + 1) + (Len(seq) - p) = Len(seq) + 1
    BY <1>2
  <2> QED
    BY <1>9, <1>10, <2>1
<1>13. ASSUME NEW i \in 1..p PROVE t[i] = seq[i]
  <2>1. i \in 1..Len(seq) + 1 /\ i <= p + 1
    BY <1>2
  <2> QED
    BY <1>8, <1>12, <2>1
<1>14. t[p + 1] = o
  <2>1. p + 1 \in 1..Len(seq) + 1 /\ p + 1 <= p + 1
    BY <1>2
  <2> QED
    BY <1>8, <1>12, <2>1
<1>15. ASSUME NEW i \in p + 1..Len(seq) PROVE t[i + 1] = seq[i]
  <2>1. /\ i + 1 \in 1..Len(seq) + 1 /\ ~(i + 1 <= p + 1)
        /\ i - p \in 1..Len(b) /\ (i + 1) - (p + 1) = i - p /\ p + (i - p) = i
    BY <1>2, <1>4
  <2> QED
    BY <1>4, <1>12, <2>1
<1> QED
  BY <1>1, <1>11, <1>13, <1>14, <1>15

LEMMA IntervalSize ==
  ASSUME NEW n \in Nat
  PROVE  IsFiniteSet(1..n) /\ Cardinality(1..n) = n
<1>1. 1 \in Int /\ n \in Int
  OBVIOUS
<1>2. IsFiniteSet(1..n) /\ Cardinality(1..n) = IF 1 > n THEN 0 ELSE n - 1 + 1
  BY <1>1, FS_Interval
<1> QED
  BY <1>2

LEMMA PlacedProperties ==
  ASSUME NEW seq \in Seq(Observation), NEW o \in Observation
  PROVE  /\ Placed(seq, o) \in Seq(Observation)
         /\ Range(Placed(seq, o)) = Range(seq) \cup {o}
         /\ Rising(seq) /\ Apart(Range(seq), {o}) => Rising(Placed(seq, o))
<1> DEFINE C == {k \in DOMAIN seq : seq[k].sequence <= o.sequence}
           p == Cardinality(C)
           t == Placed(seq, o)
<1>1. /\ Len(seq) \in Nat /\ DOMAIN seq = 1..Len(seq)
      /\ \A k \in 1..Len(seq) : seq[k] \in Observation
  BY RangeIs
<1>2. IsFiniteSet(1..Len(seq)) /\ Cardinality(1..Len(seq)) = Len(seq)
  BY <1>1, IntervalSize
<1>3. p \in 0..Len(seq)
  <2>1. C \in SUBSET (1..Len(seq))
    BY <1>1
  <2> HIDE DEF C
  <2>2. IsFiniteSet(C) /\ Cardinality(C) <= Len(seq)
    BY <1>2, <2>1, FS_Subset
  <2>3. Cardinality(C) \in Nat
    BY <2>2, FS_CardinalityType
  <2> QED
    BY <1>1, <2>2, <2>3
<1>4. t = InsertAt(seq, 1 + p, o)
  BY DEF Placed
<1>5. Rising(seq) => C = 1..p
  <2> SUFFICES ASSUME Rising(seq) PROVE C = 1..p
    OBVIOUS
  <2> DEFINE M == {k \in 1..Len(seq) + 1 : k = Len(seq) + 1 \/ k \notin C}
  <2>1. M \subseteq Nat /\ M # {}
    <3>1. Len(seq) + 1 \in M
      BY <1>1
    <3> QED
      BY <3>1
  <2>2. PICK x \in M : \A y \in M : ~(y < x)
    <3> HIDE DEF M
    <3> QED
      BY <2>1, LeastNat
  <2>3. x \in Nat /\ x \in 1..Len(seq) + 1 /\ (x = Len(seq) + 1 \/ x \notin C)
    BY <1>1, <2>2
  <2>4. \A k \in 1..x - 1 : k \in C
    <3> SUFFICES ASSUME NEW k \in 1..x - 1 PROVE k \in C
      OBVIOUS
    <3>1. k \in 1..Len(seq) + 1 /\ k < x
      BY <1>1, <2>3
    <3> QED
      BY <2>2, <3>1
  <2>5. \A k \in C : k \in 1..x - 1
    <3> SUFFICES ASSUME NEW k \in C, ~(k < x) PROVE FALSE
      BY <1>1, <2>3
    <3>1. k \in 1..Len(seq) /\ seq[k].sequence <= o.sequence
      BY <1>1
    <3>2. x \in 1..Len(seq) /\ x \notin C /\ x # k /\ x < k
      BY <1>1, <2>3, <3>1
    <3>3. seq[x].sequence < seq[k].sequence
      BY <3>1, <3>2 DEF Rising
    <3>4. seq[x].sequence \in Nat /\ seq[k].sequence \in Nat /\ o.sequence \in Nat
      BY <1>1, <3>1, <3>2 DEF Observation
    <3>5. seq[x].sequence <= o.sequence
      BY <3>1, <3>3, <3>4
    <3> QED
      BY <1>1, <3>2, <3>5
  <2>6. C = 1..x - 1
    BY <2>4, <2>5
  <2>7. Cardinality(1..x - 1) = x - 1
    <3>1. x - 1 \in Nat
      BY <2>3
    <3> QED
      BY <3>1, IntervalSize
  <2> HIDE DEF C
  <2> QED
    BY <2>6, <2>7
<1>6. /\ t \in Seq(Observation) /\ Len(t) = Len(seq) + 1
      /\ \A i \in 1..p : t[i] = seq[i]
      /\ t[p + 1] = o
      /\ \A i \in p + 1..Len(seq) : t[i + 1] = seq[i]
  <2> HIDE DEF p, t
  <2> QED
    BY <1>3, <1>4, PlacedAt
<1>7. C = 1..p => \A k \in 1..Len(seq) : seq[k].sequence <= o.sequence <=> k <= p
  BY <1>1, <1>3
<1> HIDE DEF C, p, t
<1>8. \A i \in 1..Len(t) : /\ i < p + 1 => i \in 1..p
                           /\ p + 1 < i => /\ i - 1 \in p + 1..Len(seq)
                                           /\ t[i] = seq[i - 1]
  <2> SUFFICES ASSUME NEW i \in 1..Len(t)
               PROVE  /\ i < p + 1 => i \in 1..p
                      /\ p + 1 < i => /\ i - 1 \in p + 1..Len(seq)
                                      /\ t[i] = seq[i - 1]
    OBVIOUS
  <2>1. i < p + 1 => i \in 1..p
    BY <1>1, <1>3, <1>6
  <2>2. p + 1 < i => i - 1 \in p + 1..Len(seq) /\ (i - 1) + 1 = i
    BY <1>1, <1>3, <1>6
  <2> QED
    BY <1>6, <2>1, <2>2
<1>9. Range(t) = Range(seq) \cup {o}
  <2>1. ASSUME NEW x \in Range(t) PROVE x \in Range(seq) \cup {o}
    <3>1. PICK i \in 1..Len(t) : x = t[i]
      BY <1>6, RangeIs
    <3>2. CASE i = p + 1
      BY <1>6, <3>1, <3>2
    <3>3. CASE i < p + 1
      <4>1. i \in 1..p /\ i \in 1..Len(seq)
        BY <1>1, <1>3, <1>8, <3>3
      <4> QED
        BY <1>6, <3>1, <4>1, RangeIs
    <3>4. CASE p + 1 < i
      <4>1. i - 1 \in 1..Len(seq) /\ t[i] = seq[i - 1]
        BY <1>1, <1>3, <1>8, <3>4
      <4> QED
        BY <3>1, <4>1, RangeIs
    <3> QED
      BY <1>3, <3>2, <3>3, <3>4
  <2>2. ASSUME NEW x \in Range(seq) PROVE x \in Range(t)
    <3>1. PICK i \in 1..Len(seq) : x = seq[i]
      BY RangeIs
    <3>2. CASE i <= p
      <4>1. i \in 1..p /\ i \in 1..Len(t)
        BY <1>1, <1>3, <1>6, <3>2
      <4> QED
        BY <1>6, <3>1, <4>1, RangeIs
    <3>3. CASE ~(i <= p)
      <4>1. i \in p + 1..Len(seq) /\ i + 1 \in 1..Len(t)
        BY <1>1, <1>3, <1>6, <3>3
      <4> QED
        BY <1>6, <3>1, <4>1, RangeIs
    <3> QED
      BY <3>2, <3>3
  <2>3. o \in Range(t)
    <3>1. p + 1 \in 1..Len(t)
      BY <1>1, <1>3, <1>6
    <3> QED
      BY <1>6, <3>1, RangeIs
  <2> QED
    BY <2>1, <2>2, <2>3
<1>10. ASSUME Rising(seq), Apart(Range(seq), {o}) PROVE Rising(t)
  <2>1. \A k \in 1..Len(seq) : /\ k <= p => seq[k].sequence < o.sequence
                               /\ ~(k <= p) => o.sequence < seq[k].sequence
    <3> SUFFICES ASSUME NEW k \in 1..Len(seq)
                 PROVE  /\ k <= p => seq[k].sequence < o.sequence
                        /\ ~(k <= p) => o.sequence < seq[k].sequence
      OBVIOUS
    <3>1. seq[k].sequence # o.sequence
      BY <1>10, RangeIs DEF Apart
    <3>2. seq[k].sequence \in Nat /\ o.sequence \in Nat
      BY <1>1 DEF Observation
    <3>3. seq[k].sequence <= o.sequence <=> k <= p
      BY <1>5, <1>7, <1>10
    <3> QED
      BY <3>1, <3>2, <3>3
  <2>2. ASSUME NEW i \in 1..Len(t), NEW j \in 1..Len(t), i < j
        PROVE  t[i].sequence < t[j].sequence
    <3>0. \A a, b \in 1..Len(seq) : a < b => seq[a].sequence < seq[b].sequence
      BY <1>10 DEF Rising
    <3>1. CASE j < p + 1
      <4>1. i \in 1..p /\ j \in 1..p /\ i \in 1..Len(seq) /\ j \in 1..Len(seq)
        BY <1>1, <1>3, <1>8, <2>2, <3>1
      <4> QED
        BY <1>6, <2>2, <3>0, <4>1
    <3>2. CASE j = p + 1
      <4>1. i \in 1..p /\ i \in 1..Len(seq) /\ i <= p
        BY <1>1, <1>3, <1>8, <2>2, <3>2
      <4> QED
        BY <1>6, <2>1, <3>2, <4>1
    <3>3. CASE p + 1 < j /\ i < p + 1
      <4>1. /\ i \in 1..p /\ i \in 1..Len(seq) /\ j - 1 \in 1..Len(seq)
            /\ i < j - 1 /\ t[j] = seq[j - 1] /\ t[i] = seq[i]
        BY <1>1, <1>3, <1>6, <1>8, <3>3
      <4> QED
        BY <3>0, <4>1
    <3>4. CASE p + 1 < j /\ i = p + 1
      <4>1. j - 1 \in 1..Len(seq) /\ ~(j - 1 <= p) /\ t[j] = seq[j - 1]
        BY <1>1, <1>3, <1>8, <3>4
      <4> QED
        BY <1>6, <2>1, <3>4, <4>1
    <3>5. CASE p + 1 < j /\ p + 1 < i
      <4>1. /\ i - 1 \in 1..Len(seq) /\ j - 1 \in 1..Len(seq) /\ i - 1 < j - 1
            /\ t[j] = seq[j - 1] /\ t[i] = seq[i - 1]
        BY <1>1, <1>3, <1>8, <2>2, <3>5
      <4> QED
        BY <3>0, <4>1
    <3> QED
      BY <1>3, <3>1, <3>2, <3>3, <3>4, <3>5
  <2> QED
    BY <2>2 DEF Rising
<1> QED
  BY <1>6, <1>9, <1>10 DEF t

LEMMA MergedFolds ==
  ASSUME NEW seq \in Seq(Observation), NEW lines \in Seq(Observation)
  PROVE  \E f \in [0..Len(lines) -> Seq(Observation)] :
           /\ f[0] = seq
           /\ \A n \in 1..Len(lines) : f[n] = Placed(f[n - 1], lines[n])
           /\ Merged(seq, lines) = f[Len(lines)]
<1> DEFINE F(f) == f = [n \in 0..Len(lines) |->
                          IF n = 0 THEN seq ELSE Placed(f[n - 1], lines[n])]
           step == [p \in Seq(Observation) \X Observation |-> Placed(p[1], p[2])]
<1>1. Len(lines) \in Nat /\ \A n \in 1..Len(lines) : lines[n] \in Observation
  BY LenProperties
<1>2. step \in [Seq(Observation) \X Observation -> Seq(Observation)]
  <2>1. \A s \in Seq(Observation), o \in Observation : Placed(s, o) \in Seq(Observation)
    BY PlacedProperties
  <2> QED
    BY <2>1
<1>3. PICK g \in [0..Len(lines) -> Seq(Observation)] : Folds(g, seq, step, lines)
  <2> HIDE DEF step
  <2> QED
    BY <1>2, FoldExists
<1>4. /\ g[0] = seq
      /\ \A n \in 1..Len(lines) : g[n] = Placed(g[n - 1], lines[n])
  <2>1. ASSUME NEW n \in 1..Len(lines) PROVE g[n] = Placed(g[n - 1], lines[n])
    <3>1. g[n - 1] \in Seq(Observation) /\ lines[n] \in Observation
      BY <1>1
    <3>2. step[<<g[n - 1], lines[n]>>] = Placed(g[n - 1], lines[n])
      BY <3>1
    <3> QED
      BY <1>3, <3>2 DEF Folds
  <2> QED
    BY <1>3, <2>1 DEF Folds
<1>5. F(g)
  BY <1>1, <1>4
<1>6. PICK f : F(f) /\ Merged(seq, lines) = f[Len(lines)]
  BY <1>5 DEF Merged
<1>7. f[0] = seq /\ \A n \in 1..Len(lines) : f[n] = Placed(f[n - 1], lines[n])
  <2>1. 0 \in 0..Len(lines) /\ \A n \in 1..Len(lines) : n \in 0..Len(lines) /\ n # 0
    BY <1>1
  <2>2. f = [n \in 0..Len(lines) |-> IF n = 0 THEN seq ELSE Placed(f[n - 1], lines[n])]
    BY <1>6
  <2> HIDE DEF F
  <2>3. \A n \in 0..Len(lines) : f[n] = IF n = 0 THEN seq ELSE Placed(f[n - 1], lines[n])
    BY ONLY <2>2, Zenon
  <2> QED
    BY <2>1, <2>3, Zenon
<1>8. f[Len(lines)] = g[Len(lines)]
  <2> DEFINE T == {n \in Nat : f[n] = g[n]}
  <2>1. 0 \in T
    BY <1>4, <1>7
  <2>2. ASSUME NEW n \in 1..Len(lines), n - 1 \in T PROVE n \in T
    <3>1. f[n] = Placed(f[n - 1], lines[n]) /\ g[n] = Placed(g[n - 1], lines[n])
      BY <1>4, <1>7
    <3>2. f[n - 1] = g[n - 1]
      BY <2>2
    <3>3. f[n] = g[n]
      BY <3>1, <3>2
    <3> QED
      BY <1>1, <3>3
  <2> HIDE DEF T
  <2>3. 0..Len(lines) \subseteq T
    BY <1>1, <2>1, <2>2, Induction
  <2>4. Len(lines) \in T
    BY <1>1, <2>3
  <2> QED
    BY <2>4 DEF T
<1> QED
  BY <1>4, <1>6, <1>8

LEMMA MergedProperties ==
  ASSUME NEW seq \in Seq(Observation), NEW lines \in Seq(Observation)
  PROVE  /\ Merged(seq, lines) \in Seq(Observation)
         /\ Range(Merged(seq, lines)) = Range(seq) \cup Range(lines)
         /\ Rising(seq) /\ Rising(lines) /\ Apart(Range(seq), Range(lines))
              => Rising(Merged(seq, lines))
<1>1. PICK f \in [0..Len(lines) -> Seq(Observation)] :
        /\ f[0] = seq
        /\ \A n \in 1..Len(lines) : f[n] = Placed(f[n - 1], lines[n])
        /\ Merged(seq, lines) = f[Len(lines)]
  BY MergedFolds
<1>2. Len(lines) \in Nat /\ \A n \in 1..Len(lines) : lines[n] \in Observation
  BY LenProperties
<1> DEFINE Fine == Rising(seq) /\ Rising(lines) /\ Apart(Range(seq), Range(lines))
           first(n) == {lines[k] : k \in 1..n}
           T == {n \in Nat : /\ Range(f[n]) = Range(seq) \cup first(n)
                             /\ Fine => Rising(f[n])}
<1>3. 0 \in T
  <2>1. first(0) = {}
    OBVIOUS
  <2> QED
    BY <1>1, <2>1
<1>4. ASSUME NEW n \in 1..Len(lines), n - 1 \in T PROVE n \in T
  <2>1. /\ n \in Nat /\ f[n - 1] \in Seq(Observation) /\ lines[n] \in Observation
        /\ f[n] = Placed(f[n - 1], lines[n])
    BY <1>1, <1>2
  <2>2. /\ Range(f[n - 1]) = Range(seq) \cup first(n - 1)
        /\ Fine => Rising(f[n - 1])
    BY <1>4
  <2>3. Range(f[n]) = Range(f[n - 1]) \cup {lines[n]}
    BY <2>1, PlacedProperties
  <2>4. first(n) = first(n - 1) \cup {lines[n]}
    <3>1. \A k \in 1..n : k = n \/ k \in 1..n - 1
      BY <2>1
    <3>2. \A k \in 1..n - 1 : k \in 1..n
      BY <2>1
    <3>3. n \in 1..n
      BY <2>1
    <3> QED
      BY <3>1, <3>2, <3>3
  <2>5. ASSUME Fine PROVE Rising(f[n])
    <3>1. \A o \in Range(seq) : o.sequence # lines[n].sequence
      BY <2>5, RangeIs DEF Apart
    <3>2. ASSUME NEW k \in 1..n - 1 PROVE lines[k].sequence # lines[n].sequence
      <4>1. k \in 1..Len(lines) /\ k < n
        BY <1>2
      <4>2. lines[k].sequence < lines[n].sequence
        BY <2>5, <4>1 DEF Rising
      <4>3. lines[k].sequence \in Nat /\ lines[n].sequence \in Nat
        BY <1>2, <4>1 DEF Observation
      <4> QED
        BY <4>2, <4>3
    <3>3. Apart(Range(f[n - 1]), {lines[n]})
      BY <2>2, <3>1, <3>2 DEF Apart
    <3> QED
      BY <2>1, <2>2, <2>5, <3>3, PlacedProperties
  <2> HIDE DEF first, Fine
  <2> QED
    BY <2>1, <2>2, <2>3, <2>4, <2>5
<1>5. Len(lines) \in T
  <2> HIDE DEF T
  <2>1. 0..Len(lines) \subseteq T
    BY <1>2, <1>3, <1>4, Induction
  <2> QED
    BY <1>2, <2>1
<1>6. Range(lines) = first(Len(lines))
  BY <1>2, LenProperties DEF Range
<1> QED
  BY <1>1, <1>2, <1>5, <1>6

\* What load takes of a file.
LEMMA ReadableProperties ==
  ASSUME NEW f \in File
  PROVE  /\ Readable(f) \in Seq(Observation)
         /\ ~f.header => Readable(f) = <<>>
         /\ \A k \in 1..Len(Readable(f)) :
              \E a \in 1..Len(f.lines) : Readable(f)[k] = f.lines[a]
         /\ f.header => \A a \in 1..Len(f.lines) :
              f.lines[a] \in Observation => f.lines[a] \in Range(Readable(f))
         /\ (\A a, b \in 1..Len(f.lines) :
               a < b /\ f.lines[a] \in Observation /\ f.lines[b] \in Observation
                 => f.lines[a].sequence < f.lines[b].sequence)
              => Rising(Readable(f))
<1> DEFINE t == Selected(f.lines, Observation)
<1>1. f.lines \in Seq(Observation \cup {Saved}) /\ f.header \in BOOLEAN
  BY DEF File
<1>2. Len(f.lines) \in Nat
  BY <1>1, LenProperties
<1>3. /\ t \in Seq(Observation \cup {Saved})
      /\ \E e : /\ Picks(e, t, f.lines)
                /\ \A k \in 1..Len(t) : f.lines[e[k]] \in Observation
                /\ \A k \in 1..Len(f.lines) : f.lines[k] \in Observation =>
                     \E j \in 1..Len(t) : e[j] = k
  BY <1>1, SelectedPicks
<1> HIDE DEF t
<1>4. PICK e : /\ Picks(e, t, f.lines)
               /\ \A k \in 1..Len(t) : f.lines[e[k]] \in Observation
               /\ \A k \in 1..Len(f.lines) : f.lines[k] \in Observation =>
                    \E j \in 1..Len(t) : e[j] = k
  BY <1>3
<1>5. \A k \in 1..Len(t) :
        t[k] = f.lines[e[k]] /\ e[k] \in 1..Len(f.lines) /\ t[k] \in Observation
  BY <1>4 DEF Picks
<1>6. t \in Seq(Observation)
  <2>1. Len(t) \in Nat /\ t \in [1..Len(t) -> Observation \cup {Saved}]
    BY <1>3, LenProperties
  <2>2. t = [k \in 1..Len(t) |-> t[k]]
    BY <2>1
  <2>3. t \in [1..Len(t) -> Observation]
    BY <1>5, <2>2
  <2> QED
    BY <2>1, <2>3
<1>7. <<>> \in Seq(Observation) /\ Len(<<>>) = 0
  BY EmptySeq
<1>8. Readable(f) = IF f.header THEN t ELSE <<>>
  BY DEF Readable, Observations, t
<1>9. CASE f.header
  <2>1. Readable(f) = t
    BY <1>8, <1>9
  <2>2. \A a \in 1..Len(f.lines) : f.lines[a] \in Observation => f.lines[a] \in Range(t)
    <3> SUFFICES ASSUME NEW a \in 1..Len(f.lines), f.lines[a] \in Observation
                 PROVE  f.lines[a] \in Range(t)
      OBVIOUS
    <3>1. PICK j \in 1..Len(t) : e[j] = a
      BY <1>4
    <3>2. t[j] = f.lines[a]
      BY <1>5, <3>1
    <3>3. t[j] \in Range(t)
      BY <1>6, RangeIs
    <3> QED
      BY <3>2, <3>3
  <2>3. ASSUME \A a, b \in 1..Len(f.lines) :
                 a < b /\ f.lines[a] \in Observation /\ f.lines[b] \in Observation
                   => f.lines[a].sequence < f.lines[b].sequence
        PROVE  Rising(t)
    <3> SUFFICES ASSUME NEW j \in 1..Len(t), NEW k \in 1..Len(t), j < k
                 PROVE  t[j].sequence < t[k].sequence
      BY DEF Rising
    <3>1. e[j] < e[k]
      BY <1>4 DEF Picks
    <3>2. /\ e[j] \in 1..Len(f.lines) /\ e[k] \in 1..Len(f.lines)
          /\ t[j] = f.lines[e[j]] /\ t[k] = f.lines[e[k]]
          /\ f.lines[e[j]] \in Observation /\ f.lines[e[k]] \in Observation
      BY <1>5
    <3> QED
      BY <2>3, <3>1, <3>2
  <2> QED
    BY <1>5, <1>6, <1>9, <2>1, <2>2, <2>3
<1>10. CASE ~f.header
  <2>1. Readable(f) = <<>>
    BY <1>8, <1>10
  <2>2. Rising(<<>>)
    BY <1>7 DEF Rising
  <2> QED
    BY <1>7, <1>10, <2>1, <2>2
<1> QED
  BY <1>1, <1>9, <1>10

LEMMA LoadedFolds ==
  ASSUME NEW fs \in Seq(File)
  PROVE  \E f \in [0..Len(fs) -> Seq(Observation)] :
           /\ f[0] = <<>>
           /\ \A n \in 1..Len(fs) : f[n] = Merged(f[n - 1], Readable(fs[n]))
           /\ Loaded(fs) = f[Len(fs)]
<1> DEFINE F(f) == f = [n \in 0..Len(fs) |->
                          IF n = 0 THEN <<>> ELSE Merged(f[n - 1], Readable(fs[n]))]
           step == [p \in Seq(Observation) \X File |-> Merged(p[1], Readable(p[2]))]
<1>1. Len(fs) \in Nat /\ \A n \in 1..Len(fs) : fs[n] \in File
  BY LenProperties
<1>2. step \in [Seq(Observation) \X File -> Seq(Observation)]
  <2>1. \A s \in Seq(Observation), f \in File :
          Merged(s, Readable(f)) \in Seq(Observation)
    BY MergedProperties, ReadableProperties
  <2> QED
    BY <2>1
<1>3. <<>> \in Seq(Observation)
  BY EmptySeq
<1>4. PICK g \in [0..Len(fs) -> Seq(Observation)] : Folds(g, <<>>, step, fs)
  <2> HIDE DEF step
  <2> QED
    BY <1>2, <1>3, FoldExists
<1>5. /\ g[0] = <<>>
      /\ \A n \in 1..Len(fs) : g[n] = Merged(g[n - 1], Readable(fs[n]))
  <2>1. ASSUME NEW n \in 1..Len(fs) PROVE g[n] = Merged(g[n - 1], Readable(fs[n]))
    <3>1. g[n - 1] \in Seq(Observation) /\ fs[n] \in File
      BY <1>1
    <3>2. step[<<g[n - 1], fs[n]>>] = Merged(g[n - 1], Readable(fs[n]))
      BY <3>1
    <3> QED
      BY <1>4, <3>2 DEF Folds
  <2> QED
    BY <1>4, <2>1 DEF Folds
<1>6. F(g)
  BY <1>1, <1>5
<1>7. PICK f : F(f) /\ Loaded(fs) = f[Len(fs)]
  BY <1>6 DEF Loaded
<1>8. f[0] = <<>> /\ \A n \in 1..Len(fs) : f[n] = Merged(f[n - 1], Readable(fs[n]))
  BY <1>1, <1>7
<1>9. f[Len(fs)] = g[Len(fs)]
  <2> DEFINE T == {n \in Nat : f[n] = g[n]}
  <2>1. 0 \in T
    BY <1>5, <1>8
  <2>2. ASSUME NEW n \in 1..Len(fs), n - 1 \in T PROVE n \in T
    <3>1. /\ f[n] = Merged(f[n - 1], Readable(fs[n]))
          /\ g[n] = Merged(g[n - 1], Readable(fs[n]))
      BY <1>5, <1>8
    <3>2. f[n - 1] = g[n - 1]
      BY <2>2
    <3>3. f[n] = g[n]
      BY <3>1, <3>2
    <3> QED
      BY <1>1, <3>3
  <2> HIDE DEF T
  <2>3. 0..Len(fs) \subseteq T
    BY <1>1, <2>1, <2>2, Induction
  <2>4. Len(fs) \in T
    BY <1>1, <2>3
  <2> QED
    BY <2>4 DEF T
<1> QED
  BY <1>5, <1>7, <1>9

\* What a start restores: the readable lines of all files, and in the order of
\* their numbers when no number was given twice.
LEMMA LoadedProperties ==
  ASSUME NEW fs \in Seq(File)
  PROVE  /\ Loaded(fs) \in Seq(Observation)
         /\ \A o : o \in Range(Loaded(fs)) <=>
                    \E n \in 1..Len(fs) : o \in Range(Readable(fs[n]))
         /\ /\ \A n \in 1..Len(fs) : Rising(Readable(fs[n]))
            /\ \A m, n \in 1..Len(fs) :
                 m # n => Apart(Range(Readable(fs[m])), Range(Readable(fs[n])))
            => Rising(Loaded(fs))
<1>1. PICK f \in [0..Len(fs) -> Seq(Observation)] :
        /\ f[0] = <<>>
        /\ \A n \in 1..Len(fs) : f[n] = Merged(f[n - 1], Readable(fs[n]))
        /\ Loaded(fs) = f[Len(fs)]
  BY LoadedFolds
<1>2. Len(fs) \in Nat /\ \A n \in 1..Len(fs) : fs[n] \in File
  BY LenProperties
<1>3. \A n \in 1..Len(fs) : Readable(fs[n]) \in Seq(Observation)
  BY <1>2, ReadableProperties
<1>4. <<>> \in Seq(Observation) /\ Len(<<>>) = 0 /\ Range(<<>>) = {}
  BY EmptySeq DEF Range
<1> DEFINE Fine == /\ \A n \in 1..Len(fs) : Rising(Readable(fs[n]))
                   /\ \A m, n \in 1..Len(fs) :
                        m # n => Apart(Range(Readable(fs[m])), Range(Readable(fs[n])))
           T == {n \in Nat :
                   /\ \A o : o \in Range(f[n]) <=>
                              \E k \in 1..n : o \in Range(Readable(fs[k]))
                   /\ Fine => Rising(f[n])}
<1>5. 0 \in T
  BY <1>1, <1>4 DEF Rising
<1>6. ASSUME NEW n \in 1..Len(fs), n - 1 \in T PROVE n \in T
  <2>1. /\ n \in Nat /\ f[n - 1] \in Seq(Observation)
        /\ Readable(fs[n]) \in Seq(Observation)
        /\ f[n] = Merged(f[n - 1], Readable(fs[n]))
    <3>1. n \in Nat /\ n - 1 \in 0..Len(fs)
      BY <1>2
    <3>2. f[n] = Merged(f[n - 1], Readable(fs[n]))
      BY <1>1, Zenon
    <3> HIDE DEF Fine, T
    <3> QED
      BY <1>1, <1>3, <3>1, <3>2
  <2>2. /\ \A o : o \in Range(f[n - 1]) <=>
                   \E k \in 1..n - 1 : o \in Range(Readable(fs[k]))
        /\ Fine => Rising(f[n - 1])
    BY <1>6, Zenon
  <2>3. Range(f[n]) = Range(f[n - 1]) \cup Range(Readable(fs[n]))
    BY <2>1, MergedProperties
  <2>4. \A k : k \in 1..n <=> k = n \/ k \in 1..n - 1
    BY <2>1
  <2>5. \A o : o \in Range(f[n]) <=> \E k \in 1..n : o \in Range(Readable(fs[k]))
    <3>1. \A o : o \in Range(f[n]) <=>
                 \/ \E k \in 1..n - 1 : o \in Range(Readable(fs[k]))
                 \/ o \in Range(Readable(fs[n]))
      BY <2>2, <2>3, Zenon
    <3> QED
      BY <2>4, <3>1
  <2>6. ASSUME Fine PROVE Rising(f[n])
    <3>1. \A k \in 1..n - 1 : k # n /\ k \in 1..Len(fs)
      BY <1>2
    <3>2. \A k \in 1..n - 1 : Apart(Range(Readable(fs[k])), Range(Readable(fs[n])))
      BY <2>6, <3>1
    <3>3. Apart(Range(f[n - 1]), Range(Readable(fs[n])))
      <4> SUFFICES ASSUME NEW o \in Range(f[n - 1]), NEW p \in Range(Readable(fs[n]))
                   PROVE  o.sequence # p.sequence
        BY DEF Apart
      <4>1. PICK k \in 1..n - 1 : o \in Range(Readable(fs[k]))
        BY <2>2, Zenon
      <4> QED
        BY <3>2, <4>1 DEF Apart
    <3>4. Rising(Readable(fs[n]))
      BY <2>6
    <3> QED
      BY <2>1, <2>2, <2>6, <3>3, <3>4, MergedProperties
  <2> HIDE DEF Fine
  <2> QED
    BY <2>1, <2>5, <2>6
<1>7. Len(fs) \in T
  <2> HIDE DEF T
  <2>1. 0..Len(fs) \subseteq T
    BY <1>2, <1>5, <1>6, Induction
  <2> QED
    BY <1>2, <2>1
<1>8. Loaded(fs) \in Seq(Observation)
  BY <1>1, <1>2
<1>9. \A o : o \in Range(Loaded(fs)) <=>
             \E n \in 1..Len(fs) : o \in Range(Readable(fs[n]))
  BY <1>1, <1>7
<1> QED
  BY <1>1, <1>7, <1>8, <1>9

-----------------------------------------------------------------------------
(* Types.                                                                    *)

\* Every file, and every observation in it, is of one of the first N sessions.
KnownFiles(fs, N) ==
  /\ fs \in Seq(File)
  /\ \A j \in 1..Len(fs) : /\ fs[j].session \in 1..N
                           /\ \A a \in 1..Len(fs[j].lines) :
                                fs[j].lines[a] \in Observation =>
                                  fs[j].lines[a].session = fs[j].session

KnownRing(r, N) ==
  /\ r \in Seq(Observation)
  /\ \A k \in 1..Len(r) : r[k].session \in 1..N

LEMMA SavedIsNoObservation == Saved \notin Observation
<1>1. DOMAIN Saved = {"saved"}
  BY DEF Saved
<1>2. \A o \in Observation : "sequence" \in DOMAIN o
  BY DEF Observation
<1> QED
  BY <1>1, <1>2

LEMMA FileFields ==
  ASSUME NEW fs \in Seq(File), NEW j \in 1..Len(fs)
  PROVE  /\ fs[j] \in File
         /\ fs[j].session \in Nat \ {0} /\ fs[j].chunk \in Nat \ {0}
         /\ fs[j].header \in BOOLEAN
         /\ fs[j].lines \in Seq(Observation \cup {Saved})
         /\ Len(fs[j].lines) \in Nat
         /\ \A a \in 1..Len(fs[j].lines) : fs[j].lines[a] \in Observation \cup {Saved}
<1>1. fs[j] \in File
  BY LenProperties
<1>2. fs[j].lines \in Seq(Observation \cup {Saved})
  BY <1>1 DEF File
<1>3. /\ Len(fs[j].lines) \in Nat
      /\ \A a \in 1..Len(fs[j].lines) : fs[j].lines[a] \in Observation \cup {Saved}
  BY <1>2, LenProperties
<1> QED
  BY <1>1, <1>2, <1>3 DEF File

LEMMA KnownPart ==
  ASSUME NEW fs, NEW N \in Nat, KnownFiles(fs, N), NEW t \in Seq(File), PartOf(t, fs)
  PROVE  KnownFiles(t, N)
BY PartOfMembers DEF KnownFiles

LEMMA KnownMore ==
  ASSUME NEW fs, NEW N \in Nat, KnownFiles(fs, N), NEW M \in Nat, N <= M
  PROVE  KnownFiles(fs, M)
BY DEF KnownFiles

LEMMA KnownAppend ==
  ASSUME NEW fs, NEW N \in Nat, KnownFiles(fs, N), NEW file \in File,
         file.session \in 1..N,
         \A a \in 1..Len(file.lines) :
           file.lines[a] \in Observation => file.lines[a].session = file.session
  PROVE  KnownFiles(Append(fs, file), N)
<1>1. fs \in Seq(File) /\ Len(fs) \in Nat
  BY LenProperties DEF KnownFiles
<1> DEFINE t == Append(fs, file)
<1>2. /\ t \in Seq(File) /\ Len(t) = Len(fs) + 1
      /\ \A i \in 1..Len(fs) : t[i] = fs[i]
      /\ t[Len(fs) + 1] = file
  BY <1>1, AppendProperties
<1> HIDE DEF t
<1>3. \A j \in 1..Len(t) : j \in 1..Len(fs) \/ j = Len(fs) + 1
  BY <1>1, <1>2
<1>4. KnownFiles(t, N)
  BY <1>2, <1>3 DEF KnownFiles
<1> QED
  BY <1>4 DEF t

LEMMA KnownOpened ==
  ASSUME NEW fs, NEW N \in Nat, KnownFiles(fs, N), NEW s \in 1..N, NEW n \in Nat \ {0}
  PROVE  KnownFiles(Opened(fs, s, n), N)
<1>1. NewChunk(s, n) \in File /\ Len(NewChunk(s, n).lines) = 0
  BY NewChunkIsFile
<1>2. NewChunk(s, n).session = s
  BY DEF NewChunk
<1> QED
  BY <1>1, <1>2, KnownAppend DEF Opened

\* A line that session s writes.
LineOf(s, line) == \/ line = Saved
                   \/ line \in Observation /\ line.session = s

LEMMA KnownAppended ==
  ASSUME NEW fs, NEW N \in Nat, KnownFiles(fs, N), NEW s \in 1..N, NEW n \in Nat \ {0},
         NEW line, LineOf(s, line)
  PROVE  KnownFiles(Appended(fs, s, n, line), N)
<1>1. /\ fs \in Seq(File) /\ line \in Observation \cup {Saved}
      /\ s \in Nat \ {0}
  <2>1. s \in Nat \ {0}
    OBVIOUS
  <2> QED
    BY <2>1 DEF KnownFiles, LineOf
<1>2. PICK rest, file : Splits(fs, s, n, line, rest, file)
  BY <1>1, AppendedSplits
<1>3. KnownFiles(rest, N) /\ file \in File
  BY <1>2, KnownPart DEF Splits
<1> DEFINE longer == Longer(file, line)
<1>4. /\ longer \in File
      /\ longer.session = file.session
      /\ Len(file.lines) \in Nat
      /\ Len(longer.lines) = Len(file.lines) + 1
      /\ \A a \in 1..Len(file.lines) : longer.lines[a] = file.lines[a]
      /\ longer.lines[Len(file.lines) + 1] = line
  BY <1>1, <1>3, LongerFile
<1> HIDE DEF longer
<1>5. longer.session = s /\ file.session = s
  BY <1>2, <1>4 DEF IsFile, Splits
<1>6. \A a \in 1..Len(file.lines) :
        file.lines[a] \in Observation => file.lines[a].session = s
  <2>1. CASE \E k \in 1..Len(fs) : file = fs[k]
    BY <1>5, <2>1 DEF KnownFiles
  <2>2. CASE file.lines = <<>>
    <3>1. Len(file.lines) = 0
      BY <2>2
    <3> QED
      BY <3>1
  <2> QED
    BY <1>2, <2>1, <2>2 DEF Splits
<1>7. \A a \in 1..Len(longer.lines) : a \in 1..Len(file.lines) \/ a = Len(file.lines) + 1
  BY <1>4
<1>8. \A a \in 1..Len(longer.lines) :
        longer.lines[a] \in Observation => longer.lines[a].session = longer.session
  BY <1>4, <1>5, <1>6, <1>7, SavedIsNoObservation DEF LineOf
<1>9. KnownFiles(Append(rest, longer), N)
  BY <1>3, <1>4, <1>5, <1>8, KnownAppend
<1> QED
  BY <1>2, <1>9 DEF longer, Splits

LEMMA KnownLoaded ==
  ASSUME NEW fs, NEW N \in Nat, KnownFiles(fs, N)
  PROVE  KnownRing(Loaded(fs), N)
<1>1. fs \in Seq(File)
  BY DEF KnownFiles
<1>2. Loaded(fs) \in Seq(Observation)
  BY <1>1, LoadedProperties
<1>3. ASSUME NEW k \in 1..Len(Loaded(fs)) PROVE Loaded(fs)[k].session \in 1..N
  <2> DEFINE o == Loaded(fs)[k]
  <2>1. o \in Range(Loaded(fs)) /\ o \in Observation
    BY <1>2, RangeIs
  <2>2. PICK n \in 1..Len(fs) : o \in Range(Readable(fs[n]))
    BY <1>1, <2>1, LoadedProperties
  <2>3. fs[n] \in File
    BY <1>1, FileFields
  <2>4. PICK j \in 1..Len(Readable(fs[n])) : o = Readable(fs[n])[j]
    BY <2>2, <2>3, ReadableProperties, RangeIs
  <2>5. PICK a \in 1..Len(fs[n].lines) : Readable(fs[n])[j] = fs[n].lines[a]
    BY <2>3, ReadableProperties
  <2> HIDE DEF o
  <2>6. o.session = fs[n].session
    BY <2>1, <2>4, <2>5 DEF KnownFiles
  <2>7. o.session \in 1..N
    BY <2>6 DEF KnownFiles
  <2> QED
    BY <2>7 DEF o
<1> QED
  BY <1>2, <1>3 DEF KnownRing

\* The ring keeps the end of what it is given.
LEMMA KeptProperties ==
  ASSUME NEW all \in Seq(Observation)
  PROVE  \E cut \in 0..Len(all) :
           /\ Kept(all) = SubSeq(all, cut + 1, Len(all))
           /\ Kept(all) \in Seq(Observation)
           /\ Len(Kept(all)) = Len(all) - cut
           /\ Len(Kept(all)) <= RingSize
           /\ \A k \in 1..Len(Kept(all)) : Kept(all)[k] = all[cut + k]
           /\ Removed(all) = SubSeq(all, 1, cut)
           /\ Removed(all) \in Seq(Observation)
           /\ Len(Removed(all)) = cut
           /\ \A k \in 1..cut : Removed(all)[k] = all[k]
<1> DEFINE cut == IF RingSize < Len(all) THEN Len(all) - RingSize ELSE 0
<1>1. Len(all) \in Nat /\ RingSize \in Nat
  BY HistoryAssumption, LenProperties
<1>2. cut \in 0..Len(all) /\ Len(all) - cut <= RingSize
  BY <1>1
<1>3. Kept(all) = SubSeq(all, 1 + cut, Len(all))
  BY DEF Kept
<1> HIDE DEF cut
<1>4. cut + 1 \in Nat \ {0} /\ 1 + cut = cut + 1 /\ Len(all) \in 0..Len(all)
  BY <1>1, <1>2
<1> DEFINE t == SubSeq(all, cut + 1, Len(all))
<1>5. /\ t \in Seq(Observation)
      /\ Len(t) = IF cut + 1 <= Len(all) THEN Len(all) - (cut + 1) + 1 ELSE 0
      /\ \A i \in 1..Len(t) : t[i] = all[(cut + 1) + i - 1]
  BY <1>4, SubSeqIsPart
<1>6. Kept(all) = t
  BY <1>3, <1>4
<1> HIDE DEF t
<1>7. Len(t) = Len(all) - cut
  BY <1>1, <1>2, <1>5
<1>8. \A i \in 1..Len(t) : t[i] = all[cut + i]
  <2>1. \A i \in 1..Len(t) : (cut + 1) + i - 1 = cut + i
    BY <1>2
  <2> QED
    BY <1>5, <2>1
<1>9. Removed(all) = SubSeq(all, 1, cut)
  <2>1. Len(all) - Len(Kept(all)) = cut
    BY <1>1, <1>2, <1>6, <1>7
  <2> QED
    BY <2>1 DEF Removed
<1> DEFINE r == SubSeq(all, 1, cut)
<1>10. /\ r \in Seq(Observation)
       /\ Len(r) = IF 1 <= cut THEN cut - 1 + 1 ELSE 0
       /\ \A i \in 1..Len(r) : r[i] = all[1 + i - 1]
  BY <1>2, SubSeqIsPart
<1> HIDE DEF r
<1>11. Len(r) = cut /\ \A i \in 1..cut : r[i] = all[i]
  <2>1. Len(r) = cut
    BY <1>2, <1>10
  <2>2. \A i \in 1..cut : 1 + i - 1 = i
    BY <1>2
  <2> QED
    BY <1>10, <2>1, <2>2
<1>12. Kept(all) = SubSeq(all, cut + 1, Len(all))
  BY <1>6 DEF t
<1>13. Removed(all) = r
  BY <1>9 DEF r
<1>14. /\ Kept(all) \in Seq(Observation)
       /\ Len(Kept(all)) = Len(all) - cut
       /\ Len(Kept(all)) <= RingSize
       /\ \A k \in 1..Len(Kept(all)) : Kept(all)[k] = all[cut + k]
  BY <1>2, <1>5, <1>6, <1>7, <1>8
<1>15. /\ Removed(all) \in Seq(Observation)
       /\ Len(Removed(all)) = cut
       /\ \A k \in 1..cut : Removed(all)[k] = all[k]
  BY <1>10, <1>11, <1>13
<1> QED
  BY <1>2, <1>9, <1>12, <1>14, <1>15

LEMMA KnownKept ==
  ASSUME NEW all, NEW N \in Nat, KnownRing(all, N)
  PROVE  KnownRing(Kept(all), N) /\ Len(Kept(all)) <= RingSize
<1>1. all \in Seq(Observation) /\ Len(all) \in Nat
  BY LenProperties DEF KnownRing
<1>2. PICK cut \in 0..Len(all) :
        /\ Kept(all) \in Seq(Observation)
        /\ Len(Kept(all)) = Len(all) - cut
        /\ Len(Kept(all)) <= RingSize
        /\ \A k \in 1..Len(Kept(all)) : Kept(all)[k] = all[cut + k]
  BY <1>1, KeptProperties
<1>3. \A k \in 1..Len(Kept(all)) : cut + k \in 1..Len(all)
  BY <1>1, <1>2
<1> QED
  BY <1>2, <1>3 DEF KnownRing

\* How many entries of a sequence are of a patch.
LEMMA CountType ==
  ASSUME NEW seq \in Seq(Observation), NEW i
  PROVE  Count(seq, i) \in Nat
<1> DEFINE C == {k \in DOMAIN seq : PatchOf(seq[k]) = i}
<1>1. Len(seq) \in Nat /\ DOMAIN seq = 1..Len(seq)
  BY LenProperties
<1>2. IsFiniteSet(1..Len(seq))
  BY <1>1, IntervalSize
<1>3. C \in SUBSET (1..Len(seq))
  BY <1>1
<1> HIDE DEF C
<1>4. Cardinality(C) \in Nat
  BY <1>2, <1>3, FS_Subset, FS_CardinalityType
<1> QED
  BY <1>4 DEF Count, C

LedgerTypes ==
  /\ identities \in Memory
  /\ ledger \in Seq(Line)

SessionTypes ==
  /\ lease \in {"none", "held", "dead"}
  /\ sessions \in Seq(Session)
  /\ registered \in [Identity -> 0..Len(sessions)]
  /\ \A i \in Connected : Running /\ sessions[registered[i]].patch = i

RingTypes ==
  /\ KnownRing(ring, Len(sessions))
  /\ Len(ring) <= RingSize
  /\ dropped \in [Identity -> Nat]
  /\ nextSequence \in Nat \ {0}
  /\ arrived \in [Identity -> Nat]

FileTypes ==
  /\ KnownFiles(files, Len(sessions))
  /\ metadata \subseteq [session : Nat \ {0}, reason : {"registered", "saved"}]

RestTypes ==
  /\ hidden \subseteq Identity
  /\ lost \in {"no", "file", "memory"}
  /\ spent \in [DOMAIN Budget -> Nat]

TypesInv == LedgerTypes /\ SessionTypes /\ RingTypes /\ FileTypes /\ RestTypes

LEMMA TypesAreOK == TypesInv => TypeOK
<1> SUFFICES ASSUME TypesInv PROVE TypeOK
  OBVIOUS
<1>1. ledger \in Seq(Decision)
  <2>1. Line \subseteq Decision
    BY DEF Line
  <2> QED
    BY <2>1, SeqMonotonic DEF TypesInv, LedgerTypes
<1> QED
  BY <1>1 DEF TypesInv, LedgerTypes, SessionTypes, RingTypes, FileTypes, RestTypes,
              TypeOK, LedgerTypeOK, KnownRing, KnownFiles

LEMMA TypesInit == Init => TypesInv
<1> SUFFICES ASSUME Init PROVE TypesInv
  OBVIOUS
<1>1. \A X : <<>> \in Seq(X) /\ Len(<<>>) = 0
  BY EmptySeq
<1>2. LedgerTypes
  BY <1>1, NoIdentitiesIsMemory DEF Init, LedgerInit, LedgerTypes
<1>3. SessionTypes
  BY <1>1 DEF Init, SessionTypes, Zero, Connected
<1>4. RingTypes
  BY <1>1, HistoryAssumption DEF Init, RingTypes, Zero, KnownRing
<1>5. FileTypes
  BY <1>1 DEF Init, FileTypes, KnownFiles
<1>6. RestTypes
  BY DEF Init, RestTypes
<1> QED
  BY <1>2, <1>3, <1>4, <1>5, <1>6 DEF TypesInv

LEMMA SessionFields ==
  ASSUME TypesInv
  PROVE  /\ Len(sessions) \in Nat
         /\ \A s \in 1..Len(sessions) :
              /\ sessions[s] \in Session
              /\ sessions[s].patch \in Identity
              /\ sessions[s].observed \in Nat
              /\ sessions[s].chunk \in Nat
              /\ sessions[s].lines \in Nat
<1>1. sessions \in Seq(Session)
  BY DEF TypesInv, SessionTypes
<1>2. Len(sessions) \in Nat /\ \A s \in 1..Len(sessions) : sessions[s] \in Session
  BY <1>1, LenProperties
<1> QED
  BY <1>2 DEF Session

LEMMA ConnectedSession ==
  ASSUME TypesInv, NEW i \in Connected
  PROVE  /\ Running /\ i \in Identity
         /\ registered[i] \in 1..Len(sessions)
         /\ sessions[registered[i]].patch = i
BY SessionFields DEF TypesInv, SessionTypes, Connected

LEMMA SeenIsIdentity ==
  ASSUME TypesInv, NEW fs, KnownFiles(fs, Len(sessions))
  PROVE  SeenIn(fs) \subseteq Identity
<1>1. fs \in Seq(File)
  BY DEF KnownFiles
<1> SUFFICES ASSUME NEW f \in Range(fs) PROVE sessions[f.session].patch \in Identity
  BY DEF SeenIn
<1>2. PICK j \in 1..Len(fs) : f = fs[j]
  BY <1>1, RangeIs
<1> QED
  BY <1>2, SessionFields DEF KnownFiles

LEMMA ObservedIsMemory ==
  ASSUME NEW m \in Memory, NEW seen, seen \subseteq Identity
  PROVE  /\ Observed(m, seen) \in Memory
         /\ Observed(m, seen).aliases = m.aliases
         /\ Observed(m, seen).forgotten = m.forgotten
BY DEF Observed, Memory

LEMMA CountsType ==
  ASSUME NEW all \in Seq(Observation)
  PROVE  Counts(all) \in [Identity -> Nat]
<1>1. Removed(all) \in Seq(Observation)
  BY KeptProperties
<1> QED
  BY <1>1, CountType DEF Counts

LEMMA MetadataType ==
  ASSUME NEW fs \in Seq(File)
  PROVE  MetadataIn(fs) \subseteq [session : Nat \ {0}, reason : {"registered", "saved"}]
<1>1. \A f \in Range(fs) : f.session \in Nat \ {0}
  BY RangeIs, FileFields
<1> QED
  BY <1>1 DEF MetadataIn

LEMMA NextNumberType ==
  ASSUME NEW all \in Seq(Observation)
  PROVE  NextNumber(all) \in Nat \ {0}
<1>1. CASE all = <<>>
  BY <1>1 DEF NextNumber
<1>2. CASE all # <<>>
  <2>1. Len(all) \in Nat /\ Len(all) # 0
    BY <1>2, EmptySeq
  <2>2. all[Len(all)] \in Observation
    BY <2>1, LenProperties
  <2>3. Last(all) = all[Len(all)]
    BY DEF Last
  <2> QED
    BY <1>2, <2>2, <2>3 DEF NextNumber, Observation
<1> QED
  BY <1>1, <1>2

LEMMA PruningsAreParts ==
  ASSUME NEW X, NEW fs \in Seq(X), NEW s, NEW n, NEW rest \in Prunings(fs, s, n)
  PROVE  rest \in Seq(X) /\ PartOf(rest, fs)
BY PrunedIsPart DEF Prunings

LEMMA KnownPruned ==
  ASSUME NEW fs, NEW N \in Nat, KnownFiles(fs, N), NEW s, NEW n,
         NEW rest \in Prunings(fs, s, n)
  PROVE  KnownFiles(rest, N)
<1>1. fs \in Seq(File)
  BY DEF KnownFiles
<1>2. rest \in Seq(File) /\ PartOf(rest, fs)
  BY <1>1, PruningsAreParts
<1> QED
  BY <1>2, KnownPart

\* What a line may do to the files, whether or not it is written.
LEMMA OutcomeTypes ==
  ASSUME TypesInv, NEW s \in 1..Len(sessions), NEW line, LineOf(s, line),
         NEW w \in Outcomes(s, line)
  PROVE  /\ KnownFiles(w.files, Len(sessions))
         /\ w.chunk \in Nat /\ w.lines \in Nat
<1>1. /\ Len(sessions) \in Nat /\ sessions[s].chunk \in Nat /\ sessions[s].lines \in Nat
      /\ KnownFiles(files, Len(sessions))
  BY SessionFields DEF TypesInv, FileTypes
<1>2. CASE sessions[s].chunk = 0
  <2>1. w = Unknown(s)
    BY <1>2 DEF Outcomes
  <2>2. w.files = files /\ w.chunk = 0 /\ w.lines = sessions[s].lines
    BY <2>1 DEF Unknown
  <2> QED
    BY <1>1, <2>2
<1>3. CASE sessions[s].chunk # 0
  <2>1. ChunkFor(s) \in Nat \ {0} /\ LinesFor(s) \in Nat
    BY <1>1, <1>3 DEF ChunkFor, LinesFor
  <2>2. KnownFiles(FilesFor(s), Len(sessions))
    BY <1>1, <2>1, KnownOpened DEF FilesFor
  <2>3. CASE w \in Unwritten(s)
    <3>1. /\ w.chunk = ChunkFor(s)
          /\ w.lines = sessions[s].lines \/ w.lines = LinesFor(s)
          /\ w.files = files \/ w.files = FilesFor(s)
      BY <2>3 DEF Unwritten
    <3> QED
      BY <1>1, <2>1, <2>2, <3>1
  <2>4. CASE \E fs \in Prunings(Appended(FilesFor(s), s, ChunkFor(s), line), s, ChunkFor(s)) :
               w = Written(s, fs)
    <3> DEFINE longer == Appended(FilesFor(s), s, ChunkFor(s), line)
    <3>1. PICK fs \in Prunings(longer, s, ChunkFor(s)) : w = Written(s, fs)
      BY <2>4
    <3>2. KnownFiles(longer, Len(sessions))
      BY <1>1, <2>1, <2>2, KnownAppended
    <3> HIDE DEF longer
    <3>3. KnownFiles(fs, Len(sessions))
      BY <1>1, <3>1, <3>2, KnownPruned
    <3> QED
      BY <2>1, <3>1, <3>3 DEF Written
  <2> QED
    BY <1>3, <2>3, <2>4 DEF Outcomes
<1> QED
  BY <1>2, <1>3

\* What one line changes of the sessions.
LEMMA PersistsTypes ==
  ASSUME TypesInv, NEW s \in 1..Len(sessions), NEW line, LineOf(s, line),
         NEW w \in Outcomes(s, line), NEW observed \in Nat,
         Persists(s, line, observed, w)
  PROVE  /\ KnownFiles(files', Len(sessions'))
         /\ sessions' \in Seq(Session)
         /\ Len(sessions') = Len(sessions)
         /\ \A r \in 1..Len(sessions) : r # s => sessions'[r] = sessions[r]
         /\ sessions'[s].patch = sessions[s].patch
         /\ sessions'[s].observed = observed
         /\ sessions'[s].chunk = w.chunk
         /\ spent' \in [DOMAIN Budget -> Nat]
<1>1. /\ KnownFiles(w.files, Len(sessions))
      /\ w.chunk \in Nat /\ w.lines \in Nat
  BY OutcomeTypes
<1>2. sessions \in Seq(Session) /\ sessions[s] \in Session
  BY SessionFields DEF TypesInv, SessionTypes
<1> DEFINE new == [sessions[s] EXCEPT !.chunk = w.chunk, !.lines = w.lines,
                                      !.observed = observed]
<1>3. /\ new \in Session /\ new.patch = sessions[s].patch
      /\ new.observed = observed /\ new.chunk = w.chunk
  BY <1>1, <1>2 DEF Session
<1>4. sessions' = [sessions EXCEPT ![s] = new]
  BY DEF Persists
<1> HIDE DEF new
<1>5. /\ sessions' \in Seq(Session) /\ Len(sessions') = Len(sessions)
      /\ \A r \in 1..Len(sessions) :
           sessions'[r] = IF r = s THEN new ELSE sessions[r]
  BY <1>2, <1>3, <1>4, ExceptSeq
<1>6. files' = w.files
  BY DEF Persists
<1>7. spent' \in [DOMAIN Budget -> Nat]
  <2>1. PICK fault \in {0, 1} :
          spent' = [spent EXCEPT !.events = @ + 1, !.faults = @ + fault]
    BY DEF Persists
  <2>2. spent \in [DOMAIN Budget -> Nat]
    BY DEF TypesInv, RestTypes
  <2>3. DOMAIN Budget = {"sessions", "events", "decisions", "stops", "faults"}
    BY DEF Budget
  <2>4. spent.events \in Nat /\ spent.faults \in Nat
    BY <2>2, <2>3
  <2>5. PICK a \in Nat, b \in Nat : spent' = [spent EXCEPT !.events = a, !.faults = b]
    <3> DEFINE a == spent.events + 1
               b == spent.faults + fault
    <3>1. a \in Nat /\ b \in Nat
      BY <2>4
    <3>2. spent' = [spent EXCEPT !.events = a, !.faults = b]
      BY <2>1
    <3> HIDE DEF a, b
    <3> QED
      BY <3>1, <3>2
  <2> QED
    BY <2>2, <2>5
<1> QED
  BY <1>1, <1>3, <1>5, <1>6, <1>7

LEMMA FunctionIsSeq ==
  ASSUME NEW S, NEW n \in Nat, NEW e \in [1..n -> S]
  PROVE  e \in Seq(S) /\ Len(e) = n
OBVIOUS

\* Counting what happened.
LEMMA SpentTypes ==
  ASSUME TypesInv
  PROVE  /\ [spent EXCEPT !.sessions = @ + 1] \in [DOMAIN Budget -> Nat]
         /\ [spent EXCEPT !.sessions = @ + 1, !.faults = @ + 1] \in [DOMAIN Budget -> Nat]
<1>1. spent \in [DOMAIN Budget -> Nat]
  BY DEF TypesInv, RestTypes
<1>2. DOMAIN Budget = {"sessions", "events", "decisions", "stops", "faults"}
  BY DEF Budget
<1> DEFINE a == spent.sessions + 1
           b == spent.faults + 1
<1>3. a \in Nat /\ b \in Nat
  BY <1>1, <1>2
<1>4. /\ [spent EXCEPT !.sessions = @ + 1] = [spent EXCEPT !.sessions = a]
      /\ [spent EXCEPT !.sessions = @ + 1, !.faults = @ + 1]
           = [spent EXCEPT !.sessions = a, !.faults = b]
  OBVIOUS
<1> HIDE DEF a, b
<1>5. /\ [spent EXCEPT !.sessions = a] \in [DOMAIN Budget -> Nat]
      /\ [spent EXCEPT !.sessions = a, !.faults = b] \in [DOMAIN Budget -> Nat]
  BY <1>1, <1>3
<1> QED
  BY <1>4, <1>5

\* Forgetting the current chunk of every session.
LEMMA ForgottenChunks ==
  ASSUME TypesInv,
         sessions' = [s \in DOMAIN sessions |-> [sessions[s] EXCEPT !.chunk = 0, !.lines = 0]]
  PROVE  /\ sessions' \in Seq(Session)
         /\ Len(sessions') = Len(sessions)
         /\ \A s \in 1..Len(sessions) : /\ sessions'[s].patch = sessions[s].patch
                                        /\ sessions'[s].observed = sessions[s].observed
                                        /\ sessions'[s].chunk = 0
<1>1. /\ Len(sessions) \in Nat /\ DOMAIN sessions = 1..Len(sessions)
      /\ \A s \in 1..Len(sessions) : sessions[s] \in Session
  BY LenProperties DEF TypesInv, SessionTypes
<1> DEFINE e == [s \in 1..Len(sessions) |-> [sessions[s] EXCEPT !.chunk = 0, !.lines = 0]]
<1>2. \A s \in 1..Len(sessions) : /\ e[s] \in Session
                                  /\ e[s].patch = sessions[s].patch
                                  /\ e[s].observed = sessions[s].observed
                                  /\ e[s].chunk = 0
  BY <1>1 DEF Session
<1>3. sessions' = e
  BY <1>1
<1>4. e \in [1..Len(sessions) -> Session]
  <2>1. e = [s \in 1..Len(sessions) |-> e[s]]
    OBVIOUS
  <2> HIDE DEF e
  <2> QED
    BY <1>2, <2>1
<1> HIDE DEF e
<1>5. e \in Seq(Session) /\ Len(e) = Len(sessions)
  BY <1>1, <1>4, FunctionIsSeq
<1> QED
  BY <1>2, <1>3, <1>5

LEMMA StartsTypes == ASSUME TypesInv, Starts PROVE TypesInv'
<1>1. PICK fs \in Prunings(files, 0, 0) :
        /\ files' = fs
        /\ ring' = Kept(Loaded(fs))
        /\ dropped' = Counts(Loaded(fs))
        /\ nextSequence' = NextNumber(Loaded(fs))
        /\ arrived' = [i \in Identity |-> Count(Loaded(fs), i)]
        /\ metadata' = MetadataIn(fs)
        /\ Loads(ledger, SeenIn(fs))
  BY DEF Starts
<1>2. /\ lease' = "held" /\ UNCHANGED <<registered, hidden, spent>>
      /\ sessions' = [s \in DOMAIN sessions |-> [sessions[s] EXCEPT !.chunk = 0, !.lines = 0]]
  BY DEF Starts
<1>3. KnownFiles(files, Len(sessions)) /\ Len(sessions) \in Nat
  BY SessionFields DEF TypesInv, FileTypes
<1>4. KnownFiles(fs, Len(sessions)) /\ fs \in Seq(File)
  BY <1>1, <1>3, KnownPruned DEF KnownFiles
<1>5. /\ sessions' \in Seq(Session) /\ Len(sessions') = Len(sessions)
      /\ \A s \in 1..Len(sessions) : sessions'[s].patch = sessions[s].patch
  BY <1>2, ForgottenChunks
<1>6. KnownRing(Loaded(fs), Len(sessions)) /\ Loaded(fs) \in Seq(Observation)
  BY <1>3, <1>4, KnownLoaded DEF KnownRing
<1>7. LedgerTypes'
  <2>1. ledger \in Seq(Line) /\ Replay(ledger) \in Memory
    BY ReplayType DEF TypesInv, LedgerTypes
  <2>2. Observed(Replay(ledger), SeenIn(fs)) \in Memory
    BY <1>4, <2>1, SeenIsIdentity, ObservedIsMemory
  <2> QED
    BY <1>1, <2>1, <2>2 DEF LedgerTypes, Loads
<1>8. SessionTypes'
  <2>1. \A i \in Identity : registered[i] # 0 => FALSE
    BY DEF TypesInv, SessionTypes, Connected, Starts
  <2> QED
    BY <1>2, <1>5, <2>1 DEF TypesInv, SessionTypes, Connected, Running
<1>9. RingTypes'
  <2>1. KnownRing(Kept(Loaded(fs)), Len(sessions)) /\ Len(Kept(Loaded(fs))) <= RingSize
    BY <1>3, <1>6, KnownKept
  <2>2. Counts(Loaded(fs)) \in [Identity -> Nat] /\ NextNumber(Loaded(fs)) \in Nat \ {0}
    BY <1>6, CountsType, NextNumberType
  <2>3. [i \in Identity |-> Count(Loaded(fs), i)] \in [Identity -> Nat]
    BY <1>6, CountType
  <2> QED
    BY <1>1, <1>5, <2>1, <2>2, <2>3 DEF RingTypes
<1>10. FileTypes'
  BY <1>1, <1>4, <1>5, MetadataType DEF FileTypes
<1>11. RestTypes'
  <2>1. lost' \in {"no", "file", "memory"}
    BY DEF Starts, TypesInv, RestTypes
  <2> QED
    BY <1>2, <2>1 DEF TypesInv, RestTypes
<1> QED
  BY <1>7, <1>8, <1>9, <1>10, <1>11 DEF TypesInv

LEMMA StopsTypes ==
  ASSUME TypesInv, NEW left \in {"none", "dead"}, Stops(left) PROVE TypesInv'
<1>1. <<>> \in Seq(Observation) /\ Len(<<>>) = 0
  BY EmptySeq
<1>2. LedgerTypes'
  BY DEF TypesInv, LedgerTypes, Stops, ledgerVars
<1>3. SessionTypes'
  BY SessionFields DEF TypesInv, SessionTypes, Stops, Connected, Zero
<1>4. RingTypes'
  BY <1>1, HistoryAssumption DEF TypesInv, RingTypes, Stops, Zero, KnownRing
<1>5. FileTypes'
  BY DEF TypesInv, FileTypes, Stops
<1>6. RestTypes'
  BY DEF TypesInv, RestTypes, Stops, Spend, Budget
<1> QED
  BY <1>2, <1>3, <1>4, <1>5, <1>6 DEF TypesInv

LEMMA RegistersTypes ==
  ASSUME TypesInv, NEW i \in Identity, Registers(i) PROVE TypesInv'
<1> DEFINE s == Len(sessions) + 1
<1>1. Len(sessions) \in Nat /\ s \in Nat \ {0} /\ sessions \in Seq(Session)
  BY SessionFields DEF TypesInv, SessionTypes
<1>2. PICK n \in {0, 1} :
        /\ sessions' = Append(sessions, [patch |-> i, observed |-> 0, chunk |-> n, lines |-> n])
        /\ \/ /\ n = 1
              /\ files' \in Prunings(Opened(files, s, 1), s, 1)
              /\ metadata' = metadata \cup {[session |-> s, reason |-> "registered"]}
              /\ Observes(i)
              /\ spent' = [spent EXCEPT !.sessions = @ + 1]
           \/ /\ n = 0
              /\ spent' = [spent EXCEPT !.sessions = @ + 1, !.faults = @ + 1]
              /\ UNCHANGED <<files, metadata, ledgerVars>>
  BY DEF Registers
<1>3. /\ Running /\ registered' = [registered EXCEPT ![i] = s]
      /\ UNCHANGED <<lease, ring, dropped, nextSequence, arrived, hidden>>
  BY DEF Registers
<1> DEFINE session == [patch |-> i, observed |-> 0, chunk |-> n, lines |-> n]
<1>4. session \in Session /\ session.patch = i
  BY <1>2 DEF Session
<1>5. sessions' = Append(sessions, session)
  BY <1>2
<1> HIDE DEF session
<1>6. /\ sessions' \in Seq(Session) /\ Len(sessions') = s
      /\ \A r \in 1..Len(sessions) : sessions'[r] = sessions[r]
      /\ sessions'[s] = session
  BY <1>1, <1>4, <1>5, AppendProperties
<1>7. Len(sessions) <= s /\ s \in 1..s /\ \A r \in 0..Len(sessions) : r \in 0..s
  BY <1>1
<1> HIDE DEF s
<1>8. LedgerTypes'
  <2>1. CASE Observes(i)
    <3>1. Observed(identities, {i}) \in Memory
      BY ObservedIsMemory DEF TypesInv, LedgerTypes
    <3> QED
      BY <2>1, <3>1 DEF Observes, TypesInv, LedgerTypes
  <2>2. CASE UNCHANGED ledgerVars
    BY <2>2 DEF ledgerVars, TypesInv, LedgerTypes
  <2> QED
    BY <1>2, <2>1, <2>2
<1>9. SessionTypes'
  <2>1. registered' \in [Identity -> 0..s] /\ registered'[i] = s
    BY <1>3, <1>7 DEF TypesInv, SessionTypes
  <2>2. ASSUME NEW j \in Identity, registered'[j] # 0
        PROVE  sessions'[registered'[j]].patch = j
    <3>1. CASE j = i
      BY <1>4, <1>6, <2>1, <3>1
    <3>2. CASE j # i
      <4>1. registered'[j] = registered[j] /\ registered[j] # 0
        BY <1>3, <2>2, <3>2 DEF TypesInv, SessionTypes
      <4>2. registered[j] \in 1..Len(sessions) /\ sessions[registered[j]].patch = j
        BY <4>1, ConnectedSession DEF Connected
      <4> QED
        BY <1>6, <4>1, <4>2
    <3> QED
      BY <3>1, <3>2
  <2> QED
    BY <1>3, <1>6, <2>1, <2>2 DEF TypesInv, SessionTypes, Connected, Running
<1>10. RingTypes'
  <2>1. KnownRing(ring, s)
    BY <1>1, <1>7 DEF TypesInv, RingTypes, KnownRing, s
  <2> QED
    BY <1>3, <1>6, <2>1 DEF TypesInv, RingTypes
<1>11. FileTypes'
  <2>1. KnownFiles(files, s)
    BY <1>1, <1>7, KnownMore DEF TypesInv, FileTypes, s
  <2>2. s \in Nat \ {0}
    BY <1>1
  <2>3. CASE n = 1
    <3>1. KnownFiles(Opened(files, s, 1), s)
      BY <1>7, <2>1, <2>2, KnownOpened
    <3>2. files' \in Prunings(Opened(files, s, 1), s, 1)
      BY <1>2, <2>3 DEF s
    <3>3. KnownFiles(files', s)
      BY <2>2, <3>1, <3>2, KnownPruned
    <3>4. metadata' = metadata \cup {[session |-> s, reason |-> "registered"]}
      BY <1>2, <2>3 DEF s
    <3> QED
      BY <1>6, <2>2, <3>3, <3>4 DEF TypesInv, FileTypes
  <2>4. CASE n = 0
    BY <1>2, <1>6, <2>1, <2>4 DEF TypesInv, FileTypes
  <2> QED
    BY <2>3, <2>4
<1>12. RestTypes'
  <2>1. spent' \in [DOMAIN Budget -> Nat]
    BY <1>2, SpentTypes, Zenon
  <2>2. lost' = lost
    BY DEF Registers
  <2> QED
    BY <1>3, <2>1, <2>2 DEF TypesInv, RestTypes
<1> QED
  BY <1>8, <1>9, <1>10, <1>11, <1>12 DEF TypesInv

LEMMA DisconnectsTypes ==
  ASSUME TypesInv, NEW i \in Identity, Disconnects(i) PROVE TypesInv'
<1>1. LedgerTypes'
  BY DEF TypesInv, LedgerTypes, Disconnects, ledgerVars
<1>2. SessionTypes'
  BY SessionFields DEF TypesInv, SessionTypes, Disconnects, Connected, Running
<1>3. RingTypes'
  BY DEF TypesInv, RingTypes, Disconnects
<1>4. FileTypes'
  BY DEF TypesInv, FileTypes, Disconnects
<1>5. RestTypes'
  BY DEF TypesInv, RestTypes, Disconnects
<1> QED
  BY <1>1, <1>2, <1>3, <1>4, <1>5 DEF TypesInv

\* SessionTypes survives when sessions keep their patches and nobody connects.
LEMMA SessionsAsBefore ==
  ASSUME TypesInv, UNCHANGED <<lease, registered>>, sessions' \in Seq(Session),
         Len(sessions') = Len(sessions),
         \A r \in 1..Len(sessions) : sessions'[r].patch = sessions[r].patch
  PROVE  SessionTypes'
<1>1. \A i \in Identity : registered[i] # 0 =>
        /\ Running /\ registered[i] \in 1..Len(sessions)
        /\ sessions[registered[i]].patch = i
  BY ConnectedSession DEF Connected
<1> QED
  BY <1>1 DEF TypesInv, SessionTypes, Connected, Running

LEMMA EditObservedTypes ==
  ASSUME TypesInv, NEW i \in Identity, EditObserved(i) PROVE TypesInv'
<1> DEFINE s == registered[i]
           o == [sequence |-> nextSequence, session |-> s, nth |-> sessions[s].observed + 1]
           all == Append(ring, o)
<1>1. s \in 1..Len(sessions) /\ i \in Connected
  BY ConnectedSession DEF EditObserved
<1>2. /\ Len(sessions) \in Nat /\ sessions[s].observed \in Nat /\ s \in Nat \ {0}
      /\ nextSequence \in Nat \ {0}
  BY <1>1, SessionFields DEF TypesInv, RingTypes
<1>3. o \in Observation /\ LineOf(s, o)
  BY <1>1, <1>2 DEF Observation, LineOf
<1>4. /\ ring' = Kept(all)
      /\ dropped' = [j \in Identity |-> dropped[j] + Counts(all)[j]]
      /\ nextSequence' = nextSequence + 1
      /\ arrived' = [arrived EXCEPT ![i] = @ + 1]
      /\ UNCHANGED <<lease, registered, metadata, hidden, ledgerVars>>
  BY DEF EditObserved
<1>5. PICK w \in Outcomes(s, o) : Persists(s, o, o.nth, w)
  BY DEF EditObserved
<1>6. o.nth \in Nat /\ o.session = s
  BY <1>2
<1> HIDE DEF s
<1> HIDE DEF o
<1>7. /\ KnownFiles(files', Len(sessions'))
      /\ sessions' \in Seq(Session)
      /\ Len(sessions') = Len(sessions)
      /\ \A r \in 1..Len(sessions) : r # s => sessions'[r] = sessions[r]
      /\ sessions'[s].patch = sessions[s].patch
      /\ spent' \in [DOMAIN Budget -> Nat]
  BY <1>1, <1>3, <1>5, <1>6, PersistsTypes
<1>8. KnownRing(all, Len(sessions)) /\ all \in Seq(Observation)
  <2>1. /\ ring \in Seq(Observation) /\ Len(ring) \in Nat
        /\ \A k \in 1..Len(ring) : ring[k].session \in 1..Len(sessions)
    BY LenProperties DEF TypesInv, RingTypes, KnownRing
  <2>2. /\ all \in Seq(Observation) /\ Len(all) = Len(ring) + 1
        /\ \A k \in 1..Len(ring) : all[k] = ring[k]
        /\ all[Len(ring) + 1] = o
    BY <1>3, <2>1, AppendProperties
  <2> HIDE DEF all
  <2>3. \A k \in 1..Len(all) : k \in 1..Len(ring) \/ k = Len(ring) + 1
    BY <2>1, <2>2
  <2> QED
    BY <1>1, <1>6, <2>1, <2>2, <2>3 DEF KnownRing
<1> HIDE DEF all
<1>9. LedgerTypes'
  BY <1>4 DEF TypesInv, LedgerTypes, ledgerVars
<1>10. SessionTypes'
  BY <1>4, <1>7, SessionsAsBefore
<1>11. RingTypes'
  <2>1. KnownRing(Kept(all), Len(sessions)) /\ Len(Kept(all)) <= RingSize
    BY <1>2, <1>8, KnownKept
  <2>2. Counts(all) \in [Identity -> Nat]
    BY <1>8, CountsType
  <2>3. dropped' \in [Identity -> Nat] /\ arrived' \in [Identity -> Nat]
    <3>1. dropped \in [Identity -> Nat] /\ arrived \in [Identity -> Nat]
      BY DEF TypesInv, RingTypes
    <3>2. \A j \in Identity : dropped[j] + Counts(all)[j] \in Nat
      BY <2>2, <3>1
    <3> QED
      BY <1>4, <3>1, <3>2
  <2> QED
    BY <1>2, <1>4, <1>7, <2>1, <2>3 DEF RingTypes
<1>12. FileTypes'
  BY <1>4, <1>7 DEF TypesInv, FileTypes
<1>13. RestTypes'
  <2>1. lost' = lost
    BY DEF EditObserved
  <2> QED
    BY <1>4, <1>7, <2>1 DEF TypesInv, RestTypes
<1> QED
  BY <1>9, <1>10, <1>11, <1>12, <1>13 DEF TypesInv

LEMMA PatchSavedTypes ==
  ASSUME TypesInv, NEW i \in Identity, PatchSaved(i) PROVE TypesInv'
<1> DEFINE s == registered[i]
<1>1. s \in 1..Len(sessions) /\ i \in Connected
  BY ConnectedSession DEF PatchSaved
<1>2. /\ Len(sessions) \in Nat /\ sessions[s].observed \in Nat /\ s \in Nat \ {0}
  BY <1>1, SessionFields
<1>3. PICK w \in Outcomes(s, Saved) :
        /\ Persists(s, Saved, sessions[s].observed, w)
        /\ metadata' = IF w.done
                       THEN metadata \cup {[session |-> s, reason |-> "saved"]}
                       ELSE metadata
  BY DEF PatchSaved
<1>4. UNCHANGED <<lease, registered, ring, dropped, nextSequence, arrived, hidden,
                  ledgerVars>>
  BY DEF PatchSaved
<1>5. LineOf(s, Saved)
  BY DEF LineOf
<1> HIDE DEF s
<1>6. /\ KnownFiles(files', Len(sessions'))
      /\ sessions' \in Seq(Session)
      /\ Len(sessions') = Len(sessions)
      /\ \A r \in 1..Len(sessions) : r # s => sessions'[r] = sessions[r]
      /\ sessions'[s].patch = sessions[s].patch
      /\ spent' \in [DOMAIN Budget -> Nat]
  BY <1>1, <1>2, <1>3, <1>5, PersistsTypes
<1>7. LedgerTypes'
  BY <1>4 DEF TypesInv, LedgerTypes, ledgerVars
<1>8. SessionTypes'
  BY <1>4, <1>6, SessionsAsBefore
<1>9. RingTypes'
  BY <1>4, <1>6 DEF TypesInv, RingTypes
<1>10. FileTypes'
  BY <1>2, <1>3, <1>6 DEF TypesInv, FileTypes
<1>11. RestTypes'
  <2>1. lost' = lost
    BY DEF PatchSaved
  <2> QED
    BY <1>4, <1>6, <2>1 DEF TypesInv, RestTypes
<1> QED
  BY <1>7, <1>8, <1>9, <1>10, <1>11 DEF TypesInv

LEMMA ResolveTypes ==
  ASSUME TypesInv, NEW d \in Decision, Resolve(d) PROVE TypesInv'
<1>1. LedgerTypes'
  <2>1. d \in Line /\ identities \in Memory /\ ledger \in Seq(Line)
    BY DEF Resolve, Resolves, Line, TypesInv, LedgerTypes
  <2>2. Applied(identities, d) \in Memory /\ Append(ledger, d) \in Seq(Line)
    BY <2>1, AppliedIsMemory, AppendProperties
  <2> QED
    BY <2>2 DEF Resolve, Resolves, LedgerTypes
<1>2. SessionTypes'
  BY DEF TypesInv, SessionTypes, Resolve, Connected, Running
<1>3. RingTypes'
  BY DEF TypesInv, RingTypes, Resolve
<1>4. FileTypes'
  BY DEF TypesInv, FileTypes, Resolve
<1>5. RestTypes'
  BY DEF TypesInv, RestTypes, Resolve, Spend, Budget
<1> QED
  BY <1>1, <1>2, <1>3, <1>4, <1>5 DEF TypesInv

LEMMA ErasesTypes == ASSUME TypesInv, Erases PROVE TypesInv'
<1>1. \A X : <<>> \in Seq(X) /\ Len(<<>>) = 0
  BY EmptySeq
<1>2. sessions' = [s \in DOMAIN sessions |-> [sessions[s] EXCEPT !.chunk = 0, !.lines = 0]]
  BY DEF Erases
<1>3. /\ sessions' \in Seq(Session) /\ Len(sessions') = Len(sessions)
      /\ \A s \in 1..Len(sessions) : sessions'[s].patch = sessions[s].patch
  BY <1>2, ForgottenChunks
<1>4. LedgerTypes'
  <2>1. Replay(<<>>) \in Memory
    BY ReplayOfNothing, NoIdentitiesIsMemory
  <2>2. Observed(Replay(<<>>), {}) \in Memory
    BY <2>1, ObservedIsMemory
  <2> QED
    BY <1>1, <2>2 DEF Erases, Loads, LedgerTypes
<1>5. SessionTypes'
  BY <1>3, SessionsAsBefore DEF Erases
<1>6. RingTypes'
  <2>1. <<>> \in Seq(Observation) /\ Len(<<>>) = 0 /\ RingSize \in Nat
    BY <1>1, HistoryAssumption
  <2>2. ring' = <<>> /\ dropped' = Zero /\ arrived' = Zero /\ nextSequence' = 1
    BY DEF Erases
  <2>3. Zero \in [Identity -> Nat]
    BY DEF Zero
  <2> QED
    BY <2>1, <2>2, <2>3 DEF RingTypes, KnownRing
<1>7. FileTypes'
  <2>1. <<>> \in Seq(File) /\ Len(<<>>) = 0
    BY <1>1
  <2>2. files' = <<>> /\ metadata' = {}
    BY DEF Erases
  <2> QED
    BY <2>1, <2>2 DEF FileTypes, KnownFiles
<1>8. RestTypes'
  BY DEF Erases, TypesInv, RestTypes
<1> QED
  BY <1>4, <1>5, <1>6, <1>7, <1>8 DEF TypesInv

\* What an erasure that fails leaves.
LEMMA EraseFailsLeaves ==
  ASSUME EraseFails
  PROVE  \E stay : /\ files' = Selected(files, stay)
                   /\ ledger' = ledger \/ ledger' = <<>>
                   /\ lost' = IF lost = "no" /\ ledger' # ledger THEN "file" ELSE lost
                   /\ spent.faults < Budget["faults"]
                   /\ spent' = [spent EXCEPT !["faults"] = @ + 1]
                   /\ UNCHANGED <<lease, registered, sessions, ring, dropped,
                                  nextSequence, metadata, arrived, hidden, identities>>
<1>1. PICK gone \in SUBSET Range(files), ledgerGone \in BOOLEAN :
        /\ files' = Selected(files, Range(files) \ gone)
        /\ ledger' = IF ledgerGone THEN <<>> ELSE ledger
  BY DEF EraseFails
<1> WITNESS Range(files) \ gone
<1> QED
  BY <1>1 DEF EraseFails, Spend

LEMMA EraseFailsTypes == ASSUME TypesInv, EraseFails PROVE TypesInv'
<1>1. PICK stay : /\ files' = Selected(files, stay)
                  /\ ledger' = ledger \/ ledger' = <<>>
                  /\ lost' \in {"file", lost}
                  /\ spent' = [spent EXCEPT !["faults"] = @ + 1]
                  /\ UNCHANGED <<lease, registered, sessions, ring, dropped,
                                 nextSequence, metadata, arrived, hidden, identities>>
  BY EraseFailsLeaves
<1>2. KnownFiles(files, Len(sessions)) /\ files \in Seq(File) /\ Len(sessions) \in Nat
  BY SessionFields DEF TypesInv, FileTypes, KnownFiles
<1>3. files' \in Seq(File) /\ PartOf(files', files)
  BY <1>1, <1>2, SelectedIsPart
<1>4. <<>> \in Seq(Line)
  BY EmptySeq
<1>5. LedgerTypes'
  BY <1>1, <1>4 DEF TypesInv, LedgerTypes
<1>6. SessionTypes'
  BY <1>1 DEF TypesInv, SessionTypes, Connected, Running
<1>7. RingTypes'
  BY <1>1 DEF TypesInv, RingTypes
<1>8. KnownFiles(files', Len(sessions))
  BY <1>2, <1>3, KnownPart
<1>9. FileTypes'
  BY <1>1, <1>8 DEF TypesInv, FileTypes
<1>10. RestTypes'
  BY <1>1 DEF TypesInv, RestTypes, Budget
<1> QED
  BY <1>5, <1>6, <1>7, <1>9, <1>10 DEF TypesInv

LEMMA TypesStep == TypesInv /\ [Next]_vars => TypesInv'
<1> SUFFICES ASSUME TypesInv, [Next]_vars PROVE TypesInv'
  OBVIOUS
<1>1. CASE Starts
  BY <1>1, StartsTypes
<1>2. CASE Closes
  BY <1>2, StopsTypes DEF Closes
<1>3. CASE Crashes
  BY <1>3, StopsTypes DEF Crashes
<1>4. ASSUME NEW i \in Identity, Registers(i) PROVE TypesInv'
  BY <1>4, RegistersTypes
<1>5. ASSUME NEW i \in Identity, Disconnects(i) PROVE TypesInv'
  BY <1>5, DisconnectsTypes
<1>6. ASSUME NEW i \in Identity, EditObserved(i) PROVE TypesInv'
  BY <1>6, EditObservedTypes
<1>7. ASSUME NEW i \in Identity, PatchSaved(i) PROVE TypesInv'
  BY <1>7, PatchSavedTypes
<1>8. ASSUME NEW d \in Decision, Resolve(d) PROVE TypesInv'
  BY <1>8, ResolveTypes
<1>9. CASE Erases
  BY <1>9, ErasesTypes
<1>10. CASE EraseFails
  BY <1>10, EraseFailsTypes
<1>11. CASE UNCHANGED vars
  BY <1>11 DEF vars, historyVars, ledgerVars, TypesInv, LedgerTypes, SessionTypes,
               RingTypes, FileTypes, RestTypes, Connected, Running
<1> QED
  BY <1>1, <1>2, <1>3, <1>4, <1>5, <1>6, <1>7, <1>8, <1>9, <1>10, <1>11 DEF Next

LEMMA TypesHold == Spec => []TypesInv
BY TypesInit, TypesStep, PTL DEF Spec

\* The variables keep their types; every observation in a file or in the ring is
\* of a session that was registered (TypesInv).
THEOREM HistoryTypes == Spec => []TypeOK
BY TypesHold, TypesAreOK, PTL

-----------------------------------------------------------------------------
(* Aliases.                                                                  *)

LEMMA EndsStep == TypesInv /\ Ends(identities) /\ [Next]_vars => Ends(identities)'
<1> SUFFICES ASSUME TypesInv, Ends(identities), [Next]_vars PROVE Ends(identities)'
  OBVIOUS
<1>1. identities \in Memory /\ ledger \in Seq(Line)
  BY DEF TypesInv, LedgerTypes
<1>2. ASSUME NEW m \in Memory, Ends(m), NEW seen, identities' = Observed(m, seen)
      PROVE  Ends(identities)'
  BY <1>2 DEF Observed, Memory, Ends
<1>3. CASE Starts
  <2>1. PICK fs : identities' = Observed(Replay(ledger), SeenIn(fs))
    BY <1>3 DEF Starts, Loads
  <2>2. Replay(ledger) \in Memory /\ Ends(Replay(ledger))
    BY <1>1, ReplayType, ReplayEnds
  <2> QED
    BY <1>2, <2>1, <2>2
<1>4. ASSUME NEW i \in Identity, Registers(i) PROVE Ends(identities)'
  <2>1. CASE Observes(i)
    BY <1>1, <1>2, <2>1 DEF Observes
  <2>2. CASE UNCHANGED ledgerVars
    BY <2>2 DEF ledgerVars
  <2> QED
    BY <1>4, <2>1, <2>2 DEF Registers
<1>5. ASSUME NEW d \in Decision, Resolve(d) PROVE Ends(identities)'
  <2>1. d \in Line /\ identities' = Applied(identities, d)
    BY <1>5 DEF Resolve, Resolves, Line
  <2> QED
    BY <1>1, <2>1, DecisionsCloseNoCycle
<1>6. CASE Erases
  <2>1. identities' = Observed(NoIdentities, {})
    BY <1>6, ReplayOfNothing DEF Erases, Loads
  <2>2. Ends(NoIdentities)
    BY DEF Ends, NoIdentities
  <2> QED
    BY <1>2, <2>1, <2>2, NoIdentitiesIsMemory
<1>7. CASE EraseFails \/ Closes \/ Crashes \/ UNCHANGED vars
  BY <1>7 DEF EraseFails, Closes, Crashes, Stops, vars, ledgerVars
<1>8. ASSUME NEW i \in Identity, Disconnects(i) \/ EditObserved(i) \/ PatchSaved(i)
      PROVE  Ends(identities)'
  BY <1>8 DEF Disconnects, EditObserved, PatchSaved, ledgerVars
<1> QED
  BY <1>3, <1>4, <1>5, <1>6, <1>7, <1>8 DEF Next

\* Following aliases always ends, for any set of identities, however often the
\* broker restarts or erases its history and however much of that fails.
THEOREM AliasesAlwaysEnd == Spec => []AliasesEnd
<1>1. Init => Ends(identities)
  BY DEF Init, LedgerInit, NoIdentities, Ends
<1>2. Ends(identities) => AliasesEnd
  BY DEF Ends, AliasesEnd
<1>3. Spec => []Ends(identities)
  BY <1>1, TypesHold, EndsStep, PTL DEF Spec
<1> QED
  BY <1>2, <1>3, PTL

\* Nobody is hidden in one memory and not in the other, or followed elsewhere.
Agrees(m, n) == m.aliases = n.aliases /\ m.forgotten = n.forgotten

LEMMA AppliedAgrees ==
  ASSUME NEW m \in Memory, NEW n \in Memory, Agrees(m, n), NEW d \in Line
  PROVE  Agrees(Applied(m, d), Applied(n, d))
<1>1. Applicable(m, d) <=> Applicable(n, d)
  BY DEF Applicable, IsAlias, Agrees
<1>2. Redirected(m, d) = Redirected(n, d)
  BY DEF Redirected, Agrees
<1>3. CASE ~Applicable(m, d)
  BY <1>1, <1>3 DEF Applied
<1>4. CASE Applicable(m, d) /\ d.action = "forget"
  BY <1>1, <1>4 DEF Applied, Memory, Agrees
<1>5. CASE Applicable(m, d) /\ d.action # "forget"
  BY <1>1, <1>2, <1>5 DEF Applied, Memory, Agrees
<1> QED
  BY <1>3, <1>4, <1>5

(* An erasure that fails after it removed the ledger's file, and before it    *)
(* removed the observations of everybody, leaves no trace of what was hidden. *)

AgreesInv == lost = "no" => Agrees(Replay(ledger), identities)

\* Only a whole erasure makes good what a failed one took.
LEMMA OnlyErasesMakesGood ==
  ASSUME TypesInv, [Next]_vars, lost' = "no", ~Erases
  PROVE  lost = "no" /\ (EraseFails => ledger' = ledger)
<1>1. CASE EraseFails
  BY <1>1, EraseFailsLeaves
<1>2. CASE ~EraseFails /\ Starts
  BY <1>2 DEF Starts
<1>3. CASE ~EraseFails /\ (Closes \/ Crashes \/ UNCHANGED vars)
  BY <1>3 DEF Closes, Crashes, Stops, vars, historyVars
<1>4. ASSUME ~EraseFails, NEW i \in Identity,
             Registers(i) \/ Disconnects(i) \/ EditObserved(i) \/ PatchSaved(i)
      PROVE  lost = "no"
  BY <1>4 DEF Registers, Disconnects, EditObserved, PatchSaved
<1>5. ASSUME ~EraseFails, NEW d \in Decision, Resolve(d) PROVE lost = "no"
  BY <1>5 DEF Resolve
<1> QED
  BY <1>1, <1>2, <1>3, <1>4, <1>5 DEF Next

LEMMA AgreesStep == TypesInv /\ AgreesInv /\ [Next]_vars => AgreesInv'
<1> SUFFICES ASSUME TypesInv, AgreesInv, [Next]_vars, lost' = "no"
             PROVE  Agrees(Replay(ledger), identities)'
  BY DEF AgreesInv
<1>1. CASE Erases
  <2>1. ledger' = <<>> /\ identities' = Observed(NoIdentities, {})
    BY <1>1, ReplayOfNothing DEF Erases, Loads
  <2>2. Agrees(NoIdentities, Observed(NoIdentities, {}))
    BY NoIdentitiesIsMemory DEF Observed, Memory, Agrees
  <2> QED
    BY <2>1, <2>2, ReplayOfNothing
<1>2. CASE ~Erases
  <2>1. /\ identities \in Memory /\ ledger \in Seq(Line) /\ Replay(ledger) \in Memory
        /\ Agrees(Replay(ledger), identities)
    BY <1>2, ReplayType, OnlyErasesMakesGood DEF TypesInv, LedgerTypes, AgreesInv
  <2>2. ASSUME UNCHANGED <<identities, ledger>> PROVE Agrees(Replay(ledger), identities)'
    BY <2>1, <2>2
  <2>3. CASE Starts
    <3>1. PICK fs : ledger' = ledger /\ identities' = Observed(Replay(ledger), SeenIn(fs))
      BY <2>3 DEF Starts, Loads
    <3>2. Agrees(Replay(ledger), Observed(Replay(ledger), SeenIn(fs)))
      BY <2>1 DEF Observed, Memory, Agrees
    <3> QED
      BY <3>1, <3>2
  <2>4. ASSUME NEW i \in Identity, Registers(i) PROVE Agrees(Replay(ledger), identities)'
    <3>1. CASE Observes(i)
      <4>1. Agrees(Replay(ledger), Observed(identities, {i}))
        BY <2>1 DEF Observed, Memory, Agrees
      <4> QED
        BY <3>1, <4>1 DEF Observes
    <3>2. CASE UNCHANGED ledgerVars
      BY <2>2, <3>2 DEF ledgerVars
    <3> QED
      BY <2>4, <3>1, <3>2 DEF Registers
  <2>5. ASSUME NEW d \in Decision, Resolve(d) PROVE Agrees(Replay(ledger), identities)'
    <3>1. d \in Line /\ identities' = Applied(identities, d) /\ ledger' = Append(ledger, d)
      BY <2>5 DEF Resolve, Resolves, Line
    <3>2. Replay(Append(ledger, d)) = Applied(Replay(ledger), d)
      BY <2>1, <3>1, ReplayAppend
    <3>3. Agrees(Applied(Replay(ledger), d), Applied(identities, d))
      BY <2>1, <3>1, AppliedAgrees
    <3> QED
      BY <3>1, <3>2, <3>3
  <2>6. CASE EraseFails
    BY <1>2, <2>2, <2>6, OnlyErasesMakesGood, EraseFailsLeaves
  <2>7. CASE Closes \/ Crashes \/ UNCHANGED vars
    BY <2>2, <2>7 DEF Closes, Crashes, Stops, vars, ledgerVars
  <2>8. ASSUME NEW i \in Identity, Disconnects(i) \/ EditObserved(i) \/ PatchSaved(i)
        PROVE  Agrees(Replay(ledger), identities)'
    BY <2>2, <2>8 DEF Disconnects, EditObserved, PatchSaved, ledgerVars
  <2> QED
    BY <1>2, <2>3, <2>4, <2>5, <2>6, <2>7, <2>8 DEF Next
<1> QED
  BY <1>1, <1>2

\* A restarted broker takes every decision as the one that recorded it did,
\* for any set of identities and any number of decisions, restarts and faults,
\* unless a failed erasure took the ledger.
THEOREM RestartsAgree == Spec => []DecisionsSurvive
<1>1. Init => AgreesInv
  BY ReplayOfNothing DEF Init, LedgerInit, Agrees, AgreesInv
<1>2. AgreesInv => DecisionsSurvive
  BY DEF Agrees, ReplayAgrees, AgreesInv, DecisionsSurvive
<1>3. Spec => []AgreesInv
  BY <1>1, TypesHold, AgreesStep, PTL DEF Spec
<1> QED
  BY <1>2, <1>3, PTL

-----------------------------------------------------------------------------
(* The counts.                                                               *)

\* Every session stays the one of its patch, and its edits are counted on.
LEMMA PatchesStay ==
  TypesInv /\ [Next]_vars =>
    /\ Len(sessions) <= Len(sessions')
    /\ \A s \in 1..Len(sessions) : /\ sessions'[s].patch = sessions[s].patch
                                   /\ sessions[s].observed <= sessions'[s].observed
<1> DEFINE Stay == /\ Len(sessions) <= Len(sessions')
                   /\ \A s \in 1..Len(sessions) :
                        /\ sessions'[s].patch = sessions[s].patch
                        /\ sessions[s].observed <= sessions'[s].observed
<1> SUFFICES ASSUME TypesInv, [Next]_vars PROVE Stay
  OBVIOUS
<1>1. /\ Len(sessions) \in Nat /\ sessions \in Seq(Session)
      /\ \A s \in 1..Len(sessions) : sessions[s].observed \in Nat
  BY SessionFields DEF TypesInv, SessionTypes
<1>2. CASE UNCHANGED sessions
  BY <1>1, <1>2
<1>3. CASE Starts \/ Erases
  <2>1. sessions' = [s \in DOMAIN sessions |-> [sessions[s] EXCEPT !.chunk = 0, !.lines = 0]]
    BY <1>3 DEF Starts, Erases
  <2>2. /\ Len(sessions') = Len(sessions)
        /\ \A s \in 1..Len(sessions) : /\ sessions'[s].patch = sessions[s].patch
                                       /\ sessions'[s].observed = sessions[s].observed
    BY <2>1, ForgottenChunks
  <2> QED
    BY <1>1, <2>2
<1>4. ASSUME NEW i \in Identity, Registers(i) PROVE Stay
  <2>1. PICK n \in {0, 1} :
          sessions' = Append(sessions, [patch |-> i, observed |-> 0, chunk |-> n, lines |-> n])
    BY <1>4 DEF Registers
  <2> DEFINE session == [patch |-> i, observed |-> 0, chunk |-> n, lines |-> n]
  <2>2. session \in Session
    BY <2>1 DEF Session
  <2>3. sessions' = Append(sessions, session)
    BY <2>1
  <2> HIDE DEF session
  <2>4. /\ Len(sessions') = Len(sessions) + 1
        /\ \A r \in 1..Len(sessions) : sessions'[r] = sessions[r]
    BY <1>1, <2>2, <2>3, AppendProperties
  <2> QED
    BY <1>1, <2>4
<1>5. ASSUME NEW i \in Identity, EditObserved(i) \/ PatchSaved(i) PROVE Stay
  <2>1. i \in Connected
    BY <1>5 DEF EditObserved, PatchSaved
  <2> DEFINE s == registered[i]
  <2>2. s \in 1..Len(sessions) /\ sessions[s].observed \in Nat
    BY <2>1, ConnectedSession, SessionFields
  <2>3. CASE EditObserved(i)
    <3> DEFINE o == [sequence |-> nextSequence, session |-> s,
                     nth |-> sessions[s].observed + 1]
    <3>1. PICK w \in Outcomes(s, o) : Persists(s, o, o.nth, w)
      BY <2>3 DEF EditObserved
    <3>2. o \in Observation /\ o.session = s /\ o.nth \in Nat
      BY <2>2 DEF Observation, TypesInv, RingTypes
    <3>5. sessions[s].observed <= o.nth
      BY <2>2
    <3> HIDE DEF o
    <3>3. LineOf(s, o)
      BY <3>2 DEF LineOf
    <3> HIDE DEF s
    <3>4. /\ Len(sessions') = Len(sessions)
          /\ \A r \in 1..Len(sessions) : r # s => sessions'[r] = sessions[r]
          /\ sessions'[s].patch = sessions[s].patch
          /\ sessions'[s].observed = o.nth
      BY <2>2, <3>1, <3>2, <3>3, PersistsTypes
    <3> QED
      BY <1>1, <3>4, <3>5
  <2>4. CASE PatchSaved(i)
    <3>1. PICK w \in Outcomes(s, Saved) : Persists(s, Saved, sessions[s].observed, w)
      BY <2>4 DEF PatchSaved
    <3>2. LineOf(s, Saved)
      BY DEF LineOf
    <3> HIDE DEF s
    <3>3. /\ Len(sessions') = Len(sessions)
          /\ \A r \in 1..Len(sessions) : r # s => sessions'[r] = sessions[r]
          /\ sessions'[s].patch = sessions[s].patch
          /\ sessions'[s].observed = sessions[s].observed
      BY <2>2, <3>1, <3>2, PersistsTypes
    <3> QED
      BY <1>1, <3>3
  <2> QED
    BY <1>5, <2>3, <2>4
<1>6. CASE Closes \/ Crashes \/ EraseFails \/ UNCHANGED vars
  BY <1>2, <1>6 DEF Closes, Crashes, Stops, EraseFails, vars, historyVars
<1>7. ASSUME NEW i \in Identity, Disconnects(i) PROVE Stay
  BY <1>2, <1>7 DEF Disconnects
<1>8. ASSUME NEW d \in Decision, Resolve(d) PROVE Stay
  BY <1>2, <1>8 DEF Resolve
<1> HIDE DEF Stay
<1> QED
  BY <1>3, <1>4, <1>5, <1>6, <1>7, <1>8 DEF Next

LEMMA CountSplit ==
  ASSUME NEW all \in Seq(Observation), NEW i
  PROVE  Count(all, i) = Count(Kept(all), i) + Count(Removed(all), i)
<1>1. PICK cut \in 0..Len(all) :
        /\ Kept(all) \in Seq(Observation)
        /\ Len(Kept(all)) = Len(all) - cut
        /\ \A k \in 1..Len(Kept(all)) : Kept(all)[k] = all[cut + k]
        /\ Removed(all) \in Seq(Observation)
        /\ Len(Removed(all)) = cut
        /\ \A k \in 1..cut : Removed(all)[k] = all[k]
  BY KeptProperties
<1>2. /\ Len(all) \in Nat /\ DOMAIN all = 1..Len(all)
      /\ DOMAIN Kept(all) = 1..Len(all) - cut
      /\ DOMAIN Removed(all) = 1..cut
  BY <1>1, LenProperties
<1> DEFINE mine(k) == PatchOf(all[k]) = i
           C == {k \in 1..Len(all) : mine(k)}
           A == {k \in 1..cut : mine(k)}
           B == {k \in cut + 1..Len(all) : mine(k)}
           D == {k \in 1..Len(all) - cut : mine(cut + k)}
<1>3. Count(all, i) = Cardinality(C)
  BY <1>2 DEF Count
<1>4. Count(Removed(all), i) = Cardinality(A)
  <2>1. {k \in DOMAIN Removed(all) : PatchOf(Removed(all)[k]) = i} = A
    BY <1>1, <1>2
  <2> HIDE DEF A
  <2> QED
    BY <2>1 DEF Count
<1>5. Count(Kept(all), i) = Cardinality(D)
  <2>1. {k \in DOMAIN Kept(all) : PatchOf(Kept(all)[k]) = i} = D
    BY <1>1, <1>2
  <2> HIDE DEF D
  <2> QED
    BY <2>1 DEF Count
<1> HIDE DEF mine
<1>6. IsFiniteSet(1..Len(all)) /\ A \in SUBSET (1..Len(all)) /\ B \in SUBSET (1..Len(all))
  BY <1>2, IntervalSize
<1>7. IsFiniteSet(A) /\ IsFiniteSet(B)
  <2> HIDE DEF A, B
  <2> QED
    BY <1>6, FS_Subset
<1>8. C = A \cup B /\ A \cap B = {}
  BY <1>2
<1>9. Cardinality(D) = Cardinality(B)
  <2> DEFINE f == [k \in B |-> k - cut]
  <2>1. f \in [B -> D]
    <3> SUFFICES ASSUME NEW k \in B PROVE k - cut \in D
      OBVIOUS
    <3>1. k - cut \in 1..Len(all) - cut /\ cut + (k - cut) = k
      BY <1>2
    <3> QED
      BY <3>1
  <2>2. \A j, k \in B : f[j] = f[k] => j = k
    BY <1>2
  <2>3. \A d \in D : \E k \in B : f[k] = d
    <3> SUFFICES ASSUME NEW d \in D PROVE \E k \in B : f[k] = d
      OBVIOUS
    <3>1. cut + d \in B /\ (cut + d) - cut = d
      BY <1>2
    <3> QED
      BY <3>1
  <2> HIDE DEF f, B, D
  <2>4. f \in Bijection(B, D)
    BY <2>1, <2>2, <2>3 DEF Bijection, Injection, Surjection, IsInjective
  <2> QED
    BY <1>7, <2>4, FS_Bijection DEF ExistsBijection
<1>10. Cardinality(A \cap B) = 0
  BY <1>8, FS_EmptySet
<1>11. Cardinality(C) = Cardinality(A) + Cardinality(B)
  <2> HIDE DEF A, B, C
  <2>1. Cardinality(A \cup B) = Cardinality(A) + Cardinality(B) - Cardinality(A \cap B)
    BY <1>7, FS_Union
  <2>2. Cardinality(A) \in Nat /\ Cardinality(B) \in Nat
    BY <1>7, FS_CardinalityType
  <2> QED
    BY <1>8, <1>10, <2>1, <2>2
<1>12. Cardinality(A) \in Nat /\ Cardinality(B) \in Nat
  BY <1>7, FS_CardinalityType
<1> HIDE DEF A, B, C, D
<1> QED
  BY <1>3, <1>4, <1>5, <1>9, <1>11, <1>12

LEMMA CountAppend ==
  ASSUME NEW seq \in Seq(Observation), NEW o \in Observation, NEW i
  PROVE  Count(Append(seq, o), i) = Count(seq, i) + (IF PatchOf(o) = i THEN 1 ELSE 0)
<1> DEFINE t == Append(seq, o)
<1>1. /\ t \in Seq(Observation) /\ Len(t) = Len(seq) + 1
      /\ \A k \in 1..Len(seq) : t[k] = seq[k]
      /\ t[Len(seq) + 1] = o
  BY AppendProperties
<1>2. /\ Len(seq) \in Nat /\ DOMAIN seq = 1..Len(seq) /\ DOMAIN t = 1..Len(seq) + 1
  BY <1>1, LenProperties
<1> HIDE DEF t
<1> DEFINE C == {k \in 1..Len(seq) : PatchOf(seq[k]) = i}
           D == {k \in 1..Len(seq) + 1 : PatchOf(t[k]) = i}
<1>3. Count(seq, i) = Cardinality(C) /\ Count(t, i) = Cardinality(D)
  BY <1>2 DEF Count
<1>4. IsFiniteSet(C) /\ Cardinality(C) \in Nat
  <2>1. C \in SUBSET (1..Len(seq)) /\ IsFiniteSet(1..Len(seq))
    BY <1>2, IntervalSize
  <2> HIDE DEF C
  <2>2. IsFiniteSet(C)
    BY <2>1, FS_Subset
  <2> QED
    BY <2>2, FS_CardinalityType
<1>5. /\ Len(seq) + 1 \notin C
      /\ PatchOf(o) = i => D = C \cup {Len(seq) + 1}
      /\ PatchOf(o) # i => D = C
  <2>1. \A k \in 1..Len(seq) + 1 : k \in 1..Len(seq) \/ k = Len(seq) + 1
    BY <1>2
  <2>2. Len(seq) + 1 \notin 1..Len(seq) /\ Len(seq) + 1 \in 1..Len(seq) + 1
    BY <1>2
  <2>3. \A k \in 1..Len(seq) : k \in 1..Len(seq) + 1
    BY <1>2
  <2> QED
    BY <1>1, <2>1, <2>2, <2>3
<1> HIDE DEF C, D
<1>6. Cardinality(C \cup {Len(seq) + 1}) = Cardinality(C) + 1
  BY <1>4, <1>5, FS_AddElement
<1>7. CASE PatchOf(o) = i
  BY <1>3, <1>5, <1>6, <1>7 DEF t
<1>8. CASE PatchOf(o) # i
  BY <1>3, <1>4, <1>5, <1>8 DEF t
<1> QED
  BY <1>7, <1>8

\* A step that keeps the patches of the sessions counts alike before and after.
LEMMA CountStays ==
  ASSUME \A s \in 1..Len(sessions) : sessions'[s].patch = sessions[s].patch,
         KnownRing(ring', Len(sessions)), NEW i
  PROVE  Count(ring, i)' = Count(ring', i)
<1>1. DOMAIN ring' = 1..Len(ring') /\ \A k \in 1..Len(ring') : ring'[k].session \in 1..Len(sessions)
  BY LenProperties DEF KnownRing
<1>2. {k \in DOMAIN ring' : sessions'[ring'[k].session].patch = i}
        = {k \in DOMAIN ring' : sessions[ring'[k].session].patch = i}
  BY <1>1
<1> QED
  BY <1>2 DEF Count, PatchOf

LEMMA DropsStep == TypesInv /\ DropsAreCounted /\ [Next]_vars => DropsAreCounted'
<1> SUFFICES ASSUME TypesInv, DropsAreCounted, [Next]_vars PROVE DropsAreCounted'
  OBVIOUS
<1>1. \A s \in 1..Len(sessions) : sessions'[s].patch = sessions[s].patch
  BY PatchesStay
<1>2. /\ ring \in Seq(Observation) /\ KnownRing(ring, Len(sessions))
      /\ Len(sessions) \in Nat
  BY SessionFields DEF TypesInv, RingTypes, KnownRing
<1>3. ASSUME UNCHANGED <<lease, ring, arrived, dropped>> PROVE DropsAreCounted'
  <2>1. \A i \in Identity : Count(ring, i)' = Count(ring', i)
    BY <1>1, <1>2, <1>3, CountStays
  <2>2. \A i \in Identity : Count(ring', i) = Count(ring, i)
    BY <1>3
  <2> QED
    BY <1>3, <2>1, <2>2 DEF DropsAreCounted, Running
<1>4. CASE Starts
  <2>1. PICK fs \in Prunings(files, 0, 0) :
          /\ ring' = Kept(Loaded(fs))
          /\ dropped' = Counts(Loaded(fs))
          /\ arrived' = [i \in Identity |-> Count(Loaded(fs), i)]
    BY <1>4 DEF Starts
  <2>2. KnownFiles(fs, Len(sessions))
    BY <1>2, <2>1, KnownPruned DEF TypesInv, FileTypes
  <2> DEFINE all == Loaded(fs)
  <2>3. KnownRing(all, Len(sessions)) /\ all \in Seq(Observation)
    BY <1>2, <2>2, KnownLoaded DEF KnownRing
  <2> HIDE DEF all
  <2>4. KnownRing(ring', Len(sessions))
    BY <1>2, <2>1, <2>3, KnownKept DEF all
  <2> SUFFICES ASSUME NEW i \in Identity
               PROVE  arrived'[i] = Count(ring, i)' + dropped'[i]
    BY DEF DropsAreCounted
  <2>5. Count(ring, i)' = Count(ring', i)
    BY <1>1, <2>4, CountStays
  <2>6. Count(ring', i) = Count(Kept(all), i) /\ dropped'[i] = Count(Removed(all), i)
    BY <2>1 DEF Counts, all
  <2>7. arrived'[i] = Count(all, i)
    BY <2>1 DEF all
  <2> QED
    BY <2>3, <2>5, <2>6, <2>7, CountSplit
<1>5. CASE Closes \/ Crashes
  BY <1>5 DEF Closes, Crashes, Stops, DropsAreCounted, Running
<1>6. ASSUME NEW i \in Identity, EditObserved(i) PROVE DropsAreCounted'
  <2> DEFINE s == registered[i]
             o == [sequence |-> nextSequence, session |-> s,
                   nth |-> sessions[s].observed + 1]
             all == Append(ring, o)
  <2>1. s \in 1..Len(sessions) /\ sessions[s].patch = i /\ sessions[s].observed \in Nat /\ Running
    BY <1>6, ConnectedSession, SessionFields DEF EditObserved
  <2>2. o \in Observation /\ PatchOf(o) = i
    BY <2>1 DEF Observation, TypesInv, RingTypes, PatchOf
  <2>3. /\ ring' = Kept(all)
        /\ dropped' = [j \in Identity |-> dropped[j] + Counts(all)[j]]
        /\ arrived' = [arrived EXCEPT ![i] = @ + 1]
    BY <1>6 DEF EditObserved
  <2>4. o.session = s
    OBVIOUS
  <2> HIDE DEF s
  <2> HIDE DEF o
  <2>5. all \in Seq(Observation) /\ KnownRing(all, Len(sessions))
    <3>1. /\ all \in Seq(Observation) /\ Len(all) = Len(ring) + 1
          /\ \A k \in 1..Len(ring) : all[k] = ring[k]
          /\ all[Len(ring) + 1] = o
      BY <1>2, <2>2, AppendProperties
    <3>2. Len(ring) \in Nat
      BY <1>2, LenProperties
    <3> HIDE DEF all
    <3>3. \A k \in 1..Len(all) : k \in 1..Len(ring) \/ k = Len(ring) + 1
      BY <3>1, <3>2
    <3> QED
      BY <1>2, <2>1, <2>4, <3>1, <3>3 DEF KnownRing
  <2>6. KnownRing(ring', Len(sessions))
    BY <1>2, <2>3, <2>5, KnownKept
  <2> SUFFICES ASSUME NEW j \in Identity
               PROVE  arrived'[j] = Count(ring, j)' + dropped'[j]
    BY DEF DropsAreCounted
  <2>7. Count(ring, j)' = Count(ring', j) /\ Count(ring', j) = Count(Kept(all), j)
    BY <1>1, <2>3, <2>6, CountStays
  <2>8. Count(all, j) = Count(ring, j) + (IF j = i THEN 1 ELSE 0)
    BY <1>2, <2>2, CountAppend
  <2>9. Count(all, j) = Count(Kept(all), j) + Count(Removed(all), j)
    BY <2>5, CountSplit
  <2>10. dropped'[j] = dropped[j] + Count(Removed(all), j)
    BY <2>3 DEF Counts
  <2>11. arrived'[j] = arrived[j] + (IF j = i THEN 1 ELSE 0)
    BY <2>3 DEF TypesInv, RingTypes
  <2>12. arrived[j] = Count(ring, j) + dropped[j]
    BY <2>1 DEF DropsAreCounted
  <2>13. /\ Count(ring, j) \in Nat /\ dropped[j] \in Nat /\ arrived[j] \in Nat
         /\ Count(Kept(all), j) \in Nat /\ Count(Removed(all), j) \in Nat
    <3>1. Kept(all) \in Seq(Observation) /\ Removed(all) \in Seq(Observation)
      BY <2>5, KeptProperties
    <3> QED
      BY <1>2, <3>1, CountType DEF TypesInv, RingTypes
  <2> HIDE DEF all
  <2> QED
    BY <2>7, <2>8, <2>9, <2>10, <2>11, <2>12, <2>13
<1>7. CASE Erases
  <2>1. ring' = <<>> /\ arrived' = Zero /\ dropped' = Zero
    BY <1>7 DEF Erases
  <2>2. DOMAIN ring' = {}
    BY <2>1
  <2>3. \A i \in Identity : Count(ring, i)' = 0
    <3>1. \A i \in Identity : {k \in DOMAIN ring' : sessions'[ring'[k].session].patch = i} = {}
      BY <2>2
    <3> QED
      BY <3>1, FS_EmptySet DEF Count, PatchOf
  <2> QED
    BY <2>1, <2>3 DEF DropsAreCounted, Zero
<1>8. ASSUME NEW i \in Identity, Registers(i) \/ Disconnects(i) \/ PatchSaved(i)
      PROVE  DropsAreCounted'
  BY <1>3, <1>8 DEF Registers, Disconnects, PatchSaved
<1>9. ASSUME NEW d \in Decision, Resolve(d) PROVE DropsAreCounted'
  BY <1>3, <1>9 DEF Resolve
<1>10. CASE EraseFails \/ UNCHANGED vars
  BY <1>3, <1>10 DEF EraseFails, vars, historyVars
<1> QED
  BY <1>4, <1>5, <1>6, <1>7, <1>8, <1>9, <1>10 DEF Next

\* droppedEvents is true for every patch, for any size of the ring and of the
\* files, and whatever was pruned, lost or erased before.
THEOREM DropsAreAlwaysCounted == Spec => []DropsAreCounted
<1>1. Init => DropsAreCounted
  BY DEF Init, DropsAreCounted, Running
<1> QED
  BY <1>1, TypesHold, DropsStep, PTL DEF Spec

-----------------------------------------------------------------------------
(* The numbers.                                                              *)

\* What the files with a header hold.
Entries(fs) ==
  {o \in Observation :
     \E j \in 1..Len(fs) : fs[j].header /\ \E a \in 1..Len(fs[j].lines) : fs[j].lines[a] = o}

\* In a file the numbers rise, and no two files share one.
Numbered(fs) ==
  /\ \A j \in 1..Len(fs) : fs[j].header =>
       \A a, b \in 1..Len(fs[j].lines) :
         /\ a < b
         /\ fs[j].lines[a] \in Observation
         /\ fs[j].lines[b] \in Observation
         => fs[j].lines[a].sequence < fs[j].lines[b].sequence
  /\ \A j, k \in 1..Len(fs) : j # k /\ fs[j].header /\ fs[k].header =>
       \A a \in 1..Len(fs[j].lines), b \in 1..Len(fs[k].lines) :
         fs[j].lines[a] \in Observation /\ fs[k].lines[b] \in Observation
           => fs[j].lines[a].sequence # fs[k].lines[b].sequence

LEMMA EntriesPart ==
  ASSUME NEW fs \in Seq(File), NEW t \in Seq(File), PartOf(t, fs), Numbered(fs)
  PROVE  Numbered(t) /\ Entries(t) \subseteq Entries(fs)
<1>1. PICK e : Picks(e, t, fs)
  BY DEF PartOf
<1>2. Len(t) \in Nat /\ Len(fs) \in Nat
  BY LenProperties
<1>3. \A k \in 1..Len(t) : e[k] \in 1..Len(fs) /\ t[k] = fs[e[k]]
  BY <1>1 DEF Picks
<1>4. \A j, k \in 1..Len(t) : j # k => e[j] # e[k]
  <2> SUFFICES ASSUME NEW j \in 1..Len(t), NEW k \in 1..Len(t), j # k PROVE e[j] # e[k]
    OBVIOUS
  <2>1. j < k \/ k < j
    BY <1>2
  <2>2. e[j] < e[k] \/ e[k] < e[j]
    BY <1>1, <2>1 DEF Picks
  <2>3. e[j] \in Nat /\ e[k] \in Nat
    BY <1>2, <1>3
  <2> QED
    BY <2>2, <2>3
<1>5. Numbered(t)
  <2>1. \A j \in 1..Len(t) : t[j].header =>
          \A a, b \in 1..Len(t[j].lines) :
            /\ a < b
            /\ t[j].lines[a] \in Observation
            /\ t[j].lines[b] \in Observation
            => t[j].lines[a].sequence < t[j].lines[b].sequence
    BY <1>3 DEF Numbered
  <2>2. \A j, k \in 1..Len(t) : j # k /\ t[j].header /\ t[k].header =>
          \A a \in 1..Len(t[j].lines), b \in 1..Len(t[k].lines) :
            t[j].lines[a] \in Observation /\ t[k].lines[b] \in Observation
              => t[j].lines[a].sequence # t[k].lines[b].sequence
    <3> SUFFICES ASSUME NEW j \in 1..Len(t), NEW k \in 1..Len(t), j # k,
                        t[j].header, t[k].header
                 PROVE  \A a \in 1..Len(t[j].lines), b \in 1..Len(t[k].lines) :
                          t[j].lines[a] \in Observation /\ t[k].lines[b] \in Observation
                            => t[j].lines[a].sequence # t[k].lines[b].sequence
      OBVIOUS
    <3>1. PICK p \in 1..Len(fs), q \in 1..Len(fs) : p # q /\ t[j] = fs[p] /\ t[k] = fs[q]
      BY <1>3, <1>4
    <3> QED
      BY <3>1 DEF Numbered
  <2> QED
    BY <2>1, <2>2 DEF Numbered
<1>6. Entries(t) \subseteq Entries(fs)
  <2> SUFFICES ASSUME NEW o \in Entries(t) PROVE o \in Entries(fs)
    OBVIOUS
  <2>1. PICK j \in 1..Len(t) :
          t[j].header /\ \E a \in 1..Len(t[j].lines) : t[j].lines[a] = o
    BY DEF Entries
  <2>2. \E k \in 1..Len(fs) : t[j] = fs[k]
    BY <1>3
  <2> QED
    BY <2>1, <2>2 DEF Entries
<1> QED
  BY <1>5, <1>6

\* A file that is put at the end.
LEMMA EntriesAppend ==
  ASSUME NEW fs \in Seq(File), NEW file \in File, Numbered(fs),
         \* Its own numbers rise,
         file.header => \A a, b \in 1..Len(file.lines) :
           /\ a < b
           /\ file.lines[a] \in Observation
           /\ file.lines[b] \in Observation
           => file.lines[a].sequence < file.lines[b].sequence,
         \* and none of them is in another file.
         \A j \in 1..Len(fs) : fs[j].header /\ file.header =>
           \A a \in 1..Len(fs[j].lines), b \in 1..Len(file.lines) :
             fs[j].lines[a] \in Observation /\ file.lines[b] \in Observation
               => fs[j].lines[a].sequence # file.lines[b].sequence
  PROVE  /\ Numbered(Append(fs, file))
         /\ \A o \in Entries(Append(fs, file)) :
              \/ o \in Entries(fs)
              \/ file.header /\ \E a \in 1..Len(file.lines) : file.lines[a] = o
<1> DEFINE t == Append(fs, file)
<1>1. /\ t \in Seq(File) /\ Len(t) = Len(fs) + 1
      /\ \A k \in 1..Len(fs) : t[k] = fs[k]
      /\ t[Len(fs) + 1] = file
  BY AppendProperties
<1>2. Len(fs) \in Nat
  BY LenProperties
<1> HIDE DEF t
<1>3. \A k \in 1..Len(t) : k \in 1..Len(fs) \/ k = Len(fs) + 1
  BY <1>1, <1>2
<1>4. \A j \in 1..Len(t) : t[j].header =>
        \A a, b \in 1..Len(t[j].lines) :
          /\ a < b
          /\ t[j].lines[a] \in Observation
          /\ t[j].lines[b] \in Observation
          => t[j].lines[a].sequence < t[j].lines[b].sequence
  <2> SUFFICES ASSUME NEW j \in 1..Len(t), t[j].header
               PROVE  \A a, b \in 1..Len(t[j].lines) :
                        /\ a < b
                        /\ t[j].lines[a] \in Observation
                        /\ t[j].lines[b] \in Observation
                        => t[j].lines[a].sequence < t[j].lines[b].sequence
    OBVIOUS
  <2>1. CASE j \in 1..Len(fs)
    <3>1. t[j] = fs[j]
      BY <1>1, <2>1
    <3> QED
      BY <2>1, <3>1 DEF Numbered
  <2>2. CASE j = Len(fs) + 1
    <3>1. t[j] = file
      BY <1>1, <2>2
    <3> QED
      BY <3>1
  <2> QED
    BY <1>3, <2>1, <2>2
<1>5. \A j, k \in 1..Len(t) : j # k /\ t[j].header /\ t[k].header =>
        \A a \in 1..Len(t[j].lines), b \in 1..Len(t[k].lines) :
          t[j].lines[a] \in Observation /\ t[k].lines[b] \in Observation
            => t[j].lines[a].sequence # t[k].lines[b].sequence
  <2> SUFFICES ASSUME NEW j \in 1..Len(t), NEW k \in 1..Len(t), j # k,
                      t[j].header, t[k].header
               PROVE  \A a \in 1..Len(t[j].lines), b \in 1..Len(t[k].lines) :
                        t[j].lines[a] \in Observation /\ t[k].lines[b] \in Observation
                          => t[j].lines[a].sequence # t[k].lines[b].sequence
    OBVIOUS
  <2>1. CASE j \in 1..Len(fs) /\ k \in 1..Len(fs)
    <3>1. t[j] = fs[j] /\ t[k] = fs[k]
      BY <1>1, <2>1
    <3> QED
      BY <2>1, <3>1 DEF Numbered
  <2>2. CASE j \in 1..Len(fs) /\ k = Len(fs) + 1
    <3>1. t[j] = fs[j] /\ t[k] = file
      BY <1>1, <2>2
    <3> QED
      BY <2>2, <3>1
  <2>3. CASE j = Len(fs) + 1 /\ k \in 1..Len(fs)
    <3>1. t[j] = file /\ t[k] = fs[k]
      BY <1>1, <2>3
    <3> QED
      BY <2>3, <3>1
  <2> QED
    BY <1>3, <2>1, <2>2, <2>3
<1>6. Numbered(t)
  BY <1>4, <1>5 DEF Numbered
<1>7. ASSUME NEW o \in Entries(t)
      PROVE  \/ o \in Entries(fs)
             \/ file.header /\ \E a \in 1..Len(file.lines) : file.lines[a] = o
  <2>1. o \in Observation
    BY DEF Entries
  <2>2. PICK j \in 1..Len(t) :
          t[j].header /\ \E a \in 1..Len(t[j].lines) : t[j].lines[a] = o
    BY DEF Entries
  <2>3. CASE j \in 1..Len(fs)
    <3>1. t[j] = fs[j]
      BY <1>1, <2>3
    <3> QED
      BY <2>1, <2>2, <2>3, <3>1 DEF Entries
  <2>4. CASE j = Len(fs) + 1
    <3>1. t[j] = file
      BY <1>1, <2>4
    <3> QED
      BY <2>2, <3>1
  <2> QED
    BY <1>3, <2>3, <2>4
<1> QED
  BY <1>6, <1>7 DEF t

LEMMA EntriesOpened ==
  ASSUME NEW fs \in Seq(File), Numbered(fs), NEW s \in Nat \ {0}, NEW n \in Nat \ {0}
  PROVE  /\ Opened(fs, s, n) \in Seq(File) /\ Numbered(Opened(fs, s, n))
         /\ Entries(Opened(fs, s, n)) \subseteq Entries(fs)
<1> DEFINE file == NewChunk(s, n)
<1>1. file \in File /\ Len(file.lines) = 0
  BY NewChunkIsFile
<1>2. Opened(fs, s, n) = Append(fs, file)
  BY DEF Opened
<1> HIDE DEF file
<1>3. Append(fs, file) \in Seq(File)
  BY <1>1, AppendProperties
<1>4. \A a \in 1..Len(file.lines) : FALSE
  BY <1>1
<1>5. /\ Numbered(Append(fs, file))
      /\ \A o \in Entries(Append(fs, file)) :
           \/ o \in Entries(fs)
           \/ file.header /\ \E a \in 1..Len(file.lines) : file.lines[a] = o
  BY <1>1, <1>4, EntriesAppend
<1> QED
  BY <1>2, <1>3, <1>4, <1>5

\* A line that is new: it has no number, or one above all others.
Fresh(line, fs) ==
  \/ line = Saved
  \/ line \in Observation /\ \A o \in Entries(fs) : o.sequence < line.sequence

LEMMA EntriesAppended ==
  ASSUME NEW fs \in Seq(File), Numbered(fs), NEW s \in Nat \ {0}, NEW n \in Nat \ {0},
         NEW line, Fresh(line, fs)
  PROVE  /\ Appended(fs, s, n, line) \in Seq(File)
         /\ Numbered(Appended(fs, s, n, line))
         /\ Entries(Appended(fs, s, n, line)) \subseteq Entries(fs) \cup {line}
<1>1. line \in Observation \cup {Saved}
  BY DEF Fresh
<1>2. PICK rest, file : Splits(fs, s, n, line, rest, file)
  BY <1>1, AppendedSplits
<1>3. /\ rest \in Seq(File) /\ file \in File /\ PartOf(rest, fs)
      /\ Appended(fs, s, n, line) = Append(rest, Longer(file, line))
  BY <1>2 DEF Splits
<1>4. Numbered(rest) /\ Entries(rest) \subseteq Entries(fs)
  BY <1>3, EntriesPart
<1> DEFINE longer == Longer(file, line)
           N == Len(file.lines)
<1>5. /\ longer \in File /\ longer.header = file.header
      /\ N \in Nat /\ Len(longer.lines) = N + 1
      /\ \A a \in 1..N : longer.lines[a] = file.lines[a]
      /\ longer.lines[N + 1] = line
  BY <1>1, <1>3, LongerFile
<1> HIDE DEF longer
<1>6. Append(rest, longer) \in Seq(File)
  BY <1>3, <1>5, AppendProperties
<1>7. \A a \in 1..N + 1 : a \in 1..N \/ a = N + 1
  BY <1>5
<1>8. ASSUME file.header, NEW a \in 1..N, file.lines[a] \in Observation
      PROVE  /\ file.lines[a] \in Entries(fs)
             /\ \A b \in 1..N : a < b /\ file.lines[b] \in Observation
                  => file.lines[a].sequence < file.lines[b].sequence
             /\ \A j \in 1..Len(rest) : rest[j].header =>
                  \A b \in 1..Len(rest[j].lines) : rest[j].lines[b] \in Observation
                    => rest[j].lines[b].sequence # file.lines[a].sequence
  <2>1. Len(<<>>) = 0
    BY EmptySeq
  <2>2. PICK k \in 1..Len(fs) : file = fs[k]
    BY <1>2, <1>8 DEF Splits
  <2>3. ASSUME NEW j \in 1..Len(rest)
        PROVE  \E i \in 1..Len(fs) : i # k /\ rest[j] = fs[i]
    <3>1. PICK i \in 1..Len(fs) : rest[j] = fs[i]
      BY <1>3, PartOfMembers
    <3>2. ~IsFile(rest[j], s, n) /\ IsFile(file, s, n)
      BY <1>2 DEF Splits
    <3> QED
      BY <2>2, <3>1, <3>2
  <2>4. ASSUME NEW j \in 1..Len(rest), rest[j].header,
               NEW b \in 1..Len(rest[j].lines), rest[j].lines[b] \in Observation
        PROVE  rest[j].lines[b].sequence # file.lines[a].sequence
    <3>1. PICK i \in 1..Len(fs) : i # k /\ rest[j] = fs[i]
      BY <2>3
    <3> QED
      BY <1>8, <2>2, <2>4, <3>1 DEF Numbered
  <2>5. file.lines[a] \in Entries(fs)
    BY <1>8, <2>2 DEF Entries
  <2>6. \A b \in 1..N : a < b /\ file.lines[b] \in Observation
          => file.lines[a].sequence < file.lines[b].sequence
    BY <1>8, <2>2 DEF Numbered
  <2> QED
    BY <2>4, <2>5, <2>6
<1>9. line \in Observation => \A o \in Entries(fs) : o.sequence < line.sequence
  BY SavedIsNoObservation DEF Fresh
<1> HIDE DEF N
<1>10. ASSUME longer.header, NEW a \in 1..N + 1, NEW b \in 1..N + 1, a < b,
              longer.lines[a] \in Observation, longer.lines[b] \in Observation
       PROVE  longer.lines[a].sequence < longer.lines[b].sequence
  <2>1. a \in 1..N
    BY <1>5, <1>10
  <2>2. CASE b \in 1..N
    BY <1>5, <1>8, <1>10, <2>1, <2>2
  <2>3. CASE b = N + 1
    BY <1>5, <1>8, <1>9, <1>10, <2>1, <2>3
  <2> QED
    BY <1>7, <2>2, <2>3
<1>11. ASSUME NEW j \in 1..Len(rest), rest[j].header, longer.header,
              NEW a \in 1..Len(rest[j].lines), NEW b \in 1..N + 1,
              rest[j].lines[a] \in Observation, longer.lines[b] \in Observation
       PROVE  rest[j].lines[a].sequence # longer.lines[b].sequence
  <2>1. CASE b \in 1..N
    BY <1>5, <1>8, <1>11, <2>1
  <2>2. CASE b = N + 1
    <3>1. rest[j].lines[a] \in Entries(fs)
      BY <1>4, <1>11 DEF Entries
    <3>2. rest[j].lines[a].sequence < line.sequence
      BY <1>5, <1>9, <1>11, <2>2, <3>1
    <3>3. rest[j].lines[a].sequence \in Nat /\ line.sequence \in Nat
      BY <1>5, <1>11, <2>2 DEF Observation
    <3> QED
      BY <1>5, <2>2, <3>2, <3>3
  <2> QED
    BY <1>7, <2>1, <2>2
<1>12. /\ Numbered(Append(rest, longer))
       /\ \A o \in Entries(Append(rest, longer)) :
            \/ o \in Entries(rest)
            \/ longer.header /\ \E a \in 1..Len(longer.lines) : longer.lines[a] = o
  <2>1. longer.header => \A a, b \in 1..Len(longer.lines) :
          /\ a < b
          /\ longer.lines[a] \in Observation
          /\ longer.lines[b] \in Observation
          => longer.lines[a].sequence < longer.lines[b].sequence
    BY <1>5, <1>10
  <2>2. \A j \in 1..Len(rest) : rest[j].header /\ longer.header =>
          \A a \in 1..Len(rest[j].lines), b \in 1..Len(longer.lines) :
            rest[j].lines[a] \in Observation /\ longer.lines[b] \in Observation
              => rest[j].lines[a].sequence # longer.lines[b].sequence
    BY <1>5, <1>11
  <2> QED
    BY <1>3, <1>4, <1>5, <2>1, <2>2, EntriesAppend
<1>13. ASSUME NEW o \in Entries(Append(rest, longer)) PROVE o \in Entries(fs) \cup {line}
  <2>1. o \in Observation
    BY DEF Entries
  <2>2. CASE o \in Entries(rest)
    BY <1>4, <2>2
  <2>3. CASE longer.header /\ \E a \in 1..Len(longer.lines) : longer.lines[a] = o
    <3>1. PICK a \in 1..N + 1 : longer.lines[a] = o
      BY <1>5, <2>3
    <3>2. CASE a \in 1..N
      BY <1>5, <1>8, <2>1, <2>3, <3>1, <3>2
    <3>3. CASE a = N + 1
      BY <1>5, <3>1, <3>3
    <3> QED
      BY <1>7, <3>2, <3>3
  <2> QED
    BY <1>12, <2>2, <2>3
<1>14. Entries(Append(rest, longer)) \subseteq Entries(fs) \cup {line}
  BY <1>13
<1>15. Appended(fs, s, n, line) = Append(rest, longer)
  BY <1>3 DEF longer
<1> QED
  BY <1>6, <1>12, <1>14, <1>15

LEMMA EntriesPruned ==
  ASSUME NEW fs \in Seq(File), Numbered(fs), NEW s, NEW n, NEW rest \in Prunings(fs, s, n)
  PROVE  rest \in Seq(File) /\ Numbered(rest) /\ Entries(rest) \subseteq Entries(fs)
<1>1. rest \in Seq(File) /\ PartOf(rest, fs)
  BY PruningsAreParts
<1> QED
  BY <1>1, EntriesPart

LEMMA EntriesLoaded ==
  ASSUME NEW fs \in Seq(File), Numbered(fs)
  PROVE  Rising(Loaded(fs)) /\ Range(Loaded(fs)) = Entries(fs)
<1>1. ASSUME NEW n \in 1..Len(fs)
      PROVE  /\ Rising(Readable(fs[n]))
             /\ \A o : o \in Range(Readable(fs[n])) <=>
                  /\ fs[n].header /\ o \in Observation
                  /\ \E a \in 1..Len(fs[n].lines) : fs[n].lines[a] = o
  <2> DEFINE f == fs[n]
             t == Readable(f)
  <2>1. f \in File /\ f.header \in BOOLEAN
    BY FileFields
  <2>2. /\ t \in Seq(Observation)
        /\ ~f.header => t = <<>>
        /\ \A k \in 1..Len(t) : \E a \in 1..Len(f.lines) : t[k] = f.lines[a]
        /\ f.header => \A a \in 1..Len(f.lines) :
             f.lines[a] \in Observation => f.lines[a] \in Range(t)
        /\ (\A a, b \in 1..Len(f.lines) :
              a < b /\ f.lines[a] \in Observation /\ f.lines[b] \in Observation
                => f.lines[a].sequence < f.lines[b].sequence) => Rising(t)
    BY <2>1, ReadableProperties
  <2>3. f.header => \A a, b \in 1..Len(f.lines) :
          a < b /\ f.lines[a] \in Observation /\ f.lines[b] \in Observation
            => f.lines[a].sequence < f.lines[b].sequence
    BY DEF Numbered
  <2> HIDE DEF f, t
  <2>4. Len(<<>>) = 0 /\ Range(<<>>) = {} /\ Rising(<<>>)
    <3>1. Len(<<>>) = 0 /\ DOMAIN <<>> = {}
      OBVIOUS
    <3>2. Range(<<>>) = {}
      BY <3>1 DEF Range
    <3>3. Rising(<<>>)
      BY <3>1 DEF Rising
    <3> QED
      BY <3>1, <3>2, <3>3
  <2>5. Rising(t)
    BY <2>2, <2>3, <2>4
  <2>6. ASSUME NEW o \in Range(t)
        PROVE  f.header /\ o \in Observation /\ \E a \in 1..Len(f.lines) : f.lines[a] = o
    <3>1. PICK k \in 1..Len(t) : o = t[k]
      BY <2>2, RangeIs
    <3>2. o \in Observation
      BY <2>2, <3>1, RangeIs
    <3>3. f.header
      BY <2>2, <2>4, <2>6
    <3> QED
      BY <2>2, <3>1, <3>2, <3>3
  <2>7. ASSUME NEW o \in Observation, f.header, \E a \in 1..Len(f.lines) : f.lines[a] = o
        PROVE  o \in Range(t)
    BY <2>2, <2>7
  <2> QED
    BY <2>5, <2>6, <2>7 DEF f, t
<1>2. ASSUME NEW m \in 1..Len(fs), NEW n \in 1..Len(fs), m # n
      PROVE  Apart(Range(Readable(fs[m])), Range(Readable(fs[n])))
  <2> SUFFICES ASSUME NEW o \in Range(Readable(fs[m])), NEW p \in Range(Readable(fs[n]))
               PROVE  o.sequence # p.sequence
    BY DEF Apart
  <2>1. /\ fs[m].header /\ o \in Observation
        /\ \E a \in 1..Len(fs[m].lines) : fs[m].lines[a] = o
    BY <1>1
  <2>2. /\ fs[n].header /\ p \in Observation
        /\ \E b \in 1..Len(fs[n].lines) : fs[n].lines[b] = p
    BY <1>1
  <2>3. PICK a \in 1..Len(fs[m].lines) : fs[m].lines[a] = o
    BY <2>1
  <2>4. PICK b \in 1..Len(fs[n].lines) : fs[n].lines[b] = p
    BY <2>2
  <2> QED
    BY <1>2, <2>1, <2>2, <2>3, <2>4 DEF Numbered
<1>3. Rising(Loaded(fs))
  BY <1>1, <1>2, LoadedProperties
<1>4. \A o : o \in Range(Loaded(fs)) <=> \E n \in 1..Len(fs) : o \in Range(Readable(fs[n]))
  BY LoadedProperties
<1>5. \A o : o \in Range(Loaded(fs)) <=> o \in Entries(fs)
  BY <1>1, <1>4 DEF Entries
<1> QED
  BY <1>3, <1>5

\* What one line changes of the entries.
LEMMA OutcomeEntries ==
  ASSUME TypesInv, Numbered(files), NEW s \in 1..Len(sessions), NEW line,
         LineOf(s, line), Fresh(line, files), NEW w \in Outcomes(s, line)
  PROVE  Numbered(w.files) /\ Entries(w.files) \subseteq Entries(files) \cup {line}
<1>1. /\ Len(sessions) \in Nat /\ sessions[s].chunk \in Nat /\ s \in Nat \ {0}
      /\ files \in Seq(File)
  BY SessionFields DEF TypesInv, FileTypes, KnownFiles
<1>2. CASE sessions[s].chunk = 0
  <2>1. w.files = files
    BY <1>2 DEF Outcomes, Unknown
  <2> QED
    BY <2>1
<1>3. CASE sessions[s].chunk # 0
  <2>1. ChunkFor(s) \in Nat \ {0}
    BY <1>1, <1>3 DEF ChunkFor
  <2>2. /\ FilesFor(s) \in Seq(File) /\ Numbered(FilesFor(s))
        /\ Entries(FilesFor(s)) \subseteq Entries(files)
    BY <1>1, <2>1, EntriesOpened DEF FilesFor
  <2>3. CASE w \in Unwritten(s)
    <3>1. w.files = files \/ w.files = FilesFor(s)
      BY <2>3 DEF Unwritten
    <3> QED
      BY <2>2, <3>1
  <2>4. CASE \E fs \in Prunings(Appended(FilesFor(s), s, ChunkFor(s), line), s, ChunkFor(s)) :
               w = Written(s, fs)
    <3> DEFINE longer == Appended(FilesFor(s), s, ChunkFor(s), line)
    <3>1. PICK fs \in Prunings(longer, s, ChunkFor(s)) : w = Written(s, fs)
      BY <2>4
    <3>2. Fresh(line, FilesFor(s))
      BY <2>2 DEF Fresh
    <3>3. /\ longer \in Seq(File) /\ Numbered(longer)
          /\ Entries(longer) \subseteq Entries(FilesFor(s)) \cup {line}
      BY <1>1, <2>1, <2>2, <3>2, EntriesAppended
    <3> HIDE DEF longer
    <3>4. Numbered(fs) /\ Entries(fs) \subseteq Entries(longer)
      BY <3>1, <3>3, EntriesPruned
    <3>5. w.files = fs
      BY <3>1 DEF Written
    <3> QED
      BY <2>2, <3>3, <3>4, <3>5
  <2> QED
    BY <1>3, <2>3, <2>4 DEF Outcomes
<1> QED
  BY <1>2, <1>3

LEMMA EntryFields ==
  ASSUME NEW fs, NEW N \in Nat, KnownFiles(fs, N), NEW o \in Entries(fs)
  PROVE  o \in Observation /\ o.session \in 1..N
<1>1. o \in Observation
  BY DEF Entries
<1>2. PICK j \in 1..Len(fs) : \E a \in 1..Len(fs[j].lines) : fs[j].lines[a] = o
  BY DEF Entries
<1>3. o.session = fs[j].session /\ fs[j].session \in 1..N
  BY <1>1, <1>2 DEF KnownFiles
<1> QED
  BY <1>1, <1>3

\* The next number is above all that were loaded.
LEMMA NextIsAbove ==
  ASSUME NEW all \in Seq(Observation), Rising(all)
  PROVE  \A o \in Range(all) : o.sequence < NextNumber(all)
<1> SUFFICES ASSUME NEW o \in Range(all) PROVE o.sequence < NextNumber(all)
  OBVIOUS
<1>1. PICK k \in 1..Len(all) : o = all[k]
  BY RangeIs
<1>2. Len(all) \in Nat /\ Len(all) # 0 /\ Len(all) \in 1..Len(all) /\ all # <<>>
  <2>1. Len(all) \in Nat
    BY LenProperties
  <2>2. Len(<<>>) = 0
    OBVIOUS
  <2> QED
    BY <1>1, <2>1, <2>2
<1>3. all[k] \in Observation /\ all[Len(all)] \in Observation
  BY <1>2, LenProperties
<1>4. all[k].sequence \in Nat /\ all[Len(all)].sequence \in Nat
  BY <1>3 DEF Observation
<1>5. all[k].sequence <= all[Len(all)].sequence
  <2>1. CASE k = Len(all)
    BY <1>4, <2>1
  <2>2. CASE k < Len(all)
    BY <1>2, <1>4, <2>2 DEF Rising
  <2> QED
    BY <1>2, <2>1, <2>2
<1>6. NextNumber(all) = all[Len(all)].sequence + 1
  BY <1>2 DEF NextNumber, Last
<1> QED
  BY <1>1, <1>4, <1>5, <1>6

LEMMA RisingKept ==
  ASSUME NEW all \in Seq(Observation), Rising(all)
  PROVE  Rising(Kept(all)) /\ Range(Kept(all)) \subseteq Range(all)
<1>1. PICK cut \in 0..Len(all) :
        /\ Kept(all) \in Seq(Observation)
        /\ Len(Kept(all)) = Len(all) - cut
        /\ \A k \in 1..Len(Kept(all)) : Kept(all)[k] = all[cut + k]
  BY KeptProperties
<1>2. Len(all) \in Nat /\ \A k \in 1..Len(all) : all[k] \in Range(all)
  BY RangeIs
<1>3. \A k \in 1..Len(Kept(all)) : cut + k \in 1..Len(all)
  BY <1>1, <1>2
<1>4. Rising(Kept(all))
  <2> SUFFICES ASSUME NEW j \in 1..Len(Kept(all)), NEW k \in 1..Len(Kept(all)), j < k
               PROVE  Kept(all)[j].sequence < Kept(all)[k].sequence
    BY DEF Rising
  <2>1. cut + j < cut + k
    BY <1>1, <1>2
  <2>2. all[cut + j].sequence < all[cut + k].sequence
    BY <1>3, <2>1 DEF Rising
  <2> QED
    BY <1>1, <2>2
<1>5. ASSUME NEW o \in Range(Kept(all)) PROVE o \in Range(all)
  <2>1. PICK k \in 1..Len(Kept(all)) : o = Kept(all)[k]
    BY <1>1, RangeIs
  <2> QED
    BY <1>1, <1>2, <1>3, <2>1
<1> QED
  BY <1>4, <1>5

LEMMA RisingAppend ==
  ASSUME NEW seq \in Seq(Observation), Rising(seq), NEW o \in Observation,
         \A p \in Range(seq) : p.sequence < o.sequence
  PROVE  /\ Append(seq, o) \in Seq(Observation) /\ Rising(Append(seq, o))
         /\ Range(Append(seq, o)) \subseteq Range(seq) \cup {o}
<1> DEFINE t == Append(seq, o)
<1>1. /\ t \in Seq(Observation) /\ Len(t) = Len(seq) + 1
      /\ \A k \in 1..Len(seq) : t[k] = seq[k]
      /\ t[Len(seq) + 1] = o
  BY AppendProperties
<1>2. Len(seq) \in Nat /\ \A k \in 1..Len(seq) : seq[k] \in Range(seq)
  BY RangeIs
<1> HIDE DEF t
<1>3. \A k \in 1..Len(t) : k \in 1..Len(seq) \/ k = Len(seq) + 1
  BY <1>1, <1>2
<1>4. Rising(t)
  <2> SUFFICES ASSUME NEW j \in 1..Len(t), NEW k \in 1..Len(t), j < k
               PROVE  t[j].sequence < t[k].sequence
    BY DEF Rising
  <2>1. j \in 1..Len(seq)
    BY <1>1, <1>2
  <2>2. CASE k \in 1..Len(seq)
    BY <1>1, <2>1, <2>2 DEF Rising
  <2>3. CASE k = Len(seq) + 1
    BY <1>1, <1>2, <2>1, <2>3
  <2> QED
    BY <1>3, <2>2, <2>3
<1>5. ASSUME NEW p \in Range(t) PROVE p \in Range(seq) \cup {o}
  <2>1. PICK k \in 1..Len(t) : p = t[k]
    BY <1>1, RangeIs
  <2> QED
    BY <1>1, <1>2, <1>3, <2>1
<1> QED
  BY <1>1, <1>4, <1>5 DEF t

\* All that is remembered, on disk or in the ring.
Remembered == Entries(files) \cup Range(ring)

\* In a session the numbers rise with the count of the edits.
InOrder(S) ==
  \A o, p \in S : o.session = p.session /\ o.sequence < p.sequence => o.nth < p.nth

NumbersInv ==
  /\ Numbered(files)
  /\ Rising(ring)
  /\ InOrder(Remembered)
  /\ \A o \in Remembered : o.nth <= sessions[o.session].observed
  /\ Running => \A o \in Remembered : o.sequence < nextSequence

LEMMA RememberedFields ==
  ASSUME TypesInv, NEW o \in Remembered
  PROVE  /\ o \in Observation /\ o.session \in 1..Len(sessions)
         /\ o.sequence \in Nat /\ o.nth \in Nat
<1>1. o \in Observation /\ o.session \in 1..Len(sessions)
  <2>1. CASE o \in Entries(files)
    BY <2>1, SessionFields, EntryFields DEF TypesInv, FileTypes
  <2>2. CASE o \in Range(ring)
    <3>1. PICK k \in 1..Len(ring) : o = ring[k]
      BY <2>2, RangeIs DEF TypesInv, RingTypes, KnownRing
    <3> QED
      BY <3>1, RangeIs DEF TypesInv, RingTypes, KnownRing
  <2> QED
    BY <2>1, <2>2 DEF Remembered
<1> QED
  BY <1>1 DEF Observation

\* A step that remembers nothing new.
LEMMA NothingNew ==
  ASSUME TypesInv, NumbersInv, [Next]_vars,
         Numbered(files'), Rising(ring'),
         Entries(files') \subseteq Remembered, Range(ring') \subseteq Remembered,
         Running' => \A o \in Entries(files') \cup Range(ring') : o.sequence < nextSequence'
  PROVE  NumbersInv'
<1>1. Remembered' = Entries(files') \cup Range(ring')
  BY DEF Remembered
<1>2. Remembered' \subseteq Remembered
  BY <1>1
<1>3. \A o \in Remembered' : o.nth <= sessions'[o.session].observed
  <2> SUFFICES ASSUME NEW o \in Remembered PROVE o.nth <= sessions'[o.session].observed
    BY <1>2
  <2>1. o.nth \in Nat /\ o.session \in 1..Len(sessions)
    BY RememberedFields
  <2>2. o.nth <= sessions[o.session].observed /\ sessions[o.session].observed \in Nat
    BY <2>1, SessionFields DEF NumbersInv
  <2>3. sessions[o.session].observed <= sessions'[o.session].observed
    BY <2>1, PatchesStay
  <2>4. sessions'[o.session].observed \in Nat
    <3>1. sessions' \in Seq(Session)
      BY TypesStep DEF TypesInv, SessionTypes
    <3>2. /\ Len(sessions') \in Nat
          /\ \A s \in 1..Len(sessions') : sessions'[s] \in Session
      BY <3>1, LenProperties
    <3>3. Len(sessions) <= Len(sessions') /\ Len(sessions) \in Nat
      BY PatchesStay, SessionFields
    <3> QED
      BY <2>1, <3>2, <3>3 DEF Session
  <2> QED
    BY <2>1, <2>2, <2>3, <2>4
<1>4. InOrder(Remembered')
  BY <1>2 DEF InOrder, NumbersInv
<1> QED
  BY <1>1, <1>3, <1>4 DEF NumbersInv

LEMMA NumbersStart == ASSUME TypesInv, NumbersInv, Starts PROVE NumbersInv'
<1>1. PICK fs \in Prunings(files, 0, 0) :
        /\ files' = fs
        /\ ring' = Kept(Loaded(fs))
        /\ nextSequence' = NextNumber(Loaded(fs))
  BY DEF Starts
<1>2. files \in Seq(File) /\ Numbered(files)
  BY DEF TypesInv, FileTypes, KnownFiles, NumbersInv
<1>3. fs \in Seq(File) /\ Numbered(fs) /\ Entries(fs) \subseteq Entries(files)
  BY <1>1, <1>2, EntriesPruned
<1> DEFINE all == Loaded(fs)
<1>4. all \in Seq(Observation) /\ Rising(all) /\ Range(all) = Entries(fs)
  BY <1>3, LoadedProperties, EntriesLoaded
<1>5. ring' = Kept(all) /\ nextSequence' = NextNumber(all)
  BY <1>1
<1> HIDE DEF all
<1>6. Rising(ring') /\ Range(ring') \subseteq Range(all)
  BY <1>4, <1>5, RisingKept
<1>7. \A o \in Range(all) : o.sequence < nextSequence'
  BY <1>4, <1>5, NextIsAbove
<1>8. Entries(files') = Range(all) /\ Entries(files') \subseteq Remembered
  BY <1>1, <1>3, <1>4 DEF Remembered
<1>9. Numbered(files')
  BY <1>1, <1>3
<1>10. [Next]_vars
  BY DEF Next
<1> QED
  BY <1>6, <1>7, <1>8, <1>9, <1>10, NothingNew

LEMMA NumbersObserve ==
  ASSUME TypesInv, NumbersInv, NEW i \in Identity, EditObserved(i) PROVE NumbersInv'
<1> DEFINE s == registered[i]
           o == [sequence |-> nextSequence, session |-> s, nth |-> sessions[s].observed + 1]
<1>1. s \in 1..Len(sessions) /\ Running
  BY ConnectedSession DEF EditObserved
<1>2. /\ Len(sessions) \in Nat /\ sessions[s].observed \in Nat
      /\ nextSequence \in Nat \ {0}
      /\ ring \in Seq(Observation)
  BY <1>1, SessionFields DEF TypesInv, RingTypes, KnownRing
<1>3. /\ o \in Observation /\ o.session = s /\ o.sequence = nextSequence
      /\ o.nth = sessions[s].observed + 1 /\ o.nth \in Nat
  BY <1>1, <1>2 DEF Observation
<1>4. /\ ring' = Kept(Append(ring, o))
      /\ nextSequence' = nextSequence + 1
      /\ lease' = lease
  BY DEF EditObserved
<1>5. PICK w \in Outcomes(s, o) : Persists(s, o, o.nth, w)
  BY DEF EditObserved
<1> HIDE DEF s
<1> HIDE DEF o
<1>6. LineOf(s, o)
  BY <1>3 DEF LineOf
<1>7. \A p \in Remembered : p.sequence < o.sequence
  BY <1>1, <1>3 DEF NumbersInv
<1>8. Fresh(o, files)
  BY <1>3, <1>7 DEF Fresh, Remembered
<1>9. Numbered(files') /\ Entries(files') \subseteq Entries(files) \cup {o}
  <2>1. Numbered(w.files) /\ Entries(w.files) \subseteq Entries(files) \cup {o}
    BY <1>1, <1>5, <1>6, <1>8, OutcomeEntries DEF NumbersInv
  <2>2. files' = w.files
    BY <1>5 DEF Persists
  <2> QED
    BY <2>1, <2>2
<1>10. Rising(ring') /\ Range(ring') \subseteq Range(ring) \cup {o}
  <2> DEFINE all == Append(ring, o)
  <2>1. /\ all \in Seq(Observation) /\ Rising(all)
        /\ Range(all) \subseteq Range(ring) \cup {o}
    BY <1>2, <1>3, <1>7, RisingAppend DEF NumbersInv, Remembered
  <2> HIDE DEF all
  <2>2. Rising(Kept(all)) /\ Range(Kept(all)) \subseteq Range(all)
    BY <2>1, RisingKept
  <2> QED
    BY <1>4, <2>1, <2>2 DEF all
<1>11. Remembered' \subseteq Remembered \cup {o}
  BY <1>9, <1>10 DEF Remembered
<1>12. /\ \A r \in 1..Len(sessions) : r # s => sessions'[r] = sessions[r]
       /\ sessions'[s].observed = o.nth
  BY <1>1, <1>3, <1>5, <1>6, PersistsTypes
<1>13. ASSUME NEW p \in Remembered
       PROVE  /\ p.session \in 1..Len(sessions) /\ p.nth \in Nat /\ p.sequence \in Nat
              /\ p.nth <= sessions[p.session].observed
              /\ p.sequence < nextSequence
              /\ p.session = s => p.nth < o.nth
  <2>1. p.session \in 1..Len(sessions) /\ p.nth \in Nat /\ p.sequence \in Nat
    BY RememberedFields
  <2>2. p.nth <= sessions[p.session].observed /\ p.sequence < nextSequence
    BY <1>1 DEF NumbersInv
  <2> QED
    BY <1>2, <1>3, <2>1, <2>2
<1>14. \A p \in Remembered' : p.nth <= sessions'[p.session].observed
  <2> SUFFICES ASSUME NEW p \in Remembered \cup {o}
               PROVE  p.nth <= sessions'[p.session].observed
    BY <1>11
  <2>1. CASE p = o
    BY <1>3, <1>12, <2>1
  <2>2. CASE p \in Remembered /\ p.session = s
    BY <1>3, <1>12, <1>13, <2>2
  <2>3. CASE p \in Remembered /\ p.session # s
    BY <1>12, <1>13, <2>3
  <2> QED
    BY <2>1, <2>2, <2>3
<1>15. InOrder(Remembered')
  <2> SUFFICES ASSUME NEW p \in Remembered \cup {o}, NEW q \in Remembered \cup {o},
                      p.session = q.session, p.sequence < q.sequence
               PROVE  p.nth < q.nth
    BY <1>11 DEF InOrder
  <2>1. CASE p \in Remembered /\ q \in Remembered
    BY <2>1 DEF NumbersInv, InOrder
  <2>2. CASE p \in Remembered /\ q = o
    BY <1>3, <1>13, <2>2
  <2>3. CASE p = o /\ q \in Remembered
    BY <1>2, <1>3, <1>13, <2>3
  <2>4. CASE p = o /\ q = o
    BY <1>2, <1>3, <2>4
  <2> QED
    BY <2>1, <2>2, <2>3, <2>4
<1>16. \A p \in Remembered' : p.sequence < nextSequence'
  <2>1. \A p \in Remembered : p.sequence < nextSequence + 1
    BY <1>2, <1>13
  <2>2. o.sequence < nextSequence + 1
    BY <1>2, <1>3
  <2> QED
    BY <1>4, <1>11, <2>1, <2>2
<1> QED
  BY <1>9, <1>10, <1>14, <1>15, <1>16 DEF NumbersInv

LEMMA NumbersStep == TypesInv /\ NumbersInv /\ [Next]_vars => NumbersInv'
<1> SUFFICES ASSUME TypesInv, NumbersInv, [Next]_vars PROVE NumbersInv'
  OBVIOUS
<1>1. files \in Seq(File) /\ Numbered(files) /\ Rising(ring) /\ Len(sessions) \in Nat
  BY SessionFields DEF TypesInv, FileTypes, KnownFiles, NumbersInv
<1>2. Entries(files) \subseteq Remembered /\ Range(ring) \subseteq Remembered
  BY DEF Remembered
<1>3. ASSUME UNCHANGED <<ring, nextSequence, lease>>, Numbered(files'),
             Entries(files') \subseteq Entries(files)
      PROVE  NumbersInv'
  <2>1. Entries(files') \cup Range(ring') \subseteq Remembered
    BY <1>2, <1>3
  <2>2. Running' => \A o \in Remembered : o.sequence < nextSequence'
    BY <1>3 DEF NumbersInv, Running
  <2>3. Rising(ring')
    BY <1>1, <1>3
  <2> QED
    BY <1>3, <2>1, <2>2, <2>3, NothingNew
<1>4. ASSUME Rising(ring'), Range(ring') = {}, Numbered(files'),
             Entries(files') = {} \/ (~Running' /\ Entries(files') \subseteq Entries(files))
      PROVE  NumbersInv'
  BY <1>2, <1>4, NothingNew
<1>5. Rising(<<>>) /\ Range(<<>>) = {} /\ Numbered(<<>>) /\ Entries(<<>>) = {}
  <2>1. Len(<<>>) = 0 /\ DOMAIN <<>> = {}
    OBVIOUS
  <2>2. Rising(<<>>)
    BY <2>1 DEF Rising
  <2>3. Range(<<>>) = {}
    BY <2>1 DEF Range
  <2>4. Numbered(<<>>)
    BY <2>1 DEF Numbered
  <2>5. Entries(<<>>) = {}
    BY <2>1 DEF Entries
  <2> QED
    BY <2>2, <2>3, <2>4, <2>5
<1>6. CASE Starts
  BY <1>6, NumbersStart
<1>7. CASE Closes \/ Crashes
  <2>1. ring' = <<>> /\ files' = files /\ ~Running'
    BY <1>7 DEF Closes, Crashes, Stops, Running
  <2> QED
    BY <1>1, <1>4, <1>5, <2>1
<1>8. ASSUME NEW i \in Identity, Registers(i) PROVE NumbersInv'
  <2>1. UNCHANGED <<ring, nextSequence, lease>>
    BY <1>8 DEF Registers
  <2> DEFINE s == Len(sessions) + 1
  <2>2. files' = files \/ files' \in Prunings(Opened(files, s, 1), s, 1)
    BY <1>8 DEF Registers
  <2>3. s \in Nat \ {0} /\ 1 \in Nat \ {0}
    BY <1>1
  <2> HIDE DEF s
  <2>4. CASE files' \in Prunings(Opened(files, s, 1), s, 1)
    <3>1. /\ Opened(files, s, 1) \in Seq(File) /\ Numbered(Opened(files, s, 1))
          /\ Entries(Opened(files, s, 1)) \subseteq Entries(files)
      BY <1>1, <2>3, EntriesOpened
    <3>2. Numbered(files') /\ Entries(files') \subseteq Entries(Opened(files, s, 1))
      BY <2>4, <3>1, EntriesPruned
    <3> QED
      BY <1>3, <2>1, <3>1, <3>2
  <2>5. CASE files' = files
    BY <1>1, <1>3, <2>1, <2>5
  <2> QED
    BY <2>2, <2>4, <2>5
<1>9. ASSUME NEW i \in Identity, EditObserved(i) PROVE NumbersInv'
  BY <1>9, NumbersObserve
<1>10. ASSUME NEW i \in Identity, PatchSaved(i) PROVE NumbersInv'
  <2>1. UNCHANGED <<ring, nextSequence, lease>>
    BY <1>10 DEF PatchSaved
  <2> DEFINE s == registered[i]
  <2>2. s \in 1..Len(sessions)
    BY <1>10, ConnectedSession DEF PatchSaved
  <2>3. PICK w \in Outcomes(s, Saved) : Persists(s, Saved, sessions[s].observed, w)
    BY <1>10 DEF PatchSaved
  <2> HIDE DEF s
  <2>4. LineOf(s, Saved) /\ Fresh(Saved, files)
    BY DEF LineOf, Fresh
  <2>5. Numbered(w.files) /\ Entries(w.files) \subseteq Entries(files) \cup {Saved}
    BY <1>1, <2>2, <2>4, OutcomeEntries
  <2>6. Saved \notin Entries(w.files)
    BY SavedIsNoObservation DEF Entries
  <2>7. files' = w.files
    BY <2>3 DEF Persists
  <2>8. Numbered(files') /\ Entries(files') \subseteq Entries(files)
    BY <2>5, <2>6, <2>7
  <2> QED
    BY <1>3, <2>1, <2>8
<1>11. CASE Erases
  <2>1. ring' = <<>> /\ files' = <<>>
    BY <1>11 DEF Erases
  <2> QED
    BY <1>4, <1>5, <2>1
<1>12. CASE EraseFails
  <2>1. PICK stay : files' = Selected(files, stay) /\ UNCHANGED <<ring, nextSequence, lease>>
    BY <1>12, EraseFailsLeaves
  <2>2. files' \in Seq(File) /\ PartOf(files', files)
    BY <1>1, <2>1, SelectedIsPart
  <2>3. Numbered(files') /\ Entries(files') \subseteq Entries(files)
    BY <1>1, <2>2, EntriesPart
  <2> QED
    BY <1>3, <2>1, <2>3
<1>13. ASSUME UNCHANGED <<ring, nextSequence, lease, files>> PROVE NumbersInv'
  BY <1>1, <1>3, <1>13
<1>14. ASSUME NEW i \in Identity, Disconnects(i) PROVE NumbersInv'
  BY <1>13, <1>14 DEF Disconnects
<1>15. ASSUME NEW d \in Decision, Resolve(d) PROVE NumbersInv'
  BY <1>13, <1>15 DEF Resolve
<1>16. CASE UNCHANGED vars
  BY <1>13, <1>16 DEF vars, historyVars
<1> QED
  BY <1>6, <1>7, <1>8, <1>9, <1>10, <1>11, <1>12, <1>14, <1>15, <1>16 DEF Next

LEMMA NumbersHold == Spec => []NumbersInv
<1>1. Init => NumbersInv
  <2> SUFFICES ASSUME Init PROVE NumbersInv
    OBVIOUS
  <2>1. ring = <<>> /\ files = <<>> /\ Len(<<>>) = 0 /\ DOMAIN <<>> = {}
    BY DEF Init
  <2>2. Range(ring) = {}
    BY <2>1 DEF Range
  <2>3. Entries(files) = {}
    BY <2>1 DEF Entries
  <2>4. Remembered = {}
    BY <2>2, <2>3 DEF Remembered
  <2>5. Rising(ring)
    BY <2>1 DEF Rising
  <2>6. Numbered(files)
    BY <2>1 DEF Numbered
  <2> QED
    BY <2>4, <2>5, <2>6 DEF NumbersInv, InOrder
<1> QED
  BY <1>1, TypesHold, NumbersStep, PTL DEF Spec

\* The sequence is a cursor, for any size of the ring and of the files and
\* however many starts, failed writes and partly failed erasures came before:
\* no two entries of the ring share a number, they are in its order, and the
\* next number is above them.
THEOREM SequencesAlwaysIdentify == Spec => []SequencesIdentify
<1>1. TypesInv /\ NumbersInv => SequencesIdentify
  <2> SUFFICES ASSUME TypesInv, NumbersInv PROVE SequencesIdentify
    OBVIOUS
  <2>1. DOMAIN ring = 1..Len(ring) /\ \A k \in 1..Len(ring) : ring[k] \in Range(ring)
    BY RangeIs DEF TypesInv, RingTypes, KnownRing
  <2> QED
    BY <2>1 DEF SequencesIdentify, NumbersInv, Rising, Remembered
<1> QED
  BY <1>1, TypesHold, NumbersHold, PTL

\* An agent is shown a part of the ring.
LEMMA HistoryIsPart ==
  ASSUME TypesInv, NumbersInv, NEW p
  PROVE  /\ HistoryOf(p) \in Seq(Observation) /\ Rising(HistoryOf(p))
         /\ Range(HistoryOf(p)) \subseteq Range(ring)
<1> DEFINE h == HistoryOf(p)
<1>1. ring \in Seq(Observation) /\ Rising(ring)
  BY DEF TypesInv, RingTypes, KnownRing, NumbersInv
<1>2. h \in Seq(Observation) /\ PartOf(h, ring)
  BY <1>1, SelectedIsPart DEF HistoryOf
<1> HIDE DEF h
<1>3. PICK e : Picks(e, h, ring)
  BY <1>2 DEF PartOf
<1>4. /\ \A k \in 1..Len(h) : e[k] \in 1..Len(ring) /\ h[k] = ring[e[k]]
      /\ \A j, k \in 1..Len(h) : j < k => e[j] < e[k]
  BY <1>3 DEF Picks
<1>5. Rising(h)
  <2> SUFFICES ASSUME NEW j \in 1..Len(h), NEW k \in 1..Len(h), j < k
               PROVE  h[j].sequence < h[k].sequence
    BY DEF Rising
  <2>1. PICK a \in 1..Len(ring), b \in 1..Len(ring) : a < b /\ h[j] = ring[a] /\ h[k] = ring[b]
    BY <1>4
  <2> QED
    BY <1>1, <2>1 DEF Rising
<1>6. ASSUME NEW o \in Range(h) PROVE o \in Range(ring)
  <2>1. PICK k \in 1..Len(h) : o = h[k]
    BY <1>2, RangeIs
  <2> QED
    BY <1>1, <1>4, <2>1, RangeIs
<1> QED
  BY <1>2, <1>5, <1>6 DEF h

LEMMA IncompleteMeansMissing ==
  ASSUME TypesInv, NumbersInv, NEW p,
         \A j, k \in DOMAIN HistoryOf(p) :
           ~(j < k /\ HistoryOf(p)[k].session < HistoryOf(p)[j].session),
         NEW k \in DOMAIN HistoryOf(p), Basis(HistoryOf(p), k) = "incomplete_after_drop"
  PROVE  \E n \in 1..HistoryOf(p)[k].nth - 1 :
           \A j \in DOMAIN HistoryOf(p) :
             HistoryOf(p)[j].session = HistoryOf(p)[k].session => HistoryOf(p)[j].nth # n
<1> DEFINE h == HistoryOf(p)
<1>1. h \in Seq(Observation) /\ Rising(h) /\ Range(h) \subseteq Range(ring)
  BY HistoryIsPart
<1>2. \A j, m \in DOMAIN h : ~(j < m /\ h[m].session < h[j].session)
  OBVIOUS
<1>3. k \in DOMAIN h /\ Basis(h, k) = "incomplete_after_drop"
  OBVIOUS
<1> HIDE DEF h
<1>4. /\ Len(h) \in Nat /\ DOMAIN h = 1..Len(h)
      /\ \A j \in 1..Len(h) : /\ h[j] \in Observation /\ h[j] \in Remembered
                              /\ h[j].session \in Nat /\ h[j].nth \in Nat
                              /\ h[j].sequence \in Nat
  <2>1. /\ Len(h) \in Nat /\ DOMAIN h = 1..Len(h)
        /\ \A j \in 1..Len(h) : h[j] \in Observation /\ h[j] \in Range(h)
    BY <1>1, RangeIs
  <2>2. \A o \in Observation : o.session \in Nat /\ o.nth \in Nat /\ o.sequence \in Nat
    BY DEF Observation
  <2>3. Range(h) \subseteq Remembered
    BY <1>1 DEF Remembered
  <2> QED
    BY <2>1, <2>2, <2>3
\* It is the first of its session that is shown,
<1>5. k = 1 \/ h[k - 1].session # h[k].session
  BY <1>3 DEF Basis
<1>6. 1 < h[k].nth
  BY <1>3, <1>5 DEF Basis
\* because those of one session are together.
<1>7. ASSUME NEW j \in 1..Len(h), j < k PROVE h[j].session # h[k].session
  <2>1. k # 1 /\ k - 1 \in 1..Len(h) /\ k - 1 < k /\ (j = k - 1 \/ j < k - 1)
    BY <1>3, <1>4, <1>7
  <2>2. h[k - 1].session <= h[k].session /\ h[k - 1].session # h[k].session
    BY <1>2, <1>3, <1>4, <1>5, <2>1
  <2>3. h[j].session <= h[k - 1].session
    BY <1>2, <1>4, <2>1
  <2> QED
    BY <1>3, <1>4, <2>1, <2>2, <2>3
\* So the first edit of the session is not shown.
<1>8. ASSUME NEW j \in 1..Len(h), h[j].session = h[k].session PROVE h[j].nth # 1
  <2>1. k = j \/ k < j
    BY <1>3, <1>4, <1>7, <1>8
  <2>2. CASE k = j
    BY <1>4, <1>6, <2>2
  <2>3. CASE k < j
    <3>1. h[k].sequence < h[j].sequence
      BY <1>1, <1>3, <1>4, <2>3 DEF Rising
    <3>2. h[k].nth < h[j].nth
      BY <1>3, <1>4, <1>8, <3>1 DEF NumbersInv, InOrder
    <3> QED
      BY <1>3, <1>4, <1>6, <3>2
  <2> QED
    BY <2>1, <2>2, <2>3
<1>9. 1 \in 1..h[k].nth - 1
  BY <1>3, <1>4, <1>6
<1> QED
  BY <1>4, <1>8, <1>9 DEF h

\* Where an agent is told that earlier edits of a session are unavailable, the
\* first edit of that session is not among what it is shown: whatever the ring
\* dropped, the files lost and a restart restored.
THEOREM IncompleteIsAlwaysTrue == Spec => []IncompleteIsTrue
<1>1. TypesInv /\ NumbersInv => IncompleteIsTrue
  <2> SUFFICES ASSUME TypesInv, NumbersInv, NEW p \in Connected
               PROVE  LET h == HistoryOf(p)
                          overlap == \E j, k \in DOMAIN h : j < k /\ h[k].session < h[j].session
                      IN  overlap \/ \A k \in DOMAIN h : Basis(h, k) = "incomplete_after_drop" =>
                            \E n \in 1..h[k].nth - 1 :
                              \A j \in DOMAIN h : h[j].session = h[k].session => h[j].nth # n
    BY DEF IncompleteIsTrue
  <2> DEFINE h == HistoryOf(p)
  <2>1. ASSUME ~ \E j, k \in DOMAIN h : j < k /\ h[k].session < h[j].session,
               NEW k \in DOMAIN h, Basis(h, k) = "incomplete_after_drop"
        PROVE  \E n \in 1..h[k].nth - 1 :
                 \A j \in DOMAIN h : h[j].session = h[k].session => h[j].nth # n
    <3>1. \A j, m \in DOMAIN h : ~(j < m /\ h[m].session < h[j].session)
      BY <2>1
    <3> QED
      BY <2>1, <3>1, IncompleteMeansMissing
  <2> HIDE DEF h
  <2>2. (\E j, k \in DOMAIN h : j < k /\ h[k].session < h[j].session)
          \/ \A k \in DOMAIN h : Basis(h, k) = "incomplete_after_drop" =>
                \E n \in 1..h[k].nth - 1 :
                  \A j \in DOMAIN h : h[j].session = h[k].session => h[j].nth # n
    BY <2>1
  <2> QED
    BY <2>2 DEF h
<1> QED
  BY <1>1, TypesHold, NumbersHold, PTL

-----------------------------------------------------------------------------
(* Whom an alias stands for.                                                 *)

\* Every set that holds i and what its members are aliases of holds e.
Leads(m, i, e) ==
  \A S \in SUBSET Identity :
    i \in S /\ (\A k \in S : IsAlias(m, k) => m.aliases[k] \in S) => e \in S

LEMMA LeadsOn ==
  ASSUME NEW m \in Memory, NEW i \in Identity, NEW e \in Identity, ~IsAlias(m, e)
  PROVE  /\ IsAlias(m, i) => (Leads(m, i, e) <=> Leads(m, m.aliases[i], e))
         /\ ~IsAlias(m, i) => (Leads(m, i, e) <=> e = i)
<1>1. ASSUME IsAlias(m, i), Leads(m, i, e) PROVE Leads(m, m.aliases[i], e)
  <2> SUFFICES ASSUME NEW S \in SUBSET Identity, m.aliases[i] \in S,
                      \A k \in S : IsAlias(m, k) => m.aliases[k] \in S
               PROVE  e \in S
    BY DEF Leads
  <2>1. \A k \in S \cup {i} : IsAlias(m, k) => m.aliases[k] \in S \cup {i}
    OBVIOUS
  <2>2. e \in S \cup {i}
    <3>1. S \cup {i} \in SUBSET Identity /\ i \in S \cup {i}
      OBVIOUS
    <3> QED
      BY <1>1, <2>1, <3>1 DEF Leads
  <2> QED
    BY <1>1, <2>2
<1>2. ASSUME IsAlias(m, i), Leads(m, m.aliases[i], e) PROVE Leads(m, i, e)
  BY <1>2 DEF Leads
<1>3. ASSUME ~IsAlias(m, i), Leads(m, i, e) PROVE e = i
  <2>1. {i} \in SUBSET Identity /\ \A k \in {i} : IsAlias(m, k) => m.aliases[k] \in {i}
    BY <1>3
  <2> QED
    BY <1>3, <2>1 DEF Leads
<1>4. Leads(m, i, i)
  BY DEF Leads
<1> QED
  BY <1>1, <1>2, <1>3, <1>4

\* From every identity there is one end.
LEMMA OneEnd ==
  ASSUME NEW m \in Memory, Ends(m), NEW i \in Identity
  PROVE  /\ \E e \in Identity : ~IsAlias(m, e) /\ Leads(m, i, e)
         /\ \A d, e \in Identity :
              ~IsAlias(m, d) /\ Leads(m, i, d) /\ ~IsAlias(m, e) /\ Leads(m, i, e) => d = e
<1> DEFINE Good(k) ==
             /\ \E e \in Identity : ~IsAlias(m, e) /\ Leads(m, k, e)
             /\ \A d, e \in Identity :
                  ~IsAlias(m, d) /\ Leads(m, k, d) /\ ~IsAlias(m, e) /\ Leads(m, k, e) => d = e
           B == {k \in DOMAIN m.aliases : ~Good(k)}
<1>1. DOMAIN m.aliases \subseteq Identity /\ \A k \in DOMAIN m.aliases : m.aliases[k] \in Identity
  BY AliasFunction
<1>2. ASSUME NEW k \in Identity, ~IsAlias(m, k) PROVE Good(k)
  BY <1>2, LeadsOn
<1>3. ASSUME NEW k \in DOMAIN m.aliases, Good(m.aliases[k]) PROVE Good(k)
  <2>1. k \in Identity /\ IsAlias(m, k)
    BY <1>1 DEF IsAlias
  <2>2. \A e \in Identity : ~IsAlias(m, e) =>
          (Leads(m, k, e) <=> Leads(m, m.aliases[k], e))
    BY <2>1, LeadsOn
  <2> QED
    BY <1>3, <2>2
<1> HIDE DEF Good
<1>4. B = {}
  <2> SUFFICES ASSUME B # {} PROVE FALSE
    OBVIOUS
  <2>1. B \in SUBSET DOMAIN m.aliases
    OBVIOUS
  <2> HIDE DEF B
  <2>2. PICK k \in B : m.aliases[k] \notin B
    BY <2>1 DEF Ends
  <2>3. k \in DOMAIN m.aliases /\ ~Good(k)
    BY DEF B
  <2>4. Good(m.aliases[k])
    BY <1>1, <1>2, <2>2, <2>3 DEF B, IsAlias
  <2> QED
    BY <1>3, <2>3, <2>4
<1>5. Good(i)
  BY <1>2, <1>4 DEF IsAlias
<1> QED
  BY <1>5 DEF Good

\* canonicalKey follows the aliases.
LEMMA CanonicalFollows ==
  ASSUME NEW m \in Memory, Ends(m)
  PROVE  /\ \A i \in Identity : IsAlias(m, i) => Canonical(m, i) = Canonical(m, m.aliases[i])
         /\ \A i \in Identity : ~IsAlias(m, i) => Canonical(m, i) = i
<1> DEFINE F(f) == f = [k \in Identity |-> IF IsAlias(m, k) THEN f[m.aliases[k]] ELSE k]
           end(k) == CHOOSE e \in Identity : ~IsAlias(m, e) /\ Leads(m, k, e)
           g == [k \in Identity |-> end(k)]
<1>1. DOMAIN m.aliases \subseteq Identity /\ \A k \in DOMAIN m.aliases : m.aliases[k] \in Identity
  BY AliasFunction
<1>2. ASSUME NEW k \in Identity
      PROVE  end(k) \in Identity /\ ~IsAlias(m, end(k)) /\ Leads(m, k, end(k))
  <2>1. \E e \in Identity : ~IsAlias(m, e) /\ Leads(m, k, e)
    BY OneEnd
  <2> QED
    BY <2>1
<1> HIDE DEF end
<1>3. ASSUME NEW k \in Identity, IsAlias(m, k) PROVE end(k) = end(m.aliases[k])
  <2>1. m.aliases[k] \in Identity
    BY <1>1, <1>3 DEF IsAlias
  <2>2. Leads(m, m.aliases[k], end(k))
    BY <1>2, <1>3, LeadsOn
  <2> QED
    BY <1>2, <2>1, <2>2, OneEnd
<1>4. ASSUME NEW k \in Identity, ~IsAlias(m, k) PROVE end(k) = k
  BY <1>2, <1>4, LeadsOn
<1>5. F(g)
  <2>1. ASSUME NEW k \in Identity
        PROVE  g[k] = IF IsAlias(m, k) THEN g[m.aliases[k]] ELSE k
    <3>1. CASE IsAlias(m, k)
      <4>1. m.aliases[k] \in Identity
        BY <1>1, <3>1 DEF IsAlias
      <4> QED
        BY <1>3, <3>1, <4>1
    <3>2. CASE ~IsAlias(m, k)
      BY <1>4, <3>2
    <3> QED
      BY <3>1, <3>2
  <2>2. g = [k \in Identity |-> g[k]]
    OBVIOUS
  <2> HIDE DEF g
  <2> QED
    BY <2>1, <2>2
<1> DEFINE follow == CHOOSE f : F(f)
<1>6. F(follow)
  <2> HIDE DEF F, g
  <2> QED
    BY <1>5
<1>7. \A i : Canonical(m, i) = follow[i]
  BY DEF Canonical
<1> HIDE DEF follow
<1>8. \A k \in Identity : follow[k] = IF IsAlias(m, k) THEN follow[m.aliases[k]] ELSE k
  BY ONLY <1>6, Zenon
<1> QED
  BY <1>1, <1>7, <1>8 DEF IsAlias

\* What is true of an identity that is no alias, and of an alias when it is
\* true of what it is an alias of, is true of all.
LEMMA AliasInduction ==
  ASSUME NEW m \in Memory, Ends(m), NEW T \in SUBSET Identity,
         \A i \in Identity : ~IsAlias(m, i) => i \in T,
         \A i \in Identity : IsAlias(m, i) /\ m.aliases[i] \in T => i \in T
  PROVE  T = Identity
<1> DEFINE B == {k \in DOMAIN m.aliases : k \notin T}
<1>1. DOMAIN m.aliases \subseteq Identity /\ \A k \in DOMAIN m.aliases : m.aliases[k] \in Identity
  BY AliasFunction
<1>2. B = {}
  <2> SUFFICES ASSUME B # {} PROVE FALSE
    OBVIOUS
  <2>1. B \in SUBSET DOMAIN m.aliases
    OBVIOUS
  <2> HIDE DEF B
  <2>2. PICK k \in B : m.aliases[k] \notin B
    BY <2>1 DEF Ends
  <2>3. k \in DOMAIN m.aliases /\ k \in Identity /\ k \notin T
    BY <1>1 DEF B
  <2>4. m.aliases[k] \in T
    BY <1>1, <2>2, <2>3 DEF B, IsAlias
  <2> QED
    BY <2>3, <2>4 DEF IsAlias
<1> QED
  BY <1>2 DEF IsAlias

LEMMA CanonicalAgrees ==
  ASSUME NEW m \in Memory, NEW n \in Memory, Ends(m), Ends(n), Agrees(m, n),
         NEW i \in Identity
  PROVE  Canonical(m, i) = Canonical(n, i)
<1> DEFINE T == {k \in Identity : Canonical(m, k) = Canonical(n, k)}
<1>1. DOMAIN m.aliases \subseteq Identity /\ \A k \in DOMAIN m.aliases : m.aliases[k] \in Identity
  BY AliasFunction
<1>2. \A k \in Identity : IsAlias(m, k) <=> IsAlias(n, k)
  BY DEF IsAlias, Agrees
<1>3. \A k \in Identity : ~IsAlias(m, k) => k \in T
  BY <1>2, CanonicalFollows
<1>4. \A k \in Identity : IsAlias(m, k) /\ m.aliases[k] \in T => k \in T
  BY <1>2, CanonicalFollows DEF Agrees
<1>5. T \in SUBSET Identity
  OBVIOUS
<1> HIDE DEF T
<1>6. T = Identity
  BY <1>3, <1>4, <1>5, AliasInduction
<1> QED
  BY <1>6 DEF T

\* A decision moves the group of its source, and no other.
LEMMA CanonicalApplied ==
  ASSUME NEW m \in Memory, Ends(m), NEW d \in Line, NEW i \in Identity
  PROVE  \/ Canonical(Applied(m, d), i) = Canonical(m, i)
         \/ d.action # "forget" /\ Canonical(m, i) = d.source /\ d.source \notin m.forgotten
<1> DEFINE n == Applied(m, d)
<1>1. n \in Memory /\ Ends(n)
  BY AppliedIsMemory, DecisionsCloseNoCycle
<1>2. CASE ~Applicable(m, d)
  BY <1>2 DEF Applied
<1>3. CASE Applicable(m, d) /\ d.action = "forget"
  <2>1. n.aliases = m.aliases
    BY <1>3 DEF Applied, Memory
  <2> DEFINE T == {k \in Identity : Canonical(m, k) = Canonical(n, k)}
  <2> HIDE DEF n
  <2>2. \A k \in Identity : IsAlias(m, k) <=> IsAlias(n, k)
    BY <2>1 DEF IsAlias
  <2>3. \A k \in Identity : ~IsAlias(m, k) => k \in T
    BY <1>1, <2>2, CanonicalFollows
  <2>4. \A k \in Identity : IsAlias(m, k) /\ m.aliases[k] \in T => k \in T
    BY <1>1, <2>1, <2>2, CanonicalFollows
  <2>5. T \in SUBSET Identity
    OBVIOUS
  <2> HIDE DEF T
  <2>6. T = Identity
    BY <2>3, <2>4, <2>5, AliasInduction
  <2> QED
    BY <2>6 DEF T, n
<1>4. CASE Applicable(m, d) /\ d.action # "forget"
  <2>1. n.aliases = Redirected(m, d)
    BY <1>4 DEF Applied, Memory
  <2>2. d.source \in Identity /\ d.source \notin m.forgotten /\ ~IsAlias(m, d.source)
    BY <1>4 DEF Applicable, Line, Decision
  <2> HIDE DEF n
  <2>3. \A k \in Identity : k # d.source => (IsAlias(n, k) <=> IsAlias(m, k))
    BY <2>1 DEF IsAlias, Redirected
  <2>4. \A k \in Identity : IsAlias(m, k) => k # d.source /\ n.aliases[k] = m.aliases[k]
    BY <2>1, <2>2 DEF IsAlias, Redirected
  <2> DEFINE T == {k \in Identity : \/ Canonical(n, k) = Canonical(m, k)
                                    \/ Canonical(m, k) = d.source}
  <2>5. \A k \in Identity : ~IsAlias(m, k) => k \in T
    BY <1>1, <2>3, CanonicalFollows
  <2>6. \A k \in Identity : IsAlias(m, k) /\ m.aliases[k] \in T => k \in T
    BY <1>1, <2>3, <2>4, CanonicalFollows
  <2>7. T \in SUBSET Identity
    OBVIOUS
  <2> HIDE DEF T
  <2>8. T = Identity
    BY <2>5, <2>6, <2>7, AliasInduction
  <2> QED
    BY <1>4, <2>2, <2>8 DEF T, n
<1> QED
  BY <1>2, <1>3, <1>4

\* Each of whom a person has hidden stands in a group that is hidden.
HiddenInv ==
  lost # "memory" => \A i \in hidden : Canonical(identities, i) \in identities.forgotten

LEMMA HiddenStep ==
  TypesInv /\ Ends(identities) /\ AgreesInv /\ HiddenInv /\ [Next]_vars => HiddenInv'
<1> SUFFICES ASSUME TypesInv, Ends(identities), AgreesInv, HiddenInv, [Next]_vars,
                    lost' # "memory"
             PROVE  HiddenInv'
  BY DEF HiddenInv
<1>0. lost # "memory" \/ Erases
  <2>1. CASE Starts \/ EraseFails
    BY <2>1, EraseFailsLeaves DEF Starts
  <2>2. CASE Closes \/ Crashes \/ UNCHANGED vars
    BY <2>2 DEF Closes, Crashes, Stops, vars, historyVars
  <2>3. ASSUME NEW i \in Identity,
               Registers(i) \/ Disconnects(i) \/ EditObserved(i) \/ PatchSaved(i)
        PROVE  lost # "memory"
    BY <2>3 DEF Registers, Disconnects, EditObserved, PatchSaved
  <2>4. ASSUME NEW d \in Decision, Resolve(d) PROVE lost # "memory"
    BY <2>4 DEF Resolve
  <2> QED
    BY <2>1, <2>2, <2>3, <2>4 DEF Next
<1>1. /\ identities \in Memory /\ ledger \in Seq(Line) /\ hidden \subseteq Identity
      /\ Replay(ledger) \in Memory /\ Ends(Replay(ledger))
  BY ReplayType, ReplayEnds DEF TypesInv, LedgerTypes, RestTypes
<1>2. identities' \in Memory /\ Ends(identities')
  <2>1. TypesInv' /\ Ends(identities)'
    BY TypesStep, EndsStep
  <2> QED
    BY <2>1 DEF TypesInv, LedgerTypes
<1>13. CASE Erases
  BY <1>13 DEF Erases, HiddenInv
<1>14. CASE ~Erases
  <2>0. \A i \in hidden : Canonical(identities, i) \in identities.forgotten
    BY <1>0, <1>14 DEF HiddenInv
  \* A memory that agrees hides the same.
  <2>3. ASSUME Agrees(identities, identities'), hidden' = hidden PROVE HiddenInv'
    <3> SUFFICES ASSUME NEW i \in hidden PROVE Canonical(identities', i) \in identities'.forgotten
      BY <2>3 DEF HiddenInv
    <3>1. Canonical(identities, i) = Canonical(identities', i)
      BY <1>1, <1>2, <2>3, CanonicalAgrees
    <3>2. Canonical(identities, i) \in identities.forgotten
      BY <2>0
    <3> QED
      BY <2>3, <3>1, <3>2 DEF Agrees
  <2>4. Agrees(identities, identities)
    BY DEF Agrees
  <2>5. ASSUME UNCHANGED <<identities, hidden>> PROVE HiddenInv'
    BY <2>3, <2>4, <2>5
  <2>6. CASE Starts
    <3>1. /\ \E fs \in Prunings(files, 0, 0) : Loads(ledger, SeenIn(fs))
          /\ hidden' = hidden
      BY <2>6 DEF Starts
    <3>2. PICK fs \in Prunings(files, 0, 0) : identities' = Observed(Replay(ledger), SeenIn(fs))
      BY <3>1 DEF Loads
    <3>3. lost = "no"
      BY <1>0, <1>14, <2>6 DEF Starts, TypesInv, RestTypes
    <3>4. Agrees(identities, Replay(ledger))
      BY <3>3 DEF AgreesInv, Agrees
    <3>5. Agrees(identities, identities')
      BY <1>1, <3>2, <3>4 DEF Observed, Memory, Agrees
    <3> QED
      BY <2>3, <3>1, <3>5
  <2>7. ASSUME NEW i \in Identity, Registers(i) PROVE HiddenInv'
    <3>1. hidden' = hidden
      BY <2>7 DEF Registers
    <3>2. CASE Observes(i)
      <4>1. Agrees(identities, identities')
        BY <1>1, <3>2 DEF Observes, Observed, Memory, Agrees
      <4> QED
        BY <2>3, <3>1, <4>1
    <3>3. CASE UNCHANGED ledgerVars
      BY <2>5, <3>1, <3>3 DEF ledgerVars
    <3> QED
      BY <2>7, <3>2, <3>3 DEF Registers
  <2>8. ASSUME NEW d \in Decision, Resolve(d) PROVE HiddenInv'
    <3>1. /\ d \in Line /\ Valid(identities, d) /\ identities' = Applied(identities, d)
          /\ hidden' = IF d.action = "forget"
                       THEN hidden \cup {i \in Identity : Canonical(identities, i) = d.source}
                       ELSE hidden
      BY <2>8 DEF Resolve, Resolves, Line
    <3>2. identities.forgotten \subseteq Applied(identities, d).forgotten
      BY <1>1 DEF Applied, Memory
    <3>3. ASSUME NEW i \in hidden
          PROVE  Canonical(Applied(identities, d), i) \in Applied(identities, d).forgotten
      <4>1. Canonical(identities, i) \in identities.forgotten /\ i \in Identity
        BY <1>1, <2>0
      <4>2. Canonical(Applied(identities, d), i) = Canonical(identities, i)
        BY <1>1, <3>1, <4>1, CanonicalApplied
      <4> QED
        BY <3>2, <4>1, <4>2
    <3>4. CASE d.action = "forget"
      <4>1. Applicable(identities, d)
        BY <3>1, <3>4 DEF Valid, Applicable
      <4>2. d.source \in Applied(identities, d).forgotten
        BY <1>1, <3>4, <4>1 DEF Applied, Memory
      <4>3. ASSUME NEW i \in Identity, Canonical(identities, i) = d.source
            PROVE  Canonical(Applied(identities, d), i) = d.source
        BY <1>1, <3>1, <3>4, <4>3, CanonicalApplied
      <4>4. \A i \in hidden' : i \in hidden \/ (i \in Identity /\ Canonical(identities, i) = d.source)
        BY <3>1, <3>4
      <4>5. \A i \in hidden' :
              Canonical(Applied(identities, d), i) \in Applied(identities, d).forgotten
        BY <3>3, <4>2, <4>3, <4>4
      <4> QED
        BY <3>1, <4>5 DEF HiddenInv
    <3>5. CASE d.action # "forget"
      BY <3>1, <3>3, <3>5 DEF HiddenInv
    <3> QED
      BY <3>4, <3>5
  <2>10. CASE EraseFails
    BY <2>5, <2>10 DEF EraseFails
  <2>11. CASE Closes \/ Crashes \/ UNCHANGED vars
    BY <2>5, <2>11 DEF Closes, Crashes, Stops, vars, historyVars, ledgerVars
  <2>12. ASSUME NEW i \in Identity, Disconnects(i) \/ EditObserved(i) \/ PatchSaved(i)
         PROVE  HiddenInv'
    BY <2>5, <2>12 DEF Disconnects, EditObserved, PatchSaved, ledgerVars
  <2> QED
    BY <1>14, <2>6, <2>7, <2>8, <2>10, <2>11, <2>12 DEF Next
<1> QED
  BY <1>13, <1>14

LEMMA HiddenMeansUnseen == TypesInv /\ HiddenInv => ForgottenUntilLost
<1> SUFFICES ASSUME TypesInv, HiddenInv, lost # "memory", NEW p \in Identity,
                    NEW k \in DOMAIN HistoryOf(p), PatchOf(HistoryOf(p)[k]) \in hidden
             PROVE  FALSE
  BY DEF ForgottenIsHidden, ForgottenUntilLost
<1> DEFINE h == HistoryOf(p)
           S == {o \in Range(ring) : Matches(identities, PatchOf(o), p)}
<1>1. ring \in Seq(Observation)
  BY DEF TypesInv, RingTypes, KnownRing
<1>2. h \in Seq(Observation) /\ \A j \in 1..Len(h) : h[j] \in S
  <2> HIDE DEF S
  <2>1. h = Selected(ring, S)
    BY DEF HistoryOf, S
  <2> QED
    BY <1>1, <2>1, SelectedIsPart
<1>3. DOMAIN h = 1..Len(h)
  BY <1>2, LenProperties
<1>4. h[k] \in S
  BY <1>2, <1>3
<1>5. Canonical(identities, PatchOf(h[k])) \notin identities.forgotten
  BY <1>4 DEF Matches, IsForgotten
<1> QED
  BY <1>5 DEF HiddenInv

\* Whom a person has hidden nobody is shown, under whatever identity he asks and
\* whatever was decided since, however often the broker restarted and whatever
\* failed, until one starts without the ledger that a failed erasure took.
THEOREM ForgottenStaysHidden == Spec => []ForgottenUntilLost
<1>1. Init => Ends(identities) /\ AgreesInv /\ HiddenInv
  BY ReplayOfNothing DEF Init, LedgerInit, NoIdentities, Ends, Agrees, AgreesInv, HiddenInv
<1>2. Spec => []Ends(identities)
  BY <1>1, TypesHold, EndsStep, PTL DEF Spec
<1>3. Spec => []AgreesInv
  BY <1>1, TypesHold, AgreesStep, PTL DEF Spec
<1>4. Spec => []HiddenInv
  BY <1>1, <1>2, <1>3, TypesHold, HiddenStep, PTL DEF Spec
<1> QED
  BY <1>4, TypesHold, HiddenMeansUnseen, PTL
=============================================================================
