----------------------------- MODULE DeriveProofs -----------------------------
(***************************************************************************)
(* What the operators of Derive compute from every set of events, and the  *)
(* lemmas on orders, induction, folds and sums that this rests on.  They   *)
(* serve the proofs of the other modules too.                              *)
(*                                                                         *)
(* Induction is over sets: a set of numbers that has 0 and the successor   *)
(* of each of its elements has them all, and a set of parts of S that has  *)
(* a part whenever it has all that are smaller by one has them all.        *)
(*                                                                         *)
(* An order is given by the set of what comes before each element, and its *)
(* sequence by counting these sets.                                        *)
(***************************************************************************)
EXTENDS Derive, SequenceTheorems, FiniteSetTheorems, WellFoundedInduction, TLAPS

-----------------------------------------------------------------------------
(* Induction.                                                               *)

\* Every set of numbers has a least one.
LEMMA Least ==
    ASSUME NEW S \in SUBSET Nat, S # {}
    PROVE  \E n \in S : \A k \in S : n <= k
  <1> DEFINE R == OpToRel(<, Nat)
  <1>1. IsWellFoundedOn(R, Nat)
    BY NatLessThanWellFounded
  <1>2. \A j, k \in Nat : <<j, k>> \in R <=> j < k
    BY DEF OpToRel
  <1> HIDE DEF R
  <1>3. PICK n \in S : \A k \in S : <<k, n>> \notin R
    BY <1>1, WFMin
  <1>4. \A k \in S : ~(k < n)
    <2>1. \A k \in S : k \in Nat
      OBVIOUS
    <2> QED BY <1>2, <1>3, <2>1
  <1> QED BY <1>4

\* A set that has 0 and the successor of each of its numbers has them all.
LEMMA NatsAre ==
    ASSUME NEW S, 0 \in S, \A n \in Nat : n \in S => n + 1 \in S
    PROVE  \A n \in Nat : n \in S
  <1> SUFFICES ASSUME NEW m \in Nat, m \notin S PROVE FALSE
    OBVIOUS
  <1>1. PICK n \in {k \in Nat : k \notin S} : \A k \in {j \in Nat : j \notin S} : n <= k
    BY Least
  <1>2. n # 0 /\ n - 1 \in Nat
    BY <1>1
  <1>3. n - 1 \in S
    BY <1>1, <1>2
  <1> QED BY <1>1, <1>2, <1>3

\* Of the parts of S a set G that has a part if it has what is left of that without
\* any one of its elements has them all.
LEMMA PartsAre ==
    ASSUME NEW S, IsFiniteSet(S), NEW G,
           \A T \in SUBSET S : (\A x \in T : T \ {x} \in G) => T \in G
    PROVE  \A T \in SUBSET S : T \in G
  <1> DEFINE N == {n \in Nat : \A T \in SUBSET S : Cardinality(T) = n => T \in G}
  <1>1. 0 \in N
    <2> SUFFICES ASSUME NEW T \in SUBSET S, Cardinality(T) = 0 PROVE T \in G
      OBVIOUS
    <2>1. T = {}
      BY FS_Subset, FS_EmptySet
    <2> QED BY <2>1
  <1>2. ASSUME NEW n \in Nat, n \in N PROVE n + 1 \in N
    <2> SUFFICES ASSUME NEW T \in SUBSET S, Cardinality(T) = n + 1 PROVE T \in G
      OBVIOUS
    <2>1. ASSUME NEW x \in T PROVE T \ {x} \in G
      <3>1. IsFiniteSet(T)
        BY FS_Subset
      <3>2. Cardinality(T \ {x}) = n
        <4>1. Cardinality(T \ {x}) = Cardinality(T) - 1
          BY <3>1, FS_RemoveElement
        <4> QED BY <4>1
      <3>3. T \ {x} \in SUBSET S
        OBVIOUS
      <3> QED BY <1>2, <3>2, <3>3
    <2> QED BY <2>1
  <1> HIDE DEF N
  <1>3. \A n \in Nat : n \in N
    BY <1>1, <1>2, NatsAre
  <1>4. ASSUME NEW T \in SUBSET S PROVE T \in G
    <2>1. Cardinality(T) \in Nat
      BY FS_Subset, FS_CardinalityType
    <2> QED BY <1>3, <2>1 DEF N
  <1> QED BY <1>4

-----------------------------------------------------------------------------
(* Folds.  A fold is iter[S] of a function iter that is described by itself; *)
(* F[x][v] is what the fold makes of the element x and the value v.         *)

\* pick[s] is the element that is taken from the part s first.
IsFold(g, S, pick, V, base, F) ==
    /\ g \in [SUBSET S -> V]
    /\ \A s \in SUBSET S : g[s] = IF s = {} THEN base ELSE F[pick[s]][g[s \ {pick[s]}]]

\* Such a function exists, whatever the element that is taken from each part.
LEMMA FoldExists ==
    ASSUME NEW S, IsFiniteSet(S),
           NEW pick, \A s \in SUBSET S : s # {} => pick[s] \in s,
           NEW V, NEW base \in V, NEW F, \A x \in S, v \in V : F[x][v] \in V
    PROVE  \E g : IsFold(g, S, pick, V, base, F)
  <1> DEFINE Sub(k) == {s \in SUBSET S : Cardinality(s) <= k}
             Next(g, s) == IF s = {} THEN base ELSE F[pick[s]][g[s \ {pick[s]}]]
             Is(g, k) == g \in [Sub(k) -> V] /\ \A s \in Sub(k) : g[s] = Next(g, s)
             N == {k \in Nat : \E g : Is(g, k)}
  <1>1. \A s \in SUBSET S : IsFiniteSet(s) /\ Cardinality(s) \in Nat
    BY FS_Subset, FS_CardinalityType
  <1>2. ASSUME NEW k \in Nat, NEW s \in Sub(k + 1), s # {}
        PROVE  pick[s] \in S /\ s \ {pick[s]} \in Sub(k)
    <2>1. pick[s] \in s
      BY <1>2
    <2>2. Cardinality(s \ {pick[s]}) = Cardinality(s) - 1
      BY <1>1, <2>1, FS_RemoveElement
    <2> QED BY <1>1, <2>1, <2>2
  <1>3. 0 \in N
    <2> DEFINE g == [s \in Sub(0) |-> base]
    <2>1. \A s \in Sub(0) : s = {}
      BY <1>1, FS_EmptySet
    <2>2. Is(g, 0)
      BY <2>1
    <2> HIDE DEF Is, g
    <2> QED BY <2>2
  <1>4. ASSUME NEW k \in Nat, k \in N PROVE k + 1 \in N
    <2>1. PICK g : Is(g, k)
      BY <1>4
    <2> DEFINE h == [s \in Sub(k + 1) |-> Next(g, s)]
    <2>2. \A s \in Sub(k) : s \in Sub(k + 1) /\ h[s] = g[s]
      <3>1. ASSUME NEW s \in Sub(k) PROVE s \in Sub(k + 1)
        BY <1>1
      <3>2. \A s \in Sub(k) : g[s] = Next(g, s)
        BY <2>1
      <3> HIDE DEF Sub, Next
      <3> QED BY <3>1, <3>2
    <2>3. ASSUME NEW s \in Sub(k + 1) PROVE h[s] \in V /\ h[s] = Next(h, s)
      <3>1. CASE s = {}
        BY <3>1
      <3>2. CASE s # {}
        <4>1. pick[s] \in S /\ s \ {pick[s]} \in Sub(k)
          BY <1>2, <3>2
        <4>2. h[s] = F[pick[s]][g[s \ {pick[s]}]]
          BY <3>2
        <4>3. h[s \ {pick[s]}] = g[s \ {pick[s]}] /\ g[s \ {pick[s]}] \in V
          BY <2>1, <2>2, <4>1
        <4> HIDE DEF h, Sub
        <4> QED BY <3>2, <4>1, <4>2, <4>3
      <3> QED BY <3>1, <3>2
    <2>4. Is(h, k + 1)
      <3>1. h \in [Sub(k + 1) -> V]
        BY <2>3
      <3> HIDE DEF h, Sub, Next
      <3> QED BY <2>3, <3>1
    <2> HIDE DEF Is, h
    <2> QED BY <2>4
  <1> HIDE DEF N
  <1>5. \A k \in Nat : k \in N
    BY <1>3, <1>4, NatsAre
  <1>6. Cardinality(S) \in Nat
    BY FS_CardinalityType
  <1>7. PICK g : Is(g, Cardinality(S))
    BY <1>5, <1>6 DEF N
  <1>8. Sub(Cardinality(S)) = SUBSET S
    BY <1>1, FS_Subset
  <1> HIDE DEF Sub
  <1>9. IsFold(g, S, pick, V, base, F)
    BY <1>7, <1>8 DEF IsFold
  <1> QED BY <1>9

\* The first numbers, and the last of them.
LEMMA FirstNumbers ==
    ASSUME NEW N \in Nat
    PROVE  /\ \A s \in SUBSET (1 .. N) : s # {} => Max(s) \in s
           /\ \A n \in 1 .. N : Max(1 .. n) = n /\ (1 .. n) \ {n} = 1 .. n - 1
           /\ IsFiniteSet(1 .. N)
  <1>1. ASSUME NEW s \in SUBSET (1 .. N), s # {} PROVE Max(s) \in s
    <2> DEFINE back == {N - x : x \in s}
    <2>1. back \in SUBSET Nat /\ back # {}
      <3>1. \A x \in s : N - x \in Nat
        OBVIOUS
      <3> QED BY <1>1, <3>1
    <2>2. PICK m \in back : \A k \in back : m <= k
      BY <2>1, Least
    <2>3. PICK x \in s : m = N - x
      BY <2>2
    <2>4. \A y \in s : x >= y
      <3> SUFFICES ASSUME NEW y \in s PROVE x >= y
        OBVIOUS
      <3>1. N - y \in back
        OBVIOUS
      <3>2. N - x <= N - y
        BY <2>2, <2>3, <3>1
      <3>3. x \in Int /\ y \in Int
        OBVIOUS
      <3> QED BY <3>2, <3>3
    <2> QED BY <2>4 DEF Max
  <1>2. ASSUME NEW n \in 1 .. N PROVE Max(1 .. n) = n /\ (1 .. n) \ {n} = 1 .. n - 1
    BY DEF Max
  <1>3. IsFiniteSet(1 .. N)
    BY FS_Interval
  <1> QED BY <1>1, <1>2, <1>3

\* A fold over the positions of a sequence takes the last of them first.
IsSeqFold(g, N, V, base, F) ==
    /\ g \in [SUBSET (1 .. N) -> V]
    /\ \A s \in SUBSET (1 .. N) :
           g[s] = IF s = {} THEN base ELSE F[Max(s)][g[s \ {Max(s)}]]

LEMMA SeqFoldExists ==
    ASSUME NEW N \in Nat, NEW V, NEW base \in V, NEW F,
           \A x \in 1 .. N, v \in V : F[x][v] \in V
    PROVE  \E g : IsSeqFold(g, N, V, base, F)
  <1> DEFINE S == 1 .. N
             pick == [s \in SUBSET S |-> Max(s)]
  <1>1. IsFiniteSet(S) /\ \A s \in SUBSET S : s # {} => pick[s] \in s
    BY FirstNumbers
  <1>2. \A s \in SUBSET S : pick[s] = Max(s)
    OBVIOUS
  <1> HIDE DEF pick, S
  <1>3. \A x \in S, v \in V : F[x][v] \in V
    BY DEF S
  <1>4. PICK g : IsFold(g, S, pick, V, base, F)
    BY <1>1, <1>3, FoldExists
  <1>5. IsSeqFold(g, N, V, base, F)
    BY <1>2, <1>4 DEF IsFold, IsSeqFold, S
  <1> QED BY <1>5

-----------------------------------------------------------------------------
(* Orders.                                                                  *)

\* before is a strict total order of S: before[e] is what comes before e.
IsOrder(S, before) ==
    /\ before \in [S -> SUBSET S]
    /\ \A e \in S : e \notin before[e]
    /\ \A e, f \in S : e \in before[f] => before[e] \subseteq before[f]
    /\ \A e, f \in S : e # f => e \in before[f] \/ f \in before[e]

LEMMA CountFromZero ==
    ASSUME NEW k \in Nat
    PROVE  IsFiniteSet(0 .. k - 1) /\ Cardinality(0 .. k - 1) = k
  <1>1. 0 \in Int /\ k - 1 \in Int /\ (IF 0 > k - 1 THEN 0 ELSE k - 1 - 0 + 1) = k
    OBVIOUS
  <1> QED BY <1>1, FS_Interval

\* What comes before an element is counted, and counted higher for what comes later.
LEMMA Ranks ==
    ASSUME NEW S, IsFiniteSet(S), NEW before, IsOrder(S, before)
    PROVE  /\ Cardinality(S) \in Nat
           /\ \A e \in S : Cardinality(before[e]) \in 0 .. Cardinality(S) - 1
           /\ \A e, f \in S : e \in before[f] => Cardinality(before[e]) < Cardinality(before[f])
           /\ \A e, f \in S : Cardinality(before[e]) = Cardinality(before[f]) => e = f
  <1>1. Cardinality(S) \in Nat
    BY FS_CardinalityType
  <1>2. ASSUME NEW e \in S PROVE IsFiniteSet(before[e]) /\ Cardinality(before[e]) \in Nat
    <2>1. before[e] \in SUBSET S
      BY DEF IsOrder
    <2> QED BY <2>1, FS_Subset, FS_CardinalityType
  <1>3. ASSUME NEW e \in S PROVE Cardinality(before[e]) <= Cardinality(S) - 1
    <2>1. IsFiniteSet(S \ {e}) /\ Cardinality(S \ {e}) = Cardinality(S) - 1
      BY FS_RemoveElement
    <2>2. before[e] \in SUBSET (S \ {e})
      BY DEF IsOrder
    <2> QED BY <2>1, <2>2, FS_Subset
  <1>4. ASSUME NEW e \in S, NEW f \in S, e \in before[f]
        PROVE  Cardinality(before[e]) < Cardinality(before[f])
    <2>1. before[e] \in SUBSET before[f] /\ before[e] # before[f]
      BY <1>4 DEF IsOrder
    <2>2. /\ Cardinality(before[e]) <= Cardinality(before[f])
          /\ Cardinality(before[e]) # Cardinality(before[f])
      BY <1>2, <2>1, FS_Subset
    <2> QED BY <1>2, <2>2
  <1>5. ASSUME NEW e \in S, NEW f \in S, Cardinality(before[e]) = Cardinality(before[f])
        PROVE  e = f
    <2>1. CASE e \in before[f]
      BY <1>2, <1>4, <1>5, <2>1
    <2>2. CASE f \in before[e]
      BY <1>2, <1>4, <1>5, <2>2
    <2> QED BY <2>1, <2>2 DEF IsOrder
  <1> QED BY <1>1, <1>2, <1>3, <1>4, <1>5

\* There is an element for every count.
LEMMA RankTaken ==
    ASSUME NEW S, IsFiniteSet(S), NEW before, IsOrder(S, before),
           NEW n \in 1 .. Cardinality(S)
    PROVE  \E e \in S : Cardinality(before[e]) = n - 1
  <1> DEFINE N == 0 .. Cardinality(S) - 1
             rank == [e \in S |-> Cardinality(before[e])]
  <1>1. rank \in [S -> N] /\ \A e, f \in S : rank[e] = rank[f] => e = f
    BY Ranks
  <1>2. rank \in Injection(S, N)
    BY <1>1 DEF Injection, IsInjective
  <1>3. Cardinality(S) \in Nat
    BY Ranks
  <1>4. IsFiniteSet(N) /\ Cardinality(N) = Cardinality(S)
    BY <1>3, CountFromZero
  <1> HIDE DEF N, rank
  <1>5. rank \in Surjection(S, N)
    BY <1>2, <1>4, FS_Injection
  <1>6. n - 1 \in N
    BY <1>3 DEF N
  <1>7. PICK e \in S : rank[e] = n - 1
    BY <1>5, <1>6 DEF Surjection
  <1> QED BY <1>7 DEF rank

\* A sequence that has every element where it is counted holds each of them once, in
\* the order.
LEMMA RankSorts ==
    ASSUME NEW S, IsFiniteSet(S), NEW before, IsOrder(S, before),
           NEW s \in [1 .. Cardinality(S) -> S],
           \A n \in 1 .. Cardinality(S) : Cardinality(before[s[n]]) = n - 1
    PROVE  /\ s \in Seq(S)
           /\ Len(s) = Cardinality(S)
           /\ Range(s) = S
           /\ \A i, j \in 1 .. Len(s) : i < j => s[i] \in before[s[j]]
  <1>1. Cardinality(S) \in Nat
    BY Ranks
  <1>3. s \in Seq(S) /\ Len(s) = Cardinality(S) /\ DOMAIN s = 1 .. Cardinality(S)
    BY <1>1, SeqDef, LenProperties
  <1>4. ASSUME NEW e \in S PROVE e \in Range(s)
    <2> DEFINE n == Cardinality(before[e]) + 1
    <2>1. n \in 1 .. Cardinality(S)
      BY <1>1, Ranks
    <2>2. s[n] \in S /\ Cardinality(before[s[n]]) = Cardinality(before[e])
      BY <2>1, Ranks
    <2>3. s[n] = e
      BY <2>2, Ranks
    <2> QED BY <1>3, <2>1, <2>3 DEF Range
  <1>5. Range(s) = S
    BY <1>4 DEF Range
  <1>6. ASSUME NEW i \in 1 .. Len(s), NEW j \in 1 .. Len(s), i < j
        PROVE  s[i] \in before[s[j]]
    <2>1. /\ s[i] \in S /\ s[j] \in S
          /\ Cardinality(before[s[i]]) = i - 1 /\ Cardinality(before[s[j]]) = j - 1
      BY <1>3
    <2>2. s[j] \notin before[s[i]]
      BY <1>1, <1>3, <1>6, <2>1, Ranks
    <2>3. s[i] # s[j]
      BY <1>1, <1>3, <1>6, <2>1
    <2> QED BY <2>1, <2>2, <2>3 DEF IsOrder
  <1> QED BY <1>3, <1>5, <1>6

-----------------------------------------------------------------------------
(* The order of events.                                                     *)

\* Events as a ledger has them: finitely many, and machine and seq identify each.
Numbered(S) ==
    /\ IsFiniteSet(S)
    /\ \A e \in S : e.machine \in Nat /\ e.time \in Nat /\ e.seq \in Nat
    /\ \A e, f \in S : e.machine = f.machine /\ e.seq = f.seq => e = f

LEMMA NumberedPart ==
    ASSUME NEW S, Numbered(S), NEW T \in SUBSET S
    PROVE  Numbered(T)
  <1>1. IsFiniteSet(T)
    BY FS_Subset DEF Numbered
  <1> QED BY <1>1 DEF Numbered

\* An order of events by a quantity of theirs and, where it is the same,
\* by Precedes; Precedes itself is one where nothing is measured.
LEMMA PrecedesOrders ==
    ASSUME NEW T, Numbered(T), NEW size \in [T -> Int]
    PROVE  IsOrder(T, [e \in T |-> {f \in T :
               size[f] < size[e] \/ (size[f] = size[e] /\ Precedes(f, e))}])
  <1> DEFINE Smaller(f, e) == size[f] < size[e] \/ (size[f] = size[e] /\ Precedes(f, e))
             before == [e \in T |-> {f \in T : Smaller(f, e)}]
  <1>1. \A e \in T : e.machine \in Nat /\ e.time \in Nat /\ e.seq \in Nat /\ size[e] \in Int
    BY DEF Numbered
  <1>2. \A e \in T : ~Smaller(e, e)
    BY <1>1 DEF Precedes
  <1>3. \A e, f, g \in T : Smaller(e, f) /\ Smaller(f, g) => Smaller(e, g)
    BY <1>1 DEF Precedes
  <1>4. \A e, f \in T : e # f => Smaller(e, f) \/ Smaller(f, e)
    <2>1. \A e, f \in T : e # f => e.machine # f.machine \/ e.seq # f.seq
      BY DEF Numbered
    <2> QED BY <1>1, <2>1 DEF Precedes
  <1> HIDE DEF Smaller
  <1>5. IsOrder(T, before)
    BY <1>2, <1>3, <1>4 DEF IsOrder
  <1> QED BY <1>5 DEF Smaller

\* Events are put in order, each of them once.
LEMMA OrderedSorts ==
    ASSUME NEW T, Numbered(T)
    PROVE  /\ Ordered(T) \in Seq(T)
           /\ Len(Ordered(T)) = Cardinality(T)
           /\ Range(Ordered(T)) = T
           /\ \A i, j \in 1 .. Len(Ordered(T)) :
                  i < j => Precedes(Ordered(T)[i], Ordered(T)[j])
  <1> DEFINE size == [e \in T |-> 0]
             before == [e \in T |-> {f \in T :
                           size[f] < size[e] \/ (size[f] = size[e] /\ Precedes(f, e))}]
             s == Ordered(T)
  <1>1. IsFiniteSet(T)
    BY DEF Numbered
  <1>2. IsOrder(T, before)
    <2>1. size \in [T -> Int]
      OBVIOUS
    <2> HIDE DEF size
    <2> QED BY <2>1, PrecedesOrders
  <1>3. \A e \in T : before[e] = {f \in T : Precedes(f, e)}
    OBVIOUS
  <1> HIDE DEF before, size
  <1> DEFINE rank(e) == Cardinality({f \in T : Precedes(f, e)})
  <1>4. ASSUME NEW n \in 1 .. Cardinality(T)
        PROVE  \E e \in T : rank(e) = n - 1
    <2>1. \A e \in T : rank(e) = Cardinality(before[e])
      BY <1>3
    <2> HIDE DEF rank
    <2>2. \E e \in T : Cardinality(before[e]) = n - 1
      BY <1>1, <1>2, RankTaken
    <2> QED BY <2>1, <2>2
  <1>5. s = [n \in 1 .. Cardinality(T) |-> CHOOSE e \in T : rank(e) = n - 1]
    BY DEF Ordered, Sorted
  <1> HIDE DEF s, rank
  <1>6. \A n \in 1 .. Cardinality(T) : s[n] \in T /\ rank(s[n]) = n - 1
    BY <1>4, <1>5
  <1>7. s \in [1 .. Cardinality(T) -> T]
    BY <1>5, <1>6
  <1>8. \A n \in 1 .. Cardinality(T) : Cardinality(before[s[n]]) = n - 1
    BY <1>3, <1>6 DEF rank
  <1>9. /\ s \in Seq(T) /\ Len(s) = Cardinality(T) /\ Range(s) = T
        /\ \A i, j \in 1 .. Len(s) : i < j => s[i] \in before[s[j]]
    BY <1>1, <1>2, <1>7, <1>8, RankSorts
  <1>10. \A i, j \in 1 .. Len(s) : i < j => Precedes(s[i], s[j])
    BY <1>3, <1>6, <1>9
  <1> QED BY <1>9, <1>10 DEF s

\* An event comes after as many as precede it.
LEMMA OrderedRank ==
    ASSUME NEW T, Numbered(T), NEW x \in T
    PROVE  LET r == Cardinality({f \in T : Precedes(f, x)})
           IN  r + 1 \in 1 .. Cardinality(T) /\ Ordered(T)[r + 1] = x
  <1> DEFINE size == [e \in T |-> 0]
             before == [e \in T |-> {f \in T :
                           size[f] < size[e] \/ (size[f] = size[e] /\ Precedes(f, e))}]
             rank(e) == Cardinality({f \in T : Precedes(f, e)})
             N == Cardinality(T)
  <1>1. IsFiniteSet(T)
    BY DEF Numbered
  <1>2. IsOrder(T, before)
    <2>1. size \in [T -> Int]
      OBVIOUS
    <2> HIDE DEF size
    <2> QED BY <2>1, PrecedesOrders
  <1>3. \A e \in T : rank(e) = Cardinality(before[e])
    OBVIOUS
  <1> HIDE DEF before, size, rank
  <1>4. N \in Nat /\ rank(x) \in 0 .. N - 1
    BY <1>1, <1>2, <1>3, Ranks
  <1>5. \A e, f \in T : rank(e) = rank(f) => e = f
    BY <1>1, <1>2, <1>3, Ranks
  <1>6. rank(x) + 1 \in 1 .. N /\ rank(x) + 1 - 1 = rank(x)
    BY <1>4
  <1>7. Ordered(T) = [n \in 1 .. N |-> CHOOSE e \in T : rank(e) = n - 1]
    BY DEF Ordered, Sorted, rank
  <1>8. Ordered(T)[rank(x) + 1] = CHOOSE e \in T : rank(e) = rank(x)
    <2> DEFINE n == rank(x) + 1
    <2>1. n \in 1 .. N /\ n - 1 = rank(x)
      <3> HIDE DEF N
      <3> QED BY <1>4, <1>6
    <2> HIDE DEF n, N
    <2>2. Ordered(T)[n] = CHOOSE e \in T : rank(e) = n - 1
      BY <1>7, <2>1
    <2> QED BY <2>1, <2>2 DEF n
  <1>9. Ordered(T)[rank(x) + 1] = x
    BY <1>5, <1>8
  <1> QED BY <1>6, <1>9 DEF rank

\* e is the last of T.
LastOf(e, T) == e \in T /\ \A f \in T \ {e} : Precedes(f, e)

\* Of events that are any, one is last.
LEMMA LastExists ==
    ASSUME NEW T, Numbered(T), T # {}
    PROVE  \E e \in T : LastOf(e, T)
  <1> DEFINE N == Cardinality(T)
             seq == Ordered(T)
             e == seq[N]
  <1>1. /\ seq \in Seq(T) /\ Len(seq) = N /\ Range(seq) = T
        /\ \A i, j \in 1 .. Len(seq) : i < j => Precedes(seq[i], seq[j])
    BY OrderedSorts
  <1>2. IsFiniteSet(T) /\ N \in Nat /\ N # 0
    BY FS_CardinalityType, FS_EmptySet DEF Numbered
  <1> HIDE DEF N, seq
  <1>3. N \in 1 .. N /\ DOMAIN seq = 1 .. N
    BY <1>1, <1>2, LenProperties
  <1>4. e \in T
    BY <1>1, <1>3, ElementOfSeq
  <1>5. ASSUME NEW f \in T \ {e} PROVE Precedes(f, e)
    <2>1. PICK i \in 1 .. N : f = seq[i]
      BY <1>1, <1>3 DEF Range
    <2>2. i < N
      BY <1>2, <2>1
    <2> QED BY <1>1, <1>3, <2>1, <2>2
  <1> HIDE DEF e
  <1> QED BY <1>4, <1>5 DEF LastOf

\* No two events precede each other.
LEMMA PrecedesOneWay ==
    ASSUME NEW S, Numbered(S), NEW e \in S, NEW f \in S
    PROVE  /\ ~(Precedes(e, f) /\ Precedes(f, e))
           /\ ~Precedes(e, e)
           /\ e # f => Precedes(e, f) \/ Precedes(f, e)
           /\ \A g \in S : Precedes(e, f) /\ Precedes(f, g) => Precedes(e, g)
  <1>1. \A g \in S : g.machine \in Nat /\ g.time \in Nat /\ g.seq \in Nat
    BY DEF Numbered
  <1>2. e # f => e.machine # f.machine \/ e.seq # f.seq
    BY DEF Numbered
  <1> QED BY <1>1, <1>2 DEF Precedes

\* The last of T comes last, and the others are where they are without it.
LEMMA OrderedLast ==
    ASSUME NEW T, Numbered(T), NEW e, LastOf(e, T)
    PROVE  /\ Cardinality(T) \in Nat \ {0}
           /\ Cardinality(T \ {e}) = Cardinality(T) - 1
           /\ Ordered(T)[Cardinality(T)] = e
           /\ \A n \in 1 .. Cardinality(T) - 1 : Ordered(T)[n] = Ordered(T \ {e})[n]
  <1> DEFINE U == T \ {e}
             N == Cardinality(T)
             rank(x) == Cardinality({f \in T : Precedes(f, x)})
             lower(x) == Cardinality({f \in U : Precedes(f, x)})
  <1>0. e \in T
    BY DEF LastOf
  <1>1. Numbered(U) /\ IsFiniteSet(T)
    BY NumberedPart DEF Numbered
  <1>2. Cardinality(U) = N - 1
    BY <1>0, <1>1, FS_RemoveElement
  <1>3. N \in Nat /\ Cardinality(U) \in Nat
    BY <1>1, FS_CardinalityType DEF Numbered
  <1>4. N # 0
    BY <1>2, <1>3
  <1>5. rank(e) = N - 1
    <2>1. ~Precedes(e, e)
      BY <1>0, PrecedesOneWay
    <2>2. {f \in T : Precedes(f, e)} = U
      BY <2>1 DEF LastOf
    <2> QED BY <1>2, <2>2
  <1>6. ASSUME NEW x \in U PROVE rank(x) = lower(x)
    <2>1. ~Precedes(e, x)
      BY <1>0, PrecedesOneWay DEF LastOf
    <2>2. {f \in T : Precedes(f, x)} = {f \in U : Precedes(f, x)}
      BY <2>1
    <2> QED BY <2>2
  <1>7. Ordered(T)[N] = e
    <2>1. Ordered(T)[rank(e) + 1] = e
      BY <1>0, OrderedRank
    <2>2. rank(e) + 1 = N
      BY <1>3, <1>5
    <2> QED BY <2>1, <2>2
  <1> HIDE DEF U
  <1>8. /\ Ordered(U) \in Seq(U) /\ Len(Ordered(U)) = N - 1 /\ Range(Ordered(U)) = U
    BY <1>1, <1>2, OrderedSorts
  <1>9. ASSUME NEW n \in 1 .. N - 1 PROVE Ordered(T)[n] = Ordered(U)[n]
    <2> DEFINE x == Ordered(U)[n]
    <2>1. x \in U /\ x \in T
      BY <1>8, ElementOfSeq DEF U
    <2>2. Ordered(U)[lower(x) + 1] = x /\ lower(x) + 1 \in 1 .. N - 1
      BY <1>1, <1>2, <2>1, OrderedRank
    <2>3. Ordered(T)[rank(x) + 1] = x
      BY <2>1, OrderedRank
    <2>4. lower(x) + 1 = n
      <3> DEFINE l == lower(x) + 1
      <3>1. l \in 1 .. N - 1 /\ Ordered(U)[l] = Ordered(U)[n]
        BY <2>2
      <3>2. \A i, j \in 1 .. N - 1 : i < j => Precedes(Ordered(U)[i], Ordered(U)[j])
        BY <1>1, <1>8, OrderedSorts
      <3> HIDE DEF l, x
      <3>3. ~Precedes(x, x)
        BY <1>1, <2>1, PrecedesOneWay
      <3>4. ~(l < n) /\ ~(n < l)
        BY <3>1, <3>2, <3>3 DEF x
      <3>5. l = n
        BY <1>3, <3>1, <3>4
      <3> QED BY <3>5 DEF l
    <2> QED BY <1>6, <2>1, <2>3, <2>4
  <1> QED BY <1>2, <1>3, <1>4, <1>7, <1>9 DEF U

-----------------------------------------------------------------------------
(* Folds over events in order.                                              *)

\* What a fold goes through: step[e][v] is what it makes of the event e and the value v.
IsWalk(w, seq, V, base, step) ==
    /\ w \in [0 .. Len(seq) -> V]
    /\ w[0] = base
    /\ \A n \in 1 .. Len(seq) : w[n] = step[seq[n]][w[n - 1]]

\* The function that FoldLeft is described by, for as long as its values are in V.
IsIter(iter, seq, V, base, step) ==
    /\ iter[{}] = base
    /\ \A s \in SUBSET (1 .. Len(seq)) :
           s # {} /\ iter[s \ {Max(s)}] \in V =>
               iter[s] = step[seq[Max(s)]][iter[s \ {Max(s)}]]

\* It goes through a walk.
LEMMA IterWalk ==
    ASSUME NEW E, NEW seq \in Seq(E), NEW V, NEW base \in V, NEW step \in [E -> [V -> V]],
           NEW iter, IsIter(iter, seq, V, base, step)
    PROVE  \E w : IsWalk(w, seq, V, base, step) /\ w[Len(seq)] = iter[1 .. Len(seq)]
  <1> DEFINE N == Len(seq)
             w == [n \in 0 .. N |-> iter[1 .. n]]
  <1>1. N \in Nat /\ \A i \in 1 .. N : seq[i] \in E
    BY LenProperties, ElementOfSeq
  <1> HIDE DEF N
  <1>2. w[0] = base
    <2>1. 1 .. 0 = {} /\ 0 \in 0 .. N
      BY <1>1
    <2> QED BY <2>1 DEF IsIter
  <1>3. ASSUME NEW n \in 1 .. N, w[n - 1] \in V PROVE w[n] = step[seq[n]][w[n - 1]]
    <2>1. 1 .. n \in SUBSET (1 .. N) /\ 1 .. n # {}
      <3>1. n \in 1 .. n /\ \A i \in 1 .. n : i \in 1 .. N
        BY <1>1
      <3> QED BY <3>1
    <2>2. Max(1 .. n) = n /\ (1 .. n) \ {n} = 1 .. n - 1
      BY <1>1, FirstNumbers
    <2>3. n - 1 \in 0 .. N /\ n \in 0 .. N
      BY <1>1
    <2>4. iter[(1 .. n) \ {Max(1 .. n)}] \in V
      BY <1>3, <2>2, <2>3
    <2>5. iter[1 .. n] = step[seq[Max(1 .. n)]][iter[(1 .. n) \ {Max(1 .. n)}]]
      BY <2>1, <2>4 DEF N, IsIter
    <2> QED BY <2>2, <2>3, <2>5
  <1> HIDE DEF w
  <1>4. \A n \in 0 .. N : w[n] \in V
    <2> DEFINE G == {n \in Nat : n \in 0 .. N => w[n] \in V}
    <2>1. 0 \in G
      BY <1>2
    <2>2. ASSUME NEW n \in Nat, n \in G PROVE n + 1 \in G
      <3> SUFFICES ASSUME n + 1 \in 0 .. N PROVE w[n + 1] \in V
        OBVIOUS
      <3>1. n + 1 \in 1 .. N /\ (n + 1) - 1 = n /\ w[n] \in V
        BY <1>1, <2>2
      <3>2. w[n + 1] = step[seq[n + 1]][w[n]]
        BY <1>3, <3>1
      <3> QED BY <1>1, <3>1, <3>2
    <2> HIDE DEF G
    <2>3. \A n \in Nat : n \in G
      BY <2>1, <2>2, NatsAre
    <2>4. \A n \in 0 .. N : n \in Nat
      BY <1>1
    <2> QED BY <2>3, <2>4 DEF G
  <1>5. w \in [0 .. N -> V]
    BY <1>4 DEF w
  <1>6. \A n \in 1 .. N : w[n] = step[seq[n]][w[n - 1]]
    <2>1. \A n \in 1 .. N : n - 1 \in 0 .. N
      BY <1>1
    <2> QED BY <1>3, <1>4, <2>1
  <1>7. w[N] = iter[1 .. N]
    BY <1>1 DEF w
  <1> QED BY <1>2, <1>5, <1>6, <1>7 DEF IsWalk, N

\* Wherever a step leads, there is a walk.
LEMMA WalkExists ==
    ASSUME NEW E, NEW seq \in Seq(E), NEW V, NEW base \in V, NEW step \in [E -> [V -> V]]
    PROVE  \E w : IsWalk(w, seq, V, base, step)
  <1> DEFINE N == Len(seq)
             F == [i \in 1 .. N |-> step[seq[i]]]
  <1>1. N \in Nat /\ \A i \in 1 .. N : seq[i] \in E
    BY LenProperties, ElementOfSeq
  <1> HIDE DEF N
  <1>2. \A i \in 1 .. N, v \in V : F[i][v] = step[seq[i]][v] /\ F[i][v] \in V
    BY <1>1
  <1> HIDE DEF F
  <1>3. PICK g : IsSeqFold(g, N, V, base, F)
    BY <1>1, <1>2, SeqFoldExists
  <1>4. /\ g[{}] = base
        /\ \A s \in SUBSET (1 .. N) : s # {} /\ g[s \ {Max(s)}] \in V =>
               g[s] = step[seq[Max(s)]][g[s \ {Max(s)}]]
    <2>1. \A s \in SUBSET (1 .. N) : s # {} => Max(s) \in 1 .. N
      BY <1>1, FirstNumbers
    <2> QED BY <1>2, <1>3, <2>1 DEF IsSeqFold
  <1>5. IsIter(g, seq, V, base, step)
    BY <1>4 DEF IsIter, N
  <1> QED BY <1>5, IterWalk

\* The first k elements of s and r are there and the same.
Alike(s, r, k) ==
    /\ k \in Nat /\ Len(s) \in Nat /\ Len(r) \in Nat
    /\ k <= Len(s) /\ k <= Len(r)
    /\ \A i \in 1 .. k : s[i] = r[i]

\* Walks over sequences that begin alike begin alike.
LEMMA WalksAgree ==
    ASSUME NEW s, NEW r, NEW k, Alike(s, r, k), NEW V, NEW base, NEW step,
           NEW w, IsWalk(w, s, V, base, step), NEW u, IsWalk(u, r, V, base, step)
    PROVE  w[k] = u[k]
  <1>0. /\ k \in Nat /\ Len(s) \in Nat /\ Len(r) \in Nat
        /\ k <= Len(s) /\ k <= Len(r)
        /\ \A i \in 1 .. k : s[i] = r[i]
    BY DEF Alike
  <1>1. /\ w[0] = base /\ \A n \in 1 .. Len(s) : w[n] = step[s[n]][w[n - 1]]
        /\ u[0] = base /\ \A n \in 1 .. Len(r) : u[n] = step[r[n]][u[n - 1]]
    BY DEF IsWalk
  <1> DEFINE G == {n \in Nat : n <= k => w[n] = u[n]}
  <1>2. 0 \in G
    BY <1>1
  <1>3. ASSUME NEW n \in Nat, n \in G PROVE n + 1 \in G
    <2> SUFFICES ASSUME n + 1 <= k PROVE w[n + 1] = u[n + 1]
      OBVIOUS
    <2>1. n + 1 \in 1 .. k /\ n + 1 \in 1 .. Len(s) /\ n + 1 \in 1 .. Len(r) /\ (n + 1) - 1 = n
      BY <1>0
    <2>2. w[n] = u[n] /\ s[n + 1] = r[n + 1]
      BY <1>0, <1>3, <2>1
    <2> QED BY <1>1, <2>1, <2>2
  <1> HIDE DEF G
  <1>4. \A n \in Nat : n \in G
    BY <1>2, <1>3, NatsAre
  <1> QED BY <1>0, <1>4 DEF G

\* The walk over T ends one step after that over what comes before the last of T.
LEMMA WalkLast ==
    ASSUME NEW S, Numbered(S), NEW T \in SUBSET S, NEW e, LastOf(e, T),
           NEW V, NEW base, NEW step,
           NEW w, IsWalk(w, Ordered(T), V, base, step),
           NEW u, IsWalk(u, Ordered(T \ {e}), V, base, step)
    PROVE  w[Len(Ordered(T))] = step[e][u[Len(Ordered(T \ {e}))]]
  <1> DEFINE N == Cardinality(T)
             s == Ordered(T)
             r == Ordered(T \ {e})
  <1>1. /\ N \in Nat \ {0} /\ Len(s) = N /\ Len(r) = N - 1
        /\ s[N] = e /\ \A n \in 1 .. N - 1 : s[n] = r[n]
    <2>1. Numbered(T) /\ Numbered(T \ {e})
      BY NumberedPart
    <2> QED BY <2>1, OrderedLast, OrderedSorts
  <1>2. /\ w[0] = base /\ \A n \in 1 .. N : w[n] = step[s[n]][w[n - 1]]
        /\ u[0] = base /\ \A n \in 1 .. N - 1 : u[n] = step[r[n]][u[n - 1]]
    BY <1>1 DEF IsWalk
  <1>3. w[N - 1] = u[N - 1]
    <2> HIDE DEF N, s, r
    <2>1. Alike(s, r, N - 1)
      BY <1>1 DEF Alike
    <2>2. IsWalk(w, s, V, base, step) /\ IsWalk(u, r, V, base, step)
      BY DEF s, r
    <2> QED BY <2>1, <2>2, WalksAgree
  <1> HIDE DEF N, s, r
  <1>4. w[N] = step[e][u[N - 1]]
    BY <1>1, <1>2, <1>3
  <1> QED BY <1>1, <1>4 DEF s, r

-----------------------------------------------------------------------------
(* Starts, ends and pairs.                                                  *)

PairStates(E) == [open : Seq(E), pairs : SUBSET [start : E, end : E], ends : SUBSET E]

NoPairs == [open |-> <<>>, pairs |-> {}, ends |-> {}]

InOrder(seq) == \A i, j \in 1 .. Len(seq) : i < j => Precedes(seq[i], seq[j])

\* The two edges of a convention differ.
LEMMA EdgesDiffer ==
    ASSUME NEW c \in Range(Conventions)
    PROVE  c.start # c.end
  BY DEF Range, Conventions

\* The first of some positions is one of them.
LEMMA FirstOfSome ==
    ASSUME NEW Q \in SUBSET Nat, Q # {}
    PROVE  Min(Q) \in Q /\ \A n \in Q : Min(Q) <= n
  <1>1. \E n \in Q : \A k \in Q : n <= k
    BY Least
  <1> QED BY <1>1 DEF Min

\* One element is taken out of a sequence.
LEMMA RemovedAt ==
    ASSUME NEW S, NEW seq \in Seq(S), NEW i \in 1 .. Len(seq)
    PROVE  LET r == RemoveAt(seq, i)
           IN  /\ r \in Seq(S)
               /\ Len(r) = Len(seq) - 1
               /\ \A n \in 1 .. Len(seq) - 1 : r[n] = IF n < i THEN seq[n] ELSE seq[n + 1]
  <1> DEFINE N == Len(seq)
             l == SubSeq(seq, 1, i - 1)
             h == SubSeq(seq, i + 1, N)
             r == RemoveAt(seq, i)
  <1>1. N \in Nat /\ \A n \in 1 .. N : seq[n] \in S
    BY LenProperties, ElementOfSeq
  <1>2. i \in 1 .. N
    OBVIOUS
  <1> HIDE DEF N
  <1>3. l \in Seq(S) /\ Len(l) = i - 1 /\ \A n \in 1 .. i - 1 : l[n] = seq[n]
    <2>1. 1 \in Int /\ i - 1 \in Int /\ \A n \in 1 .. i - 1 : seq[n] \in S
      BY <1>1, <1>2
    <2>2. /\ l \in Seq(S)
          /\ Len(l) = IF 1 <= i - 1 THEN i - 1 - 1 + 1 ELSE 0
          /\ \A n \in 1 .. i - 1 - 1 + 1 : l[n] = seq[1 + n - 1]
      BY <2>1, SubSeqProperties
    <2> QED BY <1>2, <2>2
  <1>4. h \in Seq(S) /\ Len(h) = N - i /\ \A n \in 1 .. N - i : h[n] = seq[i + n]
    <2>1. i + 1 \in Int /\ N \in Int /\ \A n \in i + 1 .. N : seq[n] \in S
      BY <1>1, <1>2
    <2>2. /\ h \in Seq(S)
          /\ Len(h) = IF i + 1 <= N THEN N - (i + 1) + 1 ELSE 0
          /\ \A n \in 1 .. N - (i + 1) + 1 : h[n] = seq[i + 1 + n - 1]
      BY <2>1, SubSeqProperties
    <2>3. \A n \in 1 .. N - i : n \in 1 .. N - (i + 1) + 1 /\ i + 1 + n - 1 = i + n
      BY <1>1, <1>2
    <2> QED BY <1>1, <1>2, <2>2, <2>3
  <1>5. r = l \o h
    BY DEF RemoveAt, N
  <1> HIDE DEF l, h, r
  <1>6. /\ r \in Seq(S) /\ Len(r) = Len(l) + Len(h)
        /\ \A n \in 1 .. Len(l) + Len(h) : r[n] = IF n <= Len(l) THEN l[n] ELSE h[n - Len(l)]
    BY <1>3, <1>4, <1>5, ConcatProperties
  <1>7. Len(l) + Len(h) = N - 1
    BY <1>1, <1>2, <1>3, <1>4
  <1>8. ASSUME NEW n \in 1 .. N - 1 PROVE r[n] = IF n < i THEN seq[n] ELSE seq[n + 1]
    <2>1. CASE n < i
      <3>1. n \in 1 .. i - 1 /\ n <= Len(l)
        BY <1>1, <1>2, <1>3, <2>1
      <3> QED BY <1>3, <1>6, <1>7, <2>1, <3>1
    <2>2. CASE ~(n < i)
      <3>1. n - (i - 1) \in 1 .. N - i /\ ~(n <= Len(l)) /\ i + (n - (i - 1)) = n + 1
        BY <1>1, <1>2, <1>3, <2>2
      <3>2. r[n] = h[n - (i - 1)]
        BY <1>3, <1>6, <1>7, <3>1
      <3>3. h[n - (i - 1)] = seq[i + (n - (i - 1))]
        BY <1>4, <3>1
      <3> QED BY <2>2, <3>1, <3>2, <3>3
    <2> QED BY <2>1, <2>2
  <1> QED BY <1>6, <1>7, <1>8 DEF N, r

\* What is left stays in order, and only that element is gone.
LEMMA RemovedInOrder ==
    ASSUME NEW S, Numbered(S), NEW seq \in Seq(S), InOrder(seq), NEW i \in 1 .. Len(seq)
    PROVE  /\ InOrder(RemoveAt(seq, i))
           /\ Range(RemoveAt(seq, i)) = Range(seq) \ {seq[i]}
  <1> DEFINE N == Len(seq)
             r == RemoveAt(seq, i)
  <1>1. N \in Nat /\ DOMAIN seq = 1 .. N /\ \A n \in 1 .. N : seq[n] \in S
    BY LenProperties, ElementOfSeq
  <1>2. /\ r \in Seq(S) /\ Len(r) = N - 1
        /\ \A n \in 1 .. N - 1 : r[n] = IF n < i THEN seq[n] ELSE seq[n + 1]
    BY RemovedAt
  <1>3. DOMAIN r = 1 .. N - 1
    BY <1>2, LenProperties
  <1>4. i \in 1 .. N /\ \A m, n \in 1 .. N : m < n => Precedes(seq[m], seq[n])
    BY DEF InOrder
  <1>5. \A m, n \in 1 .. N : m < n => seq[m] # seq[n]
    BY <1>1, <1>4, PrecedesOneWay
  <1> HIDE DEF N, r
  <1>6. InOrder(r)
    <2> SUFFICES ASSUME NEW m \in 1 .. N - 1, NEW n \in 1 .. N - 1, m < n
                 PROVE  Precedes(r[m], r[n])
      BY <1>2 DEF InOrder
    <2> DEFINE at == [k \in 1 .. N - 1 |-> IF k < i THEN k ELSE k + 1]
    <2>1. \A k \in 1 .. N - 1 : at[k] \in 1 .. N
      BY <1>1, <1>4
    <2>2. \A k \in 1 .. N - 1 : r[k] = seq[at[k]]
      BY <1>2
    <2>3. at[m] < at[n]
      BY <1>1, <1>4
    <2> HIDE DEF at
    <2> QED BY <1>4, <2>1, <2>2, <2>3
  <1>7. ASSUME NEW n \in 1 .. N - 1 PROVE r[n] \in Range(seq) /\ r[n] # seq[i]
    <2>1. CASE n < i
      <3>1. n \in 1 .. N
        BY <1>1
      <3> QED BY <1>1, <1>2, <1>4, <1>5, <2>1, <3>1 DEF Range
    <2>2. CASE ~(n < i)
      <3>1. n + 1 \in 1 .. N /\ i < n + 1
        BY <1>1, <1>4, <2>2
      <3> QED BY <1>1, <1>2, <1>4, <1>5, <2>2, <3>1 DEF Range
    <2> QED BY <2>1, <2>2
  <1>8. ASSUME NEW x \in Range(seq), x # seq[i] PROVE x \in Range(r)
    <2>1. PICK n \in 1 .. N : x = seq[n]
      BY <1>1 DEF Range
    <2>2. CASE n < i
      <3>1. n \in 1 .. N - 1
        BY <1>1, <1>4, <2>2
      <3> QED BY <1>2, <1>3, <2>1, <2>2, <3>1 DEF Range
    <2>3. CASE i < n
      <3>1. n - 1 \in 1 .. N - 1 /\ ~(n - 1 < i) /\ (n - 1) + 1 = n
        BY <1>1, <1>4, <2>3
      <3>2. r[n - 1] = x
        BY <1>2, <2>1, <3>1
      <3> QED BY <1>3, <3>1, <3>2 DEF Range
    <2> QED BY <1>1, <1>4, <1>8, <2>1, <2>2, <2>3
  <1>9. Range(r) = Range(seq) \ {seq[i]}
    BY <1>3, <1>7, <1>8 DEF Range
  <1> QED BY <1>6, <1>9 DEF r

\* An end closes the first of the open starts of its base.
Closed(s, open, e) ==
    /\ s \in open
    /\ SameScope(s, e)
    /\ \A r \in open \ {s} : SameScope(r, e) => Precedes(s, r)

\* What the event e makes of p, said of what is open as a set.
PairsAfter(P, p, e, c) ==
    \/ /\ e.type.edge = c.start
       /\ Range(P.open) = Range(p.open) \cup {e}
       /\ P.pairs = p.pairs /\ P.ends = p.ends
    \/ /\ e.type.edge = c.end
       /\ \A s \in Range(p.open) : ~SameScope(s, e)
       /\ Range(P.open) = Range(p.open)
       /\ P.pairs = p.pairs /\ P.ends = p.ends \cup {e}
    \/ /\ e.type.edge = c.end
       /\ \E s \in Range(p.open) :
              /\ Closed(s, Range(p.open), e)
              /\ Range(P.open) = Range(p.open) \ {s}
              /\ P.pairs = p.pairs \cup {[start |-> s, end |-> e]}
       /\ P.ends = p.ends
    \/ /\ e.type.edge \notin {c.start, c.end}
       /\ P = p

LEMMA PairStepIs ==
    ASSUME NEW S, Numbered(S), NEW c \in Range(Conventions), NEW p \in PairStates(S), NEW e \in S,
           InOrder(p.open), \A s \in Range(p.open) : Precedes(s, e)
    PROVE  LET P == PairStep(p, e, c)
           IN  InOrder(P.open) /\ PairsAfter(P, p, e, c)
  <1> DEFINE open == p.open
             N == Len(open)
             queue == {i \in DOMAIN open : SameScope(open[i], e)}
             first == Closes(queue)
             P == PairStep(p, e, c)
  <1>1. /\ open \in Seq(S) /\ N \in Nat /\ DOMAIN open = 1 .. N
        /\ \A n \in 1 .. N : open[n] \in S
    BY LenProperties, ElementOfSeq DEF PairStates
  <1>2. c.start # c.end
    BY EdgesDiffer
  <1>3. P = CASE e.type.edge = c.start -> [p EXCEPT !.open = Append(@, e)]
              [] e.type.edge = c.end /\ queue = {} -> [p EXCEPT !.ends = @ \cup {e}]
              [] e.type.edge = c.end /\ queue # {} ->
                     [p EXCEPT !.open = RemoveAt(@, first),
                               !.pairs = @ \cup {[start |-> open[first], end |-> e]}]
              [] OTHER -> p
    BY DEF PairStep
  <1>4. InOrder(open)
    OBVIOUS
  <1>5. \A n \in 1 .. N : n \in queue <=> SameScope(open[n], e)
    BY <1>1
  <1>6. queue \subseteq 1 .. N
    BY <1>1
  <1> HIDE DEF queue, first, P, N
  <1>7. CASE e.type.edge = c.start
    <2>1. P = [p EXCEPT !.open = Append(open, e)]
      BY <1>2, <1>3, <1>7
    <2>2. P.open = Append(open, e) /\ P.pairs = p.pairs /\ P.ends = p.ends
      BY <2>1 DEF PairStates
    <2>3. /\ Append(open, e) \in Seq(S) /\ Len(Append(open, e)) = N + 1
          /\ \A i \in 1 .. N : Append(open, e)[i] = open[i]
          /\ Append(open, e)[N + 1] = e
      BY <1>1, AppendProperties DEF N
    <2>4. DOMAIN P.open = 1 .. N + 1
      BY <2>2, <2>3, LenProperties
    <2>5. ASSUME NEW x PROVE x \in Range(P.open) <=> x \in Range(open) \cup {e}
      <3>1. ASSUME NEW i \in 1 .. N + 1 PROVE i \in 1 .. N \/ i = N + 1
        BY <1>1
      <3>2. \A i \in 1 .. N : i \in 1 .. N + 1
        BY <1>1
      <3>3. N + 1 \in 1 .. N + 1
        BY <1>1
      <3> QED BY <1>1, <2>2, <2>3, <2>4, <3>1, <3>2, <3>3 DEF Range
    <2>6. ASSUME NEW i \in 1 .. N + 1, NEW j \in 1 .. N + 1, i < j
          PROVE  Precedes(P.open[i], P.open[j])
      <3>1. i \in 1 .. N /\ (j \in 1 .. N \/ j = N + 1)
        BY <1>1, <2>6
      <3>2. CASE j \in 1 .. N
        BY <1>4, <2>2, <2>3, <2>6, <3>1, <3>2 DEF InOrder, N
      <3>3. CASE j = N + 1
        <4>1. open[i] \in Range(open)
          BY <1>1, <3>1 DEF Range
        <4> QED BY <2>2, <2>3, <3>1, <3>3, <4>1
      <3> QED BY <3>1, <3>2, <3>3
    <2>7. InOrder(P.open)
      BY <2>2, <2>3, <2>6 DEF InOrder
    <2> QED BY <1>7, <2>2, <2>5, <2>7 DEF PairsAfter, P
  <1>8. CASE e.type.edge = c.end /\ queue = {}
    <2>1. P = [p EXCEPT !.ends = @ \cup {e}]
      BY <1>2, <1>3, <1>8
    <2>2. P.open = open /\ P.pairs = p.pairs /\ P.ends = p.ends \cup {e}
      BY <2>1 DEF PairStates
    <2>3. \A s \in Range(open) : ~SameScope(s, e)
      BY <1>1, <1>5, <1>8 DEF Range
    <2> QED BY <1>4, <1>8, <2>2, <2>3 DEF PairsAfter, P
  <1>9. CASE e.type.edge = c.end /\ queue # {}
    <2>1. P = [p EXCEPT !.open = RemoveAt(open, first),
                        !.pairs = p.pairs \cup {[start |-> open[first], end |-> e]}]
      BY <1>2, <1>3, <1>9
    <2>2. /\ P.open = RemoveAt(open, first)
          /\ P.pairs = p.pairs \cup {[start |-> open[first], end |-> e]} /\ P.ends = p.ends
      BY <2>1 DEF PairStates
    <2>3. first \in queue /\ \A n \in queue : first <= n
      <3>1. queue \in SUBSET Nat
        BY <1>1, <1>6
      <3> QED BY <1>9, <3>1, FirstOfSome DEF first, Closes
    <2>4. first \in 1 .. N /\ SameScope(open[first], e)
      BY <1>5, <1>6, <2>3
    <2>5. InOrder(P.open) /\ Range(P.open) = Range(open) \ {open[first]}
      BY <1>1, <1>4, <2>2, <2>4, RemovedInOrder DEF N
    <2>6. Closed(open[first], Range(open), e)
      <3>1. open[first] \in Range(open)
        BY <1>1, <2>4 DEF Range
      <3>2. ASSUME NEW r \in Range(open) \ {open[first]}, SameScope(r, e)
            PROVE  Precedes(open[first], r)
        <4>1. PICK n \in 1 .. N : r = open[n]
          BY <1>1 DEF Range
        <4>2. n \in queue /\ n # first
          BY <1>5, <3>2, <4>1
        <4>3. first < n
          BY <1>1, <2>3, <2>4, <4>2
        <4> QED BY <1>4, <2>4, <4>1, <4>3 DEF InOrder, N
      <3> QED BY <2>4, <3>1, <3>2 DEF Closed
    <2>7. open[first] \in Range(open)
      BY <2>6 DEF Closed
    <2> QED BY <1>9, <2>2, <2>5, <2>6, <2>7 DEF PairsAfter, P
  <1>10. CASE e.type.edge \notin {c.start, c.end}
    <2>1. P = p
      BY <1>3, <1>10
    <2> QED BY <1>4, <1>10, <2>1 DEF PairsAfter, P
  <1> QED BY <1>7, <1>8, <1>9, <1>10

\* A round of pair_events has one of its states for a result.
LEMMA PairStepType ==
    ASSUME NEW S, NEW c \in Range(Conventions), NEW p \in PairStates(S), NEW e \in S
    PROVE  PairStep(p, e, c) \in PairStates(S)
  <1> DEFINE open == p.open
             queue == {i \in DOMAIN open : SameScope(open[i], e)}
             first == Closes(queue)
             P == PairStep(p, e, c)
  <1>1. /\ open \in Seq(S) /\ Len(open) \in Nat /\ DOMAIN open = 1 .. Len(open)
        /\ p.pairs \in SUBSET [start : S, end : S] /\ p.ends \in SUBSET S
    BY LenProperties DEF PairStates
  <1>2. \/ P = [p EXCEPT !.open = Append(open, e)]
        \/ P = [p EXCEPT !.ends = @ \cup {e}]
        \/ /\ queue # {}
           /\ P = [p EXCEPT !.open = RemoveAt(open, first),
                            !.pairs = p.pairs \cup {[start |-> open[first], end |-> e]}]
        \/ P = p
    BY EdgesDiffer DEF PairStep
  <1>3. queue \in SUBSET Nat /\ queue \subseteq 1 .. Len(open)
    BY <1>1
  <1>4. queue # {} => first \in queue
    BY <1>3, FirstOfSome DEF Closes
  <1> HIDE DEF queue, first, P
  <1>5. CASE P = [p EXCEPT !.open = Append(open, e)]
    <2>1. Append(open, e) \in Seq(S)
      BY <1>1, AppendProperties
    <2> QED BY <1>1, <1>5, <2>1 DEF PairStates, P
  <1>6. CASE P = [p EXCEPT !.ends = @ \cup {e}]
    BY <1>1, <1>6 DEF PairStates, P
  <1>7. CASE /\ queue # {}
             /\ P = [p EXCEPT !.open = RemoveAt(open, first),
                              !.pairs = p.pairs \cup {[start |-> open[first], end |-> e]}]
    <2>1. first \in 1 .. Len(open)
      BY <1>3, <1>4, <1>7
    <2>2. RemoveAt(open, first) \in Seq(S) /\ open[first] \in S
      BY <1>1, <2>1, RemovedAt, ElementOfSeq
    <2> DEFINE left == RemoveAt(open, first)
               made == p.pairs \cup {[start |-> open[first], end |-> e]}
    <2>3. left \in Seq(S) /\ made \in SUBSET [start : S, end : S]
      BY <1>1, <2>2
    <2>4. P = [p EXCEPT !.open = left, !.pairs = made]
      BY <1>7
    <2> HIDE DEF left, made
    <2> QED BY <1>1, <2>3, <2>4 DEF PairStates, P
  <1> QED BY <1>2, <1>5, <1>6, <1>7 DEF P

\* What pair_events makes of the events of a sequence.
PairFold(seq, c) == FoldLeft(LAMBDA p, e : PairStep(p, e, c), NoPairs, seq)

\* Pairing ends a walk too.
LEMMA PairWalk ==
    ASSUME NEW S, NEW seq \in Seq(S), NEW c \in Range(Conventions)
    PROVE  \E w : /\ IsWalk(w, seq, PairStates(S), NoPairs,
                            [e \in S |-> [v \in PairStates(S) |-> PairStep(v, e, c)]])
                  /\ w[Len(seq)] = PairFold(seq, c)
  <1> DEFINE V == PairStates(S)
             base == NoPairs
             N == Len(seq)
             step == [e \in S |-> [v \in V |-> PairStep(v, e, c)]]
             F == [i \in 1 .. N |-> step[seq[i]]]
             Body(g) == [s \in SUBSET DOMAIN seq |->
                            IF s = {} THEN base
                            ELSE PairStep(g[s \ {Max(s)}], seq[Max(s)], c)]
             iter == CHOOSE g : g = Body(g)
  <1>1. N \in Nat /\ DOMAIN seq = 1 .. N /\ \A i \in 1 .. N : seq[i] \in S
    BY LenProperties, ElementOfSeq
  <1>2. ASSUME NEW v \in V, NEW e \in S PROVE PairStep(v, e, c) \in V
    BY PairStepType
  <1>3. base \in V
    BY EmptySeq DEF PairStates, NoPairs
  <1> HIDE DEF V, base, N
  <1>4. step \in [S -> [V -> V]] /\ \A e \in S, v \in V : step[e][v] = PairStep(v, e, c)
    BY <1>2
  <1>5. \A i \in 1 .. N, v \in V : F[i][v] = PairStep(v, seq[i], c) /\ F[i][v] \in V
    BY <1>1, <1>4
  <1> HIDE DEF F, step
  <1>6. PICK g : IsSeqFold(g, N, V, base, F)
    BY <1>1, <1>3, <1>5, SeqFoldExists
  <1>7. g = Body(g)
    <2>1. /\ g \in [SUBSET (1 .. N) -> V]
          /\ \A s \in SUBSET (1 .. N) :
                 g[s] = IF s = {} THEN base ELSE F[Max(s)][g[s \ {Max(s)}]]
      BY <1>6 DEF IsSeqFold
    <2>2. ASSUME NEW s \in SUBSET (1 .. N), s # {}
          PROVE  g[s] = PairStep(g[s \ {Max(s)}], seq[Max(s)], c)
      <3>1. Max(s) \in 1 .. N /\ s \ {Max(s)} \in SUBSET (1 .. N)
        BY <1>1, <2>2, FirstNumbers
      <3> QED BY <1>5, <2>1, <2>2, <3>1
    <2> QED BY <1>1, <2>1, <2>2
  <1>8. iter = Body(iter)
    BY <1>7
  <1>9. PairFold(seq, c) = iter[1 .. N]
    BY <1>1 DEF PairFold, FoldLeft, MapThenFoldSet, base
  <1> HIDE DEF iter
  <1>10. iter[{}] = base
    BY <1>8
  <1>11. ASSUME NEW s \in SUBSET (1 .. N), s # {}, iter[s \ {Max(s)}] \in V
         PROVE  iter[s] = step[seq[Max(s)]][iter[s \ {Max(s)}]]
    <2>1. Max(s) \in 1 .. N
      BY <1>1, <1>11, FirstNumbers
    <2>2. iter[s] = PairStep(iter[s \ {Max(s)}], seq[Max(s)], c)
      BY <1>1, <1>8, <1>11
    <2> QED BY <1>1, <1>4, <1>11, <2>1, <2>2
  <1>12. \E w : IsWalk(w, seq, V, base, step) /\ w[N] = iter[1 .. N]
    <2>1. step \in [S -> [V -> V]]
      BY <1>4
    <2> HIDE DEF Body
    <2>2. IsIter(iter, seq, V, base, step)
      BY <1>10, <1>11 DEF IsIter, N
    <2> QED BY <1>3, <2>1, <2>2, IterWalk DEF N
  <1> QED BY <1>9, <1>12 DEF V, base, step, N

\* The last event is paired last.
LEMMA PairLast ==
    ASSUME NEW T, Numbered(T), NEW c \in Range(Conventions)
    PROVE  /\ PairEvents(T, c) \in PairStates(T)
           /\ T = {} => PairEvents(T, c) = NoPairs
           /\ \A e : LastOf(e, T) => PairEvents(T, c) = PairStep(PairEvents(T \ {e}, c), e, c)
  <1> DEFINE V == PairStates(T)
             step == [e \in T |-> [v \in V |-> PairStep(v, e, c)]]
  <1>1. ASSUME NEW U \in SUBSET T
        PROVE  \E w : IsWalk(w, Ordered(U), V, NoPairs, step) /\ w[Len(Ordered(U))] = PairEvents(U, c)
    <2>1. Numbered(U)
      BY NumberedPart
    <2>2. Ordered(U) \in Seq(U)
      BY <2>1, OrderedSorts
    <2>3. Ordered(U) \in Seq(T)
      BY <2>2, SeqMonotonic
    <2> QED BY <2>3, PairWalk DEF PairEvents, PairFold, NoPairs
  <1>2. ASSUME NEW U \in SUBSET T PROVE PairEvents(U, c) \in V /\ Len(Ordered(U)) \in Nat
    <2>1. PICK w : IsWalk(w, Ordered(U), V, NoPairs, step) /\ w[Len(Ordered(U))] = PairEvents(U, c)
      BY <1>1
    <2>2. Len(Ordered(U)) \in Nat
      BY NumberedPart, OrderedSorts, LenProperties
    <2> QED BY <2>1, <2>2 DEF IsWalk
  <1>3. ASSUME T = {} PROVE PairEvents(T, c) = NoPairs
    <2>1. PICK w : IsWalk(w, Ordered(T), V, NoPairs, step) /\ w[Len(Ordered(T))] = PairEvents(T, c)
      BY <1>1
    <2>2. Len(Ordered(T)) = 0
      BY <1>3, OrderedSorts, FS_EmptySet
    <2> QED BY <2>1, <2>2 DEF IsWalk
  <1>4. ASSUME NEW e, LastOf(e, T) PROVE PairEvents(T, c) = PairStep(PairEvents(T \ {e}, c), e, c)
    <2>1. PICK w : IsWalk(w, Ordered(T), V, NoPairs, step) /\ w[Len(Ordered(T))] = PairEvents(T, c)
      BY <1>1
    <2>2. T \ {e} \in SUBSET T /\ e \in T
      BY <1>4 DEF LastOf
    <2>3. PICK u : /\ IsWalk(u, Ordered(T \ {e}), V, NoPairs, step)
                   /\ u[Len(Ordered(T \ {e}))] = PairEvents(T \ {e}, c)
      BY <1>1, <2>2
    <2>4. PairEvents(T, c) = step[e][PairEvents(T \ {e}, c)]
      <3> HIDE DEF step, V
      <3> QED BY <1>4, <2>1, <2>3, WalkLast
    <2> QED BY <1>2, <2>2, <2>4
  <1> QED BY <1>2, <1>3, <1>4

Starts(T, c) == {e \in T : e.type.edge = c.start}
Ends(T, c) == {e \in T : e.type.edge = c.end}

\* What is open or was made of a pair, and what closed nothing: each start and end once,
\* first come first served within a base.
IsPairing(P, T, c) ==
    LET open == Range(P.open)
    IN  /\ Starts(T, c) = open \cup {q.start : q \in P.pairs}
        /\ Ends(T, c) = P.ends \cup {q.end : q \in P.pairs}
        /\ \A q \in P.pairs :
               /\ q.start \notin open /\ q.end \notin P.ends
               /\ Precedes(q.start, q.end) /\ SameScope(q.start, q.end)
        /\ \A q, r \in P.pairs : q.start = r.start \/ q.end = r.end => q = r
        /\ \A q, r \in P.pairs :
               SameScope(q.start, r.start) /\ Precedes(q.start, r.start) => Precedes(q.end, r.end)
        /\ \A q \in P.pairs, s \in open : SameScope(q.start, s) => Precedes(q.start, s)
        /\ \A s \in open, x \in P.ends : SameScope(s, x) => Precedes(x, s)

\* The last event keeps it so.
LEMMA PairingStep ==
    ASSUME NEW T, Numbered(T), NEW c \in Range(Conventions), NEW e, LastOf(e, T),
           NEW p \in PairStates(T \ {e}), IsPairing(p, T \ {e}, c),
           NEW P, PairsAfter(P, p, e, c)
    PROVE  IsPairing(P, T, c)
  <1> DEFINE U == T \ {e}
             open == Range(p.open)
  <1>1. e \in T /\ T = U \cup {e} /\ e \notin U
    BY DEF LastOf
  <1>2. \A f \in U : Precedes(f, e) /\ ~Precedes(e, f)
    BY <1>1, PrecedesOneWay DEF LastOf
  <1>3. c.start # c.end
    BY EdgesDiffer
  <1>4. /\ open \subseteq U /\ p.ends \subseteq U
        /\ \A q \in p.pairs : q.start \in U /\ q.end \in U
    <2>1. p.open \in Seq(U) /\ p.pairs \subseteq [start : U, end : U] /\ p.ends \subseteq U
      BY DEF PairStates
    <2>2. open \subseteq U
      BY <2>1, ElementOfSeq, LenProperties DEF Range
    <2> QED BY <2>1, <2>2
  <1>5. /\ Starts(T, c) = IF e.type.edge = c.start THEN Starts(U, c) \cup {e} ELSE Starts(U, c)
        /\ Ends(T, c) = IF e.type.edge = c.end THEN Ends(U, c) \cup {e} ELSE Ends(U, c)
    BY <1>1 DEF Starts, Ends
  <1>6. IsPairing(p, U, c)
    OBVIOUS
  <1> HIDE DEF U, open
  <1>7. CASE /\ e.type.edge = c.start
             /\ Range(P.open) = open \cup {e}
             /\ P.pairs = p.pairs /\ P.ends = p.ends
    <2>1. /\ Starts(T, c) = Range(P.open) \cup {q.start : q \in P.pairs}
          /\ Ends(T, c) = P.ends \cup {q.end : q \in P.pairs}
      BY <1>3, <1>5, <1>6, <1>7 DEF IsPairing, open
    <2>2. \A q \in P.pairs : q.start \notin Range(P.open) /\ q.end \notin P.ends
      BY <1>1, <1>4, <1>6, <1>7 DEF IsPairing, open
    <2>3. \A q \in P.pairs, s \in Range(P.open) :
              SameScope(q.start, s) => Precedes(q.start, s)
      BY <1>2, <1>4, <1>6, <1>7 DEF IsPairing, open
    <2>4. \A s \in Range(P.open), x \in P.ends : SameScope(s, x) => Precedes(x, s)
      BY <1>2, <1>4, <1>6, <1>7 DEF IsPairing, open
    <2> QED BY <1>6, <1>7, <2>1, <2>2, <2>3, <2>4 DEF IsPairing
  <1>8. CASE /\ e.type.edge = c.end
             /\ \A s \in open : ~SameScope(s, e)
             /\ Range(P.open) = open
             /\ P.pairs = p.pairs /\ P.ends = p.ends \cup {e}
    BY <1>1, <1>2, <1>3, <1>4, <1>5, <1>6, <1>8 DEF IsPairing, open
  <1>9. ASSUME NEW s \in open, e.type.edge = c.end, Closed(s, open, e), Range(P.open) = open \ {s},
               P.pairs = p.pairs \cup {[start |-> s, end |-> e]}, P.ends = p.ends
        PROVE  IsPairing(P, T, c)
    <2> DEFINE n == [start |-> s, end |-> e]
    <2>1. n.start = s /\ n.end = e /\ s \in U /\ P.pairs = p.pairs \cup {n}
      BY <1>4, <1>9
    <2>2. SameScope(s, e) /\ \A r \in open \ {s} : SameScope(r, s) => Precedes(s, r)
      BY <1>9 DEF Closed, SameScope
    <2> HIDE DEF n
    <2>3. Starts(T, c) = (open \ {s}) \cup {q.start : q \in P.pairs}
      BY <1>3, <1>5, <1>6, <1>9, <2>1 DEF IsPairing, open
    <2>4. Ends(T, c) = P.ends \cup {q.end : q \in P.pairs}
      BY <1>5, <1>6, <1>9, <2>1 DEF IsPairing
    <2>5. \A q \in P.pairs :
              /\ q.start \notin open \ {s} /\ q.end \notin P.ends
              /\ Precedes(q.start, q.end) /\ SameScope(q.start, q.end)
      BY <1>1, <1>2, <1>4, <1>6, <1>9, <2>1, <2>2 DEF IsPairing, open
    <2>6. \A q, r \in P.pairs : q.start = r.start \/ q.end = r.end => q = r
      BY <1>1, <1>4, <1>6, <1>9, <2>1 DEF IsPairing, open
    <2>7. ASSUME NEW q \in P.pairs, NEW r \in P.pairs,
                 SameScope(q.start, r.start), Precedes(q.start, r.start)
          PROVE  Precedes(q.end, r.end)
      <3>1. CASE q \in p.pairs /\ r \in p.pairs
        BY <1>6, <2>7, <3>1 DEF IsPairing
      <3>2. CASE q \in p.pairs /\ r = n
        BY <1>2, <1>4, <2>1, <3>2
      <3>3. CASE q = n /\ r \in p.pairs
        <4>1. Precedes(r.start, s)
          BY <1>6, <2>1, <2>7, <3>3 DEF IsPairing, SameScope, open
        <4>2. r.start \in T /\ s \in T
          BY <1>1, <1>4, <2>1, <3>3
        <4> QED BY <2>1, <2>7, <3>3, <4>1, <4>2, PrecedesOneWay
      <3>4. CASE q = n /\ r = n
        BY <1>1, <2>1, <2>7, <3>4, PrecedesOneWay
      <3> QED BY <2>1, <3>1, <3>2, <3>3, <3>4
    <2>8. \A q \in P.pairs, r \in open \ {s} : SameScope(q.start, r) => Precedes(q.start, r)
      BY <1>6, <2>1, <2>2 DEF IsPairing, SameScope, open
    <2>9. \A r \in open \ {s}, x \in P.ends : SameScope(r, x) => Precedes(x, r)
      BY <1>6, <1>9 DEF IsPairing, open
    <2> QED BY <1>9, <2>3, <2>4, <2>5, <2>6, <2>7, <2>8, <2>9 DEF IsPairing
  <1>10. CASE e.type.edge \notin {c.start, c.end} /\ P = p
    BY <1>5, <1>6, <1>10 DEF IsPairing
  <1> QED BY <1>7, <1>8, <1>9, <1>10 DEF PairsAfter, open

\* Pairing the events of T leads from what precedes its last to what IsPairing says.
LEMMA PairingIs ==
    ASSUME NEW S, Numbered(S), NEW c \in Range(Conventions)
    PROVE  \A T \in SUBSET S :
               /\ PairEvents(T, c) \in PairStates(T)
               /\ InOrder(PairEvents(T, c).open)
               /\ IsPairing(PairEvents(T, c), T, c)
               /\ T = {} => PairEvents(T, c) = NoPairs
               /\ \A e : LastOf(e, T) =>
                      PairsAfter(PairEvents(T, c), PairEvents(T \ {e}, c), e, c)
  <1> DEFINE Is(T) == /\ InOrder(PairEvents(T, c).open)
                      /\ IsPairing(PairEvents(T, c), T, c)
                      /\ \A e : LastOf(e, T) =>
                             PairsAfter(PairEvents(T, c), PairEvents(T \ {e}, c), e, c)
             G == {T \in SUBSET S : Is(T)}
  <1>1. ASSUME NEW T \in SUBSET S
        PROVE  /\ Numbered(T)
               /\ PairEvents(T, c) \in PairStates(T)
               /\ T = {} => PairEvents(T, c) = NoPairs
    BY NumberedPart, PairLast
  <1>2. ASSUME NEW T \in SUBSET S, \A x \in T : T \ {x} \in G PROVE T \in G
    <2>1. CASE T = {}
      <3>1. PairEvents(T, c) = NoPairs /\ Starts(T, c) = {} /\ Ends(T, c) = {}
        BY <1>1, <2>1 DEF Starts, Ends
      <3>2. InOrder(NoPairs.open) /\ NoPairs.open = <<>> /\ NoPairs.pairs = {} /\ NoPairs.ends = {}
        BY DEF NoPairs, InOrder
      <3>3. Range(NoPairs.open) = {}
        BY <3>2 DEF Range
      <3>4. IsPairing(PairEvents(T, c), T, c)
        BY <3>1, <3>2, <3>3 DEF IsPairing
      <3>5. \A e : ~LastOf(e, T)
        BY <2>1 DEF LastOf
      <3> QED BY <3>1, <3>2, <3>4, <3>5
    <2>2. ASSUME NEW e, LastOf(e, T)
          PROVE  /\ PairsAfter(PairEvents(T, c), PairEvents(T \ {e}, c), e, c)
                 /\ InOrder(PairEvents(T, c).open)
                 /\ IsPairing(PairEvents(T, c), T, c)
      <3> DEFINE U == T \ {e}
                 p == PairEvents(U, c)
                 P == PairEvents(T, c)
      <3>1. e \in T /\ U \in SUBSET S /\ U \in SUBSET T
        BY <2>2 DEF LastOf
      <3>2. Is(U) /\ Numbered(T)
        BY <1>1, <1>2, <3>1
      <3>3. p \in PairStates(U)
        BY <1>1, <3>1
      <3>4. P = PairStep(p, e, c)
        BY <1>1, <2>2, PairLast
      <3>5. InOrder(p.open) /\ IsPairing(p, U, c)
        BY <3>2
      <3>6. \A s \in Range(p.open) : s \in U /\ Precedes(s, e)
        <4>1. p.open \in Seq(U)
          BY <3>3 DEF PairStates
        <4> HIDE DEF p
        <4>2. \A s \in Range(p.open) : s \in U
          BY <4>1, LenProperties, ElementOfSeq DEF Range
        <4> QED BY <2>2, <4>2 DEF LastOf
      <3>7. p \in PairStates(T)
        <4>1. p.open \in Seq(T)
          BY <3>1, <3>3, SeqMonotonic DEF PairStates
        <4>2. /\ p = [open |-> p.open, pairs |-> p.pairs, ends |-> p.ends]
              /\ p.pairs \in SUBSET [start : U, end : U] /\ p.ends \in SUBSET U
          BY <3>3 DEF PairStates
        <4>3. p.pairs \in SUBSET [start : T, end : T] /\ p.ends \in SUBSET T
          BY <3>1, <4>2
        <4> HIDE DEF p
        <4> QED BY <4>1, <4>2, <4>3 DEF PairStates
      <3> HIDE DEF p, P
      <3>8. InOrder(P.open) /\ PairsAfter(P, p, e, c)
        BY <3>1, <3>2, <3>4, <3>5, <3>6, <3>7, PairStepIs
      <3>9. IsPairing(P, T, c)
        BY <2>2, <3>2, <3>3, <3>5, <3>8, PairingStep
      <3> QED BY <3>8, <3>9 DEF p, P
    <2>3. T # {} => \E e \in T : LastOf(e, T)
      BY <1>1, LastExists
    <2> QED BY <2>1, <2>2, <2>3
  <1> HIDE DEF G, Is
  <1>3. IsFiniteSet(S)
    BY DEF Numbered
  <1>4. \A T \in SUBSET S : T \in G
    BY <1>2, <1>3, PartsAre
  <1> QED BY <1>1, <1>4 DEF G, Is

\* What is told apart is counted.
LEMMA ImageCounts ==
    ASSUME NEW S, NEW T, IsFiniteSet(T), NEW f \in [S -> T],
           \A x, y \in S : f[x] = f[y] => x = y
    PROVE  /\ IsFiniteSet(S) /\ IsFiniteSet(Range(f))
           /\ Cardinality(S) \in Nat
           /\ Cardinality(Range(f)) = Cardinality(S)
  <1> DEFINE U == Range(f)
  <1>1. f \in Injection(S, T)
    BY DEF Injection, IsInjective
  <1>2. IsFiniteSet(S)
    BY <1>1, FS_Injection
  <1>3. f \in Surjection(S, U) /\ f \in Injection(S, U)
    BY DEF Surjection, Injection, IsInjective, Range
  <1> HIDE DEF U
  <1>4. IsFiniteSet(U) /\ Cardinality(U) = Cardinality(S)
    BY <1>2, <1>3, FS_Surjection
  <1> QED BY <1>2, <1>4, FS_CardinalityType DEF U

\* A set in two parts.
LEMMA TwoParts ==
    ASSUME NEW A, NEW B, IsFiniteSet(A), IsFiniteSet(B), A \cap B = {}
    PROVE  /\ IsFiniteSet(A \cup B)
           /\ Cardinality(A \cup B) = Cardinality(A) + Cardinality(B)
           /\ Cardinality(A) \in Nat /\ Cardinality(B) \in Nat
  <1>1. /\ IsFiniteSet(A \cup B)
        /\ Cardinality(A \cup B) = Cardinality(A) + Cardinality(B) - Cardinality(A \cap B)
    BY FS_Union
  <1>2. Cardinality(A \cap B) = 0
    BY FS_EmptySet
  <1>3. Cardinality(A) \in Nat /\ Cardinality(B) \in Nat
    BY FS_CardinalityType
  <1> QED BY <1>1, <1>2, <1>3

\* A sequence in order has each of its elements once.
LEMMA InOrderCounts ==
    ASSUME NEW S, Numbered(S), NEW seq \in Seq(S), InOrder(seq)
    PROVE  IsFiniteSet(Range(seq)) /\ Cardinality(Range(seq)) = Len(seq)
  <1> DEFINE N == Len(seq)
  <1>1. N \in Nat /\ DOMAIN seq = 1 .. N /\ \A n \in 1 .. N : seq[n] \in S
    BY LenProperties, ElementOfSeq
  <1>2. \A i, j \in 1 .. N : i < j => seq[i] # seq[j]
    BY <1>1, PrecedesOneWay DEF InOrder
  <1> HIDE DEF N
  <1>3. \A i, j \in 1 .. N : seq[i] = seq[j] => i = j
    BY <1>1, <1>2
  <1>4. seq \in [1 .. N -> S] /\ IsFiniteSet(S)
    BY <1>1 DEF Numbered
  <1>5. IsFiniteSet(Range(seq)) /\ Cardinality(Range(seq)) = Cardinality(1 .. N)
    BY <1>3, <1>4, ImageCounts
  <1>6. Cardinality(1 .. N) = N
    <2>1. 1 \in Int /\ N \in Int /\ (IF 1 > N THEN 0 ELSE N - 1 + 1) = N
      BY <1>1
    <2> QED BY <2>1, FS_Interval
  <1> QED BY <1>5, <1>6 DEF N

\* Every start is in a pair or open, every end in a pair or unmatched, and none twice.
LEMMA PairingCounts ==
    ASSUME NEW T, Numbered(T), NEW c \in Range(Conventions)
    PROVE  LET p == PairEvents(T, c)
           IN  /\ IsFiniteSet(p.pairs) /\ Cardinality(p.pairs) \in Nat
               /\ Len(p.open) \in Nat /\ Cardinality(p.ends) \in Nat
               /\ Cardinality(Starts(T, c)) = Len(p.open) + Cardinality(p.pairs)
               /\ Cardinality(Ends(T, c)) = Cardinality(p.ends) + Cardinality(p.pairs)
  <1> DEFINE p == PairEvents(T, c)
             startOf == [q \in p.pairs |-> q.start]
             endOf == [q \in p.pairs |-> q.end]
  <1>1. p \in PairStates(T) /\ InOrder(p.open) /\ IsPairing(p, T, c)
    BY PairingIs
  <1> HIDE DEF p
  <1>2. IsFiniteSet(T)
    BY DEF Numbered
  <1>3. /\ p.open \in Seq(T) /\ p.ends \in SUBSET T
        /\ \A q \in p.pairs : q.start \in T /\ q.end \in T
    BY <1>1 DEF PairStates
  <1>4. /\ IsFiniteSet(p.pairs) /\ Cardinality(p.pairs) \in Nat
        /\ IsFiniteSet(Range(startOf))
        /\ Cardinality(Range(startOf)) = Cardinality(p.pairs)
    <2>1. startOf \in [p.pairs -> T] /\ \A q, r \in p.pairs : startOf[q] = startOf[r] => q = r
      BY <1>1, <1>3 DEF IsPairing
    <2> HIDE DEF startOf
    <2> QED BY <1>2, <2>1, ImageCounts
  <1>5. /\ IsFiniteSet(Range(endOf))
        /\ Cardinality(Range(endOf)) = Cardinality(p.pairs)
    <2>1. endOf \in [p.pairs -> T] /\ \A q, r \in p.pairs : endOf[q] = endOf[r] => q = r
      BY <1>1, <1>3 DEF IsPairing
    <2> HIDE DEF endOf
    <2> QED BY <1>2, <2>1, ImageCounts
  <1>6. IsFiniteSet(Range(p.open)) /\ Cardinality(Range(p.open)) = Len(p.open)
    BY <1>1, <1>3, InOrderCounts
  <1>7. IsFiniteSet(p.ends)
    BY <1>2, <1>3, FS_Subset
  <1>8. /\ Starts(T, c) = Range(p.open) \cup Range(startOf)
        /\ Range(p.open) \cap Range(startOf) = {}
        /\ Ends(T, c) = p.ends \cup Range(endOf)
        /\ p.ends \cap Range(endOf) = {}
    <2>1. /\ Range(startOf) = {q.start : q \in p.pairs}
          /\ Range(endOf) = {q.end : q \in p.pairs}
      BY DEF Range
    <2> HIDE DEF startOf, endOf
    <2> QED BY <1>1, <2>1 DEF IsPairing
  <1> HIDE DEF startOf, endOf
  <1>9. /\ Cardinality(Starts(T, c)) = Len(p.open) + Cardinality(p.pairs)
        /\ Cardinality(Ends(T, c)) = Cardinality(p.ends) + Cardinality(p.pairs)
        /\ Cardinality(p.ends) \in Nat
    <2>1. Cardinality(Starts(T, c)) = Cardinality(Range(p.open)) + Cardinality(Range(startOf))
      BY <1>4, <1>6, <1>8, TwoParts
    <2>2. /\ Cardinality(Ends(T, c)) = Cardinality(p.ends) + Cardinality(Range(endOf))
          /\ Cardinality(p.ends) \in Nat
      BY <1>5, <1>7, <1>8, TwoParts
    <2> QED BY <1>4, <1>5, <1>6, <2>1, <2>2
  <1>10. Len(p.open) \in Nat
    BY <1>3, LenProperties
  <1> QED BY <1>4, <1>9, <1>10 DEF p

OfBase(T, b) == {e \in T : e.type.base = b}
Before(T, t) == {e \in T : e.time < t}

\* Bases have no say in each other's pairs.
LEMMA PairsOfBase ==
    ASSUME NEW S, Numbered(S), NEW c \in Range(Conventions), NEW b
    PROVE  PairEvents(OfBase(S, b), c).pairs =
               {q \in PairEvents(S, c).pairs : q.start.type.base = b}
  <1> DEFINE opened(T) == Range(PairEvents(T, c).open)
             pairs(T) == PairEvents(T, c).pairs
             Is(T) == /\ opened(OfBase(T, b)) = {s \in opened(T) : s.type.base = b}
                      /\ pairs(OfBase(T, b)) = {q \in pairs(T) : q.start.type.base = b}
             G == {T \in SUBSET S : Is(T)}
  <1>1. ASSUME NEW T \in SUBSET S
        PROVE  /\ Numbered(T)
               /\ opened(T) \subseteq T /\ \A q \in pairs(T) : q.start \in T
               /\ T = {} => opened(T) = {} /\ pairs(T) = {}
    <2> DEFINE p == PairEvents(T, c)
    <2>1. p \in PairStates(T) /\ (T = {} => p = NoPairs)
      BY PairingIs
    <2> HIDE DEF p
    <2>2. p.open \in Seq(T) /\ p.pairs \subseteq [start : T, end : T]
      BY <2>1 DEF PairStates
    <2>3. Range(p.open) \subseteq T
      BY <2>2, ElementOfSeq, LenProperties DEF Range
    <2>4. T = {} => Range(p.open) = {} /\ p.pairs = {}
      BY <2>1 DEF NoPairs, Range
    <2> QED BY <2>2, <2>3, <2>4, NumberedPart DEF p
  <1>2. ASSUME NEW T \in SUBSET S, NEW e, LastOf(e, T)
        PROVE  \/ /\ e.type.edge = c.start
                  /\ opened(T) = opened(T \ {e}) \cup {e} /\ pairs(T) = pairs(T \ {e})
               \/ /\ e.type.edge = c.end
                  /\ \A s \in opened(T \ {e}) : ~SameScope(s, e)
                  /\ opened(T) = opened(T \ {e}) /\ pairs(T) = pairs(T \ {e})
               \/ /\ e.type.edge = c.end
                  /\ \E s \in opened(T \ {e}) :
                         /\ Closed(s, opened(T \ {e}), e)
                         /\ opened(T) = opened(T \ {e}) \ {s}
                         /\ pairs(T) = pairs(T \ {e}) \cup {[start |-> s, end |-> e]}
               \/ /\ e.type.edge \notin {c.start, c.end}
                  /\ opened(T) = opened(T \ {e}) /\ pairs(T) = pairs(T \ {e})
    <2>1. PairsAfter(PairEvents(T, c), PairEvents(T \ {e}, c), e, c)
      BY <1>2, PairingIs
    <2> QED BY <2>1 DEF PairsAfter
  <1>3. c.start # c.end
    BY EdgesDiffer
  <1> HIDE DEF opened, pairs
  <1>4. ASSUME NEW T \in SUBSET S, \A x \in T : T \ {x} \in G PROVE T \in G
    <2>1. CASE T = {}
      <3>1. OfBase(T, b) = {} /\ {} \in SUBSET S
        BY <2>1 DEF OfBase
      <3> QED BY <1>1, <2>1, <3>1
    <2>2. CASE T # {}
      <3>1. PICK e \in T : LastOf(e, T)
        BY <1>1, <2>2, LastExists
      <3> DEFINE U == T \ {e}
      <3>2. Is(U) /\ U \in SUBSET S
        BY <1>4, <3>1
      <3>3. \A f \in U : Precedes(f, e)
        BY <3>1 DEF LastOf
      <3>4. CASE e.type.base # b
        <4>1. OfBase(T, b) = OfBase(U, b)
          BY <3>4 DEF OfBase
        <4>2. \A s \in opened(U) : SameScope(s, e) => s.type.base # b
          BY <3>4 DEF SameScope
        <4>3. {s \in opened(T) : s.type.base = b} = {s \in opened(U) : s.type.base = b}
          BY <1>2, <3>1, <3>4, <4>2 DEF Closed
        <4>4. {q \in pairs(T) : q.start.type.base = b} = {q \in pairs(U) : q.start.type.base = b}
          BY <1>2, <3>1, <4>2 DEF Closed
        <4> QED BY <3>2, <4>1, <4>3, <4>4
      <3>5. CASE e.type.base = b
        <4> DEFINE V == OfBase(T, b)
                   W == OfBase(U, b)
        <4>1. V \in SUBSET S /\ e \in V /\ V \ {e} = W
          BY <3>1, <3>5 DEF OfBase
        <4>2. LastOf(e, V)
          BY <3>3, <4>1 DEF LastOf, OfBase
        <4>3. /\ opened(W) = {s \in opened(U) : s.type.base = b}
              /\ pairs(W) = {q \in pairs(U) : q.start.type.base = b}
          BY <3>2
        <4>4. /\ \A s \in opened(U) : SameScope(s, e) <=> s.type.base = b
              /\ \A s \in opened(W) : SameScope(s, e)
          BY <3>5, <4>3 DEF SameScope
        <4> HIDE DEF V, W, U
        <4>5. CASE e.type.edge = c.start
          <5>1. /\ opened(T) = opened(U) \cup {e} /\ pairs(T) = pairs(U)
                /\ opened(V) = opened(W) \cup {e} /\ pairs(V) = pairs(W)
            BY <1>2, <1>3, <3>1, <4>1, <4>2, <4>5 DEF U
          <5> QED BY <3>5, <4>3, <5>1 DEF V
        <4>6. CASE e.type.edge = c.end /\ \A s \in opened(U) : ~SameScope(s, e)
          <5>1. opened(W) = {}
            BY <4>3, <4>4, <4>6
          <5>2. opened(T) = opened(U) /\ pairs(T) = pairs(U)
            BY <1>2, <1>3, <3>1, <4>6 DEF Closed, U
          <5>3. opened(V) = opened(W) /\ pairs(V) = pairs(W)
            BY <1>2, <1>3, <4>1, <4>2, <4>6, <5>1 DEF Closed
          <5> QED BY <4>3, <5>2, <5>3 DEF V
        <4>7. CASE e.type.edge = c.end /\ \E s \in opened(U) : SameScope(s, e)
          <5>1. PICK s \in opened(U) :
                    /\ Closed(s, opened(U), e)
                    /\ opened(T) = opened(U) \ {s}
                    /\ pairs(T) = pairs(U) \cup {[start |-> s, end |-> e]}
            BY <1>2, <1>3, <3>1, <4>7 DEF U
          <5>2. \E x \in opened(W) : SameScope(x, e)
            BY <4>3, <4>4, <4>7
          <5>3. PICK r \in opened(W) :
                    /\ Closed(r, opened(W), e)
                    /\ opened(V) = opened(W) \ {r}
                    /\ pairs(V) = pairs(W) \cup {[start |-> r, end |-> e]}
            BY <1>2, <1>3, <4>1, <4>2, <4>7, <5>2
          <5>4. s \in opened(W) /\ s.type.base = b
            BY <4>3, <4>4, <5>1 DEF Closed
          <5>5. r = s
            <6>1. r \in opened(U) /\ SameScope(r, e) /\ SameScope(s, e)
              BY <4>3, <4>4, <5>1, <5>3 DEF Closed
            <6>2. r # s => Precedes(s, r) /\ Precedes(r, s)
              BY <5>1, <5>3, <5>4, <6>1 DEF Closed
            <6>3. r \in S /\ s \in S
              BY <1>1, <3>2, <5>1, <6>1 DEF U
            <6> QED BY <6>2, <6>3, PrecedesOneWay
          <5>6. opened(V) = {x \in opened(T) : x.type.base = b}
            BY <4>3, <5>1, <5>3, <5>5
          <5>7. pairs(V) = {q \in pairs(T) : q.start.type.base = b}
            BY <4>3, <5>1, <5>3, <5>4, <5>5
          <5> QED BY <5>6, <5>7 DEF V
        <4>8. CASE e.type.edge \notin {c.start, c.end}
          <5>1. /\ opened(T) = opened(U) /\ pairs(T) = pairs(U)
                /\ opened(V) = opened(W) /\ pairs(V) = pairs(W)
            BY <1>2, <3>1, <4>1, <4>2, <4>8 DEF U
          <5> QED BY <4>3, <5>1 DEF V
        <4> QED BY <4>5, <4>6, <4>7, <4>8
      <3> QED BY <3>4, <3>5
    <2> QED BY <2>1, <2>2
  <1> HIDE DEF G, Is
  <1>5. IsFiniteSet(S)
    BY DEF Numbered
  <1>6. S \in G
    BY <1>4, <1>5, PartsAre
  <1> QED BY <1>6 DEF G, Is, pairs

\* The pairs that ended before a moment are those of what came before it.
LEMMA PairsBefore ==
    ASSUME NEW S, Numbered(S), NEW c \in Range(Conventions), NEW t \in Nat
    PROVE  PairEvents(Before(S, t), c).pairs = {q \in PairEvents(S, c).pairs : q.end.time < t}
  <1> DEFINE pairs(T) == PairEvents(T, c).pairs
             Is(T) == pairs(Before(T, t)) = {q \in pairs(T) : q.end.time < t}
             G == {T \in SUBSET S : Is(T)}
  <1>1. ASSUME NEW T \in SUBSET S
        PROVE  /\ Numbered(T)
               /\ \A q \in pairs(T) : q.end \in T
               /\ T = {} => pairs(T) = {}
    <2> DEFINE p == PairEvents(T, c)
    <2>1. p \in PairStates(T) /\ (T = {} => p = NoPairs)
      BY PairingIs
    <2> HIDE DEF p
    <2>2. p.pairs \subseteq [start : T, end : T] /\ (T = {} => p.pairs = {})
      BY <2>1 DEF PairStates, NoPairs
    <2> QED BY <2>2, NumberedPart DEF p
  <1>2. ASSUME NEW T \in SUBSET S, NEW e, LastOf(e, T)
        PROVE  \/ pairs(T) = pairs(T \ {e})
               \/ \E s : pairs(T) = pairs(T \ {e}) \cup {[start |-> s, end |-> e]}
    <2>1. PairsAfter(PairEvents(T, c), PairEvents(T \ {e}, c), e, c)
      BY <1>2, PairingIs
    <2> QED BY <2>1 DEF PairsAfter
  <1> HIDE DEF pairs
  <1>3. ASSUME NEW T \in SUBSET S, \A x \in T : T \ {x} \in G PROVE T \in G
    <2>1. CASE T = {}
      <3>1. Before(T, t) = {} /\ {} \in SUBSET S
        BY <2>1 DEF Before
      <3> QED BY <1>1, <2>1, <3>1
    <2>2. CASE T # {}
      <3>1. PICK e \in T : LastOf(e, T)
        BY <1>1, <2>2, LastExists
      <3>2. \A f \in T : f.time \in Nat
        BY DEF Numbered
      <3>3. CASE e.time < t
        <4>1. \A f \in T : f.time < t
          BY <3>1, <3>2, <3>3 DEF LastOf, Precedes
        <4>2. Before(T, t) = T
          BY <4>1 DEF Before
        <4> QED BY <1>1, <4>1, <4>2
      <3>4. CASE ~(e.time < t)
        <4>1. Before(T, t) = Before(T \ {e}, t)
          BY <3>4 DEF Before
        <4>2. Is(T \ {e})
          BY <1>3, <3>1
        <4>3. {q \in pairs(T) : q.end.time < t} = {q \in pairs(T \ {e}) : q.end.time < t}
          BY <1>2, <3>1, <3>4
        <4> QED BY <4>1, <4>2, <4>3
      <3> QED BY <3>3, <3>4
    <2> QED BY <2>1, <2>2
  <1> HIDE DEF G, Is
  <1>4. IsFiniteSet(S)
    BY DEF Numbered
  <1>5. \A T \in SUBSET S : T \in G
    BY <1>3, <1>4, PartsAre
  <1> QED BY <1>5 DEF G, Is, pairs

-----------------------------------------------------------------------------
(* Sums.                                                                    *)

\* sum[s] is the sum of the numbers f[x] of the elements x of s, taken in any order.
IsSum(sum, S, f) ==
    /\ sum \in [SUBSET S -> Int]
    /\ sum[{}] = 0
    /\ \A s \in SUBSET S : \A x \in s : sum[s] = f[x] + sum[s \ {x}]

\* v is the sum over all of S.
SumIs(v, S, f) == \E sum : IsSum(sum, S, f) /\ v = sum[S]

\* A fold that adds is a sum, whatever it takes first.
LEMMA FoldSums ==
    ASSUME NEW S, IsFiniteSet(S), NEW f \in [S -> Int],
           NEW pick, \A s \in SUBSET S : s # {} => pick[s] \in s,
           NEW g \in [SUBSET S -> Int],
           \A s \in SUBSET S :
               g[s] = IF s = {} THEN 0 ELSE f[pick[s]] + g[s \ {pick[s]}]
    PROVE  IsSum(g, S, f)
  <1> DEFINE G == {s \in SUBSET S : \A x \in s : g[s] = f[x] + g[s \ {x}]}
  <1>1. ASSUME NEW s \in SUBSET S, \A x \in s : s \ {x} \in G PROVE s \in G
    <2> SUFFICES ASSUME NEW x \in s PROVE g[s] = f[x] + g[s \ {x}]
      OBVIOUS
    <2> DEFINE y == pick[s]
    <2>1. y \in s /\ g[s] = f[y] + g[s \ {y}]
      OBVIOUS
    <2> HIDE DEF y
    <2>2. CASE x = y
      BY <2>1, <2>2
    <2>3. CASE x # y
      <3> DEFINE r == (s \ {y}) \ {x}
      <3>1. /\ x \in s \ {y} /\ y \in s \ {x}
            /\ r = (s \ {x}) \ {y}
            /\ s \ {y} \in G /\ s \ {x} \in G /\ r \in SUBSET S
        BY <1>1, <2>1, <2>3
      <3>2. g[s \ {y}] = f[x] + g[r]
        BY <3>1
      <3>3. g[s \ {x}] = f[y] + g[r]
        BY <3>1
      <3>4. f[x] \in Int /\ f[y] \in Int /\ g[r] \in Int
        BY <2>1, <3>1
      <3> HIDE DEF r, G
      <3> QED BY <2>1, <3>2, <3>3, <3>4
    <2> QED BY <2>2, <2>3
  <1> HIDE DEF G
  <1>2. \A s \in SUBSET S : s \in G
    BY <1>1, PartsAre
  <1>3. g[{}] = 0
    OBVIOUS
  <1> QED BY <1>2, <1>3 DEF IsSum, G

\* A fold that adds what f says of each element.
IsSumFold(iter, S, f, pick) ==
    iter = [s \in SUBSET S |-> IF s = {} THEN 0 ELSE f[pick[s]] + iter[s \ {pick[s]}]]

LEMMA SumFoldExists ==
    ASSUME NEW S, IsFiniteSet(S), NEW f \in [S -> Int],
           NEW pick, \A s \in SUBSET S : s # {} => pick[s] \in s
    PROVE  \E iter : IsSumFold(iter, S, f, pick)
  <1> DEFINE F == [x \in S |-> [v \in Int |-> f[x] + v]]
  <1>1. \A x \in S, v \in Int : F[x][v] = f[x] + v /\ F[x][v] \in Int
    OBVIOUS
  <1> HIDE DEF F
  <1>2. PICK g : IsFold(g, S, pick, Int, 0, F)
    <2>1. 0 \in Int /\ \A x \in S, v \in Int : F[x][v] \in Int
      BY <1>1
    <2> QED BY <2>1, FoldExists
  <1>3. g \in [SUBSET S -> Int]
        /\ \A s \in SUBSET S : g[s] = IF s = {} THEN 0 ELSE F[pick[s]][g[s \ {pick[s]}]]
    BY <1>2 DEF IsFold
  <1>4. ASSUME NEW s \in SUBSET S
        PROVE  g[s] = IF s = {} THEN 0 ELSE f[pick[s]] + g[s \ {pick[s]}]
    <2>1. s # {} => pick[s] \in S /\ s \ {pick[s]} \in SUBSET S
      OBVIOUS
    <2> QED BY <1>1, <1>3, <2>1
  <1>5. g = [s \in SUBSET S |-> g[s]]
    BY <1>3
  <1>6. IsSumFold(g, S, f, pick)
    BY <1>4, <1>5 DEF IsSumFold
  <1> QED BY <1>6

LEMMA SumFoldType ==
    ASSUME NEW S, IsFiniteSet(S), NEW f \in [S -> Int],
           NEW pick, \A s \in SUBSET S : s # {} => pick[s] \in s,
           NEW iter, IsSumFold(iter, S, f, pick)
    PROVE  iter \in [SUBSET S -> Int]
  <1> DEFINE G == {s \in SUBSET S : iter[s] \in Int}
  <1>1. \A s \in SUBSET S : iter[s] = IF s = {} THEN 0 ELSE f[pick[s]] + iter[s \ {pick[s]}]
    BY DEF IsSumFold
  <1>2. ASSUME NEW s \in SUBSET S, \A x \in s : s \ {x} \in G PROVE s \in G
    <2>1. iter[s] = IF s = {} THEN 0 ELSE f[pick[s]] + iter[s \ {pick[s]}]
      BY <1>1
    <2>2. s # {} => f[pick[s]] \in Int /\ iter[s \ {pick[s]}] \in Int
      BY <1>2
    <2>3. iter[s] \in Int
      BY <2>1, <2>2
    <2> QED BY <2>3
  <1> HIDE DEF G
  <1>3. \A s \in SUBSET S : s \in G
    BY <1>2, PartsAre
  <1>4. iter \in [SUBSET S -> Int]
    <2>1. iter = [s \in SUBSET S |-> iter[s]]
      BY DEF IsSumFold
    <2>2. \A s \in SUBSET S : iter[s] \in Int
      BY <1>3 DEF G
    <2> QED BY <2>1, <2>2
  <1> QED BY <1>4

LEMMA SumFoldSums ==
    ASSUME NEW S, IsFiniteSet(S), NEW f \in [S -> Int],
           NEW pick, \A s \in SUBSET S : s # {} => pick[s] \in s,
           NEW iter, IsSumFold(iter, S, f, pick)
    PROVE  SumIs(iter[S], S, f)
  <1>1. \A s \in SUBSET S : iter[s] = IF s = {} THEN 0 ELSE f[pick[s]] + iter[s \ {pick[s]}]
    BY DEF IsSumFold
  <1>2. iter \in [SUBSET S -> Int]
    BY SumFoldType
  <1>3. IsSum(iter, S, f)
    BY <1>1, <1>2, FoldSums
  <1> QED BY <1>3 DEF SumIs

\* The sum of a sequence of numbers.
LEMMA SeqSums ==
    ASSUME NEW values \in Seq(Int)
    PROVE  SumIs(Total(values), 1 .. Len(values), values)
  <1> DEFINE S == 1 .. Len(values)
             pick == [s \in SUBSET S |-> Max(s)]
             Body(g) == [s \in SUBSET DOMAIN values |->
                            IF s = {} THEN 0 ELSE g[s \ {Max(s)}] + values[Max(s)]]
             iter == CHOOSE g : g = Body(g)
  <1>1. DOMAIN values = S /\ Len(values) \in Nat /\ values \in [S -> Int]
    BY LenProperties
  <1>2. Total(values) = iter[S]
    BY <1>1 DEF Total, FoldLeft, MapThenFoldSet
  <1>3. IsFiniteSet(S) /\ \A s \in SUBSET S : s # {} => pick[s] \in s
    BY <1>1, FirstNumbers
  <1>4. \A s \in SUBSET S : pick[s] = Max(s)
    OBVIOUS
  <1> HIDE DEF pick, S
  <1>5. ASSUME NEW s \in SUBSET S, s # {} PROVE values[Max(s)] \in Int /\ s \ {Max(s)} \in SUBSET S
    BY <1>1, <1>3, <1>4, <1>5
  <1>6. \E g : g = Body(g)
    <2>1. PICK g : IsSumFold(g, S, values, pick)
      BY <1>1, <1>3, SumFoldExists
    <2>2. g \in [SUBSET S -> Int]
      BY <1>1, <1>3, <2>1, SumFoldType
    <2>3. \A s \in SUBSET S : g[s] = IF s = {} THEN 0 ELSE values[Max(s)] + g[s \ {Max(s)}]
      BY <1>4, <2>1 DEF IsSumFold
    <2>4. ASSUME NEW s \in SUBSET S
          PROVE  g[s] = IF s = {} THEN 0 ELSE g[s \ {Max(s)}] + values[Max(s)]
      <3>1. s # {} => values[Max(s)] \in Int /\ g[s \ {Max(s)}] \in Int
        BY <1>5, <2>2
      <3>2. g[s] = IF s = {} THEN 0 ELSE values[Max(s)] + g[s \ {Max(s)}]
        BY <2>3
      <3> QED BY <3>1, <3>2
    <2>5. g = Body(g)
      BY <1>1, <2>2, <2>4
    <2> QED BY <2>5
  <1>7. iter = Body(iter)
    BY <1>6
  <1> HIDE DEF iter
  <1>8. \A s \in SUBSET S : iter[s] = IF s = {} THEN 0 ELSE iter[s \ {Max(s)}] + values[Max(s)]
    BY <1>1, <1>7
  <1> DEFINE G == {s \in SUBSET S : iter[s] \in Int}
  <1>9. ASSUME NEW s \in SUBSET S, \A x \in s : s \ {x} \in G PROVE s \in G
    <2>1. iter[s] = IF s = {} THEN 0 ELSE iter[s \ {Max(s)}] + values[Max(s)]
      BY <1>8
    <2>2. s # {} => values[Max(s)] \in Int /\ Max(s) \in s
      BY <1>3, <1>4, <1>5
    <2>3. s # {} => iter[s \ {Max(s)}] \in Int
      BY <1>9, <2>2
    <2>4. iter[s] \in Int
      BY <2>1, <2>2, <2>3
    <2> QED BY <2>4
  <1> HIDE DEF G
  <1>10. \A s \in SUBSET S : s \in G
    BY <1>3, <1>9, PartsAre
  <1>11. iter \in [SUBSET S -> Int]
    <2>1. \A s \in SUBSET S : iter[s] \in Int
      BY <1>10 DEF G
    <2> QED BY <1>1, <1>7, <2>1
  <1> HIDE DEF Body
  <1>12. \A s \in SUBSET S : iter[s] = IF s = {} THEN 0 ELSE values[pick[s]] + iter[s \ {pick[s]}]
    <2> SUFFICES ASSUME NEW s \in SUBSET S
                 PROVE  iter[s] = IF s = {} THEN 0 ELSE values[pick[s]] + iter[s \ {pick[s]}]
      OBVIOUS
    <2>1. iter[s] = IF s = {} THEN 0 ELSE iter[s \ {Max(s)}] + values[Max(s)]
      BY <1>8
    <2>2. s # {} => values[Max(s)] \in Int /\ iter[s \ {Max(s)}] \in Int
      BY <1>5, <1>11
    <2>3. pick[s] = Max(s)
      BY <1>4
    <2> QED BY <2>1, <2>2, <2>3
  <1>13. IsSum(iter, S, values)
    BY <1>1, <1>3, <1>11, <1>12, FoldSums
  <1> QED BY <1>2, <1>13 DEF SumIs, S

\* Two sums of the same numbers are one.
LEMMA SumsAgree ==
    ASSUME NEW S, IsFiniteSet(S), NEW f, NEW h, \A x \in S : f[x] = h[x],
           NEW v, SumIs(v, S, f), NEW u, SumIs(u, S, h)
    PROVE  v = u
  <1>1. PICK a : IsSum(a, S, f) /\ v = a[S]
    BY DEF SumIs
  <1>2. PICK b : IsSum(b, S, h) /\ u = b[S]
    BY DEF SumIs
  <1> DEFINE G == {s \in SUBSET S : a[s] = b[s]}
  <1>3. ASSUME NEW s \in SUBSET S, \A x \in s : s \ {x} \in G PROVE s \in G
    <2>1. CASE s = {}
      BY <1>1, <1>2, <2>1 DEF IsSum
    <2>2. CASE s # {}
      <3>1. PICK x \in s : TRUE
        BY <2>2
      <3>2. a[s] = f[x] + a[s \ {x}] /\ b[s] = h[x] + b[s \ {x}]
        BY <1>1, <1>2, <3>1 DEF IsSum
      <3>3. f[x] = h[x] /\ a[s \ {x}] = b[s \ {x}]
        BY <1>3, <3>1
      <3> QED BY <3>2, <3>3
    <2> QED BY <2>1, <2>2
  <1> HIDE DEF G
  <1>4. \A s \in SUBSET S : s \in G
    BY <1>3, PartsAre
  <1> QED BY <1>1, <1>2, <1>4 DEF G

\* The sum over two sets that have nothing in common.
LEMMA SumOfParts ==
    ASSUME NEW A, NEW B, IsFiniteSet(A), IsFiniteSet(B), A \cap B = {}, NEW f,
           \A x \in A \cup B : f[x] \in Int,
           NEW a, SumIs(a, A, f), NEW b, SumIs(b, B, f), NEW v, SumIs(v, A \cup B, f)
    PROVE  v = a + b /\ a \in Int /\ b \in Int
  <1>1. PICK sum : IsSum(sum, A, f) /\ a = sum[A]
    BY DEF SumIs
  <1>2. PICK both : IsSum(both, A \cup B, f) /\ v = both[A \cup B]
    BY DEF SumIs
  <1>3. b \in Int /\ a \in Int
    BY <1>1 DEF SumIs, IsSum
  <1>4. b = both[B]
    <2> DEFINE rest == [s \in SUBSET B |-> both[s]]
    <2>1. IsSum(rest, B, f)
      <3>1. \A s \in SUBSET B : s \in SUBSET (A \cup B)
        OBVIOUS
      <3>2. rest \in [SUBSET B -> Int]
        BY <1>2, <3>1 DEF IsSum
      <3>3. rest[{}] = 0
        BY <1>2 DEF IsSum
      <3>4. ASSUME NEW s \in SUBSET B, NEW x \in s PROVE rest[s] = f[x] + rest[s \ {x}]
        <4>1. both[s] = f[x] + both[s \ {x}]
          BY <1>2, <3>1 DEF IsSum
        <4> QED BY <4>1
      <3> HIDE DEF rest
      <3> QED BY <3>2, <3>3, <3>4 DEF IsSum
    <2>2. rest[B] = both[B]
      OBVIOUS
    <2> HIDE DEF rest
    <2>3. SumIs(both[B], B, f)
      BY <2>1, <2>2 DEF SumIs
    <2> QED BY <2>3, SumsAgree
  <1> DEFINE G == {s \in SUBSET A : both[s \cup B] = sum[s] + b}
  <1>5. ASSUME NEW s \in SUBSET A, \A x \in s : s \ {x} \in G PROVE s \in G
    <2>1. CASE s = {}
      <3>1. both[s \cup B] = b
        <4>1. s \cup B = B
          BY <2>1
        <4> QED BY <1>4, <4>1, Zenon
      <3>2. sum[s] = 0
        BY <1>1, <2>1 DEF IsSum
      <3>3. both[s \cup B] = sum[s] + b
        BY <1>3, <3>1, <3>2
      <3> QED BY <3>3
    <2>2. CASE s # {}
      <3>1. PICK x \in s : TRUE
        BY <2>2
      <3>2. /\ s \cup B \in SUBSET (A \cup B) /\ x \in s \cup B
            /\ (s \cup B) \ {x} = (s \ {x}) \cup B /\ f[x] \in Int
        BY <3>1
      <3>3. both[s \cup B] = f[x] + both[(s \ {x}) \cup B]
        BY <1>2, <3>2 DEF IsSum
      <3>4. both[(s \ {x}) \cup B] = sum[s \ {x}] + b
        BY <1>5, <3>1
      <3>5. sum[s] = f[x] + sum[s \ {x}] /\ sum[s \ {x}] \in Int
        BY <1>1, <3>1 DEF IsSum
      <3>6. both[s \cup B] = sum[s] + b
        <4> HIDE DEF G
        <4> QED BY <1>3, <3>2, <3>3, <3>4, <3>5
      <3> QED BY <3>6
    <2> QED BY <2>1, <2>2
  <1> HIDE DEF G
  <1>6. \A s \in SUBSET A : s \in G
    BY <1>5, PartsAre
  <1> QED BY <1>1, <1>2, <1>3, <1>6 DEF G

\* A sum lies between as many times the least and as many times the greatest.
LEMMA SumBounds ==
    ASSUME NEW S, IsFiniteSet(S), NEW f, NEW least \in Int, NEW most \in Int,
           \A x \in S : f[x] \in Int /\ least <= f[x] /\ f[x] <= most,
           NEW v, SumIs(v, S, f)
    PROVE  Cardinality(S) * least <= v /\ v <= Cardinality(S) * most
  <1>1. PICK sum : IsSum(sum, S, f) /\ v = sum[S]
    BY DEF SumIs
  <1> DEFINE G == {s \in SUBSET S : /\ Cardinality(s) * least <= sum[s]
                                    /\ sum[s] <= Cardinality(s) * most}
  <1>2. ASSUME NEW s \in SUBSET S, \A x \in s : s \ {x} \in G PROVE s \in G
    <2>1. CASE s = {}
      <3>1. sum[s] = 0 /\ Cardinality(s) = 0
        BY <1>1, <2>1, FS_EmptySet DEF IsSum
      <3> QED BY <3>1
    <2>2. CASE s # {}
      <3>1. PICK x \in s : TRUE
        BY <2>2
      <3> DEFINE n == Cardinality(s \ {x})
      <3>2. n \in Nat /\ Cardinality(s) = n + 1
        <4>1. IsFiniteSet(s) /\ IsFiniteSet(s \ {x})
          BY FS_Subset
        <4>2. Cardinality(s \ {x}) = Cardinality(s) - 1
          BY <3>1, <4>1, FS_RemoveElement
        <4> QED BY <4>1, <4>2, FS_CardinalityType
      <3>3. sum[s] = f[x] + sum[s \ {x}] /\ sum[s \ {x}] \in Int
        BY <1>1, <3>1 DEF IsSum
      <3>4. n * least <= sum[s \ {x}] /\ sum[s \ {x}] <= n * most
        BY <1>2, <3>1
      <3>5. f[x] \in Int /\ least <= f[x] /\ f[x] <= most
        BY <3>1
      <3> HIDE DEF n, G
      <3>6. (n + 1) * least = n * least + least /\ (n + 1) * most = n * most + most
            /\ n * least \in Int /\ n * most \in Int
        BY <3>2
      <3>7. (n + 1) * least <= sum[s] /\ sum[s] <= (n + 1) * most
        BY <3>3, <3>4, <3>5, <3>6
      <3> QED BY <3>2, <3>7 DEF G
    <2> QED BY <2>1, <2>2
  <1> HIDE DEF G
  <1>3. \A s \in SUBSET S : s \in G
    BY <1>2, PartsAre
  <1> QED BY <1>1, <1>3 DEF G

\* The numbers of elements that have a value, over all values, are the elements.
LEMMA SumOfCounts ==
    ASSUME NEW E, IsFiniteSet(E), NEW V, NEW value \in [E -> V], NEW f,
           \A x \in Range(value) : f[x] = Cardinality({e \in E : value[e] = x}),
           NEW v, SumIs(v, Range(value), f)
    PROVE  v = Cardinality(E)
  <1> DEFINE X == Range(value)
             Having(s) == {e \in E : value[e] \in s}
  <1>1. PICK sum : IsSum(sum, X, f) /\ v = sum[X]
    BY DEF SumIs
  <1>2. IsFiniteSet(X)
    <2>1. value \in Surjection(E, X)
      BY DEF Surjection, Range
    <2> QED BY <2>1, FS_Surjection
  <1> DEFINE G == {s \in SUBSET X : sum[s] = Cardinality(Having(s))}
  <1>3. ASSUME NEW s \in SUBSET X, \A x \in s : s \ {x} \in G PROVE s \in G
    <2>1. CASE s = {}
      <3>1. Having(s) = {} /\ sum[s] = 0
        BY <1>1, <2>1 DEF IsSum
      <3> QED BY <3>1, FS_EmptySet
    <2>2. CASE s # {}
      <3>1. PICK x \in s : TRUE
        BY <2>2
      <3> DEFINE A == {e \in E : value[e] = x}
                 B == Having(s \ {x})
      <3>2. A \cap B = {} /\ A \cup B = Having(s)
        BY <3>1
      <3>3. IsFiniteSet(A) /\ IsFiniteSet(B)
        BY FS_Subset
      <3>4. sum[s] = f[x] + sum[s \ {x}] /\ f[x] = Cardinality(A)
        BY <1>1, <3>1 DEF IsSum
      <3>5. sum[s \ {x}] = Cardinality(B)
        BY <1>3, <3>1
      <3> HIDE DEF A, B, Having
      <3> QED BY <3>2, <3>3, <3>4, <3>5, TwoParts
    <2> QED BY <2>1, <2>2
  <1> HIDE DEF G
  <1>4. \A s \in SUBSET X : s \in G
    <2> HIDE DEF X
    <2> QED BY <1>2, <1>3, PartsAre
  <1>5. Having(X) = E
    BY DEF Range
  <1> HIDE DEF Having
  <1> QED BY <1>1, <1>4, <1>5 DEF G

-----------------------------------------------------------------------------
(* Durations and spans.                                                     *)

\* Pairs that are told apart by their ends.
Dated(Q) ==
    /\ IsFiniteSet(Q)
    /\ \A q \in Q : /\ q.start.time \in Nat
                    /\ q.end.machine \in Nat /\ q.end.time \in Nat /\ q.end.seq \in Nat
    /\ \A q, r \in Q : q.end.machine = r.end.machine /\ q.end.seq = r.end.seq => q = r

LEMMA PairsDated ==
    ASSUME NEW T, Numbered(T), NEW c \in Range(Conventions)
    PROVE  /\ Dated(PairEvents(T, c).pairs)
           /\ PairEvents(T, c).pairs \subseteq [start : T, end : T]
           /\ \A q \in PairEvents(T, c).pairs : Precedes(q.start, q.end)
  <1> DEFINE Q == PairEvents(T, c).pairs
  <1>1. PairEvents(T, c) \in PairStates(T) /\ IsPairing(PairEvents(T, c), T, c)
    BY PairingIs
  <1>2. Q \subseteq [start : T, end : T]
    BY <1>1 DEF PairStates
  <1>3. /\ \A q, r \in Q : q.end = r.end => q = r
        /\ \A q \in Q : Precedes(q.start, q.end)
    BY <1>1 DEF IsPairing
  <1>4. IsFiniteSet(Q)
    BY PairingCounts
  <1> HIDE DEF Q
  <1>5. \A q \in Q : q.start \in T /\ q.end \in T
    BY <1>2
  <1> QED BY <1>2, <1>3, <1>4, <1>5 DEF Dated, Numbered, Q

\* An order of pairs by a quantity of theirs and, where it is the same, by PairPrecedes.
LEMMA PairsOrder ==
    ASSUME NEW Q, Dated(Q), NEW size \in [Q -> Int]
    PROVE  IsOrder(Q, [q \in Q |-> {r \in Q :
               size[r] < size[q] \/ (size[r] = size[q] /\ PairPrecedes(r, q))}])
  <1> DEFINE Smaller(r, q) == size[r] < size[q] \/ (size[r] = size[q] /\ PairPrecedes(r, q))
             before == [q \in Q |-> {r \in Q : Smaller(r, q)}]
  <1>1. \A q \in Q : /\ q.start.time \in Nat /\ size[q] \in Int
                     /\ q.end.machine \in Nat /\ q.end.time \in Nat /\ q.end.seq \in Nat
    BY DEF Dated
  <1>2. \A q \in Q : ~Smaller(q, q)
    BY <1>1 DEF PairPrecedes, Precedes
  <1>3. \A q, r, p \in Q : Smaller(q, r) /\ Smaller(r, p) => Smaller(q, p)
    BY <1>1 DEF PairPrecedes, Precedes
  <1>4. \A q, r \in Q : q # r => Smaller(q, r) \/ Smaller(r, q)
    <2>1. \A q, r \in Q : q # r => q.end.machine # r.end.machine \/ q.end.seq # r.end.seq
      BY DEF Dated
    <2>2. ASSUME NEW q \in Q, NEW r \in Q, q # r
          PROVE  Precedes(q.end, r.end) \/ Precedes(r.end, q.end)
      <3>1. q.end.machine # r.end.machine \/ q.end.seq # r.end.seq
        BY <2>1, <2>2
      <3>2. /\ q.end.machine \in Nat /\ q.end.time \in Nat /\ q.end.seq \in Nat
            /\ r.end.machine \in Nat /\ r.end.time \in Nat /\ r.end.seq \in Nat
        BY <1>1
      <3> HIDE <1>1, <2>1
      <3> QED BY <3>1, <3>2 DEF Precedes
    <2>3. ASSUME NEW q \in Q, NEW r \in Q, q # r
          PROVE  PairPrecedes(q, r) \/ PairPrecedes(r, q)
      BY <1>1, <2>2, <2>3 DEF PairPrecedes
    <2>4. ASSUME NEW q \in Q, NEW r \in Q, q # r
          PROVE  Smaller(q, r) \/ Smaller(r, q)
      <3>1. size[q] \in Int /\ size[r] \in Int
        BY <1>1
      <3> QED BY <2>3, <2>4, <3>1
    <2> QED BY <2>4
  <1> HIDE DEF Smaller
  <1>5. IsOrder(Q, before)
    BY <1>2, <1>3, <1>4 DEF IsOrder
  <1> QED BY <1>5 DEF Smaller

\* Durations are in the order of their starts, one for each pair.
LEMMA DurationsSort ==
    ASSUME NEW T, Numbered(T), NEW c \in Range(Conventions)
    PROVE  LET Q == PairEvents(T, c).pairs
               s == Durations(T, c)
           IN  s \in Seq(Q) /\ Len(s) = Cardinality(Q) /\ Range(s) = Q
  <1> DEFINE Q == PairEvents(T, c).pairs
             s == Durations(T, c)
             size == [q \in Q |-> 0]
             before == [q \in Q |-> {r \in Q :
                           size[r] < size[q] \/ (size[r] = size[q] /\ PairPrecedes(r, q))}]
             rank(q) == Cardinality({r \in Q : PairPrecedes(r, q)})
  <1>1. Dated(Q) /\ IsFiniteSet(Q)
    BY PairsDated DEF Dated
  <1>2. s = [n \in 1 .. Cardinality(Q) |-> CHOOSE q \in Q : rank(q) = n - 1]
    BY DEF Durations, Sorted
  <1> HIDE DEF Q, s
  <1>3. IsOrder(Q, before)
    <2>1. size \in [Q -> Int]
      OBVIOUS
    <2> HIDE DEF size
    <2> QED BY <1>1, <2>1, PairsOrder
  <1>4. \A q \in Q : rank(q) = Cardinality(before[q])
    OBVIOUS
  <1> HIDE DEF before, size, rank
  <1>5. \A n \in 1 .. Cardinality(Q) : \E q \in Q : rank(q) = n - 1
    <2> SUFFICES ASSUME NEW n \in 1 .. Cardinality(Q) PROVE \E q \in Q : rank(q) = n - 1
      OBVIOUS
    <2>1. \E q \in Q : Cardinality(before[q]) = n - 1
      BY <1>1, <1>3, RankTaken
    <2> QED BY <1>4, <2>1
  <1>6. \A n \in 1 .. Cardinality(Q) : s[n] \in Q /\ rank(s[n]) = n - 1
    BY <1>2, <1>5
  <1>7. s \in [1 .. Cardinality(Q) -> Q]
    BY <1>2, <1>6
  <1>8. \A n \in 1 .. Cardinality(Q) : Cardinality(before[s[n]]) = n - 1
    BY <1>4, <1>6
  <1> QED BY <1>1, <1>3, <1>7, <1>8, RankSorts DEF Q, s

\* The seconds of pairs are those of a sequence that holds each pair once, shortest first.
LEMMA SecondsSort ==
    ASSUME NEW Q, Dated(Q)
    PROVE  \E s \in Seq(Q) :
               /\ Len(s) = Cardinality(Q) /\ Range(s) = Q
               /\ SortedSeconds(Q) = [i \in 1 .. Len(s) |-> Seconds(s[i])]
               /\ \A i, j \in 1 .. Len(s) :
                      i < j => s[i] # s[j] /\ Seconds(s[i]) <= Seconds(s[j])
  <1> DEFINE Shorter(p, q) == \/ Seconds(p) < Seconds(q)
                              \/ Seconds(p) = Seconds(q) /\ PairPrecedes(p, q)
             rank(q) == Cardinality({r \in Q : Shorter(r, q)})
             s == Sorted(Q, Shorter)
             size == [q \in Q |-> Seconds(q)]
             before == [q \in Q |-> {r \in Q :
                           size[r] < size[q] \/ (size[r] = size[q] /\ PairPrecedes(r, q))}]
  <1>1. IsFiniteSet(Q) /\ \A q \in Q : q.start.time \in Nat /\ q.end.time \in Nat
    BY DEF Dated
  <1>2. size \in [Q -> Int] /\ \A q \in Q : size[q] = Seconds(q) /\ Seconds(q) \in Int
    BY <1>1 DEF Seconds
  <1>3. \A q \in Q : before[q] = {r \in Q : Shorter(r, q)}
    OBVIOUS
  <1>4. SortedSeconds(Q) = [i \in DOMAIN s |-> Seconds(s[i])]
    BY DEF SortedSeconds
  <1>5. s = [n \in 1 .. Cardinality(Q) |-> CHOOSE q \in Q : rank(q) = n - 1]
    BY DEF Sorted
  <1>6. \A q \in Q : rank(q) = Cardinality(before[q])
    BY <1>3
  <1> HIDE DEF size, s, Shorter
  <1>7. IsOrder(Q, before)
    BY <1>2, PairsOrder
  <1> HIDE DEF before, rank
  <1>8. ASSUME NEW n \in 1 .. Cardinality(Q) PROVE \E q \in Q : rank(q) = n - 1
    <2>1. \E q \in Q : Cardinality(before[q]) = n - 1
      BY <1>1, <1>7, RankTaken
    <2> QED BY <1>6, <2>1
  <1>9. \A n \in 1 .. Cardinality(Q) : s[n] \in Q /\ rank(s[n]) = n - 1
    BY <1>5, <1>8
  <1>10. s \in [1 .. Cardinality(Q) -> Q]
    BY <1>5, <1>9
  <1>11. \A n \in 1 .. Cardinality(Q) : Cardinality(before[s[n]]) = n - 1
    BY <1>6, <1>9
  <1>12. /\ s \in Seq(Q) /\ Len(s) = Cardinality(Q) /\ Range(s) = Q
         /\ \A i, j \in 1 .. Len(s) : i < j => s[i] \in before[s[j]]
    BY <1>1, <1>7, <1>10, <1>11, RankSorts
  <1>13. DOMAIN s = 1 .. Len(s)
    BY <1>12, LenProperties
  <1>14. ASSUME NEW i \in 1 .. Len(s), NEW j \in 1 .. Len(s), i < j
         PROVE  s[i] # s[j] /\ Seconds(s[i]) <= Seconds(s[j])
    <2>1. s[i] \in Q /\ s[j] \in Q /\ s[i] \in before[s[j]]
      BY <1>9, <1>12, <1>14
    <2>2. s[i] # s[j]
      BY <1>7, <2>1 DEF IsOrder
    <2>3. Shorter(s[i], s[j])
      BY <1>3, <2>1
    <2>4. Seconds(s[i]) \in Int /\ Seconds(s[j]) \in Int
      BY <1>2, <2>1
    <2> QED BY <2>2, <2>3, <2>4 DEF Shorter
  <1> QED BY <1>4, <1>12, <1>13, <1>14

\* Elements at different places of a sequence are as many as the places.
LEMMA PlacesCount ==
    ASSUME NEW Q, IsFiniteSet(Q), NEW s \in Seq(Q),
           \A i, j \in 1 .. Len(s) : i < j => s[i] # s[j],
           NEW a \in 1 .. Len(s), NEW b \in 1 .. Len(s), a <= b,
           NEW T \in SUBSET Q, \A i \in a .. b : s[i] \in T
    PROVE  Cardinality(T) \in Nat /\ Cardinality(T) >= b - a + 1
  <1> DEFINE I == a .. b
             f == [i \in I |-> s[i]]
  <1>1. Len(s) \in Nat /\ a \in Int /\ b \in Int /\ \A i \in I : i \in 1 .. Len(s)
    <2>1. Len(s) \in Nat
      BY LenProperties
    <2> DEFINE n == Len(s)
    <2>2. a \in 1 .. n /\ b \in 1 .. n /\ n \in Nat
      BY <2>1
    <2> HIDE DEF n
    <2>3. a \in Int /\ b \in Int /\ \A i \in I : i \in 1 .. n
      BY <2>2
    <2> QED BY <2>1, <2>3 DEF n
  <1>2. IsFiniteSet(T)
    BY FS_Subset
  <1>3. \A i, j \in I : s[i] = s[j] => i = j
    <2>1. \A i, j \in I : i \in Int /\ j \in Int
      OBVIOUS
    <2> HIDE DEF I
    <2>2. \A i, j \in I : i < j => s[i] # s[j]
      BY <1>1
    <2> QED BY <2>1, <2>2
  <1>4. f \in [I -> T] /\ \A i, j \in I : f[i] = f[j] => i = j
    BY <1>3
  <1>5. Cardinality(I) = b - a + 1
    <2>1. (IF a > b THEN 0 ELSE b - a + 1) = b - a + 1
      BY <1>1
    <2> QED BY <1>1, <2>1, FS_Interval
  <1> HIDE DEF f, I
  <1>6. Cardinality(Range(f)) = Cardinality(I)
    BY <1>2, <1>4, ImageCounts
  <1>7. Range(f) \in SUBSET T
    BY <1>4 DEF Range
  <1>8. Cardinality(Range(f)) <= Cardinality(T) /\ Cardinality(T) \in Nat
    BY <1>2, <1>7, FS_Subset, FS_CardinalityType
  <1> QED BY <1>1, <1>5, <1>6, <1>8

\* The mean and the median of durations lie between the extremes, and half of the
\* durations on either side of the median.
LEMMA SummaryIs ==
    ASSUME NEW Q, Dated(Q)
    PROVE  LET d == DurationStats(Q)
           IN  /\ d.count = Cardinality(Q) /\ d.count \in Nat
               /\ d.count > 0 =>
                      /\ d.count * d.min[1] <= d.total /\ d.total <= d.count * d.max[1]
                      /\ 2 * d.min[1] <= d.twiceMedian[1] /\ d.twiceMedian[1] <= 2 * d.max[1]
                      /\ 2 * Cardinality({p \in Q : 2 * Seconds(p) <= d.twiceMedian[1]}) >= d.count
                      /\ 2 * Cardinality({p \in Q : 2 * Seconds(p) >= d.twiceMedian[1]}) >= d.count
  <1> DEFINE d == DurationStats(Q)
             values == SortedSeconds(Q)
  <1>1. PICK s \in Seq(Q) :
            /\ Len(s) = Cardinality(Q) /\ Range(s) = Q
            /\ values = [i \in 1 .. Len(s) |-> Seconds(s[i])]
            /\ \A i, j \in 1 .. Len(s) : i < j => s[i] # s[j] /\ Seconds(s[i]) <= Seconds(s[j])
    BY SecondsSort
  <1> DEFINE n == Cardinality(Q)
             mid == n \div 2
  <1>2. IsFiniteSet(Q) /\ n \in Nat
    BY FS_CardinalityType DEF Dated
  <1>3. d = Summary(values)
    BY DEF DurationStats
  <1> HIDE DEF d, values, n
  <1>4. Len(s) = n
    BY <1>1 DEF n
  <1>5. \A i \in 1 .. n : s[i] \in Q /\ values[i] = Seconds(s[i]) /\ values[i] \in Int
    <2>1. \A i \in 1 .. n : s[i] \in Q
      BY <1>4, ElementOfSeq
    <2>2. \A q \in Q : Seconds(q) \in Int
      BY DEF Dated, Seconds
    <2>3. \A i \in 1 .. n : values[i] = Seconds(s[i])
      BY <1>1, <1>4
    <2> QED BY <2>1, <2>2, <2>3
  <1>6. values \in Seq(Int) /\ Len(values) = n
    <2>1. values \in [1 .. n -> Int]
      BY <1>1, <1>4, <1>5
    <2> QED BY <1>2, <2>1, SeqDef, LenProperties
  <1>7. \A i, j \in 1 .. n : i <= j => values[i] <= values[j]
    <2> SUFFICES ASSUME NEW i \in 1 .. n, NEW j \in 1 .. n, i <= j PROVE values[i] <= values[j]
      OBVIOUS
    <2>1. CASE i = j
      BY <1>5, <2>1
    <2>2. CASE i < j
      BY <1>1, <1>4, <1>5, <2>2
    <2> QED BY <1>2, <2>1, <2>2
  <1>8. d.count = n
    BY <1>3, <1>6 DEF Summary
  <1>9. ASSUME n > 0
        PROVE  /\ d.min[1] = values[1] /\ d.max[1] = values[n] /\ d.total = Total(values)
               /\ d.twiceMedian[1] = IF n % 2 = 1 THEN 2 * values[mid + 1]
                                     ELSE values[mid] + values[mid + 1]
    <2>1. n # 0
      BY <1>9
    <2> HIDE DEF mid
    <2>2. /\ d.min = <<values[1]>> /\ d.max = <<values[n]>> /\ d.total = Total(values)
          /\ d.twiceMedian = IF n % 2 = 1 THEN <<2 * values[mid + 1]>>
                             ELSE <<values[mid] + values[mid + 1]>>
      BY <1>3, <1>6, <2>1 DEF Summary, mid
    <2> QED BY <2>2
  <1>10. ASSUME n > 0
         PROVE  n * values[1] <= Total(values) /\ Total(values) <= n * values[n]
    <2>1. SumIs(Total(values), 1 .. n, values)
      BY <1>6, SeqSums
    <2>2. IsFiniteSet(1 .. n) /\ Cardinality(1 .. n) = n
      <3>1. 1 \in Int /\ n \in Int /\ (IF 1 > n THEN 0 ELSE n - 1 + 1) = n
        BY <1>2, <1>10
      <3> QED BY <3>1, FS_Interval
    <2>3. values[1] \in Int /\ values[n] \in Int
          /\ \A i \in 1 .. n : values[i] \in Int /\ values[1] <= values[i] /\ values[i] <= values[n]
      <3>1. 1 \in 1 .. n /\ n \in 1 .. n /\ \A i \in 1 .. n : 1 <= i /\ i <= n
        BY <1>2, <1>10
      <3> QED BY <1>5, <1>7, <3>1
    <2>4. Cardinality(1 .. n) * values[1] <= Total(values)
          /\ Total(values) <= Cardinality(1 .. n) * values[n]
      BY <2>1, <2>2, <2>3, SumBounds
    <2> QED BY <2>2, <2>4
  <1>11. ASSUME n > 0
         PROVE  \E l, u \in 1 .. n :
                    /\ l <= u /\ 2 * l >= n /\ 2 * (n - u + 1) >= n
                    /\ d.twiceMedian[1] = values[l] + values[u]
    <2>1. CASE n % 2 = 1
      <3>1. /\ mid + 1 \in 1 .. n /\ 2 * (mid + 1) >= n /\ 2 * (n - (mid + 1) + 1) >= n
        BY <1>2, <1>11, <2>1
      <3> DEFINE k == mid + 1
      <3>2. k \in 1 .. n /\ k <= k /\ 2 * k >= n /\ 2 * (n - k + 1) >= n
        BY <1>2, <3>1
      <3>3. d.twiceMedian[1] = 2 * values[k]
        BY <1>9, <1>11, <2>1
      <3> HIDE DEF k, mid
      <3>4. d.twiceMedian[1] = values[k] + values[k]
        BY <1>5, <3>2, <3>3
      <3> QED BY <3>2, <3>4
    <2>2. CASE n % 2 # 1
      <3>1. mid \in 1 .. n /\ mid + 1 \in 1 .. n /\ mid <= mid + 1
            /\ 2 * mid >= n /\ 2 * (n - (mid + 1) + 1) >= n
        BY <1>2, <1>11, <2>2
      <3> DEFINE k == mid + 1
      <3>2. d.twiceMedian[1] = values[mid] + values[k]
        BY <1>9, <1>11, <2>2
      <3>3. mid \in 1 .. n /\ k \in 1 .. n /\ mid <= k /\ 2 * mid >= n /\ 2 * (n - k + 1) >= n
        BY <3>1
      <3> HIDE DEF k, mid
      <3> QED BY <3>2, <3>3
    <2> QED BY <2>1, <2>2
  <1> HIDE DEF mid
  <1> DEFINE m == d.twiceMedian[1]
             lo == {p \in Q : 2 * Seconds(p) <= m}
             hi == {p \in Q : 2 * Seconds(p) >= m}
  <1>12. ASSUME n > 0
         PROVE  /\ 2 * values[1] <= m /\ m <= 2 * values[n]
                /\ 2 * Cardinality(lo) >= n /\ 2 * Cardinality(hi) >= n
    <2>1. PICK l, u \in 1 .. n : /\ l <= u /\ 2 * l >= n /\ 2 * (n - u + 1) >= n
                                 /\ m = values[l] + values[u]
      BY <1>11, <1>12
    <2> HIDE DEF m
    <2>2. /\ 1 \in 1 .. n /\ n \in 1 .. n /\ 1 <= l /\ l <= n /\ 1 <= u /\ u <= n
          /\ l \in Int /\ u \in Int
      BY <1>2, <1>12, <2>1
    <2>3. /\ values[1] <= values[l] /\ values[1] <= values[u] /\ values[l] <= values[u]
          /\ values[l] <= values[n] /\ values[u] <= values[n]
          /\ values[1] \in Int /\ values[l] \in Int /\ values[u] \in Int /\ values[n] \in Int
      BY <1>5, <1>7, <2>1, <2>2
    <2> DEFINE first == values[1]
               low == values[l]
               high == values[u]
               last == values[n]
    <2>4. /\ m = low + high /\ first <= low /\ first <= high /\ low <= high
          /\ low <= last /\ high <= last
          /\ first \in Int /\ low \in Int /\ high \in Int /\ last \in Int
      BY <2>1, <2>3
    <2> HIDE DEF first, low, high, last
    <2>5. 2 * first <= m /\ m <= 2 * last
      BY <2>4
    <2>6. ASSUME NEW i \in 1 .. l PROVE s[i] \in lo
      <3>1. i \in 1 .. n /\ i <= l
        BY <2>2
      <3>2. values[i] <= low /\ values[i] \in Int
        BY <1>5, <1>7, <2>1, <3>1 DEF low
      <3>3. s[i] \in Q /\ Seconds(s[i]) = values[i]
        BY <1>5, <3>1
      <3> DEFINE v == Seconds(s[i])
      <3>4. v <= low /\ v \in Int
        BY <3>2, <3>3
      <3> HIDE DEF v
      <3>5. 2 * v <= m
        BY <2>4, <3>4
      <3> USE DEF v
      <3> QED BY <3>3, <3>5
    <2>7. ASSUME NEW i \in u .. n PROVE s[i] \in hi
      <3>1. i \in 1 .. n /\ u <= i
        BY <1>2, <2>2
      <3>2. high <= values[i] /\ values[i] \in Int
        BY <1>5, <1>7, <2>1, <3>1 DEF high
      <3>3. s[i] \in Q /\ Seconds(s[i]) = values[i]
        BY <1>5, <3>1
      <3> DEFINE v == Seconds(s[i])
      <3>4. high <= v /\ v \in Int
        BY <3>2, <3>3
      <3> HIDE DEF v
      <3>5. 2 * v >= m
        BY <2>4, <3>4
      <3> USE DEF v
      <3> QED BY <3>3, <3>5
    <2>8. lo \in SUBSET Q /\ hi \in SUBSET Q
      OBVIOUS
    <2>9. \A i, j \in 1 .. Len(s) : i < j => s[i] # s[j]
      BY <1>1
    <2> HIDE DEF lo, hi
    <2>10. Cardinality(lo) \in Nat /\ Cardinality(lo) >= l - 1 + 1
      BY <1>2, <1>4, <2>1, <2>2, <2>6, <2>8, <2>9, PlacesCount
    <2>11. Cardinality(hi) \in Nat /\ Cardinality(hi) >= n - u + 1
      BY <1>2, <1>4, <2>1, <2>2, <2>7, <2>8, <2>9, PlacesCount
    <2> DEFINE x == Cardinality(lo)
               y == Cardinality(hi)
    <2>12. x \in Nat /\ x >= l - 1 + 1 /\ y \in Nat /\ y >= n - u + 1
      BY <2>10, <2>11
    <2> HIDE DEF x, y
    <2>13. 2 * x >= n /\ 2 * y >= n
      BY <1>2, <2>1, <2>2, <2>12
    <2> QED BY <2>5, <2>13 DEF first, last, x, y
  <1> HIDE DEF m, lo, hi
  <1>13. n > 0 => /\ n * d.min[1] <= d.total /\ d.total <= n * d.max[1]
                  /\ 2 * d.min[1] <= m /\ m <= 2 * d.max[1]
                  /\ 2 * Cardinality(lo) >= n /\ 2 * Cardinality(hi) >= n
    BY <1>9, <1>10, <1>12
  <1> QED BY <1>2, <1>8, <1>13 DEF d, n, m, lo, hi

\* Where spans start and end.
SpanEnds(spans) == {<<spans[i].start, spans[i].end>> : i \in DOMAIN spans}

\* Where the pairs of both conventions do.
PairEnds(T) ==
    UNION {{<<q.start, q.end>> : q \in PairEvents(T, c).pairs} : c \in Range(Conventions)}

\* Nesting adds to the durations and leaves their starts and ends.
LEMMA SpansAre ==
    ASSUME NEW T, Numbered(T)
    PROVE  LET spans == DeriveSpans(T)
               bare == Durations(T, Conventions[1]) \o Durations(T, Conventions[2])
           IN  /\ bare \in Seq([start : T, end : T])
               /\ DOMAIN spans = DOMAIN bare
               /\ \A i \in DOMAIN spans : spans[i].start = bare[i].start /\ spans[i].end = bare[i].end
               /\ SpanEnds(spans) = PairEnds(T)
  <1> DEFINE one == Durations(T, Conventions[1])
             two == Durations(T, Conventions[2])
             bare == one \o two
             spans == DeriveSpans(T)
             P == [start : T, end : T]
  <1>1. /\ Conventions[1] \in Range(Conventions) /\ Conventions[2] \in Range(Conventions)
        /\ \A c \in Range(Conventions) : c = Conventions[1] \/ c = Conventions[2]
    BY DEF Range, Conventions
  <1>2. /\ one \in Seq(P) /\ Range(one) = PairEvents(T, Conventions[1]).pairs
        /\ two \in Seq(P) /\ Range(two) = PairEvents(T, Conventions[2]).pairs
    <2>1. ASSUME NEW c \in Range(Conventions)
          PROVE  Durations(T, c) \in Seq(P) /\ Range(Durations(T, c)) = PairEvents(T, c).pairs
      <3>1. PairEvents(T, c).pairs \subseteq P
        BY PairsDated
      <3> HIDE DEF P
      <3>2. /\ Durations(T, c) \in Seq(PairEvents(T, c).pairs)
            /\ Range(Durations(T, c)) = PairEvents(T, c).pairs
        BY DurationsSort
      <3> QED BY <3>1, <3>2, SeqMonotonic
    <2> QED BY <1>1, <2>1
  <1>3. DOMAIN spans = DOMAIN bare
        /\ \A i \in DOMAIN bare : spans[i].start = bare[i].start /\ spans[i].end = bare[i].end
    BY DEF DeriveSpans, Nesting
  <1> HIDE DEF one, two, spans, P
  <1>4. /\ bare \in Seq(P) /\ Len(bare) = Len(one) + Len(two)
        /\ \A i \in 1 .. Len(one) + Len(two) :
               bare[i] = IF i <= Len(one) THEN one[i] ELSE two[i - Len(one)]
    BY <1>2, ConcatProperties
  <1>5. /\ Len(one) \in Nat /\ DOMAIN one = 1 .. Len(one)
        /\ Len(two) \in Nat /\ DOMAIN two = 1 .. Len(two)
        /\ DOMAIN bare = 1 .. Len(one) + Len(two)
    BY <1>2, <1>4, LenProperties
  <1>6. ASSUME NEW i \in DOMAIN bare PROVE bare[i] \in Range(one) \/ bare[i] \in Range(two)
    <2>1. CASE i <= Len(one)
      BY <1>4, <1>5, <2>1 DEF Range
    <2>2. CASE ~(i <= Len(one))
      <3>1. i - Len(one) \in 1 .. Len(two)
        BY <1>5, <2>2
      <3> QED BY <1>4, <1>5, <2>2, <3>1 DEF Range
    <2> QED BY <2>1, <2>2
  <1>7. ASSUME NEW q \in Range(one) PROVE \E i \in DOMAIN bare : bare[i] = q
    <2>1. PICK i \in 1 .. Len(one) : q = one[i]
      BY <1>5 DEF Range
    <2>2. i \in 1 .. Len(one) + Len(two) /\ i <= Len(one)
      BY <1>5
    <2> QED BY <1>4, <1>5, <2>1, <2>2
  <1>8. ASSUME NEW q \in Range(two) PROVE \E i \in DOMAIN bare : bare[i] = q
    <2>1. PICK i \in 1 .. Len(two) : q = two[i]
      BY <1>5 DEF Range
    <2>2. /\ Len(one) + i \in 1 .. Len(one) + Len(two) /\ ~(Len(one) + i <= Len(one))
          /\ (Len(one) + i) - Len(one) = i
      BY <1>5
    <2>3. bare[Len(one) + i] = two[(Len(one) + i) - Len(one)]
      BY <1>4, <2>2
    <2> QED BY <1>5, <2>1, <2>2, <2>3
  <1> HIDE DEF bare
  <1>9. SpanEnds(spans) = PairEnds(T)
    <2>1. \A x : x \in SpanEnds(spans)
                     <=> \E c \in Range(Conventions) :
                             \E q \in PairEvents(T, c).pairs : x = <<q.start, q.end>>
      BY <1>1, <1>2, <1>3, <1>6, <1>7, <1>8 DEF SpanEnds
    <2> HIDE DEF PairEvents
    <2> QED BY <2>1 DEF PairEnds
  <1> QED BY <1>3, <1>4, <1>9 DEF one, two, bare, spans, P

-----------------------------------------------------------------------------
(* Links.                                                                   *)

\* Every parent is larger, up to a bound.
IsAscent(D, M, size, parent) ==
    \A i \in D : /\ size[i] \in Nat /\ size[i] < M
                 /\ parent[i] # 0 => parent[i] \in D /\ size[i] < size[parent[i]]

IsDepth(g, D, parent) == g = [i \in D |-> IF parent[i] = 0 THEN 0 ELSE 1 + g[parent[i]]]

\* Then one can count the parents above each element.
LEMMA DepthExists ==
    ASSUME NEW D, NEW M \in Nat, NEW size, NEW parent, IsAscent(D, M, size, parent)
    PROVE  \E g : IsDepth(g, D, parent)
  <1> DEFINE Large(k) == {i \in D : size[i] + k >= M}
             Is(g, k) == g = [i \in Large(k) |-> IF parent[i] = 0 THEN 0 ELSE 1 + g[parent[i]]]
             N == {k \in Nat : \E g : Is(g, k)}
  <1>1. 0 \in N
    <2>1. Large(0) = {}
      BY DEF IsAscent
    <2> DEFINE g == [i \in Large(0) |-> 0]
    <2>2. Is(g, 0)
      BY <2>1
    <2> HIDE DEF Is, g
    <2> QED BY <2>2
  <1>2. ASSUME NEW k \in Nat, k \in N PROVE k + 1 \in N
    <2>1. PICK g : Is(g, k)
      BY <1>2
    <2> DEFINE h == [i \in Large(k + 1) |-> IF parent[i] = 0 THEN 0 ELSE 1 + g[parent[i]]]
    <2>2. Large(k) \subseteq Large(k + 1)
      BY DEF IsAscent
    <2>3. \A i \in Large(k) : h[i] = g[i]
      <3>1. \A i \in Large(k) : g[i] = IF parent[i] = 0 THEN 0 ELSE 1 + g[parent[i]]
        BY <2>1
      <3>2. \A i \in Large(k) : h[i] = IF parent[i] = 0 THEN 0 ELSE 1 + g[parent[i]]
        BY <2>2
      <3> QED BY <3>1, <3>2
    <2>4. \A i \in Large(k + 1) : parent[i] # 0 => parent[i] \in Large(k)
      BY DEF IsAscent
    <2> HIDE DEF Large
    <2>5. \A i \in Large(k + 1) : parent[i] # 0 => h[parent[i]] = g[parent[i]]
      BY <2>3, <2>4
    <2>6. \A i \in Large(k + 1) : h[i] = IF parent[i] = 0 THEN 0 ELSE 1 + h[parent[i]]
      BY <2>5
    <2>7. h = [i \in Large(k + 1) |-> h[i]]
      OBVIOUS
    <2> HIDE DEF h
    <2>8. Is(h, k + 1)
      BY <2>6, <2>7
    <2> HIDE DEF Is
    <2> QED BY <2>8
  <1> HIDE DEF N
  <1>3. M \in N
    BY <1>1, <1>2, NatsAre
  <1>4. Large(M) = D
    BY DEF IsAscent
  <1> QED BY <1>3, <1>4 DEF N, IsDepth

\* Such counts are numbers.
LEMMA DepthsAre ==
    ASSUME NEW D, NEW M \in Nat, NEW size, NEW parent,
           IsAscent(D, M, size, parent), NEW g, IsDepth(g, D, parent)
    PROVE  \A i \in D : g[i] \in Nat
  <1> DEFINE Large(k) == {i \in D : size[i] + k >= M}
             N == {k \in Nat : \A i \in Large(k) : g[i] \in Nat}
  <1>1. 0 \in N
    BY DEF IsAscent
  <1>2. ASSUME NEW k \in Nat, k \in N PROVE k + 1 \in N
    <2>1. \A i \in Large(k + 1) : parent[i] # 0 => parent[i] \in Large(k)
      BY DEF IsAscent
    <2>2. \A i \in Large(k + 1) : g[i] = IF parent[i] = 0 THEN 0 ELSE 1 + g[parent[i]]
      BY DEF IsDepth
    <2> HIDE DEF Large
    <2>3. \A i \in Large(k + 1) : g[i] \in Nat
      BY <1>2, <2>1, <2>2
    <2> QED BY <2>3
  <1> HIDE DEF N
  <1>3. M \in N
    BY <1>1, <1>2, NatsAre
  <1> QED BY <1>3 DEF N, IsAscent

\* Some index of a set of them is the first of the narrowest.
LEMMA NarrowestIs ==
    ASSUME NEW spans, NEW I \in SUBSET Nat, I # {},
           \A i \in I : Seconds(spans[i]) \in Nat
    PROVE  /\ Narrowest(spans, I) \in I
           /\ \A j \in I : Seconds(spans[Narrowest(spans, I)]) <= Seconds(spans[j])
  <1> DEFINE sizes == {Seconds(spans[i]) : i \in I}
  <1>1. PICK n \in sizes : \A k \in sizes : n <= k
    <2>1. sizes \in SUBSET Nat /\ sizes # {}
      OBVIOUS
    <2> HIDE DEF sizes
    <2> QED BY <2>1, Least
  <1> DEFINE J == {i \in I : Seconds(spans[i]) = n}
  <1>2. PICK i \in J : \A j \in J : i <= j
    <2>1. J \in SUBSET Nat /\ J # {}
      BY <1>1
    <2> HIDE DEF J
    <2> QED BY <2>1, Least
  <1>3. \A j \in I : n <= Seconds(spans[j])
    BY <1>1
  <1> DEFINE First(x) == \A j \in I :
                             \/ Seconds(spans[x]) < Seconds(spans[j])
                             \/ Seconds(spans[x]) = Seconds(spans[j]) /\ x <= j
  <1>4. First(i) /\ i \in I
    <2>1. i \in I /\ Seconds(spans[i]) = n
      BY <1>2
    <2>2. \A j \in I : Seconds(spans[j]) = n => i <= j
      BY <1>2
    <2>3. \A j \in I : n < Seconds(spans[j]) \/ n = Seconds(spans[j])
      BY <1>3, <2>1
    <2> HIDE DEF J, sizes
    <2> QED BY <2>1, <2>2, <2>3
  <1> DEFINE m == CHOOSE x \in I : First(x)
  <1>5. m = Narrowest(spans, I)
    BY DEF Narrowest
  <1> HIDE DEF J, sizes
  <1>6. m \in I /\ First(m)
    <2> HIDE DEF First
    <2> QED BY <1>4
  <1> HIDE DEF m
  <1> QED BY <1>5, <1>6

Containers(spans, i) == {j \in DOMAIN spans : StrictlyContains(spans[j], spans[i])}

\* A span without container has neither parent nor depth; any other has for its parent
\* a container that is no longer than the others, and lies one deeper.
LEMMA NestingIs ==
    ASSUME NEW M \in Nat, NEW bare, DOMAIN bare \subseteq Nat \ {0},
           \A i \in DOMAIN bare :
               /\ bare[i].start.time \in Nat /\ bare[i].end.time \in Nat
               /\ bare[i].start.time <= bare[i].end.time /\ bare[i].end.time < M
    PROVE  \A i \in DOMAIN bare :
               LET spans == Nesting(bare)
                   s == spans[i]
               IN  IF Containers(bare, i) = {} THEN s.parent = 0 /\ s.depth = 0
                   ELSE /\ s.parent \in Containers(bare, i)
                        /\ s.depth = spans[s.parent].depth + 1
                        /\ \A j \in Containers(bare, i) : Seconds(bare[s.parent]) <= Seconds(bare[j])
  <1> DEFINE D == DOMAIN bare
             parent == [i \in D |-> IF Containers(bare, i) = {} THEN 0
                                    ELSE Narrowest(bare, Containers(bare, i))]
             depth == CHOOSE g : IsDepth(g, D, parent)
             size == [i \in D |-> Seconds(bare[i])]
             spans == Nesting(bare)
  <1>1. /\ \A i \in D : /\ spans[i].parent = parent[i]
                        /\ spans[i].depth = depth[i]
    BY DEF Nesting, Containers, IsDepth
  <1>2. \A i \in D : size[i] \in Nat /\ size[i] < M /\ size[i] = Seconds(bare[i])
    BY DEF Seconds
  <1>3. \A i \in D : \A j \in Containers(bare, i) : j \in D /\ size[i] < size[j]
    BY DEF Seconds, Containers, StrictlyContains
  <1> HIDE DEF size, spans
  <1>4. ASSUME NEW i \in D, Containers(bare, i) # {}
        PROVE  /\ parent[i] \in Containers(bare, i) /\ parent[i] # 0
               /\ \A j \in Containers(bare, i) : Seconds(bare[parent[i]]) <= Seconds(bare[j])
    <2>1. /\ Containers(bare, i) \in SUBSET Nat
          /\ \A j \in Containers(bare, i) : Seconds(bare[j]) \in Nat /\ j # 0
      BY <1>2, <1>3
    <2>2. parent[i] = Narrowest(bare, Containers(bare, i))
      BY <1>4
    <2> HIDE DEF parent
    <2> QED BY <1>4, <2>1, <2>2, NarrowestIs
  <1>5. \A i \in D : Containers(bare, i) = {} => parent[i] = 0
    OBVIOUS
  <1> HIDE DEF parent
  <1>6. IsAscent(D, M, size, parent)
    BY <1>2, <1>3, <1>4, <1>5 DEF IsAscent
  <1>7. \E g : IsDepth(g, D, parent)
    BY <1>6, DepthExists
  <1>8. IsDepth(depth, D, parent)
    BY <1>7
  <1> HIDE DEF depth, D
  <1>9. \A i \in D : depth[i] = IF parent[i] = 0 THEN 0 ELSE 1 + depth[parent[i]]
    BY <1>8 DEF IsDepth
  <1>10. \A i \in D : depth[i] \in Nat
    BY <1>6, <1>8, DepthsAre
  <1>11. \A i \in D : parent[i] # 0 => parent[i] \in D /\ depth[i] = depth[parent[i]] + 1
    BY <1>6, <1>9, <1>10 DEF IsAscent
  <1> QED BY <1>1, <1>3, <1>4, <1>5, <1>9, <1>11 DEF spans, D

\* The links without a key are those of the pairs.
LEMMA KeylessArePairs ==
    ASSUME NEW T
    PROVE  \A l : l \in DeriveLinks(T) /\ l.key = <<>>
                      <=> \E c \in Range(Conventions) : \E q \in PairEvents(T, c).pairs :
                              l = [from |-> q.start, to |-> q.end, key |-> <<>>]
  <1>1. \A l : l \in PairLinks(T)
                   <=> \E c \in Range(Conventions) : \E q \in PairEvents(T, c).pairs :
                           l = [from |-> q.start, to |-> q.end, key |-> <<>>]
    <2> HIDE DEF PairEvents
    <2> QED BY DEF PairLinks
  <1>2. ASSUME NEW l \in DataLinks(T) PROVE l.key # <<>>
    <2>1. PICK tag \in UNION {e.tags : e \in T} :
              l \in Chain(Ordered({e \in T : tag \in e.tags}), tag.key)
      BY DEF DataLinks
    <2> DEFINE group == Ordered({e \in T : tag \in e.tags})
    <2> HIDE DEF group
    <2>4. PICK i \in 1 .. Len(group) - 1 :
              l = [from |-> group[i], to |-> group[i + 1], key |-> <<tag.key>>]
      BY <2>1, Zenon DEF Chain, group
    <2>2. l.key = <<tag.key>>
      BY <2>4
    <2>3. \A k : <<k>> # <<>>
      OBVIOUS
    <2> QED BY <2>2, <2>3
  <1>3. \A q : [from |-> q.start, to |-> q.end, key |-> <<>>].key = <<>>
    OBVIOUS
  <1> HIDE DEF PairEvents
  <1>4. \A l : l \in DeriveLinks(T) <=> l \in PairLinks(T) \/ l \in DataLinks(T)
    BY DEF DeriveLinks
  <1> QED BY <1>1, <1>2, <1>3, <1>4

\* A chain links each of its events but the last to the next.
LEMMA ChainIs ==
    ASSUME NEW T, Numbered(T), T # {}, NEW key
    PROVE  LET chain == Chain(Ordered(T), key)
           IN  /\ Cardinality(chain) = Cardinality(T) - 1
               /\ \A l \in chain :
                      l.from \in T /\ l.to \in T /\ l.key = <<key>> /\ Precedes(l.from, l.to)
               /\ \A l, k \in chain : l # k => l.from # k.from /\ l.to # k.to
  <1> DEFINE s == Ordered(T)
             N == Cardinality(T)
             chain == Chain(s, key)
             link(i) == [from |-> s[i], to |-> s[i + 1], key |-> <<key>>]
             f == [i \in 1 .. N - 1 |-> link(i)]
  <1>1. /\ s \in Seq(T) /\ Len(s) = N
        /\ \A i, j \in 1 .. Len(s) : i < j => Precedes(s[i], s[j])
    BY OrderedSorts
  <1>2. IsFiniteSet(T) /\ N \in Nat /\ N # 0
    BY FS_CardinalityType, FS_EmptySet DEF Numbered
  <1> HIDE DEF s, N
  <1>3. \A i \in 1 .. N : s[i] \in T
    BY <1>1, ElementOfSeq
  <1>4. \A i \in 1 .. N - 1 : i \in 1 .. N /\ i + 1 \in 1 .. N /\ i < i + 1
    BY <1>2
  <1>5. \A i, j \in 1 .. N : i < j => s[i] # s[j]
    BY <1>1, <1>3, PrecedesOneWay
  <1>6. \A i, j \in 1 .. N : s[i] = s[j] => i = j
    BY <1>2, <1>5
  <1>7. \A l : l \in chain <=> \E i \in 1 .. N - 1 : l = link(i)
    BY <1>1 DEF Chain
  <1>8. \A i : link(i).from = s[i] /\ link(i).to = s[i + 1] /\ link(i).key = <<key>>
    OBVIOUS
  <1> HIDE DEF link, chain
  <1>9. Cardinality(chain) = N - 1
    <2>1. chain = Range(f)
      BY <1>7 DEF Range
    <2>2. f \in [1 .. N - 1 -> chain]
      BY <1>7
    <2>3. \A i, j \in 1 .. N - 1 : f[i] = f[j] => i = j
      <3>1. \A i, j \in 1 .. N - 1 : link(i) = link(j) => i = j
        BY <1>4, <1>6, <1>8
      <3> QED BY <3>1
    <2>4. IsFiniteSet(1 .. N - 1) /\ Cardinality(1 .. N - 1) = N - 1
      <3>1. 1 \in Int /\ N - 1 \in Int /\ (IF 1 > N - 1 THEN 0 ELSE N - 1 - 1 + 1) = N - 1
        BY <1>2
      <3> QED BY <3>1, FS_Interval
    <2>5. f \in Surjection(1 .. N - 1, chain)
      BY <2>1, <2>2 DEF Surjection, Range
    <2> HIDE DEF f
    <2>6. f \in Injection(1 .. N - 1, chain)
      BY <2>2, <2>3 DEF Injection, IsInjective
    <2> QED BY <2>4, <2>5, <2>6, FS_Surjection
  <1>10. ASSUME NEW l \in chain
         PROVE  l.from \in T /\ l.to \in T /\ l.key = <<key>> /\ Precedes(l.from, l.to)
    BY <1>1, <1>3, <1>4, <1>7, <1>8
  <1>11. ASSUME NEW l \in chain, NEW k \in chain, l # k PROVE l.from # k.from /\ l.to # k.to
    <2>1. PICK i \in 1 .. N - 1 : l = link(i)
      BY <1>7
    <2>2. PICK j \in 1 .. N - 1 : k = link(j)
      BY <1>7
    <2>3. i # j
      BY <1>11, <2>1, <2>2
    <2>4. i + 1 # j + 1
      BY <1>2, <2>3
    <2> QED BY <1>4, <1>6, <1>8, <2>1, <2>2, <2>3, <2>4
  <1> QED BY <1>9, <1>10, <1>11 DEF s, N, chain

\* Where an event has one value of each key, the links of a value are its chain.
LEMMA LinksOfTag ==
    ASSUME NEW T, Numbered(T), \A e \in T : \A t, u \in e.tags : t.key = u.key => t = u,
           NEW tag \in UNION {e.tags : e \in T}
    PROVE  LET group == {e \in T : tag \in e.tags}
           IN  {l \in DeriveLinks(T) : l.key = <<tag.key>> /\ {l.from, l.to} \subseteq group} =
                   Chain(Ordered(group), tag.key)
  <1> DEFINE group(t) == {e \in T : t \in e.tags}
             chain(t) == Chain(Ordered(group(t)), t.key)
  <1>1. ASSUME NEW t \in UNION {e.tags : e \in T}
        PROVE  \A l \in chain(t) : l.from \in group(t) /\ l.to \in group(t) /\ l.key = <<t.key>>
    <2>1. Numbered(group(t)) /\ group(t) # {}
      BY NumberedPart
    <2> HIDE DEF group
    <2> QED BY <2>1, ChainIs
  <1>2. \A l : l \in DataLinks(T) <=> \E t \in UNION {e.tags : e \in T} : l \in chain(t)
    BY DEF DataLinks
  <1>3. ASSUME NEW l \in DeriveLinks(T), l.key = <<tag.key>> PROVE l \in DataLinks(T)
    <2>1. <<tag.key>> # <<>>
      OBVIOUS
    <2>2. l \in PairLinks(T) => l.key = <<>>
      BY DEF PairLinks
    <2> QED BY <1>3, <2>1, <2>2 DEF DeriveLinks
  <1>4. DataLinks(T) \subseteq DeriveLinks(T)
    BY DEF DeriveLinks
  <1> HIDE DEF chain
  <1>5. ASSUME NEW l \in chain(tag)
        PROVE  /\ l \in DeriveLinks(T) /\ l.key = <<tag.key>>
               /\ l.from \in group(tag) /\ l.to \in group(tag)
    BY <1>1, <1>2, <1>4
  <1>6. ASSUME NEW l \in DeriveLinks(T), l.key = <<tag.key>>, l.from \in group(tag)
        PROVE  l \in chain(tag)
    <2>1. PICK t \in UNION {e.tags : e \in T} : l \in chain(t)
      BY <1>2, <1>3, <1>6
    <2>2. l.from \in group(t) /\ l.key = <<t.key>>
      BY <1>1, <2>1
    <2>3. t.key = tag.key
      BY <1>6, <2>2
    <2>4. t = tag
      BY <1>6, <2>2, <2>3
    <2> QED BY <2>1, <2>4
  <1>7. {l \in DeriveLinks(T) : l.key = <<tag.key>> /\ {l.from, l.to} \subseteq group(tag)} =
            chain(tag)
    BY <1>5, <1>6
  <1> QED BY <1>7 DEF chain
=============================================================================
