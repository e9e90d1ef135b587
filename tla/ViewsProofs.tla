----------------------------- MODULE ViewsProofs -----------------------------
(***************************************************************************)
(* What holds of the views of every ledger: the order of its events, what  *)
(* limits leave of them, and how the answers of the three interfaces fit.  *)
(***************************************************************************)
EXTENDS Views, DeriveProofs

-----------------------------------------------------------------------------
(* Failures and pushes.                                                     *)

PushStates(E) == [unresolved : BOOLEAN, flagged : SUBSET E]

AllGreen == [unresolved |-> FALSE, flagged |-> {}]

\* Where flag_push_without_green is after the events of T.
PushState(T) == FoldLeft(After, AllGreen, Ordered(T))

\* It is the end of a walk.
LEMMA PushWalk ==
    ASSUME NEW S, NEW seq \in Seq(S)
    PROVE  \E w : /\ IsWalk(w, seq, PushStates(S), AllGreen,
                            [e \in S |-> [v \in PushStates(S) |-> After(v, e)]])
                  /\ w[Len(seq)] = FoldLeft(After, AllGreen, seq)
  <1> DEFINE V == PushStates(S)
             base == AllGreen
             N == Len(seq)
             step == [e \in S |-> [v \in V |-> After(v, e)]]
             F == [i \in 1 .. N |-> step[seq[i]]]
             Body(g) == [s \in SUBSET DOMAIN seq |->
                            IF s = {} THEN base
                            ELSE After(g[s \ {Max(s)}], seq[Max(s)])]
             iter == CHOOSE g : g = Body(g)
  <1>1. N \in Nat /\ DOMAIN seq = 1 .. N /\ \A i \in 1 .. N : seq[i] \in S
    BY LenProperties, ElementOfSeq
  <1>2. ASSUME NEW v \in V, NEW e \in S PROVE After(v, e) \in V
    BY DEF After, PushStates
  <1>3. base \in V
    BY DEF PushStates, AllGreen
  <1> HIDE DEF V, base, N
  <1>4. step \in [S -> [V -> V]] /\ \A e \in S, v \in V : step[e][v] = After(v, e)
    BY <1>2
  <1>5. \A i \in 1 .. N, v \in V : F[i][v] = After(v, seq[i]) /\ F[i][v] \in V
    BY <1>1, <1>4
  <1> HIDE DEF F, step
  <1>6. PICK g : IsSeqFold(g, N, V, base, F)
    BY <1>1, <1>3, <1>5, SeqFoldExists
  <1>7. g = Body(g)
    <2>1. /\ g \in [SUBSET (1 .. N) -> V]
          /\ \A s \in SUBSET (1 .. N) :
                 g[s] = IF s = {} THEN base ELSE F[Max(s)][g[s \ {Max(s)}]]
      BY <1>6 DEF IsSeqFold
    <2>2. ASSUME NEW s \in SUBSET (1 .. N), s # {}
          PROVE  g[s] = After(g[s \ {Max(s)}], seq[Max(s)])
      <3>1. Max(s) \in 1 .. N /\ s \ {Max(s)} \in SUBSET (1 .. N)
        BY <1>1, <2>2, FirstNumbers
      <3> QED BY <1>5, <2>1, <2>2, <3>1
    <2> QED BY <1>1, <2>1, <2>2
  <1>8. iter = Body(iter)
    BY <1>7
  <1>9. FoldLeft(After, base, seq) = iter[1 .. N]
    BY <1>1 DEF FoldLeft, MapThenFoldSet
  <1> HIDE DEF iter
  <1>10. iter[{}] = base
    BY <1>8
  <1>11. ASSUME NEW s \in SUBSET (1 .. N), s # {}, iter[s \ {Max(s)}] \in V
         PROVE  iter[s] = step[seq[Max(s)]][iter[s \ {Max(s)}]]
    <2>1. Max(s) \in 1 .. N
      BY <1>1, <1>11, FirstNumbers
    <2>2. iter[s] = After(iter[s \ {Max(s)}], seq[Max(s)])
      BY <1>1, <1>8, <1>11
    <2> QED BY <1>1, <1>4, <1>11, <2>1, <2>2
  <1>12. \E w : IsWalk(w, seq, V, base, step) /\ w[N] = iter[1 .. N]
    <2>1. step \in [S -> [V -> V]]
      BY <1>4
    <2> HIDE DEF Body
    <2>2. IsIter(iter, seq, V, base, step)
      BY <1>10, <1>11 DEF IsIter, N
    <2> QED BY <1>3, <2>1, <2>2, IterWalk DEF N
  <1> QED BY <1>9, <1>12 DEF V, base, step, N

\* The last event is what the rule looks at last.
LEMMA PushLast ==
    ASSUME NEW T, Numbered(T)
    PROVE  /\ PushState(T) \in PushStates(T)
           /\ T = {} => PushState(T) = AllGreen
           /\ \A e : LastOf(e, T) => PushState(T) = After(PushState(T \ {e}), e)
  <1> DEFINE V == PushStates(T)
             step == [e \in T |-> [v \in V |-> After(v, e)]]
  <1>1. ASSUME NEW U \in SUBSET T
        PROVE  \E w : IsWalk(w, Ordered(U), V, AllGreen, step) /\ w[Len(Ordered(U))] = PushState(U)
    <2>1. Numbered(U)
      BY NumberedPart
    <2>2. Ordered(U) \in Seq(U)
      BY <2>1, OrderedSorts
    <2>3. Ordered(U) \in Seq(T)
      BY <2>2, SeqMonotonic
    <2> QED BY <2>3, PushWalk DEF PushState
  <1>2. ASSUME NEW U \in SUBSET T PROVE PushState(U) \in V /\ Len(Ordered(U)) \in Nat
    <2>1. PICK w : IsWalk(w, Ordered(U), V, AllGreen, step) /\ w[Len(Ordered(U))] = PushState(U)
      BY <1>1
    <2>2. Len(Ordered(U)) \in Nat
      BY NumberedPart, OrderedSorts, LenProperties
    <2> QED BY <2>1, <2>2 DEF IsWalk
  <1>3. ASSUME T = {} PROVE PushState(T) = AllGreen
    <2>1. PICK w : IsWalk(w, Ordered(T), V, AllGreen, step) /\ w[Len(Ordered(T))] = PushState(T)
      BY <1>1
    <2>2. Len(Ordered(T)) = 0
      BY <1>3, OrderedSorts, FS_EmptySet
    <2> QED BY <2>1, <2>2 DEF IsWalk
  <1>4. ASSUME NEW e, LastOf(e, T) PROVE PushState(T) = After(PushState(T \ {e}), e)
    <2>1. PICK w : IsWalk(w, Ordered(T), V, AllGreen, step) /\ w[Len(Ordered(T))] = PushState(T)
      BY <1>1
    <2>2. T \ {e} \in SUBSET T /\ e \in T
      BY <1>4 DEF LastOf
    <2>3. PICK u : /\ IsWalk(u, Ordered(T \ {e}), V, AllGreen, step)
                   /\ u[Len(Ordered(T \ {e}))] = PushState(T \ {e})
      BY <1>1, <2>2
    <2>4. PushState(T) = step[e][PushState(T \ {e})]
      <3> HIDE DEF step, V
      <3> QED BY <1>4, <2>1, <2>3, WalkLast
    <2> QED BY <1>2, <2>2, <2>4
  <1> QED BY <1>2, <1>3, <1>4

\* A failure is unresolved as long as nothing was shipped after it.
Unresolved(T) ==
    \E f \in T : f.type = FailureType /\ \A s \in T : s.type = ShippedType => Precedes(s, f)

\* The pushes of T that come after a failure, with nothing shipped between.
Blamed(T) ==
    {p \in T : p.type = PushType /\
        \E f \in T :
            /\ f.type = FailureType
            /\ Precedes(f, p)
            /\ \A s \in T : s.type = ShippedType => Precedes(s, f) \/ Precedes(p, s)}

\* What the last event adds.
LEMMA BlamedLast ==
    ASSUME NEW T, Numbered(T), NEW e, LastOf(e, T)
    PROVE  /\ Unresolved(T) =
                  IF e.type = FailureType THEN TRUE
                  ELSE IF e.type = ShippedType THEN FALSE ELSE Unresolved(T \ {e})
           /\ Blamed(T) =
                  IF e.type = PushType /\ Unresolved(T \ {e})
                  THEN Blamed(T \ {e}) \cup {e} ELSE Blamed(T \ {e})
  <1> DEFINE U == T \ {e}
  <1>1. e \in T /\ T = U \cup {e} /\ e \notin U
    BY DEF LastOf
  <1>2. \A f \in U : Precedes(f, e) /\ ~Precedes(e, f)
    BY <1>1, PrecedesOneWay DEF LastOf
  <1>3. ~Precedes(e, e)
    BY <1>1, PrecedesOneWay
  <1>4. FailureType # ShippedType /\ FailureType # PushType /\ PushType # ShippedType
    BY DEF FailureType, ShippedType, PushType, Plain
  <1> HIDE DEF U
  <1>5. Unresolved(T) =
            IF e.type = FailureType THEN TRUE
            ELSE IF e.type = ShippedType THEN FALSE ELSE Unresolved(U)
    <2>1. CASE e.type = FailureType
      BY <1>1, <1>2, <1>4, <2>1 DEF Unresolved
    <2>2. CASE e.type = ShippedType
      BY <1>1, <1>2, <1>3, <1>4, <2>2 DEF Unresolved
    <2>3. CASE e.type # FailureType /\ e.type # ShippedType
      BY <1>1, <2>3 DEF Unresolved
    <2> QED BY <1>4, <2>1, <2>2, <2>3
  <1>6. ASSUME NEW p \in U PROVE p \in Blamed(T) <=> p \in Blamed(U)
    BY <1>1, <1>2, <1>4 DEF Blamed
  <1>7. e \in Blamed(T) <=> e.type = PushType /\ Unresolved(U)
    <2>1. ASSUME e.type = PushType, Unresolved(U) PROVE e \in Blamed(T)
      BY <1>1, <1>2, <1>4, <2>1 DEF Blamed, Unresolved
    <2>2. ASSUME e \in Blamed(T) PROVE e.type = PushType /\ Unresolved(U)
      BY <1>1, <1>2, <1>3, <1>4, <2>2 DEF Blamed, Unresolved
    <2> QED BY <2>1, <2>2
  <1>8. Blamed(T) \subseteq T /\ Blamed(U) \subseteq U
    BY DEF Blamed
  <1>9. Blamed(T) = IF e.type = PushType /\ Unresolved(U) THEN Blamed(U) \cup {e} ELSE Blamed(U)
    <2> DEFINE old == Blamed(U)
               new == Blamed(T)
    <2>1. \A p \in U : p \in new <=> p \in old
      BY <1>6
    <2>2. new \subseteq U \cup {e} /\ old \subseteq U
      BY <1>1, <1>8
    <2> HIDE DEF old, new
    <2>3. e \in new => new = old \cup {e}
      BY <1>1, <2>1, <2>2
    <2>4. e \notin new => new = old
      BY <1>1, <2>1, <2>2
    <2> QED BY <1>7, <2>3, <2>4 DEF old, new
  <1> QED BY <1>5, <1>9 DEF U

\* The rule flags them all, and no other.
LEMMA PushFlags ==
    ASSUME NEW S, Numbered(S)
    PROVE  FlagPushWithoutGreen(S) = Blamed(S)
  <1> DEFINE Is(T) == /\ PushState(T).unresolved = Unresolved(T)
                      /\ PushState(T).flagged = Blamed(T)
             G == {T \in SUBSET S : Is(T)}
  <1>1. ASSUME NEW T \in SUBSET S, \A x \in T : T \ {x} \in G PROVE T \in G
    <2>1. Numbered(T)
      BY NumberedPart
    <2>2. CASE T = {}
      <3>1. PushState(T) = AllGreen /\ Unresolved(T) = FALSE /\ Blamed(T) = {}
        BY <2>1, <2>2, PushLast DEF Unresolved, Blamed
      <3>2. AllGreen.unresolved = FALSE /\ AllGreen.flagged = {}
        BY DEF AllGreen
      <3>3. Is(T)
        BY <3>1, <3>2, Zenon
      <3> QED BY <3>3
    <2>3. CASE T # {}
      <3>1. PICK e \in T : LastOf(e, T)
        BY <2>1, <2>3, LastExists
      <3> DEFINE U == T \ {e}
                 w == PushState(U)
      <3>2. Is(U) /\ Numbered(U)
        BY <1>1, <2>1, <3>1, NumberedPart
      <3>3. PushState(T) = After(w, e) /\ w \in PushStates(U)
        BY <2>1, <3>1, <3>2, PushLast
      <3>4. /\ Unresolved(T) =
                   IF e.type = FailureType THEN TRUE
                   ELSE IF e.type = ShippedType THEN FALSE ELSE Unresolved(U)
            /\ Blamed(T) = IF e.type = PushType /\ Unresolved(U)
                           THEN Blamed(U) \cup {e} ELSE Blamed(U)
        BY <2>1, <3>1, BlamedLast
      <3>5. FailureType # ShippedType /\ FailureType # PushType /\ PushType # ShippedType
        BY DEF FailureType, ShippedType, PushType, Plain
      <3>6. w.unresolved = Unresolved(U) /\ w.flagged = Blamed(U)
        BY <3>2
      <3> HIDE DEF U, w
      <3>7. CASE e.type = FailureType
        BY <3>3, <3>4, <3>5, <3>6, <3>7 DEF After, PushStates
      <3>8. CASE e.type = ShippedType
        BY <3>3, <3>4, <3>5, <3>6, <3>8 DEF After, PushStates
      <3>9. CASE e.type = PushType
        BY <3>3, <3>4, <3>5, <3>6, <3>9 DEF After, PushStates
      <3>10. CASE e.type \notin {FailureType, ShippedType, PushType}
        BY <3>3, <3>4, <3>6, <3>10 DEF After, PushStates
      <3> QED BY <3>7, <3>8, <3>9, <3>10
    <2> QED BY <2>2, <2>3
  <1> HIDE DEF G
  <1>2. IsFiniteSet(S)
    BY DEF Numbered
  <1>3. \A T \in SUBSET S : T \in G
    BY <1>1, <1>2, PartsAre
  <1>4. Is(S)
    BY <1>3 DEF G
  <1> QED BY <1>4 DEF FlagPushWithoutGreen, PushState, AllGreen

\* So are the pushes that were blamed.
LEMMA BlamedBefore ==
    ASSUME NEW S, Numbered(S), NEW t \in Nat
    PROVE  Blamed(Before(S, t)) = {p \in Blamed(S) : p.time < t}
  <1>1. \A e \in S : e.time \in Nat
    BY DEF Numbered
  <1>2. \A f, p \in S : Precedes(f, p) /\ p.time < t => f.time < t
    BY <1>1 DEF Precedes
  <1>3. \A p, s \in S : p.time < t /\ ~(s.time < t) => Precedes(p, s)
    BY <1>1 DEF Precedes
  <1>4. ASSUME NEW p \in Blamed(Before(S, t)) PROVE p \in Blamed(S) /\ p.time < t
    BY <1>3, <1>4 DEF Blamed, Before
  <1>5. ASSUME NEW p \in Blamed(S), p.time < t PROVE p \in Blamed(Before(S, t))
    BY <1>2, <1>5 DEF Blamed, Before
  <1> QED BY <1>4, <1>5

-----------------------------------------------------------------------------
(* Tokens.                                                                  *)

\* The measured events, and the sum that TotalTokens says.
Measured(events) == {e \in OfType(events, ShippedType) : e.tokens # NoTokens}

LEMMA TokensSum ==
    ASSUME NEW T, IsFiniteSet(T), NEW f, \A e \in Measured(T) : f[e] = e.tokens /\ f[e] \in Int
    PROVE  SumIs(TotalTokens(T), Measured(T), f)
  <1> DEFINE S == Measured(T)
             pick == [s \in SUBSET S |-> CHOOSE x \in s : TRUE]
             tokens == [e \in S |-> e.tokens]
             Body(g) == [s \in SUBSET S |->
                            IF s = {} THEN 0
                            ELSE (CHOOSE x \in s : TRUE).tokens + g[s \ {CHOOSE x \in s : TRUE}]]
             iter == CHOOSE g : g = Body(g)
  <1>1. TotalTokens(T) = iter[S]
    BY DEF TotalTokens, Measured, MapThenSumSet, MapThenFoldSet
  <1>2. IsFiniteSet(S)
    BY FS_Subset DEF Measured, OfType
  <1>3. \A e \in S : f[e] = e.tokens /\ f[e] \in Int
    OBVIOUS
  <1> HIDE DEF S
  <1>4. \A s \in SUBSET S : s # {} => pick[s] \in s /\ pick[s] = CHOOSE x \in s : TRUE
    OBVIOUS
  <1>5. tokens \in [S -> Int] /\ \A e \in S : tokens[e] = e.tokens
    BY <1>3
  <1> HIDE DEF pick, tokens
  <1>6. ASSUME NEW g PROVE g = Body(g) <=> IsSumFold(g, S, tokens, pick)
    <2>1. ASSUME NEW s \in SUBSET S
          PROVE  Body(g)[s] = IF s = {} THEN 0 ELSE tokens[pick[s]] + g[s \ {pick[s]}]
      <3>1. s # {} => pick[s] = (CHOOSE x \in s : TRUE) /\ tokens[pick[s]] = pick[s].tokens
        BY <1>4, <1>5
      <3>2. Body(g)[s] = IF s = {} THEN 0
                         ELSE (CHOOSE x \in s : TRUE).tokens + g[s \ {CHOOSE x \in s : TRUE}]
        OBVIOUS
      <3> HIDE DEF Body
      <3>3. CASE s = {}
        BY <3>2, <3>3
      <3>4. CASE s # {}
        BY <3>1, <3>2, <3>4
      <3> QED BY <3>3, <3>4
    <2>2. Body(g) = [s \in SUBSET S |-> IF s = {} THEN 0 ELSE tokens[pick[s]] + g[s \ {pick[s]}]]
      BY <2>1
    <2> HIDE DEF Body
    <2> QED BY <2>2 DEF IsSumFold
  <1> HIDE DEF Body
  <1>7. \E g : g = Body(g)
    BY <1>2, <1>4, <1>5, <1>6, SumFoldExists
  <1>8. IsSumFold(iter, S, tokens, pick)
    BY <1>6, <1>7
  <1> HIDE DEF iter
  <1>9. SumIs(iter[S], S, tokens)
    BY <1>2, <1>4, <1>5, <1>8, SumFoldSums
  <1>10. SumIs(iter[S], S, f)
    <2>1. \A e \in S : f[e] = tokens[e]
      BY <1>3, <1>5
    <2>2. PICK sum : IsSum(sum, S, tokens) /\ iter[S] = sum[S]
      BY <1>9 DEF SumIs
    <2>3. ASSUME NEW s \in SUBSET S, NEW x \in s PROVE sum[s] = f[x] + sum[s \ {x}]
      <3>1. sum[s] = tokens[x] + sum[s \ {x}]
        BY <2>2 DEF IsSum
      <3>2. f[x] = tokens[x]
        BY <2>1
      <3> QED BY <3>1, <3>2
    <2>4. IsSum(sum, S, f)
      BY <2>2, <2>3 DEF IsSum
    <2> QED BY <2>2, <2>4 DEF SumIs
  <1> QED BY <1>1, <1>10 DEF S

-----------------------------------------------------------------------------
(* Ledgers.                                                                 *)

\* The events of a ledger have a place in the order, and machine and seq identify them.
LEMMA LedgerEvents ==
    ASSUME NEW S, NEW machines \in SUBSET (Nat \ {0}), NEW kinds, IsLedger(S, machines, kinds)
    PROVE  /\ \A e \in S : e.machine \in Nat /\ e.time \in Nat /\ e.seq \in Nat
           /\ \A e, f \in S : e.machine = f.machine /\ e.seq = f.seq => e = f
  <1>1. ASSUME NEW m \in machines,
               NEW e \in S, NEW f \in S, e.machine = m, f.machine = m, e.seq = f.seq
        PROVE  e = f
    <2> DEFINE logged == {g \in S : g.machine = m}
               N == 0 .. Cardinality(logged) - 1
               seqOf == [g \in logged |-> g.seq]
    <2>1. IsFiniteSet(logged)
      <3>1. IsFiniteSet(S) /\ logged \in SUBSET S
        BY DEF IsLedger
      <3> QED BY <3>1, FS_Subset
    <2>2. {g.seq : g \in logged} = N
      BY DEF IsLedger
    <2>3. Cardinality(logged) \in Nat
      BY <2>1, FS_CardinalityType
    <2>4. Cardinality(N) = Cardinality(logged)
      BY <2>3, CountFromZero
    <2>5. seqOf \in Surjection(logged, N)
      BY <2>2 DEF Surjection
    <2>6. e \in logged /\ f \in logged /\ seqOf[e] = seqOf[f]
      BY <1>1
    <2> HIDE DEF logged, N, seqOf
    <2>7. seqOf \in Injection(logged, N)
      BY <2>1, <2>4, <2>5, FS_SurjSameCardinalityImpliesInj
    <2> QED BY <2>6, <2>7 DEF Injection, IsInjective
  <1>2. ASSUME NEW e \in S PROVE e.machine \in Nat /\ e.time \in Nat /\ e.seq \in Nat
    <2> DEFINE logged == {g \in S : g.machine = e.machine}
    <2>1. e.machine \in machines /\ e.time \in Nat
      BY ViewsAssumption DEF IsLedger
    <2>2. {g.seq : g \in logged} = 0 .. Cardinality(logged) - 1
      BY <2>1 DEF IsLedger
    <2>3. IsFiniteSet(logged)
      <3>1. IsFiniteSet(S) /\ logged \in SUBSET S
        BY DEF IsLedger
      <3> QED BY <3>1, FS_Subset
    <2>4. Cardinality(logged) \in Nat
      BY <2>3, FS_CardinalityType
    <2>5. e.seq \in 0 .. Cardinality(logged) - 1
      BY <2>2
    <2>6. \A k \in Nat : 0 .. k - 1 \subseteq Nat
      OBVIOUS
    <2>7. e.seq \in Nat
      BY <2>4, <2>5, <2>6
    <2> QED BY <2>1, <2>7
  <1> QED BY <1>1, <1>2 DEF IsLedger

\* So are those of any part of it.
LEMMA LedgerNumbered ==
    ASSUME NEW S, NEW machines \in SUBSET (Nat \ {0}), NEW kinds, IsLedger(S, machines, kinds),
           NEW T \in SUBSET S
    PROVE  Numbered(T)
  <1>1. IsFiniteSet(S)
    BY DEF IsLedger
  <1>2. Numbered(S)
    BY <1>1, LedgerEvents DEF Numbered
  <1> QED BY <1>2, NumberedPart

-----------------------------------------------------------------------------
(* Limits.                                                                  *)

LEMMA MinOfTwo ==
    ASSUME NEW a \in Nat, NEW b \in Nat
    PROVE  Min({a, b}) = IF a <= b THEN a ELSE b
  BY DEF Min

\* A limit leaves the end of a sequence, as much of it as it can.
LEMMA NewestEnd ==
    ASSUME NEW S, NEW seq \in Seq(S), NEW limit \in Nat
    PROVE  LET s == Newest(seq, limit)
               cut == Len(seq) - Len(s)
           IN  /\ s \in Seq(S)
               /\ Len(s) = Min({limit, Len(seq)})
               /\ cut \in 0 .. Len(seq)
               /\ s = SubSeq(seq, cut + 1, Len(seq))
               /\ \A e : e \in Range(s) <=> \E i \in cut + 1 .. Len(seq) : e = seq[i]
  <1> DEFINE s == Newest(seq, limit)
             n == Len(seq)
             k == IF limit >= n THEN 0 ELSE n - limit
  <1>1. n \in Nat /\ k \in 0 .. n /\ DOMAIN seq = 1 .. n /\ \A i \in 1 .. n : seq[i] \in S
    BY LenProperties, ElementOfSeq
  <1>2. (limit >= n => k = 0) /\ (limit < n => k = n - limit)
    <2>1. n \in Nat
      BY <1>1
    <2> HIDE DEF n
    <2> QED BY <2>1
  <1> HIDE DEF k
  <1>3. s = SubSeq(seq, k + 1, n)
    <2>1. CASE limit >= n
      <3>1. s = seq /\ k + 1 = 1
        BY <1>2, <2>1 DEF Newest
      <3>2. SubSeq(seq, 1, n) = seq
        BY SubSeqFull
      <3> QED BY <3>1, <3>2
    <2>2. CASE limit < n
      <3>1. s = SubSeq(seq, n - limit + 1, n)
        BY <1>1, <2>2 DEF Newest
      <3> QED BY <1>2, <2>2, <3>1
    <2> QED BY <1>1, <2>1, <2>2
  <1> HIDE DEF s, n
  <1>4. /\ s \in Seq(S)
        /\ Len(s) = IF k + 1 <= n THEN n - (k + 1) + 1 ELSE 0
        /\ \A i \in 1 .. n - (k + 1) + 1 : s[i] = seq[k + 1 + i - 1]
    <2>1. k + 1 \in Int /\ n \in Int /\ \A i \in k + 1 .. n : seq[i] \in S
      BY <1>1
    <2> QED BY <1>3, <2>1, SubSeqProperties
  <1>5. Len(s) = n - k
    BY <1>1, <1>4
  <1>6. \A i \in 1 .. n - k : s[i] = seq[k + i]
    <2>1. \A i \in 1 .. n - k : i \in 1 .. n - (k + 1) + 1 /\ k + 1 + i - 1 = k + i
      BY <1>1
    <2> QED BY <1>4, <2>1
  <1>7. Len(s) = Min({limit, n})
    BY <1>1, <1>2, <1>5, MinOfTwo
  <1>8. \A e : e \in Range(s) <=> \E i \in k + 1 .. n : e = seq[i]
    <2>1. DOMAIN s = 1 .. n - k
      BY <1>4, <1>5, LenProperties
    <2>2. ASSUME NEW i \in k + 1 .. n PROVE i - k \in 1 .. n - k /\ s[i - k] = seq[i]
      <3>1. i - k \in 1 .. n - k /\ k + (i - k) = i
        BY <1>1
      <3> QED BY <1>6, <3>1
    <2>3. ASSUME NEW i \in 1 .. n - k PROVE k + i \in k + 1 .. n /\ s[i] = seq[k + i]
      BY <1>1, <1>6
    <2> QED BY <2>1, <2>2, <2>3 DEF Range
  <1>9. n - Len(s) = k
    BY <1>1, <1>5
  <1> QED BY <1>1, <1>3, <1>4, <1>7, <1>8, <1>9 DEF s, n

\* Nothing is cut off unless the limit is reached.
LEMMA NewestFull ==
    ASSUME NEW S, NEW machines \in SUBSET (Nat \ {0}), NEW kinds, IsLedger(S, machines, kinds),
           NEW T \in SUBSET S, NEW limit \in Nat,
           NEW e \in T \ Range(Newest(Ordered(T), limit))
    PROVE  Len(Newest(Ordered(T), limit)) = limit
  <1> DEFINE seq == Ordered(T)
             s == Newest(seq, limit)
  <1>1. seq \in Seq(T) /\ Range(seq) = T /\ Len(seq) \in Nat
    BY LedgerNumbered, OrderedSorts, LenProperties
  <1> HIDE DEF seq
  <1>2. limit < Len(seq)
    <2>1. limit >= Len(seq) => s = seq
      BY DEF Newest
    <2>2. e \in Range(seq) /\ e \notin Range(s)
      BY <1>1 DEF seq
    <2> QED BY <1>1, <2>1, <2>2
  <1>3. Len(s) = Min({limit, Len(seq)})
    BY <1>1, NewestEnd
  <1>4. Len(s) = limit
    BY <1>1, <1>2, <1>3, MinOfTwo
  <1> QED BY <1>4 DEF s, seq

\* What a limit cuts off of a part of a ledger is not newer than what it leaves.
LEMMA NewestNotOlder ==
    ASSUME NEW S, NEW machines \in SUBSET (Nat \ {0}), NEW kinds, IsLedger(S, machines, kinds),
           NEW T \in SUBSET S, NEW limit \in Nat,
           NEW e \in T \ Range(Newest(Ordered(T), limit)),
           NEW f \in Range(Newest(Ordered(T), limit))
    PROVE  e.time <= f.time
  <1> DEFINE seq == Ordered(T)
             s == Newest(seq, limit)
             k == Len(seq) - Len(s)
  <1>1. /\ seq \in Seq(T) /\ Range(seq) = T
        /\ \A i, j \in 1 .. Len(seq) : i < j => Precedes(seq[i], seq[j])
    BY LedgerNumbered, OrderedSorts
  <1>2. Len(seq) \in Nat /\ DOMAIN seq = 1 .. Len(seq)
    BY <1>1, LenProperties
  <1> HIDE DEF seq
  <1>3. /\ k \in 0 .. Len(seq)
        /\ \A g : g \in Range(s) <=> \E i \in k + 1 .. Len(seq) : g = seq[i]
    BY <1>1, NewestEnd, ZenonT(60)
  <1> HIDE DEF s
  <1>4. e \in T /\ e \notin Range(s) /\ f \in Range(s)
    BY DEF s, seq
  <1>5. PICK i \in 1 .. Len(seq) : e = seq[i]
    BY <1>1, <1>2, <1>4 DEF Range
  <1>6. PICK j \in k + 1 .. Len(seq) : f = seq[j]
    BY <1>3, <1>4
  <1>7. i \notin k + 1 .. Len(seq)
    BY <1>3, <1>4, <1>5
  <1>8. i <= k /\ i < j /\ j \in 1 .. Len(seq)
    BY <1>2, <1>3, <1>7
  <1>9. Precedes(e, f)
    BY <1>1, <1>5, <1>6, <1>8
  <1>10. f \in T
    BY <1>1, <1>2, <1>6, <1>8 DEF Range
  <1>11. e.time \in Nat /\ f.time \in Nat
    BY <1>10, LedgerEvents
  <1> QED BY <1>9, <1>11 DEF Precedes

-----------------------------------------------------------------------------
(* The type invariant.                                                      *)

LEMMA WorkloadsAre ==
    ASSUME NEW w \in Workloads
    PROVE  /\ w.machines \in SUBSET (Nat \ {0})
           /\ IsLedger(w.there, w.machines, w.kinds)
           /\ \A k \in w.kinds : k = KindOf(k) /\ k.tokens \in Int
           /\ \A k \in w.kinds : \A t, u \in k.tags : t.key = u.key => t = u
           /\ \A r \in w.asks : r.limit \in Seq(Int) /\ Len(r.limit) <= 1
  BY ViewsAssumption DEF IsWorkload

LEMMA TypeStep == TypeOK /\ [Next]_vars => TypeOK'
  <1> SUFFICES ASSUME TypeOK, [Next]_vars PROVE TypeOK'
    OBVIOUS
  <1>1. CASE UNCHANGED vars
    BY <1>1 DEF vars, TypeOK
  <1>2. ASSUME NEW m \in workload.machines, NEW kind \in workload.kinds,
               NEW t \in 1 .. MaxTime, Log(m, kind, t)
        PROVE  TypeOK'
    <2> DEFINE of(S, n) == {e \in S : e.machine = n}
               n0 == NextSeq(m)
               new == Event(m, kind, t)
    <2>1. /\ workload \in Workloads /\ workload' = workload
          /\ IsLedger(ledger, workload.machines, workload.kinds)
          /\ ledger' = ledger \cup {new}
      BY <1>2 DEF Log, TypeOK
    <2>2. kind = KindOf(kind)
      BY <2>1, WorkloadsAre
    <2>3. /\ new.machine = m /\ new.time = t /\ new.seq = n0
          /\ KindOf(new) = kind
      BY <2>2 DEF Event, KindOf
    <2> HIDE DEF new, n0
    <2>4. ASSUME NEW n \in workload.machines
          PROVE  /\ IsFiniteSet(of(ledger, n))
                 /\ Cardinality(of(ledger, n)) \in Nat
                 /\ {e.seq : e \in of(ledger, n)} = 0 .. Cardinality(of(ledger, n)) - 1
      <3>1. IsFiniteSet(ledger) /\ of(ledger, n) \in SUBSET ledger
        BY <2>1 DEF IsLedger
      <3>2. IsFiniteSet(of(ledger, n)) /\ Cardinality(of(ledger, n)) \in Nat
        BY <3>1, FS_Subset, FS_CardinalityType
      <3> QED BY <2>1, <3>2 DEF IsLedger
    <2>5. ASSUME NEW n \in workload.machines
          PROVE  {e.seq : e \in of(ledger', n)} = 0 .. Cardinality(of(ledger', n)) - 1
      <3>1. CASE n # m
        <4>1. of(ledger', n) = of(ledger, n)
          BY <2>1, <2>3, <3>1
        <4> QED BY <2>4, <4>1
      <3>2. CASE n = m
        <4> DEFINE old == of(ledger, m)
        <4>1. of(ledger', n) = old \cup {new}
          BY <2>1, <2>3, <3>2
        <4>2. n0 = Cardinality(old)
          BY DEF n0, NextSeq
        <4>3. IsFiniteSet(old) /\ n0 \in Nat /\ {e.seq : e \in old} = 0 .. n0 - 1
          BY <2>4, <4>2
        <4> HIDE DEF old
        <4>4. new \notin old
          <5>1. n0 \notin 0 .. n0 - 1
            BY <4>3
          <5> QED BY <2>3, <4>3, <5>1
        <4>5. Cardinality(old \cup {new}) = n0 + 1
          BY <4>2, <4>3, <4>4, FS_AddElement
        <4>6. {e.seq : e \in old \cup {new}} = (0 .. n0 - 1) \cup {n0}
          BY <2>3, <4>3
        <4>7. (0 .. n0 - 1) \cup {n0} = 0 .. (n0 + 1) - 1
          BY <4>3
        <4> QED BY <4>1, <4>5, <4>6, <4>7
      <3> QED BY <3>1, <3>2
    <2>6. IsFiniteSet(ledger')
      BY <2>1, FS_AddElement DEF IsLedger
    <2>7. \A e \in ledger' :
              /\ e.machine \in workload.machines
              /\ e.time \in 1 .. MaxTime
              /\ KindOf(e) \in workload.kinds
      BY <2>1, <2>3 DEF IsLedger
    <2>8. IsLedger(ledger', workload.machines, workload.kinds)
      BY <2>5, <2>6, <2>7 DEF IsLedger
    <2> QED BY <2>1, <2>8 DEF TypeOK
  <1> QED BY <1>1, <1>2 DEF Next

\* What the store numbers is a ledger: seqs from 0 on every machine, without a gap.
THEOREM TypeCorrect == Spec => []TypeOK
  <1>1. Init => TypeOK
    BY WorkloadsAre DEF Init, TypeOK
  <1> QED BY <1>1, TypeStep, PTL DEF Spec

\* A ledger as the lemmas above want it.
LEMMA LedgerHolds ==
    ASSUME TypeOK
    PROVE  /\ workload \in Workloads
           /\ workload.machines \in SUBSET (Nat \ {0})
           /\ IsLedger(ledger, workload.machines, workload.kinds)
  BY WorkloadsAre DEF TypeOK

-----------------------------------------------------------------------------
(* Requests.                                                                *)

LEMMA LimitIsNumber ==
    ASSUME TypeOK, NEW r \in workload.asks
    PROVE  r.limit = <<>> \/ r.limit[1] \in Int
  <1>1. r.limit \in Seq(Int) /\ Len(r.limit) <= 1
    BY LedgerHolds, WorkloadsAre
  <1>2. Len(r.limit) \in Nat /\ (Len(r.limit) = 0 => r.limit = <<>>)
    BY <1>1, LenProperties, EmptySeq
  <1>3. Len(r.limit) = 1 => r.limit[1] \in Int
    BY <1>1, ElementOfSeq
  <1> QED BY <1>1, <1>2, <1>3

\* `ledger show`, ledger_query and the server answer the same request alike, in every
\* ledger.
THEOREM AnswersAgree == Spec => []SameAnswer
  <1>1. TypeOK => SameAnswer
    <2> SUFFICES ASSUME TypeOK, NEW r \in workload.asks, Common(r)
                 PROVE  /\ LedgerQuery(ledger, r) =
                               [count |-> Len(Show(ledger, r)), events |-> Show(ledger, r)]
                        /\ EventsShown(ledger, r) = Show(ledger, r)
      BY DEF SameAnswer
    <2> DEFINE found == Ordered(QueryEvents(ledger, QueryOf(r)))
    <2>2. r.limit = <<>> \/ r.limit[1] \in Int
      BY LimitIsNumber
    <2>3. QueryFromParams(r) = QueryOf(r)
      BY DEF Common, QueryFromParams, QueryOf, Single
    <2>4. Selected(ledger, r) = QueryEvents(ledger, QueryOf(r))
      <3>1. Single(r.project, "") = <<>>
        BY DEF Single, Common
      <3> QED BY <2>3, <3>1 DEF Selected, FilterByProject, Allows
    <2>5. EventsShown(ledger, r) = ApplyLimit(found, LimitFromParams(r))
      BY <2>4 DEF EventsShown
    <2>6. Show(ledger, r) = UpTo(found, r.limit)
      BY DEF Show
    <2> HIDE DEF found
    <2>7. ApplyLimit(found, LimitFromParams(r)) = UpTo(found, r.limit)
      <3>1. CASE r.limit = <<>>
        BY <3>1 DEF ApplyLimit, LimitFromParams, UpTo
      <3>2. CASE r.limit # <<>> /\ r.limit[1] < 0
        <4>1. LimitFromParams(r) = <<>>
          BY <2>2, <3>2 DEF LimitFromParams
        <4> QED BY <3>2, <4>1 DEF ApplyLimit, UpTo
      <3>3. CASE r.limit # <<>> /\ r.limit[1] >= 0
        <4>1. LimitFromParams(r) = r.limit
          BY <3>3 DEF LimitFromParams
        <4> QED BY <2>2, <3>3, <4>1 DEF ApplyLimit, UpTo
      <3> QED BY <2>2, <3>1, <3>2, <3>3
    <2> QED BY <2>5, <2>6, <2>7 DEF LedgerQuery, Show
  <1> QED BY <1>1, TypeCorrect, PTL

\* A limit leaves the newest of a ledger and of its failures, and no fewer than it can.
THEOREM LimitsKeepNewest == Spec => []NewestKept
  <1>1. TypeOK => NewestKept
    <2> SUFFICES ASSUME TypeOK PROVE NewestKept
      OBVIOUS
    <2> DEFINE all == Ordered(ledger)
               failed == OfType(ledger, FailureType)
    <2>1. all \in Seq(ledger) /\ Len(all) \in Nat
      BY LedgerHolds, LedgerNumbered, OrderedSorts, LenProperties
    <2>2. ASSUME NEW limit \in 0 .. Len(all) + 1
          PROVE  /\ Len(Newest(all, limit)) = Min({limit, Len(all)})
                 /\ \A e \in ledger \ Range(Newest(all, limit)), f \in Range(Newest(all, limit)) :
                        e.time <= f.time
      <3>1. limit \in Nat
        BY <2>1
      <3>2. Len(Newest(all, limit)) = Min({limit, Len(all)})
        BY <2>1, <3>1, NewestEnd
      <3>3. ASSUME NEW e \in ledger \ Range(Newest(all, limit)), NEW f \in Range(Newest(all, limit))
            PROVE  e.time <= f.time
        BY <3>1, LedgerHolds, NewestNotOlder
      <3> QED BY <3>2, <3>3
    <2>3. failed \in SUBSET ledger
      BY DEF OfType
    <2>4. RecentLimit \in Nat
      BY DigestAssumption
    <2>5. ASSUME NEW e \in failed \ Range(Recent(ledger, FailureType))
          PROVE  /\ Len(Recent(ledger, FailureType)) = RecentLimit
                 /\ \A f \in Range(Recent(ledger, FailureType)) : e.time <= f.time
      <3> DEFINE recent == Newest(Ordered(failed), RecentLimit)
      <3>1. Recent(ledger, FailureType) = recent
        BY DEF Recent
      <3>2. ASSUME NEW f \in Range(recent) PROVE e.time <= f.time
        <4>1. e \in failed \ Range(Newest(Ordered(failed), RecentLimit))
          BY <3>1
        <4> HIDE DEF failed
        <4> QED BY <2>3, <2>4, <4>1, LedgerHolds, NewestNotOlder
      <3>3. Len(recent) = RecentLimit
        BY <3>1, <2>3, <2>4, LedgerHolds, NewestFull
      <3> QED BY <3>1, <3>2, <3>3
    <2> QED BY <2>2, <2>5 DEF NewestKept
  <1> QED BY <1>1, TypeCorrect, PTL

-----------------------------------------------------------------------------
(* What the server offers for selection.                                    *)

\* Without limit and bounds, the server shows what the criteria select.
LEMMA ShownIsSelected ==
    ASSUME TypeOK, NEW r, r.limit = <<>>
    PROVE  Range(EventsShown(ledger, r)) = Selected(ledger, r)
  <1>1. Selected(ledger, r) \in SUBSET ledger
    BY DEF Selected, FilterByProject, QueryEvents
  <1>2. EventsShown(ledger, r) = Ordered(Selected(ledger, r))
    BY DEF EventsShown, LimitFromParams, ApplyLimit
  <1> QED BY <1>1, <1>2, LedgerHolds, LedgerNumbered, OrderedSorts

\* S is a partition of the set whole.
Parts(S, whole) ==
    /\ UNION S = whole
    /\ {} \notin S
    /\ \A X, Y \in S : X = Y \/ X \cap Y = {}

\* Putting together what has the same value makes a partition.
LEMMA PartsByValue ==
    ASSUME NEW whole, NEW value, NEW like,
           \A e \in whole : like[e] = {f \in whole : value[f] = value[e]}
    PROVE  Parts({like[e] : e \in whole}, whole)
  <1> DEFINE parts == {like[e] : e \in whole}
  <1>1. \A e \in whole : e \in like[e] /\ like[e] \subseteq whole /\ like[e] \in parts
    OBVIOUS
  <1>2. ASSUME NEW e \in whole, NEW f \in whole, NEW g \in whole, g \in like[e], g \in like[f]
        PROVE  like[e] = like[f]
    <2>1. value[e] = value[f]
      BY <1>2
    <2> QED BY <2>1
  <1>3. \A X \in parts : \E e \in whole : X = like[e]
    OBVIOUS
  <1> HIDE DEF parts
  <1>4. UNION parts = whole
    BY <1>1, <1>3
  <1>5. {} \notin parts
    BY <1>1, <1>3
  <1>6. ASSUME NEW X \in parts, NEW Y \in parts, NEW g \in X \cap Y PROVE X = Y
    <2>1. PICK e \in whole : X = like[e]
      BY <1>3
    <2>2. PICK f \in whole : Y = like[f]
      BY <1>3
    <2> QED BY <1>1, <1>2, <1>6, <2>1, <2>2
  <1> QED BY <1>4, <1>5, <1>6 DEF Parts, parts

\* The requests of one criterion.
Every == Between(NoBound, NoBound)
BySource(v) == [Every EXCEPT !.source = <<v>>]
ByMachine(v) == [Every EXCEPT !.machine = <<v>>]
ByType(v) == [Every EXCEPT !.type = <<GlobOf(v)>>]
ByProject(v) == [Every EXCEPT !.project = <<v>>]
NewestByProject(v, limit) == [Every EXCEPT !.project = <<v>>, !.limit = limit]

\* What a request of a single criterion that is not blank selects.
LEMMA SelectedBy ==
    ASSUME NEW events
    PROVE  /\ \A v, e : v # BlankSource =>
                  (e \in Selected(events, BySource(v)) <=> e \in events /\ e.source = v)
           /\ \A v, e : v # 0 =>
                  (e \in Selected(events, ByMachine(v)) <=> e \in events /\ e.machine = v)
           /\ \A v, e : v # BlankType =>
                  (e \in Selected(events, ByType(v)) <=> e \in events /\ e.type \in GlobOf(v))
           /\ \A v, e : v # "" =>
                  (e \in Selected(events, ByProject(v)) <=>
                       e \in events /\ ProjectOf(e.source) = v)
           /\ \A v, limit :
                  Selected(events, NewestByProject(v, limit)) = Selected(events, ByProject(v))
  <1> USE DEF Every, Between, Selected, FilterByProject, QueryEvents, QueryFromParams, Matches,
              Allows, AllowsType, Single
  <1>1. ASSUME NEW v, v # BlankSource, NEW e
        PROVE  e \in Selected(events, BySource(v)) <=> e \in events /\ e.source = v
    BY <1>1 DEF BySource
  <1>2. ASSUME NEW v, v # 0, NEW e
        PROVE  e \in Selected(events, ByMachine(v)) <=> e \in events /\ e.machine = v
    BY <1>2 DEF ByMachine
  <1>3. ASSUME NEW v, v # BlankType, NEW e
        PROVE  e \in Selected(events, ByType(v)) <=> e \in events /\ e.type \in GlobOf(v)
    <2>1. <<GlobOf(v)>> # <<{BlankType}>>
      BY <1>3, RequestsAssumption DEF GlobOf
    <2> QED BY <2>1 DEF ByType
  <1>4. ASSUME NEW v, v # "", NEW e
        PROVE  e \in Selected(events, ByProject(v)) <=> e \in events /\ ProjectOf(e.source) = v
    BY <1>4 DEF ByProject
  <1>5. ASSUME NEW v, NEW limit
        PROVE  Selected(events, NewestByProject(v, limit)) = Selected(events, ByProject(v))
    <2> DEFINE r == NewestByProject(v, limit)
               q == ByProject(v)
    <2>1. /\ r.source = q.source /\ r.type = q.type /\ r.machine = q.machine
          /\ r.project = q.project /\ r.since = q.since /\ r.until = q.until
      BY DEF ByProject, NewestByProject
    <2> HIDE DEF r, q
    <2>2. QueryFromParams(r) = QueryFromParams(q)
      BY <2>1
    <2> HIDE DEF QueryFromParams, QueryEvents, FilterByProject
    <2>3. Selected(events, r) = Selected(events, q)
      BY <2>1, <2>2
    <2> QED BY <2>3 DEF r, q
  <1> HIDE DEF Every, Between, Selected, FilterByProject, QueryEvents, QueryFromParams, Matches,
               Allows, AllowsType, Single
  <1> QED BY <1>1, <1>2, <1>3, <1>4, <1>5

LEMMA UnlimitedBy ==
    /\ \A v : /\ BySource(v).limit = <<>> /\ ByMachine(v).limit = <<>>
              /\ ByType(v).limit = <<>> /\ ByProject(v).limit = <<>>
    /\ \A v, limit : NewestByProject(v, limit).limit = limit
  BY DEF BySource, ByMachine, ByType, ByProject, NewestByProject, Every, Between

\* What the server finds by one of the values that it offers.
LEMMA FoundBy ==
    ASSUME TypeOK
    PROVE  LET Found(r) == Range(EventsShown(ledger, r))
           IN  /\ \A v : v # BlankSource =>
                      Found(BySource(v)) = {f \in ledger : f.source = v}
               /\ \A v : v # 0 => Found(ByMachine(v)) = {f \in ledger : f.machine = v}
               /\ \A v : v # BlankType =>
                      Found(ByType(v)) = {f \in ledger : f.type \in GlobOf(v)}
               /\ \A v : v # "" =>
                      Found(ByProject(v)) = {f \in ledger : ProjectOf(f.source) = v}
  <1> DEFINE Found(r) == Range(EventsShown(ledger, r))
  <1>1. \A r : r.limit = <<>> => Found(r) = Selected(ledger, r)
    BY ShownIsSelected
  <1> HIDE DEF Found
  <1>2. ASSUME NEW v, v # BlankSource
        PROVE  Found(BySource(v)) = {f \in ledger : f.source = v}
    <2>1. Found(BySource(v)) = Selected(ledger, BySource(v))
      BY <1>1, UnlimitedBy
    <2>2. \A f : f \in Selected(ledger, BySource(v)) <=> f \in ledger /\ f.source = v
      BY <1>2, SelectedBy
    <2> QED BY <2>1, <2>2
  <1>3. ASSUME NEW v, v # 0
        PROVE  Found(ByMachine(v)) = {f \in ledger : f.machine = v}
    <2>1. Found(ByMachine(v)) = Selected(ledger, ByMachine(v))
      BY <1>1, UnlimitedBy
    <2>2. \A f : f \in Selected(ledger, ByMachine(v)) <=> f \in ledger /\ f.machine = v
      BY <1>3, SelectedBy
    <2> QED BY <2>1, <2>2
  <1>4. ASSUME NEW v, v # BlankType
        PROVE  Found(ByType(v)) = {f \in ledger : f.type \in GlobOf(v)}
    <2>1. Found(ByType(v)) = Selected(ledger, ByType(v))
      BY <1>1, UnlimitedBy
    <2>2. \A f : f \in Selected(ledger, ByType(v)) <=> f \in ledger /\ f.type \in GlobOf(v)
      BY <1>4, SelectedBy
    <2> QED BY <2>1, <2>2
  <1>5. ASSUME NEW v, v # ""
        PROVE  Found(ByProject(v)) = {f \in ledger : ProjectOf(f.source) = v}
    <2>1. Found(ByProject(v)) = Selected(ledger, ByProject(v))
      BY <1>1, UnlimitedBy
    <2>2. \A f : f \in Selected(ledger, ByProject(v)) <=>
                     f \in ledger /\ ProjectOf(f.source) = v
      BY <1>5, SelectedBy
    <2> QED BY <2>1, <2>2
  <1> QED BY <1>2, <1>3, <1>4, <1>5 DEF Found

\* A limit leaves the end of what a project has.
LEMMA ProjectCut ==
    ASSUME TypeOK, NEW v, NEW r \in workload.asks
    PROVE  LET all == EventsShown(ledger, ByProject(v))
               cut == EventsShown(ledger, NewestByProject(v, r.limit))
           IN  /\ r.limit # <<>> /\ r.limit[1] >= 0 => Len(cut) = Min({Len(all), r.limit[1]})
               /\ cut = SubSeq(all, Len(all) - Len(cut) + 1, Len(all))
  <1> DEFINE all == EventsShown(ledger, ByProject(v))
             cut == EventsShown(ledger, NewestByProject(v, r.limit))
             S == Selected(ledger, ByProject(v))
  <1>1. all = Ordered(S)
    BY UnlimitedBy DEF EventsShown, LimitFromParams, ApplyLimit
  <1>2. cut = ApplyLimit(all, LimitFromParams(NewestByProject(v, r.limit)))
    <2>1. Selected(ledger, NewestByProject(v, r.limit)) = S
      BY SelectedBy
    <2> QED BY <1>1, <2>1 DEF EventsShown
  <1>3. S \in SUBSET ledger
    BY DEF Selected, FilterByProject, QueryEvents
  <1>4. all \in Seq(S) /\ Len(all) \in Nat
    BY <1>1, <1>3, LedgerHolds, LedgerNumbered, OrderedSorts, LenProperties
  <1>5. r.limit = <<>> \/ r.limit[1] \in Int
    BY LimitIsNumber
  <1> HIDE DEF all, cut, S
  <1>6. CASE r.limit # <<>> /\ r.limit[1] >= 0
    <2>1. LimitFromParams(NewestByProject(v, r.limit)) = r.limit
      BY <1>6, UnlimitedBy DEF LimitFromParams
    <2>2. cut = Newest(all, r.limit[1])
      BY <1>2, <1>6, <2>1 DEF ApplyLimit
    <2>3. r.limit[1] \in Nat
      BY <1>5, <1>6
    <2>4. {r.limit[1], Len(all)} = {Len(all), r.limit[1]}
      OBVIOUS
    <2> QED BY <1>4, <2>2, <2>3, <2>4, NewestEnd DEF all, cut
  <1>7. CASE ~(r.limit # <<>> /\ r.limit[1] >= 0)
    <2>1. LimitFromParams(NewestByProject(v, r.limit)) = <<>>
      BY <1>7, UnlimitedBy DEF LimitFromParams
    <2>2. cut = all
      BY <1>2, <2>1 DEF ApplyLimit
    <2>3. Len(all) - Len(all) + 1 = 1
      BY <1>4
    <2>4. SubSeq(all, 1, Len(all)) = all
      BY <1>4, SubSeqFull
    <2> QED BY <1>7, <2>2, <2>3, <2>4 DEF all, cut
  <1> QED BY <1>6, <1>7

\* What /api/meta offers finds every event once, but for blank sources and types and
\* for types whose names are globs for others; these show whole types, and limits leave
\* the newest of a project.
THEOREM OffersSelect == Spec => []MetaSelects
  <1> SUFFICES ASSUME TypeOK PROVE MetaSelects
    BY TypeCorrect, PTL
  <1> DEFINE meta == MetaPayload(ledger)
             Found(r) == Range(EventsShown(ledger, r))
             projects == {Found(ByProject(v)) : v \in meta.projects \ {""}}
             named == {e \in ledger : ProjectOf(e.source) # ""}
             unclear == {BlankType} \cup DOMAIN Wild
             sources == {Found(BySource(v)) : v \in meta.sources \ {BlankSource}}
             sourced == {e \in ledger : e.source # BlankSource}
             types == {Found(ByType(v)) : v \in meta.types \ unclear}
             typed == {e \in ledger : e.type \notin unclear}
  <1>1. Parts(sources, sourced)
    <2> DEFINE value == [e \in sourced |-> e.source]
               like == [e \in sourced |-> Found(BySource(value[e]))]
    <2>1. ASSUME NEW e \in sourced PROVE like[e] = {f \in sourced : value[f] = value[e]}
      <3>1. value[e] # BlankSource
        OBVIOUS
      <3>2. Found(BySource(value[e])) = {f \in ledger : f.source = value[e]}
        BY <3>1, FoundBy
      <3> HIDE DEF Found
      <3> QED BY <3>1, <3>2
    <2>2. sources = {like[e] : e \in sourced}
      BY DEF MetaPayload
    <2> HIDE DEF value, like, sources, sourced
    <2> QED BY <2>1, <2>2, PartsByValue
  <1>2. Parts({Found(ByMachine(v)) : v \in meta.machines}, ledger)
    <2> DEFINE value == [e \in ledger |-> e.machine]
               like == [e \in ledger |-> Found(ByMachine(e.machine))]
    <2>1. ASSUME NEW e \in ledger PROVE like[e] = {f \in ledger : value[f] = value[e]}
      <3>1. value[e] # 0
        BY LedgerHolds DEF IsLedger
      <3>2. Found(ByMachine(value[e])) = {f \in ledger : f.machine = value[e]}
        BY <3>1, FoundBy
      <3> HIDE DEF Found
      <3> QED BY <3>1, <3>2
    <2>2. {Found(ByMachine(v)) : v \in meta.machines} = {like[e] : e \in ledger}
      BY DEF MetaPayload
    <2> HIDE DEF value, like, Found, meta
    <2>3. Parts({like[e] : e \in ledger}, ledger)
      BY <2>1, PartsByValue
    <2> QED BY <2>2, <2>3
  <1>3. Parts(types, typed)
    <2> DEFINE value == [e \in typed |-> e.type]
               like == [e \in typed |-> Found(ByType(value[e]))]
    <2>1. ASSUME NEW e \in typed PROVE like[e] = {f \in typed : value[f] = value[e]}
      <3>1. value[e] \notin unclear
        OBVIOUS
      <3>2. Found(ByType(value[e])) = {f \in ledger : f.type \in GlobOf(value[e])}
        BY <3>1, FoundBy
      <3>3. GlobOf(value[e]) = {value[e]}
        BY <3>1 DEF GlobOf
      <3> HIDE DEF Found
      <3> QED BY <3>1, <3>2, <3>3
    <2>2. types = {like[e] : e \in typed}
      BY DEF MetaPayload
    <2> HIDE DEF value, like, types, typed
    <2> QED BY <2>1, <2>2, PartsByValue
  <1>4. Parts(projects, named)
    <2> DEFINE value == [e \in named |-> ProjectOf(e.source)]
               like == [e \in named |-> Found(ByProject(value[e]))]
    <2>1. ASSUME NEW e \in named PROVE like[e] = {f \in named : value[f] = value[e]}
      <3>1. value[e] # ""
        OBVIOUS
      <3>2. Found(ByProject(value[e])) = {f \in ledger : ProjectOf(f.source) = value[e]}
        BY <3>1, FoundBy
      <3> HIDE DEF Found
      <3> QED BY <3>1, <3>2
    <2>2. projects = {like[e] : e \in named}
      BY DEF MetaPayload
    <2> HIDE DEF value, like, projects, named
    <2> QED BY <2>1, <2>2, PartsByValue
  <1>5. ASSUME NEW v, NEW r \in workload.asks
        PROVE  LET all == EventsShown(ledger, ByProject(v))
                   cut == EventsShown(ledger, NewestByProject(v, r.limit))
               IN  /\ r.limit # <<>> /\ r.limit[1] >= 0 => Len(cut) = Min({Len(all), r.limit[1]})
                   /\ cut = SubSeq(all, Len(all) - Len(cut) + 1, Len(all))
    BY ProjectCut
  <1>6. ASSUME NEW v \in meta.types \cap DOMAIN Wild, NEW S \in types
        PROVE  S \subseteq Found(ByType(v)) \/ S \cap Found(ByType(v)) = {}
    <2>1. PICK u \in meta.types \ unclear : S = Found(ByType(u))
      OBVIOUS
    <2>2. Found(ByType(u)) = {f \in ledger : f.type = u}
      <3>1. u # BlankType /\ GlobOf(u) = {u}
        BY <2>1 DEF GlobOf
      <3>2. Found(ByType(u)) = {f \in ledger : f.type \in GlobOf(u)}
        BY <3>1, FoundBy
      <3> HIDE DEF Found
      <3> QED BY <3>1, <3>2
    <2>3. v # BlankType
      BY RequestsAssumption
    <2>4. Found(ByType(v)) = {f \in ledger : f.type \in GlobOf(v)}
      BY <2>3, FoundBy
    <2> HIDE DEF Found, types, meta
    <2> QED BY <2>1, <2>2, <2>4
  <1> QED
    BY <1>1, <1>2, <1>3, <1>4, <1>5, <1>6
    DEF MetaSelects, Parts, Every, BySource, ByMachine, ByType, ByProject, NewestByProject

-----------------------------------------------------------------------------
(* Outliers.                                                                *)

\* The values of a metric are those of a sequence that holds each measured event once.
LEMMA MetricSorts ==
    ASSUME NEW S, NEW machines \in SUBSET (Nat \ {0}), NEW kinds, IsLedger(S, machines, kinds),
           \A k \in kinds : k.tokens \in Int,
           NEW events \in SUBSET S
    PROVE  \E s \in Seq(Measured(events)) :
               /\ Range(s) = Measured(events)
               /\ Metric(events) = [i \in 1 .. Len(s) |-> s[i].tokens]
               /\ \A i, j \in 1 .. Len(s) : i < j => s[i].tokens <= s[j].tokens
  <1> DEFINE T == Measured(events)
             Smaller(e, f) == e.tokens < f.tokens \/ (e.tokens = f.tokens /\ Precedes(e, f))
             rank(e) == Cardinality({f \in T : Smaller(f, e)})
             s == Sorted(T, Smaller)
             size == [e \in T |-> e.tokens]
             before == [e \in T |-> {f \in T :
                           size[f] < size[e] \/ (size[f] = size[e] /\ Precedes(f, e))}]
  <1>1. T \in SUBSET S
    BY DEF Measured, OfType
  <1>2. IsFiniteSet(T) /\ Cardinality(T) \in Nat
    <2>1. IsFiniteSet(S)
      BY DEF IsLedger
    <2> QED BY <1>1, <2>1, FS_Subset, FS_CardinalityType
  <1>3. size \in [T -> Int]
    <2>1. \A e \in T : KindOf(e) \in kinds
      BY <1>1 DEF IsLedger
    <2>2. \A e \in T : e.tokens = KindOf(e).tokens
      BY DEF KindOf
    <2>3. \A e \in T : e.tokens \in Int
      BY <2>1, <2>2
    <2> HIDE DEF T
    <2> QED BY <2>3
  <1>4. \A e \in T : before[e] = {f \in T : Smaller(f, e)} /\ size[e] = e.tokens
    OBVIOUS
  <1>5. Metric(events) = [i \in DOMAIN s |-> s[i].tokens]
    BY DEF Metric, Measured
  <1>6. s = [n \in 1 .. Cardinality(T) |-> CHOOSE e \in T : rank(e) = n - 1]
    BY DEF Sorted
  <1>7. \A e \in T : rank(e) = Cardinality(before[e])
    BY <1>4
  <1> HIDE DEF T, size, s, Smaller
  <1>8. IsOrder(T, before)
    BY <1>1, <1>3, LedgerNumbered, PrecedesOrders
  <1> HIDE DEF before, rank
  <1>9. ASSUME NEW n \in 1 .. Cardinality(T)
        PROVE  \E e \in T : rank(e) = n - 1
    <2>1. \E e \in T : Cardinality(before[e]) = n - 1
      BY <1>2, <1>8, RankTaken
    <2> QED BY <1>7, <2>1
  <1>10. \A n \in 1 .. Cardinality(T) : s[n] \in T /\ rank(s[n]) = n - 1
    BY <1>6, <1>9
  <1>11. s \in [1 .. Cardinality(T) -> T]
    BY <1>6, <1>10
  <1>12. \A n \in 1 .. Cardinality(T) : Cardinality(before[s[n]]) = n - 1
    BY <1>7, <1>10
  <1>13. /\ s \in Seq(T) /\ Len(s) = Cardinality(T) /\ Range(s) = T
         /\ \A i, j \in 1 .. Len(s) : i < j => s[i] \in before[s[j]]
    BY <1>2, <1>8, <1>11, <1>12, RankSorts
  <1>14. DOMAIN s = 1 .. Len(s)
    BY <1>13, LenProperties
  <1>15. ASSUME NEW i \in 1 .. Len(s), NEW j \in 1 .. Len(s), i < j
         PROVE  s[i].tokens <= s[j].tokens
    <2>1. s[i] \in T /\ s[j] \in T /\ s[i] \in before[s[j]]
      BY <1>10, <1>13, <1>15
    <2>2. Smaller(s[i], s[j])
      BY <1>4, <2>1
    <2>3. s[i].tokens \in Int /\ s[j].tokens \in Int
      BY <1>3, <1>4, <2>1
    <2> QED BY <2>2, <2>3 DEF Smaller
  <1> QED BY <1>5, <1>13, <1>14, <1>15 DEF T

\* Half of a sequence at most lies after its middle.
LEMMA UpperHalf ==
    ASSUME NEW S, NEW s \in Seq(S), NEW T, NEW h \in Nat, 2 * h >= Len(s),
           \A e \in T : \E i \in h + 1 .. Len(s) : e = s[i]
    PROVE  2 * Cardinality(T) <= Len(s)
  <1> DEFINE n == Len(s)
             I == h + 1 .. n
             g == [i \in I |-> s[i]]
             U == {s[i] : i \in I}
  <1>1. n \in Nat
    BY LenProperties
  <1>2. g \in Surjection(I, U)
    BY DEF Surjection
  <1>3. IsFiniteSet(I) /\ Cardinality(I) = IF h >= n THEN 0 ELSE n - h
    <2> HIDE DEF n
    <2>1. h + 1 \in Int /\ n \in Int
      BY <1>1
    <2>2. (IF h + 1 > n THEN 0 ELSE n - (h + 1) + 1) = IF h >= n THEN 0 ELSE n - h
      BY <1>1
    <2> QED BY <2>1, <2>2, FS_Interval
  <1>4. T \in SUBSET U
    OBVIOUS
  <1> HIDE DEF I, g, U, n
  <1>5. IsFiniteSet(U) /\ Cardinality(U) <= Cardinality(I)
    BY <1>2, <1>3, FS_Surjection
  <1>6. Cardinality(T) <= Cardinality(U) /\ Cardinality(T) \in Nat /\ Cardinality(U) \in Nat
    BY <1>4, <1>5, FS_Subset, FS_CardinalityType
  <1>7. 2 * h >= n
    BY DEF n
  <1>8. 2 * Cardinality(T) <= n
    BY <1>1, <1>3, <1>5, <1>6, <1>7
  <1> QED BY <1>8 DEF n

LEMMA LenIsDomain ==
    ASSUME NEW n \in Nat, NEW f, f = [i \in 1 .. n |-> f[i]]
    PROVE  Len(f) = n
  <1>1. f \in [1 .. n -> {f[i] : i \in 1 .. n}]
    OBVIOUS
  <1>2. f \in Seq({f[i] : i \in 1 .. n})
    BY <1>1, SeqDef
  <1>3. Len(f) \in Nat /\ DOMAIN f = 1 .. Len(f) /\ DOMAIN f = 1 .. n
    BY <1>1, <1>2, LenProperties
  <1> QED BY <1>3

LEMMA Multiples ==
    ASSUME NEW k \in Nat \ {0}, NEW x \in Nat
    PROVE  k * x >= x
  OBVIOUS

\* What is flagged lies above the middle of what is measured.
LEMMA OutliersAbove ==
    ASSUME NEW S, NEW s \in Seq(S), NEW values, values = [i \in 1 .. Len(s) |-> s[i].tokens],
           \A i \in 1 .. Len(s) : s[i].tokens \in Int,
           \A i, j \in 1 .. Len(s) : i < j => s[i].tokens <= s[j].tokens,
           Len(values) >= 2, TwiceMedian(values) > 0,
           NEW k \in Nat \ {0},
           NEW i \in 1 .. Len(s), 2 * s[i].tokens > k * TwiceMedian(values)
    PROVE  i > (Len(s) + 1) \div 2
  <1> DEFINE n == Len(s)
             h == (n + 1) \div 2
             l == n \div 2 + 1
             m == TwiceMedian(values)
  <1>1. n \in Nat
    BY LenProperties
  <1>2. Len(values) = n
    BY <1>1, LenIsDomain
  <1> HIDE DEF n
  <1>3. h \in 1 .. n /\ l \in 1 .. n /\ h <= l
    BY <1>1, <1>2
  <1>4. m = values[h] + values[l]
    BY <1>2 DEF TwiceMedian
  <1>5. values[h] = s[h].tokens /\ values[l] = s[l].tokens
    BY <1>3 DEF n
  <1> HIDE DEF h, l, m
  <1>6. s[h].tokens \in Int /\ s[l].tokens \in Int /\ s[i].tokens \in Int
    BY <1>3 DEF n
  <1>7. s[h].tokens <= s[l].tokens
    <2>1. CASE h = l
      BY <1>6, <2>1
    <2>2. CASE h < l
      BY <1>3, <2>2 DEF n
    <2> QED BY <1>3, <2>1, <2>2
  <1>8. m \in Nat
    <2>1. m > 0
      BY DEF m
    <2>2. m \in Int
      BY <1>4, <1>5, <1>6
    <2> QED BY <2>1, <2>2
  <1>9. k * m >= m /\ k * m \in Nat
    BY <1>8, Multiples
  <1>10. 2 * s[i].tokens > k * m
    BY DEF m
  <1>11. s[i].tokens > s[h].tokens
    <2>1. ASSUME NEW x \in Int, NEW y \in Int, NEW z \in Int, NEW p \in Nat,
                 x <= y, p >= x + y, 2 * z > p
          PROVE  z > x
      BY <2>1
    <2>2. m = s[h].tokens + s[l].tokens
      BY <1>4, <1>5
    <2> DEFINE p == k * m
    <2>3. p \in Nat /\ p >= s[h].tokens + s[l].tokens /\ 2 * s[i].tokens > p
      BY <1>9, <1>10, <2>2
    <2> HIDE DEF p
    <2> QED BY <1>6, <1>7, <2>1, <2>3
  <1>12. i > h
    <2>1. SUFFICES ASSUME i <= h PROVE FALSE
      BY <1>1, <1>3
    <2>2. CASE i = h
      BY <1>6, <1>11, <2>2
    <2>3. CASE i < h
      <3>1. s[i].tokens <= s[h].tokens
        BY <1>3, <2>3 DEF n
      <3> QED BY <1>6, <1>11, <3>1
    <2> QED BY <1>3, <2>1, <2>2, <2>3
  <1> QED BY <1>12 DEF h, n

\* Where an outlier is not less than the median, at most half of what is measured in a
\* window is flagged, and nothing that is not above all the rest.
THEOREM OutliersAreRare ==
    ASSUME OutlierFactor # 0
    PROVE  Spec => []OutliersRare
  <1>1. ASSUME TypeOK PROVE OutliersRare
    <2> SUFFICES ASSUME NEW a \in Moments, NEW b \in Moments
                 PROVE  LET out == FlagTokenOutliers(Window(a, b))
                        IN  /\ 2 * Cardinality(out) <= Len(Metric(Window(a, b)))
                            /\ \A e \in out, f \in OfType(Window(a, b), ShippedType) \ out :
                                   e.tokens > f.tokens
      BY DEF OutliersRare
    <2> DEFINE window == Window(a, b)
               values == Metric(window)
               out == FlagTokenOutliers(window)
               shipped == OfType(window, ShippedType)
    <2>1. window \in SUBSET ledger
      BY DEF Window, QueryEvents
    <2>2. PICK s \in Seq(Measured(window)) :
              /\ Range(s) = Measured(window)
              /\ values = [i \in 1 .. Len(s) |-> s[i].tokens]
              /\ \A i, j \in 1 .. Len(s) : i < j => s[i].tokens <= s[j].tokens
      <3>1. \A k \in workload.kinds : k.tokens \in Int
        BY <1>1, LedgerHolds, WorkloadsAre
      <3> HIDE DEF window
      <3> QED BY <1>1, <2>1, <3>1, LedgerHolds, MetricSorts
    <2>3. \A e \in window : e.tokens \in Int
      <3>1. \A e \in ledger : KindOf(e) \in workload.kinds
        BY <1>1, LedgerHolds DEF IsLedger
      <3>2. \A e \in ledger : KindOf(e).tokens \in Int
        BY <1>1, <3>1, LedgerHolds, WorkloadsAre
      <3>3. \A e : e.tokens = KindOf(e).tokens
        BY DEF KindOf
      <3> HIDE DEF window
      <3> QED BY <2>1, <3>2, <3>3
    <2>4. out = IF Len(values) < 2 \/ TwiceMedian(values) <= 0 THEN {}
                ELSE {e \in shipped : 2 * e.tokens > OutlierFactor * TwiceMedian(values)}
      BY DEF FlagTokenOutliers
    <2>5. Len(s) \in Nat /\ Len(values) = Len(s) /\ DOMAIN s = 1 .. Len(s)
      <3>1. Len(s) \in Nat /\ DOMAIN s = 1 .. Len(s)
        BY LenProperties
      <3> QED BY <2>2, <3>1, LenIsDomain
    <2> HIDE DEF window, values, out, shipped
    <2>6. CASE Len(values) < 2 \/ TwiceMedian(values) <= 0
      <3>1. out = {} /\ Cardinality({}) = 0
        BY <2>4, <2>6, FS_EmptySet
      <3> QED BY <2>5, <3>1 DEF out, values, window
    <2>7. CASE ~(Len(values) < 2 \/ TwiceMedian(values) <= 0)
      <3> DEFINE m == TwiceMedian(values)
      <3>1. /\ shipped \subseteq window
            /\ out = {e \in shipped : 2 * e.tokens > OutlierFactor * m}
        BY <2>4, <2>7 DEF shipped, OfType
      <3>2. OutlierFactor \in Nat \ {0}
        BY DigestAssumption
      <3>3. \A i \in 1 .. Len(s) : s[i] \in Measured(window) /\ s[i].tokens \in Int
        BY <2>3, <2>5, ElementOfSeq DEF Measured, OfType
      <3>4. Len(values) >= 2 /\ m > 0 /\ m \in Int
        <4> DEFINE h == (Len(s) + 1) \div 2
                   l == Len(s) \div 2 + 1
        <4>1. Len(values) >= 2
          BY <2>5, <2>7
        <4>2. h \in 1 .. Len(s) /\ l \in 1 .. Len(s)
          BY <2>5, <4>1
        <4>3. m = values[h] + values[l]
          BY <2>5 DEF TwiceMedian
        <4> HIDE DEF h, l
        <4>4. values[h] \in Int /\ values[l] \in Int
          BY <2>2, <3>3, <4>2
        <4>5. m \in Int
          BY <4>3, <4>4
        <4> QED BY <2>7, <4>1, <4>5
      <3> HIDE DEF m
      <3>5. OutlierFactor * m \in Int /\ OutlierFactor * m > 0
        BY <3>2, <3>4, Multiples
      <3>6. ASSUME NEW e \in out
            PROVE  \E i \in (Len(s) + 1) \div 2 + 1 .. Len(s) : e = s[i]
        <4>1. e \in shipped /\ e.tokens \in Int /\ 2 * e.tokens > OutlierFactor * m
          BY <2>3, <3>1
        <4>2. e.tokens # NoTokens
          BY <3>5, <4>1 DEF NoTokens
        <4>3. e \in Measured(window)
          BY <4>1, <4>2 DEF Measured, shipped
        <4>4. PICK i \in 1 .. Len(s) : e = s[i]
          BY <2>2, <2>5, <4>3 DEF Range
        <4>5. i > (Len(s) + 1) \div 2
          BY <2>2, <3>2, <3>3, <3>4, <4>1, <4>4, OutliersAbove DEF m
        <4>6. i \in (Len(s) + 1) \div 2 + 1 .. Len(s)
          BY <2>5, <4>5
        <4> QED BY <4>4, <4>6
      <3>7. 2 * Cardinality(out) <= Len(s)
        <4>1. (Len(s) + 1) \div 2 \in Nat /\ 2 * ((Len(s) + 1) \div 2) >= Len(s)
          BY <2>5
        <4> QED BY <3>6, <4>1, UpperHalf
      <3>8. ASSUME NEW e \in out, NEW f \in shipped \ out PROVE e.tokens > f.tokens
        <4>1. /\ e.tokens \in Int /\ f.tokens \in Int
              /\ 2 * e.tokens > OutlierFactor * m
              /\ ~(2 * f.tokens > OutlierFactor * m)
          BY <2>3, <3>1
        <4> QED BY <3>5, <4>1
      <3> QED BY <2>5, <3>7, <3>8 DEF out, shipped, values, window
    <2> QED BY <2>6, <2>7
  <1> QED BY <1>1, TypeCorrect, PTL

-----------------------------------------------------------------------------
(* Windows.                                                                 *)

\* A window has the events from one moment to before another.
LEMMA WindowIs ==
    ASSUME NEW a \in Moments, NEW b \in Moments
    PROVE  Window(a, b) = {e \in ledger : a <= e.time /\ e.time < b}
  <1>1. a # NoBound /\ b # NoBound
    BY ViewsAssumption DEF Moments, NoBound
  <1> QED BY <1>1 DEF Window, QueryEvents, QueryOf, Between, Matches, Allows, AllowsType

\* Digests see the pushes that a failure precedes with no ship between, in a window no
\* other than in the whole, and no spike that is none there.
THEOREM BlameIsSound == Spec => []PushesBlamed
  <1>1. ASSUME TypeOK PROVE PushesBlamed
    <2> DEFINE blamed == FlagPushWithoutGreen(ledger)
    <2>1. Numbered(ledger)
      BY <1>1, LedgerHolds, LedgerNumbered
    <2>2. blamed = Blamed(ledger)
      BY <2>1, PushFlags
    <2> HIDE DEF blamed
    <2>3. blamed =
               {p \in OfType(ledger, PushType) :
                   \E f \in OfType(ledger, FailureType) :
                       /\ Precedes(f, p)
                       /\ \A s \in OfType(ledger, ShippedType) :
                              Precedes(s, f) \/ Precedes(p, s)}
      BY <2>2 DEF Blamed, OfType
    <2>4. ASSUME NEW a \in Moments, NEW b \in Moments
          PROVE  /\ FlagPushWithoutGreen(Window(a, b)) \subseteq blamed
                 /\ Spike(Window(a, b)) => Spike(ledger)
      <3> DEFINE W == Window(a, b)
      <3>1. W = {e \in ledger : a <= e.time /\ e.time < b}
        BY WindowIs
      <3>2. Numbered(W)
        BY <2>1, <3>1, NumberedPart
      <3> HIDE DEF W
      <3>3. FlagPushWithoutGreen(W) = Blamed(W)
        BY <3>2, PushFlags
      <3>4. ASSUME NEW p \in Blamed(W) PROVE p \in Blamed(ledger)
        <4>1. PICK f \in W : /\ f.type = FailureType
                             /\ Precedes(f, p)
                             /\ \A s \in W : s.type = ShippedType => Precedes(s, f) \/ Precedes(p, s)
          BY DEF Blamed
        <4>2. p \in W /\ p.type = PushType
          BY DEF Blamed
        <4>3. ASSUME NEW s \in ledger, s.type = ShippedType PROVE Precedes(s, f) \/ Precedes(p, s)
          <5>1. CASE s \in W
            BY <4>1, <4>3, <5>1
          <5>2. CASE s \notin W
            <6>1. s # f /\ s # p
              BY <4>1, <4>2, <5>2
            <6>2. Precedes(s, f) \/ Precedes(f, s)
              BY <2>1, <3>1, <4>1, <6>1, PrecedesOneWay
            <6>3. Precedes(s, p) \/ Precedes(p, s)
              BY <2>1, <3>1, <4>2, <6>1, PrecedesOneWay
            <6>4. ~(Precedes(f, s) /\ Precedes(s, p))
              <7>1. /\ s.time \in Nat /\ f.time \in Nat /\ p.time \in Nat
                    /\ a <= f.time /\ p.time < b /\ ~(a <= s.time /\ s.time < b)
                BY <2>1, <3>1, <4>1, <4>2, <5>2 DEF Numbered
              <7>2. a \in Nat /\ b \in Nat
                BY ViewsAssumption DEF Moments
              <7> QED BY <7>1, <7>2 DEF Precedes
            <6> QED BY <6>2, <6>3, <6>4
          <5> QED BY <5>1, <5>2
        <4> QED BY <3>1, <4>1, <4>2, <4>3 DEF Blamed
      <3>5. Spike(W) => Spike(ledger)
        <4> DEFINE X == OfType(W, FailureType)
                   Y == OfType(ledger, FailureType)
        <4>1. X \in SUBSET Y /\ Y \in SUBSET ledger
          BY <3>1 DEF OfType
        <4>2. IsFiniteSet(Y)
          BY <2>1, <4>1, FS_Subset DEF Numbered
        <4> HIDE DEF X, Y
        <4>3. Cardinality(X) <= Cardinality(Y) /\ Cardinality(X) \in Nat /\ Cardinality(Y) \in Nat
          BY <4>1, <4>2, FS_Subset, FS_CardinalityType
        <4>4. SpikeThreshold \in Nat
          BY DigestAssumption
        <4>5. Cardinality(X) >= SpikeThreshold => Cardinality(Y) >= SpikeThreshold
          BY <4>3, <4>4
        <4> QED BY <4>5 DEF Spike, X, Y
      <3> QED BY <2>2, <3>3, <3>4, <3>5 DEF W
    <2> QED BY <2>3, <2>4 DEF PushesBlamed, blamed
  <1> QED BY <1>1, TypeCorrect, PTL

-----------------------------------------------------------------------------
(* Pairs.                                                                   *)

\* Every start and every end is used once, and those of one base first come first
\* served, whatever else was logged between them.
THEOREM PairsAreSound == Spec => []PairingSound
  <1>1. ASSUME TypeOK PROVE PairingSound
    <2>1. Numbered(ledger)
      BY <1>1, LedgerHolds, LedgerNumbered
    <2> SUFFICES ASSUME NEW c \in Range(Conventions)
                 PROVE
                    LET p == PairEvents(ledger, c)
                        starts == {e \in ledger : e.type.edge = c.start}
                        ends == {e \in ledger : e.type.edge = c.end}
                    IN  /\ starts = Range(p.open) \cup {q.start : q \in p.pairs}
                        /\ ends = p.ends \cup {q.end : q \in p.pairs}
                        /\ Cardinality(starts) = Len(p.open) + Cardinality(p.pairs)
                        /\ Cardinality(ends) = Cardinality(p.ends) + Cardinality(p.pairs)
                        /\ \A q \in p.pairs : Seconds(q) >= 0
                        /\ \A q, r \in p.pairs :
                               q.start.type.base = r.start.type.base /\ Precedes(q.start, r.start)
                                   => Precedes(q.end, r.end)
                        /\ \A s \in Range(p.open), e \in p.ends :
                               s.type.base = e.type.base => Precedes(e, s)
      BY DEF PairingSound
    <2> DEFINE p == PairEvents(ledger, c)
    <2>2. p \in PairStates(ledger) /\ IsPairing(p, ledger, c)
      BY <2>1, PairingIs
    <2>3. /\ Cardinality(Starts(ledger, c)) = Len(p.open) + Cardinality(p.pairs)
          /\ Cardinality(Ends(ledger, c)) = Cardinality(p.ends) + Cardinality(p.pairs)
      BY <2>1, PairingCounts
    <2> HIDE DEF p
    <2>4. ASSUME NEW q \in p.pairs PROVE Seconds(q) >= 0
      <3>1. q.start \in ledger /\ q.end \in ledger
        BY <2>2 DEF PairStates
      <3>2. q.start.time \in Nat /\ q.end.time \in Nat
        BY <2>1, <3>1 DEF Numbered
      <3>3. Precedes(q.start, q.end)
        BY <2>2 DEF IsPairing
      <3> QED BY <3>2, <3>3 DEF Precedes, Seconds
    <2> QED BY <2>2, <2>3, <2>4 DEF IsPairing, Starts, Ends, SameScope, p
  <1> QED BY <1>1, TypeCorrect, PTL

\* An event that is appended changes nothing that was derived of the time before it:
\* not the pairs that ended and not the pushes that were flagged.
THEOREM PastIsFinal == Spec => PastStands
  <1>1. ASSUME TypeOK, [Next]_vars
        PROVE  \A e \in ledger' \ ledger :
                   /\ \A c \in Range(Conventions) :
                          {p \in PairEvents(ledger, c).pairs : p.end.time < e.time} =
                              {p \in PairEvents(ledger', c).pairs : p.end.time < e.time}
                   /\ {p \in FlagPushWithoutGreen(ledger) : p.time < e.time} =
                          {p \in FlagPushWithoutGreen(ledger') : p.time < e.time}
    <2> SUFFICES ASSUME NEW e \in ledger' \ ledger
                 PROVE  /\ \A c \in Range(Conventions) :
                               {p \in PairEvents(ledger, c).pairs : p.end.time < e.time} =
                                   {p \in PairEvents(ledger', c).pairs : p.end.time < e.time}
                        /\ {p \in FlagPushWithoutGreen(ledger) : p.time < e.time} =
                               {p \in FlagPushWithoutGreen(ledger') : p.time < e.time}
      OBVIOUS
    <2>1. Numbered(ledger)
      BY <1>1, LedgerHolds, LedgerNumbered
    <2>2. ~UNCHANGED vars
      BY DEF vars
    <2>3. PICK m \in workload.machines, kind \in workload.kinds, t \in 1 .. MaxTime :
              Log(m, kind, t)
      BY <1>1, <2>2 DEF Next
    <2>4. ledger' = ledger \cup {e}
      BY <2>3 DEF Log
    <2>5. PICK S : S = ledger
      OBVIOUS
    <2>6. PICK T : T = ledger'
      OBVIOUS
    <2>7. Numbered(T)
      <3>1. TypeOK'
        BY <1>1, TypeStep
      <3>2. workload' = workload
        BY <2>3 DEF Log
      <3>3. IsLedger(T, workload.machines, workload.kinds)
        BY <2>6, <3>1, <3>2 DEF TypeOK
      <3>4. workload.machines \in SUBSET (Nat \ {0})
        BY <1>1, LedgerHolds
      <3> QED BY <3>3, <3>4, LedgerNumbered
    <2>8. Numbered(S) /\ T = S \cup {e}
      BY <2>1, <2>4, <2>5, <2>6
    <2>9. e.time \in Nat
      BY <2>7, <2>8 DEF Numbered
    <2>10. Before(T, e.time) = Before(S, e.time)
      BY <2>8, <2>9 DEF Before
    <2>11. ASSUME NEW c \in Range(Conventions)
           PROVE  {p \in PairEvents(S, c).pairs : p.end.time < e.time} =
                      {p \in PairEvents(T, c).pairs : p.end.time < e.time}
      BY <2>7, <2>8, <2>9, <2>10, PairsBefore
    <2>12. {p \in FlagPushWithoutGreen(S) : p.time < e.time} =
               {p \in FlagPushWithoutGreen(T) : p.time < e.time}
      <3>1. FlagPushWithoutGreen(S) = Blamed(S) /\ FlagPushWithoutGreen(T) = Blamed(T)
        BY <2>7, <2>8, PushFlags
      <3>2. {p \in Blamed(S) : p.time < e.time} = {p \in Blamed(T) : p.time < e.time}
        BY <2>7, <2>8, <2>9, <2>10, BlamedBefore
      <3> QED BY <3>1, <3>2
    <2> QED BY <2>5, <2>6, <2>11, <2>12
  <1> QED BY <1>1, TypeCorrect, PTL DEF Spec, PastStands

\* Asking for the types of a base alone.
ByTypes(types) == [Every EXCEPT !.type = <<types>>]

LEMMA SelectedByBase ==
    ASSUME NEW events, NEW e \in events, e.type.base # BlankType.base
    PROVE  /\ Selected(events, Every) = events
           /\ Selected(events, ByTypes({f.type : f \in OfBase(events, e.type.base)})) =
                  OfBase(events, e.type.base)
  <1> DEFINE b == e.type.base
             both == {f.type : f \in OfBase(events, b)}
  <1>1. Selected(events, Every) = events
    BY DEF Every, Between, Selected, FilterByProject, QueryEvents, QueryFromParams, Matches,
           Allows, AllowsType, Single
  <1>2. e.type \in both
    BY DEF OfBase
  <1>3. \A f \in events : f.type \in both <=> f.type.base = b
    BY DEF OfBase
  <1>4. <<both>> # <<{BlankType}>>
    <2>1. e.type # BlankType
      OBVIOUS
    <2> HIDE DEF both
    <2> QED BY <1>2, <2>1
  <1> HIDE DEF both, b
  <1>5. Selected(events, ByTypes(both)) = {f \in events : f.type \in both}
    BY <1>4 DEF ByTypes, Every, Between, Selected, FilterByProject, QueryEvents, QueryFromParams,
                Matches, Allows, AllowsType, Single
  <1>6. Selected(events, ByTypes(both)) = OfBase(events, b)
    BY <1>3, <1>5 DEF OfBase
  <1> QED BY <1>1, <1>6 DEF both, b

\* Asking for one base leaves its spans and pair links as they are among all others.
THEOREM BasesAreApart == Spec => []SpansOfType
  <1>1. ASSUME TypeOK PROVE SpansOfType
    <2>1. Numbered(ledger)
      BY <1>1, LedgerHolds, LedgerNumbered
    <2> SUFFICES ASSUME NEW base \in {e.type.base : e \in ledger} \ {BlankType.base}
                 PROVE
                    LET all == SpansPayload(ledger, Between(NoBound, NoBound))
                        Pairs(links) == {l \in links : l.key = <<>>}
                        both == {e.type : e \in {f \in ledger : f.type.base = base}}
                        some == SpansPayload(ledger,
                                    [Between(NoBound, NoBound) EXCEPT !.type = <<both>>])
                    IN  /\ SpanEnds(some.spans) = {x \in SpanEnds(all.spans) : x[1].type.base = base}
                        /\ Pairs(some.links) = {l \in Pairs(all.links) : l.from.type.base = base}
      BY DEF SpansOfType, SpanEnds
    <2> DEFINE Pairs(links) == {l \in links : l.key = <<>>}
               T == OfBase(ledger, base)
               both == {f.type : f \in T}
               all == SpansPayload(ledger, Every)
               some == SpansPayload(ledger, ByTypes(both))
    <2>2. /\ all.spans = DeriveSpans(ledger) /\ all.links = DeriveLinks(ledger)
          /\ some.spans = DeriveSpans(T) /\ some.links = DeriveLinks(T)
      <3>1. Selected(ledger, Every) = ledger /\ Selected(ledger, ByTypes(both)) = T
        <4>1. \A e \in ledger : e.type.base = base => Selected(ledger, Every) = ledger
                  /\ Selected(ledger, ByTypes(both)) = T
          BY SelectedByBase
        <4> QED BY <4>1
      <3> HIDE DEF T, both
      <3> QED BY <3>1 DEF SpansPayload
    <2>3. Numbered(T)
      BY <2>1, NumberedPart DEF OfBase
    <2> HIDE DEF T, both, all, some
    <2>4. ASSUME NEW c \in Range(Conventions)
          PROVE  PairEvents(T, c).pairs =
                     {q \in PairEvents(ledger, c).pairs : q.start.type.base = base}
      BY <2>1, PairsOfBase DEF T
    <2>5. SpanEnds(some.spans) = {x \in SpanEnds(all.spans) : x[1].type.base = base}
      <3>1. \A x : x \in SpanEnds(all.spans) <=>
                       \E c \in Range(Conventions) :
                           \E q \in PairEvents(ledger, c).pairs : x = <<q.start, q.end>>
        <4>1. SpanEnds(all.spans) = PairEnds(ledger)
          BY <2>1, <2>2, SpansAre
        <4> QED BY <4>1 DEF PairEnds
      <3>2. \A x : x \in SpanEnds(some.spans) <=>
                       \E c \in Range(Conventions) :
                           \E q \in PairEvents(T, c).pairs : x = <<q.start, q.end>>
        <4>1. SpanEnds(some.spans) = PairEnds(T)
          BY <2>2, <2>3, SpansAre
        <4> QED BY <4>1 DEF PairEnds
      <3>3. \A q : <<q.start, q.end>>[1] = q.start
        OBVIOUS
      <3>4. ASSUME NEW x PROVE x \in SpanEnds(some.spans) <=> x \in SpanEnds(all.spans) /\ x[1].type.base = base
        BY <2>4, <3>1, <3>2, <3>3
      <3> QED BY <3>4
    <2>6. Pairs(some.links) = {l \in Pairs(all.links) : l.from.type.base = base}
      <3>1. \A l : l \in Pairs(all.links) <=>
                       \E c \in Range(Conventions) : \E q \in PairEvents(ledger, c).pairs :
                           l = [from |-> q.start, to |-> q.end, key |-> <<>>]
        BY <2>2, KeylessArePairs
      <3>2. \A l : l \in Pairs(some.links) <=>
                       \E c \in Range(Conventions) : \E q \in PairEvents(T, c).pairs :
                           l = [from |-> q.start, to |-> q.end, key |-> <<>>]
        BY <2>2, KeylessArePairs
      <3> HIDE DEF Pairs
      <3>3. \A q : [from |-> q.start, to |-> q.end, key |-> <<>>].from = q.start
        OBVIOUS
      <3>4. ASSUME NEW l
            PROVE  l \in Pairs(some.links) <=> l \in Pairs(all.links) /\ l.from.type.base = base
        BY <2>4, <3>1, <3>2, <3>3
      <3> QED BY <3>4
    <2> QED BY <2>5, <2>6 DEF some, all, both, T, OfBase, SpanEnds, Every, ByTypes
  <1> QED BY <1>1, TypeCorrect, PTL

\* The events that share a value form one chain, and the links of pairs are the spans.
THEOREM LinksAreChains == Spec => []LinksChain
  <1>1. ASSUME TypeOK PROVE LinksChain
    <2>1. Numbered(ledger)
      BY <1>1, LedgerHolds, LedgerNumbered
    <2> DEFINE links == DeriveLinks(ledger)
               spans == DeriveSpans(ledger)
    <2>2. {<<k.from, k.to>> : k \in {l \in links : l.key = <<>>}} =
              {<<spans[i].start, spans[i].end>> : i \in DOMAIN spans}
      <3>1. \A l : l \in links /\ l.key = <<>>
                       <=> \E c \in Range(Conventions) : \E q \in PairEvents(ledger, c).pairs :
                               l = [from |-> q.start, to |-> q.end, key |-> <<>>]
        BY KeylessArePairs
      <3>2. SpanEnds(spans) = PairEnds(ledger)
        BY <2>1, SpansAre
      <3> HIDE DEF links, spans
      <3>4. ASSUME NEW x PROVE x \in {<<k.from, k.to>> : k \in {l \in links : l.key = <<>>}}
                                   <=> x \in PairEnds(ledger)
        <4>1. ASSUME NEW k \in links, k.key = <<>>, x = <<k.from, k.to>> PROVE x \in PairEnds(ledger)
          <5>1. PICK c \in Range(Conventions) : \E q \in PairEvents(ledger, c).pairs :
                    k = [from |-> q.start, to |-> q.end, key |-> <<>>]
            BY <3>1, <4>1
          <5>2. PICK q \in PairEvents(ledger, c).pairs :
                    k = [from |-> q.start, to |-> q.end, key |-> <<>>]
            BY <5>1
          <5>3. k.from = q.start /\ k.to = q.end
            BY <5>2
          <5>4. x = <<q.start, q.end>>
            BY <4>1, <5>3
          <5> QED BY <5>4 DEF PairEnds
        <4>2. ASSUME NEW c \in Range(Conventions), NEW q \in PairEvents(ledger, c).pairs,
                     x = <<q.start, q.end>>
              PROVE  \E k \in links : k.key = <<>> /\ x = <<k.from, k.to>>
          <5> DEFINE k == [from |-> q.start, to |-> q.end, key |-> <<>>]
          <5>1. k \in links /\ k.key = <<>>
            BY <3>1
          <5>2. k.from = q.start /\ k.to = q.end
            OBVIOUS
          <5>3. x = <<k.from, k.to>>
            BY <4>2, <5>2
          <5> QED BY <5>1, <5>3
        <4>3. x \in PairEnds(ledger) => \E k \in links : k.key = <<>> /\ x = <<k.from, k.to>>
          BY <4>2 DEF PairEnds
        <4> QED BY <4>1, <4>3
      <3> QED BY <3>2, <3>4 DEF SpanEnds
    <2>3. ASSUME NEW tag \in UNION {e.tags : e \in ledger}
          PROVE  LET group == {e \in ledger : tag \in e.tags}
                     inside == {l \in links :
                                   l.key = <<tag.key>> /\ {l.from, l.to} \subseteq group}
                 IN  /\ Cardinality(inside) = Cardinality(group) - 1
                     /\ \A l \in inside : Precedes(l.from, l.to)
                     /\ \A l, k \in inside : l # k => l.from # k.from /\ l.to # k.to
      <3> DEFINE group == {e \in ledger : tag \in e.tags}
                 inside == {l \in links : l.key = <<tag.key>> /\ {l.from, l.to} \subseteq group}
      <3>1. \A e \in ledger : \A t, u \in e.tags : t.key = u.key => t = u
        <4>1. \A e \in ledger : KindOf(e) \in workload.kinds
          BY <1>1, LedgerHolds DEF IsLedger
        <4>2. \A e \in ledger : \A t, u \in KindOf(e).tags : t.key = u.key => t = u
          BY <1>1, <4>1, LedgerHolds, WorkloadsAre
        <4>3. \A e : KindOf(e).tags = e.tags
          BY DEF KindOf
        <4> QED BY <4>2, <4>3
      <3>2. inside = Chain(Ordered(group), tag.key)
        BY <2>1, <3>1, LinksOfTag
      <3>3. Numbered(group) /\ group # {}
        BY <2>1, NumberedPart
      <3> HIDE DEF group, inside
      <3>4. /\ Cardinality(inside) = Cardinality(group) - 1
            /\ \A l \in inside : Precedes(l.from, l.to)
            /\ \A l, k \in inside : l # k => l.from # k.from /\ l.to # k.to
        BY <3>2, <3>3, ChainIs
      <3> QED BY <3>4 DEF group, inside
    <2> QED BY <2>2, <2>3 DEF LinksChain
  <1> QED BY <1>1, TypeCorrect, PTL

\* The nesting of the spans is a forest of intervals.
THEOREM SpansAreForest == Spec => []SpansNest
  <1>1. ASSUME TypeOK PROVE SpansNest
    <2>1. Numbered(ledger) /\ \A e \in ledger : e.time \in Nat /\ e.time < MaxTime + 1
      <3>1. IsLedger(ledger, workload.machines, workload.kinds)
        BY <1>1, LedgerHolds
      <3>2. \A e \in ledger : e.time \in 1 .. MaxTime
        BY <3>1 DEF IsLedger
      <3>3. Numbered(ledger)
        BY <1>1, LedgerHolds, LedgerNumbered
      <3> QED BY <3>2, <3>3, ViewsAssumption
    <2> DEFINE bare == Durations(ledger, Conventions[1]) \o Durations(ledger, Conventions[2])
               spans == DeriveSpans(ledger)
    <2>2. /\ bare \in Seq([start : ledger, end : ledger])
          /\ DOMAIN spans = DOMAIN bare
          /\ \A i \in DOMAIN spans : spans[i].start = bare[i].start /\ spans[i].end = bare[i].end
          /\ SpanEnds(spans) = PairEnds(ledger)
      BY <2>1, SpansAre
    <2>3. spans = Nesting(bare)
      BY DEF DeriveSpans
    <2> HIDE DEF bare, spans
    <2>4. DOMAIN bare \subseteq Nat \ {0}
          /\ \A i \in DOMAIN bare : bare[i].start \in ledger /\ bare[i].end \in ledger
      <3>1. DOMAIN bare = 1 .. Len(bare) /\ Len(bare) \in Nat
        BY <2>2, LenProperties
      <3>2. \A i \in 1 .. Len(bare) : bare[i] \in [start : ledger, end : ledger]
        BY <2>2, ElementOfSeq
      <3> QED BY <3>1, <3>2
    <2>5. \A i \in DOMAIN bare : bare[i].start.time <= bare[i].end.time
      <3> SUFFICES ASSUME NEW i \in DOMAIN bare PROVE bare[i].start.time <= bare[i].end.time
        OBVIOUS
      <3>1. <<bare[i].start, bare[i].end>> \in PairEnds(ledger)
        BY <2>2 DEF SpanEnds
      <3>2. PICK c \in Range(Conventions) : \E q \in PairEvents(ledger, c).pairs :
                bare[i].start = q.start /\ bare[i].end = q.end
        BY <3>1 DEF PairEnds
      <3>3. PICK q \in PairEvents(ledger, c).pairs :
                bare[i].start = q.start /\ bare[i].end = q.end
        BY <3>2
      <3>4. Precedes(bare[i].start, bare[i].end)
        BY <2>1, <3>3, PairsDated
      <3>5. bare[i].start.time \in Nat /\ bare[i].end.time \in Nat
        BY <2>1, <2>4
      <3> QED BY <3>4, <3>5 DEF Precedes
    <2>6. \A i \in DOMAIN bare :
              IF Containers(bare, i) = {} THEN spans[i].parent = 0 /\ spans[i].depth = 0
              ELSE /\ spans[i].parent \in Containers(bare, i)
                   /\ spans[i].depth = spans[spans[i].parent].depth + 1
                   /\ \A j \in Containers(bare, i) :
                          Seconds(bare[spans[i].parent]) <= Seconds(bare[j])
      <3>1. MaxTime + 1 \in Nat
        BY ViewsAssumption
      <3>2. \A i \in DOMAIN bare :
                /\ bare[i].start.time \in Nat /\ bare[i].end.time \in Nat
                /\ bare[i].start.time <= bare[i].end.time /\ bare[i].end.time < MaxTime + 1
        BY <2>1, <2>4, <2>5
      <3> QED BY <2>3, <2>4, <3>1, <3>2, NestingIs
    <2>7. ASSUME NEW i \in DOMAIN spans, NEW j \in DOMAIN spans
          PROVE  StrictlyContains(spans[j], spans[i]) <=> StrictlyContains(bare[j], bare[i])
      BY <2>2 DEF StrictlyContains
    <2>8. \A i \in DOMAIN spans :
              {j \in DOMAIN spans : StrictlyContains(spans[j], spans[i])} = Containers(bare, i)
      BY <2>2, <2>7 DEF Containers
    <2>9. ASSUME NEW i \in DOMAIN bare, NEW j \in DOMAIN bare,
                 Seconds(bare[i]) <= Seconds(bare[j])
          PROVE  ~StrictlyContains(bare[i], bare[j])
      <3>1. /\ bare[i].start.time \in Nat /\ bare[i].end.time \in Nat
            /\ bare[j].start.time \in Nat /\ bare[j].end.time \in Nat
        BY <2>1, <2>4
      <3> QED BY <2>9, <3>1 DEF Seconds, StrictlyContains
    <2>10. ASSUME NEW i \in DOMAIN spans, NEW j \in Containers(bare, i), spans[i].parent # 0
           PROVE  ~StrictlyContains(spans[spans[i].parent], spans[j])
      <3>1. Containers(bare, i) \subseteq DOMAIN bare
        BY DEF Containers
      <3>2. spans[i].parent \in DOMAIN bare
            /\ Seconds(bare[spans[i].parent]) <= Seconds(bare[j])
        BY <2>2, <2>6, <3>1
      <3> QED BY <2>2, <2>7, <2>9, <3>1, <3>2
    <2>11. \A i \in DOMAIN spans :
               Containers(bare, i) # {} => spans[i].parent # 0
      BY <2>2, <2>4, <2>6 DEF Containers
    <2> QED BY <2>2, <2>6, <2>8, <2>10, <2>11 DEF SpansNest, IsForest, spans
  <1> QED BY <1>1, TypeCorrect, PTL

-----------------------------------------------------------------------------
(* Reports.                                                                 *)

\* The sum of the values of a function.
LEMMA ValuesSum ==
    ASSUME NEW S, IsFiniteSet(S), NEW f \in [S -> Int]
    PROVE  SumIs(AllOf(f), S, f)
  <1> DEFINE pick == [s \in SUBSET S |-> CHOOSE x \in s : TRUE]
             Body(g) == [s \in SUBSET S |->
                            IF s = {} THEN 0
                            ELSE f[CHOOSE x \in s : TRUE] + g[s \ {CHOOSE x \in s : TRUE}]]
             iter == CHOOSE g : g = Body(g)
  <1>1. AllOf(f) = iter[S]
    <2>1. DOMAIN f = S
      OBVIOUS
    <2> QED BY <2>1 DEF AllOf, FoldFunction, FoldFunctionOnSet, MapThenFoldSet
  <1>2. \A s \in SUBSET S : s # {} => pick[s] \in s /\ pick[s] = CHOOSE x \in s : TRUE
    OBVIOUS
  <1> HIDE DEF pick
  <1>3. ASSUME NEW g PROVE g = Body(g) <=> IsSumFold(g, S, f, pick)
    <2>1. ASSUME NEW s \in SUBSET S
          PROVE  Body(g)[s] = IF s = {} THEN 0 ELSE f[pick[s]] + g[s \ {pick[s]}]
      <3>1. s # {} => pick[s] = (CHOOSE x \in s : TRUE)
        BY <1>2
      <3>2. Body(g)[s] = IF s = {} THEN 0
                         ELSE f[CHOOSE x \in s : TRUE] + g[s \ {CHOOSE x \in s : TRUE}]
        OBVIOUS
      <3> HIDE DEF Body
      <3>3. CASE s = {}
        BY <3>2, <3>3
      <3>4. CASE s # {}
        BY <3>1, <3>2, <3>4
      <3> QED BY <3>3, <3>4
    <2>2. Body(g) = [s \in SUBSET S |-> IF s = {} THEN 0 ELSE f[pick[s]] + g[s \ {pick[s]}]]
      BY <2>1
    <2> HIDE DEF Body
    <2> QED BY <2>2 DEF IsSumFold
  <1> HIDE DEF Body
  <1>4. \E g : g = Body(g)
    BY <1>2, <1>3, SumFoldExists
  <1>5. IsSumFold(iter, S, f, pick)
    BY <1>3, <1>4
  <1> HIDE DEF iter
  <1>6. \A s \in SUBSET S : s # {} => pick[s] \in s
    BY <1>2
  <1> QED BY <1>1, <1>5, <1>6, SumFoldSums


\* The counts of two parts of a set of events.
LEMMA CountsAdd ==
    ASSUME NEW A, NEW B, IsFiniteSet(A), IsFiniteSet(B), A \cap B = {}, NEW ty,
           ty \in {e.type : e \in A \cup B}
    PROVE  LET Count(counts) == IF ty \in DOMAIN counts THEN counts[ty] ELSE 0
           IN  Count(CountsByType(A)) + Count(CountsByType(B)) = CountsByType(A \cup B)[ty]
  <1> DEFINE Of(T) == {e \in T : e.type = ty}
             Count(counts) == IF ty \in DOMAIN counts THEN counts[ty] ELSE 0
  <1>1. ASSUME NEW T, IsFiniteSet(T) PROVE Count(CountsByType(T)) = Cardinality(Of(T))
    <2>1. CASE ty \in {e.type : e \in T}
      BY <2>1 DEF CountsByType
    <2>2. CASE ty \notin {e.type : e \in T}
      <3>1. Of(T) = {}
        BY <2>2
      <3>2. Count(CountsByType(T)) = 0
        BY <2>2 DEF CountsByType
      <3> QED BY <3>1, <3>2, FS_EmptySet
    <2> QED BY <2>1, <2>2
  <1>2. CountsByType(A \cup B)[ty] = Cardinality(Of(A \cup B))
    BY DEF CountsByType
  <1>3. Of(A \cup B) = Of(A) \cup Of(B) /\ Of(A) \cap Of(B) = {}
    OBVIOUS
  <1>4. IsFiniteSet(Of(A)) /\ IsFiniteSet(Of(B))
    BY FS_Subset
  <1> HIDE DEF Of
  <1>5. Cardinality(Of(A \cup B)) = Cardinality(Of(A)) + Cardinality(Of(B))
    BY <1>3, <1>4, TwoParts
  <1> QED BY <1>1, <1>2, <1>5

\* Between bounds that are given the span is what is between them.
LEMMA RateIs ==
    ASSUME NEW T, NEW a \in Moments, NEW b \in Moments, a <= b
    PROVE  EventRate(T, a, b).count = Cardinality(T) /\ EventRate(T, a, b).span = b - a
  <1>1. a \in Nat /\ b \in Nat /\ a # NoBound /\ b # NoBound
    BY ViewsAssumption DEF Moments, NoBound
  <1>2. Max({0, b - a}) = b - a
    BY <1>1 DEF Max
  <1> QED BY <1>1, <1>2 DEF EventRate

\* What adjacent windows report adds up.
THEOREM ReportsDoAddUp == Spec => []ReportsAddUp
  <1>1. ASSUME TypeOK PROVE ReportsAddUp
    <2> SUFFICES ASSUME NEW b \in Moments, NEW c \in Moments, b <= c
                 PROVE  LET first  == Window(1, b)
                            second == Window(b, c)
                            both   == Window(1, c)
                            Count(counts, ty) == IF ty \in DOMAIN counts THEN counts[ty] ELSE 0
                        IN  /\ \A ty \in {e.type : e \in both} :
                                   Count(CountsByType(first), ty) + Count(CountsByType(second), ty) =
                                       CountsByType(both)[ty]
                            /\ TotalTokens(first) + TotalTokens(second) = TotalTokens(both)
                            /\ EventRate(first, 1, b).count + EventRate(second, b, c).count =
                                   EventRate(both, 1, c).count
                            /\ EventRate(first, 1, b).span + EventRate(second, b, c).span =
                                   EventRate(both, 1, c).span
                            /\ FlagCouldHaveAsked(first) \cup FlagCouldHaveAsked(second) =
                                   FlagCouldHaveAsked(both)
      BY DEF ReportsAddUp
    <2> DEFINE first  == Window(1, b)
               second == Window(b, c)
               both   == Window(1, c)
    <2>1. 1 \in Moments /\ 1 <= b /\ 1 <= c /\ b \in Nat /\ c \in Nat
      BY ViewsAssumption DEF Moments
    <2>2. IsLedger(ledger, workload.machines, workload.kinds) /\ IsFiniteSet(ledger)
      BY <1>1, LedgerHolds DEF IsLedger
    <2>3. \A e \in ledger : e.time \in Nat /\ 1 <= e.time
      BY <2>2, ViewsAssumption DEF IsLedger
    <2>4. first \cap second = {} /\ first \cup second = both
      <3>1. /\ first = {e \in ledger : 1 <= e.time /\ e.time < b}
            /\ second = {e \in ledger : b <= e.time /\ e.time < c}
            /\ both = {e \in ledger : 1 <= e.time /\ e.time < c}
        BY <2>1, WindowIs
      <3> HIDE DEF first, second, both
      <3> QED BY <2>1, <2>3, <3>1
    <2>5. first \in SUBSET ledger /\ second \in SUBSET ledger
      BY DEF Window, QueryEvents
    <2>6. IsFiniteSet(first) /\ IsFiniteSet(second)
      BY <2>2, <2>5, FS_Subset
    <2>7. /\ EventRate(first, 1, b).count = Cardinality(first)
          /\ EventRate(second, b, c).count = Cardinality(second)
          /\ EventRate(both, 1, c).count = Cardinality(both)
          /\ EventRate(first, 1, b).span = b - 1
          /\ EventRate(second, b, c).span = c - b
          /\ EventRate(both, 1, c).span = c - 1
      BY <2>1, RateIs
    <2> HIDE DEF first, second, both
    <2>8. ASSUME NEW ty \in {e.type : e \in both}
          PROVE  LET Count(counts) == IF ty \in DOMAIN counts THEN counts[ty] ELSE 0
                 IN  Count(CountsByType(first)) + Count(CountsByType(second)) =
                         CountsByType(both)[ty]
      BY <2>4, <2>6, CountsAdd
    <2>9. TotalTokens(first) + TotalTokens(second) = TotalTokens(both)
      <3> DEFINE f == [e \in ledger |-> e.tokens]
      <3>1. \A e \in ledger : f[e] = e.tokens /\ f[e] \in Int
        <4>1. \A e \in ledger : KindOf(e) \in workload.kinds /\ e.tokens = KindOf(e).tokens
          BY <2>2 DEF IsLedger, KindOf
        <4>2. \A k \in workload.kinds : k.tokens \in Int
          BY <1>1, LedgerHolds, WorkloadsAre
        <4> QED BY <4>1, <4>2
      <3> HIDE DEF f
      <3>2. /\ Measured(first) \subseteq ledger /\ Measured(second) \subseteq ledger
            /\ Measured(both) = Measured(first) \cup Measured(second)
            /\ Measured(first) \cap Measured(second) = {}
        BY <2>4, <2>5 DEF Measured, OfType
      <3>3. IsFiniteSet(both) /\ IsFiniteSet(Measured(first)) /\ IsFiniteSet(Measured(second))
        <4>1. both \in SUBSET ledger
          BY <2>4, <2>5
        <4> QED BY <2>2, <3>2, <4>1, FS_Subset
      <3>4. /\ SumIs(TotalTokens(first), Measured(first), f)
            /\ SumIs(TotalTokens(second), Measured(second), f)
            /\ SumIs(TotalTokens(both), Measured(both), f)
        <4>1. ASSUME NEW T, IsFiniteSet(T), Measured(T) \subseteq ledger
              PROVE  SumIs(TotalTokens(T), Measured(T), f)
          <5>1. \A e \in Measured(T) : f[e] = e.tokens /\ f[e] \in Int
            BY <3>1, <4>1
          <5> QED BY <4>1, <5>1, TokensSum
        <4> QED BY <2>6, <3>2, <3>3, <4>1
      <3>5. \A e \in Measured(first) \cup Measured(second) : f[e] \in Int
        BY <3>1, <3>2
      <3>6. SumIs(TotalTokens(both), Measured(first) \cup Measured(second), f)
        BY <3>2, <3>4
      <3> DEFINE x == TotalTokens(first)
                 y == TotalTokens(second)
                 z == TotalTokens(both)
                 X == Measured(first)
                 Y == Measured(second)
      <3>7. /\ SumIs(x, X, f) /\ SumIs(y, Y, f) /\ SumIs(z, X \cup Y, f)
            /\ IsFiniteSet(X) /\ IsFiniteSet(Y) /\ X \cap Y = {}
            /\ \A e \in X \cup Y : f[e] \in Int
        BY <3>2, <3>3, <3>4, <3>5, <3>6
      <3> HIDE DEF x, y, z, X, Y
      <3>8. z = x + y
        BY <3>7, SumOfParts
      <3> QED BY <3>8 DEF x, y, z
    <2>10. FlagCouldHaveAsked(first) \cup FlagCouldHaveAsked(second) = FlagCouldHaveAsked(both)
      BY <2>4 DEF FlagCouldHaveAsked, OfType
    <2>11. /\ Cardinality(first) + Cardinality(second) = Cardinality(both)
           /\ (b - 1) + (c - b) = c - 1
      <3>1. Cardinality(first \cup second) = Cardinality(first) + Cardinality(second)
        BY <2>4, <2>6, TwoParts
      <3>2. (b - 1) + (c - b) = c - 1
        BY <2>1
      <3> QED BY <2>4, <3>1, <3>2
    <2> QED BY <2>7, <2>8, <2>9, <2>10, <2>11 DEF first, second, both
  <1> QED BY <1>1, TypeCorrect, PTL

\* All that counts by some value count are the events.
LEMMA CountsFit ==
    ASSUME NEW T, IsFiniteSet(T)
    PROVE  AllOf(CountsByType(T)) = Cardinality(T) /\ AllOf(CountsBySource(T)) = Cardinality(T)
  <1>1. ASSUME NEW value, value = [e \in T |-> value[e]], NEW counts,
               counts = [x \in Range(value) |-> Cardinality({e \in T : value[e] = x})]
        PROVE  AllOf(counts) = Cardinality(T)
    <2> DEFINE X == Range(value)
    <2>1. value \in [T -> X] /\ value \in Surjection(T, X)
      BY <1>1 DEF Range, Surjection
    <2>2. IsFiniteSet(X)
      BY <2>1, FS_Surjection
    <2>3. \A x \in X : Cardinality({e \in T : value[e] = x}) \in Int
      <3> SUFFICES ASSUME NEW x \in X PROVE Cardinality({e \in T : value[e] = x}) \in Int
        OBVIOUS
      <3>1. IsFiniteSet({e \in T : value[e] = x})
        BY FS_Subset
      <3> QED BY <3>1, FS_CardinalityType
    <2>4. \A x \in X : counts[x] = Cardinality({e \in T : value[e] = x})
      BY <1>1
    <2>5. counts \in [X -> Int]
      BY <1>1, <2>3
    <2>6. SumIs(AllOf(counts), X, counts)
      <3> HIDE DEF X
      <3> QED BY <2>2, <2>5, ValuesSum
    <2> QED BY <2>1, <2>4, <2>6, SumOfCounts
  <1>2. AllOf(CountsByType(T)) = Cardinality(T)
    <2> DEFINE value == [e \in T |-> e.type]
    <2>1. Range(value) = {e.type : e \in T}
      BY DEF Range
    <2>2. \A e \in T : value[e] = e.type
      OBVIOUS
    <2>3. value = [e \in T |-> value[e]]
      OBVIOUS
    <2> HIDE DEF value
    <2>4. \A ty : {e \in T : value[e] = ty} = {e \in T : e.type = ty}
      BY <2>2
    <2>5. CountsByType(T) = [x \in Range(value) |-> Cardinality({e \in T : value[e] = x})]
      BY <2>1, <2>4 DEF CountsByType
    <2> QED BY <1>1, <2>3, <2>5
  <1>3. AllOf(CountsBySource(T)) = Cardinality(T)
    <2> DEFINE value == [e \in T |-> e.source]
    <2>1. Range(value) = {e.source : e \in T}
      BY DEF Range
    <2>2. \A e \in T : value[e] = e.source
      OBVIOUS
    <2>3. value = [e \in T |-> value[e]]
      OBVIOUS
    <2> HIDE DEF value
    <2>4. \A s : {e \in T : value[e] = s} = {e \in T : e.source = s}
      BY <2>2
    <2>5. CountsBySource(T) = [x \in Range(value) |-> Cardinality({e \in T : value[e] = x})]
      BY <2>1, <2>4 DEF CountsBySource
    <2> QED BY <1>1, <2>3, <2>5
  <1> QED BY <1>2, <1>3

FlaggedBy(rule, T) == {a \in Anomalies(T) : a.rule = rule}

\* Each failure raises one flag of its own, and no flag points at another event.
LEMMA FlagsPoint ==
    ASSUME NEW T, Numbered(T)
    PROVE  /\ Cardinality(FlaggedBy("failure", T)) = Cardinality(OfType(T, FailureType))
           /\ \A a \in Anomalies(T) : Range(a.event) \subseteq T
  <1> DEFINE failed == OfType(T, FailureType)
             f == [e \in failed |-> [rule |-> "failure", event |-> <<e>>]]
  <1>1. \A rule, S : \A a \in Flags(rule, S) :
            a.rule = rule /\ \E e \in S : a.event = <<e>>
    BY DEF Flags
  <1>2. FlaggedBy("failure", T) = Flags("failure", failed)
    <2>1. \A a \in Flags("failure", failed) : a.rule = "failure"
      BY <1>1
    <2>2. \A a \in Anomalies(T) : a.rule = "failure" => a \in Flags("failure", failed)
      <3> SUFFICES ASSUME NEW a \in Anomalies(T), a.rule = "failure"
                   PROVE  a \in Flags("failure", failed)
        OBVIOUS
      <3>1. \/ a \in Flags("could_have_asked", FlagCouldHaveAsked(T))
            \/ a \in FlagFailures(T)
            \/ a \in Flags("push_without_green", FlagPushWithoutGreen(T))
            \/ a \in Flags("token_outlier", FlagTokenOutliers(T))
            \/ a \in Flags("refusal", OfType(T, RefusalType))
        BY DEF Anomalies
      <3>2. a \in FlagFailures(T)
        BY <1>1, <3>1
      <3> QED BY <3>2 DEF FlagFailures
    <2>3. Flags("failure", failed) \subseteq Anomalies(T)
      BY DEF Anomalies, FlagFailures
    <2> QED BY <2>1, <2>2, <2>3 DEF FlaggedBy
  <1>3. IsFiniteSet(failed)
    BY FS_Subset DEF OfType, Numbered
  <1>4. Cardinality(Flags("failure", failed)) = Cardinality(failed)
    <2> HIDE DEF failed
    <2> DEFINE U == Flags("failure", failed)
    <2>1. f \in [failed -> U] /\ \A x \in U : \E e \in failed : f[e] = x
      BY DEF Flags
    <2>2. \A x, y \in failed : f[x] = f[y] => x = y
      OBVIOUS
    <2> HIDE DEF f, U
    <2>3. f \in Surjection(failed, U) /\ f \in Injection(failed, U)
      BY <2>1, <2>2 DEF Surjection, Injection, IsInjective
    <2>4. Cardinality(U) = Cardinality(failed)
      BY <1>3, <2>3, FS_Surjection
    <2> QED BY <2>4 DEF U
  <1>5. ASSUME NEW a \in Anomalies(T) PROVE Range(a.event) \subseteq T
    <2>1. \A S \in SUBSET T : \A rule : a \in Flags(rule, S) => Range(a.event) \subseteq T
      <3> SUFFICES ASSUME NEW S \in SUBSET T, NEW rule, a \in Flags(rule, S)
                   PROVE  Range(a.event) \subseteq T
        OBVIOUS
      <3>1. PICK e \in S : a.event = <<e>>
        BY <1>1
      <3>2. Range(<<e>>) = {e}
        BY DEF Range
      <3> QED BY <3>1, <3>2
    <2>2. /\ FlagCouldHaveAsked(T) \in SUBSET T /\ failed \in SUBSET T
          /\ FlagTokenOutliers(T) \in SUBSET T /\ OfType(T, RefusalType) \in SUBSET T
      BY DEF FlagCouldHaveAsked, FlagTokenOutliers, OfType
    <2>3. FlagPushWithoutGreen(T) \in SUBSET T
      BY PushFlags DEF Blamed
    <2>4. ASSUME a = [rule |-> "failure_spike", event |-> <<>>] PROVE Range(a.event) \subseteq T
      BY <2>4 DEF Range
    <2> HIDE DEF failed
    <2>5. \/ a \in Flags("could_have_asked", FlagCouldHaveAsked(T))
          \/ a \in Flags("failure", failed)
          \/ a = [rule |-> "failure_spike", event |-> <<>>]
          \/ a \in Flags("push_without_green", FlagPushWithoutGreen(T))
          \/ a \in Flags("token_outlier", FlagTokenOutliers(T))
          \/ a \in Flags("refusal", OfType(T, RefusalType))
      BY DEF Anomalies, FlagFailures, failed
    <2> QED BY <2>1, <2>2, <2>3, <2>4, <2>5
  <1> QED BY <1>2, <1>4, <1>5

\* A summary fits the events it is made of and the digest of the same events.
THEOREM SummariesDoFit == Spec => []SummariesFit
  <1>1. ASSUME TypeOK PROVE SummariesFit
    <2> SUFFICES ASSUME NEW r \in workload.asks
                 PROVE  LET found == QueryEvents(ledger, QueryOf(r))
                            stats == LedgerStats(ledger, r)
                            digest == DigestOf(found)
                            d == stats.durations
                            pairs == PairEvents(found, Conventions[1]).pairs
                            Flagged(rule) == {a \in digest.anomalies : a.rule = rule}
                        IN  /\ AllOf(stats.byType) = stats.total
                            /\ AllOf(stats.bySource) = stats.total
                            /\ digest.rollup.total = stats.total /\ digest.rollup.durations = d
                            /\ digest.rollup.counts = stats.byType
                            /\ 2 * d.count + stats.unmatchedStarts + stats.unmatchedEnds =
                                   Cardinality({e \in found : e.type.edge \in Range(Conventions[1])})
                            /\ d.count > 0 =>
                                   /\ d.count * d.min[1] <= d.total
                                   /\ d.total <= d.count * d.max[1]
                                   /\ 2 * d.min[1] <= d.twiceMedian[1]
                                   /\ d.twiceMedian[1] <= 2 * d.max[1]
                                   /\ 2 * Cardinality({p \in pairs :
                                              2 * Seconds(p) <= d.twiceMedian[1]}) >= d.count
                                   /\ 2 * Cardinality({p \in pairs :
                                              2 * Seconds(p) >= d.twiceMedian[1]}) >= d.count
                            /\ Cardinality(Flagged("failure")) =
                                   Cardinality(OfType(found, FailureType))
                            /\ Flagged("failure_spike") # {} =>
                                   Len(digest.rollup.recent[FailureType]) =
                                       Min({RecentLimit, Cardinality(Flagged("failure"))})
                            /\ \A a \in digest.anomalies : Range(a.event) \subseteq found
      BY DEF SummariesFit
    <2> DEFINE found == QueryEvents(ledger, QueryOf(r))
               c == Conventions[1]
               p == PairEvents(found, c)
               d == DurationStats(p.pairs)
               failed == OfType(found, FailureType)
    <2>1. Numbered(found)
      <3>1. found \in SUBSET ledger
        BY DEF QueryEvents
      <3> HIDE DEF found
      <3> QED BY <1>1, <3>1, LedgerHolds, LedgerNumbered
    <2>2. IsFiniteSet(found)
      BY <2>1 DEF Numbered
    <2>3. c \in Range(Conventions) /\ Range(c) = {c.start, c.end} /\ c.start # c.end
      BY DEF Conventions, Range
    <2> DEFINE stats == LedgerStats(ledger, r)
               digest == DigestOf(found)
    <2>4. /\ stats.total = Cardinality(found)
          /\ stats.byType = CountsByType(found) /\ stats.bySource = CountsBySource(found)
          /\ stats.durations = d
          /\ stats.unmatchedStarts = Len(p.open) /\ stats.unmatchedEnds = Cardinality(p.ends)
      BY DEF LedgerStats
    <2>5. /\ digest.anomalies = Anomalies(found)
          /\ digest.rollup.total = Cardinality(found) /\ digest.rollup.durations = d
          /\ digest.rollup.counts = CountsByType(found)
          /\ digest.rollup.recent[FailureType] = Recent(found, FailureType)
      BY DEF DigestOf, Rollup
    <2> HIDE DEF found, c, p, d, failed, stats, digest
    <2>6. AllOf(stats.byType) = stats.total /\ AllOf(stats.bySource) = stats.total
      BY <2>2, <2>4, CountsFit
    <2>7. /\ d.count = Cardinality(p.pairs) /\ d.count \in Nat
          /\ d.count > 0 =>
                 /\ d.count * d.min[1] <= d.total /\ d.total <= d.count * d.max[1]
                 /\ 2 * d.min[1] <= d.twiceMedian[1] /\ d.twiceMedian[1] <= 2 * d.max[1]
                 /\ 2 * Cardinality({q \in p.pairs : 2 * Seconds(q) <= d.twiceMedian[1]}) >= d.count
                 /\ 2 * Cardinality({q \in p.pairs : 2 * Seconds(q) >= d.twiceMedian[1]}) >= d.count
      <3>1. Dated(p.pairs)
        BY <2>1, <2>3, PairsDated DEF p
      <3> QED BY <3>1, SummaryIs DEF d
    <2>8. 2 * d.count + Len(p.open) + Cardinality(p.ends) =
              Cardinality({e \in found : e.type.edge \in Range(c)})
      <3>1. /\ Len(p.open) \in Nat /\ Cardinality(p.ends) \in Nat
            /\ Cardinality(Starts(found, c)) = Len(p.open) + Cardinality(p.pairs)
            /\ Cardinality(Ends(found, c)) = Cardinality(p.ends) + Cardinality(p.pairs)
        BY <2>1, <2>3, PairingCounts DEF p
      <3>2. /\ IsFiniteSet(Starts(found, c)) /\ IsFiniteSet(Ends(found, c))
            /\ Starts(found, c) \cap Ends(found, c) = {}
            /\ {e \in found : e.type.edge \in Range(c)} = Starts(found, c) \cup Ends(found, c)
        <4>1. Starts(found, c) \in SUBSET found /\ Ends(found, c) \in SUBSET found
          BY DEF Starts, Ends
        <4>2. {e \in found : e.type.edge \in Range(c)} = Starts(found, c) \cup Ends(found, c)
          BY <2>3 DEF Starts, Ends
        <4>3. Starts(found, c) \cap Ends(found, c) = {}
          BY <2>3 DEF Starts, Ends
        <4> QED BY <2>2, <4>1, <4>2, <4>3, FS_Subset
      <3>3. Cardinality(Starts(found, c) \cup Ends(found, c)) =
                Cardinality(Starts(found, c)) + Cardinality(Ends(found, c))
        BY <3>2, TwoParts
      <3> DEFINE open == Len(p.open)
                 ends == Cardinality(p.ends)
                 n == Cardinality(p.pairs)
                 both == Cardinality({e \in found : e.type.edge \in Range(c)})
      <3>4. open \in Nat /\ ends \in Nat /\ n \in Nat /\ d.count = n
            /\ both = (open + n) + (ends + n)
        BY <2>7, <3>1, <3>2, <3>3
      <3> HIDE DEF open, ends, n, both
      <3>5. 2 * d.count + open + ends = both
        BY <3>4
      <3> QED BY <3>5 DEF open, ends, n, both
    <2>9. /\ Cardinality(FlaggedBy("failure", found)) = Cardinality(failed)
          /\ \A a \in Anomalies(found) : Range(a.event) \subseteq found
      BY <2>1, FlagsPoint DEF failed
    <2>10. Len(Recent(found, FailureType)) = Min({RecentLimit, Cardinality(failed)})
      <3>1. Numbered(failed)
        BY <2>1, NumberedPart DEF failed, OfType
      <3>2. Ordered(failed) \in Seq(failed) /\ Len(Ordered(failed)) = Cardinality(failed)
        BY <3>1, OrderedSorts
      <3>3. RecentLimit \in Nat
        BY DigestAssumption
      <3>4. Len(Newest(Ordered(failed), RecentLimit)) = Min({RecentLimit, Cardinality(failed)})
        BY <3>2, <3>3, NewestEnd
      <3> QED BY <3>4 DEF Recent, failed
    <2>11. \A rule : {a \in digest.anomalies : a.rule = rule} = FlaggedBy(rule, found)
      BY <2>5 DEF FlaggedBy
    <2> QED BY <2>4, <2>5, <2>6, <2>7, <2>8, <2>9, <2>10, <2>11
            DEF stats, digest, d, p, c, failed, found
  <1> QED BY <1>1, TypeCorrect, PTL
=============================================================================
