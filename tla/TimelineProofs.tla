---------------------------- MODULE TimelineProofs ----------------------------
(***************************************************************************)
(* What holds of the timeline for every set of events and of filters and   *)
(* any number of loads.                                                    *)
(***************************************************************************)
EXTENDS Timeline, FiniteSetTheorems, WellFoundedInduction, SequenceTheorems, TLAPS

-----------------------------------------------------------------------------
(* The operators.                                                           *)

\* A finite set of numbers that is not empty has a greatest one.
LEMMA Greatest ==
    ASSUME NEW S \in SUBSET Nat, IsFiniteSet(S), S # {}
    PROVE  Max(S) \in S
  <1> DEFINE IsMax(x, T) == x \in T /\ \A y \in T : x >= y
             Bad == {T \in SUBSET S : T # {} /\ \A x : ~ IsMax(x, T)}
             R == StrictSubsetOrdering(S)
  <1>1. Bad = {}
    <2> SUFFICES ASSUME Bad # {} PROVE FALSE
      OBVIOUS
    <2>1. IsWellFoundedOn(R, SUBSET S)
      BY FS_StrictSubsetOrderingWellFounded, FS_FiniteSubsetsOfFinite
    <2>2. Bad \subseteq SUBSET S
      OBVIOUS
    <2>3. PICK T \in Bad : \A U \in Bad : ~ (<<U, T>> \in R)
      <3> HIDE DEF Bad, R
      <3> QED BY <2>1, <2>2, WFMin
    <2>4. PICK x \in T : TRUE
      OBVIOUS
    <2> DEFINE U == T \ {x}
    <2>5. U \in SUBSET S /\ <<U, T>> \in R
      BY <2>4 DEF StrictSubsetOrdering
    <2>6. U \notin Bad
      <3> HIDE DEF Bad, R, U
      <3> QED BY <2>3, <2>5
    <2>7. CASE U = {}
      BY <2>4, <2>7
    <2>8. CASE \E m : IsMax(m, U)
      <3>1. PICK m : IsMax(m, U)
        BY <2>8
      <3>2. m \in Nat /\ x \in Nat /\ \A y \in T : y \in Nat
        BY <2>4, <3>1
      <3>3. IsMax(m, T) \/ IsMax(x, T)
        BY <2>4, <3>1, <3>2
      <3> QED BY <3>3
    <2> QED BY <2>5, <2>6, <2>7, <2>8
  <1>2. \E x \in S : \A y \in S : x >= y
    BY <1>1
  <1> QED BY <1>2 DEF Max

\* A sequence in Sortings(S) has its elements in S, and none of them twice.
LEMMA Sorted ==
    ASSUME NEW S, IsFiniteSet(S), NEW s \in Sortings(S)
    PROVE  /\ s \in Seq(S)
           /\ \A i, j \in DOMAIN s : s[i] = s[j] => i = j
  <1>1. Cardinality(S) \in Nat
    BY FS_CardinalityType
  <1>2. /\ s \in [1 .. Cardinality(S) -> S]
        /\ \A i, j \in 1 .. Cardinality(S) : i # j => s[i] # s[j]
    BY DEF Sortings, SetToSeqs
  <1> QED BY <1>1, <1>2

LEMMA Answered ==
    ASSUME NEW f, NEW A \in Answers(f)
    PROVE  A \subseteq Matching(f)
  <1> DEFINE S == {e \in ledger : Matches(f, e)}
  <1>1. A \subseteq S
    <2> HIDE DEF S
    <2>1. A \in Newest(S, f.limit)
      BY DEF Answers, S
    <2> QED BY <2>1 DEF Newest
  <1> QED BY <1>1 DEF Matching

\* The elements of a sequence.
LEMMA Elements ==
    ASSUME NEW S, NEW s \in Seq(S)
    PROVE  /\ ToSet(s) \subseteq S
           /\ \A i \in DOMAIN s : s[i] \in ToSet(s)
           /\ DOMAIN s = 1 .. Len(s) /\ Len(s) \in Nat
           /\ s \in Seq(ToSet(s))
  BY LenProperties DEF ToSet

\* The cursor is the time of an event that is shown, if there is any.
LEMMA CursorType ==
    ASSUME shown \in Seq(Events)
    PROVE  /\ Cursor \in Nat
           /\ Cursor # 0 => \E e \in ToSet(shown) : Cursor = e.time
  <1> DEFINE time(i) == shown[i].time
             T == {0} \cup {e.time : e \in ToSet(shown)}
  <1>1. ToSet(shown) \subseteq Events /\ DOMAIN shown = 1 .. Len(shown) /\ Len(shown) \in Nat
    BY Elements
  <1>2. T \subseteq Nat
    BY <1>1, TimelineAssumption DEF IsEvent
  <1>3. IsFiniteSet(T)
    <2> DEFINE g == [i \in 0 .. Len(shown) |-> IF i = 0 THEN 0 ELSE shown[i].time]
    <2>1. g \in [0 .. Len(shown) -> T]
      BY <1>1 DEF ToSet
    <2>2. \A t \in T : \E i \in 0 .. Len(shown) : g[i] = t
      <3> SUFFICES ASSUME NEW t \in T PROVE \E i \in 0 .. Len(shown) : g[i] = t
        OBVIOUS
      <3>1. CASE t = 0
        BY <1>1, <3>1
      <3>2. CASE \E e \in ToSet(shown) : t = e.time
        <4>1. PICK i \in DOMAIN shown : t = shown[i].time
          BY <3>2 DEF ToSet
        <4> QED BY <1>1, <4>1
      <3> QED BY <3>1, <3>2
    <2>3. g \in Surjection(0 .. Len(shown), T)
      <3> HIDE DEF g, T
      <3> QED BY <2>1, <2>2 DEF Surjection
    <2>4. IsFiniteSet(0 .. Len(shown))
      BY <1>1, FS_Interval
    <2> HIDE DEF g, T
    <2> QED BY <2>3, <2>4, FS_Surjection
  <1>4. Max(T) \in T
    <2>1. T # {}
      OBVIOUS
    <2> HIDE DEF T
    <2> QED BY <1>2, <1>3, <2>1, Greatest
  <1>5. Cursor \in T
    BY <1>4 DEF Cursor
  <1> QED BY <1>2, <1>5

\* Queries, and what is made of them.
LEMMA QueryParts ==
    ASSUME NEW f \in Queries
    PROVE  /\ f.since \in Nat
           /\ SpansOf(f) \in Queries
           /\ \A n \in Nat : /\ [f EXCEPT !.since = n] \in Queries
                            /\ [f EXCEPT !.since = n].criteria = f.criteria
                            /\ [f EXCEPT !.since = n].since = n
  BY DEF Queries, SpansOf

LEMMA SinceType ==
    ASSUME shown \in Seq(Events), form \in Filters
    PROVE  Since \in Nat
  BY CursorType, QueryParts, TimelineAssumption DEF Since

-----------------------------------------------------------------------------
(* Requests.                                                                *)

\* There is at most one poll.
LEMMA OnePoll ==
    ASSUME poll \in Seq(Polls), Len(poll) <= 1
    PROVE  poll # <<>> => poll[1] \in Polls
  <1> SUFFICES ASSUME poll # <<>> PROVE poll[1] \in Polls
    OBVIOUS
  <1>1. Len(poll) \in Nat /\ Len(poll) # 0
    BY EmptySeq
  <1> QED BY <1>1, ElementOfSeq

LEMMA APoll ==
    ASSUME NEW p \in Polls
    PROVE  /\ <<p>> \in Seq(Polls) /\ Len(<<p>>) = 1
           /\ <<p>> # <<>> /\ <<p>>[1] = p
  OBVIOUS

\* A request with its answer.
LEMMA RepliedLoad ==
    ASSUME NEW l \in Loads, NEW A \in SUBSET Events
    PROVE  LET k == [l EXCEPT !.reply = <<A>>]
           IN  /\ k \in Loads
               /\ k.n = l.n /\ k.filter = l.filter /\ k.waits = l.waits
               /\ k.reply # <<>> /\ k.reply[1] = A
  BY DEF Loads

LEMMA RepliedPoll ==
    ASSUME NEW p \in Polls, NEW A \in SUBSET Events
    PROVE  LET q == [p EXCEPT !.reply = <<A>>]
           IN  /\ q \in Polls
               /\ q.gen = p.gen /\ q.filter = p.filter
               /\ q.reply # <<>> /\ q.reply[1] = A
  BY DEF Polls

\* A load that goes on to wait for its spans.
LEMMA AwaitingLoad ==
    ASSUME NEW l \in Loads
    PROVE  LET k == [l EXCEPT !.waits = "spans", !.reply = <<>>]
           IN  /\ k \in Loads
               /\ k.n = l.n /\ k.filter = l.filter /\ k.waits = "spans"
               /\ k.reply = <<>>
  BY DEF Loads

LEMMA RepliesType ==
    ASSUME TypeOK
    PROVE  /\ \A l \in loads : l.reply # <<>> => l.reply[1] \in SUBSET Events
           /\ poll # <<>> /\ poll[1].reply # <<>> => poll[1].reply[1] \in SUBSET Events
  BY OnePoll DEF TypeOK, Loads, Polls

-----------------------------------------------------------------------------
(* The types, the ledger, the answers to requests and what is shown.        *)

Sound == TypeOK /\ LedgerInv /\ RequestsInv /\ ShownInv

LEMMA SoundInit == Init => Sound
  <1> SUFFICES ASSUME Init PROVE Sound
    OBVIOUS
  <1>1. TypeOK
    <2>1. NewLoad(1, NoFilter) \in Loads
      BY TimelineAssumption DEF NewLoad, Loads
    <2>2. shown \in Seq(Events) /\ poll \in Seq(Polls) /\ Len(poll) <= 1
      BY DEF Init
    <2>3. gen \in 1 .. MaxLoads
      BY TimelineAssumption DEF Init
    <2>4. loads \subseteq Loads /\ \A k, l \in loads : k = l
      BY <2>1 DEF Init
    <2>5. form \in Filters /\ applied \in Filters
      BY TimelineAssumption DEF Init
    <2> QED BY <2>2, <2>3, <2>4, <2>5 DEF Init, TypeOK
  <1>2. LedgerInv
    BY FS_EmptySet DEF Init, LedgerInv
  <1>3. RequestsInv
    BY DEF Init, RequestsInv, NewLoad
  <1>4. ShownInv
    BY DEF Init, ShownInv, ToSet
  <1> QED BY <1>1, <1>2, <1>3, <1>4 DEF Sound

\* More events in the ledger spoil nothing.
LEMMA AppendSound == Sound /\ (\E e \in Events : AppendEvent(e)) => Sound'
  <1> SUFFICES ASSUME Sound, NEW e \in Events, AppendEvent(e) PROVE Sound'
    OBVIOUS
  <1>1. TypeOK'
    BY DEF Sound, AppendEvent, TypeOK, pageVars, flameVars
  <1>2. LedgerInv'
    BY FS_AddElement DEF Sound, AppendEvent, LedgerInv
  <1>3. \A f : Matching(f) \subseteq Matching(f)'
    BY DEF AppendEvent, Matching
  <1>4. RequestsInv'
    BY <1>3 DEF Sound, AppendEvent, RequestsInv, pageVars
  <1>5. ShownInv'
    BY DEF Sound, AppendEvent, ShownInv, pageVars
  <1> QED BY <1>1, <1>2, <1>4, <1>5 DEF Sound

LEMMA UserSound ==
    Sound /\ (\/ \E f \in Filters : Edit(f) \/ Load(f)
              \/ \E f \in asked : Refetched(f)
              \/ Pause \/ Resume \/ Tick \/ TickAgain \/ PollFails) => Sound'
  <1> SUFFICES ASSUME Sound,
                      \/ \E f \in Filters : Edit(f) \/ Load(f)
                      \/ \E f \in asked : Refetched(f)
                      \/ Pause \/ Resume \/ Tick \/ TickAgain \/ PollFails
               PROVE  Sound'
    OBVIOUS
  <1> USE DEF flameVars, history, Armed
  <1>1. ASSUME NEW f \in Filters, Edit(f) PROVE Sound'
    BY <1>1 DEF Edit, Sound, TypeOK, LedgerInv, RequestsInv, ShownInv, Matching
  <1>2. ASSUME NEW f \in Filters, Load(f) PROVE Sound'
    <2> DEFINE k == NewLoad(gen + 1, f)
    <2>1. gen' = gen + 1 /\ gen' \in 1 .. MaxLoads /\ gen \in 1 .. MaxLoads
      BY <1>2, TimelineAssumption DEF Load, NextGen, Sound, TypeOK
    <2>2. k \in Loads /\ k.n = gen' /\ k.reply = <<>> /\ loads' = loads \cup {k}
      BY <1>2, <2>1 DEF Load, NewLoad, Loads
    <2>3. \A l \in loads : l.n <= gen /\ l.n \in Nat
      BY DEF Sound, RequestsInv, TypeOK, Loads
    <2> HIDE DEF k
    <2>4. TypeOK'
      BY <1>2, <2>1, <2>2, <2>3 DEF Load, Sound, TypeOK
    <2>5. RequestsInv'
      <3>1. \A l \in loads' : l.n <= gen' /\ (l.reply # <<>> => l.reply[1] \subseteq Matching(l.filter)')
        BY <1>2, <2>1, <2>2, <2>3 DEF Load, Sound, RequestsInv, Matching
      <3>2. poll # <<>> => poll[1].gen \in Nat
        BY OnePoll DEF Sound, TypeOK, Polls
      <3> QED BY <1>2, <2>1, <3>1, <3>2 DEF Load, Sound, RequestsInv, Matching
    <2>6. LedgerInv' /\ ShownInv'
      BY <1>2 DEF Load, Sound, LedgerInv, ShownInv
    <2> QED BY <2>4, <2>5, <2>6 DEF Sound
  <1>3. ASSUME NEW f \in asked, Refetched(f) PROVE Sound'
    BY <1>3 DEF Refetched, Sound, TypeOK, LedgerInv, RequestsInv, ShownInv, Matching
  <1>4. CASE Pause
    BY <1>4 DEF Pause, Sound, TypeOK, LedgerInv, RequestsInv, ShownInv, Matching
  <1>5. CASE Resume
    BY <1>5 DEF Resume, Sound, TypeOK, LedgerInv, RequestsInv, ShownInv, Matching
  <1>6. CASE Tick
    <2> DEFINE q == [form EXCEPT !.since = Since]
               p == [gen |-> gen, filter |-> q, reply |-> <<>>]
    <2>0. q \in Queries /\ gen \in 1 .. MaxLoads
      BY SinceType, QueryParts, TimelineAssumption DEF Sound, TypeOK
    <2>1. p \in Polls /\ poll' = <<p>> /\ p.gen = gen /\ p.reply = <<>>
      <3>1. poll' = <<p>>
        BY <1>6 DEF Tick
      <3> HIDE DEF q
      <3>2. p \in Polls
        BY <2>0 DEF Polls
      <3> QED BY <3>1, <3>2
    <2> HIDE DEF p
    <2>2. poll' \in Seq(Polls) /\ Len(poll') <= 1 /\ poll'[1] = p
      BY <2>1, APoll
    <2>3. TypeOK'
      BY <1>6, <2>2 DEF Tick, Sound, TypeOK
    <2>4. RequestsInv'
      BY <1>6, <2>1, <2>2 DEF Tick, Sound, TypeOK, RequestsInv, Matching
    <2> QED BY <1>6, <2>3, <2>4 DEF Tick, Sound, LedgerInv, ShownInv
  <1>7. CASE TickAgain
    BY <1>7 DEF TickAgain, Sound, TypeOK, LedgerInv, RequestsInv, ShownInv, Matching
  <1>8. CASE PollFails
    BY <1>8 DEF PollFails, Sound, TypeOK, LedgerInv, RequestsInv, ShownInv, Matching
  <1> QED BY <1>1, <1>2, <1>3, <1>4, <1>5, <1>6, <1>7, <1>8

\* One load becomes another of the same generation and under the same filter.
LEMMA LoadGoesOn ==
    ASSUME Sound, NEW l \in loads, NEW k \in Loads, k.n = l.n, k.filter = l.filter,
           k.reply # <<>> => k.reply[1] \subseteq Matching(k.filter),
           loads' = (loads \ {l}) \cup {k}, UNCHANGED <<gen, ledger, poll>>
    PROVE  /\ loads' \subseteq Loads
           /\ \A i, j \in loads' : i.n = j.n => i = j
           /\ RequestsInv'
  <1>1. \A i, j \in loads : i.n = j.n => i = j
    BY DEF Sound, TypeOK
  <1>2. l.n <= gen /\ loads \subseteq Loads
    BY DEF Sound, TypeOK, RequestsInv
  <1>3. \A i \in loads' : i.n <= gen' /\ (i.reply # <<>> => i.reply[1] \subseteq Matching(i.filter)')
    BY <1>2 DEF Sound, RequestsInv, Matching
  <1> QED BY <1>1, <1>2, <1>3 DEF Sound, RequestsInv, Matching

LEMMA LoadSound == Sound /\ (\E l \in loads : LoadStep(l)) => Sound'
  <1> SUFFICES ASSUME Sound, NEW l \in loads, LoadStep(l) PROVE Sound'
    OBVIOUS
  <1> USE DEF flameVars, history
  <1>1. l \in Loads
    BY DEF Sound, TypeOK
  <1>2. CASE ServeLoad(l)
    <2>1. PICK A \in Answers(l.filter) :
              loads' = (loads \ {l}) \cup {[l EXCEPT !.reply = <<A>>]}
      BY <1>2 DEF ServeLoad
    <2>2. A \subseteq Matching(l.filter) /\ A \in SUBSET Events
      BY Answered DEF Sound, TypeOK, Matching
    <2> DEFINE k == [l EXCEPT !.reply = <<A>>]
    <2>3. k \in Loads /\ k.n = l.n /\ k.filter = l.filter /\ k.reply[1] = A
      BY <1>1, <2>2, RepliedLoad
    <2>4. loads' = (loads \ {l}) \cup {k}
      BY <2>1
    <2> HIDE DEF k
    <2>5. /\ loads' \subseteq Loads
          /\ \A i, j \in loads' : i.n = j.n => i = j
          /\ RequestsInv'
      <3>1. UNCHANGED <<gen, ledger, poll>>
        BY <1>2 DEF ServeLoad
      <3> QED BY <2>2, <2>3, <2>4, <3>1, LoadGoesOn
    <2>6. TypeOK'
      BY <1>2, <2>5 DEF ServeLoad, Sound, TypeOK
    <2> QED BY <1>2, <2>5, <2>6 DEF ServeLoad, Sound, LedgerInv, ShownInv
  <1>3. ASSUME AwaitSpans(l), UNCHANGED <<gen, ledger, poll>>
        PROVE  /\ loads' \subseteq Loads
               /\ \A i, j \in loads' : i.n = j.n => i = j
               /\ RequestsInv'
    <2> DEFINE k == [l EXCEPT !.waits = "spans", !.reply = <<>>]
    <2>1. k \in Loads /\ k.n = l.n /\ k.filter = l.filter /\ k.reply = <<>>
      BY <1>1, AwaitingLoad
    <2>2. loads' = (loads \ {l}) \cup {k}
      BY <1>3 DEF AwaitSpans
    <2> HIDE DEF k
    <2> QED BY <1>3, <2>1, <2>2, LoadGoesOn
  <1>4. CASE EventsArrive(l)
    <2> DEFINE A == l.reply[1]
    <2>1. A \subseteq ledger /\ IsFiniteSet(A) /\ ledger \subseteq Events
      <3>1. A \subseteq Matching(l.filter)
        BY <1>4 DEF EventsArrive, Sound, RequestsInv
      <3> QED BY <3>1, FS_Subset DEF Matching, Sound, LedgerInv, TypeOK
    <2>2. /\ shown' \in Seq(A)
          /\ \A i, j \in DOMAIN shown' : shown'[i] = shown'[j] => i = j
      BY <1>4, <2>1, Sorted DEF EventsArrive
    <2>3. ToSet(shown') \subseteq A
      BY <2>2, Elements
    <2>4. shown' \in Seq(Events)
      BY <2>1, <2>2, SeqMonotonic
    <2>5. /\ loads' \subseteq Loads
          /\ \A i, j \in loads' : i.n = j.n => i = j
          /\ RequestsInv'
      BY <1>3, <1>4 DEF EventsArrive
    <2>6. strayed' \in BOOLEAN
      BY <1>4 DEF EventsArrive
    <2>7. TypeOK'
      BY <1>4, <2>4, <2>5, <2>6 DEF EventsArrive, Sound, TypeOK
    <2>8. ShownInv' /\ LedgerInv'
      BY <1>4, <2>1, <2>2, <2>3 DEF EventsArrive, Sound, ShownInv, LedgerInv
    <2> QED BY <2>5, <2>7, <2>8 DEF Sound
  <1>5. CASE EventsFail(l)
    <2>1. shown' \in Seq(Events) /\ DOMAIN shown' = {} /\ ToSet(shown') = {}
      BY <1>5 DEF EventsFail, ToSet
    <2>2. /\ loads' \subseteq Loads
          /\ \A i, j \in loads' : i.n = j.n => i = j
          /\ RequestsInv'
      BY <1>3, <1>5 DEF EventsFail
    <2>3. strayed' \in BOOLEAN
      BY <1>5 DEF EventsFail
    <2>4. TypeOK'
      BY <1>5, <2>1, <2>2, <2>3 DEF EventsFail, Sound, TypeOK
    <2>5. ShownInv' /\ LedgerInv'
      BY <1>5, <2>1 DEF EventsFail, Sound, ShownInv, LedgerInv
    <2> QED BY <2>2, <2>4, <2>5 DEF Sound
  <1>6. ASSUME flame' \in Queries \cup {Nothing}, Return(l) PROVE Sound'
    BY <1>6 DEF Return, Armed, Sound, TypeOK, LedgerInv, RequestsInv, ShownInv, Matching
  <1>7. CASE SpansArrive(l)
    <2>1. SpansOf(l.filter) \in Queries
      BY <1>1, QueryParts, TimelineAssumption DEF Loads
    <2> QED BY <1>6, <1>7, <2>1 DEF SpansArrive
  <1>8. CASE SpansFail(l)
    BY <1>6, <1>8 DEF SpansFail, AfterFailure
  <1> QED BY <1>2, <1>4, <1>5, <1>7, <1>8 DEF LoadStep

\* Of what a poll brings nothing is shown yet, so that merging it repeats nothing.
LEMMA PollSound == Sound /\ (ServePoll \/ PollArrives) => Sound'
  <1> SUFFICES ASSUME Sound, ServePoll \/ PollArrives PROVE Sound'
    OBVIOUS
  <1> USE DEF flameVars, history
  <1>1. poll # <<>> /\ poll[1] \in Polls
    BY OnePoll DEF ServePoll, PollArrives, Sound, TypeOK
  <1>2. CASE ServePoll
    <2>1. PICK A \in Answers(poll[1].filter) :
              poll' = <<[poll[1] EXCEPT !.reply = <<A>>]>>
      BY <1>2 DEF ServePoll
    <2>2. A \subseteq Matching(poll[1].filter) /\ A \in SUBSET Events
      BY Answered DEF Sound, TypeOK, Matching
    <2> DEFINE q == [poll[1] EXCEPT !.reply = <<A>>]
    <2>3. /\ q \in Polls /\ q.gen = poll[1].gen /\ q.filter = poll[1].filter
          /\ q.reply[1] = A
      BY <1>1, <2>2, RepliedPoll
    <2>4. poll' = <<q>>
      BY <2>1
    <2> HIDE DEF q
    <2>5. poll' \in Seq(Polls) /\ Len(poll') <= 1 /\ poll'[1] = q
      BY <2>3, <2>4, APoll
    <2>6. TypeOK'
      BY <1>2, <2>5 DEF ServePoll, Sound, TypeOK
    <2>7. RequestsInv'
      BY <1>1, <1>2, <2>2, <2>3, <2>5 DEF ServePoll, Sound, RequestsInv, Matching
    <2> QED BY <1>2, <2>6, <2>7 DEF ServePoll, Sound, LedgerInv, ShownInv
  <1>3. CASE PollArrives
    <2>1. /\ Fresh \subseteq ledger /\ Fresh \cap ToSet(shown) = {}
          /\ IsFiniteSet(Fresh) /\ ledger \subseteq Events
      <3>1. /\ ledger \subseteq Events /\ IsFiniteSet(ledger)
            /\ poll[1].reply[1] \subseteq Matching(poll[1].filter)
        BY <1>3 DEF PollArrives, Sound, TypeOK, LedgerInv, RequestsInv
      <3>2. Fresh \subseteq ledger /\ Fresh \cap ToSet(shown) = {}
        BY <3>1 DEF Fresh, Unseen, Matching
      <3> QED BY <3>1, <3>2, FS_Subset
    <2>2. PICK s \in Sortings(Fresh) : shown' = shown \o s
      BY <1>3 DEF PollArrives
    <2>3. s \in Seq(Fresh) /\ \A i, j \in DOMAIN s : s[i] = s[j] => i = j
      BY <2>1, <2>2, Sorted
    <2>4. shown \in Seq(ToSet(shown)) /\ shown \in Seq(Events) /\ ToSet(shown) \subseteq ledger
      BY Elements DEF Sound, TypeOK, ShownInv
    <2>5. /\ shown' \in Seq(ledger)
          /\ \A i, j \in DOMAIN shown' : shown'[i] = shown'[j] => i = j
      <3> DEFINE m == Len(shown)
      <3>1. s \in Seq(ledger) /\ shown \in Seq(ledger)
        BY <2>1, <2>3, <2>4, SeqMonotonic
      <3>2. /\ DOMAIN shown = 1 .. m /\ m \in Nat
            /\ DOMAIN s = 1 .. Len(s) /\ Len(s) \in Nat
        BY <3>1, LenProperties
      <3>3. /\ shown' \in Seq(ledger) /\ DOMAIN shown' = 1 .. m + Len(s)
            /\ \A i \in 1 .. m + Len(s) :
                  shown'[i] = IF i <= m THEN shown[i] ELSE s[i - m]
        BY <2>2, <3>1, <3>2, ConcatProperties, LenProperties
      <3>4. \A i \in 1 .. m : shown[i] \in ToSet(shown)
        BY <3>2 DEF ToSet
      <3>5. \A i \in 1 .. Len(s) : s[i] \in Fresh
        BY <2>3, <3>2, ElementOfSeq
      <3>6. \A i, j \in 1 .. m : shown[i] = shown[j] => i = j
        BY <3>2 DEF Sound, ShownInv
      <3> HIDE DEF m
      <3>7. ASSUME NEW i \in 1 .. m + Len(s), NEW j \in 1 .. m + Len(s), shown'[i] = shown'[j]
            PROVE  i = j
        <4>1. CASE i <= m /\ j <= m
          BY <3>2, <3>3, <3>6, <3>7, <4>1
        <4>2. CASE i > m /\ j > m
          <5>1. i - m \in 1 .. Len(s) /\ j - m \in 1 .. Len(s) /\ s[i - m] = s[j - m]
            BY <3>2, <3>3, <3>7, <4>2
          <5>2. i - m = j - m
            BY <2>3, <3>2, <5>1
          <5> QED BY <3>2, <5>2
        <4>3. CASE (i <= m /\ j > m) \/ (i > m /\ j <= m)
          BY <2>1, <3>2, <3>3, <3>4, <3>5, <3>7, <4>3
        <4> QED BY <3>2, <4>1, <4>2, <4>3
      <3> QED BY <3>3, <3>7
    <2>6. shown' \in Seq(Events) /\ ToSet(shown') \subseteq ledger
      BY <2>1, <2>5, SeqMonotonic, Elements
    <2>7. asked' \subseteq Queries
      <3>1. SpansOf(form) \in Queries /\ asked \subseteq Queries
        BY QueryParts, TimelineAssumption DEF Sound, TypeOK
      <3> QED BY <1>3, <3>1 DEF PollArrives
    <2>8. TypeOK'
      BY <1>3, <2>6, <2>7 DEF PollArrives, Armed, Sound, TypeOK
    <2>9. RequestsInv' /\ LedgerInv' /\ ShownInv'
      BY <1>3, <2>5, <2>6 DEF PollArrives, Sound, RequestsInv, LedgerInv, ShownInv, Matching
    <2> QED BY <2>8, <2>9 DEF Sound
  <1> QED BY <1>2, <1>3

LEMMA SoundStep == Sound /\ [Next]_vars => Sound'
  <1> SUFFICES ASSUME Sound, [Next]_vars PROVE Sound'
    OBVIOUS
  <1>1. CASE Next
    BY <1>1, AppendSound, UserSound, LoadSound, PollSound DEF Next
  <1>2. CASE UNCHANGED vars
    <2>1. UNCHANGED <<ledger, form, gen, loads, shown, flame, asked, live, timer, poll,
                      applied, late, crossed, strayed>>
      BY <1>2 DEF vars, pageVars, flameVars, history
    <2> QED BY <2>1 DEF Sound, TypeOK, LedgerInv, RequestsInv, ShownInv, Matching
  <1> QED BY <1>1, <1>2

LEMMA AlwaysSound == Spec => []Sound
  BY SoundInit, SoundStep, PTL DEF Spec

\* Every variable always holds a value of its kind; each load has a generation of its
\* own, as the page counts them (app.js, loadEvents).
THEOREM TypeCorrect == Spec => []TypeOK
  <1>1. Sound => TypeOK
    BY DEF Sound
  <1> QED BY <1>1, AlwaysSound, PTL

\* No event is ever shown twice: neither the poll's inclusive bound nor a load that
\* overlaps the poll repeats what is there (app.js, fetchSince and mergeNewEvents).
THEOREM ShownOnce == Spec => []NoDuplicates
  <1>1. Sound => NoDuplicates
    <2> SUFFICES ASSUME Sound, NEW i \in DOMAIN shown, NEW j \in DOMAIN shown,
                        shown[i].id = shown[j].id
                 PROVE  i = j
      BY DEF NoDuplicates
    <2>1. shown[i] \in ledger /\ shown[j] \in ledger
      BY DEF Sound, ShownInv, ToSet
    <2> QED BY <2>1 DEF Sound, ShownInv, LedgerInv
  <1> QED BY <1>1, AlwaysSound, PTL

-----------------------------------------------------------------------------
(* The polling.                                                             *)

\* While the page is live, a poll is due, in flight or will be scheduled by a load,
\* whatever fails, pauses or comes late (app.js, schedulePoll and pollTick).
THEOREM PollingGoesOn == Spec => []LoopAlive
  <1> USE DEF flameVars, history, Armed
  <1>1. Init => LoopAlive
    BY DEF Init, LoopAlive
  <1>2. TypeOK /\ LoopAlive /\ [Next]_vars => LoopAlive'
    <2> SUFFICES ASSUME TypeOK, LoopAlive, [Next]_vars PROVE LoopAlive'
      OBVIOUS
    <2>0. ASSUME timer' = live, live' = live PROVE LoopAlive'
      <3>1. live \in BOOLEAN
        BY DEF TypeOK
      <3> QED BY <2>0, <3>1 DEF LoopAlive
    <2>1. ASSUME NEW e \in Events, AppendEvent(e) PROVE LoopAlive'
      BY <2>1 DEF AppendEvent, pageVars, LoopAlive
    <2>2. ASSUME NEW f \in Filters, Edit(f) PROVE LoopAlive'
      BY <2>2 DEF Edit, LoopAlive
    <2>3. ASSUME NEW f \in Filters, Load(f) PROVE LoopAlive'
      BY <2>3 DEF Load, LoopAlive
    <2>4. ASSUME NEW f \in asked, Refetched(f) PROVE LoopAlive'
      BY <2>4 DEF Refetched, LoopAlive
    <2>5. ASSUME NEW l \in loads, ServeLoad(l) PROVE LoopAlive'
      BY <2>5 DEF ServeLoad, LoopAlive
    <2>6. ASSUME NEW l \in loads, EventsArrive(l) \/ EventsFail(l) PROVE LoopAlive'
      BY <2>6 DEF EventsArrive, EventsFail, AwaitSpans, LoopAlive
    <2>7. ASSUME NEW l \in loads, SpansArrive(l) \/ SpansFail(l) PROVE LoopAlive'
      BY <2>0, <2>7 DEF SpansArrive, SpansFail, Return
    <2>8. CASE Tick \/ TickAgain
      <3>1. \A p : <<p>> # <<>>
        OBVIOUS
      <3> QED BY <2>8, <3>1 DEF Tick, TickAgain, LoopAlive
    <2>9. CASE ServePoll
      <3>1. \A p : <<p>> # <<>>
        OBVIOUS
      <3> QED BY <2>9, <3>1 DEF ServePoll, LoopAlive
    <2>10. CASE PollArrives \/ PollFails
      BY <2>0, <2>10 DEF PollArrives, PollFails
    <2>11. CASE Pause \/ Resume
      BY <2>11 DEF Pause, Resume, LoopAlive
    <2>12. CASE UNCHANGED vars
      BY <2>12 DEF vars, pageVars, LoopAlive
    <2> QED
      BY <2>1, <2>2, <2>3, <2>4, <2>5, <2>6, <2>7, <2>8, <2>9, <2>10, <2>11, <2>12
      DEF Next, LoadStep
  <1> QED BY <1>1, <1>2, TypeCorrect, PTL DEF Spec

-----------------------------------------------------------------------------
(* The view and the flame graph of a page that has not strayed.             *)

Fits == FitInv /\ FlameInv

LEMMA FitsInit == Init => Fits
  <1> SUFFICES ASSUME Init PROVE Fits
    OBVIOUS
  <1>1. ToSet(shown) = {}
    BY DEF Init, ToSet
  <1> QED BY <1>1 DEF Init, NewLoad, Fits, FitInv, FlameInv

\* A load starts afresh: no poll that was sent before is current, and the page strays
\* just when another load is under way.
LEMMA LoadFits ==
    ASSUME Sound, Fits, NEW f \in Filters, Load(f)
    PROVE  Fits'
  <1> SUFFICES ASSUME ~ strayed' PROVE Fits'
    BY DEF Fits, FitInv, FlameInv
  <1>1. /\ loads = {} /\ loads' = {NewLoad(gen', f)} /\ gen' = gen + 1
        /\ form' = f /\ applied' = f
      BY DEF Load, NextGen
  <1>2. \A l \in loads' : l.filter = f /\ l.waits = "events"
    BY <1>1 DEF NewLoad
  <1>3. gen \in Nat /\ (poll # <<>> => poll[1].gen \in Nat /\ poll[1].gen <= gen)
    BY OnePoll DEF Sound, TypeOK, RequestsInv, Polls
  <1>4. poll' # <<>> => ~ IsCurrent(poll[1])'
    BY <1>1, <1>3 DEF Load, IsCurrent
  <1>5. FitInv'
    <2>1. poll' # <<>> /\ IsCurrent(poll[1])' => FALSE
      BY <1>4
    <2>2. \A k, l \in loads' : k = l
      BY <1>1
    <2>3. ~ (\A l \in loads' : l.waits = "spans")
      BY <1>1, <1>2
    <2> QED BY <1>1, <1>2, <2>1, <2>2, <2>3 DEF FitInv
  <1>6. FlameInv'
    <2>1. ~ crossed' => asked' = {}
      BY DEF Load, flameVars
    <2> QED BY <1>1, <2>1 DEF FlameInv
  <1> QED BY <1>5, <1>6 DEF Fits

\* The one load under way brings what matches.
LEMMA LoadStepFits ==
    ASSUME Sound, Fits, NEW l \in loads, LoadStep(l)
    PROVE  Fits'
  <1> USE DEF flameVars, history
  <1> SUFFICES ASSUME ~ strayed' PROVE Fits'
    BY DEF Fits, FitInv, FlameInv
  <1>1. /\ ~ strayed /\ UNCHANGED <<applied, form, gen, poll, ledger>>
        /\ Matching(applied)' = Matching(applied)
    <2>1. UNCHANGED <<applied, form, gen, poll, ledger>>
      BY DEF LoadStep, ServeLoad, EventsArrive, EventsFail, SpansArrive, SpansFail, Return
    <2>2. strayed' = strayed \/ strayed' = (strayed \/ Overtaken)
      BY DEF LoadStep, ServeLoad, EventsArrive, EventsFail, SpansArrive, SpansFail, Return
    <2>3. strayed \in BOOLEAN
      BY DEF Sound, TypeOK
    <2>4. ~ strayed
      BY <2>2, <2>3
    <2> QED BY <2>1, <2>4 DEF Matching
  <1>2. /\ form = applied /\ loads = {l} /\ l.filter = applied /\ l \in Loads
        /\ poll # <<>> /\ IsCurrent(poll[1]) => poll[1].filter.criteria = applied.criteria
    BY <1>1 DEF Fits, FitInv, Sound, TypeOK
  <1>3. poll' # <<>> /\ IsCurrent(poll[1])' => poll[1]'.filter.criteria = applied.criteria
    BY <1>1, <1>2 DEF IsCurrent
  <1>4. CASE ServeLoad(l)
    <2>1. PICK A : loads' = {[l EXCEPT !.reply = <<A>>]}
      BY <1>2, <1>4 DEF ServeLoad
    <2> DEFINE k == [l EXCEPT !.reply = <<A>>]
    <2>2. k.filter = l.filter /\ k.waits = "events"
      BY <1>2, <1>4 DEF ServeLoad, Loads
    <2> HIDE DEF k
    <2>3. loads' = {k}
      BY <2>1 DEF k
    <2> QED BY <1>1, <1>2, <1>3, <1>4, <2>2, <2>3 DEF ServeLoad, Fits, FitInv, FlameInv
  <1>5. ASSUME AwaitSpans(l), shown' = <<>> \/ ToSet(shown') \subseteq Matching(applied),
               strayed' = (strayed \/ Overtaken),
               UNCHANGED <<flame, asked, crossed>>
        PROVE  Fits'
    <2> DEFINE k == [l EXCEPT !.waits = "spans", !.reply = <<>>]
    <2>1. loads' = {k} /\ k.filter = l.filter
      BY <1>2, <1>5, AwaitingLoad DEF AwaitSpans
    <2>2. ToSet(shown') \subseteq Matching(applied)
      BY <1>5 DEF ToSet
    <2>3. poll' # <<>> /\ IsCurrent(poll[1])' => poll[1]'.filter.since >= applied.since
      <3> SUFFICES ASSUME poll # <<>>, IsCurrent(poll[1])
                   PROVE  poll[1].filter.since >= applied.since
        BY <1>1 DEF IsCurrent
      <3>1. poll[1].filter.since \in applied.since .. Since'
        <4>1. ~ Overtaken
          BY <1>1, <1>5
        <4> QED BY <4>1 DEF Overtaken
      <3>2. poll[1] \in Polls /\ applied \in Queries
        BY OnePoll, TimelineAssumption DEF Sound, TypeOK
      <3>3. poll[1].filter.since \in Nat /\ applied.since \in Nat
        BY <3>2, QueryParts DEF Polls
      <3> QED BY <3>1, <3>3
    <2> HIDE DEF k
    <2> QED BY <1>1, <1>2, <1>3, <1>5, <2>1, <2>2, <2>3 DEF Fits, FitInv, FlameInv
  <1>6. CASE EventsArrive(l)
    <2> DEFINE A == l.reply[1]
    <2>1. A \subseteq Matching(applied)
      BY <1>2, <1>6 DEF EventsArrive, Sound, RequestsInv
    <2>2. IsFiniteSet(A)
      BY <2>1, FS_Subset DEF Matching, Sound, LedgerInv
    <2>3. shown' \in Seq(A)
      BY <1>6, <2>2, Sorted DEF EventsArrive
    <2>4. ToSet(shown') \subseteq A
      BY <2>3, Elements
    <2> QED BY <1>5, <1>6, <2>1, <2>4 DEF EventsArrive
  <1>7. CASE EventsFail(l)
    BY <1>5, <1>7 DEF EventsFail
  <1>8. ASSUME Return(l), flame' \in {SpansOf(applied), Nothing} PROVE Fits'
    <2>1. loads' = {} /\ l.waits = "spans" /\ UNCHANGED <<shown, asked, crossed>>
      BY <1>2, <1>8 DEF Return
    <2>2. /\ ToSet(shown) \subseteq Matching(applied)
          /\ poll # <<>> /\ IsCurrent(poll[1]) => poll[1].filter.since >= applied.since
      BY <1>1, <1>2, <2>1 DEF Fits, FitInv
    <2>3. poll' # <<>> /\ IsCurrent(poll[1])' => poll[1]'.filter.since >= applied.since
      BY <1>1, <2>2 DEF IsCurrent
    <2> QED BY <1>1, <1>2, <1>3, <1>8, <2>1, <2>2, <2>3 DEF Fits, FitInv, FlameInv
  <1>9. CASE SpansArrive(l) \/ SpansFail(l)
    BY <1>2, <1>8, <1>9 DEF SpansArrive, SpansFail, AfterFailure
  <1> QED BY <1>4, <1>6, <1>7, <1>9 DEF LoadStep

\* A poll that is current was sent under the criteria of the last load, and when that
\* is done asks for nothing before its since; any other poll brings nothing.
LEMMA PollFits ==
    ASSUME Sound, Fits, ServePoll \/ PollArrives
    PROVE  Fits'
  <1> USE DEF flameVars, history
  <1> SUFFICES ASSUME ~ strayed' PROVE Fits'
    BY DEF Fits, FitInv, FlameInv
  <1>1. /\ ~ strayed /\ UNCHANGED <<applied, form, gen, ledger, loads, crossed, flame>>
        /\ Matching(applied)' = Matching(applied)
    BY DEF ServePoll, PollArrives, Matching
  <1>2. poll # <<>> /\ poll[1] \in Polls
    BY OnePoll DEF ServePoll, PollArrives, Sound, TypeOK
  <1>3. /\ form = applied
        /\ IsCurrent(poll[1]) => poll[1].filter.criteria = applied.criteria
        /\ (\A l \in loads : l.waits = "spans") =>
              /\ ToSet(shown) \subseteq Matching(applied)
              /\ IsCurrent(poll[1]) => poll[1].filter.since >= applied.since
    BY <1>1, <1>2 DEF Fits, FitInv
  <1>4. CASE ServePoll
    <2>1. PICK A : poll' = <<[poll[1] EXCEPT !.reply = <<A>>]>>
      BY <1>4 DEF ServePoll
    <2> DEFINE q == [poll[1] EXCEPT !.reply = <<A>>]
    <2>2. q.gen = poll[1].gen /\ q.filter = poll[1].filter
      BY <1>2 DEF Polls
    <2> HIDE DEF q
    <2>3. poll' = <<q>> /\ poll'[1] = q
      BY <2>1 DEF q
    <2>4. poll' # <<>> /\ IsCurrent(poll[1])' => poll[1]'.filter.criteria = applied.criteria
      BY <1>1, <1>3, <2>2, <2>3 DEF IsCurrent
    <2>5. (\A l \in loads : l.waits = "spans") /\ poll' # <<>> /\ IsCurrent(poll[1])' =>
              poll[1]'.filter.since >= applied.since
      BY <1>1, <1>3, <2>2, <2>3 DEF IsCurrent
    <2> QED BY <1>1, <1>4, <2>4, <2>5 DEF ServePoll, Fits, FitInv, FlameInv
  <1>5. CASE PollArrives
    <2>1. /\ IsFiniteSet(Fresh)
          /\ (\A l \in loads : l.waits = "spans") => Fresh \subseteq Matching(applied)
      <3>1. poll[1].reply[1] \subseteq Matching(poll[1].filter)
        BY <1>5 DEF PollArrives, Sound, RequestsInv
      <3>2. Fresh \subseteq Matching(poll[1].filter)
        BY <3>1 DEF Fresh, Unseen
      <3>3. IsFiniteSet(Fresh)
        BY <3>2, FS_Subset DEF Matching, Sound, LedgerInv
      <3>4. ASSUME \A l \in loads : l.waits = "spans", IsCurrent(poll[1])
            PROVE  Matching(poll[1].filter) \subseteq Matching(applied)
        <4>1. poll[1].filter \in Queries /\ applied \in Queries
          BY <1>2, TimelineAssumption DEF Polls, Sound, TypeOK
        <4>2. poll[1].filter.since \in Nat /\ applied.since \in Nat
          BY <4>1, QueryParts
        <4>3. /\ poll[1].filter.criteria = applied.criteria
              /\ poll[1].filter.since >= applied.since
          BY <1>3, <3>4
        <4>4. \A e \in ledger : e.time \in Nat
          BY TimelineAssumption DEF Sound, TypeOK, IsEvent
        <4> QED BY <4>2, <4>3, <4>4 DEF Matching, Matches, NotBefore
      <3>5. ~ IsCurrent(poll[1]) => Fresh = {}
        BY DEF Fresh
      <3> QED BY <3>2, <3>3, <3>4, <3>5
    <2>2. PICK s \in Sortings(Fresh) : shown' = shown \o s
      BY <1>5 DEF PollArrives
    <2>3. ASSUME \A l \in loads : l.waits = "spans", ToSet(shown) \subseteq Matching(applied)
          PROVE  ToSet(shown') \subseteq Matching(applied)
      <3>1. s \in Seq(Matching(applied))
        BY <2>1, <2>2, <2>3, Sorted, SeqMonotonic
      <3>2. shown \in Seq(Matching(applied))
        BY <2>3, Elements, SeqMonotonic DEF Sound, TypeOK
      <3>3. shown' \in Seq(Matching(applied))
        BY <2>2, <3>1, <3>2, ConcatProperties
      <3> QED BY <3>3, Elements
    <2>4. asked' \subseteq asked \cup {SpansOf(applied)} /\ poll' = <<>>
      BY <1>3, <1>5 DEF PollArrives
    <2> QED BY <1>1, <2>3, <2>4 DEF Fits, FitInv, FlameInv
  <1> QED BY <1>4, <1>5

\* Once the events of the last load are there, a poll asks for nothing before its since.
LEMMA SinceFits ==
    ASSUME Sound, FitInv, ~ strayed, \A l \in loads : l.waits = "spans"
    PROVE  Since >= applied.since
  <1>1. form = applied /\ ToSet(shown) \subseteq Matching(applied)
    BY DEF FitInv
  <1>2. shown \in Seq(Events) /\ applied \in Queries
    BY TimelineAssumption DEF Sound, TypeOK
  <1>3. applied.since \in Nat
    BY <1>2, QueryParts
  <1>4. CASE Cursor = 0
    BY <1>1, <1>3, <1>4 DEF Since
  <1>5. CASE Cursor # 0
    <2>1. PICK e \in ToSet(shown) : Cursor = e.time
      BY <1>2, <1>5, CursorType
    <2>2. e.time >= applied.since
      BY <1>1, <2>1 DEF Matching, Matches, NotBefore
    <2> QED BY <1>5, <2>1, <2>2 DEF Since
  <1> QED BY <1>4, <1>5

LEMMA FitsStep == Sound /\ Fits /\ [Next]_vars => Fits'
  <1> SUFFICES ASSUME Sound, Fits, [Next]_vars PROVE Fits'
    OBVIOUS
  <1> USE DEF flameVars, history
  <1>1. ASSUME NEW e \in Events, AppendEvent(e) PROVE Fits'
    <2>1. \A f : Matching(f) \subseteq Matching(f)'
      BY <1>1 DEF AppendEvent, Matching
    <2> QED BY <1>1, <2>1 DEF AppendEvent, pageVars, Fits, FitInv, FlameInv, IsCurrent
  <1>2. ASSUME NEW f \in Filters, Edit(f) PROVE Fits'
    BY <1>2 DEF Edit, Fits, FitInv, FlameInv
  <1>3. ASSUME NEW f \in asked, Refetched(f) PROVE Fits'
    BY <1>3 DEF Refetched, Fits, FitInv, FlameInv, IsCurrent, Matching
  <1>4. CASE Tick
    <2> DEFINE q == [form EXCEPT !.since = Since]
               p == [gen |-> gen, filter |-> q, reply |-> <<>>]
    <2>1. p.gen = gen /\ p.filter = q
      OBVIOUS
    <2>2. poll' = <<p>>
      BY <1>4 DEF Tick
    <2>3. q.criteria = form.criteria /\ q.since = Since
      BY SinceType, QueryParts, TimelineAssumption DEF Sound, TypeOK
    <2> HIDE DEF p, q
    <2>4. poll'[1] = p
      BY <2>2
    <2>5. ASSUME ~ strayed, \A l \in loads : l.waits = "spans"
          PROVE  Since >= applied.since
      BY <2>5, SinceFits DEF Fits
    <2>6. UNCHANGED <<ledger, form, gen, loads, shown, flameVars, live, history>>
      BY <1>4 DEF Tick
    <2>7. Matching(applied)' = Matching(applied)
      BY <2>6 DEF Matching
    <2>8. FlameInv'
      BY <2>6 DEF Fits, FlameInv
    <2>9. FitInv'
      BY <2>1, <2>3, <2>4, <2>5, <2>6, <2>7 DEF Fits, FitInv, IsCurrent
    <2> QED BY <2>8, <2>9 DEF Fits
  <1>5. CASE TickAgain
    BY <1>5 DEF TickAgain, Fits, FitInv, FlameInv, IsCurrent, Matching
  <1>6. CASE PollFails
    BY <1>6 DEF PollFails, Fits, FitInv, FlameInv, Matching
  <1>7. CASE Pause \/ Resume
    BY <1>7 DEF Pause, Resume, Fits, FitInv, FlameInv, IsCurrent, Matching
  <1>8. CASE UNCHANGED vars
    BY <1>8 DEF vars, pageVars, Fits, FitInv, FlameInv, IsCurrent, Matching
  <1> QED
    BY <1>1, <1>2, <1>3, <1>4, <1>5, <1>6, <1>7, <1>8, LoadFits, LoadStepFits, PollFits
    DEF Next

LEMMA AlwaysFits == Spec => []Fits
  BY AlwaysSound, FitsInit, FitsStep, PTL DEF Spec

\* Once no load is under way, all that a page shows matches the filter of its last
\* load, if the user let each load finish and applied what he typed and no poll sent
\* meanwhile asks from the cursor of an older view: no poll of an older filter is ever
\* merged (app.js, pollTick and fetchSince).
THEOREM ViewsFit == Spec => []SettledViewFits
  <1>1. Fits => SettledViewFits
    BY DEF Fits, FitInv, SettledViewFits, ViewFits, Matching
  <1> QED BY <1>1, AlwaysFits, PTL

\* Nor does the flame graph then show the spans of another filter (app.js,
\* loadEvents, onSpansLoaded and refetchSpans).
THEOREM FlamesFit == Spec => []SettledFlameFits
  <1>1. Fits => SettledFlameFits
    BY DEF Fits, FlameInv, SettledFlameFits
  <1> QED BY <1>1, AlwaysFits, PTL
=============================================================================
