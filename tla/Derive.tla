-------------------------------- MODULE Derive --------------------------------
(***************************************************************************)
(* What is computed from the events of a ledger, and never stored: the     *)
(* query and its order (query.py), paired durations (stats.py), nested     *)
(* spans and links (viz/connections.py).                                   *)
(*                                                                         *)
(* An event is a record of its machine, seq, time, source, type, tags and  *)
(* tokens.  Machine and seq identify it.  Machines are numbered in the     *)
(* order their names sort and times are counted from 1.  A type is a base  *)
(* and an edge: "x.start" is the start of x, and a type that starts or     *)
(* ends nothing has the edge "none".  tags are the key/value pairs of the  *)
(* event's data.                                                           *)
(*                                                                         *)
(* What need not be given is <<>> when it is not and <<v>> when it is.     *)
(***************************************************************************)
EXTENDS Integers, Sequences, SequencesExt, FiniteSetsExt, Sorting

\* A bound of a query that is not given.
NoBound == 0

-----------------------------------------------------------------------------
(* query.py *)

\* A definition with "If" in its name is a mistake that nothing here makes.  Here:
\* the seq, which counts within one machine, taken for the order of all.
PrecedesIfBySeq(e, f) ==
    \/ e.seq < f.seq
    \/ e.seq = f.seq /\ e.time < f.time
    \/ e.seq = f.seq /\ e.time = f.time /\ e.machine < f.machine

\* sort(key=(instant, seq)), stable over the machines in the order they are read.
Precedes(e, f) ==
    \/ e.time < f.time
    \/ e.time = f.time /\ e.seq < f.seq
    \/ e.time = f.time /\ e.seq = f.seq /\ e.machine < f.machine

Ordered(events) == Sorted(events, Precedes)

\* An exact match.
Allows(criterion, value) == criterion = <<>> \/ criterion[1] = value

\* A glob, which is the set of the types that it matches.
AllowsType(q, type) == q.type = <<>> \/ type \in q.type[1]

\* until taken for an inclusive bound.
MatchesIfInclusive(e, q) ==
    /\ Allows(q.source, e.source)
    /\ AllowsType(q, e.type)
    /\ Allows(q.machine, e.machine)
    /\ q.since = NoBound \/ q.since <= e.time
    /\ q.until = NoBound \/ e.time <= q.until

\* The criteria of a query are ANDed.
Matches(e, q) ==
    /\ Allows(q.source, e.source)
    /\ AllowsType(q, e.type)
    /\ Allows(q.machine, e.machine)
    /\ q.since = NoBound \/ q.since <= e.time
    /\ q.until = NoBound \/ e.time < q.until

QueryEvents(events, q) == {e \in events : Matches(e, q)}

\* events[-limit:], which for a limit of 0 is all of them.
NewestIfSliced(seq, limit) ==
    IF limit = 0 \/ limit >= Len(seq) THEN seq
    ELSE SubSeq(seq, Len(seq) - limit + 1, Len(seq))

\* The most recent of a sorted list: events[-limit:] if limit else [].
Newest(seq, limit) ==
    IF limit >= Len(seq) THEN seq
    ELSE SubSeq(seq, Len(seq) - limit + 1, Len(seq))

-----------------------------------------------------------------------------
(* stats.py *)

CountsByType(events) ==
    [ty \in {e.type : e \in events} |-> Cardinality({e \in events : e.type = ty})]

CountsBySource(events) ==
    [s \in {e.source : e \in events} |-> Cardinality({e \in events : e.source = s})]

\* event_rate: the count, and the span it is divided by: between the bounds given,
\* an observed extreme standing in for one that is not; 0 without events to observe.
EventRate(events, since, until) ==
    LET times == {e.time : e \in events}
        from  == IF since # NoBound THEN since ELSE IF times = {} THEN NoBound ELSE Min(times)
        to    == IF until # NoBound THEN until ELSE IF times = {} THEN NoBound ELSE Max(times)
    IN  [count |-> Cardinality(events),
         span  |-> IF NoBound \in {from, to} THEN 0 ELSE Max({0, to - from})]

\* The two conventions, .start/.end and .started/.done.
Conventions == <<[start |-> "start", end |-> "end"], [start |-> "started", end |-> "done"]>>

\* Last in, first out.
ClosesIfLatest(queue) == Max(queue)

\* Which start an end closes, of the open ones of its base: queue.popleft().
Closes(queue) == Min(queue)

\* One queue for all bases.
SameScopeIfOne(s, e) == {s.type, e.type} # {}

\* The scope in which starts and ends are matched: pair_events is called with its
\* default key.
SameScope(s, e) == s.type.base = e.type.base

\* One round of pair_events over p, the starts still open (in order), the pairs
\* made and the ends that closed nothing.
PairStep(p, e, convention) ==
    LET queue == {i \in DOMAIN p.open : SameScope(p.open[i], e)}
        first == Closes(queue)
    IN  CASE e.type.edge = convention.start -> [p EXCEPT !.open = Append(@, e)]
          [] e.type.edge = convention.end /\ queue = {} -> [p EXCEPT !.ends = @ \cup {e}]
          [] e.type.edge = convention.end /\ queue # {} ->
                 [p EXCEPT !.open = RemoveAt(@, first),
                           !.pairs = @ \cup {[start |-> p.open[first], end |-> e]}]
          [] OTHER -> p

PairEvents(events, convention) ==
    FoldLeft(LAMBDA p, e : PairStep(p, e, convention),
             [open |-> <<>>, pairs |-> {}, ends |-> {}], Ordered(events))

Seconds(pair) == pair.end.time - pair.start.time

\* durations.sort(key=start): stable, so pairs that start together stay in the
\* order they were closed.
PairPrecedes(p, q) ==
    \/ p.start.time < q.start.time
    \/ p.start.time = q.start.time /\ Precedes(p.end, q.end)

Durations(events, convention) == Sorted(PairEvents(events, convention).pairs, PairPrecedes)

\* The values as they come, in the order of their starts.
SecondsIfUnsorted(pairs) ==
    LET durations == Sorted(pairs, PairPrecedes)
    IN  [i \in DOMAIN durations |-> Seconds(durations[i])]

\* sorted(d.seconds for d in pairing.durations)
SortedSeconds(pairs) ==
    LET Shorter(p, q) == \/ Seconds(p) < Seconds(q)
                         \/ Seconds(p) = Seconds(q) /\ PairPrecedes(p, q)
        durations == Sorted(pairs, Shorter)
    IN  [i \in DOMAIN durations |-> Seconds(durations[i])]

\* sum(values)
Total(values) == FoldLeft(+, 0, values)

\* What DurationStats says of the sorted values; the median twice, so that the mean of
\* the two middle values is a number here, and the mean as the total and the count.
Summary(values) ==
    LET count == Len(values)
        mid   == count \div 2
    IN  [count |-> count,
         total |-> Total(values),
         min   |-> IF count = 0 THEN <<>> ELSE <<values[1]>>,
         max   |-> IF count = 0 THEN <<>> ELSE <<values[count]>>,
         twiceMedian |-> IF count = 0 THEN <<>>
                         ELSE IF count % 2 = 1 THEN <<2 * values[mid + 1]>>
                         ELSE <<values[mid] + values[mid + 1]>>]

\* DurationStats.from_pairing
DurationStats(pairs) == Summary(SortedSeconds(pairs))

-----------------------------------------------------------------------------
(* viz/connections.py *)

StrictlyContains(outer, inner) ==
    /\ outer.start.time <= inner.start.time
    /\ inner.end.time <= outer.end.time
    /\ outer.start.time < inner.start.time \/ inner.end.time < outer.end.time

\* The widest of the spans with an index in I.
NarrowestIfWidest(spans, I) ==
    CHOOSE i \in I : \A j \in I : Seconds(spans[j]) <= Seconds(spans[i])

\* The first of the narrowest spans with an index in I.
Narrowest(spans, I) ==
    CHOOSE i \in I : \A j \in I :
        \/ Seconds(spans[i]) < Seconds(spans[j])
        \/ Seconds(spans[i]) = Seconds(spans[j]) /\ i <= j

\* The bare spans with their nesting.  A parent is an index, 0 for none.  Depth walks
\* the parents, which ends because containment is strict.
Nesting(bare) ==
    LET containers(i) == {j \in DOMAIN bare : StrictlyContains(bare[j], bare[i])}
        parent == [i \in DOMAIN bare |->
                      IF containers(i) = {} THEN 0 ELSE Narrowest(bare, containers(i))]
        depth[i \in DOMAIN bare] == IF parent[i] = 0 THEN 0 ELSE 1 + depth[parent[i]]
    IN  [i \in DOMAIN bare |->
            [start |-> bare[i].start, end |-> bare[i].end,
             parent |-> parent[i], depth |-> depth[i]]]

\* The sort that comes last is left out: the spans are looked at as a set.
DeriveSpans(events) ==
    Nesting(Durations(events, Conventions[1]) \o Durations(events, Conventions[2]))

\* Every later event of the group linked to the first.
ChainIfStar(group, key) ==
    {[from |-> group[1], to |-> group[i], key |-> <<key>>] : i \in 2 .. Len(group)}

\* zip(ids, ids[1:]): consecutive events of a group that share a value of key.
Chain(group, key) ==
    {[from |-> group[i], to |-> group[i + 1], key |-> <<key>>] : i \in 1 .. Len(group) - 1}

\* A link of a pair has no key.
PairLinks(events) ==
    UNION {{[from |-> p.start, to |-> p.end, key |-> <<>>] :
               p \in PairEvents(events, c).pairs} : c \in Range(Conventions)}

DataLinks(events) ==
    UNION {Chain(Ordered({e \in events : tag \in e.tags}), tag.key) :
               tag \in UNION {e.tags : e \in events}}

DeriveLinks(events) == PairLinks(events) \cup DataLinks(events)
=============================================================================
