--------------------------------- MODULE Views ---------------------------------
(***************************************************************************)
(* The views of a ledger while it grows: what show, stats, digest and the  *)
(* timeline's server would derive from it after every append.              *)
(*                                                                         *)
(* Several machines append, each with a clock of its own, and audits log   *)
(* what happened earlier, so an event may come with a time before others   *)
(* that are there.  Views are computed anew for every request; what has to *)
(* be right is how the answers to different requests, and of different     *)
(* rules, fit each other.                                                  *)
(***************************************************************************)
EXTENDS Requests

CONSTANTS
    MaxTime,   \* bound: times are 1 .. MaxTime
    Workloads  \* what may be logged: a set of workloads, see IsWorkload

KindOf(e) == [source |-> e.source, type |-> e.type, tags |-> e.tags, tokens |-> e.tokens]

\* Events of the machines and kinds given, numbered from 0 on every machine.
IsLedger(events, machines, kinds) ==
    /\ IsFiniteSet(events)
    /\ \A e \in events :
           e.machine \in machines /\ e.time \in 1 .. MaxTime /\ KindOf(e) \in kinds
    /\ \A m \in machines :
           LET logged == {e \in events : e.machine = m}
           IN  {e.seq : e \in logged} = 0 .. Cardinality(logged) - 1

\* A workload is the machines that log, the kinds of events they log (an event
\* without machine, seq and time), the events that are there before, a bound on their
\* number, whether a kind is logged once only, whether events may come out of the
\* order of their times, and the requests that are asked.
IsWorkload(w) ==
    /\ w.machines \subseteq Nat \ {0}
    /\ w.max \in Nat
    /\ {w.once, w.late} \subseteq BOOLEAN
    /\ IsLedger(w.there, w.machines, w.kinds)
    /\ Cardinality(w.there) <= w.max
    /\ \A k \in w.kinds :
           /\ k = KindOf(k) /\ k.tokens \in Int
           /\ \A t, u \in k.tags : t.key = u.key => t = u
    /\ \A r \in w.asks :
           /\ DOMAIN r = {"source", "type", "machine", "project", "limit", "since", "until"}
           /\ r.limit \in Seq(Int) /\ Len(r.limit) <= 1

ASSUME ViewsAssumption == MaxTime \in Nat \ {0} /\ \A w \in Workloads : IsWorkload(w)

VARIABLES
    ledger,    \* the events stored so far
    workload   \* what this system logs

vars == <<ledger, workload>>

Init == workload \in Workloads /\ ledger = workload.there

\* One count for all machines.
NextSeqIfGlobal(m) == Cardinality(ledger)

\* The seq the store gives an event of machine m; its seqs have no gap.
NextSeq(m) == Cardinality({e \in ledger : e.machine = m})

Event(m, kind, t) ==
    [machine |-> m, seq |-> NextSeq(m), time |-> t, source |-> kind.source,
     type |-> kind.type, tags |-> kind.tags, tokens |-> kind.tokens]

\* An event with the time t is appended.
Log(m, kind, t) ==
    /\ Cardinality(ledger) < workload.max
    /\ workload.once => \A e \in ledger : KindOf(e) # kind
    /\ workload.late \/ \A e \in ledger : e.time <= t
    /\ ledger' = ledger \cup {Event(m, kind, t)}
    /\ UNCHANGED workload

Next == \E m \in workload.machines, kind \in workload.kinds, t \in 1 .. MaxTime :
            Log(m, kind, t)

Spec == Init /\ [][Next]_vars

-----------------------------------------------------------------------------
(* Windows: a digest or a query of every machine from one moment to another. *)

\* The moments between which reports may be made.
Moments == 1 .. MaxTime + 1

Between(since, until) ==
    [source |-> <<>>, type |-> <<>>, machine |-> <<>>, project |-> <<>>, limit |-> <<>>,
     since |-> since, until |-> until]

Window(since, until) == QueryEvents(ledger, QueryOf(Between(since, until)))

\* The ledger holds events of the workload, numbered from 0 on every machine.
TypeOK ==
    /\ workload \in Workloads
    /\ IsLedger(ledger, workload.machines, workload.kinds)

-----------------------------------------------------------------------------
(* Pairs. *)

\* pair_events uses every start and every end once: it is in one pair, or it is left
\* unmatched.  No pair ends before it starts, two pairs of one base end in the order
\* they started, and a start is left open only if all later ends of its base
\* closed another.
PairingSound ==
    \A c \in Range(Conventions) :
        LET p == PairEvents(ledger, c)
            starts == {e \in ledger : e.type.edge = c.start}
            ends == {e \in ledger : e.type.edge = c.end}
        IN  /\ starts = Range(p.open) \cup {q.start : q \in p.pairs}
            /\ ends = p.ends \cup {q.end : q \in p.pairs}
            /\ Cardinality(starts) = Len(p.open) + Cardinality(p.pairs)
            /\ Cardinality(ends) = Cardinality(p.ends) + Cardinality(p.pairs)
            /\ \A q \in p.pairs : Seconds(q) >= 0
            /\ \A q, r \in p.pairs :
                   q.start.type.base = r.start.type.base /\ Precedes(q.start, r.start)
                       => Precedes(q.end, r.end)
            /\ \A s \in Range(p.open), e \in p.ends :
                   s.type.base = e.type.base => Precedes(e, s)

\* What was reported of the past stands: an event that is appended changes no pair
\* that ended before its time, and no push before its time is flagged or cleared.
\* Events that come late, as those of an audit do, change only what follows them.
PastStands ==
    [][\A e \in ledger' \ ledger :
           LET Ended(pairs) == {p \in pairs : p.end.time < e.time}
               Pushed(pushes) == {p \in pushes : p.time < e.time}
           IN  /\ \A c \in Range(Conventions) :
                      Ended(PairEvents(ledger, c).pairs) = Ended(PairEvents(ledger', c).pairs)
               /\ Pushed(FlagPushWithoutGreen(ledger)) =
                      Pushed(FlagPushWithoutGreen(ledger'))]_vars

-----------------------------------------------------------------------------
(* Spans and links. *)

\* A span without container is outermost; any other has a parent that contains it,
\* nothing that contains it fits strictly into that parent, and it lies one deeper.
IsForest(spans) ==
    \A i \in DOMAIN spans :
        LET s == spans[i]
            containers == {j \in DOMAIN spans : StrictlyContains(spans[j], s)}
        IN  IF s.parent = 0 THEN containers = {} /\ s.depth = 0
            ELSE /\ s.parent \in containers
                 /\ s.depth = spans[s.parent].depth + 1
                 /\ \A j \in containers : ~StrictlyContains(spans[s.parent], spans[j])

\* The nesting of derive_spans is a forest of intervals: every span lies in the
\* narrowest that contains it, however spans overlap, coincide or have no length.
SpansNest == IsForest(DeriveSpans(ledger))

\* The events that share a value form one chain: going from link to link from the
\* first of them, in the order of the ledger, one comes to every other, once.  And
\* the pair links are the spans.
LinksChain ==
    LET links == DeriveLinks(ledger)
        spans == DeriveSpans(ledger)
    IN  /\ {<<k.from, k.to>> : k \in {l \in links : l.key = <<>>}} =
               {<<spans[i].start, spans[i].end>> : i \in DOMAIN spans}
        /\ \A tag \in UNION {e.tags : e \in ledger} :
               LET group == {e \in ledger : tag \in e.tags}
                   inside == {l \in links : l.key = <<tag.key>> /\ {l.from, l.to} \subseteq group}
               IN  /\ Cardinality(inside) = Cardinality(group) - 1
                   /\ \A l \in inside : Precedes(l.from, l.to)
                   /\ \A l, k \in inside : l # k => l.from # k.from /\ l.to # k.to

-----------------------------------------------------------------------------
(* Reports. *)

\* Reports over adjacent windows add up to the report over both: no event is counted
\* twice or in neither, in the counts, the tokens, the rates and the flags of single
\* events.
ReportsAddUp ==
    \A b, c \in Moments : b <= c =>
        LET first  == Window(1, b)
            second == Window(b, c)
            both   == Window(1, c)
            Count(counts, ty) == IF ty \in DOMAIN counts THEN counts[ty] ELSE 0
        IN  /\ \A ty \in {e.type : e \in both} :
                   Count(CountsByType(first), ty) + Count(CountsByType(second), ty) =
                       CountsByType(both)[ty]
            /\ TotalTokens(first) + TotalTokens(second) = TotalTokens(both)
            /\ EventRate(first, 1, b).count + EventRate(second, b, c).count =
                   EventRate(both, 1, c).count
            /\ EventRate(first, 1, b).span + EventRate(second, b, c).span =
                   EventRate(both, 1, c).span
            /\ FlagCouldHaveAsked(first) \cup FlagCouldHaveAsked(second) =
                   FlagCouldHaveAsked(both)

\* A push is flagged in some window exactly if a failure came before it with no ship
\* between, and a digest over a part of the ledger may forget a failure but blames
\* no push and sees no spike that the digest over all of it does not.
PushesBlamed ==
    LET blamed == FlagPushWithoutGreen(ledger)
    IN  /\ blamed =
               {p \in OfType(ledger, PushType) :
                   \E f \in OfType(ledger, FailureType) :
                       /\ Precedes(f, p)
                       /\ \A s \in OfType(ledger, ShippedType) :
                              Precedes(s, f) \/ Precedes(p, s)}
        /\ \A a, b \in Moments : a < b =>
               LET window == Window(a, b)
               IN  /\ FlagPushWithoutGreen(window) \subseteq blamed
                   /\ Spike(window) => Spike(ledger)

\* What a limit cuts off is not newer than what it leaves, and it cuts off no more than
\* it must; a limit of 0 leaves nothing.  So it is for the failures of the rollup.
NewestKept ==
    LET all == Ordered(ledger)
        failures == Recent(ledger, FailureType)
    IN  /\ \A limit \in 0 .. Len(all) + 1 :
               LET shown == Newest(all, limit)
               IN  /\ Len(shown) = Min({limit, Len(all)})
                   /\ \A e \in ledger \ Range(shown), f \in Range(shown) : e.time <= f.time
        /\ \A e \in OfType(ledger, FailureType) \ Range(failures) :
               Len(failures) = RecentLimit /\ \A f \in Range(failures) : e.time <= f.time

\* Outliers are the exception: no more than half of what is measured in a window, and
\* nothing that is not above all the rest.
OutliersRare ==
    \A a, b \in Moments : a < b =>
        LET window == Window(a, b)
            out == FlagTokenOutliers(window)
            rest == OfType(window, ShippedType) \ out
        IN  /\ 2 * Cardinality(out) <= Len(Metric(window))
            /\ \A e \in out, f \in rest : e.tokens > f.tokens

-----------------------------------------------------------------------------
(* Requests. *)

\* A request that the command line and the tools have words for too, and that gives
\* no blank criterion: they take one at its word.
Common(r) ==
    /\ r.project = <<>>
    /\ r.source # <<BlankSource>> /\ r.type # <<{BlankType}>> /\ r.machine # <<0>>

\* The same request gets the same events from `ledger show`, from ledger_query and
\* from the server, whatever the limit: none, too large, 0 or below.
SameAnswer ==
    \A r \in workload.asks : Common(r) =>
        LET shown == Show(ledger, r)
        IN  /\ LedgerQuery(ledger, r) = [count |-> Len(shown), events |-> shown]
            /\ EventsShown(ledger, r) = shown

\* Every event can be found under one source, project, type and machine that /api/meta
\* offers, and each of them finds some event.  Left out is what the server takes for no
\* criterion, a source or type that is blank or a source without project, and a type
\* whose name is a glob for others: the page asks for it by that name, and gets all of
\* another type or nothing of it.  A limit leaves the newest of a project, and as many
\* as it can.
MetaSelects ==
    LET meta == MetaPayload(ledger)
        every == Between(NoBound, NoBound)
        Found(r) == Range(EventsShown(ledger, r))
        unclear  == {BlankType} \cup DOMAIN Wild
        sources  == {Found([every EXCEPT !.source = <<v>>]) : v \in meta.sources \ {BlankSource}}
        machines == {Found([every EXCEPT !.machine = <<v>>]) : v \in meta.machines}
        types    == {Found([every EXCEPT !.type = <<GlobOf(v)>>]) : v \in meta.types \ unclear}
        projects == {Found([every EXCEPT !.project = <<v>>]) : v \in meta.projects \ {""}}
        Parts(S, of) == /\ UNION S = of
                        /\ {} \notin S
                        /\ \A X, Y \in S : X = Y \/ X \cap Y = {}
    IN  /\ Parts(sources, {e \in ledger : e.source # BlankSource})
        /\ Parts(machines, ledger)
        /\ Parts(types, {e \in ledger : e.type \notin unclear})
        /\ \A v \in meta.types \cap DOMAIN Wild, S \in types :
               LET found == Found([every EXCEPT !.type = <<GlobOf(v)>>])
               IN  S \subseteq found \/ S \cap found = {}
        /\ Parts(projects, {e \in ledger : ProjectOf(e.source) # ""})
        /\ \A v \in meta.projects \ {""}, r \in workload.asks :
               LET all == EventsShown(ledger, [every EXCEPT !.project = <<v>>])
                   cut == EventsShown(ledger, [every EXCEPT !.project = <<v>>, !.limit = r.limit])
               IN  /\ r.limit # <<>> /\ r.limit[1] >= 0 => Len(cut) = Min({Len(all), r.limit[1]})
                   /\ cut = SubSeq(all, Len(all) - Len(cut) + 1, Len(all))

\* All that counts count.
AllOf(counts) == FoldFunction(+, 0, counts)

\* The summary of a window fits its events and the digest of the same window: the
\* counts add up, every start and end is paired or counted as unmatched, the mean and
\* the median lie between the extremes, and half of the durations on each side of the
\* median.
SummariesFit ==
    \A r \in {s \in workload.asks : Common(s)} :
        LET found == QueryEvents(ledger, QueryOf(r))
            stats == LedgerStats(ledger, r)
            digest == DigestOf(found)
            d == stats.durations
            pairs == PairEvents(found, Conventions[1]).pairs
            Flagged(rule) == {a \in digest.anomalies : a.rule = rule}
        IN  /\ AllOf(stats.byType) = stats.total /\ AllOf(stats.bySource) = stats.total
            /\ digest.rollup.total = stats.total /\ digest.rollup.durations = d
            /\ digest.rollup.counts = stats.byType
            /\ 2 * d.count + stats.unmatchedStarts + stats.unmatchedEnds =
                   Cardinality({e \in found : e.type.edge \in Range(Conventions[1])})
            /\ d.count > 0 =>
                   /\ d.count * d.min[1] <= d.total /\ d.total <= d.count * d.max[1]
                   /\ 2 * d.min[1] <= d.twiceMedian[1] /\ d.twiceMedian[1] <= 2 * d.max[1]
                   /\ 2 * Cardinality({p \in pairs : 2 * Seconds(p) <= d.twiceMedian[1]}) >= d.count
                   /\ 2 * Cardinality({p \in pairs : 2 * Seconds(p) >= d.twiceMedian[1]}) >= d.count
            /\ Cardinality(Flagged("failure")) = Cardinality(OfType(found, FailureType))
            /\ Flagged("failure_spike") # {} => Len(digest.rollup.recent[FailureType]) =
                   Min({RecentLimit, Cardinality(Flagged("failure"))})
            /\ \A a \in digest.anomalies : Range(a.event) \subseteq found

\* A type filter that keeps both edges of a base neither makes nor breaks a span or a
\* pair link: what overlaps in other bases has no say in the matching.  A base without
\* name is left out, as a filter for nothing but the blank type is none.
SpansOfType ==
    LET all == SpansPayload(ledger, Between(NoBound, NoBound))
        Ends(spans) == {<<spans[i].start, spans[i].end>> : i \in DOMAIN spans}
        Pairs(links) == {l \in links : l.key = <<>>}
    IN  \A base \in {e.type.base : e \in ledger} \ {BlankType.base} :
            LET both == {e.type : e \in {f \in ledger : f.type.base = base}}
                some == SpansPayload(ledger, [Between(NoBound, NoBound) EXCEPT !.type = <<both>>])
            IN  /\ Ends(some.spans) = {x \in Ends(all.spans) : x[1].type.base = base}
                /\ Pairs(some.links) = {l \in Pairs(all.links) : l.from.type.base = base}
=============================================================================
