------------------------------- MODULE Requests -------------------------------
(***************************************************************************)
(* What is asked of a ledger and answered from one read of it: `ledger     *)
(* show` and `stats` (cli.py), the tools ledger_query and ledger_stats     *)
(* (mcp/tools.py), and the payloads of the timeline's server               *)
(* (viz/server.py).  Each of the three reads its own arguments and applies *)
(* limits in code of its own.                                              *)
(*                                                                         *)
(* A request r has source, type, machine, project and limit, each <<>> or  *)
(* <<v>>, and the bounds since and until.  A source is its first run of    *)
(* letters and digits, in lower case ("" if there is none), and what else  *)
(* tells it from others.  A limit below 0 stands in a URL also for one     *)
(* that is no number.  A type is a glob, the set of the types it matches.  *)
(***************************************************************************)
EXTENDS Digest

\* The types whose names mean something else when they are read as globs, as that of
\* "build[12].start" does, and the types that these globs match.
CONSTANT Wild

\* The type without a name.  As a glob it matches itself and nothing else does so.
BlankType == [base |-> "", edge |-> "none"]

ASSUME RequestsAssumption ==
    BlankType \notin DOMAIN Wild /\ \A type \in DOMAIN Wild : Wild[type] # {BlankType}

\* What fnmatchcase makes of the name of a type.
GlobOf(type) == IF type \in DOMAIN Wild THEN Wild[type] ELSE {type}

QueryOf(r) == [source |-> r.source, type |-> r.type, machine |-> r.machine,
               since |-> r.since, until |-> r.until]

-----------------------------------------------------------------------------
(* The command line and the tools.                                          *)

\* if limit is not None and limit >= 0: events[-limit:] if limit else []
UpTo(seq, limit) ==
    IF limit = <<>> THEN seq
    ELSE IF limit[1] < 0 THEN seq
    ELSE Newest(seq, limit[1])

Show(events, r) == UpTo(Ordered(QueryEvents(events, QueryOf(r))), r.limit)

LedgerQuery(events, r) ==
    LET found == UpTo(Ordered(QueryEvents(events, QueryOf(r))), r.limit)
    IN  [count |-> Len(found), events |-> found]

\* stats and ledger_stats, with --pair.
LedgerStats(events, r) ==
    LET found == QueryEvents(events, QueryOf(r))
        pairing == PairEvents(found, Conventions[1])
    IN  [total     |-> Cardinality(found),
         byType    |-> CountsByType(found),
         bySource  |-> CountsBySource(found),
         rate      |-> EventRate(found, r.since, r.until),
         durations |-> DurationStats(pairing.pairs),
         unmatchedStarts |-> Len(pairing.open),
         unmatchedEnds   |-> Cardinality(pairing.ends)]

-----------------------------------------------------------------------------
(* The server.                                                              *)

\* A parameter that is blank is one that is not given.
Single(values, blank) == IF values = <<blank>> THEN <<>> ELSE values

BlankSource == [token |-> "", rest |-> 0]

ProjectOf(source) == source.token

FilterByProject(events, project) == {e \in events : Allows(project, ProjectOf(e.source))}

QueryFromParams(r) ==
    [source |-> Single(r.source, BlankSource), type |-> Single(r.type, {BlankType}),
     machine |-> Single(r.machine, 0), since |-> r.since, until |-> r.until]

LimitFromParams(r) == IF r.limit = <<>> \/ r.limit[1] >= 0 THEN r.limit ELSE <<>>

\* Slicing without a case for 0.
ApplyLimitIfSliced(seq, limit) == IF limit = <<>> THEN seq ELSE NewestIfSliced(seq, limit[1])

ApplyLimit(seq, limit) == IF limit = <<>> THEN seq ELSE Newest(seq, limit[1])

\* The events that both /api/events and /api/spans start from.
Selected(events, r) ==
    FilterByProject(QueryEvents(events, QueryFromParams(r)), Single(r.project, ""))

\* Limiting what the query found, before the project is looked at.
EventsShownIfLimitedFirst(events, r) ==
    LET found == ApplyLimit(Ordered(QueryEvents(events, QueryFromParams(r))), LimitFromParams(r))
    IN  Ordered(FilterByProject(Range(found), Single(r.project, "")))

\* /api/events
EventsShown(events, r) == ApplyLimit(Ordered(Selected(events, r)), LimitFromParams(r))

\* /api/spans
SpansPayload(events, r) ==
    [spans |-> DeriveSpans(Selected(events, r)), links |-> DeriveLinks(Selected(events, r))]

\* /api/meta
MetaPayload(events) ==
    [sources  |-> {e.source : e \in events},
     projects |-> {ProjectOf(e.source) : e \in events},
     types    |-> {e.type : e \in events},
     machines |-> {e.machine : e \in events}]
=============================================================================
