------------------------------- MODULE Timeline -------------------------------
(***************************************************************************)
(* The live timeline (evledger/viz/assets/app.js) and the server it polls: *)
(* events are appended while the page loads under one filter after the     *)
(* other, polls for what is new, is paused and resumed.  Requests are      *)
(* answered from the ledger as it stands when the server reads it, and the *)
(* answers arrive in any order or not at all.                              *)
(*                                                                         *)
(* JavaScript runs one continuation at a time: an action is what runs      *)
(* between two awaits.  What is drawn is left out, but for the filter that *)
(* the spans in the flame graph were asked for.                            *)
(***************************************************************************)
EXTENDS Integers, Sequences, SequencesExt, FiniteSetsExt

CONSTANTS
    Events,   \* what may be appended: a set of events, see IsEvent
    Criteria, \* what an event is searched for by, other than since and limit
    Filters,  \* what the inputs may say
    NoFilter, \* what they say when they are empty
    Nothing,  \* the filter of a flame graph without spans
    MaxLoads  \* bounds how often a run loads

\* What a request asks for; since and limit are 0 where it sends none.
Queries == [criteria : Criteria, since : Nat, limit : Nat]

\* fits is the set of criteria that the event meets.
IsEvent(e) ==
    /\ DOMAIN e = {"id", "time", "fits"}
    /\ e.time \in Nat \ {0}
    /\ e.fits \subseteq Criteria
    /\ NoFilter.criteria \in e.fits

ASSUME TimelineAssumption ==
    /\ MaxLoads \in Nat \ {0}
    /\ Filters \subseteq Queries
    /\ NoFilter \in Filters /\ NoFilter.since = 0 /\ NoFilter.limit = 0
    /\ Nothing \notin Queries
    /\ \A e \in Events : IsEvent(e)

VARIABLES
    ledger,  \* the events appended so far
    form,    \* what the inputs say
    gen,     \* state.loadGen
    loads,   \* the calls of loadEvents that have not returned
    shown,   \* state.events
    live,    \* state.live
    flame,   \* the query of state.spans, or Nothing when they are empty
    asked,   \* the queries with which refetchSpans has requests under way
    timer,   \* whether state.pollTimer is set
    poll,    \* the request of the poll in flight, if state.polling: <<p>> or <<>>
    applied, \* history: the filter of the last load
    late,    \* history: the events that came with a time before that of a matching
             \* event that was there, and that no load has brought since
    crossed, \* history: the last load began while spans were being fetched again
    strayed  \* history: since the last load the inputs were edited, it began while
             \* another one was under way, or a poll was that it did not expect

flameVars == <<flame, asked>>
pageVars == <<form, gen, loads, shown, flameVars, live, timer, poll>>
history == <<applied, late, crossed, strayed>>
vars == <<ledger, pageVars, history>>

\* A load waits for its events and then for its spans.  The reply to it or to a poll
\* is <<>> until the server has answered with the set S of events, and then <<S>>.
Loads == [n : 1 .. MaxLoads, filter : Filters, waits : {"events", "spans"},
          reply : {<<>>} \cup {<<S>> : S \in SUBSET Events}]
Polls == [gen : 1 .. MaxLoads, filter : Queries,
          reply : {<<>>} \cup {<<S>> : S \in SUBSET Events}]

-----------------------------------------------------------------------------
(* A definition with "If" in its name is a mistake that no action makes.    *)

Earlier(d, e) == d.time < e.time

\* The orders in which S may be sent: among equal times the seq decides, which is
\* left open.
Sortings(S) == {s \in SetToSeqs(S) : \A i, j \in DOMAIN s : i < j => ~ Earlier(s[j], s[i])}

\* What _apply_limit may leave of S: the newest.
Newest(S, limit) ==
    IF limit = 0 \/ Cardinality(S) <= limit
    THEN {S}
    ELSE {A \in SUBSET S : /\ Cardinality(A) = limit
                           /\ \A a \in A, b \in S \ A : ~ Earlier(a, b)}

\* Taking since for an exclusive bound.
NotBeforeIfAfter(e, since) == e.time > since

NotBefore(e, since) == e.time >= since

\* The event is one that f asks for.
Matches(f, e) == f.criteria \in e.fits /\ NotBefore(e, f.since)

\* What /api/events may answer.
Answers(f) == Newest({e \in ledger : Matches(f, e)}, f.limit)

\* What buildSpansUrl asks for: the limit is left out.
SpansOf(f) == [f EXCEPT !.limit = 0]

\* state.cursor, which is recomputed whenever state.events changes; 0 stands for
\* null.
Cursor == Max({0} \cup {e.time : e \in ToSet(shown)})

\* From when on a poll asks: the cursor, if there is one, takes the place of what the
\* input says.
Since == IF Cursor = 0 THEN form.since ELSE Cursor

\* Leaving the double at the inclusive bound in.
UnseenIfAll(S) == S

\* What of S is not in state.seenIds, which holds the ids of state.events.
Unseen(S) == S \ ToSet(shown)

\* Leaving the generation as it is.
NextGenIfKept == gen

NextGen == gen + 1

\* Merging whatever comes.
IsCurrentIfAny(p) == p.gen <= gen

\* No load has begun since the poll p was sent.
IsCurrent(p) == p.gen = gen

\* Arming the timer only when it was.
ArmedIfWas == live /\ timer

\* schedulePoll.
Armed == live

-----------------------------------------------------------------------------
NewLoad(n, f) == [n |-> n, filter |-> f, waits |-> "events", reply |-> <<>>]

\* boot has called loadEvents.
Init ==
    /\ ledger = {}
    /\ form = NoFilter
    /\ gen = 1
    /\ loads = {NewLoad(1, NoFilter)}
    /\ shown = <<>>
    /\ flame = Nothing
    /\ asked = {}
    /\ live = TRUE
    /\ timer = FALSE
    /\ poll = <<>>
    /\ applied = NoFilter
    /\ late = {}
    /\ crossed = FALSE
    /\ strayed = FALSE

\* An event is appended, under an id of its own, by this machine or another: its time
\* is the caller's, and may be before that of an earlier one.
AppendEvent(e) ==
    /\ \A d \in ledger : d.id # e.id
    /\ ledger' = ledger \cup {e}
    /\ late' = IF \E d \in ledger : Matches(applied, d) /\ d.time > e.time
               THEN late \cup {e}
               ELSE late
    /\ UNCHANGED <<pageVars, applied, crossed, strayed>>

\* The user types into an input and does not press enter.  MaxLoads bounds this too:
\* after the last load of a run nothing is typed.
Edit(f) ==
    /\ gen < MaxLoads
    /\ f # form
    /\ form' = f
    /\ strayed' = TRUE
    /\ UNCHANGED <<ledger, gen, loads, shown, flameVars, live, timer, poll, applied, late,
                   crossed>>

\* The user selects a value, presses enter, apply or reset: loadEvents is called.
Load(f) ==
    /\ gen < MaxLoads
    /\ form' = f
    /\ gen' = NextGen
    /\ loads' = loads \cup {NewLoad(gen', f)}
    /\ applied' = f
    /\ strayed' = (loads # {})
    /\ crossed' = (asked # {})
    /\ UNCHANGED <<ledger, shown, flameVars, live, timer, poll, late>>

\* The server answers a load's request for events.
ServeLoad(l) ==
    /\ l.waits = "events"
    /\ l.reply = <<>>
    /\ \E A \in Answers(l.filter) :
            loads' = (loads \ {l}) \cup {[l EXCEPT !.reply = <<A>>]}
    /\ UNCHANGED <<ledger, form, gen, shown, flameVars, live, timer, poll, history>>

\* A poll that was sent after the load began is under way, and it asks from the cursor
\* of what was shown until now: from before the time that the load asked from, or from
\* after the end of what the load brought.
Overtaken ==
    /\ poll # <<>>
    /\ IsCurrent(poll[1])
    /\ poll[1].filter.since \notin applied.since .. Since'

\* The load goes on to wait for the spans.
AwaitSpans(l) == loads' = (loads \ {l}) \cup {[l EXCEPT !.waits = "spans", !.reply = <<>>]}

\* The events arrive: whatever was shown is replaced.
EventsArrive(l) ==
    /\ l.waits = "events"
    /\ l.reply # <<>>
    /\ shown' \in Sortings(l.reply[1])
    /\ late' = late \ l.reply[1]
    /\ AwaitSpans(l)
    /\ UNCHANGED <<ledger, form, gen, flameVars, live, timer, poll, applied, crossed>>
    /\ strayed' = (strayed \/ Overtaken)

\* The events do not arrive: nothing is shown.
EventsFail(l) ==
    /\ l.waits = "events"
    /\ shown' = <<>>
    /\ AwaitSpans(l)
    /\ UNCHANGED <<ledger, form, gen, flameVars, live, timer, poll, applied, late, crossed>>
    /\ strayed' = (strayed \/ Overtaken)

\* The load returns and schedules a poll.
Return(l) ==
    /\ l.waits = "spans"
    /\ loads' = loads \ {l}
    /\ timer' = Armed
    /\ UNCHANGED <<ledger, form, gen, shown, asked, live, poll, history>>

\* Leaving the spans as they are.
AfterFailureIfKept == flame

\* onSpansLoaded(null).
AfterFailure == Nothing

SpansArrive(l) == flame' = SpansOf(l.filter) /\ Return(l)

SpansFail(l) == flame' = AfterFailure /\ Return(l)

\* The timer fires while no poll is in flight: one is sent, with what the inputs say
\* now except for since.
Tick ==
    /\ timer
    /\ poll = <<>>
    /\ timer' = FALSE
    /\ poll' = <<[gen |-> gen, filter |-> [form EXCEPT !.since = Since], reply |-> <<>>]>>
    /\ UNCHANGED <<ledger, form, gen, loads, shown, flameVars, live, history>>

\* The timer fires while a poll is in flight.
TickAgain ==
    /\ timer
    /\ poll # <<>>
    /\ timer' = Armed
    /\ UNCHANGED <<ledger, form, gen, loads, shown, flameVars, live, poll, history>>

ServePoll ==
    /\ poll # <<>>
    /\ poll[1].reply = <<>>
    /\ \E A \in Answers(poll[1].filter) :
            poll' = <<[poll[1] EXCEPT !.reply = <<A>>]>>
    /\ UNCHANGED <<ledger, form, gen, loads, shown, flameVars, live, timer, history>>

\* What the answer of the poll brings, if anything.
Fresh == IF IsCurrent(poll[1]) THEN Unseen(poll[1].reply[1]) ELSE {}

\* The answer arrives.  If there is anything new in it, that is merged, and the spans
\* are asked for again, with what the inputs say now.
PollArrives ==
    /\ poll # <<>>
    /\ poll[1].reply # <<>>
    /\ \E s \in Sortings(Fresh) : shown' = shown \o s
    /\ asked' = IF Fresh = {} THEN asked ELSE asked \cup {SpansOf(form)}
    /\ poll' = <<>>
    /\ timer' = Armed
    /\ UNCHANGED <<ledger, form, gen, loads, flame, live, history>>

\* A request of refetchSpans settles; whether it was the last one for its query is left
\* open.  An answer replaces the spans, a failure does not.
Refetched(f) ==
    /\ f \in asked
    /\ asked' \in {asked, asked \ {f}}
    /\ flame' \in {flame, f}
    /\ UNCHANGED <<ledger, form, gen, loads, shown, live, timer, poll, history>>

PollFails ==
    /\ poll # <<>>
    /\ poll' = <<>>
    /\ timer' = Armed
    /\ UNCHANGED <<ledger, form, gen, loads, shown, flameVars, live, history>>

\* setLive(false).
Pause ==
    /\ live
    /\ live' = FALSE
    /\ timer' = FALSE
    /\ UNCHANGED <<ledger, form, gen, loads, shown, flameVars, poll, history>>

\* setLive(true): the timer is set to fire at once.
Resume ==
    /\ ~ live
    /\ live' = TRUE
    /\ timer' = TRUE
    /\ UNCHANGED <<ledger, form, gen, loads, shown, flameVars, poll, history>>

LoadStep(l) ==
    \/ ServeLoad(l)
    \/ EventsArrive(l) \/ EventsFail(l)
    \/ SpansArrive(l) \/ SpansFail(l)

Next ==
    \/ \E e \in Events : AppendEvent(e)
    \/ \E f \in Filters : Edit(f) \/ Load(f)
    \/ \E f \in asked : Refetched(f)
    \/ \E l \in loads : LoadStep(l)
    \/ Tick \/ TickAgain
    \/ ServePoll \/ PollArrives \/ PollFails
    \/ Pause \/ Resume

Spec == Init /\ [][Next]_vars

\* The browser fires timers and settles every request; a server that polls reach
\* again and again answers one of them in the end.
Fairness ==
    /\ WF_vars(\E l \in loads : LoadStep(l))
    /\ WF_vars(Tick)
    /\ SF_vars(ServePoll)
    /\ SF_vars(PollArrives)

FairSpec == Spec /\ Fairness

-----------------------------------------------------------------------------
\* Every variable holds a value of its kind, and each load has a generation of its
\* own.
TypeOK ==
    /\ late \subseteq ledger
    /\ ledger \subseteq Events
    /\ form \in Filters
    /\ applied \in Filters
    /\ gen \in 1 .. MaxLoads
    /\ loads \subseteq Loads
    /\ \A k, l \in loads : k.n = l.n => k = l
    /\ shown \in Seq(Events)
    /\ flame \in Queries \cup {Nothing}
    /\ asked \subseteq Queries
    /\ live \in BOOLEAN
    /\ timer \in BOOLEAN
    /\ crossed \in BOOLEAN
    /\ strayed \in BOOLEAN
    /\ poll \in Seq(Polls)
    /\ Len(poll) <= 1

\* No event is shown twice: not the one at the inclusive bound of a poll, and not
\* one that a load brought while a poll was in flight.
NoDuplicates ==
    \A i, j \in DOMAIN shown : shown[i].id = shown[j].id => i = j

\* When no load is under way, all that is shown matches the filter of the last one.
ViewFits == loads = {} => \A e \in ToSet(shown) : Matches(applied, e)

\* A poll sent under one filter merges nothing into the view of another, however
\* late it arrives, as long as the user lets a load finish before the next and
\* applies what he types, and no poll sent while the page was loading asks from the
\* cursor of what was shown before.
SettledViewFits == ~ strayed => ViewFits

\* When no load is under way the flame graph is empty or shows the spans of the filter
\* that the events were loaded under, whichever of the requests failed and however
\* late a poll made the page ask again: unless the load began while the spans were
\* being fetched again, the inputs were edited, or loads overlapped.
SettledFlameFits ==
    loads = {} /\ ~ crossed /\ ~ strayed => flame \in {SpansOf(applied), Nothing}

\* While the page is live, a poll is due, in flight or will be scheduled by a load:
\* no order of pauses, failures and late answers ends the polling.
LoopAlive == live => timer \/ poll # <<>> \/ loads # {}

\* A live page catches up with the ledger again and again: it shows every event that
\* matches its filter, also one at the very time of the cursor, one that a load's
\* older answer overwrote, one whose poll failed or was dropped.  This needs an
\* empty limit, and that no poll with a newer cursor is under way when a load
\* brings what is older, or fails.
CaughtUp ==
    []<>(live /\ ~ strayed /\ applied.limit = 0 =>
            {e \in ledger \ late : Matches(applied, e)} \subseteq ToSet(shown))

-----------------------------------------------------------------------------
(* The invariants that the proofs rest on.                                  *)

\* A finite ledger in which no two events have the same id.
LedgerInv ==
    /\ IsFiniteSet(ledger)
    /\ \A d, e \in ledger : d.id = e.id => d = e

Matching(f) == {e \in ledger : Matches(f, e)}

\* No load and no poll is of a generation to come, and the answer to each is of
\* events that match its filter.
RequestsInv ==
    /\ \A l \in loads : /\ l.n <= gen
                        /\ l.reply # <<>> => l.reply[1] \subseteq Matching(l.filter)
    /\ poll # <<>> =>
          /\ poll[1].gen <= gen
          /\ poll[1].reply # <<>> => poll[1].reply[1] \subseteq Matching(poll[1].filter)

\* What is shown is in the ledger, each event once.
ShownInv ==
    /\ ToSet(shown) \subseteq ledger
    /\ \A i, j \in DOMAIN shown : shown[i] = shown[j] => i = j

\* Until the page strays, the inputs and the one load under way have the filter of the
\* last load, and a poll that is not out of date has its criteria; once the events of
\* that load are there, what is shown fits it and the poll asks for nothing else.
FitInv ==
    ~ strayed =>
        /\ form = applied
        /\ \A k, l \in loads : k = l
        /\ \A l \in loads : l.filter = applied
        /\ poll # <<>> /\ IsCurrent(poll[1]) => poll[1].filter.criteria = applied.criteria
        /\ (\A l \in loads : l.waits = "spans") =>
              /\ ToSet(shown) \subseteq Matching(applied)
              /\ poll # <<>> /\ IsCurrent(poll[1]) => poll[1].filter.since >= applied.since

\* If moreover no spans were being fetched again when the last load began, those that
\* are now, and those in the flame graph after the load, are for its filter.
FlameInv ==
    ~ strayed /\ ~ crossed =>
        /\ asked \subseteq {SpansOf(applied)}
        /\ loads = {} => flame \in {SpansOf(applied), Nothing}
=============================================================================
