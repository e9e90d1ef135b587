-------------------------------- MODULE Digest --------------------------------
(***************************************************************************)
(* digest.py: the rollup of a window of events and the flags its rules     *)
(* raise.  The digest keeps nothing; it is computed from the window alone. *)
(***************************************************************************)
EXTENDS Derive

CONSTANTS
    SpikeThreshold, \* so many failures in a window are a spike
    OutlierFactor,  \* how many medians make an outlier
    RecentLimit     \* how many recent events of a type the rollup keeps

ASSUME DigestAssumption == {SpikeThreshold, OutlierFactor, RecentLimit} \subseteq Nat

\* A shipped event whose data has no number of tokens.
NoTokens == -1

Plain(base) == [base |-> base, edge |-> "none"]

ShippedType  == Plain("shipped")
DecisionType == Plain("decision")
FailureType  == Plain("failure")
RefusalType  == Plain("refusal")
PushType     == Plain("push")

OfType(events, type) == {e \in events : e.type = type}

\* The tag by which a decision says that it could have been asked about.
CouldHaveAsked == [key |-> "could_have_asked", value |-> "yes"]

-----------------------------------------------------------------------------
(* The rules. *)

FlagCouldHaveAsked(events) == {e \in OfType(events, DecisionType) : CouldHaveAsked \in e.tags}

\* An anomaly names the rule and the event, if it points at one.
Flags(rule, events) == {[rule |-> rule, event |-> <<e>>] : e \in events}

\* Every failure is flagged, and the window as well when they reach the threshold.
Spike(events) == Cardinality(OfType(events, FailureType)) >= SpikeThreshold

FlagFailures(events) ==
    Flags("failure", OfType(events, FailureType)) \cup
    IF Spike(events) THEN {[rule |-> "failure_spike", event |-> <<>>]} ELSE {}

\* A ship does not clear the failures before it.
AfterIfSticky(w, e) ==
    CASE e.type = FailureType -> [w EXCEPT !.unresolved = TRUE]
      [] e.type = PushType /\ w.unresolved -> [w EXCEPT !.flagged = @ \cup {e}]
      [] OTHER -> w

\* One round of flag_push_without_green over w, whether a failure is unresolved and
\* the pushes flagged so far.
After(w, e) ==
    CASE e.type = FailureType -> [w EXCEPT !.unresolved = TRUE]
      [] e.type = ShippedType -> [w EXCEPT !.unresolved = FALSE]
      [] e.type = PushType /\ w.unresolved -> [w EXCEPT !.flagged = @ \cup {e}]
      [] OTHER -> w

FlagPushWithoutGreen(events) ==
    FoldLeft(After, [unresolved |-> FALSE, flagged |-> {}], Ordered(events)).flagged

\* The values of a metric that are there, smallest first.
Metric(events) ==
    LET Smaller(e, f) == e.tokens < f.tokens \/ (e.tokens = f.tokens /\ Precedes(e, f))
        measured == {e \in OfType(events, ShippedType) : e.tokens # NoTokens}
        ascending == Sorted(measured, Smaller)
    IN  [i \in DOMAIN ascending |-> ascending[i].tokens]

\* The smallest value.
TwiceMedianIfLowest(values) == 2 * values[1]

\* Twice the median, so that the mean of two middle values is a number here too.
TwiceMedian(values) ==
    LET n == Len(values) IN values[(n + 1) \div 2] + values[n \div 2 + 1]

\* flag_token_outliers for one of its two metrics.
FlagTokenOutliers(events) ==
    LET values == Metric(events)
    IN  IF Len(values) < 2 \/ TwiceMedian(values) <= 0 THEN {}
        ELSE {e \in OfType(events, ShippedType) :
                 2 * e.tokens > OutlierFactor * TwiceMedian(values)}

\* Every rule's flags; flag_refusals flags each refusal.
Anomalies(events) ==
    Flags("could_have_asked", FlagCouldHaveAsked(events))
    \cup FlagFailures(events)
    \cup Flags("push_without_green", FlagPushWithoutGreen(events))
    \cup Flags("token_outlier", FlagTokenOutliers(events))
    \cup Flags("refusal", OfType(events, RefusalType))

-----------------------------------------------------------------------------
(* The rollup. *)

TotalTokens(events) ==
    MapThenSumSet(LAMBDA e : e.tokens,
                  {e \in OfType(events, ShippedType) : e.tokens # NoTokens})

Recent(events, type) == Newest(Ordered(OfType(events, type)), RecentLimit)

Rollup(events) ==
    [total     |-> Cardinality(events),
     counts    |-> CountsByType(events),
     shipped   |-> Cardinality(OfType(events, ShippedType)),
     tokens    |-> TotalTokens(events),
     durations |-> DurationStats(PairEvents(events, Conventions[1]).pairs),
     recent    |-> [type \in {DecisionType, FailureType, RefusalType} |-> Recent(events, type)]]

DigestOf(events) == [rollup |-> Rollup(events), anomalies |-> Anomalies(events)]
=============================================================================
