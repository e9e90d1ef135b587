------------------------------ MODULE MCTimeline ------------------------------
(***************************************************************************)
(* Values for TLC's runs of the timeline.                                  *)
(***************************************************************************)
EXTENDS Timeline, TLC

CONSTANTS all, mine

Query(criteria, since, limit) == [criteria |-> criteria, since |-> since, limit |-> limit]

Empty == Query(all, 0, 0)

\* The inputs are empty, or ask for what meets `mine` from a time on.
Inputs == {Empty, Query(mine, 2, 0)}

\* Two events: one of `mine`, and another of the same time that is not, or an earlier
\* one that is.
AtOnceOrLate == {[id |-> 1, time |-> 2, fits |-> {all, mine}],
                 [id |-> 2, time |-> 2, fits |-> {all}],
                 [id |-> 2, time |-> 1, fits |-> {all, mine}]}

OneEvent == {[id |-> 1, time |-> 1, fits |-> {all}]}

TwoInputs == {Empty, Query(mine, 0, 0)}
=============================================================================
