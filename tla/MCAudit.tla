------------------------------- MODULE MCAudit -------------------------------
(***************************************************************************)
(* Values for TLC's runs of audits.                                        *)
(***************************************************************************)
EXTENDS Audit, TLC

CONSTANTS a1, a2, test, choice, now, later

Turn(file, line, time, size, topics) ==
    [file |-> file, line |-> line, session |-> file, time |-> time, size |-> size,
     split |-> FALSE, topics |-> topics]

Split(t) == [t EXCEPT !.split = TRUE]

\* Two sessions that share a chunk: the turn of the second has no timestamp and comes
\* before that of the first.  Of their next turns one is longer than a chunk, and the
\* other is not read as a turn.
Talk == {Turn(1, 1, 1, 1, {test}), Turn(2, 1, NoTime, 1, {choice}),
         Turn(1, 2, 2, 3, {}), Split(Turn(2, 2, 2, 1, {}))}

\* One session, and something to be found in it.
Monologue == {Turn(1, 1, 1, 1, {test})}

\* Two sessions at one time, and something to be found in the second.
Crosstalk == {Turn(1, 1, 1, 1, {}), Turn(2, 1, 1, 1, {test})}

SymmetricWordings == Permutations(Wordings)

WholeTranscript == {[since |-> 0, until |-> 9, session |-> AnySession, dryRun |-> FALSE]}

AllOptions ==
    {[since |-> 0, until |-> 9, session |-> AnySession, dryRun |-> FALSE],
     [since |-> 0, until |-> 2, session |-> 1, dryRun |-> FALSE],
     [since |-> 2, until |-> 9, session |-> AnySession, dryRun |-> TRUE]}
=============================================================================
