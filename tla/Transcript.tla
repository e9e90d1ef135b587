------------------------------ MODULE Transcript ------------------------------
(***************************************************************************)
(* evledger/transcript.py: which turns an audit reads, in which order, and *)
(* how chunk_turns packs them for the model.                               *)
(***************************************************************************)
EXTENDS Integers, Sequences, SequencesExt, FiniteSetsExt, Sorting

CONSTANTS
    Turns,  \* what may be said: a set of turns, see IsTurn
    Budget  \* how much text one chunk holds

\* No --session.  Sessions and the files named after them are numbered from 1, in
\* the order their names sort.
AnySession == 0

\* The time of a turn without a timestamp; the loader sorts it before every other.
NoTime == 0

\* A turn is a line of the file of some session.  The session its record names
\* need not be the one the file is named after.  split: its text has one of the
\* characters U+0085, U+2028 and U+2029, which end a line for splitlines and for
\* nobody else.  topics is what an auditor may find in it.
IsTurn(t) ==
    /\ DOMAIN t = {"file", "line", "session", "time", "size", "split", "topics"}
    /\ {t.file, t.line, t.session, t.size} \subseteq Nat \ {0}
    /\ t.time \in Nat
    /\ t.split \in BOOLEAN

\* A line is a line of one file, and there once.
ASSUME TurnsAssumption ==
    /\ Budget \in Nat \ {0}
    /\ \A t \in Turns : IsTurn(t)
    /\ \A t, u \in Turns : t.file = u.file /\ t.line = u.line => t = u

\* sort(key=(instant, session)), stable over files in path order and their lines.
TurnPrecedes(t, u) ==
    \/ t.time < u.time
    \/ t.time = u.time /\ t.session < u.session
    \/ t.time = u.time /\ t.session = u.session /\ t.file < u.file
    \/ t.time = u.time /\ t.session = u.session /\ t.file = u.file /\ t.line < u.line

\* A turn without a timestamp is in every window.
InWindow(t, w) == t.time = NoTime \/ (w.since <= t.time /\ t.time < w.until)

\* What the loader gets of the turns S: the files that it could not open are passed
\* over, and of a split turn it sees two pieces, neither of them a record.
Readable(S, passed) == {t \in S : t.file \notin passed /\ ~t.split}

\* The turns of S that load_transcripts keeps for the window w.
Wanted(S, w) ==
    {t \in S : (w.session = AnySession \/ t.file = w.session) /\ InWindow(t, w)}

Loaded(S, w) == Sorted(Wanted(S, w), TurnPrecedes)

SizeOf(chunk) == FoldLeft(LAMBDA n, t : n + t.size, 0, chunk)

\* A definition with "If" in its name is a mistake no action makes.  Here: looking
\* at the size before the turn is added.
FitsIfFull(chunk, t) == SizeOf(chunk) <= Budget

\* The turn t still goes into the chunk.
Fits(chunk, t) == SizeOf(chunk) + t.size <= Budget

\* One round of chunk_turns: t joins the last chunk or opens the next.
Pack(chunks, t) ==
    IF chunks # <<>> /\ Fits(Last(chunks), t)
    THEN [chunks EXCEPT ![Len(chunks)] = Append(@, t)]
    ELSE Append(chunks, <<t>>)

ChunkTurns(turns) == FoldLeft(Pack, <<>>, turns)
=============================================================================
