-------------------------------- MODULE Audit --------------------------------
(***************************************************************************)
(* `ledger audit` (evledger/cli.py, reconstruct.py): sessions go on and    *)
(* log events of their own while auditors load transcripts, index what     *)
(* earlier audits found, ask a model about chunk after chunk, drop what is *)
(* known and append the rest.                                              *)
(*                                                                         *)
(* The ledger is the sequence of its events: that an append is one step of *)
(* it is what LedgerRefinement shows of the store.                         *)
(***************************************************************************)
EXTENDS Transcript

CONSTANTS
    Auditors,  \* processes that run the command
    Windows,   \* the options they run it with, see IsWindow
    Wordings,  \* how a model may word what it finds
    Keyed,     \* the topics whose data always has the keys their kind requires
    MaxLogged, \* bounds how many events sessions log themselves
    MaxFound,  \* bounds how many findings one answer has
    MaxAudits  \* bounds how many audits a run starts

IsWindow(w) ==
    /\ DOMAIN w = {"since", "until", "session", "dryRun"}
    /\ {w.since, w.until, w.session} \subseteq Nat
    /\ w.dryRun \in BOOLEAN

ASSUME WindowsAssumption ==
    /\ {MaxLogged, MaxFound, MaxAudits} \subseteq Nat
    /\ \A w \in Windows : IsWindow(w)

VARIABLES
    spoken,     \* the turns in the transcript files
    ledger,     \* the events of the ledger
    started,    \* how many audits have been started
    pc,         \* pc[a]: the step of audit_cmd that a executes next
    dryRun,     \* dryRun[a]: --dry-run
    chunks,     \* chunks[a]: the turns a has loaded
    existing,   \* existing[a]: the keys of what the ledger held
    unasked,    \* unasked[a]: the chunks the model has not been asked about
    candidates, \* candidates[a]: what the model has found
    fresh,      \* fresh[a]: what is still to be appended
    failed      \* failed[a], history: what could not be appended

worldVars == <<spoken, ledger>>
auditVars == <<pc, dryRun, chunks, existing, unasked, candidates, fresh, failed>>
vars == <<worldVars, started, auditVars>>

Topics == UNION {t.topics : t \in Turns}

Files == {t.file : t \in Turns}

\* The data of an event; marked is whether the keys are in it that to_ledger_event
\* adds (reconstructed, session_id, audit_source), or any of them.
Data == [topic : Topics, wording : Wordings, marked : BOOLEAN]

\* A finding before and after it is made an event.  Two fields are history: origin,
\* the turn in which the model found it, and echoed, whether the model's answer had
\* any of the keys in it that an audit adds.
Candidates == [session : Nat, data : Data, origin : Turns]
Events == [session : Nat, data : Data, origin : Turns, reconstructed : BOOLEAN,
           echoed : BOOLEAN]

-----------------------------------------------------------------------------
(* Signatures.  Again "If" marks a mistake that no action makes.            *)

\* Leaving the markers in.
StrippedIfKept(data) == data

\* _provenance_stripped.
Stripped(data) == [data EXCEPT !.marked = FALSE]

\* _signature_for: what the kind requires or, where that is missing, everything.
Signature(data) == IF data.topic \in Keyed THEN [topic |-> data.topic] ELSE data

Key(c) == <<c.session, Signature(c.data)>>

\* Indexing whatever the session logged.
IndexedIfAny(e) == e.session # AnySession

\* Events that an audit has made, and no other.
Indexed(e) == e.reconstructed

\* existing_signatures.
ExistingSignatures ==
    {<<e.session, Signature(Stripped(e.data))>> : e \in {e \in ToSet(ledger) : Indexed(e)}}

\* Stamping the source and leaving the session out.
EventIfUnattributed(c) == [data |-> [c.data EXCEPT !.marked = TRUE],
                           origin |-> c.origin, reconstructed |-> TRUE,
                           echoed |-> c.data.marked]

\* to_ledger_event.
EventOf(c) == [session |-> c.session, data |-> [c.data EXCEPT !.marked = TRUE],
               origin |-> c.origin, reconstructed |-> TRUE, echoed |-> c.data.marked]

\* dedup_candidates: F holds one candidate of C for each key that is not known.
\* It is the first in the order of the answers, which the model chooses.
IsFresh(F, C, known) ==
    /\ F \subseteq C
    /\ \A c \in F : Key(c) \notin known
    /\ \A c, d \in F : Key(c) = Key(d) => c = d
    /\ \A c \in C : Key(c) \in known \/ \E d \in F : Key(d) = Key(c)

\* The session that audit_cmd takes for that of all of a chunk.
SessionOf(chunk) == chunk[1].session

\* Where in the chunks cs the session of the i-th turns up first.
FirstOf(cs, i) == Min({j \in DOMAIN cs : SessionOf(cs[j]) = SessionOf(cs[i])})

\* Chunks are asked about session by session, as by_session holds them.
AskedBefore(cs, i, j) ==
    \/ FirstOf(cs, i) < FirstOf(cs, j)
    \/ FirstOf(cs, i) = FirstOf(cs, j) /\ i < j

NextChunk(a, i) ==
    /\ i \in unasked[a]
    /\ \A j \in unasked[a] \ {i} : AskedBefore(chunks[a], i, j)

\* What a model may find in a chunk.  Its data is taken as it comes: the keys that
\* to_ledger_event adds may be in it already.
Findings(chunk) ==
    UNION {{[session |-> SessionOf(chunk), origin |-> t,
             data |-> [topic |-> topic, wording |-> wording, marked |-> marked]] :
                topic \in t.topics, wording \in Wordings, marked \in BOOLEAN} :
                    t \in ToSet(chunk)}

-----------------------------------------------------------------------------
Init ==
    /\ spoken = {}
    /\ ledger = <<>>
    /\ started = 0
    /\ pc = [a \in Auditors |-> "idle"]
    /\ dryRun = [a \in Auditors |-> FALSE]
    /\ chunks = [a \in Auditors |-> <<>>]
    /\ existing = [a \in Auditors |-> {}]
    /\ unasked = [a \in Auditors |-> {}]
    /\ candidates = [a \in Auditors |-> {}]
    /\ fresh = [a \in Auditors |-> {}]
    /\ failed = [a \in Auditors |-> {}]

\* A session writes the next line of its file.
Speak(t) ==
    /\ t \notin spoken
    /\ \A u \in Turns : u.file = t.file /\ u.line < t.line => u \in spoken
    /\ spoken' = spoken \cup {t}
    /\ UNCHANGED <<ledger, started, auditVars>>

\* A session logs what happened itself, each thing once.
SelfEmit(t, topic, wording) ==
    /\ t \in spoken
    /\ Cardinality({i \in DOMAIN ledger : ~ledger[i].reconstructed}) < MaxLogged
    /\ \A e \in ToSet(ledger) :
          e.reconstructed \/ e.origin # t \/ e.data.topic # topic
    /\ ledger' = Append(ledger,
          [session |-> t.session, origin |-> t, reconstructed |-> FALSE, echoed |-> FALSE,
           data |-> [topic |-> topic, wording |-> wording, marked |-> FALSE]])
    /\ UNCHANGED <<spoken, started, auditVars>>

\* load_transcripts and chunk_turns; with no turn in the window the command ends,
\* and so it does, with an exception, on a file that is read in the middle of a
\* character.  Files are read one by one while sessions go on, but sessions do not
\* depend on each other: what is read is what the files could have held at one
\* moment.  The files passed over are those whose reading failed.
Load(a, w, passed) ==
    /\ pc[a] = "idle"
    /\ started < MaxAudits
    /\ Wanted(Readable(spoken, passed), w) # {}
    /\ started' = started + 1
    /\ dryRun' = [dryRun EXCEPT ![a] = w.dryRun]
    /\ chunks' = [chunks EXCEPT ![a] = ChunkTurns(Loaded(Readable(spoken, passed), w))]
    /\ pc' = [pc EXCEPT ![a] = "client"]
    /\ UNCHANGED <<worldVars, existing, unasked, candidates, fresh, failed>>

\* The command is over for a.
Leave(a) ==
    /\ pc' = [pc EXCEPT ![a] = "idle"]
    /\ dryRun' = [dryRun EXCEPT ![a] = FALSE]
    /\ chunks' = [chunks EXCEPT ![a] = <<>>]
    /\ existing' = [existing EXCEPT ![a] = {}]
    /\ unasked' = [unasked EXCEPT ![a] = {}]
    /\ candidates' = [candidates EXCEPT ![a] = {}]
    /\ fresh' = [fresh EXCEPT ![a] = {}]
    /\ failed' = [failed EXCEPT ![a] = {}]

\* There is no SDK or no credential.
NoClient(a) ==
    /\ pc[a] = "client"
    /\ Leave(a)
    /\ UNCHANGED <<worldVars, started>>

\* The client is made, and the ledger is read and indexed.
ReadExisting(a) ==
    /\ pc[a] = "client"
    /\ existing' = [existing EXCEPT ![a] = ExistingSignatures]
    /\ unasked' = [unasked EXCEPT ![a] = DOMAIN chunks[a]]
    /\ pc' = [pc EXCEPT ![a] = "ask"]
    /\ UNCHANGED <<worldVars, started, dryRun, chunks, candidates, fresh, failed>>

\* The model answers about chunk i with any of what can be found in it.
Ask(a, i) ==
    /\ pc[a] = "ask"
    /\ NextChunk(a, i)
    /\ \E found \in SUBSET Findings(chunks[a][i]) :
          /\ Cardinality(found) <= MaxFound
          /\ candidates' = [candidates EXCEPT ![a] = @ \cup found]
    /\ unasked' = [unasked EXCEPT ![a] = @ \ {i}]
    /\ UNCHANGED <<worldVars, started, pc, dryRun, chunks, existing, fresh, failed>>

\* The call raises or the answer cannot be parsed: the chunk is passed over.
AskFails(a, i) ==
    /\ pc[a] = "ask"
    /\ NextChunk(a, i)
    /\ unasked' = [unasked EXCEPT ![a] = @ \ {i}]
    /\ UNCHANGED <<worldVars, started, pc, dryRun, chunks, existing, candidates, fresh, failed>>

\* What is known already is dropped.
Dedup(a) ==
    /\ pc[a] = "ask"
    /\ unasked[a] = {}
    /\ \E F \in SUBSET candidates[a] :
          /\ IsFresh(F, candidates[a], existing[a])
          /\ fresh' = [fresh EXCEPT ![a] = F]
    /\ pc' = [pc EXCEPT ![a] = IF dryRun[a] THEN "report" ELSE "append"]
    /\ UNCHANGED <<worldVars, started, dryRun, chunks, existing, unasked, candidates, failed>>

\* One finding is appended.
AppendOne(a, c) ==
    /\ pc[a] = "append"
    /\ c \in fresh[a]
    /\ ledger' = Append(ledger, EventOf(c))
    /\ fresh' = [fresh EXCEPT ![a] = @ \ {c}]
    /\ UNCHANGED <<spoken, started, pc, dryRun, chunks, existing, unasked, candidates, failed>>

\* The append raises and the loop goes on: the line may be there nevertheless
\* (LedgerStore!SyncRaises).
AppendRaises(a, c) ==
    /\ pc[a] = "append"
    /\ c \in fresh[a]
    /\ ledger' \in {ledger, Append(ledger, EventOf(c))}
    /\ fresh' = [fresh EXCEPT ![a] = @ \ {c}]
    /\ failed' = [failed EXCEPT ![a] = @ \cup {c}]
    /\ UNCHANGED <<spoken, started, pc, dryRun, chunks, existing, unasked, candidates>>

\* The report is printed.
Finish(a) ==
    /\ pc[a] = "report" \/ (pc[a] = "append" /\ fresh[a] = {})
    /\ Leave(a)
    /\ UNCHANGED <<worldVars, started>>

\* The process dies, or an exception that nothing expects ends it.
Crash(a) ==
    /\ pc[a] # "idle"
    /\ Leave(a)
    /\ UNCHANGED <<worldVars, started>>

Next ==
    \/ \E t \in Turns :
          \/ Speak(t)
          \/ \E topic \in t.topics, wording \in Wordings : SelfEmit(t, topic, wording)
    \/ \E a \in Auditors :
          \/ \E w \in Windows, passed \in SUBSET Files : Load(a, w, passed)
          \/ NoClient(a) \/ ReadExisting(a)
          \/ \E i \in unasked[a] : Ask(a, i) \/ AskFails(a, i)
          \/ Dedup(a)
          \/ \E c \in fresh[a] : AppendOne(a, c) \/ AppendRaises(a, c)
          \/ Finish(a) \/ Crash(a)

Spec == Init /\ [][Next]_vars

-----------------------------------------------------------------------------
(* Properties.                                                              *)

Steps == {"idle", "client", "ask", "append", "report"}

\* Every variable holds a value of its kind; only a run that appends has findings
\* that failed.
TypeOK ==
    /\ spoken \subseteq Turns
    /\ ledger \in Seq(Events)
    /\ started \in 0 .. MaxAudits
    /\ pc \in [Auditors -> Steps]
    /\ dryRun \in [Auditors -> BOOLEAN]
    /\ chunks \in [Auditors -> Seq(Seq(Turns))]
    /\ existing \in [Auditors -> SUBSET (Nat \X (Data \cup [topic : Keyed]))]
    /\ unasked \in [Auditors -> SUBSET Nat]
    /\ candidates \in [Auditors -> SUBSET Candidates]
    /\ fresh \in [Auditors -> SUBSET Candidates]
    /\ failed \in [Auditors -> SUBSET Candidates]

\* x and y report the same thing: the wording matters only where the signature has
\* nothing better to go by.
SameThing(x, y) ==
    /\ x.data.topic = y.data.topic
    /\ x.data.topic \in Keyed \/ x.data.wording = y.data.wording

\* x and y are one finding: the same thing, said in the same session.
SameFinding(x, y) == x.origin.session = y.origin.session /\ SameThing(x, y)

\* x and y are recorded as one finding: the same thing, under the same session.
SameRecord(x, y) == x.session = y.session /\ SameThing(x, y)

\* The signature of what was found is that of the event made of it.  It is not if the
\* signature is that of all of the data and the answer had keys in it that are taken
\* away again from the event's: such a finding is new to every audit.
Stable(topic, echoed) == topic \in Keyed \/ ~echoed

\* Auditing again, over whatever windows and however often an audit died half-way
\* or an append failed, puts no finding into the ledger twice, save in two cases: its
\* signature is not stable, or a chunk of several sessions had it recorded under
\* another session than its own, and another audit under its own.
NoDoubleEmit ==
    \A i, j \in DOMAIN ledger :
        /\ ledger[i].reconstructed /\ Stable(ledger[i].data.topic, ledger[i].echoed)
        /\ ledger[j].reconstructed /\ Stable(ledger[j].data.topic, ledger[j].echoed)
        /\ SameFinding(ledger[i], ledger[j])
        => i = j \/ ledger[i].session # ledger[j].session

\* Nothing the model found gets lost on the way: once an audit has dropped what is
\* known, each of its candidates is still to be appended, failed, or is in the
\* ledger as an audit's event, under the session the audit takes for its own; what a
\* session logged itself stands in for nothing.
FindingsKept ==
    \A a \in Auditors : pc[a] = "append" =>
        \A c \in candidates[a] :
            \/ \E d \in fresh[a] \cup failed[a] : SameRecord(c, d)
            \/ \E e \in ToSet(ledger) : e.reconstructed /\ SameRecord(c, e)

\* Every event an audit made names the session in which it was found.
RightSession ==
    \A e \in ToSet(ledger) : e.reconstructed => e.session = e.origin.session

\* cs holds each of the turns S once, in the loader's order; a chunk is within the
\* budget or a single turn, and closed only when the next turn did not fit.
WellPacked(cs, S) ==
    LET all == FlattenSeq(cs)
    IN  /\ Len(all) = Cardinality(S)
        /\ ToSet(all) = S
        /\ \A i, j \in DOMAIN all : i < j => TurnPrecedes(all[i], all[j])
        /\ \A i \in DOMAIN cs : Len(cs[i]) = 1 \/ SizeOf(cs[i]) <= Budget
        /\ \A i \in DOMAIN cs : i < Len(cs) => SizeOf(cs[i]) + cs[i + 1][1].size > Budget

\* What an audit loads is every turn of its session and its window that has been
\* spoken, each in one chunk; a turn without a timestamp is in every window.  It goes
\* without the files that could not be read and without the turns that splitlines
\* breaks, and tells of them only by a count.
LoadsAll ==
    [][\A a \in Auditors, w \in Windows, passed \in SUBSET Files : Load(a, w, passed) =>
          WellPacked(chunks'[a],
                     {t \in spoken :
                         /\ t.file \notin passed /\ ~t.split
                         /\ w.session \in {AnySession, t.file}
                         /\ t.time # NoTime => t.time \in w.since .. w.until - 1})]_vars

-----------------------------------------------------------------------------
(* What makes the properties inductive.                                     *)

\* Finitely much has been said; chunks have turns, and an audit asks about chunks that
\* it has, once it has read the ledger.
LoadInv ==
    /\ IsFiniteSet(spoken)
    /\ \A a \in Auditors :
          /\ unasked[a] \subseteq DOMAIN chunks[a]
          /\ pc[a] # "ask" => unasked[a] = {}
          /\ \A i \in DOMAIN chunks[a] : chunks[a][i] # <<>>

\* One audit at a time: what NoDoubleEmit needs.
OneAuditor == \A a, b \in Auditors : a = b

\* c has what a finding has.
IsCandidate(c) ==
    /\ c.data.marked \in BOOLEAN
    /\ c = [session |-> c.session, origin |-> c.origin,
            data |-> [topic |-> c.data.topic, wording |-> c.data.wording,
                      marked |-> c.data.marked]]

\* e has what an audit makes of a finding.
IsReconstructed(e) ==
    e = [session |-> e.session, origin |-> e.origin, reconstructed |-> TRUE,
         echoed |-> e.echoed,
         data |-> [topic |-> e.data.topic, wording |-> e.data.wording, marked |-> TRUE]]

\* What is found has the shape of a finding, what is in the ledger that of an event.
ShapeInv ==
    /\ pc \in [Auditors -> Steps]
    /\ DOMAIN existing = Auditors /\ DOMAIN candidates = Auditors
    /\ DOMAIN fresh = Auditors /\ DOMAIN failed = Auditors
    /\ \A a \in Auditors :
          /\ \A c \in candidates[a] : IsCandidate(c)
          /\ fresh[a] \cup failed[a] \subseteq candidates[a]
    /\ ledger \in Seq(ToSet(ledger))
    /\ \A e \in ToSet(ledger) : e.reconstructed = FALSE \/ IsReconstructed(e)

\* What an audit has indexed is still in the ledger.
IndexInv == \A a \in Auditors : existing[a] \subseteq ExistingSignatures

\* The keys of the audits' events whose signatures are stable.
StableKeys ==
    {<<e.session, Signature(Stripped(e.data))>> :
        e \in {e \in ToSet(ledger) : e.reconstructed /\ Stable(e.data.topic, e.echoed)}}

\* What an audit is about to append is not in the ledger, if it could be told, and in
\* its list once; while it asks, the ledger gets no finding that it has not indexed.
FreshInv ==
    \A a \in Auditors :
        /\ pc[a] = "ask" => existing[a] = ExistingSignatures
        /\ pc[a] = "append" =>
              /\ \A c \in fresh[a] :
                    Stable(c.data.topic, c.data.marked) => Key(c) \notin StableKeys
              /\ \A c, d \in fresh[a] : Key(c) = Key(d) => c = d
=============================================================================
