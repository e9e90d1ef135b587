--------------------------------- MODULE Host ---------------------------------
(***************************************************************************)
(* `ledger log` and the ledger_log tool as the processes of one host run   *)
(* them: each resolves the machine id (evledger/machine.py) and appends    *)
(* one event under it (LedgerStore).                                       *)
(*                                                                         *)
(* A process that was given no id looks for the id file, makes one if it   *)
(* finds none or a blank one, and goes by the host name if the operating   *)
(* system refuses.  The file is not locked and not fsynced.                *)
(*                                                                         *)
(* Left out: an id file that holds something other than an id, which is    *)
(* taken as it is.                                                         *)
(***************************************************************************)
EXTENDS LedgerStore, FiniteSets

CONSTANTS
    Uuids,     \* the ids that uuid4 draws, in this order; they bound a run
    HostName,  \* socket.gethostname()
    Given,     \* what --machine or the environment variable says
    IdErrors   \* whether the id file may raise OSError

Absent == -2  \* there is no id file
Blank == -1   \* it is empty

ASSUME HostAssumption ==
    /\ Uuids \subseteq Machines
    /\ {HostName, Given} \subseteq Machines \ Uuids
    /\ IdErrors \in BOOLEAN

VARIABLES
    idFile,  \* Absent, Blank, or the id in the id file
    idDisk,  \* what a power loss leaves of it
    drawn,   \* the ids drawn so far
    step,    \* step[w]: the step of resolve_machine_id that w executes next
    mine,    \* mine[w]: the id w has drawn or resolved
    raced,   \* history: of the processes about to write an id, some have met
    handed,  \* history: the ids that the file gave since the last race or loss
    split,   \* history: there was a race, or a power loss took the id
    blind    \* history: a scan left a month file out

idVars == <<idFile, idDisk, drawn, step, mine>>
history == <<raced, handed, split, blind>>
hostVars == <<vars, idVars, history>>

-----------------------------------------------------------------------------
\* Returning whatever the file holds (a mistake that no action makes).
UsableIfThere == idFile # Absent

\* The id file exists and what it holds is not blank.
Usable == idFile \notin {Absent, Blank}

\* Returning the id without writing it.
WrittenIfNot(w) == idFile

\* What write_text leaves in the file.
Written(w) == mine[w]

\* uuid4 draws an id that nobody has drawn.
Draw(u) == u \in Uuids \ drawn /\ \A v \in Uuids \ drawn : u <= v

HostInit ==
    /\ Init
    /\ idFile = Absent
    /\ idDisk = Absent
    /\ drawn = {}
    /\ step = [w \in Writers |-> "idle"]
    /\ mine = [w \in Writers |-> Blank]
    /\ raced = FALSE
    /\ handed = {}
    /\ split = FALSE
    /\ blind = FALSE

\* The processes that have not called append yet.
Early == {w \in Writers : step[w] # "idle"}

\* w may begin: bounded by the event ids that are left.
MayBegin(w) ==
    /\ pc[w] = "idle"
    /\ step[w] = "idle"
    /\ Cardinality(Early) < Cardinality(Ids \ used)

\* Between finding no id and having written one.
Making(w) == step[w] \in {"open", "write"}

\* What the history says after a step of w, in which the file gave it the ids S: a
\* race lasts until the last of those in it is done.
Record(S) ==
    /\ raced' = (raced /\ \E v \in Writers : Making(v)')
    /\ handed' = IF raced' THEN {} ELSE handed \cup S
    /\ UNCHANGED <<split, blind>>

\* w goes by the id m.
Resolve(w, m) ==
    /\ step' = [step EXCEPT ![w] = "resolved"]
    /\ mine' = [mine EXCEPT ![w] = m]

\* The caller names the machine.
TakeGiven(w) ==
    /\ MayBegin(w)
    /\ Resolve(w, Given)
    /\ UNCHANGED <<vars, idFile, idDisk, drawn, history>>

\* The id file exists and is read.  Nothing removes it while the host is up, so that
\* the two are one step.
ReadId(w) ==
    /\ MayBegin(w)
    /\ Usable
    /\ Resolve(w, idFile)
    /\ Record({idFile})
    /\ UNCHANGED <<vars, idFile, idDisk, drawn>>

\* Going by the id that was drawn, written down or not.
FallbackIfDrawn(w) == IF Making(w) THEN mine[w] ELSE HostName

\* The last resort.
Fallback(w) == HostName

\* There is no id file, or a blank one: an id is drawn.
DrawId(w, u) ==
    /\ MayBegin(w)
    /\ ~ Usable
    /\ Draw(u)
    /\ drawn' = drawn \cup {u}
    /\ step' = [step EXCEPT ![w] = "open"]
    /\ mine' = [mine EXCEPT ![w] = u]
    /\ raced' = (raced \/ \E v \in Writers : Making(v))
    /\ handed' = IF raced' THEN {} ELSE handed
    /\ split' = (split \/ raced')
    /\ UNCHANGED <<vars, idFile, idDisk, blind>>

\* write_text opens the file, which empties it.
OpenId(w) ==
    /\ step[w] = "open"
    /\ idFile' = Blank
    /\ step' = [step EXCEPT ![w] = "write"]
    /\ UNCHANGED <<vars, idDisk, drawn, mine, history>>

WriteId(w) ==
    /\ step[w] = "write"
    /\ idFile' = Written(w)
    /\ Resolve(w, mine[w])
    /\ Record({mine[w]})
    /\ UNCHANGED <<vars, idDisk, drawn>>

\* exists, read_text, mkdir, open or write raises OSError.
IdRaises(w) ==
    /\ IdErrors
    /\ MayBegin(w) \/ Making(w)
    /\ Resolve(w, Fallback(w))
    /\ Record({})
    /\ UNCHANGED <<vars, idFile, idDisk, drawn>>

\* The process is through with resolve_machine_id.
Forget(w) ==
    /\ step' = [step EXCEPT ![w] = "idle"]
    /\ mine' = [mine EXCEPT ![w] = Blank]

\* --data is no JSON: `ledger log` ends, and leaves the id it may have made.  The tool
\* takes such data for a string.
RejectData(w) ==
    /\ step[w] = "resolved"
    /\ Forget(w)
    /\ UNCHANGED <<vars, idFile, idDisk, drawn, history>>

\* The event is made and append is called.
Log(w, e) ==
    /\ step[w] = "resolved"
    /\ e.machine = mine[w]
    /\ \A i \in Ids \ used : e.id <= i
    /\ Call(w, e)
    /\ Forget(w)
    /\ UNCHANGED <<idFile, idDisk, drawn, history>>

\* The rest of append, and what may befall it.
StoreStep(w) ==
    /\ Acquire(w) \/ Step(w) \/ Kill(w) \/ Tear(w)
    /\ blind' = (blind \/ \E b \in Buckets : SkipFile(w, b))
    /\ UNCHANGED <<idVars, raced, handed, split>>

\* The process dies before it calls append.
KillEarly(w) ==
    /\ "kill" \in Faults
    /\ step[w] # "idle"
    /\ Forget(w)
    /\ Record({})
    /\ UNCHANGED <<vars, idFile, idDisk, drawn>>

StoreWriteBack ==
    /\ \E m \in Machines, b \in Buckets : WriteBack(m, b)
    /\ UNCHANGED <<idVars, history>>

\* The kernel writes the id file back: the name perhaps before the text.
WriteBackId ==
    /\ "power" \in Faults
    /\ idFile # Absent
    /\ idDisk' \in {Blank, idFile} \ {idDisk}
    /\ UNCHANGED <<vars, idFile, drawn, step, mine, history>>

HostPowerLoss ==
    /\ PowerLoss
    /\ idFile' = idDisk
    /\ step' = [w \in Writers |-> "idle"]
    /\ mine' = [w \in Writers |-> Blank]
    /\ raced' = FALSE
    /\ handed' = handed \cap {idDisk}
    /\ split' = (split \/ (Usable /\ idDisk # idFile))
    /\ UNCHANGED <<idDisk, drawn, blind>>

HostStep(w) ==
    \/ TakeGiven(w)
    \/ ReadId(w)
    \/ \E u \in Uuids : DrawId(w, u)
    \/ OpenId(w)
    \/ WriteId(w)
    \/ IdRaises(w)
    \/ RejectData(w)
    \/ \E e \in Events : Log(w, e)
    \/ KillEarly(w)
    \/ StoreStep(w)

HostNext ==
    \/ \E w \in Writers : HostStep(w)
    \/ StoreWriteBack
    \/ WriteBackId
    \/ HostPowerLoss

HostSpec == HostInit /\ [][HostNext]_hostVars

-----------------------------------------------------------------------------
\* Every variable holds a value of its kind, and no append is made under a blank id.
HostTypeOK ==
    /\ TypeOK
    /\ idFile \in {Absent, Blank} \cup drawn
    /\ idDisk \in {Absent, Blank} \cup drawn
    /\ drawn \subseteq Uuids
    /\ step \in [Writers -> {"idle", "open", "write", "resolved"}]
    /\ mine \in [Writers -> {Blank} \cup Machines]
    /\ \A w \in Writers : step[w] = "resolved" => mine[w] \in Machines
    /\ \A w \in Writers : pc[w] # "idle" => step[w] = "idle"
    /\ handed \subseteq drawn
    /\ raced \in BOOLEAN
    /\ split \in BOOLEAN
    /\ blind \in BOOLEAN

\* However often its processes are killed, meet errors or find the file blank, a host
\* goes by one id: the file gives a second one only to processes of which some found
\* none before others had written theirs, or after a power loss that took the first.
\* When such a race is over, there is one id again.
OneId == Cardinality(handed) <= 1

\* An append that goes by the id of the file comes, in the order of machine and seq,
\* after all such appends that had returned when it was called, unless a race or a
\* power loss has split them: which process made the id and which ones read it makes no
\* difference.  This needs files that are whole and can be scanned.
HostOrder ==
    ~ split /\ ~ blind /\ AllSound =>
        \A w \in Writers : pc[w] = "done" /\ event[w].machine \in Uuids =>
            \A a \in before[w] : a.machine \in Uuids =>
                a.machine = event[w].machine /\ a.seq < seq[w]

-----------------------------------------------------------------------------
(* What makes the properties inductive.                                     *)

\* Without a race one process at most is making an id, while there is none; and the
\* file has given no id but the one it holds.
FileInv ==
    /\ \A w \in Writers : Making(w) => mine[w] \in drawn
    /\ handed \subseteq {idFile}
    /\ raced => handed = {}
    /\ ~ raced => \A v, w \in Writers : Making(v) /\ Making(w) => v = w
    /\ ~ raced => \A w \in Writers : Making(w) => ~ Usable

\* The uuids that processes go by or have gone by.
InUse ==
    Uuids \cap ({a.machine : a \in acked}
               \cup {event[w].machine : w \in {v \in Writers : pc[v] # "idle"}}
               \cup {mine[w] : w \in {v \in Writers : step[v] = "resolved"}})

\* Before the first race or loss the id in the file is the only one in use.
UnsplitInv == ~ split => ~ raced /\ InUse \subseteq {idFile}

\* While nothing was left out of a scan the scans are right, and if all that is left is
\* whole, so are the seqs they gave.
OrderInv ==
    /\ ~ blind => ScanInv
    /\ ~ blind /\ AllSound => BeforeInv
=============================================================================
