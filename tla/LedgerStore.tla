---------------------------- MODULE LedgerStore ----------------------------
(***************************************************************************)
(* The write path of evledger/store.py: LedgerStore.append as any number   *)
(* of threads and processes run it against one ledger root.                *)
(*                                                                         *)
(* An append creates the machine's directory, takes the flock of the       *)
(* partition, scans every month file for the highest seq, writes one line  *)
(* with O_APPEND, fsyncs it and unlocks.  The processes share nothing but  *)
(* the file system, so the state is the files, how much of each the disk   *)
(* holds for certain, the locks, and where each writer stands.             *)
(*                                                                         *)
(* What the environment may do is a parameter, Faults, and what the caller *)
(* may put in an event is another, Kinds: each run and each theorem names  *)
(* the faults and the payloads it stands for.                              *)
(***************************************************************************)
EXTENDS Integers, Sequences

CONSTANTS
    Writers,   \* threads and processes that call append; each opens the lock anew
    Machines,  \* machine ids, numbered in the order their names sort
    Buckets,   \* YYYY-MM month files, numbered in the order their names sort
    Ids,       \* event ids; every append uses a fresh one, so they bound a run
    Kinds,     \* the payloads callers pass, a subset of AllKinds
    Faults,    \* what the environment may do, a subset of AllFaults
    NoWriter,  \* the holder of a free lock
    NoEvent    \* the event of a writer that has no append under way

\* "plain" is ASCII text; "multibyte" holds a character of several UTF-8 bytes;
\* "linesep" holds U+0085, U+2028 or U+2029, which json.dumps leaves as they are
\* and str.splitlines takes for line ends; "badtime" has a time parse_time rejects.
AllKinds == {"plain", "multibyte", "linesep", "badtime"}

\* "kill": a process dies and its bytes stay in the page cache.  "power": the
\* host stops and unsynced bytes may go.  "torn": a process dies inside write.
\* "short": os.write stores fewer bytes than it was given.  "writeerror",
\* "fsyncerror", "scanerror": open or write, fsync, or opening a month file to
\* scan it raises OSError.  "readerror", "midwrite": a reader cannot open a file, or
\* reads it while a line is being copied in (LedgerReader).
AllFaults == {"kill", "power", "torn", "short", "writeerror", "fsyncerror",
              "scanerror", "readerror", "midwrite"}

ASSUME ConstantsAssumption ==
    /\ Machines \subseteq Nat
    /\ Buckets \subseteq Nat
    /\ Kinds \subseteq AllKinds
    /\ Faults \subseteq AllFaults
    /\ NoWriter \notin Writers

Events == [id : Ids, machine : Machines, bucket : Buckets, kind : Kinds]

\* How much of a line its write stored: all of it, all but the newline, less
\* than the JSON text, or less by part of a character.
Parts == {"whole", "body", "prefix", "cut"}

Lines == [id : Ids, seq : Nat, kind : Kinds, part : Parts]

\* What append returned: the copy of the event with its seq.
Stored == [id : Ids, machine : Machines, bucket : Buckets, seq : Nat]

VARIABLES
    partitions, \* the machines whose directory exists
    files,      \* files[m]: the month files that exist in m's directory
    file,       \* file[m][b]: the lines written to a month file, in file order
    synced,     \* synced[m][b]: how many of them fsync has put on the disk
    lock,       \* lock[m]: the writer that holds m's flock
    pc,         \* pc[w]: the step of append that w executes next
    event,      \* event[w]: the event w appends
    todo,       \* todo[w]: the month files w has still to scan
    highest,    \* highest[w]: the highest seq w has met so far
    seq,        \* seq[w]: the seq w assigned
    used,       \* the ids that have been given to an append
    acked,      \* history: what appends have returned
    before      \* before[w], history: acked when w's append was called

diskVars == <<partitions, files, file, synced>>
writerVars == <<pc, event, todo, highest, seq, before>>
vars == <<diskVars, lock, writerVars, used, acked>>

-----------------------------------------------------------------------------
(* What a scan makes of a file.                                             *)

\* read_text decodes the whole file: one cut character and it raises.
Undecodable(f) == \E i \in DOMAIN f : f[i].part = "cut"

\* The lines of f that splitlines yields alone and json.loads accepts.  A line
\* that lost its newline runs into the next one, and both are malformed.
Readable(f) ==
    {i \in DOMAIN f :
        /\ f[i].kind # "linesep"
        /\ f[i].part = "whole" \/ (f[i].part = "body" /\ i = Len(f))
        /\ i > 1 => f[i - 1].part = "whole"}

ReadableSeqs(f) == {f[i].seq : i \in Readable(f)}

IsLargest(n, S) == \A s \in S : s <= n

\* What may be left of a line that is stored in part.
Fragments(kind) == {"body", "prefix"} \cup (IF kind = "multibyte" THEN {"cut"} ELSE {})

-----------------------------------------------------------------------------
(* The parts of an append that its correctness turns on.  A definition with *)
(* "If" in its name is what a plausible mistake would make of the one after *)
(* it; no action uses it.                                                   *)

\* Taking the flock with LOCK_SH.
FreeIfShared(m) == m \in Machines

\* flock(LOCK_EX) succeeds.
Free(m) == lock[m] = NoWriter

\* Numbering the events of each month from 0.
MonthsIfOwnOnly(w) == files[event[w].machine] \cap {event[w].bucket}

\* The files that _partition_files lists.
MonthsToScan(w) == files[event[w].machine]

\* Counting twice.
NextSeqIfSkipping(w) == highest[w] + 2

\* What _next_seq returns.
NextSeq(w) == highest[w] + 1

\* Serialising the event that came in, not the one with_seq made.
LineIfUnnumbered(w, part) == [id |-> event[w].id, seq |-> -1,
                              kind |-> event[w].kind, part |-> part]

LineOf(w, part) == [id |-> event[w].id, seq |-> seq[w],
                    kind |-> event[w].kind, part |-> part]

\* Opening with O_TRUNC.
WriteIfTruncating(f, l) == <<l>>

\* What os.write makes of a file opened with O_APPEND.
WriteTo(f, l) == Append(f, l)

\* Leaving fsync out.
SyncedIfNot(m, b) == synced[m][b]

\* fsync puts the whole file on the disk.
SyncedBy(m, b) == Len(file[m][b])

\* Unlocking only on the way that raises nothing and dies nowhere.
UnlockIfDone(w) ==
    lock' = [m \in Machines |-> IF lock[m] = w /\ pc[w] = "done" THEN NoWriter ELSE lock[m]]

\* LOCK_UN and close, or the kernel closing the descriptors of the dead.
Unlock(w) ==
    lock' = [m \in Machines |-> IF lock[m] = w THEN NoWriter ELSE lock[m]]

-----------------------------------------------------------------------------
Init ==
    /\ partitions = {}
    /\ files = [m \in Machines |-> {}]
    /\ file = [m \in Machines |-> [b \in Buckets |-> <<>>]]
    /\ synced = [m \in Machines |-> [b \in Buckets |-> 0]]
    /\ lock = [m \in Machines |-> NoWriter]
    /\ pc = [w \in Writers |-> "idle"]
    /\ event = [w \in Writers |-> NoEvent]
    /\ todo = [w \in Writers |-> {}]
    /\ highest = [w \in Writers |-> -1]
    /\ seq = [w \in Writers |-> 0]
    /\ used = {}
    /\ acked = {}
    /\ before = [w \in Writers |-> {}]

\* append is called: the partition directory is made, the lock is wanted next.
Call(w, e) ==
    /\ pc[w] = "idle"
    /\ e.id \notin used
    /\ used' = used \cup {e.id}
    /\ event' = [event EXCEPT ![w] = e]
    /\ before' = [before EXCEPT ![w] = acked]
    /\ partitions' = partitions \cup {e.machine}
    /\ pc' = [pc EXCEPT ![w] = "wait"]
    /\ UNCHANGED <<files, file, synced, lock, todo, highest, seq, acked>>

\* flock grants the lock; the month files are listed.
Acquire(w) ==
    /\ pc[w] = "wait"
    /\ Free(event[w].machine)
    /\ lock' = [lock EXCEPT ![event[w].machine] = w]
    /\ todo' = [todo EXCEPT ![w] = MonthsToScan(w)]
    /\ highest' = [highest EXCEPT ![w] = -1]
    /\ pc' = [pc EXCEPT ![w] = "scan"]
    /\ UNCHANGED <<diskVars, event, seq, before, used, acked>>

\* _next_seq reads one month file, in name order, and keeps the highest seq.
ScanFile(w, b) ==
    /\ pc[w] = "scan"
    /\ b \in todo[w]
    /\ \A c \in todo[w] : b <= c
    /\ ~ Undecodable(file[event[w].machine][b])
    /\ LET seqs == ReadableSeqs(file[event[w].machine][b]) \cup {highest[w]}
       IN  \E h \in seqs : IsLargest(h, seqs) /\ highest' = [highest EXCEPT ![w] = h]
    /\ todo' = [todo EXCEPT ![w] = @ \ {b}]
    /\ UNCHANGED <<diskVars, lock, pc, event, seq, before, used, acked>>

\* Opening a month file raises OSError: the scan goes on without it.
SkipFile(w, b) ==
    /\ "scanerror" \in Faults
    /\ pc[w] = "scan"
    /\ b \in todo[w]
    /\ \A c \in todo[w] : b <= c
    /\ todo' = [todo EXCEPT ![w] = @ \ {b}]
    /\ UNCHANGED <<diskVars, lock, pc, event, highest, seq, before, used, acked>>

\* Decoding a month file raises UnicodeDecodeError, which no handler expects.
ScanRaises(w, b) ==
    /\ pc[w] = "scan"
    /\ b \in todo[w]
    /\ \A c \in todo[w] : b <= c
    /\ Undecodable(file[event[w].machine][b])
    /\ pc' = [pc EXCEPT ![w] = "stalled"]
    /\ UNCHANGED <<diskVars, lock, event, todo, highest, seq, before, used, acked>>

\* The scan is over: with_seq, then the month file of the event's time is opened,
\* and made if it is not there.
Assign(w) ==
    /\ pc[w] = "scan"
    /\ todo[w] = {}
    /\ event[w].kind # "badtime"
    /\ seq' = [seq EXCEPT ![w] = NextSeq(w)]
    /\ files' = [files EXCEPT ![event[w].machine] = @ \cup {event[w].bucket}]
    /\ pc' = [pc EXCEPT ![w] = "write"]
    /\ UNCHANGED <<partitions, file, synced, lock, event, todo, highest, before, used, acked>>

\* _month_bucket cannot parse the time: the append raises, holding the lock.
AssignRaises(w) ==
    /\ pc[w] = "scan"
    /\ todo[w] = {}
    /\ event[w].kind = "badtime"
    /\ pc' = [pc EXCEPT ![w] = "failed"]
    /\ UNCHANGED <<diskVars, lock, event, todo, highest, seq, before, used, acked>>

\* os.write appends the line, or as much of it as the kernel takes: the count
\* it returns is not looked at.
Write(w) ==
    /\ pc[w] = "write"
    /\ \E part \in {"whole"} \cup (IF "short" \in Faults THEN Fragments(event[w].kind) ELSE {}) :
          file' = [file EXCEPT ![event[w].machine][event[w].bucket] = WriteTo(@, LineOf(w, part))]
    /\ pc' = [pc EXCEPT ![w] = "sync"]
    /\ UNCHANGED <<partitions, files, synced, lock, event, todo, highest, seq, before, used, acked>>

WriteRaises(w) ==
    /\ "writeerror" \in Faults
    /\ pc[w] = "write"
    /\ pc' = [pc EXCEPT ![w] = "failed"]
    /\ UNCHANGED <<diskVars, lock, event, todo, highest, seq, before, used, acked>>

\* os.fsync returns.
Sync(w) ==
    /\ pc[w] = "sync"
    /\ synced' = [synced EXCEPT ![event[w].machine][event[w].bucket] =
                     SyncedBy(event[w].machine, event[w].bucket)]
    /\ pc' = [pc EXCEPT ![w] = "done"]
    /\ UNCHANGED <<partitions, files, file, lock, event, todo, highest, seq, before, used, acked>>

\* fsync raises: the line is in the file and append says that it failed.
SyncRaises(w) ==
    /\ "fsyncerror" \in Faults
    /\ pc[w] = "sync"
    /\ pc' = [pc EXCEPT ![w] = "failed"]
    /\ UNCHANGED <<diskVars, lock, event, todo, highest, seq, before, used, acked>>

\* w has no append under way any more.
Leave(w) ==
    /\ pc' = [pc EXCEPT ![w] = "idle"]
    /\ event' = [event EXCEPT ![w] = NoEvent]
    /\ todo' = [todo EXCEPT ![w] = {}]
    /\ highest' = [highest EXCEPT ![w] = -1]
    /\ seq' = [seq EXCEPT ![w] = 0]
    /\ before' = [before EXCEPT ![w] = {}]

\* The lock is released and append returns the stored event.  Nothing but the
\* process's own steps lies between the two.
Return(w) ==
    /\ pc[w] = "done"
    /\ acked' = acked \cup {[id |-> event[w].id, machine |-> event[w].machine,
                             bucket |-> event[w].bucket, seq |-> seq[w]]}
    /\ Unlock(w)
    /\ Leave(w)
    /\ UNCHANGED <<diskVars, used>>

\* The lock is released and append lets the exception out.
Raise(w) ==
    /\ pc[w] \in {"failed", "stalled"}
    /\ Unlock(w)
    /\ Leave(w)
    /\ UNCHANGED <<diskVars, used, acked>>

-----------------------------------------------------------------------------
(* The environment.                                                         *)

\* The process dies; the kernel closes its descriptors, which frees the flock.
Kill(w) ==
    /\ "kill" \in Faults
    /\ pc[w] # "idle"
    /\ Unlock(w)
    /\ Leave(w)
    /\ UNCHANGED <<diskVars, used, acked>>

\* The process dies inside os.write and part of the line is stored.
Tear(w) ==
    /\ "torn" \in Faults
    /\ pc[w] = "write"
    /\ \E part \in Fragments(event[w].kind) :
          file' = [file EXCEPT ![event[w].machine][event[w].bucket] = WriteTo(@, LineOf(w, part))]
    /\ Unlock(w)
    /\ Leave(w)
    /\ UNCHANGED <<partitions, files, synced, used, acked>>

\* The kernel writes a line back of its own accord; only a power loss tells.
WriteBack(m, b) ==
    /\ "power" \in Faults
    /\ synced[m][b] < Len(file[m][b])
    /\ synced' = [synced EXCEPT ![m][b] = @ + 1]
    /\ UNCHANGED <<partitions, files, file, lock, writerVars, used, acked>>

\* The host stops: every process is gone and every unsynced line with it.
PowerLoss ==
    /\ "power" \in Faults
    /\ file' = [m \in Machines |-> [b \in Buckets |-> SubSeq(file[m][b], 1, synced[m][b])]]
    /\ lock' = [m \in Machines |-> NoWriter]
    /\ pc' = [w \in Writers |-> "idle"]
    /\ event' = [w \in Writers |-> NoEvent]
    /\ todo' = [w \in Writers |-> {}]
    /\ highest' = [w \in Writers |-> -1]
    /\ seq' = [w \in Writers |-> 0]
    /\ before' = [w \in Writers |-> {}]
    /\ UNCHANGED <<partitions, files, synced, used, acked>>

-----------------------------------------------------------------------------
Step(w) ==
    \/ \E b \in Buckets : ScanFile(w, b) \/ SkipFile(w, b) \/ ScanRaises(w, b)
    \/ Assign(w) \/ AssignRaises(w)
    \/ Write(w) \/ WriteRaises(w)
    \/ Sync(w) \/ SyncRaises(w)
    \/ Return(w) \/ Raise(w)

Next ==
    \/ \E w \in Writers :
          \/ \E e \in Events : Call(w, e)
          \/ Acquire(w) \/ Step(w)
          \/ Kill(w) \/ Tear(w)
    \/ \E m \in Machines, b \in Buckets : WriteBack(m, b)
    \/ PowerLoss

Spec == Init /\ [][Next]_vars

\* A process that runs goes on running, and flock wakes a waiter in the end: one
\* that finds the lock free again and again is not passed over for ever.
Fairness == \A w \in Writers : WF_vars(Step(w)) /\ SF_vars(Acquire(w))

FairSpec == Spec /\ Fairness

-----------------------------------------------------------------------------
(* Properties.                                                              *)

Steps == {"idle", "wait", "scan", "write", "sync", "done", "failed", "stalled"}

\* Every variable holds a value of its kind: what is synced is the front of a file,
\* and a writer has an event while an append is under way.
TypeOK ==
    /\ partitions \subseteq Machines
    /\ files \in [Machines -> SUBSET Buckets]
    /\ file \in [Machines -> [Buckets -> Seq(Lines)]]
    /\ synced \in [Machines -> [Buckets -> Nat]]
    /\ \A m \in Machines, b \in Buckets : synced[m][b] <= Len(file[m][b])
    /\ lock \in [Machines -> Writers \cup {NoWriter}]
    /\ pc \in [Writers -> Steps]
    /\ event \in [Writers -> Events \cup {NoEvent}]
    /\ \A w \in Writers : pc[w] # "idle" => event[w] \in Events
    /\ todo \in [Writers -> SUBSET Buckets]
    /\ highest \in [Writers -> Nat \cup {-1}]
    /\ seq \in [Writers -> Nat]
    /\ used \subseteq Ids
    /\ acked \subseteq Stored
    /\ before \in [Writers -> SUBSET Stored]

\* The steps of append that run inside `with _PartitionLock`.
Critical == {"scan", "write", "sync", "done", "failed", "stalled"}

\* No two appends are inside the critical section of one machine.
MutualExclusion ==
    \A v, w \in Writers :
        v # w /\ pc[v] \in Critical /\ pc[w] \in Critical
            => event[v].machine # event[w].machine

\* The seqs on every line of a machine's files, readable or not.
Seqs(m) == UNION {{file[m][b][i].seq : i \in DOMAIN file[m][b]} : b \in Buckets}

\* No two lines of one machine have the same seq, in whichever months they are:
\* the scan, the write and the lock around them hand out each number once.
DistinctSeqs ==
    \A m \in Machines : \A b, c \in Buckets :
        \A i \in DOMAIN file[m][b], j \in DOMAIN file[m][c] :
            file[m][b][i].seq = file[m][c][j].seq => b = c /\ i = j

\* The seqs of a machine run from 0 without a hole, also after appends that
\* raised or were killed half-way.
GapFree == \A m \in Machines : \A s \in Seqs(m) : 0 .. s \subseteq Seqs(m)

\* An append that returned before another was called has the smaller seq, even
\* if its event went to a later month.
RealTimeOrder ==
    \A w \in Writers : pc[w] = "done" =>
        \A a \in before[w] : a.machine = event[w].machine => a.seq < seq[w]

\* Where the event that an append returned is on the disk, as a reader finds it.
StoredAt(a, i) ==
    LET f == file[a.machine][a.bucket]
    IN  i \in Readable(f) /\ f[i].id = a.id /\ f[i].seq = a.seq

\* Whatever append has returned is in the file its time selects, with the id and
\* the seq that were returned, and on the disk: no kill and no power loss takes
\* it back, and no later append spoils its line.
AckedDurable ==
    \A a \in acked :
        \E i \in 1 .. synced[a.machine][a.bucket] : StoredAt(a, i)

\* Every file goes on with the lines that were synced, in their order.
KeepsSynced ==
    \A m \in Machines, b \in Buckets :
        /\ synced[m][b] <= Len(file'[m][b])
        /\ \A i \in 1 .. synced[m][b] : file'[m][b][i] = file[m][b][i]

\* What is on the disk is never rewritten, reordered or removed: no step of an
\* append, no kill and no power loss touches a line that was synced.
DurableAppendOnly == [][KeepsSynced]_vars

\* A damaged file does not stop the sequence: no append fails in its scan.
NeverStalled == \A w \in Writers : pc[w] # "stalled"

\* Every append that was called comes to an end: it returns, raises, or dies with
\* its process.  No exception and no kill leaves the lock held.
EveryAppendEnds == \A w \in Writers : pc[w] # "idle" ~> pc[w] = "idle"

-----------------------------------------------------------------------------
(* What makes the properties inductive.                                     *)

\* A host and a file system that store every line whole, and payloads that hold
\* no line separator: what the store's comments take for granted.
Reliable ==
    /\ {"torn", "short", "scanerror"} \cap Faults = {}
    /\ "linesep" \notin Kinds

Sound(l) == l.part = "whole" /\ l.kind # "linesep"

AllSound ==
    \A m \in Machines, b \in Buckets : \A i \in DOMAIN file[m][b] : Sound(file[m][b][i])

\* Line i of f can be read, and will be whatever comes after it.
Lasting(f, i) ==
    /\ f[i].part = "whole" /\ f[i].kind # "linesep"
    /\ i > 1 => f[i - 1].part = "whole"

\* Whoever is in the critical section of a machine holds its lock.
LockInv == \A w \in Writers : pc[w] \in Critical => lock[event[w].machine] = w

\* A month file with lines is one that a scan lists.
FilesInv ==
    /\ \A m \in Machines, b \in Buckets : file[m][b] # <<>> => b \in files[m]
    /\ \A w \in Writers : pc[w] = "write" => event[w].bucket \in files[event[w].machine]

\* The months that a scan has been through hold no lasting line with a higher seq than
\* it has met.
ScanInv ==
    \A w \in Writers : pc[w] = "scan" =>
        \A b \in Buckets \ todo[w] :
            LET f == file[event[w].machine][b]
            IN  \A i \in DOMAIN f : Lasting(f, i) => f[i].seq <= highest[w]

\* The seq about to be written is above that of every lasting line of the machine.
WriteInv ==
    \A w \in Writers : pc[w] = "write" =>
        \A b \in Buckets :
            LET f == file[event[w].machine][b]
            IN  \A i \in DOMAIN f : Lasting(f, i) => f[i].seq < seq[w]

\* No two lasting lines of a machine have the same seq.
LastingDistinct ==
    \A m \in Machines : \A b, c \in Buckets :
        \A i \in DOMAIN file[m][b], j \in DOMAIN file[m][c] :
            /\ Lasting(file[m][b], i) /\ Lasting(file[m][c], j)
            /\ file[m][b][i].seq = file[m][c][j].seq
            => b = c /\ i = j

\* What comes after a lasting line in its file has a higher seq.
LastingSorted ==
    \A m \in Machines, b \in Buckets :
        LET f == file[m][b]
        IN  \A i, j \in DOMAIN f : i < j /\ Lasting(f, i) => f[i].seq < f[j].seq

\* The seqs a scan has met and the one it assigned follow on from those there are.
FollowInv ==
    \A w \in Writers :
        /\ pc[w] = "scan" => highest[w] \in Seqs(event[w].machine) \cup {-1}
        /\ pc[w] = "write" => seq[w] - 1 \in Seqs(event[w].machine) \cup {-1}

\* The line of an append that has written, as much of it as was stored, is the last of
\* its file until fsync, and on the disk from then on.
LineInv ==
    \A w \in Writers :
        LET m == event[w].machine
            b == event[w].bucket
        IN  /\ pc[w] = "sync" => /\ file[m][b] # <<>>
                                 /\ \E part \in Parts : file[m][b][Len(file[m][b])] = LineOf(w, part)
            /\ pc[w] = "done" => \E i \in 1 .. synced[m][b], part \in Parts :
                                    file[m][b][i] = LineOf(w, part)

\* Whatever append has returned has left a line, damaged perhaps, on the disk.
KeptInv ==
    \A a \in acked : \E i \in 1 .. synced[a.machine][a.bucket] :
        /\ file[a.machine][a.bucket][i].id = a.id
        /\ file[a.machine][a.bucket][i].seq = a.seq

\* What had been returned when an append was called is not taken back.
KnownInv == \A w \in Writers : before[w] \subseteq acked

\* An append's seq is above all that had been returned when it was called.
BeforeInv ==
    \A w \in Writers : pc[w] \in {"write", "sync", "done"} =>
        \A a \in before[w] : a.machine = event[w].machine => a.seq < seq[w]

\* Some file has a line of the event.
HasLine(id) ==
    \E m \in Machines, b \in Buckets : \E i \in DOMAIN file[m][b] : file[m][b][i].id = id

\* Every append has an id of its own, which no line has before it writes.
IdInv ==
    /\ \A m \in Machines, b \in Buckets : \A i \in DOMAIN file[m][b] :
          file[m][b][i].id \in used
    /\ \A w \in Writers :
          /\ pc[w] # "idle" => event[w].id \in used
          /\ pc[w] \in {"wait", "scan", "write"} => ~ HasLine(event[w].id)
    /\ \A v, w \in Writers :
          pc[v] # "idle" /\ pc[w] # "idle" /\ event[v].id = event[w].id => v = w

\* The line of an append lies in the file of its event.
PlaceInv ==
    \A w \in Writers : pc[w] # "idle" =>
        \A m \in Machines, b \in Buckets : \A i \in DOMAIN file[m][b] :
            file[m][b][i].id = event[w].id => m = event[w].machine /\ b = event[w].bucket

\* An append writes one line at most.
OneLine ==
    \A m, n \in Machines, b, c \in Buckets :
        \A i \in DOMAIN file[m][b], j \in DOMAIN file[n][c] :
            file[m][b][i].id = file[n][c][j].id => m = n /\ b = c /\ i = j

\* No append mistakes the seqs that a scan can read.
SeqInv == FilesInv /\ ScanInv /\ WriteInv /\ LastingDistinct /\ LastingSorted

\* What was returned is on the disk and below what comes after.
StoredInv == LineInv /\ KeptInv /\ KnownInv /\ BeforeInv
=============================================================================
