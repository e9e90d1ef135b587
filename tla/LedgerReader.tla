----------------------------- MODULE LedgerReader -----------------------------
(***************************************************************************)
(* LedgerStore.read_all against appends that go on meanwhile.              *)
(*                                                                         *)
(* A reader takes no lock.  It lists the machines once, lists the month    *)
(* files of each machine when it comes to it, and reads file by file: what *)
(* it returns need not be what the ledger held at any one moment.  Readers *)
(* change nothing, so one stands for any number of them.                   *)
(***************************************************************************)
EXTENDS LedgerStore, FiniteSets, SequencesExt

VARIABLES
    reading,   \* "idle", "machines", "months", "returned" or "raised"
    machines,  \* the machines still to visit
    months,    \* the month files still to read in the machine visited
    visited,   \* the machine visited
    events,    \* ReadResult.events
    malformed, \* whether ReadResult.malformed is more than 0
    skipped,   \* history: the files that could not be opened
    known      \* history: acked when the read began

readerVars == <<reading, machines, months, visited, events, malformed, skipped, known>>
systemVars == <<vars, readerVars>>

\* Going through the month files as iterdir lists them.
NextOfIfUnsorted(b, S) == b \in S

\* b comes next in the sorted list of what is left to read.
NextOf(b, S) == b \in S /\ \A c \in S : b <= c

ReaderInit ==
    /\ Init
    /\ reading = "idle"
    /\ machines = {}
    /\ months = {}
    /\ visited = 0
    /\ events = <<>>
    /\ malformed = FALSE
    /\ skipped = {}
    /\ known = {}

\* read_all is called and lists the machines.
BeginRead ==
    /\ reading = "idle"
    /\ reading' = "machines"
    /\ machines' = partitions
    /\ known' = acked
    /\ UNCHANGED <<vars, months, visited, events, malformed, skipped>>

\* The next machine's month files are listed.
Visit(m) ==
    /\ reading = "machines"
    /\ NextOf(m, machines)
    /\ machines' = machines \ {m}
    /\ visited' = m
    /\ months' = files[m]
    /\ reading' = "months"
    /\ UNCHANGED <<vars, events, malformed, skipped, known>>

\* The numbers of S from the lowest to the highest: a set of one sequence.
Ascending(S) ==
    {p \in [1 .. Cardinality(S) -> S] :
        ToSet(p) = S /\ \A i, j \in DOMAIN p : i < j => p[i] < p[j]}

\* Handing the lines on unparsed.
EventsIfRaw(m, b, f, places) == f

\* Numbering the events by their place, as a reader that ignores seq would.
EventsIfRenumbered(m, b, f, places) ==
    [n \in DOMAIN places |->
        [id |-> f[places[n]].id, machine |-> m, bucket |-> b, seq |-> n - 1]]

\* The events that _scan yields from the lines of the text f at the places given.
EventsOf(m, b, f, places) ==
    [n \in DOMAIN places |->
        [id |-> f[places[n]].id, machine |-> m, bucket |-> b, seq |-> f[places[n]].seq]]

\* Taking an unparseable last line for one that is being written, and not counting it.
DropsIfInner(f) == \E i \in DOMAIN f \ Readable(f) : i # Len(f)

\* Some line of the text f cannot be parsed.
Drops(f) == Readable(f) # DOMAIN f

\* The writers whose line the kernel may be copying into a file.
Copying(m, b) ==
    {w \in Writers : pc[w] = "write" /\ event[w].machine = m /\ event[w].bucket = b}

\* What one read of a file may find: the file as it stands or, when the kernel is
\* copying a line in, that line in part.
Views(m, b) ==
    {file[m][b]} \cup
    IF "midwrite" \notin Faults THEN {}
    ELSE UNION {{Append(file[m][b], LineOf(w, part)) : part \in Fragments(event[w].kind)} :
                  w \in Copying(m, b)}

\* One file is read and parsed.
ReadFile(b) ==
    /\ reading = "months"
    /\ NextOf(b, months)
    /\ months' = months \ {b}
    /\ \E f \in Views(visited, b) :
          /\ ~ Undecodable(f)
          /\ \E places \in Ascending(Readable(f)) :
                events' = events \o EventsOf(visited, b, f, places)
          /\ malformed' = (malformed \/ Drops(f))
    /\ UNCHANGED <<vars, reading, machines, visited, skipped, known>>

\* The file cannot be opened: the reader goes on without it.
PassOver(b) ==
    /\ "readerror" \in Faults
    /\ reading = "months"
    /\ NextOf(b, months)
    /\ months' = months \ {b}
    /\ skipped' = skipped \cup {<<visited, b>>}
    /\ UNCHANGED <<vars, reading, machines, visited, events, malformed, known>>

\* The file does not decode: UnicodeDecodeError is no OSError, and read_all raises.
ReadRaises(b) ==
    /\ reading = "months"
    /\ NextOf(b, months)
    /\ \E f \in Views(visited, b) : Undecodable(f)
    /\ reading' = "raised"
    /\ UNCHANGED <<vars, machines, months, visited, events, malformed, skipped, known>>

\* The machine is done.
Leaving ==
    /\ reading = "months"
    /\ months = {}
    /\ reading' = "machines"
    /\ UNCHANGED <<vars, machines, months, visited, events, malformed, skipped, known>>

\* read_all returns.
EndRead ==
    /\ reading = "machines"
    /\ machines = {}
    /\ reading' = "returned"
    /\ UNCHANGED <<vars, machines, months, visited, events, malformed, skipped, known>>

ReaderStep ==
    \/ BeginRead
    \/ \E m \in Machines : Visit(m)
    \/ \E b \in Buckets : ReadFile(b) \/ PassOver(b) \/ ReadRaises(b)
    \/ Leaving
    \/ EndRead

ReaderNext == ReaderStep \/ (Next /\ UNCHANGED readerVars)

ReaderSpec == ReaderInit /\ [][ReaderNext]_systemVars

-----------------------------------------------------------------------------
\* The reader's variables hold values of their kinds.
ReaderTypeOK ==
    /\ TypeOK
    /\ reading \in {"idle", "machines", "months", "returned", "raised"}
    /\ machines \subseteq Machines
    /\ months \subseteq Buckets
    /\ visited \in Machines \cup {0}
    /\ reading = "months" => visited \in Machines
    /\ events \in Seq(Stored)
    /\ malformed \in BOOLEAN
    /\ skipped \subseteq Machines \X Buckets
    /\ known \subseteq acked

\* Every line of a machine's files is whole and can be parsed.
Undamaged(m) ==
    \A b \in Buckets : Readable(file[m][b]) = DOMAIN file[m][b]
                       /\ \A i \in DOMAIN file[m][b] : file[m][b][i].part = "whole"

\* A read that returns with malformed = 0, and met no file it could not open, has
\* every event whose append had returned when the read began: whatever is torn or
\* split, read_all never loses an event without counting a line.
NoSilentLoss ==
    reading = "returned" /\ ~ malformed /\ skipped = {}
        => known \subseteq ToSet(events)

\* A read returns no event twice, and for one machine and month it returns them
\* by seq, although appends go on while it reads.
ReadInOrder ==
    \A i, j \in DOMAIN events : i < j =>
        LET x == events[i]
            y == events[j]
        IN  /\ x.id # y.id
            /\ x.machine <= y.machine
            /\ x.machine = y.machine => x.bucket <= y.bucket
            /\ x.machine = y.machine /\ x.bucket = y.bucket => x.seq < y.seq

\* While no line of a machine is damaged, whatever a read returns agrees with what
\* append returned: never another seq for an acknowledged id, never another id for
\* an acknowledged seq, although the reader takes no lock.
ReadAgrees ==
    \A x \in ToSet(events), a \in acked :
        /\ x.machine = a.machine
        /\ x.id = a.id \/ x.seq = a.seq
        /\ Undamaged(a.machine)
        => x = a

\* Lines that cannot be parsed are dropped and counted, they do not make the read
\* fail.
ReadNeverRaises == reading # "raised"

-----------------------------------------------------------------------------
(* What makes the properties inductive.                                     *)

\* Whatever a reader is to find is in a machine's directory that it lists.
PartitionsInv ==
    /\ \A a \in acked : a.machine \in partitions
    /\ \A w \in Writers : pc[w] # "idle" => event[w].machine \in partitions

\* A read that nothing has spoilt has an event or has still to come to it.
CoverInv ==
    /\ reading = "returned" => machines = {}
    /\ reading \in {"machines", "months", "returned"} /\ ~ malformed /\ skipped = {} =>
          \A a \in known : \/ a.machine \in machines
                           \/ reading = "months" /\ visited = a.machine /\ a.bucket \in months
                           \/ a \in ToSet(events)

\* What is still to be read lies behind what has been read.
AheadInv ==
    /\ reading = "idle" => events = <<>>
    /\ reading = "months" => \A m \in machines : visited < m
    /\ \A x \in ToSet(events) :
          /\ reading = "machines" => \A m \in machines : x.machine < m
          /\ reading = "months" => \/ x.machine < visited
                                   \/ x.machine = visited /\ \A b \in months : x.bucket < b

\* The id of an event that has been read is in use in the file it was read from only.
SeenInv ==
    \A x \in ToSet(events) :
        /\ x.id \in used
        /\ \A m \in Machines, b \in Buckets : \A i \in DOMAIN file[m][b] :
              file[m][b][i].id = x.id => m = x.machine /\ b = x.bucket
        /\ \A w \in Writers : pc[w] # "idle" /\ event[w].id = x.id =>
              event[w].machine = x.machine /\ event[w].bucket = x.bucket

\* An event that has been read is on a line, or on one that is being written.
TraceInv ==
    \A x \in ToSet(events) :
        \/ \E i \in DOMAIN file[x.machine][x.bucket] :
              file[x.machine][x.bucket][i].id = x.id /\ file[x.machine][x.bucket][i].seq = x.seq
        \/ /\ "midwrite" \in Faults
           /\ \E w \in Writers :
                 /\ pc[w] = "write" /\ seq[w] = x.seq /\ event[w].id = x.id
                 /\ event[w].machine = x.machine /\ event[w].bucket = x.bucket

\* What a reader can see stays: the power does, and os.write has begun to copy a line
\* that is seen in part, so that it neither raises nor leaves nothing.
SeenStays ==
    /\ "power" \notin Faults
    /\ "midwrite" \in Faults => {"kill", "writeerror"} \cap Faults = {}
=============================================================================
