-------------------------- MODULE LedgerReaderProofs --------------------------
(***************************************************************************)
(* What a reader that takes no lock returns, for every number of writers,  *)
(* machines, months and appends that go on while it reads.                 *)
(***************************************************************************)
EXTENDS LedgerReader, LedgerStoreProofs, FiniteSetTheorems

-----------------------------------------------------------------------------
(* The store, while it is read.                                             *)

LEMMA ReaderMoves ==
    ASSUME [ReaderNext]_systemVars
    PROVE  \/ ReaderStep /\ UNCHANGED vars
           \/ [Next]_vars /\ UNCHANGED readerVars
  <1>1. ReaderStep => UNCHANGED vars
    BY DEF ReaderStep, BeginRead, Visit, ReadFile, PassOver, ReadRaises, Leaving, EndRead
  <1> QED BY <1>1 DEF ReaderNext, systemVars

LEMMA StoreGoesOn == [ReaderNext]_systemVars => [Next]_vars
  BY ReaderMoves

\* Readers do not disturb the store: whatever is proved of it holds while it is read.
THEOREM ReadsDisturbNothing == ReaderSpec => Spec
  <1>1. ReaderInit => Init
    BY DEF ReaderInit
  <1> QED BY <1>1, StoreGoesOn, PTL DEF ReaderSpec, Spec

-----------------------------------------------------------------------------
(* What one read of a file finds.                                           *)

LEMMA ViewIs ==
    ASSUME TypeOK, NEW m \in Machines, NEW b \in Buckets, NEW f \in Views(m, b)
    PROVE  /\ f \in Seq(Lines)
           /\ \/ f = file[m][b]
              \/ \E w \in Writers, part \in Parts :
                    /\ "midwrite" \in Faults /\ pc[w] = "write" /\ event[w] \in Events
                    /\ event[w].machine = m /\ event[w].bucket = b
                    /\ LineOf(w, part) \in Lines
                    /\ f = Append(file[m][b], LineOf(w, part))
  <1>0. file[m][b] \in Seq(Lines)
    BY DEF TypeOK
  <1>1. CASE f = file[m][b]
    BY <1>0, <1>1
  <1>2. CASE f # file[m][b]
    <2>1. "midwrite" \in Faults
      BY <1>2 DEF Views
    <2>2. PICK w \in Writers, part \in Parts :
             /\ pc[w] = "write" /\ event[w].machine = m /\ event[w].bucket = b
             /\ part \in Fragments(event[w].kind)
             /\ f = Append(file[m][b], LineOf(w, part))
      BY <1>2, <2>1, FragmentParts DEF Views, Copying
    <2>3. event[w] \in Events /\ seq[w] \in Nat
      BY <2>2 DEF TypeOK
    <2>4. LineOf(w, part) \in Lines
      BY <2>3 DEF LineOf, Lines, Events
    <2>5. f \in Seq(Lines)
      BY <1>0, <2>2, <2>4, AppendProperties
    <2> QED BY <2>1, <2>2, <2>3, <2>4, <2>5
  <1> QED BY <1>1, <1>2

\* It holds the file's lines and perhaps one that is being written.
LEMMA ViewLines ==
    ASSUME TypeOK, NEW m \in Machines, NEW b \in Buckets, NEW f \in Views(m, b)
    PROVE  /\ \A i \in DOMAIN file[m][b] :
                 i \in DOMAIN f /\ f[i] = file[m][b][i]
           /\ \A i \in DOMAIN f :
                 \/ i \in DOMAIN file[m][b]
                 \/ /\ i = Len(file[m][b]) + 1
                    /\ \E w \in Writers, part \in Parts :
                          /\ "midwrite" \in Faults /\ pc[w] = "write" /\ event[w] \in Events
                          /\ event[w].machine = m /\ event[w].bucket = b
                          /\ f[i] = LineOf(w, part)
           /\ DOMAIN f = 1 .. Len(f) /\ Len(f) \in Nat
  <1>0. /\ file[m][b] \in Seq(Lines) /\ f \in Seq(Lines)
        /\ DOMAIN file[m][b] = 1 .. Len(file[m][b]) /\ Len(file[m][b]) \in Nat
        /\ DOMAIN f = 1 .. Len(f) /\ Len(f) \in Nat
    BY ViewIs, LenProperties DEF TypeOK
  <1>1. CASE f = file[m][b]
    BY <1>0, <1>1
  <1>2. CASE f # file[m][b]
    <2>1. PICK w \in Writers, part \in Parts :
             /\ "midwrite" \in Faults /\ pc[w] = "write" /\ event[w] \in Events
             /\ event[w].machine = m /\ event[w].bucket = b
             /\ LineOf(w, part) \in Lines
             /\ f = Append(file[m][b], LineOf(w, part))
      BY <1>2, ViewIs
    <2>2. /\ Len(f) = Len(file[m][b]) + 1
          /\ \A i \in 1 .. Len(file[m][b]) : f[i] = file[m][b][i]
          /\ f[Len(file[m][b]) + 1] = LineOf(w, part)
      BY <1>0, <2>1, AppendProperties
    <2>3. \A i \in DOMAIN f : i \in DOMAIN file[m][b] \/ i = Len(file[m][b]) + 1
      BY <1>0, <2>2
    <2>4. \A i \in DOMAIN file[m][b] : i \in DOMAIN f /\ f[i] = file[m][b][i]
      BY <1>0, <2>2
    <2> QED BY <1>0, <2>1, <2>2, <2>3, <2>4
  <1> QED BY <1>1, <1>2

LEMMA AscendingIs ==
    ASSUME NEW S \in SUBSET Nat, IsFiniteSet(S), NEW p \in Ascending(S)
    PROVE  /\ p \in Seq(S) /\ DOMAIN p = 1 .. Len(p) /\ Len(p) \in Nat
           /\ \A i \in DOMAIN p : p[i] \in S
           /\ \A k \in S : \E i \in DOMAIN p : p[i] = k
           /\ \A i, j \in DOMAIN p : i < j => p[i] < p[j]
  <1>1. Cardinality(S) \in Nat
    BY FS_CardinalityType
  <1>2. /\ p \in [1 .. Cardinality(S) -> S] /\ ToSet(p) = S
        /\ \A i, j \in DOMAIN p : i < j => p[i] < p[j]
    BY DEF Ascending
  <1>3. p \in Seq(S)
    BY <1>1, <1>2
  <1>4. DOMAIN p = 1 .. Len(p) /\ Len(p) \in Nat
    BY <1>3, LenProperties
  <1> QED BY <1>2, <1>3, <1>4 DEF ToSet

LEMMA ReadableFinite ==
    ASSUME NEW f \in Seq(Lines)
    PROVE  Readable(f) \in SUBSET Nat /\ IsFiniteSet(Readable(f)) /\ Readable(f) \subseteq DOMAIN f
  <1>1. Readable(f) \subseteq 1 .. Len(f) /\ Len(f) \in Nat
    BY LenProperties DEF Readable
  <1>2. IsFiniteSet(1 .. Len(f))
    BY <1>1, FS_Interval
  <1> QED BY <1>1, <1>2, FS_Subset DEF Readable

\* The event on line k of the text f of the month b.
EventAt(b, f, k) == [id |-> f[k].id, machine |-> visited, bucket |-> b, seq |-> f[k].seq]

\* A read of a file adds the events on the lines that can be read, in their order.
LEMMA ReadEffect ==
    ASSUME ReaderTypeOK, NEW b \in Buckets, ReadFile(b)
    PROVE  \E f \in Views(visited, b) : \E p \in Ascending(Readable(f)) :
              /\ malformed' = (malformed \/ Drops(f))
              /\ events' \in Seq(Stored)
              /\ \A i \in DOMAIN events' :
                    \/ i \in DOMAIN events /\ events'[i] = events[i]
                    \/ /\ i - Len(events) \in DOMAIN p
                       /\ p[i - Len(events)] \in Readable(f)
                       /\ events'[i] = EventAt(b, f, p[i - Len(events)])
              /\ \A x \in ToSet(events') :
                    x \in ToSet(events) \/ \E k \in Readable(f) : x = EventAt(b, f, k)
              /\ ToSet(events) \subseteq ToSet(events')
              /\ \A k \in Readable(f) : EventAt(b, f, k) \in ToSet(events')
  <1>1. visited \in Machines /\ TypeOK /\ events \in Seq(Stored)
    BY DEF ReadFile, ReaderTypeOK
  <1>2. PICK f \in Views(visited, b) :
           /\ malformed' = (malformed \/ Drops(f))
           /\ \E p \in Ascending(Readable(f)) : events' = events \o EventsOf(visited, b, f, p)
    BY DEF ReadFile
  <1>3. PICK p \in Ascending(Readable(f)) : events' = events \o EventsOf(visited, b, f, p)
    BY <1>2
  <1>4. f \in Seq(Lines) /\ Readable(f) \subseteq DOMAIN f
    BY <1>1, ViewIs, ReadableFinite
  <1>5. /\ p \in Seq(Readable(f)) /\ DOMAIN p = 1 .. Len(p) /\ Len(p) \in Nat
        /\ \A i \in DOMAIN p : p[i] \in Readable(f)
        /\ \A k \in Readable(f) : \E i \in DOMAIN p : p[i] = k
    BY <1>4, ReadableFinite, AscendingIs
  <1>6. \A k \in Readable(f) : EventAt(b, f, k) \in Stored
    <2> SUFFICES ASSUME NEW k \in Readable(f) PROVE EventAt(b, f, k) \in Stored
      OBVIOUS
    <2>1. f[k] \in Lines
      BY <1>4, ElementOfSeq, LenProperties
    <2> QED BY <1>1, <2>1 DEF EventAt, Stored, Lines
  <1> DEFINE new == EventsOf(visited, b, f, p)
  <1>7. new = [n \in 1 .. Len(p) |-> EventAt(b, f, p[n])]
    BY <1>5 DEF EventsOf, EventAt
  <1>8. /\ new \in Seq(Stored) /\ DOMAIN new = DOMAIN p /\ Len(new) = Len(p)
        /\ \A n \in DOMAIN p : new[n] = EventAt(b, f, p[n])
    BY <1>5, <1>6, <1>7
  <1> HIDE DEF new
  <1>9. /\ DOMAIN events = 1 .. Len(events) /\ Len(events) \in Nat
    BY <1>1, LenProperties
  <1>10. /\ events' \in Seq(Stored) /\ DOMAIN events' = 1 .. Len(events) + Len(new)
        /\ \A i \in 1 .. Len(events) + Len(new) :
              events'[i] = IF i <= Len(events) THEN events[i] ELSE new[i - Len(events)]
    <2>1. events' = events \o new
      BY <1>3 DEF new
    <2> QED BY <1>1, <1>8, <2>1, ConcatProperties, LenProperties
  <1>11. ASSUME NEW i \in DOMAIN events'
         PROVE  \/ i \in DOMAIN events /\ events'[i] = events[i]
                \/ /\ i - Len(events) \in DOMAIN p
                   /\ p[i - Len(events)] \in Readable(f)
                   /\ events'[i] = EventAt(b, f, p[i - Len(events)])
    <2>1. CASE i <= Len(events)
      BY <1>9, <1>10, <2>1
    <2>2. CASE ~ i <= Len(events)
      <3>1. i - Len(events) \in 1 .. Len(p) /\ i \in 1 .. Len(events) + Len(new)
        BY <1>5, <1>8, <1>9, <1>10, <2>2
      <3> QED BY <1>5, <1>8, <1>10, <2>2, <3>1
    <2> QED BY <2>1, <2>2
  <1>12. \A x \in ToSet(events') :
            x \in ToSet(events) \/ \E k \in Readable(f) : x = EventAt(b, f, k)
    BY <1>11 DEF ToSet
  <1>13. ToSet(events) \subseteq ToSet(events')
    <2> SUFFICES ASSUME NEW i \in DOMAIN events PROVE \E j \in DOMAIN events' : events'[j] = events[i]
      BY DEF ToSet
    <2>1. i \in DOMAIN events' /\ events'[i] = events[i]
      BY <1>5, <1>8, <1>9, <1>10
    <2> QED BY <2>1
  <1>14. ASSUME NEW k \in Readable(f) PROVE EventAt(b, f, k) \in ToSet(events')
    <2>1. PICK n \in 1 .. Len(p) : p[n] = k
      BY <1>5
    <2>2. PICK i \in DOMAIN events' : i = n + Len(events)
      BY <1>8, <1>9, <1>10, <2>1
    <2>3. ~ i <= Len(events) /\ i - Len(events) = n
      BY <1>5, <1>9, <2>1, <2>2
    <2>4. events'[i] = new[n]
      BY <1>10, <2>2, <2>3
    <2>5. events'[i] = EventAt(b, f, k)
      BY <1>5, <1>8, <2>1, <2>4
    <2> QED BY <2>2, <2>5 DEF ToSet
  <1> QED BY <1>2, <1>10, <1>11, <1>12, <1>13, <1>14

-----------------------------------------------------------------------------
(* The types.                                                               *)

LEMMA ReaderTypeStep == ReaderTypeOK /\ [ReaderNext]_systemVars => ReaderTypeOK'
  <1> SUFFICES ASSUME ReaderTypeOK, [ReaderNext]_systemVars PROVE ReaderTypeOK'
    OBVIOUS
  <1>1. TypeOK' /\ acked \subseteq acked'
    BY StoreGoesOn, TypeStep, AckedGrows DEF ReaderTypeOK
  <1>2. CASE UNCHANGED readerVars
    BY <1>1, <1>2 DEF readerVars, ReaderTypeOK
  <1>3. CASE BeginRead
    BY <1>1, <1>3 DEF BeginRead, ReaderTypeOK, TypeOK
  <1>4. ASSUME NEW m \in Machines, Visit(m) PROVE ReaderTypeOK'
    BY <1>1, <1>4 DEF Visit, ReaderTypeOK, TypeOK
  <1>5. ASSUME NEW b \in Buckets, ReadFile(b) PROVE ReaderTypeOK'
    <2>1. events' \in Seq(Stored)
      BY <1>5, ReadEffect
    <2>2. malformed' \in BOOLEAN
      BY <1>5 DEF ReadFile, Drops, ReaderTypeOK
    <2> QED BY <1>1, <1>5, <2>1, <2>2 DEF ReadFile, ReaderTypeOK
  <1>6. ASSUME NEW b \in Buckets, PassOver(b) PROVE ReaderTypeOK'
    BY <1>1, <1>6 DEF PassOver, ReaderTypeOK
  <1>7. ASSUME NEW b \in Buckets, ReadRaises(b) PROVE ReaderTypeOK'
    BY <1>1, <1>7 DEF ReadRaises, ReaderTypeOK
  <1>8. CASE Leaving \/ EndRead
    BY <1>1, <1>8 DEF Leaving, EndRead, ReaderTypeOK
  <1> QED BY <1>2, <1>3, <1>4, <1>5, <1>6, <1>7, <1>8, ReaderMoves DEF ReaderStep

\* A reader's variables keep their types, and what it returns are stored events
\* (store.py, read_all).
THEOREM ReaderTypeCorrect == ReaderSpec => []ReaderTypeOK
  <1>1. ReaderInit => ReaderTypeOK
    BY TypeInit, EmptySeq DEF ReaderInit, ReaderTypeOK
  <1> QED BY <1>1, ReaderTypeStep, PTL DEF ReaderSpec

-----------------------------------------------------------------------------
(* Nothing is lost uncounted.                                               *)

LEMMA PartitionsStep == TypeOK /\ PartitionsInv /\ [Next]_vars => PartitionsInv'
  <1> SUFFICES ASSUME TypeOK, PartitionsInv, [Next]_vars PROVE PartitionsInv'
    OBVIOUS
  <1>1. ASSUME NEW w \in Writers, NEW e \in Events, Call(w, e)
        PROVE  partitions \subseteq partitions' /\ e.machine \in partitions'
    BY <1>1 DEF Call
  <1>2. partitions \subseteq partitions'
    <2>1. ASSUME NEW w \in Writers, Step(w) PROVE partitions' = partitions
      BY <2>1 DEF Step, ScanFile, SkipFile, ScanRaises, Assign, AssignRaises, Write,
                  WriteRaises, Sync, SyncRaises, Return, Raise, diskVars
    <2> QED BY <1>1, <2>1 DEF Next, Acquire, Kill, Tear, WriteBack, PowerLoss, vars, diskVars
  <1>3. ASSUME NEW w \in Writers, pc'[w] # "idle" PROVE event'[w].machine \in partitions'
    BY <1>1, <1>2, <1>3, EventFrom DEF PartitionsInv
  <1>4. ASSUME NEW a \in acked' PROVE a.machine \in partitions'
    BY <1>2, <1>4, AckedFrom DEF PartitionsInv
  <1> QED BY <1>3, <1>4 DEF PartitionsInv

LEMMA PartitionsCorrect == Spec => []PartitionsInv
  <1>1. Init => PartitionsInv
    BY DEF Init, PartitionsInv
  <1> QED BY <1>1, PartitionsStep, TypeCorrect, PTL DEF Spec

\* Where the line of what has been returned lies, a reader finds it or counts a line.
LEMMA KeptFound ==
    ASSUME ReaderTypeOK, KeptInv, NEW b \in Buckets, visited \in Machines,
           NEW f \in Views(visited, b), ~ Drops(f),
           NEW a \in acked, a.machine = visited, a.bucket = b
    PROVE  \E k \in Readable(f) : a = EventAt(b, f, k)
  <1>0. TypeOK /\ a \in Stored
    BY DEF ReaderTypeOK, TypeOK
  <1>1. PICK i \in 1 .. synced[visited][b] :
           file[visited][b][i].id = a.id /\ file[visited][b][i].seq = a.seq
    BY DEF KeptInv
  <1>2. i \in DOMAIN file[visited][b]
    BY <1>0, LenProperties DEF TypeOK
  <1>3. i \in DOMAIN f /\ f[i] = file[visited][b][i]
    BY <1>0, <1>2, ViewLines
  <1>4. i \in Readable(f)
    BY <1>3 DEF Drops
  <1>5. a = EventAt(b, f, i)
    BY <1>0, <1>1, <1>3 DEF EventAt, Stored
  <1> QED BY <1>4, <1>5

LEMMA CoverStep ==
    ReaderTypeOK /\ FilesInv /\ KeptInv /\ PartitionsInv /\ CoverInv /\ [ReaderNext]_systemVars
        => CoverInv'
  <1> SUFFICES ASSUME ReaderTypeOK, FilesInv, KeptInv, PartitionsInv, CoverInv,
                      [ReaderNext]_systemVars
               PROVE  CoverInv'
    OBVIOUS
  <1>0. TypeOK /\ known \subseteq acked
    BY DEF ReaderTypeOK
  <1>1. CASE UNCHANGED readerVars
    BY <1>1 DEF readerVars, CoverInv
  <1>2. CASE BeginRead
    BY <1>2 DEF BeginRead, PartitionsInv, CoverInv
  <1>3. ASSUME NEW m \in Machines, Visit(m) PROVE CoverInv'
    <2>1. ASSUME NEW a \in known, a.machine = m PROVE a.bucket \in files[m]
      <3>1. a \in acked /\ a \in Stored /\ a.bucket \in Buckets
        BY <1>0 DEF TypeOK, Stored
      <3>2. PICK i \in 1 .. synced[m][a.bucket] : TRUE
        BY <2>1, <3>1 DEF KeptInv
      <3>3. file[m][a.bucket] # <<>>
        BY <1>0, <3>1, <3>2, EmptySeq, LenProperties DEF TypeOK
      <3> QED BY <3>1, <3>3 DEF FilesInv
    <2>2. UNCHANGED <<events, malformed, skipped, known>> /\ reading = "machines"
          /\ reading' = "months" /\ visited' = m /\ months' = files[m] /\ machines' = machines \ {m}
      BY <1>3 DEF Visit
    <2> QED BY <2>1, <2>2 DEF CoverInv
  <1>4. ASSUME NEW b \in Buckets, ReadFile(b) PROVE CoverInv'
    <2>1. /\ reading = "months" /\ visited \in Machines /\ months' = months \ {b}
          /\ UNCHANGED <<reading, machines, visited, skipped, known>>
      BY <1>4 DEF ReadFile, ReaderTypeOK
    <2>2. PICK f \in Views(visited, b) :
             /\ malformed' = (malformed \/ Drops(f))
             /\ ToSet(events) \subseteq ToSet(events')
             /\ \A k \in Readable(f) : EventAt(b, f, k) \in ToSet(events')
      BY <1>4, ReadEffect
    <2>3. ASSUME ~ malformed', skipped = {}, NEW a \in known
          PROVE  \/ a.machine \in machines
                 \/ visited = a.machine /\ a.bucket \in months'
                 \/ a \in ToSet(events')
      <3>1. CASE visited = a.machine /\ a.bucket = b
        <4>1. ~ Drops(f) /\ a \in acked
          BY <1>0, <2>2, <2>3
        <4>2. PICK k \in Readable(f) : a = EventAt(b, f, k)
          BY <2>1, <3>1, <4>1, KeptFound
        <4> QED BY <2>2, <4>2
      <3>2. CASE ~ (visited = a.machine /\ a.bucket = b)
        BY <2>1, <2>2, <2>3, <3>2 DEF CoverInv
      <3> QED BY <3>1, <3>2
    <2> QED BY <2>1, <2>3 DEF CoverInv
  <1>5. ASSUME NEW b \in Buckets, PassOver(b) PROVE CoverInv'
    BY <1>5 DEF PassOver, CoverInv
  <1>6. ASSUME NEW b \in Buckets, ReadRaises(b) PROVE CoverInv'
    BY <1>6 DEF ReadRaises, CoverInv
  <1>7. CASE Leaving \/ EndRead
    BY <1>7 DEF Leaving, EndRead, CoverInv
  <1> QED BY <1>1, <1>2, <1>3, <1>4, <1>5, <1>6, <1>7, ReaderMoves DEF ReaderStep

\* Whatever is torn, stored in part, lost with the power or half copied while it is
\* read: read_all returns every event whose append had returned when it began, unless
\* it counts a malformed line or cannot open a file (store.py, _scan).
THEOREM NothingLostUncounted == ReaderSpec => []NoSilentLoss
  <1>1. ReaderInit => CoverInv
    BY DEF ReaderInit, CoverInv
  <1>2. ReaderSpec => []CoverInv
    BY <1>1, CoverStep, ReaderTypeCorrect, ReadsDisturbNothing, FilesCorrect, LinesStay,
       PartitionsCorrect, PTL DEF ReaderSpec
  <1>3. CoverInv => NoSilentLoss
    BY DEF CoverInv, NoSilentLoss
  <1> QED BY <1>2, <1>3, PTL

-----------------------------------------------------------------------------
(* Order.                                                                   *)

\* The numbers that a reader compares.
LEMMA Numbers ==
    ASSUME ReaderTypeOK
    PROVE  /\ \A x \in ToSet(events) : /\ x \in Stored /\ x.machine \in Machines
                                       /\ x.bucket \in Buckets /\ x.id \in Ids
           /\ Machines \subseteq Nat /\ Buckets \subseteq Nat
           /\ machines \subseteq Machines /\ months \subseteq Buckets
           /\ reading = "months" => visited \in Machines
  <1>1. \A x \in ToSet(events) : x \in Stored
    BY LenProperties DEF ReaderTypeOK, ToSet
  <1> QED BY <1>1, ConstantsAssumption DEF ReaderTypeOK, Stored

LEMMA AheadStep == ReaderTypeOK /\ AheadInv /\ [ReaderNext]_systemVars => AheadInv'
  <1> SUFFICES ASSUME ReaderTypeOK, AheadInv, [ReaderNext]_systemVars PROVE AheadInv'
    OBVIOUS
  <1>1. CASE UNCHANGED readerVars
    BY <1>1 DEF readerVars, AheadInv
  <1>2. CASE BeginRead
    BY <1>2, EmptySeq DEF BeginRead, AheadInv, ToSet
  <1>3. ASSUME NEW m \in Machines, Visit(m) PROVE AheadInv'
    <2>1. /\ reading = "machines" /\ reading' = "months" /\ visited' = m /\ events' = events
          /\ machines' = machines \ {m} /\ m \in machines /\ \A n \in machines : m <= n
      BY <1>3 DEF Visit, NextOf
    <2>2. \A n \in machines' : m < n
      BY <2>1, Numbers
    <2>3. \A x \in ToSet(events) : x.machine < m
      BY <2>1 DEF AheadInv
    <2> QED BY <2>1, <2>2, <2>3 DEF AheadInv
  <1>4. ASSUME NEW b \in Buckets, ReadFile(b) PROVE AheadInv'
    <2>1. /\ reading = "months" /\ visited \in Machines /\ months' = months \ {b}
          /\ b \in months /\ \A c \in months : b <= c
          /\ UNCHANGED <<reading, machines, visited>>
      BY <1>4 DEF ReadFile, NextOf, ReaderTypeOK
    <2>2. \A c \in months' : b < c
      BY <2>1, Numbers
    <2>3. ASSUME NEW x \in ToSet(events')
          PROVE  x.machine < visited \/ (x.machine = visited /\ \A c \in months' : x.bucket < c)
      <3>1. CASE x \in ToSet(events)
        BY <2>1, <3>1 DEF AheadInv
      <3>2. CASE \E f \in Views(visited, b) : \E k \in Readable(f) : x = EventAt(b, f, k)
        BY <2>2, <3>2 DEF EventAt
      <3> QED BY <1>4, <3>1, <3>2, ReadEffect
    <2> QED BY <2>1, <2>3 DEF AheadInv
  <1>5. ASSUME NEW b \in Buckets, PassOver(b) PROVE AheadInv'
    BY <1>5 DEF PassOver, AheadInv
  <1>6. ASSUME NEW b \in Buckets, ReadRaises(b) PROVE AheadInv'
    BY <1>6 DEF ReadRaises, AheadInv
  <1>7. CASE Leaving
    <2>1. reading = "months" /\ reading' = "machines" /\ UNCHANGED <<machines, events>>
      BY <1>7 DEF Leaving
    <2>2. ASSUME NEW x \in ToSet(events), NEW m \in machines PROVE x.machine < m
      <3>1. visited < m /\ (x.machine < visited \/ x.machine = visited)
        BY <2>1 DEF AheadInv
      <3>2. visited \in Nat /\ m \in Nat /\ x.machine \in Nat
        BY <2>1, Numbers
      <3> QED BY <3>1, <3>2
    <2> QED BY <2>1, <2>2 DEF AheadInv
  <1>8. CASE EndRead
    BY <1>8 DEF EndRead, AheadInv
  <1> QED BY <1>1, <1>2, <1>3, <1>4, <1>5, <1>6, <1>7, <1>8, ReaderMoves DEF ReaderStep

LEMMA AheadCorrect == ReaderSpec => []AheadInv
  <1>1. ReaderInit => AheadInv
    BY EmptySeq DEF ReaderInit, AheadInv, ToSet
  <1> QED BY <1>1, AheadStep, ReaderTypeCorrect, PTL DEF ReaderSpec

\* The line of an event that has been read, or the append that is writing it.
LEMMA ReadFrom ==
    ASSUME ReaderTypeOK, visited \in Machines, NEW b \in Buckets, NEW f \in Views(visited, b),
           NEW k \in Readable(f)
    PROVE  \/ k \in DOMAIN file[visited][b] /\ f[k] = file[visited][b][k]
           \/ /\ k = Len(file[visited][b]) + 1
              /\ \E w \in Writers, part \in Parts :
                    /\ "midwrite" \in Faults /\ pc[w] = "write" /\ event[w] \in Events
                    /\ event[w].machine = visited /\ event[w].bucket = b
                    /\ f[k] = LineOf(w, part)
  <1>1. TypeOK /\ k \in DOMAIN f
    BY DEF ReaderTypeOK, Readable
  <1> QED BY <1>1, ViewLines

\* A step of the store leaves the ids that have been read where they are.
LEMMA SeenKept ==
    ASSUME TypeOK, IdInv, SeenInv, [Next]_vars, UNCHANGED readerVars
    PROVE  SeenInv'
  <1> SUFFICES ASSUME NEW x \in ToSet(events)
               PROVE  /\ x.id \in used'
                      /\ \A m \in Machines, b \in Buckets : \A i \in DOMAIN file'[m][b] :
                            file'[m][b][i].id = x.id => m = x.machine /\ b = x.bucket
                      /\ \A w \in Writers : pc'[w] # "idle" /\ event'[w].id = x.id =>
                            event'[w].machine = x.machine /\ event'[w].bucket = x.bucket
    BY DEF SeenInv, readerVars
  <1>1. x.id \in used /\ used \subseteq used'
    BY UsedGrows DEF SeenInv
  <1>2. ASSUME NEW m \in Machines, NEW b \in Buckets, NEW i \in DOMAIN file'[m][b],
               file'[m][b][i].id = x.id
        PROVE  m = x.machine /\ b = x.bucket
    BY <1>2, LineIds DEF SeenInv
  <1>3. ASSUME NEW w \in Writers, pc'[w] # "idle", event'[w].id = x.id
        PROVE  event'[w].machine = x.machine /\ event'[w].bucket = x.bucket
    <2>1. ASSUME NEW e \in Events, Call(w, e), event'[w] = e PROVE FALSE
      BY <1>1, <1>3, <2>1 DEF Call
    <2> QED BY <1>3, <2>1, EventFrom DEF SeenInv
  <1> QED BY <1>1, <1>2, <1>3

LEMMA SeenStep ==
    ReaderTypeOK /\ IdInv /\ PlaceInv /\ OneLine /\ SeenInv /\ [ReaderNext]_systemVars => SeenInv'
  <1> SUFFICES ASSUME ReaderTypeOK, IdInv, PlaceInv, OneLine, SeenInv,
                      [ReaderNext]_systemVars
               PROVE  SeenInv'
    OBVIOUS
  <1>0. TypeOK
    BY DEF ReaderTypeOK
  <1>1. CASE [Next]_vars /\ UNCHANGED readerVars
    BY <1>0, <1>1, SeenKept
  <1>2. CASE UNCHANGED vars /\ events' = events
    BY <1>2 DEF vars, diskVars, writerVars, SeenInv
  <1>3. ASSUME NEW b \in Buckets, ReadFile(b) PROVE SeenInv'
    <2>1. UNCHANGED <<file, used, pc, event>> /\ visited \in Machines
      BY <1>3 DEF ReadFile, vars, diskVars, writerVars, ReaderTypeOK
    <2>2. PICK f \in Views(visited, b) : \A x \in ToSet(events') :
             x \in ToSet(events) \/ \E k \in Readable(f) : x = EventAt(b, f, k)
      BY <1>3, ReadEffect
    <2>3. ASSUME NEW x, NEW k \in Readable(f), x = EventAt(b, f, k)
          PROVE  /\ x.id \in used
                 /\ \A m \in Machines, c \in Buckets : \A i \in DOMAIN file[m][c] :
                       file[m][c][i].id = x.id => m = x.machine /\ c = x.bucket
                 /\ \A w \in Writers : pc[w] # "idle" /\ event[w].id = x.id =>
                       event[w].machine = x.machine /\ event[w].bucket = x.bucket
      <3>0. x.id = f[k].id /\ x.machine = visited /\ x.bucket = b
        BY <2>3 DEF EventAt
      <3>1. CASE k \in DOMAIN file[visited][b] /\ f[k] = file[visited][b][k]
        <4>1. x.id \in used
          BY <2>1, <3>0, <3>1 DEF IdInv
        <4>2. ASSUME NEW m \in Machines, NEW c \in Buckets, NEW i \in DOMAIN file[m][c],
                     file[m][c][i].id = x.id
              PROVE  m = x.machine /\ c = x.bucket
          BY <2>1, <3>0, <3>1, <4>2 DEF OneLine
        <4>3. ASSUME NEW w \in Writers, pc[w] # "idle", event[w].id = x.id
              PROVE  event[w].machine = x.machine /\ event[w].bucket = x.bucket
          BY <2>1, <3>0, <3>1, <4>3 DEF PlaceInv
        <4> QED BY <4>1, <4>2, <4>3
      <3>2. ASSUME NEW w \in Writers, NEW part \in Parts, pc[w] = "write", event[w] \in Events,
                   event[w].machine = visited, event[w].bucket = b, f[k] = LineOf(w, part)
            PROVE  /\ x.id \in used
                   /\ \A m \in Machines, c \in Buckets : \A i \in DOMAIN file[m][c] :
                         file[m][c][i].id # x.id
                   /\ \A v \in Writers : pc[v] # "idle" /\ event[v].id = x.id => v = w
        <4>1. x.id = event[w].id
          BY <3>0, <3>2 DEF LineOf
        <4> QED BY <3>2, <4>1 DEF IdInv, HasLine
      <3> QED BY <2>1, <3>0, <3>1, <3>2, ReadFrom
    <2> QED BY <2>1, <2>2, <2>3 DEF SeenInv
  <1>4. ReaderStep => (\E b \in Buckets : ReadFile(b)) \/ events' = events
    BY DEF ReaderStep, BeginRead, Visit, PassOver, ReadRaises, Leaving, EndRead
  <1> QED BY <1>1, <1>2, <1>3, <1>4, ReaderMoves

LEMMA SeenCorrect == ReaderSpec => []SeenInv
  <1>1. ReaderInit => SeenInv
    BY EmptySeq DEF ReaderInit, SeenInv, ToSet
  <1> QED BY <1>1, SeenStep, ReaderTypeCorrect, ReadsDisturbNothing, IdCorrect, PlaceCorrect,
             AppendsOnce, PTL DEF ReaderSpec
\* One read of a file finds the lines by seq, the half-written one after all the others.
LEMMA ReadSorted ==
    ASSUME ReaderTypeOK, IdInv, OneLine, LastingSorted, WriteInv,
           visited \in Machines, NEW b \in Buckets, NEW f \in Views(visited, b),
           NEW k \in Readable(f), NEW l \in Readable(f), k < l
    PROVE  f[k].id # f[l].id /\ f[k].seq < f[l].seq
  <1> DEFINE g == file[visited][b]
  <1>0. /\ TypeOK
        /\ g \in Seq(Lines) /\ DOMAIN g = 1 .. Len(g) /\ Len(g) \in Nat
        /\ DOMAIN f = 1 .. Len(f) /\ Len(f) \in Nat
        /\ k \in DOMAIN f /\ l \in DOMAIN f
    BY ViewLines, LenProperties DEF ReaderTypeOK, TypeOK, Readable
  <1>1. k \in DOMAIN g /\ f[k] = g[k]
    <2>1. l \in DOMAIN g \/ l = Len(g) + 1
      BY ReadFrom
    <2>2. k \in DOMAIN g
      BY <1>0, <2>1
    <2>3. k # Len(g) + 1
      BY <1>0, <2>2
    <2> QED BY <2>2, <2>3, ReadFrom
  <1>2. Lasting(g, k)
    <2>1. f[k].part = "whole" /\ f[k].kind # "linesep" /\ (k > 1 => f[k - 1].part = "whole")
      BY <1>0 DEF Readable
    <2>2. k > 1 => k - 1 \in DOMAIN g
      BY <1>0, <1>1
    <2>3. k > 1 => f[k - 1] = g[k - 1]
      BY <1>0, <2>2, ViewLines
    <2> QED BY <1>1, <2>1, <2>3 DEF Lasting
  <1>3. CASE l \in DOMAIN g /\ f[l] = g[l]
    <2>1. g[k].seq < g[l].seq
      BY <1>1, <1>2, <1>3 DEF LastingSorted
    <2>2. g[k].id # g[l].id
      BY <1>0, <1>1, <1>3 DEF OneLine
    <2> QED BY <1>1, <1>3, <2>1, <2>2
  <1>4. ASSUME NEW w \in Writers, NEW part \in Parts, pc[w] = "write",
               event[w].machine = visited, event[w].bucket = b, f[l] = LineOf(w, part)
        PROVE  f[k].id # f[l].id /\ f[k].seq < f[l].seq
    <2>1. f[l].id = event[w].id /\ f[l].seq = seq[w]
      BY <1>4 DEF LineOf
    <2>2. g[k].seq < seq[w]
      BY <1>1, <1>2, <1>4 DEF WriteInv
    <2>3. g[k].id # event[w].id
      BY <1>1, <1>4 DEF IdInv, HasLine
    <2> QED BY <1>1, <2>1, <2>2, <2>3
  <1> QED BY <1>3, <1>4, ReadFrom

LEMMA OrderStep ==
    /\ ReaderTypeOK /\ IdInv /\ OneLine /\ LastingSorted /\ WriteInv
    /\ AheadInv /\ SeenInv /\ ReadInOrder
    /\ [ReaderNext]_systemVars
    => ReadInOrder'
  <1> SUFFICES ASSUME ReaderTypeOK, IdInv, OneLine, LastingSorted, WriteInv, AheadInv, SeenInv,
                      ReadInOrder, [ReaderNext]_systemVars
               PROVE  ReadInOrder'
    OBVIOUS
  <1>1. CASE events' = events
    BY <1>1 DEF ReadInOrder
  <1>2. ASSUME NEW b \in Buckets, ReadFile(b) PROVE ReadInOrder'
    <2>1. visited \in Machines /\ b \in months /\ reading = "months"
      BY <1>2 DEF ReadFile, NextOf, ReaderTypeOK
    <2>1a. PICK f \in Views(visited, b) : \E p \in Ascending(Readable(f)) :
             /\ events' \in Seq(Stored)
             /\ \A i \in DOMAIN events' :
                   \/ i \in DOMAIN events /\ events'[i] = events[i]
                   \/ /\ i - Len(events) \in DOMAIN p
                      /\ p[i - Len(events)] \in Readable(f)
                      /\ events'[i] = EventAt(b, f, p[i - Len(events)])
      BY <1>2, ReadEffect
    <2>2. PICK p \in Ascending(Readable(f)) :
             /\ events' \in Seq(Stored)
             /\ \A i \in DOMAIN events' :
                   \/ i \in DOMAIN events /\ events'[i] = events[i]
                   \/ /\ i - Len(events) \in DOMAIN p
                      /\ p[i - Len(events)] \in Readable(f)
                      /\ events'[i] = EventAt(b, f, p[i - Len(events)])
      BY <2>1a
    <2>3. /\ DOMAIN events = 1 .. Len(events) /\ Len(events) \in Nat
          /\ DOMAIN events' = 1 .. Len(events') /\ Len(events') \in Nat
      BY <2>2, LenProperties DEF ReaderTypeOK
    <2>4. /\ DOMAIN p = 1 .. Len(p) /\ Len(p) \in Nat
          /\ \A i, j \in DOMAIN p : i < j => p[i] < p[j]
      <3>1. f \in Seq(Lines)
        BY <2>1, ViewIs DEF ReaderTypeOK
      <3> QED BY <3>1, ReadableFinite, AscendingIs
    <2> SUFFICES ASSUME NEW i \in DOMAIN events', NEW j \in DOMAIN events', i < j
                 PROVE  LET x == events'[i]
                            y == events'[j]
                        IN  /\ x.id # y.id
                            /\ x.machine <= y.machine
                            /\ x.machine = y.machine => x.bucket <= y.bucket
                            /\ x.machine = y.machine /\ x.bucket = y.bucket => x.seq < y.seq
      BY DEF ReadInOrder
    <2> DEFINE x == events'[i]
               y == events'[j]
               n == Len(events)
    <2>5. CASE j \in DOMAIN events /\ y = events[j]
      <3>1. i \in DOMAIN events
        BY <2>3, <2>5
      <3>2. ~ i - n \in DOMAIN p
        BY <2>3, <2>4, <3>1
      <3>3. x = events[i]
        BY <2>2, <3>2
      <3> QED BY <2>5, <3>1, <3>3 DEF ReadInOrder
    <2>6. ASSUME j - n \in DOMAIN p, p[j - n] \in Readable(f), y = EventAt(b, f, p[j - n])
          PROVE  /\ x.id # y.id
                 /\ x.machine <= y.machine
                 /\ x.machine = y.machine => x.bucket <= y.bucket
                 /\ x.machine = y.machine /\ x.bucket = y.bucket => x.seq < y.seq
      <3>0. y.id = f[p[j - n]].id /\ y.machine = visited /\ y.bucket = b /\ y.seq = f[p[j - n]].seq
        BY <2>6 DEF EventAt
      <3>1. CASE i \in DOMAIN events /\ x = events[i]
        <4>1. x \in ToSet(events)
          BY <3>1 DEF ToSet
        <4>2. x.machine < visited \/ (x.machine = visited /\ x.bucket < b)
          BY <2>1, <4>1 DEF AheadInv
        <4>3. /\ x.machine \in Nat /\ x.bucket \in Nat /\ visited \in Nat /\ b \in Nat
          BY <2>1, <4>1, Numbers
        <4>4. ~ (x.machine = visited /\ x.bucket = b)
          BY <4>2, <4>3
        <4>5. x.id # y.id
          <5>1. ASSUME NEW k \in DOMAIN file[visited][b], file[visited][b][k].id = x.id
                PROVE  FALSE
            BY <2>1, <4>1, <4>4, <5>1 DEF SeenInv
          <5>2. ASSUME NEW w \in Writers, pc[w] = "write", event[w].machine = visited,
                       event[w].bucket = b, event[w].id = x.id
                PROVE  FALSE
            BY <4>1, <4>4, <5>2 DEF SeenInv
          <5>3. \A w \in Writers, part \in Parts : LineOf(w, part).id = event[w].id
            BY DEF LineOf
          <5> QED BY <2>1, <2>6, <3>0, <5>1, <5>2, <5>3, ReadFrom
        <4> QED BY <3>0, <4>2, <4>3, <4>5
      <3>2. ASSUME i - n \in DOMAIN p, p[i - n] \in Readable(f), x = EventAt(b, f, p[i - n])
            PROVE  /\ x.id # y.id /\ x.machine = visited /\ x.bucket = b
                   /\ x.seq < y.seq
        <4>1. i - n < j - n
          BY <2>3
        <4>2. p[i - n] < p[j - n]
          BY <2>4, <2>6, <3>2, <4>1
        <4>3. /\ f[p[i - n]].id # f[p[j - n]].id
              /\ f[p[i - n]].seq < f[p[j - n]].seq
          BY <2>1, <2>6, <3>2, <4>2, ReadSorted
        <4> QED BY <3>0, <3>2, <4>3 DEF EventAt
      <3>3. visited \in Nat /\ b \in Nat
        BY <2>1, Numbers
      <3> QED BY <2>2, <3>0, <3>1, <3>2, <3>3
    <2> QED BY <2>2, <2>5, <2>6
  <1>3. ReaderStep => (\E b \in Buckets : ReadFile(b)) \/ events' = events
    BY DEF ReaderStep, BeginRead, Visit, PassOver, ReadRaises, Leaving, EndRead
  <1>4. UNCHANGED readerVars => events' = events
    BY DEF readerVars
  <1> QED BY <1>1, <1>2, <1>3, <1>4, ReaderMoves

\* A read returns no event twice, and for each machine and month by seq, while appends
\* go on, crash and leave half a line behind it: only a scan that passes over a month
\* file can break that (store.py, read_all without the lock).
THEOREM ReadsInOrder == ASSUME "scanerror" \notin Faults PROVE ReaderSpec => []ReadInOrder
  <1>1. ReaderInit => ReadInOrder
    BY EmptySeq DEF ReaderInit, ReadInOrder
  <1>2. SeqInv => LastingSorted /\ WriteInv
    BY DEF SeqInv
  <1> QED BY <1>1, <1>2, OrderStep, ReaderTypeCorrect, ReadsDisturbNothing, SeqCorrect,
             IdCorrect, AppendsOnce, AheadCorrect, SeenCorrect, PTL DEF ReaderSpec

-----------------------------------------------------------------------------
(* Agreement with what appends return.                                      *)

\* A line that a reader may have seen in part gets into its file.
LEMMA WriterGoesOn ==
    ASSUME SeenStays, "midwrite" \in Faults, TypeOK, [Next]_vars,
           NEW w \in Writers, pc[w] = "write"
    PROVE  \/ pc'[w] = "write" /\ event'[w] = event[w] /\ seq'[w] = seq[w]
           \/ Write(w) \/ Tear(w)
  <1>1. \A v \in Writers : ~ Kill(v) /\ ~ WriteRaises(v)
    BY DEF SeenStays, Kill, WriteRaises
  <1>2. ~ PowerLoss
    BY DEF SeenStays, PowerLoss
  <1>3. ASSUME NEW e \in Events, Call(w, e) PROVE FALSE
    BY <1>3 DEF Call
  <1>4. ~ Acquire(w)
    BY DEF Acquire
  <1>5. CASE Rests(w)
    BY <1>5 DEF Rests
  <1>6. CASE Step(w)
    BY <1>1, <1>6 DEF Step, ScanFile, SkipFile, ScanRaises, Assign, AssignRaises, Sync,
                      SyncRaises, Return, Raise
  <1>7. ASSUME NEW v \in Writers, v # w,
               \/ \E e \in Events : Call(v, e)
               \/ Acquire(v) \/ Step(v) \/ Tear(v)
        PROVE  Rests(w)
    <2>1. CASE Return(v) \/ Raise(v) \/ Tear(v)
      BY <1>7, <2>1, RestsLeave DEF Return, Raise, Tear
    <2>2. CASE ~ (Return(v) \/ Raise(v) \/ Tear(v))
      BY <1>7, <2>2 DEF Call, Acquire, Step, ScanFile, SkipFile, ScanRaises, Assign,
                        AssignRaises, Write, WriteRaises, Sync, SyncRaises, TypeOK, Rests
    <2> QED BY <2>1, <2>2
  <1>8. ASSUME NEW m \in Machines, NEW b \in Buckets, WriteBack(m, b) PROVE Rests(w)
    BY <1>8 DEF WriteBack, writerVars, Rests
  <1>9. CASE UNCHANGED vars
    BY <1>9 DEF vars, writerVars, Rests
  <1> QED BY <1>1, <1>2, <1>3, <1>4, <1>5, <1>6, <1>7, <1>8, <1>9 DEF Next

\* A step of the store leaves a trace of every event that has been read.
LEMMA TraceKept ==
    ASSUME SeenStays, ReaderTypeOK, TraceInv, [Next]_vars, UNCHANGED readerVars
    PROVE  TraceInv'
  <1>0. TypeOK /\ events' = events
    BY DEF ReaderTypeOK, readerVars
  <1> SUFFICES ASSUME NEW x \in ToSet(events)
               PROVE  \/ \E i \in DOMAIN file'[x.machine][x.bucket] :
                           /\ file'[x.machine][x.bucket][i].id = x.id
                           /\ file'[x.machine][x.bucket][i].seq = x.seq
                      \/ /\ "midwrite" \in Faults
                         /\ \E w \in Writers :
                               /\ pc'[w] = "write" /\ seq'[w] = x.seq /\ event'[w].id = x.id
                               /\ event'[w].machine = x.machine /\ event'[w].bucket = x.bucket
    BY <1>0 DEF TraceInv
  <1>1. x.machine \in Machines /\ x.bucket \in Buckets
    BY Numbers
  <1>2. CASE \E i \in DOMAIN file[x.machine][x.bucket] :
                file[x.machine][x.bucket][i].id = x.id /\ file[x.machine][x.bucket][i].seq = x.seq
    <2>1. PICK m \in Machines, b \in Buckets : m = x.machine /\ b = x.bucket
      BY <1>1
    <2>2. \A i \in DOMAIN file[m][b] : i \in DOMAIN file'[m][b] /\ file'[m][b][i] = file[m][b][i]
      BY <1>0, FileGrows DEF SeenStays
    <2> QED BY <1>2, <2>1, <2>2
  <1>3. ASSUME "midwrite" \in Faults, NEW w \in Writers, pc[w] = "write", seq[w] = x.seq,
               event[w].id = x.id, event[w].machine = x.machine, event[w].bucket = x.bucket
        PROVE  \/ \E i \in DOMAIN file'[x.machine][x.bucket] :
                     /\ file'[x.machine][x.bucket][i].id = x.id
                     /\ file'[x.machine][x.bucket][i].seq = x.seq
               \/ /\ pc'[w] = "write" /\ seq'[w] = x.seq /\ event'[w].id = x.id
                  /\ event'[w].machine = x.machine /\ event'[w].bucket = x.bucket
    <2>1. CASE Write(w) \/ Tear(w)
      <3>1. PICK part \in Parts : Grows(x.machine, x.bucket, LineOf(w, part))
        BY <1>0, <1>3, <2>1, WriteEffect
      <3>2. LineOf(w, part).id = x.id /\ LineOf(w, part).seq = x.seq
        BY <1>3 DEF LineOf
      <3>3. Len(file[x.machine][x.bucket]) + 1 \in DOMAIN file'[x.machine][x.bucket]
        BY <3>1 DEF Grows
      <3> QED BY <3>1, <3>2, <3>3 DEF Grows
    <2>2. CASE ~ (Write(w) \/ Tear(w))
      BY <1>0, <1>3, <2>2, WriterGoesOn
    <2> QED BY <2>1, <2>2
  <1> QED BY <1>2, <1>3 DEF TraceInv

LEMMA TraceStep ==
    ASSUME SeenStays, ReaderTypeOK, TraceInv, [ReaderNext]_systemVars
    PROVE  TraceInv'
  <1>1. CASE [Next]_vars /\ UNCHANGED readerVars
    BY <1>1, TraceKept
  <1>2. CASE UNCHANGED vars /\ events' = events
    BY <1>2 DEF vars, diskVars, writerVars, TraceInv
  <1>3. ASSUME NEW b \in Buckets, ReadFile(b) PROVE TraceInv'
    <2>1. UNCHANGED <<file, pc, event, seq>> /\ visited \in Machines
      BY <1>3 DEF ReadFile, vars, diskVars, writerVars, ReaderTypeOK
    <2>2. PICK f \in Views(visited, b) : \A x \in ToSet(events') :
             x \in ToSet(events) \/ \E k \in Readable(f) : x = EventAt(b, f, k)
      BY <1>3, ReadEffect
    <2>3. ASSUME NEW x, NEW k \in Readable(f), x = EventAt(b, f, k)
          PROVE  \/ \E i \in DOMAIN file[x.machine][x.bucket] :
                       /\ file[x.machine][x.bucket][i].id = x.id
                       /\ file[x.machine][x.bucket][i].seq = x.seq
                 \/ /\ "midwrite" \in Faults
                    /\ \E w \in Writers :
                          /\ pc[w] = "write" /\ seq[w] = x.seq /\ event[w].id = x.id
                          /\ event[w].machine = x.machine /\ event[w].bucket = x.bucket
      <3>0. x.id = f[k].id /\ x.machine = visited /\ x.bucket = b /\ x.seq = f[k].seq
        BY <2>3 DEF EventAt
      <3>1. \A w \in Writers, part \in Parts :
               LineOf(w, part).id = event[w].id /\ LineOf(w, part).seq = seq[w]
        BY DEF LineOf
      <3> QED BY <2>1, <3>0, <3>1, ReadFrom
    <2> QED BY <2>1, <2>2, <2>3 DEF TraceInv
  <1>4. ReaderStep => (\E b \in Buckets : ReadFile(b)) \/ events' = events
    BY DEF ReaderStep, BeginRead, Visit, PassOver, ReadRaises, Leaving, EndRead
  <1> QED BY <1>1, <1>2, <1>3, <1>4, ReaderMoves

LEMMA AgreeFrom ==
    ASSUME ReaderTypeOK, KeptInv, IdInv, OneLine, LastingDistinct, WriteInv, TraceInv
    PROVE  ReadAgrees
  <1> SUFFICES ASSUME NEW x \in ToSet(events), NEW a \in acked, x.machine = a.machine,
                      x.id = a.id \/ x.seq = a.seq, Undamaged(a.machine)
               PROVE  x = a
    BY DEF ReadAgrees
  <1>0. TypeOK /\ x \in Stored /\ a \in Stored
    BY Numbers DEF ReaderTypeOK, TypeOK
  <1>1. PICK m \in Machines, b \in Buckets, c \in Buckets :
           m = a.machine /\ b = a.bucket /\ c = x.bucket
    BY <1>0 DEF Stored
  <1>2. PICK k \in 1 .. synced[m][b] : file[m][b][k].id = a.id /\ file[m][b][k].seq = a.seq
    BY <1>1 DEF KeptInv
  <1>3. k \in DOMAIN file[m][b]
    BY <1>0, <1>1, <1>2, LenProperties DEF TypeOK
  <1>4. \A d \in Buckets : \A i \in DOMAIN file[m][d] : Lasting(file[m][d], i)
    BY <1>1 DEF Undamaged, Readable, Lasting
  <1>5. ASSUME NEW i \in DOMAIN file[m][c], file[m][c][i].id = x.id, file[m][c][i].seq = x.seq
        PROVE  x = a
    <2>1. CASE x.id = a.id
      <3>1. b = c /\ i = k
        BY <1>1, <1>2, <1>3, <1>5, <2>1 DEF OneLine
      <3>2. x.seq = a.seq /\ x.bucket = a.bucket
        BY <1>1, <1>2, <1>5, <3>1
      <3> QED BY <1>0, <2>1, <3>2 DEF Stored
    <2>2. CASE x.seq = a.seq
      <3>1. Lasting(file[m][c], i) /\ Lasting(file[m][b], k)
        BY <1>1, <1>3, <1>4
      <3>2. b = c /\ i = k
        BY <1>1, <1>2, <1>3, <1>5, <2>2, <3>1 DEF LastingDistinct
      <3>3. x.id = a.id /\ x.bucket = a.bucket
        BY <1>1, <1>2, <1>5, <3>2
      <3> QED BY <1>0, <2>2, <3>3 DEF Stored
    <2> QED BY <2>1, <2>2
  <1>6. ASSUME NEW w \in Writers, pc[w] = "write", seq[w] = x.seq, event[w].id = x.id,
               event[w].machine = x.machine
        PROVE  FALSE
    <2>1. x.id # a.id
      BY <1>1, <1>2, <1>3, <1>6 DEF IdInv, HasLine
    <2>2. file[m][b][k].seq < seq[w]
      BY <1>1, <1>3, <1>4, <1>6 DEF WriteInv
    <2> QED BY <1>0, <1>2, <1>6, <2>1, <2>2 DEF Stored
  <1> QED BY <1>1, <1>5, <1>6 DEF TraceInv

\* What a read returns agrees with what append returned, on each machine whose lines are
\* whole: not another seq for an id, nor another id for a seq (store.py, read_all).
THEOREM ReadsAgree ==
    ASSUME SeenStays, "scanerror" \notin Faults
    PROVE  ReaderSpec => []ReadAgrees
  <1>1. ReaderInit => TraceInv
    BY EmptySeq DEF ReaderInit, TraceInv, ToSet
  <1>2. ReaderTypeOK /\ TraceInv /\ [ReaderNext]_systemVars => TraceInv'
    BY TraceStep
  <1>3. ReaderSpec => []TraceInv
    BY <1>1, <1>2, ReaderTypeCorrect, PTL DEF ReaderSpec
  <1>4. SeqInv => LastingDistinct /\ WriteInv
    BY DEF SeqInv
  <1>5. /\ ReaderTypeOK /\ KeptInv /\ IdInv /\ OneLine /\ LastingDistinct /\ WriteInv
        /\ TraceInv
        => ReadAgrees
    BY AgreeFrom
  <1> QED BY <1>3, <1>4, <1>5, ReaderTypeCorrect, ReadsDisturbNothing, SeqCorrect, IdCorrect,
             LinesStay, AppendsOnce, PTL
=============================================================================
