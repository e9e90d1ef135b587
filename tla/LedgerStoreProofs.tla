-------------------------- MODULE LedgerStoreProofs --------------------------
(***************************************************************************)
(* What holds of the write path for every number of writers, machines,     *)
(* months and appends; and that it implements the ledger on a reliable     *)
(* host that keeps its power.                                              *)
(***************************************************************************)
EXTENDS LedgerRefinement, SequenceTheorems, FiniteSetTheorems, TLAPS

USE DEF Free, MonthsToScan, NextSeq, WriteTo, SyncedBy

-----------------------------------------------------------------------------
(* Lines, scans and files.                                                  *)

\* The line of an append under way is a line.
LEMMA LineType ==
    ASSUME TypeOK, NEW w \in Writers, pc[w] # "idle", NEW part \in Parts
    PROVE  LineOf(w, part) \in Lines
  BY DEF TypeOK, LineOf, Lines, Events

LEMMA FragmentParts == ASSUME NEW k PROVE Fragments(k) \subseteq Parts
  BY DEF Fragments, Parts

\* One more line at the end of one file keeps the type of the files.
LEMMA AppendType ==
    ASSUME TypeOK, NEW m \in Machines, NEW b \in Buckets, NEW l \in Lines
    PROVE  LET file2 == [file EXCEPT ![m][b] = Append(@, l)]
           IN  /\ file2 \in [Machines -> [Buckets -> Seq(Lines)]]
               /\ \A n \in Machines, c \in Buckets : synced[n][c] <= Len(file2[n][c])
  <1> DEFINE file2 == [file EXCEPT ![m][b] = Append(@, l)]
  <1>1. file2 \in [Machines -> [Buckets -> Seq(Lines)]]
    BY DEF TypeOK
  <1>2. ASSUME NEW n \in Machines, NEW c \in Buckets
        PROVE  synced[n][c] <= Len(file2[n][c])
    <2>1. file[n][c] \in Seq(Lines) /\ synced[n][c] \in Nat /\ synced[n][c] <= Len(file[n][c])
      BY DEF TypeOK
    <2>2. file2[n][c] = file[n][c] \/ file2[n][c] = Append(file[n][c], l)
      BY DEF TypeOK
    <2>3. Len(Append(file[n][c], l)) = Len(file[n][c]) + 1 /\ Len(file[n][c]) \in Nat
      BY <2>1, AppendProperties, LenProperties
    <2> QED BY <2>1, <2>2, <2>3
  <1> QED BY <1>1, <1>2

\* The synced front of a file is a file.
LEMMA SyncedFront ==
    ASSUME TypeOK, NEW m \in Machines, NEW b \in Buckets
    PROVE  LET f == SubSeq(file[m][b], 1, synced[m][b])
           IN  /\ f \in Seq(Lines)
               /\ Len(f) = synced[m][b]
               /\ DOMAIN f = 1 .. synced[m][b]
               /\ \A i \in 1 .. synced[m][b] : i \in DOMAIN file[m][b] /\ f[i] = file[m][b][i]
  <1> DEFINE g == file[m][b]
             n == synced[m][b]
             f == SubSeq(g, 1, n)
  <1>1. g \in Seq(Lines) /\ n \in Nat /\ n <= Len(g)
    BY DEF TypeOK
  <1>2. Len(g) \in Nat /\ DOMAIN g = 1 .. Len(g) /\ \A i \in 1 .. Len(g) : g[i] \in Lines
    BY <1>1, LenProperties, ElementOfSeq
  <1>3. \A i \in 1 .. n : g[i] \in Lines
    BY <1>1, <1>2
  <1> HIDE DEF g, n
  <1>4. /\ f \in Seq(Lines)
        /\ Len(f) = IF 1 <= n THEN n - 1 + 1 ELSE 0
        /\ \A i \in 1 .. n - 1 + 1 : f[i] = g[1 + i - 1]
    BY <1>1, <1>3, SubSeqProperties
  <1>5. Len(f) = n /\ \A i \in 1 .. n : f[i] = g[i]
    BY <1>1, <1>4
  <1>6. DOMAIN f = 1 .. n
    BY <1>4, <1>5, LenProperties
  <1> QED BY <1>1, <1>2, <1>4, <1>5, <1>6 DEF g, n

\* The highest readable seq of a file is a natural number.
LEMMA ScanType ==
    ASSUME NEW f \in Seq(Lines), NEW h \in Nat \cup {-1},
           NEW n \in ReadableSeqs(f) \cup {h}
    PROVE  n \in Nat \cup {-1}
  <1>1. ReadableSeqs(f) \subseteq Nat
    <2>1. \A i \in DOMAIN f : f[i] \in Lines
      BY ElementOfSeq, LenProperties
    <2>2. \A i \in Readable(f) : f[i].seq \in Nat
      BY <2>1 DEF Readable, Lines
    <2> QED BY <2>2 DEF ReadableSeqs
  <1> QED BY <1>1

-----------------------------------------------------------------------------
(* Types.                                                                   *)

LEMMA TypeInit == Init => TypeOK
  BY EmptySeq DEF Init, TypeOK, Steps

LEMMA TypeLeave ==
    ASSUME TypeOK, NEW w \in Writers, Leave(w)
    PROVE  /\ pc' \in [Writers -> Steps]
           /\ event' \in [Writers -> Events \cup {NoEvent}]
           /\ \A v \in Writers : pc'[v] # "idle" => event'[v] \in Events
           /\ todo' \in [Writers -> SUBSET Buckets]
           /\ highest' \in [Writers -> Nat \cup {-1}]
           /\ seq' \in [Writers -> Nat]
           /\ before' \in [Writers -> SUBSET Stored]
  BY DEF TypeOK, Leave, Steps

LEMMA TypeStep == TypeOK /\ [Next]_vars => TypeOK'
  <1> SUFFICES ASSUME TypeOK, [Next]_vars PROVE TypeOK'
    OBVIOUS
  <1>1. ASSUME NEW w \in Writers, NEW e \in Events, Call(w, e) PROVE TypeOK'
    BY <1>1 DEF Call, TypeOK, Steps, Events
  <1>2. ASSUME NEW w \in Writers, Acquire(w) PROVE TypeOK'
    BY <1>2 DEF Acquire, TypeOK, Steps, diskVars, Events
  <1>3. ASSUME NEW w \in Writers, NEW b \in Buckets, ScanFile(w, b) PROVE TypeOK'
    <2> DEFINE f == file[event[w].machine][b]
    <2>1. event[w] \in Events /\ f \in Seq(Lines) /\ highest[w] \in Nat \cup {-1}
      BY <1>3 DEF ScanFile, TypeOK, Events
    <2>2. PICK h \in ReadableSeqs(f) \cup {highest[w]} : highest' = [highest EXCEPT ![w] = h]
      BY <1>3 DEF ScanFile
    <2>3. h \in Nat \cup {-1}
      BY <2>1, <2>2, ScanType
    <2> QED BY <1>3, <2>2, <2>3 DEF ScanFile, TypeOK, diskVars
  <1>4. ASSUME NEW w \in Writers, NEW b \in Buckets, SkipFile(w, b) PROVE TypeOK'
    BY <1>4 DEF SkipFile, TypeOK, diskVars
  <1>5. ASSUME NEW w \in Writers, NEW b \in Buckets, ScanRaises(w, b) PROVE TypeOK'
    BY <1>5 DEF ScanRaises, TypeOK, diskVars, Steps
  <1>6. ASSUME NEW w \in Writers, Assign(w) PROVE TypeOK'
    <2>1. event[w] \in Events /\ highest[w] \in Nat \cup {-1}
      BY <1>6 DEF Assign, TypeOK
    <2>2. highest[w] + 1 \in Nat
      BY <2>1
    <2>3. files' \in [Machines -> SUBSET Buckets]
      BY <1>6, <2>1 DEF Assign, TypeOK, Events
    <2>4. seq' \in [Writers -> Nat] /\ pc' \in [Writers -> Steps]
      BY <1>6, <2>2 DEF Assign, TypeOK, Steps
    <2> QED BY <1>6, <2>1, <2>3, <2>4 DEF Assign, TypeOK
  <1>7. ASSUME NEW w \in Writers, AssignRaises(w) PROVE TypeOK'
    BY <1>7 DEF AssignRaises, TypeOK, diskVars, Steps
  <1>8. ASSUME NEW w \in Writers, Write(w) PROVE TypeOK'
    <2>1. event[w] \in Events /\ pc[w] # "idle"
      BY <1>8 DEF Write, TypeOK
    <2>2. PICK part \in Parts :
            file' = [file EXCEPT ![event[w].machine][event[w].bucket] = Append(@, LineOf(w, part))]
      BY <1>8, FragmentParts DEF Write, Parts
    <2>3. LineOf(w, part) \in Lines /\ event[w].machine \in Machines /\ event[w].bucket \in Buckets
      BY <2>1, LineType DEF Events
    <2>4. /\ file' \in [Machines -> [Buckets -> Seq(Lines)]]
          /\ \A m \in Machines, b \in Buckets : synced[m][b] <= Len(file'[m][b])
      BY <2>2, <2>3, AppendType
    <2> QED BY <1>8, <2>4 DEF Write, TypeOK, Steps
  <1>9. ASSUME NEW w \in Writers, WriteRaises(w) PROVE TypeOK'
    BY <1>9 DEF WriteRaises, TypeOK, diskVars, Steps
  <1>10. ASSUME NEW w \in Writers, Sync(w) PROVE TypeOK'
    <2>1. event[w].machine \in Machines /\ event[w].bucket \in Buckets
      BY <1>10 DEF Sync, TypeOK, Events
    <2>2. Len(file[event[w].machine][event[w].bucket]) \in Nat
      BY <2>1, LenProperties DEF TypeOK
    <2>3. /\ synced' \in [Machines -> [Buckets -> Nat]]
          /\ \A m \in Machines, b \in Buckets : synced'[m][b] <= Len(file[m][b])
      BY <1>10, <2>1, <2>2, SMTT(30) DEF Sync, TypeOK
    <2> QED BY <1>10, <2>3 DEF Sync, TypeOK, Steps
  <1>11. ASSUME NEW w \in Writers, SyncRaises(w) PROVE TypeOK'
    BY <1>11 DEF SyncRaises, TypeOK, diskVars, Steps
  <1>12. ASSUME NEW w \in Writers, Return(w) PROVE TypeOK'
    <2>1. [id |-> event[w].id, machine |-> event[w].machine,
           bucket |-> event[w].bucket, seq |-> seq[w]] \in Stored
      BY <1>12 DEF Return, TypeOK, Events, Stored
    <2> QED BY <1>12, <2>1, TypeLeave DEF Return, Unlock, TypeOK, diskVars
  <1>13. ASSUME NEW w \in Writers, Raise(w) PROVE TypeOK'
    BY <1>13, TypeLeave DEF Raise, Unlock, TypeOK, diskVars
  <1>14. ASSUME NEW w \in Writers, Kill(w) PROVE TypeOK'
    BY <1>14, TypeLeave DEF Kill, Unlock, TypeOK, diskVars
  <1>15. ASSUME NEW w \in Writers, Tear(w) PROVE TypeOK'
    <2>1. event[w] \in Events /\ pc[w] # "idle"
      BY <1>15 DEF Tear, TypeOK
    <2>2. PICK part \in Parts :
            file' = [file EXCEPT ![event[w].machine][event[w].bucket] = Append(@, LineOf(w, part))]
      BY <1>15, FragmentParts DEF Tear
    <2>3. LineOf(w, part) \in Lines /\ event[w].machine \in Machines /\ event[w].bucket \in Buckets
      BY <2>1, LineType DEF Events
    <2>4. /\ file' \in [Machines -> [Buckets -> Seq(Lines)]]
          /\ \A m \in Machines, b \in Buckets : synced[m][b] <= Len(file'[m][b])
      BY <2>2, <2>3, AppendType
    <2> QED BY <1>15, <2>4, TypeLeave DEF Tear, Unlock, TypeOK
  <1>16. ASSUME NEW m \in Machines, NEW b \in Buckets, WriteBack(m, b) PROVE TypeOK'
    <2>1. Len(file[m][b]) \in Nat
      BY LenProperties DEF TypeOK
    <2>2. /\ synced' \in [Machines -> [Buckets -> Nat]]
          /\ \A n \in Machines, c \in Buckets : synced'[n][c] <= Len(file[n][c])
      BY <1>16, <2>1 DEF WriteBack, TypeOK
    <2> QED BY <1>16, <2>2 DEF WriteBack, TypeOK, writerVars
  <1>17. CASE PowerLoss
    <2>1. /\ file' \in [Machines -> [Buckets -> Seq(Lines)]]
          /\ \A m \in Machines, b \in Buckets : synced[m][b] <= Len(file'[m][b])
      <3>1. ASSUME NEW m \in Machines, NEW b \in Buckets
            PROVE  /\ SubSeq(file[m][b], 1, synced[m][b]) \in Seq(Lines)
                   /\ synced[m][b] <= Len(SubSeq(file[m][b], 1, synced[m][b]))
        BY SyncedFront DEF TypeOK
      <3> QED BY <1>17, <3>1 DEF PowerLoss
    <2> QED BY <1>17, <2>1 DEF PowerLoss, TypeOK, Steps
  <1>18. CASE UNCHANGED vars
    BY <1>18 DEF vars, diskVars, writerVars, TypeOK
  <1> QED
    BY <1>1, <1>2, <1>3, <1>4, <1>5, <1>6, <1>7, <1>8, <1>9, <1>10, <1>11, <1>12,
       <1>13, <1>14, <1>15, <1>16, <1>17, <1>18 DEF Next, Step

\* Every variable keeps its type, whatever the faults.
THEOREM TypeCorrect == Spec => []TypeOK
  BY TypeInit, TypeStep, PTL DEF Spec

-----------------------------------------------------------------------------
(* The lock.                                                                *)

LEMMA LockInit == Init => LockInv
  BY DEF Init, LockInv, Critical

LEMMA LockLeave ==
    ASSUME TypeOK, LockInv, NEW w \in Writers, Leave(w), Unlock(w)
    PROVE  LockInv'
  <1> SUFFICES ASSUME NEW v \in Writers, pc'[v] \in Critical
               PROVE  lock'[event'[v].machine] = v
    BY DEF LockInv
  <1>1. v # w
    BY DEF Leave, TypeOK, Critical
  <1>2. pc[v] \in Critical /\ event'[v] = event[v]
    BY <1>1 DEF Leave, TypeOK
  <1>3. event[v].machine \in Machines /\ lock[event[v].machine] = v
    BY <1>2 DEF LockInv, TypeOK, Critical, Events
  <1> QED BY <1>1, <1>2, <1>3 DEF Unlock

LEMMA LockStep == TypeOK /\ LockInv /\ [Next]_vars => LockInv'
  <1> SUFFICES ASSUME TypeOK, LockInv, [Next]_vars PROVE LockInv'
    OBVIOUS
  <1> USE DEF LockInv, Critical
  <1>1. ASSUME NEW w \in Writers, NEW e \in Events, Call(w, e) PROVE LockInv'
    BY <1>1 DEF Call, TypeOK
  <1>2. ASSUME NEW w \in Writers, Acquire(w) PROVE LockInv'
    <2> SUFFICES ASSUME NEW v \in Writers, pc'[v] \in Critical
                 PROVE  lock'[event'[v].machine] = v
      OBVIOUS
    <2>1. event[w].machine \in Machines
      BY <1>2 DEF Acquire, TypeOK, Events
    <2>2. CASE v = w
      BY <1>2, <2>1, <2>2 DEF Acquire, TypeOK
    <2>3. CASE v # w
      <3>1. pc[v] \in Critical /\ lock[event[v].machine] = v
        BY <1>2, <2>3 DEF Acquire, TypeOK
      <3>2. event[v].machine # event[w].machine
        BY <1>2, <3>1, ConstantsAssumption DEF Acquire
      <3> QED BY <1>2, <3>1, <3>2 DEF Acquire, TypeOK
    <2> QED BY <2>2, <2>3
  <1>3. ASSUME NEW w \in Writers, Step(w), ~ Return(w), ~ Raise(w) PROVE LockInv'
    <2>1. /\ lock' = lock /\ event' = event
          /\ \A v \in Writers : pc'[v] \in Critical => pc[v] \in Critical
      BY <1>3 DEF Step, ScanFile, SkipFile, ScanRaises, Assign, AssignRaises, Write,
                  WriteRaises, Sync, SyncRaises, TypeOK
    <2> QED BY <2>1
  <1>4. ASSUME NEW w \in Writers, Return(w) \/ Raise(w) \/ Kill(w) \/ Tear(w) PROVE LockInv'
    BY <1>4, LockLeave DEF Return, Raise, Kill, Tear
  <1>5. ASSUME NEW m \in Machines, NEW b \in Buckets, WriteBack(m, b) PROVE LockInv'
    BY <1>5 DEF WriteBack, writerVars
  <1>6. CASE PowerLoss
    BY <1>6 DEF PowerLoss
  <1>7. CASE UNCHANGED vars
    BY <1>7 DEF vars, writerVars
  <1> QED BY <1>1, <1>2, <1>3, <1>4, <1>5, <1>6, <1>7 DEF Next

LEMMA LockCorrect == Spec => []LockInv
  BY TypeCorrect, LockInit, LockStep, PTL DEF Spec

\* No two appends are in the critical section of one machine, whatever raises,
\* dies or loses its bytes.
THEOREM Exclusion == Spec => []MutualExclusion
  <1>1. LockInv => MutualExclusion
    BY DEF LockInv, MutualExclusion
  <1> QED BY <1>1, LockCorrect, PTL

-----------------------------------------------------------------------------
(* What a step does to the files.                                           *)

LEMMA FileChange ==
    ASSUME [Next]_vars
    PROVE  \/ file' = file
           \/ \E w \in Writers : Write(w) \/ Tear(w)
           \/ PowerLoss
  <1>1. ASSUME NEW w \in Writers, Step(w) PROVE file' = file \/ Write(w)
    BY <1>1 DEF Step, ScanFile, SkipFile, ScanRaises, Assign, AssignRaises, WriteRaises, Sync,
                SyncRaises, Return, Raise, diskVars
  <1> QED BY <1>1 DEF Next, Call, Acquire, Kill, WriteBack, vars, diskVars

LEMMA SyncedChange ==
    ASSUME [Next]_vars
    PROVE  \/ synced' = synced
           \/ \E w \in Writers : Sync(w)
           \/ \E m \in Machines, b \in Buckets : WriteBack(m, b)
  <1>1. ASSUME NEW w \in Writers, Step(w) PROVE synced' = synced \/ Sync(w)
    BY <1>1 DEF Step, ScanFile, SkipFile, ScanRaises, Assign, AssignRaises, Write, WriteRaises,
                SyncRaises, Return, Raise, diskVars
  <1> QED BY <1>1 DEF Next, Call, Acquire, Kill, Tear, PowerLoss, vars, diskVars

LEMMA AckedChange ==
    ASSUME [Next]_vars
    PROVE  acked' = acked \/ \E w \in Writers : Return(w)
  <1>1. ASSUME NEW w \in Writers, Step(w) PROVE acked' = acked \/ Return(w)
    BY <1>1 DEF Step, ScanFile, SkipFile, ScanRaises, Assign, AssignRaises, Write, WriteRaises,
                Sync, SyncRaises, Raise
  <1> QED BY <1>1 DEF Next, Call, Acquire, Kill, Tear, WriteBack, PowerLoss, vars

\* The line l joins the end of file[m][b], and nothing else changes in the files.
Grows(m, b, l) ==
    /\ \A n \in Machines, c \in Buckets : n # m \/ c # b => file'[n][c] = file[n][c]
    /\ Len(file[m][b]) \in Nat
    /\ DOMAIN file[m][b] = 1 .. Len(file[m][b])
    /\ Len(file'[m][b]) = Len(file[m][b]) + 1
    /\ DOMAIN file'[m][b] = 1 .. Len(file[m][b]) + 1
    /\ \A i \in DOMAIN file[m][b] : file'[m][b][i] = file[m][b][i]
    /\ file'[m][b][Len(file[m][b]) + 1] = l

LEMMA AppendEffect ==
    ASSUME TypeOK, NEW m \in Machines, NEW b \in Buckets, NEW l \in Lines,
           file' = [file EXCEPT ![m][b] = Append(file[m][b], l)]
    PROVE  Grows(m, b, l)
  <1>1. file[m][b] \in Seq(Lines)
    BY DEF TypeOK
  <1>2. file'[m][b] = Append(file[m][b], l)
    BY DEF TypeOK
  <1>3. \A n \in Machines, c \in Buckets : n # m \/ c # b => file'[n][c] = file[n][c]
    BY DEF TypeOK
  <1>4. Append(file[m][b], l) \in Seq(Lines)
    BY <1>1, AppendProperties
  <1> QED BY <1>1, <1>2, <1>3, <1>4, AppendProperties, LenProperties DEF Grows

\* What PowerLoss leaves.
LEMMA PowerEffect ==
    ASSUME TypeOK, PowerLoss, NEW m \in Machines, NEW b \in Buckets
    PROVE  /\ DOMAIN file'[m][b] = 1 .. synced[m][b]
           /\ Len(file'[m][b]) = synced[m][b]
           /\ \A i \in DOMAIN file'[m][b] :
                 i \in DOMAIN file[m][b] /\ file'[m][b][i] = file[m][b][i]
  <1>1. file'[m][b] = SubSeq(file[m][b], 1, synced[m][b])
    BY DEF PowerLoss
  <1> QED BY <1>1, SyncedFront

\* Of the steps that change what is synced, none makes it less.
LEMMA SyncedGrows ==
    ASSUME TypeOK, [Next]_vars, NEW m \in Machines, NEW b \in Buckets
    PROVE  synced[m][b] <= synced'[m][b]
  <1>0. synced[m][b] \in Nat /\ synced[m][b] <= Len(file[m][b]) /\ Len(file[m][b]) \in Nat
    BY LenProperties DEF TypeOK
  <1>1. ASSUME NEW w \in Writers, Sync(w) PROVE synced[m][b] <= synced'[m][b]
    <2>1. synced'[m][b] = synced[m][b] \/ synced'[m][b] = Len(file[m][b])
      BY <1>1 DEF Sync, TypeOK, Events
    <2> QED BY <1>0, <2>1
  <1>2. ASSUME NEW n \in Machines, NEW c \in Buckets, WriteBack(n, c)
        PROVE  synced[m][b] <= synced'[m][b]
    <2>1. synced'[m][b] = synced[m][b] \/ synced'[m][b] = synced[m][b] + 1
      BY <1>2 DEF WriteBack, TypeOK
    <2> QED BY <1>0, <2>1
  <1> QED BY <1>0, <1>1, <1>2, SyncedChange

\* The line that Write or Tear adds.
LEMMA WriteEffect ==
    ASSUME TypeOK, NEW w \in Writers, Write(w) \/ Tear(w)
    PROVE  /\ event[w] \in Events
           /\ event[w].machine \in Machines /\ event[w].bucket \in Buckets
           /\ \E part \in Parts : Grows(event[w].machine, event[w].bucket, LineOf(w, part))
  <1>1. event[w] \in Events /\ pc[w] # "idle"
    BY DEF Write, Tear, TypeOK
  <1>2. event[w].machine \in Machines /\ event[w].bucket \in Buckets
    BY <1>1 DEF Events
  <1>3. PICK part \in Parts :
            file' = [file EXCEPT ![event[w].machine][event[w].bucket] = Append(@, LineOf(w, part))]
    BY FragmentParts DEF Write, Tear, Parts
  <1>4. LineOf(w, part) \in Lines
    BY <1>1, LineType
  <1>5. ASSUME NEW m \in Machines, NEW b \in Buckets, NEW l \in Lines,
               file' = [file EXCEPT ![m][b] = Append(@, l)]
        PROVE  Grows(m, b, l)
    BY <1>5, AppendEffect
  <1> QED BY <1>1, <1>2, <1>3, <1>4, <1>5

LEMMA KeepsSyncedStep == TypeOK /\ [Next]_vars => KeepsSynced
  <1> SUFFICES ASSUME TypeOK, [Next]_vars, NEW m \in Machines, NEW b \in Buckets
               PROVE  /\ synced[m][b] <= Len(file'[m][b])
                      /\ \A i \in 1 .. synced[m][b] : file'[m][b][i] = file[m][b][i]
    BY DEF KeepsSynced
  <1>0. /\ synced[m][b] \in Nat /\ Len(file[m][b]) \in Nat
        /\ synced[m][b] <= Len(file[m][b])
        /\ DOMAIN file[m][b] = 1 .. Len(file[m][b])
    BY LenProperties DEF TypeOK
  <1>1. CASE file' = file
    BY <1>0, <1>1
  <1>2. ASSUME NEW w \in Writers, Write(w) \/ Tear(w)
        PROVE  /\ synced[m][b] <= Len(file'[m][b])
               /\ \A i \in 1 .. synced[m][b] : file'[m][b][i] = file[m][b][i]
    <2>1. PICK part \in Parts : Grows(event[w].machine, event[w].bucket, LineOf(w, part))
      BY <1>2, WriteEffect
    <2>2. CASE m = event[w].machine /\ b = event[w].bucket
      <3>1. Grows(m, b, LineOf(w, part))
        BY <2>1, <2>2
      <3>2. Len(file'[m][b]) = Len(file[m][b]) + 1
        BY <3>1 DEF Grows
      <3>3. DOMAIN file[m][b] = 1 .. Len(file[m][b])
        BY <3>1 DEF Grows
      <3>4. \A i \in 1 .. Len(file[m][b]) : file'[m][b][i] = file[m][b][i]
        BY <3>1, <3>3 DEF Grows
      <3>5. synced[m][b] <= Len(file'[m][b])
        BY <1>0, <3>2
      <3>6. \A i \in 1 .. synced[m][b] : i \in 1 .. Len(file[m][b])
        BY <1>0
      <3> QED BY <3>4, <3>5, <3>6
    <2>3. CASE ~ (m = event[w].machine /\ b = event[w].bucket)
      <3>1. file'[m][b] = file[m][b]
        BY <2>1, <2>3 DEF Grows
      <3> QED BY <1>0, <3>1
    <2> QED BY <2>2, <2>3
  <1>3. CASE PowerLoss
    BY <1>0, <1>3, PowerEffect
  <1> QED BY <1>1, <1>2, <1>3, FileChange

\* Synced lines stay where they are, in every file, whatever happens.
THEOREM SyncedStays == Spec => DurableAppendOnly
  BY KeepsSyncedStep, TypeCorrect, PTL DEF Spec, DurableAppendOnly

-----------------------------------------------------------------------------
(* What a step does to a writer.                                            *)

\* w stays where it is.
Rests(w) ==
    /\ pc'[w] = pc[w] /\ event'[w] = event[w] /\ todo'[w] = todo[w]
    /\ highest'[w] = highest[w] /\ seq'[w] = seq[w] /\ before'[w] = before[w]

LEMMA RestsLeave ==
    ASSUME TypeOK, NEW v \in Writers, NEW w \in Writers, v # w, Leave(v)
    PROVE  Rests(w)
  BY DEF TypeOK, Leave, Rests

\* A writer moves by its own steps or with the host.
LEMMA Moves ==
    ASSUME TypeOK, [Next]_vars, NEW w \in Writers
    PROVE  \/ Rests(w)
           \/ \E e \in Events : Call(w, e)
           \/ Acquire(w) \/ Step(w)
           \/ pc'[w] = "idle" /\ before'[w] = {}
  <1>1. ASSUME NEW v \in Writers, v # w, NEW e \in Events, Call(v, e) PROVE Rests(w)
    BY <1>1 DEF Call, TypeOK, Rests
  <1>2. ASSUME NEW v \in Writers, v # w, Acquire(v) PROVE Rests(w)
    BY <1>2 DEF Acquire, TypeOK, Rests
  <1>3. ASSUME NEW v \in Writers, v # w, Step(v) PROVE Rests(w)
    <2>1. CASE Return(v) \/ Raise(v)
      BY <1>3, <2>1, RestsLeave DEF Return, Raise
    <2>2. CASE ~ (Return(v) \/ Raise(v))
      BY <1>3, <2>2 DEF Step, ScanFile, SkipFile, ScanRaises, Assign, AssignRaises, Write,
                        WriteRaises, Sync, SyncRaises, TypeOK, Rests
    <2> QED BY <2>1, <2>2
  <1>4. ASSUME NEW v \in Writers, Kill(v) \/ Tear(v)
        PROVE  Rests(w) \/ (pc'[w] = "idle" /\ before'[w] = {})
    <2>1. Leave(v)
      BY <1>4 DEF Kill, Tear
    <2>2. v = w => pc'[w] = "idle" /\ before'[w] = {}
      BY <2>1 DEF Leave, TypeOK
    <2> QED BY <2>1, <2>2, RestsLeave
  <1>5. ASSUME NEW m \in Machines, NEW b \in Buckets, WriteBack(m, b) PROVE Rests(w)
    BY <1>5 DEF WriteBack, writerVars, Rests
  <1>6. CASE PowerLoss
    BY <1>6 DEF PowerLoss
  <1>7. CASE UNCHANGED vars
    BY <1>7 DEF vars, writerVars, Rests
  <1> QED BY <1>1, <1>2, <1>3, <1>4, <1>5, <1>6, <1>7 DEF Next

\* How a writer comes to each step of the critical section.
LEMMA Entering ==
    ASSUME TypeOK, [Next]_vars, NEW w \in Writers, ~ Rests(w)
    PROVE  /\ pc'[w] = "scan" =>
                 Acquire(w) \/ \E b \in Buckets : ScanFile(w, b) \/ SkipFile(w, b)
           /\ pc'[w] = "write" => Assign(w)
           /\ pc'[w] = "sync" => Write(w)
           /\ pc'[w] = "done" => Sync(w)
  <1>1. ASSUME NEW e \in Events, Call(w, e) PROVE pc'[w] = "wait"
    BY <1>1 DEF Call, TypeOK
  <1>2. CASE Acquire(w)
    BY <1>2 DEF Acquire, TypeOK
  <1>3. CASE Step(w)
    BY <1>3 DEF Step, ScanFile, SkipFile, ScanRaises, Assign, AssignRaises, Write,
                WriteRaises, Sync, SyncRaises, Return, Raise, Leave, TypeOK
  <1> QED BY <1>1, <1>2, <1>3, Moves

-----------------------------------------------------------------------------
(* The seqs.                                                                *)

\* No writer is in the critical section of a machine while another writes there.
LEMMA WriterAlone ==
    ASSUME TypeOK, LockInv, NEW v \in Writers, NEW w \in Writers, v # w,
           pc[v] \in Critical, pc[w] \in Critical
    PROVE  event[v].machine # event[w].machine
  BY DEF LockInv

\* On a reliable system a step that adds a line is a Write, and its line is sound.
LEMMA ReliableWrite ==
    ASSUME Reliable, TypeOK, NEW w \in Writers, Write(w) \/ Tear(w)
    PROVE  /\ Write(w)
           /\ event[w] \in Events
           /\ event[w].machine \in Machines /\ event[w].bucket \in Buckets
           /\ Grows(event[w].machine, event[w].bucket, LineOf(w, "whole"))
           /\ Sound(LineOf(w, "whole"))
  <1>1. Write(w)
    BY DEF Reliable, Tear
  <1>2. event[w] \in Events /\ pc[w] # "idle"
    BY <1>1 DEF Write, TypeOK
  <1>3. event[w].machine \in Machines /\ event[w].bucket \in Buckets
    BY <1>2 DEF Events
  <1>4. file' = [file EXCEPT ![event[w].machine][event[w].bucket] = Append(@, LineOf(w, "whole"))]
    BY <1>1 DEF Write, Reliable
  <1>5. LineOf(w, "whole") \in Lines
    BY <1>2, LineType DEF Parts
  <1>6. ASSUME NEW m \in Machines, NEW b \in Buckets, NEW l \in Lines,
               file' = [file EXCEPT ![m][b] = Append(@, l)]
        PROVE  Grows(m, b, l)
    BY <1>6, AppendEffect
  <1>7. Sound(LineOf(w, "whole"))
    BY <1>2 DEF Reliable, Sound, LineOf, Events
  <1> QED BY <1>1, <1>2, <1>3, <1>4, <1>5, <1>6, <1>7

\* A line of a file after a step was there before it, or is the one that an append
\* has just added, or a part of it.
LEMMA LineOrigin ==
    ASSUME TypeOK, [Next]_vars,
           NEW m \in Machines, NEW b \in Buckets, NEW i \in DOMAIN file'[m][b]
    PROVE  \/ i \in DOMAIN file[m][b] /\ file'[m][b][i] = file[m][b][i]
           \/ \E w \in Writers, part \in Parts :
                /\ Write(w) \/ Tear(w)
                /\ event[w] \in Events
                /\ m = event[w].machine /\ b = event[w].bucket
                /\ i = Len(file[m][b]) + 1
                /\ file'[m][b][i] = LineOf(w, part)
  <1>1. CASE file' = file
    BY <1>1
  <1>2. ASSUME NEW w \in Writers, Write(w) \/ Tear(w)
        PROVE  \/ i \in DOMAIN file[m][b] /\ file'[m][b][i] = file[m][b][i]
               \/ \E part \in Parts :
                  /\ event[w] \in Events
                  /\ m = event[w].machine /\ b = event[w].bucket
                  /\ i = Len(file[m][b]) + 1
                  /\ file'[m][b][i] = LineOf(w, part)
    <2>0. event[w] \in Events
      BY <1>2, WriteEffect
    <2>1. PICK part \in Parts : Grows(event[w].machine, event[w].bucket, LineOf(w, part))
      BY <1>2, WriteEffect
    <2>2. CASE m = event[w].machine /\ b = event[w].bucket
      <3>1. Grows(m, b, LineOf(w, part))
        BY <2>1, <2>2
      <3>2. i \in 1 .. Len(file[m][b]) + 1 /\ Len(file[m][b]) \in Nat
        BY <3>1 DEF Grows
      <3>3. CASE i = Len(file[m][b]) + 1
        BY <2>0, <2>2, <3>1, <3>3 DEF Grows
      <3>4. CASE i # Len(file[m][b]) + 1
        <4>1. i \in DOMAIN file[m][b]
          BY <3>1, <3>2, <3>4 DEF Grows
        <4> QED BY <3>1, <4>1 DEF Grows
      <3> QED BY <3>3, <3>4
    <2>3. CASE ~ (m = event[w].machine /\ b = event[w].bucket)
      <3>1. file'[m][b] = file[m][b]
        BY <2>1, <2>3 DEF Grows
      <3> QED BY <3>1
    <2> QED BY <2>2, <2>3
  <1>3. CASE PowerLoss
    BY <1>3, PowerEffect
  <1> QED BY <1>1, <1>2, <1>3, FileChange

LEMMA SoundStep ==
    ASSUME Reliable, TypeOK, AllSound, [Next]_vars
    PROVE  AllSound'
  <1> SUFFICES ASSUME NEW m \in Machines, NEW b \in Buckets, NEW i \in DOMAIN file'[m][b]
               PROVE  Sound(file'[m][b][i])
    BY DEF AllSound
  <1>1. CASE i \in DOMAIN file[m][b] /\ file'[m][b][i] = file[m][b][i]
    BY <1>1 DEF AllSound
  <1>2. ASSUME NEW w \in Writers, Write(w) \/ Tear(w), m = event[w].machine,
               b = event[w].bucket, i = Len(file[m][b]) + 1
        PROVE  Sound(file'[m][b][i])
    BY <1>2, ReliableWrite DEF Grows
  <1> QED BY <1>1, <1>2, LineOrigin

\* When every line is sound a scan and a reader see every line.
LEMMA AllReadable ==
    ASSUME NEW f \in Seq(Lines), \A i \in DOMAIN f : Sound(f[i])
    PROVE  Readable(f) = DOMAIN f
  <1>1. DOMAIN f = 1 .. Len(f) /\ Len(f) \in Nat
    BY LenProperties
  <1>2. ASSUME NEW i \in DOMAIN f PROVE i \in Readable(f)
    <2>1. i > 1 => i - 1 \in DOMAIN f
      BY <1>1
    <2> QED BY <2>1 DEF Readable, Sound
  <1> QED BY <1>2 DEF Readable

LEMMA LastingReadable ==
    ASSUME NEW f, NEW i \in DOMAIN f, Lasting(f, i)
    PROVE  i \in Readable(f)
  BY DEF Lasting, Readable

LEMMA SoundLasting ==
    ASSUME TypeOK, AllSound, NEW m \in Machines, NEW b \in Buckets, NEW i \in DOMAIN file[m][b]
    PROVE  Lasting(file[m][b], i)
  <1>1. DOMAIN file[m][b] = 1 .. Len(file[m][b]) /\ Len(file[m][b]) \in Nat
    BY LenProperties DEF TypeOK
  <1>2. i > 1 => i - 1 \in DOMAIN file[m][b]
    BY <1>1
  <1> QED BY <1>2 DEF AllSound, Sound, Lasting

\* What stays of a file is read as before.
LEMMA LastingBefore ==
    ASSUME TypeOK, [Next]_vars, NEW m \in Machines, NEW b \in Buckets,
           NEW i \in DOMAIN file[m][b], i \in DOMAIN file'[m][b]
    PROVE  /\ file'[m][b][i] = file[m][b][i]
           /\ Lasting(file'[m][b], i) <=> Lasting(file[m][b], i)
  <1>0. /\ DOMAIN file[m][b] = 1 .. Len(file[m][b]) /\ Len(file[m][b]) \in Nat
        /\ DOMAIN file'[m][b] = 1 .. Len(file'[m][b]) /\ Len(file'[m][b]) \in Nat
    BY TypeStep, LenProperties DEF TypeOK
  <1>1. ASSUME NEW k \in DOMAIN file[m][b], k \in DOMAIN file'[m][b]
        PROVE  file'[m][b][k] = file[m][b][k]
    <2>1. k # Len(file[m][b]) + 1
      BY <1>0
    <2> QED BY <1>1, <2>1, LineOrigin
  <1>2. i > 1 => i - 1 \in DOMAIN file[m][b] /\ i - 1 \in DOMAIN file'[m][b]
    BY <1>0
  <1>3. i > 1 => file'[m][b][i - 1] = file[m][b][i - 1]
    BY <1>1, <1>2
  <1> QED BY <1>1, <1>3 DEF Lasting

LEMMA SoundReadable ==
    ASSUME TypeOK, AllSound, NEW m \in Machines, NEW b \in Buckets
    PROVE  Readable(file[m][b]) = DOMAIN file[m][b]
  BY AllReadable DEF TypeOK, AllSound

LEMMA FilesStep ==
    ASSUME TypeOK, FilesInv, [Next]_vars
    PROVE  FilesInv'
  <1>1. \A m \in Machines : files[m] \subseteq files'[m]
    <2>1. files' = files \/ \E w \in Writers : Assign(w)
      <3>1. ASSUME NEW w \in Writers, Step(w) PROVE files' = files \/ Assign(w)
        BY <3>1 DEF Step, ScanFile, SkipFile, ScanRaises, AssignRaises, Write, WriteRaises,
                    Sync, SyncRaises, Return, Raise, diskVars
      <3> QED BY <3>1 DEF Next, Call, Acquire, Kill, Tear, WriteBack, PowerLoss, vars, diskVars
    <2>2. ASSUME NEW w \in Writers, Assign(w)
          PROVE  \A m \in Machines : files[m] \subseteq files'[m]
      BY <2>2 DEF Assign, TypeOK
    <2> QED BY <2>1, <2>2
  <1>2. ASSUME NEW m \in Machines, NEW b \in Buckets, file'[m][b] # <<>>
        PROVE  b \in files'[m]
    <2>1. file[m][b] \in Seq(Lines) /\ file'[m][b] \in Seq(Lines)
      BY TypeStep DEF TypeOK
    <2>2. 1 \in DOMAIN file'[m][b]
      BY <1>2, <2>1, LenProperties, EmptySeq
    <2>3. CASE 1 \in DOMAIN file[m][b]
      <3>1. file[m][b] # <<>>
        BY <2>3, EmptySeq, LenProperties
      <3> QED BY <1>1, <3>1 DEF FilesInv
    <2>4. CASE \E w \in Writers : /\ Write(w) \/ Tear(w)
                                  /\ m = event[w].machine /\ b = event[w].bucket
      BY <1>1, <2>4 DEF FilesInv, Write, Tear
    <2> QED BY <2>2, <2>3, <2>4, LineOrigin
  <1>3. ASSUME NEW w \in Writers, pc'[w] = "write"
        PROVE  event'[w].bucket \in files'[event'[w].machine]
    <2>1. CASE Rests(w)
      BY <1>1, <1>3, <2>1 DEF Rests, FilesInv, TypeOK, Events
    <2>2. CASE Assign(w)
      BY <2>2 DEF Assign, TypeOK, Events
    <2> QED BY <1>3, <2>1, <2>2, Entering
  <1> QED BY <1>2, <1>3 DEF FilesInv

LEMMA FilesCorrect == Spec => []FilesInv
  <1>1. Init => FilesInv
    BY EmptySeq DEF Init, FilesInv
  <1>2. TypeOK /\ FilesInv /\ [Next]_vars => FilesInv'
    BY FilesStep
  <1> QED BY <1>1, <1>2, TypeCorrect, PTL DEF Spec

\* While w is in the critical section, before and after a step that it did not
\* take, its machine has no new line.
LEMMA NoNewLine ==
    ASSUME TypeOK, LockInv, [Next]_vars, NEW w \in Writers, Rests(w),
           pc[w] \in Critical, NEW b \in Buckets,
           NEW i \in DOMAIN file'[event'[w].machine][b]
    PROVE  /\ event'[w].machine = event[w].machine /\ event[w].machine \in Machines
           /\ i \in DOMAIN file[event[w].machine][b]
           /\ file'[event[w].machine][b][i] = file[event[w].machine][b][i]
  <1>1. event[w].machine \in Machines /\ event'[w] = event[w]
    BY DEF TypeOK, Critical, Events, Rests
  <1>2. ASSUME NEW v \in Writers, Write(v) \/ Tear(v), event[v].machine = event[w].machine
        PROVE  FALSE
    <2>1. pc[v] \in Critical /\ pc'[v] # pc[v]
      BY <1>2 DEF Write, Tear, Leave, TypeOK, Critical
    <2>2. v # w
      BY <2>1 DEF Rests
    <2> QED BY <1>2, <2>1, <2>2, WriterAlone
  <1> QED BY <1>1, <1>2, LineOrigin

LEMMA SeqType ==
    ASSUME TypeOK, NEW m \in Machines, NEW b \in Buckets, NEW i \in DOMAIN file[m][b]
    PROVE  file[m][b][i].seq \in Nat
  <1>1. file[m][b] \in Seq(Lines)
    BY DEF TypeOK
  <1>2. file[m][b][i] \in Lines
    BY <1>1, ElementOfSeq, LenProperties
  <1> QED BY <1>2 DEF Lines

LEMMA ScanStep ==
    ASSUME TypeOK, LockInv, FilesInv, ScanInv, [Next]_vars,
           ~ \E w \in Writers, b \in Buckets : SkipFile(w, b)
    PROVE  ScanInv'
  <1> SUFFICES ASSUME NEW w \in Writers, pc'[w] = "scan",
                      NEW b \in Buckets \ todo'[w],
                      NEW i \in DOMAIN file'[event'[w].machine][b],
                      Lasting(file'[event'[w].machine][b], i)
               PROVE  file'[event'[w].machine][b][i].seq <= highest'[w]
    BY DEF ScanInv
  <1>1. CASE Rests(w)
    <2>1. pc[w] = "scan" /\ b \in Buckets \ todo[w] /\ highest'[w] = highest[w]
      BY <1>1 DEF Rests
    <2>2. /\ event'[w].machine = event[w].machine
          /\ i \in DOMAIN file[event[w].machine][b]
          /\ file'[event[w].machine][b][i] = file[event[w].machine][b][i]
          /\ event[w].machine \in Machines
      BY <1>1, <2>1, NoNewLine DEF Critical
    <2>3. file[event[w].machine][b][i].seq <= highest[w]
      <3>1. Lasting(file[event[w].machine][b], i)
        BY <2>2, LastingBefore
      <3> QED BY <2>1, <2>2, <3>1 DEF ScanInv
    <2> QED BY <2>1, <2>2, <2>3
  <1>2. CASE Acquire(w)
    <2>1. /\ event[w].machine \in Machines /\ event' = event /\ file' = file
          /\ todo'[w] = files[event[w].machine]
      BY <1>2 DEF Acquire, TypeOK, Events, diskVars
    <2>2. file[event[w].machine][b] = <<>>
      BY <2>1 DEF FilesInv
    <2> QED BY <2>1, <2>2, EmptySeq, LenProperties
  <1>3. ASSUME NEW c \in Buckets, ScanFile(w, c)
        PROVE  file'[event'[w].machine][b][i].seq <= highest'[w]
    <2> DEFINE m == event[w].machine
    <2>1. m \in Machines /\ event' = event /\ file' = file /\ todo'[w] = todo[w] \ {c}
          /\ pc[w] = "scan"
      BY <1>3 DEF ScanFile, TypeOK, Events, diskVars
    <2>2. i \in DOMAIN file[m][b]
      BY <2>1
    <2> DEFINE seqs == ReadableSeqs(file[m][c]) \cup {highest[w]}
    <2>3. PICK h \in seqs : IsLargest(h, seqs) /\ highest'[w] = h
      BY <1>3 DEF ScanFile, TypeOK
    <2>4. h \in Nat \cup {-1} /\ highest[w] \in Nat \cup {-1} /\ highest[w] <= h
      BY <2>1, <2>3, ScanType DEF TypeOK, IsLargest
    <2>5. CASE b = c
      <3>1. i \in Readable(file[m][c])
        BY <2>1, <2>2, <2>5, LastingReadable
      <3>2. file[m][c][i].seq \in seqs
        BY <3>1 DEF ReadableSeqs
      <3> QED BY <2>1, <2>3, <2>5, <3>2 DEF IsLargest
    <2>6. CASE b # c
      <3>1. file[m][b][i].seq <= highest[w]
        BY <2>1, <2>2, <2>6 DEF ScanInv
      <3>2. file[m][b][i].seq \in Nat
        BY <2>1, <2>2, SeqType
      <3> QED BY <2>1, <2>3, <2>4, <3>1, <3>2
    <2> QED BY <2>5, <2>6
  <1>4. ASSUME NEW c \in Buckets, SkipFile(w, c) PROVE FALSE
    BY <1>4
  <1> QED BY <1>1, <1>2, <1>3, <1>4, Entering

LEMMA WriteStep ==
    ASSUME TypeOK, LockInv, ScanInv, WriteInv, [Next]_vars
    PROVE  WriteInv'
  <1> SUFFICES ASSUME NEW w \in Writers, pc'[w] = "write", NEW b \in Buckets,
                      NEW i \in DOMAIN file'[event'[w].machine][b],
                      Lasting(file'[event'[w].machine][b], i)
               PROVE  file'[event'[w].machine][b][i].seq < seq'[w]
    BY DEF WriteInv
  <1>1. CASE Rests(w)
    <2>1. pc[w] = "write" /\ seq'[w] = seq[w]
      BY <1>1 DEF Rests
    <2>2. /\ event'[w].machine = event[w].machine
          /\ i \in DOMAIN file[event[w].machine][b]
          /\ file'[event[w].machine][b][i] = file[event[w].machine][b][i]
          /\ event[w].machine \in Machines
      BY <1>1, <2>1, NoNewLine DEF Critical
    <2>3. file[event[w].machine][b][i].seq < seq[w]
      <3>1. Lasting(file[event[w].machine][b], i)
        BY <2>2, LastingBefore
      <3> QED BY <2>1, <2>2, <3>1 DEF WriteInv
    <2> QED BY <2>1, <2>2, <2>3
  <1>2. CASE Assign(w)
    <2>1. /\ event' = event /\ file' = file /\ event[w].machine \in Machines
          /\ pc[w] = "scan" /\ todo[w] = {} /\ seq'[w] = highest[w] + 1
          /\ highest[w] \in Nat \cup {-1}
      BY <1>2 DEF Assign, TypeOK, Events
    <2>2. file[event[w].machine][b][i].seq <= highest[w]
      BY <2>1 DEF ScanInv
    <2>3. file[event[w].machine][b][i].seq \in Nat
      BY <2>1, SeqType
    <2> QED BY <2>1, <2>2, <2>3
  <1> QED BY <1>1, <1>2, Entering

\* What a line that is in the files after a step has to do with those before it.
LEMMA NewAbove ==
    ASSUME TypeOK, WriteInv, NEW w \in Writers, Write(w) \/ Tear(w), NEW part \in Parts,
           NEW b \in Buckets, NEW i \in DOMAIN file[event[w].machine][b],
           Lasting(file[event[w].machine][b], i), event[w].machine \in Machines
    PROVE  /\ file[event[w].machine][b][i].seq < LineOf(w, part).seq
           /\ file[event[w].machine][b][i].seq \in Nat /\ LineOf(w, part).seq \in Nat
  <1>1. pc[w] = "write" /\ seq[w] \in Nat
    BY DEF Write, Tear, TypeOK
  <1>2. file[event[w].machine][b][i].seq < seq[w]
    BY <1>1 DEF WriteInv
  <1> QED BY <1>1, <1>2, SeqType DEF LineOf

LEMMA DistinctStep ==
    ASSUME TypeOK, WriteInv, LastingDistinct, [Next]_vars
    PROVE  LastingDistinct'
  <1> SUFFICES ASSUME NEW m \in Machines, NEW b \in Buckets, NEW c \in Buckets,
                      NEW i \in DOMAIN file'[m][b], NEW j \in DOMAIN file'[m][c],
                      Lasting(file'[m][b], i), Lasting(file'[m][c], j),
                      file'[m][b][i].seq = file'[m][c][j].seq
               PROVE  b = c /\ i = j
    BY DEF LastingDistinct
  <1> DEFINE Old(d, k) == k \in DOMAIN file[m][d]
             New(w, d, k) == /\ Write(w) \/ Tear(w)
                             /\ event[w] \in Events
                             /\ m = event[w].machine /\ d = event[w].bucket
                             /\ k = Len(file[m][d]) + 1
                             /\ \E part \in Parts : file'[m][d][k] = LineOf(w, part)
  <1>1. Old(b, i) \/ \E w \in Writers : New(w, b, i)
    BY LineOrigin
  <1>2. Old(c, j) \/ \E w \in Writers : New(w, c, j)
    BY LineOrigin
  <1>3. ASSUME NEW w \in Writers, NEW d \in Buckets, NEW e \in Buckets, NEW k,
               NEW l \in DOMAIN file'[m][e], New(w, d, k), Old(e, l), Lasting(file'[m][e], l)
        PROVE  file'[m][d][k].seq # file'[m][e][l].seq
    <2>1. file'[m][e][l] = file[m][e][l] /\ Lasting(file[m][e], l)
      BY <1>3, LastingBefore
    <2>2. PICK part \in Parts : file'[m][d][k] = LineOf(w, part)
      BY <1>3
    <2>3. /\ file[m][e][l].seq < LineOf(w, part).seq
          /\ file[m][e][l].seq \in Nat /\ LineOf(w, part).seq \in Nat
      BY <1>3, <2>1, NewAbove
    <2> QED BY <2>1, <2>2, <2>3
  <1>4. CASE Old(b, i) /\ Old(c, j)
    <2>1. file'[m][b][i] = file[m][b][i] /\ Lasting(file[m][b], i)
      BY <1>4, LastingBefore
    <2>2. file'[m][c][j] = file[m][c][j] /\ Lasting(file[m][c], j)
      BY <1>4, LastingBefore
    <2> QED BY <1>4, <2>1, <2>2 DEF LastingDistinct
  <1>5. ASSUME NEW v \in Writers, NEW w \in Writers, New(v, b, i), New(w, c, j)
        PROVE  b = c /\ i = j
    <2>1. v = w
      BY <1>5 DEF Write, Tear, Leave, TypeOK
    <2> QED BY <1>5, <2>1
  <1> HIDE DEF Old, New
  <1> QED BY <1>1, <1>2, <1>3, <1>4, <1>5

LEMMA SortedStep ==
    ASSUME TypeOK, WriteInv, LastingSorted, [Next]_vars
    PROVE  LastingSorted'
  <1> SUFFICES ASSUME NEW m \in Machines, NEW b \in Buckets,
                      NEW i \in DOMAIN file'[m][b], NEW j \in DOMAIN file'[m][b],
                      i < j, Lasting(file'[m][b], i)
               PROVE  file'[m][b][i].seq < file'[m][b][j].seq
    BY DEF LastingSorted
  <1>0. /\ DOMAIN file[m][b] = 1 .. Len(file[m][b]) /\ Len(file[m][b]) \in Nat
        /\ DOMAIN file'[m][b] = 1 .. Len(file'[m][b]) /\ Len(file'[m][b]) \in Nat
    BY TypeStep, LenProperties DEF TypeOK
  <1>1. i \in DOMAIN file[m][b]
    <2>1. j \in DOMAIN file[m][b] \/ j = Len(file[m][b]) + 1
      BY LineOrigin
    <2> QED BY <1>0, <2>1
  <1>2. file'[m][b][i] = file[m][b][i] /\ Lasting(file[m][b], i)
    BY <1>1, LastingBefore
  <1>3. CASE j \in DOMAIN file[m][b] /\ file'[m][b][j] = file[m][b][j]
    BY <1>1, <1>2, <1>3 DEF LastingSorted
  <1>4. ASSUME NEW w \in Writers, NEW part \in Parts, Write(w) \/ Tear(w),
               m = event[w].machine, file'[m][b][j] = LineOf(w, part)
        PROVE  file'[m][b][i].seq < file'[m][b][j].seq
    BY <1>1, <1>2, <1>4, NewAbove
  <1> QED BY <1>3, <1>4, LineOrigin

LEMMA SeqStep ==
    ASSUME "scanerror" \notin Faults, TypeOK, LockInv, SeqInv, [Next]_vars
    PROVE  SeqInv'
  <1>1. ~ \E w \in Writers, b \in Buckets : SkipFile(w, b)
    BY DEF SkipFile
  <1> QED BY <1>1, FilesStep, ScanStep, WriteStep, DistinctStep, SortedStep DEF SeqInv

LEMMA SeqInit == Init => SeqInv
  BY EmptySeq DEF Init, SeqInv, FilesInv, ScanInv, WriteInv, LastingDistinct, LastingSorted

LEMMA SeqCorrect == ASSUME "scanerror" \notin Faults PROVE Spec => []SeqInv
  <1>1. TypeOK /\ LockInv /\ SeqInv /\ [Next]_vars => SeqInv'
    BY SeqStep
  <1> QED BY <1>1, TypeCorrect, LockCorrect, SeqInit, PTL DEF Spec

\* Where every month can be scanned no two lines that can be read, and are not the
\* damaged end of a file, ever have the same seq: whatever is torn, stored in part,
\* split by a line separator or lost with the power (store.py, _next_seq).
THEOREM ReadableApart == ASSUME "scanerror" \notin Faults PROVE Spec => []LastingDistinct
  <1>1. SeqInv => LastingDistinct
    BY DEF SeqInv
  <1> QED BY <1>1, SeqCorrect, PTL

\* And in each file they come in the order of their seqs, below whatever is last.
THEOREM FilesSorted == ASSUME "scanerror" \notin Faults PROVE Spec => []LastingSorted
  <1>1. SeqInv => LastingSorted
    BY DEF SeqInv
  <1> QED BY <1>1, SeqCorrect, PTL

LEMMA SoundCorrect == ASSUME Reliable PROVE Spec => []AllSound
  <1>1. Init => AllSound
    BY EmptySeq DEF Init, AllSound
  <1>2. TypeOK /\ AllSound /\ [Next]_vars => AllSound'
    BY SoundStep
  <1> QED BY <1>1, <1>2, TypeCorrect, PTL DEF Spec

LEMMA SoundDistinct == TypeOK /\ AllSound /\ LastingDistinct => DistinctSeqs
  BY SoundLasting DEF LastingDistinct, DistinctSeqs

\* On a host that stores every line whole, and without line separators in the
\* payloads, no two lines of a machine ever have the same seq, whatever processes
\* run at once, raise, are killed or lose power.
THEOREM Distinctness == ASSUME Reliable PROVE Spec => []DistinctSeqs
  <1>1. "scanerror" \notin Faults
    BY DEF Reliable
  <1> QED BY <1>1, SoundDistinct, ReadableApart, SoundCorrect, TypeCorrect, PTL

-----------------------------------------------------------------------------
(* What append returned.                                                    *)

\* A line that is synced stays, and stays synced.
LEMMA SyncedLineStays ==
    ASSUME TypeOK, [Next]_vars, NEW m \in Machines, NEW b \in Buckets,
           NEW i \in 1 .. synced[m][b]
    PROVE  i \in 1 .. synced'[m][b] /\ file'[m][b][i] = file[m][b][i]
  <1>1. synced[m][b] \in Nat /\ synced'[m][b] \in Nat
    BY TypeStep DEF TypeOK
  <1>2. synced[m][b] <= synced'[m][b]
    BY SyncedGrows
  <1>3. file'[m][b][i] = file[m][b][i]
    BY KeepsSyncedStep DEF KeepsSynced
  <1> QED BY <1>1, <1>2, <1>3

\* A synced line is one that a reader finds.
LEMMA SyncedReadable ==
    ASSUME TypeOK, AllSound, NEW m \in Machines, NEW b \in Buckets,
           NEW i \in 1 .. synced[m][b]
    PROVE  i \in DOMAIN file[m][b] /\ i \in Readable(file[m][b])
  <1>1. i \in DOMAIN file[m][b]
    BY LenProperties DEF TypeOK
  <1> QED BY <1>1, SoundReadable

LEMMA LineStep ==
    ASSUME TypeOK, LockInv, LineInv, [Next]_vars
    PROVE  LineInv'
  <1> SUFFICES ASSUME NEW w \in Writers
               PROVE  LET m == event'[w].machine
                          b == event'[w].bucket
                      IN  /\ pc'[w] = "sync" =>
                                /\ file'[m][b] # <<>>
                                /\ \E part \in Parts :
                                      file'[m][b][Len(file'[m][b])] = LineOf(w, part)'
                          /\ pc'[w] = "done" =>
                                \E i \in 1 .. synced'[m][b], part \in Parts :
                                    file'[m][b][i] = LineOf(w, part)'
    BY DEF LineInv
  <1> DEFINE m == event'[w].machine
             b == event'[w].bucket
  <1>0. TypeOK'
    BY TypeStep
  <1>1. CASE Rests(w) /\ pc[w] = "sync"
    <2>1. /\ event[w] \in Events /\ event'[w] = event[w] /\ seq'[w] = seq[w] /\ pc'[w] = "sync"
          /\ m \in Machines /\ b \in Buckets
      BY <1>1 DEF Rests, TypeOK, Events
    <2>2. file'[m][b] = file[m][b]
      <3>1. ASSUME NEW v \in Writers, Write(v) \/ Tear(v) PROVE file'[m][b] = file[m][b]
        <4>1. PICK part \in Parts : Grows(event[v].machine, event[v].bucket, LineOf(v, part))
          BY <3>1, WriteEffect
        <4>2. v # w /\ pc[v] \in Critical /\ pc[w] \in Critical
          BY <1>1, <3>1 DEF Write, Tear, Critical
        <4>3. event[v].machine # m
          BY <2>1, <4>2, WriterAlone
        <4> QED BY <2>1, <4>1, <4>3 DEF Grows
      <3>2. CASE PowerLoss
        BY <2>1, <3>2 DEF PowerLoss
      <3> QED BY <3>1, <3>2, FileChange
    <2>3. PICK part \in Parts :
             file[m][b] # <<>> /\ file[m][b][Len(file[m][b])] = LineOf(w, part)
      BY <1>1, <2>1 DEF LineInv
    <2>4. LineOf(w, part)' = LineOf(w, part)
      BY <2>1 DEF LineOf
    <2> QED BY <2>1, <2>2, <2>3, <2>4
  <1>2. CASE Rests(w) /\ pc[w] = "done"
    <2>1. /\ event[w] \in Events /\ event'[w] = event[w] /\ seq'[w] = seq[w] /\ pc'[w] = "done"
          /\ m \in Machines /\ b \in Buckets
      BY <1>2 DEF Rests, TypeOK, Events
    <2>2. PICK i \in 1 .. synced[m][b], part \in Parts : file[m][b][i] = LineOf(w, part)
      BY <1>2, <2>1 DEF LineInv
    <2>3. i \in 1 .. synced'[m][b] /\ file'[m][b][i] = file[m][b][i]
      BY <2>1, <2>2, SyncedLineStays
    <2>4. LineOf(w, part)' = LineOf(w, part)
      BY <2>1 DEF LineOf
    <2> QED BY <2>1, <2>2, <2>3, <2>4
  <1>3. CASE Write(w)
    <2>1. /\ m = event[w].machine /\ b = event[w].bucket /\ m \in Machines /\ b \in Buckets
          /\ pc'[w] = "sync" /\ event' = event /\ seq' = seq
      BY <1>3 DEF Write, TypeOK, Events
    <2>2. PICK part \in Parts : Grows(m, b, LineOf(w, part))
      BY <1>3, <2>1, WriteEffect
    <2>3. /\ Len(file[m][b]) \in Nat /\ Len(file'[m][b]) = Len(file[m][b]) + 1
          /\ file'[m][b][Len(file'[m][b])] = LineOf(w, part)
      <3>1. Len(file[m][b]) \in Nat /\ Len(file'[m][b]) = Len(file[m][b]) + 1
        BY <2>2 DEF Grows
      <3>2. file'[m][b][Len(file[m][b]) + 1] = LineOf(w, part)
        BY <2>2 DEF Grows
      <3> QED BY <3>1, <3>2
    <2>4. file'[m][b] # <<>>
      BY <2>3, EmptySeq
    <2>5. LineOf(w, part)' = LineOf(w, part)
      BY <2>1 DEF LineOf
    <2> QED BY <2>1, <2>3, <2>4, <2>5
  <1>4. CASE Sync(w)
    <2>1. /\ m = event[w].machine /\ b = event[w].bucket /\ m \in Machines /\ b \in Buckets
          /\ pc'[w] = "done" /\ pc[w] = "sync" /\ event' = event /\ seq' = seq
          /\ file' = file /\ synced'[m][b] = Len(file[m][b])
      BY <1>4 DEF Sync, TypeOK, Events
    <2>2. PICK part \in Parts :
             file[m][b] # <<>> /\ file[m][b][Len(file[m][b])] = LineOf(w, part)
      BY <2>1 DEF LineInv
    <2>3. Len(file[m][b]) \in 1 .. Len(file[m][b])
      <3>1. file[m][b] \in Seq(Lines)
        BY <2>1 DEF TypeOK
      <3> QED BY <2>2, <3>1, EmptySeq, LenProperties
    <2>4. LineOf(w, part)' = LineOf(w, part)
      BY <2>1 DEF LineOf
    <2> QED BY <2>1, <2>2, <2>3, <2>4
  <1>5. CASE pc'[w] \notin {"sync", "done"}
    BY <1>5
  <1> QED BY <1>1, <1>2, <1>3, <1>4, <1>5, Entering DEF Rests

LEMMA KeptStep ==
    ASSUME TypeOK, LineInv, KeptInv, [Next]_vars
    PROVE  KeptInv'
  <1> DEFINE Kept(a, f, n) == \E i \in 1 .. n[a.machine][a.bucket] :
                                 /\ f[a.machine][a.bucket][i].id = a.id
                                 /\ f[a.machine][a.bucket][i].seq = a.seq
  <1>1. ASSUME NEW a \in acked PROVE Kept(a, file', synced')
    <2>1. a.machine \in Machines /\ a.bucket \in Buckets
      BY DEF TypeOK, Stored
    <2>2. PICK i \in 1 .. synced[a.machine][a.bucket] :
             /\ file[a.machine][a.bucket][i].id = a.id
             /\ file[a.machine][a.bucket][i].seq = a.seq
      BY DEF KeptInv
    <2>3. /\ i \in 1 .. synced'[a.machine][a.bucket]
          /\ file'[a.machine][a.bucket][i] = file[a.machine][a.bucket][i]
      BY <2>1, <2>2, SyncedLineStays
    <2> QED BY <2>2, <2>3
  <1>2. ASSUME NEW w \in Writers, Return(w),
               NEW a, a = [id |-> event[w].id, machine |-> event[w].machine,
                           bucket |-> event[w].bucket, seq |-> seq[w]]
        PROVE  Kept(a, file', synced')
    <2>1. pc[w] = "done" /\ file' = file /\ synced' = synced
      BY <1>2 DEF Return, diskVars
    <2>2. PICK i \in 1 .. synced[a.machine][a.bucket], part \in Parts :
             file[a.machine][a.bucket][i] = LineOf(w, part)
      BY <1>2, <2>1 DEF LineInv
    <2>3. LineOf(w, part).id = a.id /\ LineOf(w, part).seq = a.seq
      BY <1>2 DEF LineOf
    <2> QED BY <2>1, <2>2, <2>3
  <1>3. CASE acked' = acked
    BY <1>1, <1>3 DEF KeptInv
  <1>4. ASSUME NEW w \in Writers, Return(w) PROVE KeptInv'
    <2>1. acked' = acked \cup {[id |-> event[w].id, machine |-> event[w].machine,
                                bucket |-> event[w].bucket, seq |-> seq[w]]}
      BY <1>4 DEF Return
    <2> QED BY <1>1, <1>2, <1>4, <2>1 DEF KeptInv
  <1> QED BY <1>3, <1>4, AckedChange

LEMMA AckedGrows == ASSUME [Next]_vars PROVE acked \subseteq acked'
  BY AckedChange DEF Return

LEMMA KnownStep ==
    ASSUME TypeOK, KnownInv, [Next]_vars
    PROVE  KnownInv'
  <1> SUFFICES ASSUME NEW w \in Writers PROVE before'[w] \subseteq acked'
    BY DEF KnownInv
  <1>1. acked \subseteq acked'
    BY AckedGrows
  <1>2. CASE Rests(w)
    BY <1>1, <1>2 DEF Rests, KnownInv
  <1>3. ASSUME NEW e \in Events, Call(w, e) PROVE before'[w] \subseteq acked'
    BY <1>3 DEF Call, TypeOK
  <1>4. CASE Acquire(w)
    BY <1>1, <1>4 DEF Acquire, KnownInv
  <1>5. CASE Step(w)
    <2>1. CASE Return(w) \/ Raise(w)
      BY <2>1 DEF Return, Raise, Leave, TypeOK
    <2>2. CASE ~ (Return(w) \/ Raise(w))
      <3>1. before' = before
        BY <1>5, <2>2 DEF Step, ScanFile, SkipFile, ScanRaises, Assign, AssignRaises,
                          Write, WriteRaises, Sync, SyncRaises
      <3> QED BY <1>1, <3>1 DEF KnownInv
    <2> QED BY <2>1, <2>2
  <1> QED BY <1>2, <1>3, <1>4, <1>5, Moves

LEMMA KnownCorrect == Spec => []KnownInv
  <1>1. Init => KnownInv
    BY DEF Init, KnownInv
  <1>2. TypeOK /\ KnownInv /\ [Next]_vars => KnownInv'
    BY KnownStep
  <1> QED BY <1>1, <1>2, TypeCorrect, PTL DEF Spec

LEMMA BeforeStep ==
    ASSUME TypeOK, AllSound, ScanInv, KeptInv, KnownInv, BeforeInv, [Next]_vars
    PROVE  BeforeInv'
  <1> SUFFICES ASSUME NEW w \in Writers, pc'[w] \in {"write", "sync", "done"},
                      NEW a \in before'[w], a.machine = event'[w].machine
               PROVE  a.seq < seq'[w]
    BY DEF BeforeInv
  <1>1. CASE Rests(w)
    BY <1>1 DEF Rests, BeforeInv
  <1>2. CASE Assign(w)
    <2>1. /\ event' = event /\ before' = before /\ event[w].machine \in Machines
          /\ pc[w] = "scan" /\ todo[w] = {} /\ seq'[w] = highest[w] + 1
          /\ highest[w] \in Nat \cup {-1}
      BY <1>2 DEF Assign, TypeOK, Events
    <2>2. a \in acked /\ a.bucket \in Buckets /\ a.machine = event[w].machine
      BY <2>1 DEF KnownInv, TypeOK, Stored
    <2>3. PICK i \in 1 .. synced[a.machine][a.bucket] :
             file[a.machine][a.bucket][i].seq = a.seq
      BY <2>2 DEF KeptInv
    <2>4. i \in DOMAIN file[a.machine][a.bucket]
      BY <2>1, <2>2, <2>3, LenProperties DEF TypeOK
    <2>5. file[a.machine][a.bucket][i].seq <= highest[w]
      BY <2>1, <2>2, <2>4, SoundLasting DEF ScanInv
    <2>6. file[a.machine][a.bucket][i].seq \in Nat
      BY <2>1, <2>2, <2>4, SeqType
    <2> QED BY <2>1, <2>3, <2>5, <2>6
  <1>3. CASE Write(w) \/ Sync(w)
    BY <1>3 DEF Write, Sync, BeforeInv, TypeOK
  <1> QED BY <1>1, <1>2, <1>3, Entering

LEMMA StoredStep ==
    ASSUME TypeOK, LockInv, AllSound, ScanInv, StoredInv, [Next]_vars
    PROVE  StoredInv'
  BY LineStep, KeptStep, KnownStep, BeforeStep DEF StoredInv

LEMMA StoredInit == Init => StoredInv
  BY DEF Init, StoredInv, LineInv, KeptInv, KnownInv, BeforeInv

LEMMA StoredCorrect == ASSUME Reliable PROVE Spec => []StoredInv
  <1>1. TypeOK /\ LockInv /\ AllSound /\ ScanInv /\ StoredInv /\ [Next]_vars => StoredInv'
    BY StoredStep
  <1>2. SeqInv => ScanInv
    BY DEF SeqInv
  <1>3. "scanerror" \notin Faults
    BY DEF Reliable
  <1> QED
    BY <1>1, <1>2, <1>3, TypeCorrect, LockCorrect, SoundCorrect, SeqCorrect, StoredInit, PTL
    DEF Spec

\* Whatever append returned has left its line on the disk for ever, with the id and the
\* seq it returned, through every fault there is: but the line may be damaged.
THEOREM LinesStay == Spec => []KeptInv
  <1>1. Init => LineInv /\ KeptInv
    BY DEF Init, LineInv, KeptInv
  <1>2. TypeOK /\ LockInv /\ LineInv /\ KeptInv /\ [Next]_vars => LineInv' /\ KeptInv'
    BY LineStep, KeptStep
  <1> QED BY <1>1, <1>2, TypeCorrect, LockCorrect, PTL DEF Spec

\* On a reliable host whatever append returned is on the disk with the seq it
\* returned, and readable, for ever: through kills and power losses too.
THEOREM Durability == ASSUME Reliable PROVE Spec => []AckedDurable
  <1>1. TypeOK /\ AllSound /\ StoredInv => AckedDurable
    <2> SUFFICES ASSUME TypeOK, AllSound, StoredInv, NEW a \in acked
                 PROVE  \E i \in 1 .. synced[a.machine][a.bucket] : StoredAt(a, i)
      BY DEF AckedDurable
    <2>1. a.machine \in Machines /\ a.bucket \in Buckets
      BY DEF TypeOK, Stored
    <2>2. PICK i \in 1 .. synced[a.machine][a.bucket] :
             /\ file[a.machine][a.bucket][i].id = a.id
             /\ file[a.machine][a.bucket][i].seq = a.seq
      BY DEF StoredInv, KeptInv
    <2>3. i \in Readable(file[a.machine][a.bucket])
      BY <2>1, <2>2, SyncedReadable
    <2> QED BY <2>2, <2>3 DEF StoredAt
  <1> QED BY <1>1, TypeCorrect, SoundCorrect, StoredCorrect, PTL

\* On a reliable host an append that began after another had returned gets the
\* larger seq.
THEOREM RealTime == ASSUME Reliable PROVE Spec => []RealTimeOrder
  <1>1. StoredInv => RealTimeOrder
    BY DEF StoredInv, BeforeInv, RealTimeOrder
  <1> QED BY <1>1, StoredCorrect, PTL

-----------------------------------------------------------------------------
(* Ids.                                                                     *)

\* A returned event comes from an append that was under way.
LEMMA AckedFrom ==
    ASSUME TypeOK, [Next]_vars, NEW a \in acked'
    PROVE  a \in acked \/ \E w \in Writers : pc[w] # "idle" /\ a.machine = event[w].machine
  <1>1. ASSUME NEW w \in Writers, Return(w)
        PROVE  a \in acked \/ (pc[w] # "idle" /\ a.machine = event[w].machine)
    BY <1>1 DEF Return
  <1>2. CASE acked' = acked
    BY <1>2
  <1> QED BY <1>1, <1>2, AckedChange

\* An append keeps the event it was called with.
LEMMA EventFrom ==
    ASSUME TypeOK, [Next]_vars, NEW w \in Writers, pc'[w] # "idle"
    PROVE  \/ pc[w] # "idle" /\ event'[w] = event[w]
           \/ \E e \in Events : Call(w, e) /\ event'[w] = e
  <1>1. CASE Rests(w)
    BY <1>1 DEF Rests
  <1>2. ASSUME NEW e \in Events, Call(w, e) PROVE event'[w] = e
    BY <1>2 DEF Call, TypeOK
  <1>3. CASE Acquire(w)
    BY <1>3 DEF Acquire
  <1>4. CASE Step(w)
    BY <1>4 DEF Step, ScanFile, SkipFile, ScanRaises, Assign, AssignRaises, Write,
                WriteRaises, Sync, SyncRaises, Return, Raise, Leave, TypeOK
  <1> QED BY <1>1, <1>2, <1>3, <1>4, Moves

LEMMA UsedGrows ==
    ASSUME [Next]_vars
    PROVE  used \subseteq used'
  <1>1. ASSUME NEW w \in Writers, Step(w) PROVE used' = used
    BY <1>1 DEF Step, ScanFile, SkipFile, ScanRaises, Assign, AssignRaises, Write, WriteRaises,
                Sync, SyncRaises, Return, Raise
  <1>2. ASSUME NEW w \in Writers, NEW e \in Events, Call(w, e) PROVE used \subseteq used'
    BY <1>2 DEF Call
  <1> QED BY <1>1, <1>2 DEF Next, Acquire, Kill, Tear, WriteBack, PowerLoss, vars

LEMMA IdInit == Init => IdInv /\ OneLine
  BY EmptySeq DEF Init, IdInv, HasLine, OneLine

\* A line that a step adds is that of the one append that stops writing.
LEMMA LineIds ==
    ASSUME TypeOK, [Next]_vars,
           NEW m \in Machines, NEW b \in Buckets, NEW i \in DOMAIN file'[m][b]
    PROVE  \/ i \in DOMAIN file[m][b] /\ file'[m][b][i] = file[m][b][i]
           \/ \E w \in Writers :
                /\ Write(w) \/ Tear(w)
                /\ pc[w] = "write" /\ pc'[w] \in {"sync", "idle"}
                /\ event[w] \in Events /\ file'[m][b][i].id = event[w].id
                /\ m = event[w].machine /\ b = event[w].bucket /\ i = Len(file[m][b]) + 1
  <1>1. ASSUME NEW w \in Writers, Write(w) \/ Tear(w)
        PROVE  pc[w] = "write" /\ pc'[w] \in {"sync", "idle"}
    BY <1>1 DEF Write, Tear, Leave, TypeOK
  <1>2. \A w \in Writers, part \in Parts : LineOf(w, part).id = event[w].id
    BY DEF LineOf
  <1> QED BY <1>1, <1>2, LineOrigin

\* An append that has not written has been called or was there before.
LEMMA EarlyFrom ==
    ASSUME TypeOK, [Next]_vars, NEW w \in Writers, pc'[w] \in {"wait", "scan", "write"}
    PROVE  \/ pc[w] \in {"wait", "scan", "write"} /\ event'[w] = event[w]
           \/ \E e \in Events : Call(w, e) /\ event'[w] = e
  <1>1. pc'[w] = "scan" => pc[w] \in {"wait", "scan"}
    BY Entering DEF Rests, Acquire, ScanFile, SkipFile
  <1>2. pc'[w] = "write" => pc[w] \in {"scan", "write"}
    BY Entering DEF Rests, Assign
  <1>3. pc'[w] = "wait" => pc[w] = "wait" \/ \E e \in Events : Call(w, e)
    BY Moves DEF Rests, Acquire, Step, ScanFile, SkipFile, ScanRaises, Assign, AssignRaises,
                 Write, WriteRaises, Sync, SyncRaises, Return, Raise, Leave, TypeOK
  <1>4. ASSUME NEW e \in Events, Call(w, e) PROVE event'[w] = e
    BY <1>4 DEF Call, TypeOK
  <1>5. pc[w] # "idle" /\ ~ (\E e \in Events : Call(w, e)) => event'[w] = event[w]
    BY EventFrom
  <1>6. \A e \in Events : Call(w, e) => pc[w] = "idle"
    BY DEF Call
  <1> QED BY <1>1, <1>2, <1>3, <1>4, <1>5, <1>6

LEMMA CallAlone ==
    ASSUME TypeOK, NEW v \in Writers, NEW w \in Writers,
           NEW d \in Events, NEW e \in Events, Call(v, d), Call(w, e)
    PROVE  v = w
  BY DEF Call, TypeOK

LEMMA IdStep ==
    ASSUME TypeOK, IdInv, [Next]_vars
    PROVE  IdInv'
  <1>1. used \subseteq used'
    BY UsedGrows
  <1>2. ASSUME NEW m \in Machines, NEW b \in Buckets, NEW i \in DOMAIN file'[m][b]
        PROVE  file'[m][b][i].id \in used
    BY LineIds DEF IdInv
  <1>3. ASSUME NEW w \in Writers, pc'[w] # "idle"
        PROVE  \/ pc[w] # "idle" /\ event'[w] = event[w] /\ event[w].id \in used
               \/ /\ \E e \in Events : Call(w, e) /\ event'[w] = e
                  /\ event'[w].id \notin used /\ event'[w].id \in used'
    <2>1. ASSUME NEW e \in Events, Call(w, e) PROVE e.id \notin used /\ e.id \in used'
      BY <2>1 DEF Call
    <2> QED BY <1>3, <2>1, EventFrom DEF IdInv
  <1>4. ASSUME NEW w \in Writers, pc'[w] \in {"wait", "scan", "write"},
               NEW m \in Machines, NEW b \in Buckets, NEW i \in DOMAIN file'[m][b],
               file'[m][b][i].id = event'[w].id
        PROVE  FALSE
    <2>1. CASE \E e \in Events : Call(w, e)
      <3>1. event'[w].id \notin used
        BY <2>1 DEF Call, TypeOK
      <3> QED BY <1>2, <1>4, <3>1
    <2>2. CASE ~ \E e \in Events : Call(w, e)
      <3>1. pc[w] \in {"wait", "scan", "write"} /\ event'[w] = event[w]
        BY <1>4, <2>2, EarlyFrom
      <3>2. ~ HasLine(event[w].id)
        BY <3>1 DEF IdInv
      <3>3. ASSUME NEW v \in Writers, pc[v] = "write", pc'[v] \in {"sync", "idle"},
                   file'[m][b][i].id = event[v].id
            PROVE  FALSE
        <4>1. v = w
          BY <1>4, <3>1, <3>3 DEF IdInv
        <4> QED BY <1>4, <3>3, <4>1
      <3> QED BY <1>4, <3>1, <3>2, <3>3, LineIds DEF HasLine
    <2> QED BY <2>1, <2>2
  <1>5. ASSUME NEW v \in Writers, NEW w \in Writers, pc'[v] # "idle", pc'[w] # "idle",
               event'[v].id = event'[w].id
        PROVE  v = w
    BY <1>3, <1>5, CallAlone DEF IdInv
  <1>6. \A m \in Machines, b \in Buckets : \A i \in DOMAIN file'[m][b] :
           file'[m][b][i].id \in used'
    BY <1>1, <1>2
  <1>7. \A w \in Writers : pc'[w] # "idle" => event'[w].id \in used'
    BY <1>1, <1>3
  <1>8. \A w \in Writers : pc'[w] \in {"wait", "scan", "write"} => ~ HasLine(event[w].id)'
    BY <1>4 DEF HasLine
  <1> QED BY <1>5, <1>6, <1>7, <1>8 DEF IdInv

LEMMA IdCorrect == Spec => []IdInv
  <1>1. TypeOK /\ IdInv /\ [Next]_vars => IdInv'
    BY IdStep
  <1> QED BY <1>1, IdInit, TypeCorrect, PTL DEF Spec

LEMMA PlaceStep ==
    ASSUME TypeOK, IdInv, PlaceInv, [Next]_vars
    PROVE  PlaceInv'
  <1> SUFFICES ASSUME NEW w \in Writers, pc'[w] # "idle", NEW m \in Machines, NEW b \in Buckets,
                      NEW i \in DOMAIN file'[m][b], file'[m][b][i].id = event'[w].id
               PROVE  m = event'[w].machine /\ b = event'[w].bucket
    BY DEF PlaceInv
  <1>1. file'[m][b][i].id \in used
    BY LineIds DEF IdInv
  <1>2. ASSUME NEW e \in Events, Call(w, e), event'[w] = e PROVE FALSE
    BY <1>1, <1>2 DEF Call
  <1>3. pc[w] # "idle" /\ event'[w] = event[w]
    BY <1>2, EventFrom
  <1>4. CASE i \in DOMAIN file[m][b] /\ file'[m][b][i] = file[m][b][i]
    BY <1>3, <1>4 DEF PlaceInv
  <1>5. ASSUME NEW v \in Writers, pc[v] = "write", file'[m][b][i].id = event[v].id,
               m = event[v].machine, b = event[v].bucket
        PROVE  m = event'[w].machine /\ b = event'[w].bucket
    BY <1>3, <1>5 DEF IdInv
  <1> QED BY <1>4, <1>5, LineIds

LEMMA PlaceCorrect == Spec => []PlaceInv
  <1>1. Init => PlaceInv
    BY DEF Init, PlaceInv
  <1>2. TypeOK /\ IdInv /\ PlaceInv /\ [Next]_vars => PlaceInv'
    BY PlaceStep
  <1> QED BY <1>1, <1>2, TypeCorrect, IdCorrect, PTL DEF Spec

LEMMA OneLineStep ==
    ASSUME TypeOK, IdInv, OneLine, [Next]_vars
    PROVE  OneLine'
  <1> SUFFICES ASSUME NEW m \in Machines, NEW n \in Machines, NEW b \in Buckets, NEW c \in Buckets,
                      NEW i \in DOMAIN file'[m][b], NEW j \in DOMAIN file'[n][c],
                      file'[m][b][i].id = file'[n][c][j].id
               PROVE  m = n /\ b = c /\ i = j
    BY DEF OneLine
  <1> DEFINE Old(k, d, l) == l \in DOMAIN file[k][d] /\ file'[k][d][l] = file[k][d][l]
             New(w, k, d, l) == /\ pc[w] = "write"
                                /\ Write(w) \/ Tear(w)
                                /\ file'[k][d][l].id = event[w].id
                                /\ k = event[w].machine /\ d = event[w].bucket
                                /\ l = Len(file[k][d]) + 1
  <1>1. Old(m, b, i) \/ \E w \in Writers : New(w, m, b, i)
    BY LineIds
  <1>2. Old(n, c, j) \/ \E w \in Writers : New(w, n, c, j)
    BY LineIds
  <1>3. ASSUME NEW w \in Writers, NEW k \in Machines, NEW d \in Buckets, NEW l,
               NEW h \in Machines, NEW e \in Buckets, NEW g, New(w, k, d, l), Old(h, e, g)
        PROVE  file'[k][d][l].id # file'[h][e][g].id
    <2>1. ~ HasLine(event[w].id)
      BY <1>3 DEF IdInv
    <2>2. file[h][e][g].id # event[w].id
      BY <1>3, <2>1 DEF HasLine
    <2> QED BY <1>3, <2>2
  <1>4. CASE Old(m, b, i) /\ Old(n, c, j)
    BY <1>4 DEF OneLine
  <1>5. ASSUME NEW v \in Writers, NEW w \in Writers, New(v, m, b, i), New(w, n, c, j)
        PROVE  m = n /\ b = c /\ i = j
    <2>1. v = w
      BY <1>5 DEF Write, Tear, Leave, TypeOK
    <2> QED BY <1>5, <2>1
  <1> HIDE DEF Old, New
  <1> QED BY <1>1, <1>2, <1>3, <1>4, <1>5

\* Whatever fails, dies or is lost, an append leaves one line at most, in one file of
\* one machine (store.py, append).
THEOREM AppendsOnce == Spec => []OneLine
  <1>1. TypeOK /\ IdInv /\ OneLine /\ [Next]_vars => OneLine'
    BY OneLineStep
  <1> QED BY <1>1, IdInit, IdCorrect, TypeCorrect, PTL DEF Spec

-----------------------------------------------------------------------------
(* Gaps.                                                                    *)

\* While the power stays on, no line leaves a file or moves in it.
LEMMA FileGrows ==
    ASSUME "power" \notin Faults, TypeOK, [Next]_vars,
           NEW m \in Machines, NEW b \in Buckets, NEW i \in DOMAIN file[m][b]
    PROVE  i \in DOMAIN file'[m][b] /\ file'[m][b][i] = file[m][b][i]
  <1>1. ASSUME NEW w \in Writers, Write(w) \/ Tear(w)
        PROVE  i \in DOMAIN file'[m][b] /\ file'[m][b][i] = file[m][b][i]
    <2>1. PICK part \in Parts : Grows(event[w].machine, event[w].bucket, LineOf(w, part))
      BY <1>1, WriteEffect
    <2>2. CASE m = event[w].machine /\ b = event[w].bucket
      <3>1. Grows(m, b, LineOf(w, part))
        BY <2>1, <2>2
      <3>2. /\ DOMAIN file[m][b] = 1 .. Len(file[m][b]) /\ Len(file[m][b]) \in Nat
            /\ DOMAIN file'[m][b] = 1 .. Len(file[m][b]) + 1
            /\ file'[m][b][i] = file[m][b][i]
        BY <3>1 DEF Grows
      <3> QED BY <3>2
    <2>3. CASE ~ (m = event[w].machine /\ b = event[w].bucket)
      <3>1. file'[m][b] = file[m][b]
        BY <2>1, <2>3 DEF Grows
      <3> QED BY <3>1
    <2> QED BY <2>2, <2>3
  <1> QED BY <1>1, FileChange DEF PowerLoss

\* So a seq that is in a file stays in it.
LEMMA SeqsGrow ==
    ASSUME "power" \notin Faults, TypeOK, [Next]_vars, NEW m \in Machines
    PROVE  Seqs(m) \subseteq Seqs(m)'
  BY FileGrows DEF Seqs

\* What a scan has met, and the seq before the one it assigns, is there.
LEMMA FollowStep ==
    ASSUME Reliable, "power" \notin Faults, TypeOK, FollowInv, [Next]_vars
    PROVE  FollowInv'
  <1> SUFFICES ASSUME NEW w \in Writers
               PROVE  /\ pc'[w] = "scan" => highest'[w] \in Seqs(event[w].machine)' \cup {-1}
                      /\ pc'[w] = "write" => seq'[w] - 1 \in Seqs(event[w].machine)' \cup {-1}
    BY DEF FollowInv
  <1>1. CASE Rests(w) /\ pc[w] \in {"scan", "write"}
    <2>1. /\ event'[w] = event[w] /\ event[w].machine \in Machines
          /\ highest'[w] = highest[w] /\ seq'[w] = seq[w] /\ pc'[w] = pc[w]
      BY <1>1 DEF Rests, TypeOK, Events
    <2>2. Seqs(event[w].machine) \subseteq Seqs(event[w].machine)'
      <3>1. PICK m \in Machines : m = event[w].machine
        BY <2>1
      <3>2. Seqs(m) \subseteq Seqs(m)'
        BY SeqsGrow
      <3>3. event'[w].machine = m
        BY <2>1, <3>1
      <3>4. Seqs(event[w].machine)' = Seqs(m)'
        BY <3>3 DEF Seqs
      <3> QED BY <3>1, <3>2, <3>4
    <2> QED BY <2>1, <2>2 DEF FollowInv
  <1>2. CASE Acquire(w)
    BY <1>2 DEF Acquire, TypeOK
  <1>3. ASSUME NEW b \in Buckets, ScanFile(w, b)
        PROVE  pc'[w] = "scan" /\ highest'[w] \in Seqs(event[w].machine)' \cup {-1}
    <2> DEFINE m == event[w].machine
    <2>1. /\ m \in Machines /\ event' = event /\ file' = file /\ pc[w] = "scan" /\ pc' = pc
      BY <1>3 DEF ScanFile, TypeOK, Events, diskVars
    <2>2. PICK h \in ReadableSeqs(file[m][b]) \cup {highest[w]} : highest'[w] = h
      BY <1>3 DEF ScanFile, TypeOK
    <2>3. ReadableSeqs(file[m][b]) \subseteq Seqs(m)
      <3>1. Readable(file[m][b]) \subseteq DOMAIN file[m][b]
        BY DEF Readable
      <3>2. {file[m][b][i].seq : i \in DOMAIN file[m][b]} \subseteq Seqs(m)
        BY DEF Seqs
      <3> QED BY <3>1, <3>2 DEF ReadableSeqs
    <2>4. highest[w] \in Seqs(m) \cup {-1}
      BY <2>1 DEF FollowInv
    <2>5. Seqs(event[w].machine)' = Seqs(m)
      BY <2>1 DEF Seqs
    <2> QED BY <2>1, <2>2, <2>3, <2>4, <2>5
  <1>4. ASSUME NEW b \in Buckets, SkipFile(w, b) PROVE FALSE
    BY <1>4 DEF SkipFile, Reliable
  <1>5. CASE Assign(w)
    <2>1. /\ event' = event /\ file' = file /\ pc[w] = "scan" /\ pc'[w] = "write"
          /\ seq'[w] = highest[w] + 1 /\ highest[w] \in Nat \cup {-1}
      BY <1>5 DEF Assign, TypeOK
    <2>2. highest[w] \in Seqs(event[w].machine) \cup {-1}
      BY <2>1 DEF FollowInv
    <2>3. seq'[w] - 1 = highest[w]
      BY <2>1
    <2>4. Seqs(event[w].machine)' = Seqs(event[w].machine)
      BY <2>1 DEF Seqs
    <2> QED BY <2>1, <2>2, <2>3, <2>4
  <1>6. CASE pc'[w] \notin {"scan", "write"}
    BY <1>6
  <1> QED BY <1>1, <1>2, <1>3, <1>4, <1>5, <1>6, Entering DEF Rests, Acquire

LEMMA GapFreeStep ==
    ASSUME Reliable, "power" \notin Faults, TypeOK, FollowInv, GapFree, [Next]_vars
    PROVE  GapFree'
  <1> SUFFICES ASSUME NEW m \in Machines, NEW s \in Seqs(m)', NEW r \in 0 .. s
               PROVE  r \in Seqs(m)'
    BY DEF GapFree
  <1>1. Seqs(m) \subseteq Seqs(m)'
    BY SeqsGrow
  <1>2. PICK b \in Buckets : \E i \in DOMAIN file'[m][b] : file'[m][b][i].seq = s
    BY DEF Seqs
  <1>3. PICK i \in DOMAIN file'[m][b] : file'[m][b][i].seq = s
    BY <1>2
  <1>4. CASE i \in DOMAIN file[m][b] /\ file'[m][b][i] = file[m][b][i]
    <2>1. s \in Seqs(m)
      BY <1>3, <1>4 DEF Seqs
    <2> QED BY <1>1, <2>1 DEF GapFree
  <1>5. ASSUME NEW w \in Writers, pc[w] = "write", m = event[w].machine,
               NEW part \in Parts, file'[m][b][i] = LineOf(w, part)
        PROVE  r \in Seqs(m)'
    <2>1. s = seq[w] /\ seq[w] \in Nat
      BY <1>3, <1>5 DEF LineOf, TypeOK
    <2>2. s - 1 \in Seqs(m) \cup {-1}
      BY <1>5, <2>1 DEF FollowInv
    <2>3. CASE r = s
      BY <2>3
    <2>4. CASE r # s
      <3>1. r \in 0 .. s - 1 /\ s - 1 # -1
        BY <2>1, <2>4
      <3> QED BY <1>1, <2>2, <3>1 DEF GapFree
    <2> QED BY <2>3, <2>4
  <1> QED BY <1>4, <1>5, LineOrigin DEF Write, Tear

\* On a reliable host that does not lose power the seqs of every machine run from 0
\* without a hole, through exceptions and kills at any point of an append.
THEOREM NoGaps == ASSUME Reliable, "power" \notin Faults PROVE Spec => []GapFree
  <1>1. Init => FollowInv /\ GapFree
    BY EmptySeq, LenProperties DEF Init, FollowInv, GapFree, Seqs
  <1>2. TypeOK /\ FollowInv /\ GapFree /\ [Next]_vars => FollowInv' /\ GapFree'
    BY FollowStep, GapFreeStep
  <1> QED BY <1>1, <1>2, TypeCorrect, PTL DEF Spec

-----------------------------------------------------------------------------
(* Ids.                                                                     *)

\* A step that adds no line leaves it at what has been written.
LEMMA WrittenKept ==
    ASSUME NEW w \in Writers, file' = file, event'[w] = event[w]
    PROVE  LineWritten(w)' <=> LineWritten(w)
  BY DEF LineWritten

LEMMA EarlyUnwritten ==
    ASSUME TypeOK, IdInv, NEW w \in Writers, pc[w] \in {"wait", "scan", "write"}
    PROVE  ~ LineWritten(w)
  BY DEF IdInv, HasLine, LineWritten, TypeOK, Events

\* The line that Write adds is the only new one.
LEMMA WriteIds ==
    ASSUME Reliable, TypeOK, IdInv, NEW w \in Writers, Write(w)
    PROVE  /\ \A v \in Writers : v # w /\ pc[v] # "idle" => (LineWritten(v)' <=> LineWritten(v))
           /\ LineWritten(w)'
           /\ \A m \in Machines, b \in Buckets : \A i \in DOMAIN file'[m][b] :
                 \/ i \in DOMAIN file[m][b] /\ file'[m][b][i].id = file[m][b][i].id
                 \/ file'[m][b][i].id = event[w].id
  <1> DEFINE m == event[w].machine
             b == event[w].bucket
             n == Len(file[m][b])
  <1>1. m \in Machines /\ b \in Buckets /\ Grows(m, b, LineOf(w, "whole"))
    BY ReliableWrite
  <1>2. event' = event /\ pc[w] = "write"
    BY DEF Write
  <1>3. LineOf(w, "whole").id = event[w].id
    BY DEF LineOf
  <1>4. /\ \A k \in Machines, c \in Buckets : k # m \/ c # b => file'[k][c] = file[k][c]
        /\ n \in Nat /\ DOMAIN file[m][b] = 1 .. n /\ DOMAIN file'[m][b] = 1 .. n + 1
        /\ \A i \in 1 .. n : file'[m][b][i] = file[m][b][i]
        /\ file'[m][b][n + 1].id = event[w].id
    BY <1>1, <1>3 DEF Grows
  <1> HIDE DEF m, b, n
  <1>5. 1 .. n + 1 = 1 .. n \cup {n + 1}
    BY <1>4
  <1>6. ASSUME NEW v \in Writers, v # w, pc[v] # "idle"
        PROVE  LineWritten(v)' <=> LineWritten(v)
    <2>1. /\ event[v].machine \in Machines /\ event[v].bucket \in Buckets
          /\ event[v].id # event[w].id
      BY <1>2, <1>6 DEF IdInv, TypeOK, Events
    <2>2. CASE event[v].machine = m /\ event[v].bucket = b
      BY <1>2, <1>4, <1>5, <2>1, <2>2, SMTT(30) DEF LineWritten
    <2>3. CASE ~ (event[v].machine = m /\ event[v].bucket = b)
      BY <1>2, <1>4, <2>1, <2>3 DEF LineWritten
    <2> QED BY <2>2, <2>3
  <1>7. LineWritten(w)'
    BY <1>2, <1>4, <1>5 DEF LineWritten, m, b
  <1>8. ASSUME NEW k \in Machines, NEW c \in Buckets, NEW i \in DOMAIN file'[k][c]
        PROVE  \/ i \in DOMAIN file[k][c] /\ file'[k][c][i].id = file[k][c][i].id
               \/ file'[k][c][i].id = event[w].id
    <2>1. CASE k = m /\ c = b
      BY <1>4, <1>5, <2>1
    <2>2. CASE ~ (k = m /\ c = b)
      <3>1. file'[k][c] = file[k][c]
        BY <1>4, <2>2
      <3> QED BY <3>1
    <2> QED BY <2>1, <2>2
  <1> QED BY <1>6, <1>7, <1>8

-----------------------------------------------------------------------------
(* The log of a machine.                                                    *)

\* Write adds the seq it was given, and no other.
LEMMA WriteSeqs ==
    ASSUME Reliable, TypeOK, NEW w \in Writers, Write(w), NEW m \in Machines
    PROVE  Seqs(m)' = IF m = event[w].machine THEN Seqs(m) \cup {seq[w]} ELSE Seqs(m)
  <1> DEFINE k == event[w].machine
             b == event[w].bucket
             n == Len(file[k][b])
  <1>1. k \in Machines /\ b \in Buckets /\ Grows(k, b, LineOf(w, "whole"))
    BY ReliableWrite
  <1>2. LineOf(w, "whole").seq = seq[w]
    BY DEF LineOf
  <1>3. /\ \A l \in Machines, c \in Buckets : l # k \/ c # b => file'[l][c] = file[l][c]
        /\ n \in Nat /\ DOMAIN file[k][b] = 1 .. n /\ DOMAIN file'[k][b] = 1 .. n + 1
        /\ \A i \in 1 .. n : file'[k][b][i] = file[k][b][i]
        /\ file'[k][b][n + 1].seq = seq[w]
    BY <1>1, <1>2 DEF Grows
  <1> HIDE DEF k, b, n
  <1>4. 1 .. n + 1 = 1 .. n \cup {n + 1}
    BY <1>3
  <1>5. {file'[k][b][i].seq : i \in DOMAIN file'[k][b]} =
            {file[k][b][i].seq : i \in DOMAIN file[k][b]} \cup {seq[w]}
    BY <1>3, <1>4, SMTT(30)
  <1>6. CASE m = k
    <2>1. \A c \in Buckets : c # b => file'[m][c] = file[m][c]
      BY <1>3, <1>6
    <2> QED BY <1>1, <1>5, <1>6, <2>1 DEF Seqs, k
  <1>7. CASE m # k
    <2>1. \A c \in Buckets : file'[m][c] = file[m][c]
      BY <1>3, <1>7
    <2> QED BY <1>7, <2>1 DEF Seqs, k
  <1> QED BY <1>6, <1>7

\* When an append is about to write, its seq is the number of lines there are.
LEMMA WriteNext ==
    ASSUME TypeOK, AllSound, WriteInv, FollowInv, DenseInv, NEW w \in Writers, pc[w] = "write"
    PROVE  Seqs(event[w].machine) = 0 .. seq[w] - 1
  <1> DEFINE m == event[w].machine
  <1>1. m \in Machines /\ seq[w] \in Nat
    BY DEF TypeOK, Events
  <1>2. PICK n \in Nat : Seqs(m) = 0 .. n - 1
    BY <1>1 DEF DenseInv
  <1>3. \A s \in Seqs(m) : s < seq[w]
    BY <1>1, SoundLasting DEF WriteInv, Seqs
  <1>4. seq[w] - 1 \in Seqs(m) \cup {-1}
    BY DEF FollowInv
  <1>5. n = seq[w]
    BY <1>1, <1>2, <1>3, <1>4
  <1> QED BY <1>2, <1>5

LEMMA DenseInit == Init => DenseInv
  <1> SUFFICES ASSUME Init, NEW m \in Machines PROVE Seqs(m) = 0 .. 0 - 1
    BY DEF DenseInv
  <1>1. Seqs(m) = {}
    BY EmptySeq, LenProperties DEF Init, Seqs
  <1> QED BY <1>1

LEMMA DenseStep ==
    ASSUME Reliable, "power" \notin Faults, TypeOK, AllSound, WriteInv, FollowInv, DenseInv,
           [Next]_vars
    PROVE  DenseInv'
  <1>1. CASE file' = file
    BY <1>1 DEF DenseInv, Seqs
  <1>2. ASSUME NEW w \in Writers, Write(w) PROVE DenseInv'
    <2> SUFFICES ASSUME NEW m \in Machines PROVE \E n \in Nat : Seqs(m)' = 0 .. n - 1
      BY DEF DenseInv
    <2>1. PICK n \in Nat : Seqs(m) = 0 .. n - 1
      BY DEF DenseInv
    <2>2. CASE m = event[w].machine
      <3>1. pc[w] = "write" /\ seq[w] \in Nat
        BY <1>2 DEF Write, TypeOK
      <3>2. Seqs(m)' = 0 .. seq[w] - 1 \cup {seq[w]}
        BY <1>2, <2>2, <3>1, WriteNext, WriteSeqs
      <3>3. seq[w] + 1 \in Nat /\ Seqs(m)' = 0 .. (seq[w] + 1) - 1
        BY <3>1, <3>2
      <3> QED BY <3>3
    <2>3. CASE m # event[w].machine
      BY <1>2, <2>1, <2>3, WriteSeqs
    <2> QED BY <2>2, <2>3
  <1> QED BY <1>1, <1>2, FileChange, ReliableWrite DEF PowerLoss

\* The log of m holds the ids of its lines, each at the place its seq names.
LogHolds(m, n) ==
    /\ Seqs(m) = 0 .. n - 1
    /\ LogOf(m) \in Seq(Ids)
    /\ Len(LogOf(m)) = n
    /\ \A b \in Buckets : \A i \in DOMAIN file[m][b] :
          LogOf(m)[file[m][b][i].seq + 1] = file[m][b][i].id

LogInv == \A m \in Machines : \A n \in Nat : Seqs(m) = 0 .. n - 1 => LogHolds(m, n)

\* With each seq on one line, the id on that line is the one for the seq.
LEMMA IdAtLine ==
    ASSUME TypeOK, DistinctSeqs, NEW m \in Machines,
           NEW b \in Buckets, NEW i \in DOMAIN file[m][b]
    PROVE  file[m][b][i].id \in Ids /\ IdAt(m, file[m][b][i].seq) = file[m][b][i].id
  <1> DEFINE s == file[m][b][i].seq
             P(id) == \E c \in Buckets : \E j \in DOMAIN file[m][c] :
                         file[m][c][j].seq = s /\ file[m][c][j].id = id
  <1>1. file[m][b][i].id \in Ids
    <2>1. file[m][b] \in Seq(Lines)
      BY DEF TypeOK
    <2>2. file[m][b][i] \in Lines
      BY <2>1, ElementOfSeq, LenProperties
    <2> QED BY <2>2 DEF Lines
  <1>2. P(file[m][b][i].id)
    OBVIOUS
  <1>3. \A id \in Ids : P(id) => id = file[m][b][i].id
    BY DEF DistinctSeqs
  <1>4. (CHOOSE id \in Ids : P(id)) = file[m][b][i].id
    <2> HIDE DEF P
    <2> QED BY <1>1, <1>2, <1>3
  <1> QED BY <1>1, <1>4 DEF IdAt

LEMMA LogCorrect == TypeOK /\ DistinctSeqs => LogInv
  <1> SUFFICES ASSUME TypeOK, DistinctSeqs, NEW m \in Machines, NEW n \in Nat,
                      Seqs(m) = 0 .. n - 1
               PROVE  LogHolds(m, n)
    BY DEF LogInv
  <1>1. Cardinality(Seqs(m)) = n
    BY FS_Interval
  <1>2. ASSUME NEW s \in 0 .. n - 1 PROVE IdAt(m, s) \in Ids
    <2>1. s \in Seqs(m)
      OBVIOUS
    <2>2. PICK b \in Buckets : \E i \in DOMAIN file[m][b] : file[m][b][i].seq = s
      BY <2>1 DEF Seqs
    <2>3. PICK i \in DOMAIN file[m][b] : file[m][b][i].seq = s
      BY <2>2
    <2> QED BY <2>3, IdAtLine
  <1>3. LogOf(m) = [k \in 1 .. n |-> IdAt(m, k - 1)]
    BY <1>1 DEF LogOf
  <1>4. \A k \in 1 .. n : IdAt(m, k - 1) \in Ids
    <2>1. \A k \in 1 .. n : k - 1 \in 0 .. n - 1
      OBVIOUS
    <2> QED BY <1>2, <2>1
  <1>5. LogOf(m) \in Seq(Ids) /\ Len(LogOf(m)) = n
    BY <1>3, <1>4, IsASeq
  <1>6. ASSUME NEW b \in Buckets, NEW i \in DOMAIN file[m][b]
        PROVE  LogOf(m)[file[m][b][i].seq + 1] = file[m][b][i].id
    <2> DEFINE s == file[m][b][i].seq
    <2>1. s \in Seqs(m)
      BY DEF Seqs
    <2>2. IdAt(m, s) = file[m][b][i].id
      BY IdAtLine
    <2> HIDE DEF s
    <2>3. s + 1 \in 1 .. n /\ (s + 1) - 1 = s
      BY <2>1
    <2>4. LogOf(m)[s + 1] = IdAt(m, (s + 1) - 1)
      BY <1>3, <2>3
    <2> QED BY <2>2, <2>3, <2>4 DEF s
  <1> QED BY <1>5, <1>6 DEF LogHolds

LEMMA LogCorrectNext == TypeOK' /\ DistinctSeqs' => LogInv'
  BY LogCorrect, PTL

\* Where the lines of m stay as they are, so does its log.
LEMMA LogKept ==
    ASSUME LogInv, LogInv', DenseInv, NEW m \in Machines,
           \A b \in Buckets : file'[m][b] = file[m][b]
    PROVE  LogOf(m)' = LogOf(m)
  <1>1. PICK n \in Nat : Seqs(m) = 0 .. n - 1
    BY DEF DenseInv
  <1>2. Seqs(m)' = Seqs(m)
    BY DEF Seqs
  <1>3. LogHolds(m, n) /\ LogHolds(m, n)'
    BY <1>1, <1>2 DEF LogInv
  <1>4. ASSUME NEW k \in 1 .. n PROVE LogOf(m)'[k] = LogOf(m)[k]
    <2>1. k - 1 \in Seqs(m)
      BY <1>1
    <2>2. PICK b \in Buckets : \E i \in DOMAIN file[m][b] : file[m][b][i].seq = k - 1
      BY <2>1 DEF Seqs
    <2>3. PICK i \in DOMAIN file[m][b] : file[m][b][i].seq = k - 1
      BY <2>2
    <2>4. (k - 1) + 1 = k
      OBVIOUS
    <2>5. LogOf(m)[k] = file[m][b][i].id /\ LogOf(m)'[k] = file[m][b][i].id
      BY <1>3, <2>3, <2>4 DEF LogHolds
    <2> QED BY <2>5
  <1>5. LogOf(m) \in Seq(Ids) /\ LogOf(m)' \in Seq(Ids) /\ Len(LogOf(m)) = n /\ Len(LogOf(m)') = n
    BY <1>3 DEF LogHolds
  <1> QED BY <1>4, <1>5, SeqEqual

\* Write puts the id of its event at the end of its machine's log, at the place of
\* its seq, and leaves the other logs alone.
LEMMA WriteLog ==
    ASSUME Reliable, TypeOK, AllSound, LogInv, LogInv', WriteInv, FollowInv, DenseInv,
           NEW w \in Writers, Write(w), NEW m \in Machines
    PROVE  /\ m # event[w].machine => LogOf(m)' = LogOf(m)
           /\ m = event[w].machine => /\ LogOf(m)' = Append(LogOf(m), event[w].id)
                                      /\ Len(LogOf(m)) = seq[w]
  <1> DEFINE b == event[w].bucket
             id == event[w].id
  <1>1. /\ event[w].machine \in Machines /\ b \in Buckets /\ id \in Ids
        /\ Grows(event[w].machine, b, LineOf(w, "whole"))
    BY ReliableWrite DEF Events
  <1>2. CASE m # event[w].machine
    <2>1. \A c \in Buckets : file'[m][c] = file[m][c]
      BY <1>1, <1>2 DEF Grows
    <2> QED BY <1>2, <2>1, LogKept
  <1>3. CASE m = event[w].machine
    <2>0. pc[w] = "write" /\ seq[w] \in Nat
      BY DEF Write, TypeOK
    <2>1. PICK n \in Nat : n = seq[w]
      BY <2>0
    <2>2. Seqs(m) = 0 .. n - 1
      BY <1>3, <2>0, <2>1, WriteNext
    <2>3. n + 1 \in Nat /\ Seqs(m)' = 0 .. (n + 1) - 1
      <3>1. Seqs(m)' = Seqs(m) \cup {n}
        BY <1>3, <2>1, WriteSeqs
      <3> QED BY <2>2, <3>1
    <2>4. LogHolds(m, n)
      BY <2>1, <2>2 DEF LogInv
    <2>5. LogHolds(m, n + 1)'
      BY <2>3 DEF LogInv
    <2>6. Grows(m, b, LineOf(w, "whole"))
      BY <1>1, <1>3
    <2>7. LogOf(m)'[n + 1] = id
      <3>1. Len(file[m][b]) + 1 \in DOMAIN file'[m][b]
        BY <2>6 DEF Grows
      <3>2. /\ file'[m][b][Len(file[m][b]) + 1].seq = n
            /\ file'[m][b][Len(file[m][b]) + 1].id = id
        BY <2>1, <2>6 DEF Grows, LineOf
      <3> QED BY <1>1, <2>5, <3>1, <3>2 DEF LogHolds
    <2>8. ASSUME NEW k \in 1 .. n PROVE LogOf(m)'[k] = LogOf(m)[k]
      <3>1. k - 1 \in Seqs(m)
        BY <2>1, <2>2
      <3>2. PICK c \in Buckets : \E i \in DOMAIN file[m][c] : file[m][c][i].seq = k - 1
        BY <3>1 DEF Seqs
      <3>3. PICK i \in DOMAIN file[m][c] : file[m][c][i].seq = k - 1
        BY <3>2
      <3>4. i \in DOMAIN file'[m][c] /\ file'[m][c][i] = file[m][c][i]
        <4>1. CASE c = b
          <5>1. /\ Len(file[m][b]) \in Nat /\ DOMAIN file[m][b] = 1 .. Len(file[m][b])
                /\ DOMAIN file'[m][b] = 1 .. Len(file[m][b]) + 1
                /\ \A j \in DOMAIN file[m][b] : file'[m][b][j] = file[m][b][j]
            BY <2>6 DEF Grows
          <5> QED BY <4>1, <5>1
        <4>2. CASE c # b
          <5>1. file'[m][c] = file[m][c]
            BY <2>6, <4>2 DEF Grows
          <5> QED BY <5>1
        <4> QED BY <4>1, <4>2
      <3>5. (k - 1) + 1 = k
        BY <2>1
      <3>6. LogOf(m)[k] = file[m][c][i].id
        BY <2>4, <3>3, <3>5 DEF LogHolds
      <3>7. LogOf(m)'[k] = file'[m][c][i].id
        BY <2>5, <3>3, <3>4, <3>5 DEF LogHolds
      <3> QED BY <3>4, <3>6, <3>7
    <2>9. /\ LogOf(m) \in Seq(Ids) /\ Len(LogOf(m)) = n
          /\ LogOf(m)' \in Seq(Ids) /\ Len(LogOf(m)') = n + 1
      BY <2>4, <2>5 DEF LogHolds
    <2> HIDE DEF id, b
    <2>10. /\ Append(LogOf(m), id) \in Seq(Ids) /\ Len(Append(LogOf(m), id)) = n + 1
           /\ \A k \in 1 .. n : Append(LogOf(m), id)[k] = LogOf(m)[k]
           /\ Append(LogOf(m), id)[n + 1] = id
      BY <1>1, <2>9, AppendProperties
    <2>11. \A k \in 1 .. n + 1 : LogOf(m)'[k] = Append(LogOf(m), id)[k]
      BY <2>1, <2>7, <2>8, <2>10
    <2>12. LogOf(m)' = Append(LogOf(m), id)
      BY <2>9, <2>10, <2>11, SeqEqual
    <2> QED BY <1>3, <2>1, <2>9, <2>12 DEF id
  <1> QED BY <1>2, <1>3

-----------------------------------------------------------------------------
(* The refinement, step by step.                                            *)

\* A writer that rests, or goes on without a line being added, has the same call.
LEMMA CallKept ==
    ASSUME NEW w \in Writers, event'[w] = event[w], pc[w] # "idle", pc'[w] # "idle",
           LineWritten(w)' <=> LineWritten(w), LineWritten(w) => seq'[w] = seq[w]
    PROVE  CallOf(w)' = CallOf(w)
  BY DEF CallOf

LEMMA IdleKept ==
    ASSUME NEW w \in Writers, pc[w] = "idle", pc'[w] = "idle"
    PROVE  CallOf(w)' = CallOf(w)
  BY DEF CallOf

\* The call of an append under way is not NoEvent.
LEMMA CallType ==
    ASSUME TypeOK, NEW w \in Writers, pc[w] # "idle"
    PROVE  /\ CallOf(w) # NoEvent
           /\ CallOf(w) = [id |-> event[w].id, machine |-> event[w].machine,
                           seq |-> IF LineWritten(w) THEN seq[w] ELSE -1]
           /\ event[w].id \in Ids /\ event[w].machine \in Machines /\ seq[w] \in Nat
  <1>1. event[w].id \in Ids /\ event[w].machine \in Machines /\ seq[w] \in Nat
    BY DEF TypeOK, Events
  <1>2. CallOf(w) = [id |-> event[w].id, machine |-> event[w].machine,
                     seq |-> IF LineWritten(w) THEN seq[w] ELSE -1]
    BY DEF CallOf
  <1>3. CallOf(w) \in L!Calls
    BY <1>1, <1>2 DEF L!Calls
  <1> QED BY <1>1, <1>2, <1>3, NoCallAssumption

\* While no line is added the logs are what they were.
LEMMA LogsKept ==
    ASSUME LogInv, LogInv', DenseInv, file' = file
    PROVE  Logs' = Logs
  BY LogKept DEF Logs

LEMMA RefineInit == Init => L!Init
  <1> SUFFICES ASSUME Init PROVE L!Init
    OBVIOUS
  <1>1. ASSUME NEW m \in Machines PROVE LogOf(m) = <<>>
    <2>1. Seqs(m) = {}
      BY EmptySeq, LenProperties DEF Init, Seqs
    <2>2. Cardinality(Seqs(m)) = 0
      BY <2>1, FS_EmptySet
    <2>3. LogOf(m) = [n \in 1 .. 0 |-> IdAt(m, n - 1)]
      BY <2>2 DEF LogOf
    <2>4. LogOf(m) \in Seq({}) /\ Len(LogOf(m)) = 0
      BY <2>3, IsASeq
    <2> QED BY <2>4, EmptySeq
  <1>2. Logs = [m \in Machines |-> <<>>]
    BY <1>1 DEF Logs
  <1>3. UnderWay = [w \in Writers |-> NoEvent]
    BY DEF Init, UnderWay, CallOf
  <1>4. Returned = {}
    BY DEF Init, Returned
  <1> QED BY <1>2, <1>3, <1>4 DEF L!Init

\* A step in which the logs, the appends under way and what has returned stay as they
\* are is none of the ledger's.
LEMMA Stutter ==
    ASSUME Logs' = Logs, \A w \in Writers : CallOf(w)' = CallOf(w), acked' = acked
    PROVE  UNCHANGED L!vars
  <1>1. UnderWay' = UnderWay
    BY DEF UnderWay
  <1>2. Returned' = Returned
    BY DEF Returned
  <1> QED BY <1>1, <1>2 DEF L!vars

\* The steps that only move the writer on.
Inner(w) == Acquire(w) \/ (Step(w) /\ ~ Write(w) /\ ~ Return(w) /\ ~ Raise(w))

LEMMA InnerStep ==
    ASSUME TypeOK, IdInv, LogInv, LogInv', DenseInv, NEW w \in Writers, Inner(w)
    PROVE  UNCHANGED L!vars
  <1>1. /\ file' = file /\ event' = event /\ acked' = acked
        /\ seq' = seq \/ Assign(w)
        /\ pc[w] # "idle" /\ pc'[w] # "idle"
        /\ \A v \in Writers : v # w => pc'[v] = pc[v]
    BY DEF Inner, Acquire, Step, ScanFile, SkipFile, ScanRaises, Assign, AssignRaises,
           WriteRaises, Sync, SyncRaises, TypeOK, diskVars
  <1>2. \A v \in Writers : LineWritten(v) => seq'[v] = seq[v]
    BY <1>1, EarlyUnwritten DEF Assign, TypeOK
  <1>3. \A v \in Writers : CallOf(v)' = CallOf(v)
    BY <1>1, <1>2, WrittenKept, CallKept, IdleKept
  <1>4. Logs' = Logs
    BY <1>1, LogsKept
  <1> QED BY <1>1, <1>3, <1>4, Stutter

LEMMA CallStep ==
    ASSUME TypeOK, TypeOK', IdInv, IdInv', LogInv, LogInv', DenseInv,
           NEW w \in Writers, NEW e \in Events, Call(w, e)
    PROVE  L!Begin(w, e.id, e.machine)
  <1>1. /\ file' = file /\ acked' = acked /\ pc[w] = "idle" /\ pc'[w] = "wait" /\ event'[w] = e
        /\ \A v \in Writers : v # w => /\ pc'[v] = pc[v] /\ event'[v] = event[v]
                                      /\ seq'[v] = seq[v]
    BY DEF Call, TypeOK
  <1>2. Logs' = Logs /\ Returned' = Returned
    BY <1>1, LogsKept DEF Returned
  <1>3. \A v \in Writers : v # w => CallOf(v)' = CallOf(v)
    BY <1>1, WrittenKept, CallKept, IdleKept
  <1>4. CallOf(w) = NoEvent
    BY <1>1 DEF CallOf
  <1>5. ~ LineWritten(w)'
    BY <1>1 DEF IdInv, HasLine, LineWritten, Events
  <1>6. CallOf(w)' = [id |-> e.id, machine |-> e.machine, seq |-> -1]
    BY <1>1, <1>5 DEF CallOf
  <1>7. UnderWay' = [UnderWay EXCEPT ![w] = [id |-> e.id, machine |-> e.machine, seq |-> -1]]
    BY <1>3, <1>6 DEF UnderWay
  <1>8. UnderWay[w] = NoEvent
    BY <1>4 DEF UnderWay
  <1> QED BY <1>2, <1>7, <1>8 DEF L!Begin

LEMMA CommitStep ==
    ASSUME Reliable, TypeOK, AllSound, IdInv, LogInv, LogInv', DenseInv, WriteInv, FollowInv,
           NEW w \in Writers, Write(w)
    PROVE  L!Commit(w)
  <1>1. /\ pc[w] = "write" /\ pc'[w] = "sync" /\ event' = event /\ seq' = seq /\ acked' = acked
        /\ \A v \in Writers : v # w => pc'[v] = pc[v]
    BY DEF Write, TypeOK
  <1>2. /\ ~ LineWritten(w) /\ LineWritten(w)'
        /\ \A v \in Writers : v # w /\ pc[v] # "idle" => (LineWritten(v)' <=> LineWritten(v))
    BY <1>1, WriteIds, EarlyUnwritten
  <1>3. PICK m \in Machines, id \in Ids, n \in Nat :
            m = event[w].machine /\ id = event[w].id /\ n = seq[w]
    BY <1>1, CallType
  <1>4. CallOf(w) # NoEvent /\ CallOf(w) = [id |-> id, machine |-> m, seq |-> -1]
    BY <1>1, <1>2, <1>3, CallType
  <1>5. CallOf(w)' = [id |-> id, machine |-> m, seq |-> n]
    BY <1>1, <1>2, <1>3 DEF CallOf
  <1>6. \A v \in Writers : v # w => CallOf(v)' = CallOf(v)
    BY <1>1, <1>2, CallKept, IdleKept
  <1>7. /\ \A k \in Machines : k # m => LogOf(k)' = LogOf(k)
        /\ LogOf(m)' = Append(LogOf(m), id)
        /\ Len(LogOf(m)) = n
    BY <1>3, WriteLog
  <1>8. Logs' = [Logs EXCEPT ![m] = Append(Logs[m], id)] /\ Len(Logs[m]) = n
    BY <1>7 DEF Logs
  <1>9. UnderWay' = [UnderWay EXCEPT ![w].seq = n]
    <2>1. UnderWay[w] = CallOf(w)
      BY DEF UnderWay
    <2>2. [UnderWay[w] EXCEPT !.seq = n] = CallOf(w)'
      BY <1>4, <1>5, <2>1
    <2> QED BY <1>6, <2>2 DEF UnderWay
  <1>10. /\ UnderWay[w] # NoEvent /\ UnderWay[w].seq = -1
         /\ UnderWay[w].machine = m /\ UnderWay[w].id = id
    BY <1>4 DEF UnderWay
  <1>11. Returned' = Returned
    BY <1>1 DEF Returned
  <1> QED BY <1>8, <1>9, <1>10, <1>11 DEF L!Commit

\* The append of w is over: its call is taken from those under way.
LEMMA LeaveCall ==
    ASSUME TypeOK, LogInv, LogInv', DenseInv, file' = file, NEW w \in Writers, Leave(w)
    PROVE  Logs' = Logs /\ UnderWay' = [UnderWay EXCEPT ![w] = NoEvent]
  <1>1. /\ pc'[w] = "idle"
        /\ \A v \in Writers : v # w => /\ pc'[v] = pc[v] /\ event'[v] = event[v]
                                      /\ seq'[v] = seq[v]
    BY DEF Leave, TypeOK
  <1>2. \A v \in Writers : v # w => CallOf(v)' = CallOf(v)
    BY <1>1, WrittenKept, CallKept, IdleKept
  <1>3. CallOf(w)' = NoEvent
    BY <1>1 DEF CallOf
  <1>4. UnderWay' = [UnderWay EXCEPT ![w] = NoEvent]
    BY <1>2, <1>3 DEF UnderWay
  <1> QED BY <1>4, LogsKept

LEMMA ReturnStep ==
    ASSUME TypeOK, LineInv, LogInv, LogInv', DenseInv, NEW w \in Writers, Return(w)
    PROVE  L!Return(w)
  <1> DEFINE m == event[w].machine
             b == event[w].bucket
             a == [id |-> event[w].id, machine |-> m, bucket |-> b, seq |-> seq[w]]
  <1>1. /\ pc[w] = "done" /\ file' = file /\ Leave(w) /\ acked' = acked \cup {a}
        /\ m \in Machines /\ b \in Buckets
    BY DEF Return, diskVars, TypeOK, Events
  <1>2. LineWritten(w)
    <2>1. PICK i \in 1 .. synced[m][b], part \in Parts : file[m][b][i] = LineOf(w, part)
      BY <1>1 DEF LineInv
    <2>2. i \in DOMAIN file[m][b]
      BY <1>1, <2>1, LenProperties DEF TypeOK
    <2> QED BY <2>1, <2>2 DEF LineWritten, LineOf
  <1>3. /\ CallOf(w) # NoEvent /\ seq[w] \in Nat
        /\ CallOf(w) = [id |-> event[w].id, machine |-> m, seq |-> seq[w]]
    BY <1>1, <1>2, CallType
  <1>4. CallOf(w) = EntryOf(a) /\ CallOf(w).seq # -1
    BY <1>3 DEF EntryOf
  <1> HIDE DEF a
  <1>5. Returned' = Returned \cup {CallOf(w)}
    BY <1>1, <1>4 DEF Returned
  <1>6. UnderWay[w] = CallOf(w)
    BY DEF UnderWay
  <1> QED BY <1>1, <1>3, <1>4, <1>5, <1>6, LeaveCall DEF L!Return

LEMMA AbandonStep ==
    ASSUME TypeOK, LogInv, LogInv', DenseInv, NEW w \in Writers, Raise(w) \/ Kill(w)
    PROVE  L!Abandon(w)
  <1>1. pc[w] # "idle" /\ file' = file /\ Leave(w) /\ acked' = acked
    BY DEF Raise, Kill, diskVars
  <1>2. UnderWay[w] # NoEvent
    BY <1>1, CallType DEF UnderWay
  <1>3. Returned' = Returned
    BY <1>1 DEF Returned
  <1> QED BY <1>1, <1>2, <1>3, LeaveCall DEF L!Abandon

LEMMA RefineStep ==
    ASSUME Reliable, "power" \notin Faults, TypeOK, LineInv, IdInv, IdInv', LogInv, LogInv',
           AllSound, DenseInv, WriteInv, FollowInv, TypeOK', [Next]_vars
    PROVE  [L!Next]_(L!vars)
  <1>1. ASSUME NEW w \in Writers, NEW e \in Events, Call(w, e) PROVE L!Next
    BY <1>1, CallStep DEF L!Next, Events
  <1>2. ASSUME NEW w \in Writers, Inner(w) PROVE UNCHANGED L!vars
    BY <1>2, InnerStep
  <1>3. ASSUME NEW w \in Writers, Write(w) PROVE L!Next
    BY <1>3, CommitStep DEF L!Next
  <1>4. ASSUME NEW w \in Writers, Return(w) PROVE L!Next
    BY <1>4, ReturnStep DEF L!Next
  <1>5. ASSUME NEW w \in Writers, Raise(w) \/ Kill(w) PROVE L!Next
    BY <1>5, AbandonStep DEF L!Next
  <1>6. CASE UNCHANGED vars
    <2>1. /\ file' = file /\ event' = event /\ pc' = pc /\ seq' = seq /\ acked' = acked
      BY <1>6 DEF vars, diskVars, writerVars
    <2>2. \A w \in Writers : CallOf(w)' = CallOf(w)
      BY <2>1, WrittenKept, CallKept, IdleKept
    <2> QED BY <2>1, <2>2, LogsKept, Stutter
  <1> QED BY <1>1, <1>2, <1>3, <1>4, <1>5, <1>6
          DEF Next, Inner, Tear, WriteBack, PowerLoss, Reliable

\* On a reliable host that keeps its power the store implements the ledger: whatever
\* processes append at once, raise or are killed, each append takes effect in one step
\* between its call and its return, at the end of its machine's log, or not at all,
\* and returns the place it got.
THEOREM Refinement == ASSUME Reliable, "power" \notin Faults PROVE Spec => ImplementsLedger
  <1>1. TypeOK /\ AllSound /\ WriteInv /\ FollowInv /\ DenseInv /\ [Next]_vars =>
            FollowInv' /\ DenseInv'
    BY FollowStep, DenseStep
  <1>2. Init => FollowInv /\ DenseInv
    BY DenseInit DEF Init, FollowInv
  <1>3. SeqInv => WriteInv /\ LastingDistinct
    BY DEF SeqInv
  <1>4. StoredInv => LineInv
    BY DEF StoredInv
  <1>5. "scanerror" \notin Faults
    BY DEF Reliable
  <1>6. Spec => [](TypeOK /\ AllSound /\ WriteInv /\ LastingDistinct /\ LineInv)
    BY <1>3, <1>4, <1>5, TypeCorrect, SoundCorrect, SeqCorrect, StoredCorrect, PTL
  <1>7. Spec => [](FollowInv /\ DenseInv)
    BY <1>1, <1>2, <1>6, PTL DEF Spec
  <1>8. TypeOK /\ AllSound /\ LastingDistinct => LogInv
    BY SoundDistinct, LogCorrect
  <1>9. TypeOK /\ TypeOK' /\ AllSound /\ WriteInv /\ LineInv /\ FollowInv /\ IdInv /\ IdInv'
            /\ DenseInv /\ LogInv /\ LogInv' /\ [Next]_vars => [L!Next]_(L!vars)
    BY RefineStep
  <1> QED
    BY <1>6, <1>7, <1>8, <1>9, IdCorrect, RefineInit, PTL DEF Spec, ImplementsLedger, L!Spec

\* What Ledger's steps entail therefore holds of the store.
P == INSTANCE LedgerProofs WITH
        Clients <- Writers, NoCall <- NoEvent,
        log <- Logs, call <- UnderWay, acked <- Returned

\* Read off the files, the entry that an append returned is at its place in its
\* machine's log, counting the lines by seq over all months.
THEOREM ReturnedInPlace ==
    ASSUME Reliable, "power" \notin Faults
    PROVE  Spec => []L!AckedInPlace
  <1>1. L!Spec => P!Spec
    BY DEF L!Spec, P!Spec, L!Init, P!Init, L!Next, P!Next, L!vars, P!vars, L!Begin, P!Begin,
           L!Commit, P!Commit, L!Return, P!Return, L!Abandon, P!Abandon
  <1>2. P!AckedInPlace => L!AckedInPlace
    BY DEF P!AckedInPlace, L!AckedInPlace
  <1>3. NoEvent \notin P!Calls
    BY NoCallAssumption DEF L!Calls, P!Calls
  <1>4. P!Spec => []P!AckedInPlace
    BY <1>3, P!EntriesInPlace
  <1> QED BY <1>1, <1>2, <1>4, Refinement, PTL DEF ImplementsLedger
==============================================================================
