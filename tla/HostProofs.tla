------------------------------ MODULE HostProofs ------------------------------
(***************************************************************************)
(* What holds of the processes of a host, however many they are, whatever  *)
(* befalls them and however many ids are drawn.                            *)
(***************************************************************************)
EXTENDS Host, LedgerStoreProofs, FiniteSetTheorems

-----------------------------------------------------------------------------
(* The store, as the processes of a host use it.                            *)

LEMMA StoreMoves == [HostNext]_hostVars => [Next]_vars
  <1> SUFFICES ASSUME [HostNext]_hostVars PROVE Next \/ UNCHANGED vars
    BY DEF Next
  <1>1. ASSUME NEW w \in Writers, HostStep(w) PROVE Next \/ UNCHANGED vars
    <2>1. ASSUME NEW e \in Events, Log(w, e) PROVE Next
      BY <2>1 DEF Log, Next
    <2>2. CASE StoreStep(w)
      BY <2>2 DEF StoreStep, Next
    <2>3. CASE ~ StoreStep(w) /\ ~ \E e \in Events : Log(w, e)
      BY <1>1, <2>3 DEF HostStep, TakeGiven, ReadId, DrawId, OpenId, WriteId, IdRaises,
                        RejectData, KillEarly
    <2> QED BY <2>1, <2>2, <2>3
  <1>2. CASE StoreWriteBack
    BY <1>2 DEF StoreWriteBack, Next
  <1>3. CASE WriteBackId
    BY <1>3 DEF WriteBackId
  <1>4. CASE HostPowerLoss
    BY <1>4 DEF HostPowerLoss, Next
  <1>5. CASE UNCHANGED hostVars
    BY <1>5 DEF hostVars
  <1> QED BY <1>1, <1>2, <1>3, <1>4, <1>5 DEF HostNext

\* `ledger log` and the ledger_log tool use the store as its callers may: whatever is
\* proved of the store holds on the host.
THEOREM UsesStore == HostSpec => Spec
  <1>1. HostInit => Init
    BY DEF HostInit
  <1> QED BY <1>1, StoreMoves, PTL DEF HostSpec, Spec

-----------------------------------------------------------------------------
(* The types.                                                               *)

\* The store moves w itself, or one that has been called.
LEMMA StoreStepMoves ==
    ASSUME TypeOK, NEW w \in Writers, StoreStep(w)
    PROVE  /\ pc[w] # "idle"
           /\ \A v \in Writers : v # w => /\ pc'[v] = pc[v]
                                          /\ event'[v] = event[v]
                                          /\ todo'[v] = todo[v]
           /\ pc'[w] # "idle" => event'[w] = event[w]
  <1>1. CASE Acquire(w)
    BY <1>1 DEF Acquire, TypeOK
  <1>2. CASE Step(w)
    BY <1>2 DEF Step, ScanFile, SkipFile, ScanRaises, Assign, AssignRaises, Write,
                WriteRaises, Sync, SyncRaises, Return, Raise, Leave, TypeOK
  <1>3. CASE Kill(w) \/ Tear(w)
    BY <1>3 DEF Kill, Tear, Leave, TypeOK
  <1> QED BY <1>1, <1>2, <1>3 DEF StoreStep

\* What the machine-id steps do to the types.
IdTypes ==
    /\ idFile \in {Absent, Blank} \cup drawn
    /\ idDisk \in {Absent, Blank} \cup drawn
    /\ drawn \subseteq Uuids
    /\ step \in [Writers -> {"idle", "open", "write", "resolved"}]
    /\ mine \in [Writers -> {Blank} \cup Machines]
    /\ \A w \in Writers : step[w] = "resolved" => mine[w] \in Machines
    /\ \A w \in Writers : Making(w) => mine[w] \in drawn
    /\ \A w \in Writers : pc[w] # "idle" => step[w] = "idle"
    /\ handed \subseteq drawn
    /\ raced \in BOOLEAN
    /\ split \in BOOLEAN
    /\ blind \in BOOLEAN

LEMMA UuidType == Uuids \subseteq Nat /\ Absent \notin Nat /\ Blank \notin Nat /\ Absent # Blank
  BY HostAssumption, ConstantsAssumption DEF Absent, Blank

LEMMA IdTypesInit == HostInit => IdTypes
  BY DEF HostInit, Init, IdTypes, Making

LEMMA ResolveTypes ==
    ASSUME IdTypes, NEW w \in Writers, NEW m \in Machines, Resolve(w, m), pc[w] = "idle"
    PROVE  /\ step' \in [Writers -> {"idle", "open", "write", "resolved"}]
           /\ mine' \in [Writers -> {Blank} \cup Machines]
           /\ \A v \in Writers : step'[v] = "resolved" => mine'[v] \in Machines
           /\ \A v \in Writers : Making(v)' => Making(v) /\ mine'[v] = mine[v]
           /\ \A v \in Writers : pc[v] # "idle" => step'[v] = "idle"
           /\ \A v \in Writers : v # w => step'[v] = step[v]
           /\ ~ Making(w)' /\ step'[w] = "resolved" /\ mine'[w] = m
  BY DEF IdTypes, Resolve, Making

LEMMA ForgetTypes ==
    ASSUME IdTypes, NEW w \in Writers, Forget(w)
    PROVE  /\ step' \in [Writers -> {"idle", "open", "write", "resolved"}]
           /\ mine' \in [Writers -> {Blank} \cup Machines]
           /\ \A v \in Writers : step'[v] = "resolved" =>
                 step[v] = "resolved" /\ mine'[v] = mine[v]
           /\ \A v \in Writers : Making(v)' => Making(v) /\ mine'[v] = mine[v]
           /\ \A v \in Writers : step[v] = "idle" \/ v = w => step'[v] = "idle"
  BY DEF IdTypes, Forget, Making

LEMMA RecordTypes ==
    ASSUME IdTypes, NEW S, S \subseteq drawn, Record(S)
    PROVE  /\ raced' \in BOOLEAN /\ handed' \subseteq drawn
           /\ split' = split /\ blind' = blind
  BY DEF IdTypes, Record

LEMMA IdTypesStep == TypeOK /\ IdTypes /\ [HostNext]_hostVars => IdTypes'
  <1> SUFFICES ASSUME TypeOK, IdTypes, [HostNext]_hostVars PROVE IdTypes'
    OBVIOUS
  <1> USE DEF history, idVars
  <1>0. /\ Uuids \subseteq Machines /\ HostName \in Machines /\ Given \in Machines
        /\ \A u \in Uuids : u # Absent /\ u # Blank
    BY HostAssumption, UuidType
  <1>1. ASSUME UNCHANGED vars PROVE UNCHANGED pc
    BY <1>1 DEF vars, writerVars
  <1>2. ASSUME NEW w \in Writers, TakeGiven(w) PROVE IdTypes'
    BY <1>0, <1>1, <1>2, ResolveTypes DEF TakeGiven, MayBegin, IdTypes
  <1>3. ASSUME NEW w \in Writers, ReadId(w) PROVE IdTypes'
    <2>1. idFile \in drawn /\ idFile \in Machines
      BY <1>0, <1>3 DEF ReadId, Usable, IdTypes
    <2>2. Record({idFile}) /\ {idFile} \subseteq drawn
      BY <1>3, <2>1 DEF ReadId
    <2> HIDE DEF history
    <2>3. /\ raced' \in BOOLEAN /\ handed' \subseteq drawn
          /\ split' = split /\ blind' = blind
      BY <2>2, RecordTypes
    <2> QED BY <1>1, <1>3, <2>1, <2>3, ResolveTypes DEF ReadId, MayBegin, IdTypes
  <1>4. ASSUME NEW w \in Writers, NEW u \in Uuids, DrawId(w, u) PROVE IdTypes'
    <2>1. UNCHANGED <<pc, idFile, idDisk, blind>> /\ pc[w] = "idle" /\ u \in Machines
      BY <1>0, <1>1, <1>4 DEF DrawId, MayBegin
    <2>2. /\ step' = [step EXCEPT ![w] = "open"] /\ mine' = [mine EXCEPT ![w] = u]
          /\ drawn' = drawn \cup {u}
      BY <1>4 DEF DrawId
    <2>3. /\ step' \in [Writers -> {"idle", "open", "write", "resolved"}]
          /\ mine' \in [Writers -> {Blank} \cup Machines]
          /\ \A v \in Writers : step'[v] = "resolved" => mine'[v] \in Machines
          /\ \A v \in Writers : Making(v)' => mine'[v] \in drawn'
          /\ \A v \in Writers : pc[v] # "idle" => step'[v] = "idle"
      BY <2>1, <2>2 DEF IdTypes, Making
    <2>4. raced' \in BOOLEAN /\ split' \in BOOLEAN /\ handed' \subseteq drawn'
      BY <1>4, <2>2 DEF DrawId, IdTypes
    <2> QED BY <2>1, <2>2, <2>3, <2>4 DEF IdTypes
  <1>5. ASSUME NEW w \in Writers, OpenId(w) PROVE IdTypes'
    BY <1>1, <1>5 DEF OpenId, IdTypes, Making
  <1>6. ASSUME NEW w \in Writers, WriteId(w) PROVE IdTypes'
    <2>1. mine[w] \in drawn /\ mine[w] \in Machines /\ pc[w] = "idle"
      BY <1>0, <1>6 DEF WriteId, IdTypes, Making, TypeOK
    <2>2. Record({mine[w]}) /\ {mine[w]} \subseteq drawn
      BY <1>6, <2>1 DEF WriteId
    <2> HIDE DEF history
    <2>3. /\ raced' \in BOOLEAN /\ handed' \subseteq drawn
          /\ split' = split /\ blind' = blind
      BY <2>2, RecordTypes
    <2> QED BY <1>1, <1>6, <2>1, <2>3, ResolveTypes DEF WriteId, Written, IdTypes
  <1>7. ASSUME NEW w \in Writers, IdRaises(w) PROVE IdTypes'
    <2>1. pc[w] = "idle"
      BY <1>7 DEF IdRaises, MayBegin, Making, IdTypes, TypeOK
    <2>2. Record({})
      BY <1>7 DEF IdRaises
    <2> HIDE DEF history
    <2>3. /\ raced' \in BOOLEAN /\ handed' \subseteq drawn
          /\ split' = split /\ blind' = blind
      BY <2>2, RecordTypes
    <2> QED BY <1>0, <1>1, <1>7, <2>1, <2>3, ResolveTypes DEF IdRaises, Fallback, IdTypes
  <1>8. ASSUME NEW w \in Writers, RejectData(w) PROVE IdTypes'
    BY <1>1, <1>8, ForgetTypes DEF RejectData, IdTypes
  <1>9. ASSUME NEW w \in Writers, NEW e \in Events, Log(w, e) PROVE IdTypes'
    <2>1. \A v \in Writers : v # w => pc'[v] = pc[v]
      BY <1>9 DEF Log, Call, TypeOK
    <2> QED BY <1>9, <2>1, ForgetTypes DEF Log, IdTypes
  <1>10. ASSUME NEW w \in Writers, KillEarly(w) PROVE IdTypes'
    <2>1. Record({})
      BY <1>10 DEF KillEarly
    <2> HIDE DEF history
    <2>2. /\ raced' \in BOOLEAN /\ handed' \subseteq drawn
          /\ split' = split /\ blind' = blind
      BY <2>1, RecordTypes
    <2> QED BY <1>1, <1>10, <2>2, ForgetTypes DEF KillEarly, IdTypes
  <1>11. ASSUME NEW w \in Writers, StoreStep(w) PROVE IdTypes'
    <2>1. pc[w] # "idle" /\ \A v \in Writers : v # w => pc'[v] = pc[v]
      BY <1>11, StoreStepMoves
    <2>2. UNCHANGED <<idFile, idDisk, drawn, step, mine, raced, handed, split>>
      BY <1>11 DEF StoreStep
    <2>3. blind' \in BOOLEAN
      BY <1>11 DEF StoreStep
    <2> QED BY <2>1, <2>2, <2>3 DEF IdTypes, Making
  <1>12. CASE StoreWriteBack
    BY <1>12 DEF StoreWriteBack, WriteBack, writerVars, IdTypes, Making
  <1>13. CASE WriteBackId
    BY <1>1, <1>13 DEF WriteBackId, IdTypes, Making
  <1>14. CASE HostPowerLoss
    <2>1. pc' = [w \in Writers |-> "idle"]
      BY <1>14 DEF HostPowerLoss, PowerLoss
    <2>2. split' \in BOOLEAN
      BY <1>14 DEF HostPowerLoss
    <2> QED BY <1>14, <2>1, <2>2 DEF HostPowerLoss, IdTypes, Making
  <1>15. CASE UNCHANGED hostVars
    BY <1>1, <1>15 DEF hostVars, IdTypes, Making
  <1> QED
    BY <1>2, <1>3, <1>4, <1>5, <1>6, <1>7, <1>8, <1>9, <1>10, <1>11, <1>12, <1>13, <1>14, <1>15
    DEF HostNext, HostStep

LEMMA IdTypesCorrect == HostSpec => []IdTypes
  <1>1. TypeOK /\ IdTypes /\ [HostNext]_hostVars => IdTypes'
    BY IdTypesStep
  <1> QED BY <1>1, IdTypesInit, UsesStore, TypeCorrect, PTL DEF HostSpec

\* Every variable of a host holds a value of its kind, and no process resolves a blank
\* id or one that nobody drew (machine.py, resolve_machine_id).
THEOREM HostTypeCorrect == HostSpec => []HostTypeOK
  <1>1. TypeOK /\ IdTypes => HostTypeOK
    BY DEF IdTypes, HostTypeOK
  <1> QED BY <1>1, IdTypesCorrect, UsesStore, TypeCorrect, PTL

-----------------------------------------------------------------------------
(* One id.                                                                  *)

\* What a step that makes no id and leaves the file alone does to FileInv.
LEMMA QuietFile ==
    ASSUME FileInv, NEW S, S \subseteq {idFile}, Record(S), idFile' = idFile, drawn' = drawn,
           \A v \in Writers : Making(v)' => Making(v) /\ mine'[v] = mine[v],
           raced => S \cap handed = {}
    PROVE  FileInv'
  <1>1. Usable' <=> Usable
    BY DEF Usable
  <1>2. raced' <=> raced /\ \E v \in Writers : Making(v)'
    BY DEF Record
  <1>3. handed' \subseteq {idFile'} /\ (raced' => handed' = {})
    BY DEF Record, FileInv
  <1>4. CASE raced'
    BY <1>2, <1>3, <1>4 DEF FileInv
  <1>5. CASE ~ raced'
    <2>1. \A v \in Writers : Making(v)' => ~ raced
      BY <1>2, <1>5
    <2> QED BY <1>1, <1>3, <1>5, <2>1 DEF FileInv
  <1> QED BY <1>4, <1>5

LEMMA FileStep == TypeOK /\ IdTypes /\ FileInv /\ [HostNext]_hostVars => FileInv'
  <1> SUFFICES ASSUME TypeOK, IdTypes, FileInv, [HostNext]_hostVars PROVE FileInv'
    OBVIOUS
  <1> USE DEF history, idVars
  <1>0. /\ Uuids \subseteq Machines /\ HostName \in Machines /\ Given \in Machines
        /\ \A u \in Uuids : u # Absent /\ u # Blank
    BY HostAssumption, UuidType
  \* Nothing but the step of one process changes.
  <1>1. ASSUME UNCHANGED <<idFile, drawn, raced, handed>>,
               \A v \in Writers : Making(v)' => Making(v) /\ mine'[v] = mine[v]
        PROVE  FileInv'
    BY <1>1 DEF FileInv, Usable
  <1>2. ASSUME NEW w \in Writers, NEW m \in Machines, Resolve(w, m)
        PROVE  \A v \in Writers : Making(v)' => Making(v) /\ mine'[v] = mine[v] /\ v # w
    BY <1>2 DEF Resolve, IdTypes, Making
  <1>3. ASSUME NEW w \in Writers, TakeGiven(w) PROVE FileInv'
    BY <1>0, <1>1, <1>2, <1>3 DEF TakeGiven
  <1>4. ASSUME NEW w \in Writers, ReadId(w) PROVE FileInv'
    <2>1. Resolve(w, idFile) /\ idFile \in Machines /\ Record({idFile})
          /\ idFile' = idFile /\ drawn' = drawn
      BY <1>0, <1>4 DEF ReadId, Usable, IdTypes
    <2>2. \A v \in Writers : Making(v)' => Making(v) /\ mine'[v] = mine[v]
      BY <1>2, <2>1
    <2>3. raced => {idFile} \cap handed = {}
      BY DEF FileInv
    <2> QED BY <2>1, <2>2, <2>3, QuietFile
  <1>5. ASSUME NEW w \in Writers, NEW u \in Uuids, DrawId(w, u) PROVE FileInv'
    <2>1. /\ step' = [step EXCEPT ![w] = "open"] /\ mine' = [mine EXCEPT ![w] = u]
          /\ drawn' = drawn \cup {u} /\ idFile' = idFile /\ step[w] = "idle"
          /\ raced' = (raced \/ \E v \in Writers : Making(v))
          /\ handed' = (IF raced' THEN {} ELSE handed) /\ ~ Usable
      BY <1>5 DEF DrawId, MayBegin
    <2>2. /\ \A v \in Writers : v # w => (Making(v)' <=> Making(v)) /\ mine'[v] = mine[v]
          /\ Making(w)' /\ mine'[w] = u
      BY <2>1 DEF IdTypes, Making
    <2>3. \A v \in Writers : Making(v)' => mine'[v] \in drawn'
      BY <2>1, <2>2 DEF FileInv
    <2>4. ~ raced' => \A v \in Writers : Making(v)' => v = w
      BY <2>1, <2>2
    <2>5. ~ Usable'
      BY <2>1 DEF Usable
    <2> QED BY <2>1, <2>3, <2>4, <2>5 DEF FileInv
  <1>6. ASSUME NEW w \in Writers, OpenId(w) PROVE FileInv'
    <2>1. /\ step' = [step EXCEPT ![w] = "write"] /\ step[w] = "open" /\ idFile' = Blank
          /\ UNCHANGED <<drawn, mine, raced, handed>>
      BY <1>6 DEF OpenId
    <2>2. \A v \in Writers : Making(v)' <=> Making(v)
      BY <2>1 DEF IdTypes, Making
    <2>3. handed = {}
      <3>1. Making(w)
        BY <2>1 DEF Making
      <3>2. ~ raced => handed \subseteq {idFile} \cap Uuids /\ idFile \in {Absent, Blank}
        BY <3>1 DEF FileInv, IdTypes, Usable
      <3> QED BY <1>0, <3>2 DEF FileInv
    <2>4. ~ Usable'
      BY <2>1 DEF Usable
    <2> QED BY <2>1, <2>2, <2>3, <2>4 DEF FileInv
  <1>7. ASSUME NEW w \in Writers, WriteId(w) PROVE FileInv'
    <2>1. /\ Making(w) /\ idFile' = mine[w] /\ drawn' = drawn
          /\ Resolve(w, mine[w]) /\ Record({mine[w]})
      BY <1>7 DEF WriteId, Written, Making
    <2>2. mine[w] \in Machines
      BY <1>0, <2>1 DEF FileInv, IdTypes
    <2>3. \A v \in Writers : Making(v)' => Making(v) /\ mine'[v] = mine[v] /\ v # w
      BY <1>2, <2>1, <2>2
    <2>4. handed = {}
      <3>1. ~ raced => handed \subseteq {idFile} \cap Uuids /\ idFile \in {Absent, Blank}
        BY <2>1 DEF FileInv, IdTypes, Usable
      <3> QED BY <1>0, <3>1 DEF FileInv
    <2>5. handed' \subseteq {idFile'} /\ (raced' => handed' = {})
      BY <2>1, <2>4 DEF Record
    <2>6. ~ raced' => \A v \in Writers : ~ Making(v)'
      <3>1. raced' <=> raced /\ \E v \in Writers : Making(v)'
        BY <2>1 DEF Record
      <3>2. ~ raced => \A v \in Writers : Making(v) => v = w
        BY <2>1 DEF FileInv
      <3> QED BY <2>3, <3>1, <3>2
    <2> QED BY <2>1, <2>3, <2>5, <2>6 DEF FileInv
  <1>8. ASSUME NEW w \in Writers, IdRaises(w) PROVE FileInv'
    <2>1. Resolve(w, HostName) /\ Record({}) /\ idFile' = idFile /\ drawn' = drawn
      BY <1>8 DEF IdRaises, Fallback
    <2>2. \A v \in Writers : Making(v)' => Making(v) /\ mine'[v] = mine[v]
      BY <1>0, <1>2, <2>1
    <2> QED BY <2>1, <2>2, QuietFile
  <1>9. ASSUME NEW w \in Writers, RejectData(w) PROVE FileInv'
    BY <1>1, <1>9, ForgetTypes DEF RejectData
  <1>10. ASSUME NEW w \in Writers, NEW e \in Events, Log(w, e) PROVE FileInv'
    BY <1>1, <1>10, ForgetTypes DEF Log
  <1>11. ASSUME NEW w \in Writers, KillEarly(w) PROVE FileInv'
    <2>1. Forget(w) /\ Record({}) /\ idFile' = idFile /\ drawn' = drawn
      BY <1>11 DEF KillEarly
    <2> QED BY <2>1, ForgetTypes, QuietFile
  <1>12. ASSUME UNCHANGED <<idFile, drawn, raced, handed, step, mine>> PROVE FileInv'
    BY <1>1, <1>12 DEF Making
  <1>13. ASSUME NEW w \in Writers, StoreStep(w) PROVE FileInv'
    BY <1>12, <1>13 DEF StoreStep
  <1>14. CASE StoreWriteBack \/ WriteBackId
    BY <1>12, <1>14 DEF StoreWriteBack, WriteBackId
  <1>15. CASE HostPowerLoss
    <2>1. /\ \A v \in Writers : ~ Making(v)'
          /\ idFile' = idDisk /\ raced' = FALSE /\ handed' = handed \cap {idDisk}
      BY <1>15 DEF HostPowerLoss, Making
    <2> QED BY <2>1 DEF FileInv
  <1>16. CASE UNCHANGED hostVars
    BY <1>12, <1>16 DEF hostVars
  <1> QED
    BY <1>3, <1>4, <1>5, <1>6, <1>7, <1>8, <1>9, <1>10, <1>11, <1>13, <1>14, <1>15, <1>16
    DEF HostNext, HostStep

LEMMA FileCorrect == HostSpec => []FileInv
  <1>1. HostInit => FileInv
    BY DEF HostInit, FileInv, Making
  <1>2. TypeOK /\ IdTypes /\ FileInv /\ [HostNext]_hostVars => FileInv'
    BY FileStep
  <1> QED BY <1>1, <1>2, IdTypesCorrect, UsesStore, TypeCorrect, PTL DEF HostSpec

\* Between one race or loss of the id file and the next, the file gives the processes
\* of a host one id, through kills, errors and blank files (machine.py, resolve_machine_id).
THEOREM OneIdAtATime == HostSpec => []OneId
  <1>1. FileInv => OneId
    <2> SUFFICES ASSUME FileInv PROVE Cardinality(handed) <= 1
      BY DEF OneId
    <2>1. CASE handed = {}
      <3>1. Cardinality(handed) = 0
        BY <2>1, FS_EmptySet
      <3> QED BY <3>1
    <2>2. CASE handed = {idFile}
      <3>1. Cardinality(handed) = 1
        BY <2>2, FS_Singleton
      <3> QED BY <3>1
    <2> QED BY <2>1, <2>2 DEF FileInv
  <1> QED BY <1>1, FileCorrect, PTL

-----------------------------------------------------------------------------
(* The order.                                                               *)

LEMMA InUseIs ==
    ASSUME NEW u \in Uuids
    PROVE  u \in InUse <=> \/ \E a \in acked : a.machine = u
                           \/ \E w \in Writers : pc[w] # "idle" /\ event[w].machine = u
                           \/ \E w \in Writers : step[w] = "resolved" /\ mine[w] = u
  BY DEF InUse

\* A uuid comes into use as one reads it from the file or has written it there.
LEMMA UseFrom ==
    ASSUME TypeOK, IdTypes, [HostNext]_hostVars, NEW u \in InUse'
    PROVE  \/ u \in InUse
           \/ \E w \in Writers : ReadId(w) /\ u = idFile
           \/ \E w \in Writers : step[w] = "write" /\ WriteId(w) /\ u = mine[w]
           \/ \E w \in Writers : IdRaises(w) /\ u = HostName
           \/ \E w \in Writers : TakeGiven(w) /\ u = Given
  <1> USE DEF history, idVars
  <1>0. u \in Uuids /\ u # Blank /\ [Next]_vars
    BY UuidType, StoreMoves DEF InUse
  <1>1. ASSUME NEW w \in Writers, step'[w] = "resolved", mine'[w] = u,
               step[w] # "resolved" \/ mine[w] # u
        PROVE  \/ ReadId(w) /\ u = idFile
               \/ step[w] = "write" /\ WriteId(w) /\ u = mine[w]
               \/ IdRaises(w) /\ u = HostName
               \/ TakeGiven(w) /\ u = Given
    <2>1. ASSUME NEW v \in Writers, HostStep(v) PROVE v = w /\ (ReadId(w) \/ WriteId(w) \/ IdRaises(w) \/ TakeGiven(w))
      BY <1>1, <2>1 DEF HostStep, TakeGiven, ReadId, DrawId, OpenId, WriteId, IdRaises,
                        RejectData, Log, KillEarly, StoreStep, Resolve, Forget, IdTypes
    <2>2. ~ StoreWriteBack /\ ~ WriteBackId /\ ~ HostPowerLoss /\ ~ UNCHANGED hostVars
      BY <1>1 DEF StoreWriteBack, WriteBackId, HostPowerLoss, hostVars
    <2>3. ReadId(w) \/ WriteId(w) \/ IdRaises(w) \/ TakeGiven(w)
      BY <2>1, <2>2 DEF HostNext
    <2> QED BY <1>1, <2>3 DEF ReadId, WriteId, IdRaises, TakeGiven, Fallback, Resolve, IdTypes
  <1>2. ASSUME NEW w \in Writers, NEW e \in Events, Call(w, e), e.machine = u
        PROVE  step[w] = "resolved" /\ mine[w] = u
    <2>1. pc[w] = "idle" /\ pc' = [pc EXCEPT ![w] = "wait"] /\ event' = [event EXCEPT ![w] = e]
      BY <1>2 DEF Call
    <2>2. ASSUME NEW v \in Writers, HostStep(v), ~ \E d \in Events : Log(v, d) PROVE FALSE
      <3>1. CASE StoreStep(v)
        BY <2>1, <3>1, StoreStepMoves DEF TypeOK
      <3>2. CASE UNCHANGED vars
        BY <2>1, <3>2 DEF vars, writerVars, TypeOK
      <3> QED BY <2>2, <3>1, <3>2 DEF HostStep, TakeGiven, ReadId, DrawId, OpenId, WriteId, IdRaises,
                        RejectData, KillEarly
    <2>3. ~ StoreWriteBack /\ ~ WriteBackId /\ ~ HostPowerLoss /\ ~ UNCHANGED hostVars
      BY <2>1 DEF StoreWriteBack, WriteBack, WriteBackId, HostPowerLoss, PowerLoss, hostVars, vars, writerVars, TypeOK
    <2>4. PICK v \in Writers, d \in Events : Log(v, d)
      BY <2>2, <2>3 DEF HostNext
    <2>5. v = w /\ d = e
      BY <2>1, <2>4 DEF Log, Call, TypeOK
    <2> QED BY <1>2, <2>4, <2>5 DEF Log
  <1>3. CASE \E a \in acked' : a.machine = u
    BY <1>0, <1>3, AckedFrom, InUseIs
  <1>4. ASSUME NEW w \in Writers, pc'[w] # "idle", event'[w].machine = u
        PROVE  u \in InUse
    BY <1>0, <1>2, <1>4, EventFrom, InUseIs
  <1>5. ASSUME NEW w \in Writers, step[w] = "resolved", mine[w] = u PROVE u \in InUse
    BY <1>0, <1>5, InUseIs
  <1>6. \/ \E a \in acked' : a.machine = u
        \/ \E w \in Writers : pc'[w] # "idle" /\ event'[w].machine = u
        \/ \E w \in Writers : step'[w] = "resolved" /\ mine'[w] = u
    BY DEF InUse
  <1> QED BY <1>1, <1>3, <1>4, <1>5, <1>6

LEMMA UnsplitStep ==
    TypeOK /\ IdTypes /\ FileInv /\ UnsplitInv /\ [HostNext]_hostVars => UnsplitInv'
  <1> SUFFICES ASSUME TypeOK, IdTypes, FileInv, UnsplitInv, [HostNext]_hostVars, ~ split'
               PROVE  ~ raced' /\ InUse' \subseteq {idFile'}
    BY DEF UnsplitInv
  <1> USE DEF history, idVars
  <1>1. ~ split
    <2>1. CASE split' = split
      BY <2>1
    <2>2. ASSUME NEW w \in Writers, NEW u \in Uuids, DrawId(w, u) PROVE ~ split
      BY <2>2 DEF DrawId
    <2>3. CASE HostPowerLoss
      BY <2>3 DEF HostPowerLoss
    <2> QED BY <2>1, <2>2, <2>3 DEF HostNext, HostStep, TakeGiven, ReadId, OpenId, WriteId,
              IdRaises, RejectData, Log, KillEarly, StoreStep, Record, StoreWriteBack,
              WriteBackId, hostVars
  <1>2. ~ raced /\ InUse \subseteq {idFile}
    BY <1>1 DEF UnsplitInv
  <1>3. ~ raced'
    <2>1. CASE raced' = raced
      BY <1>2, <2>1
    <2>2. ASSUME NEW S, Record(S) PROVE ~ raced'
      BY <1>2, <2>2 DEF Record
    <2>3. ASSUME NEW w \in Writers, NEW u \in Uuids, DrawId(w, u) PROVE ~ raced'
      BY <2>3 DEF DrawId
    <2>4. CASE HostPowerLoss
      BY <2>4 DEF HostPowerLoss
    <2> QED BY <2>1, <2>2, <2>3, <2>4 DEF HostNext, HostStep, TakeGiven, ReadId, OpenId, WriteId,
              IdRaises, RejectData, Log, KillEarly, StoreStep, StoreWriteBack,
              WriteBackId, hostVars
  \* The id stays in the file.
  <1>4. Usable => idFile' = idFile
    <2>1. CASE idFile' = idFile
      BY <2>1
    <2>2. ASSUME NEW w \in Writers, OpenId(w) \/ WriteId(w) PROVE ~ Usable
      BY <1>2, <2>2 DEF OpenId, WriteId, Making, FileInv
    <2>3. CASE HostPowerLoss
      BY <2>3 DEF HostPowerLoss
    <2> QED BY <2>1, <2>2, <2>3 DEF HostNext, HostStep, TakeGiven, ReadId, DrawId, IdRaises,
              RejectData, Log, KillEarly, StoreStep, StoreWriteBack, WriteBackId, hostVars
  <1>5. ASSUME NEW u \in InUse' PROVE u = idFile'
    <2>0. u \in Uuids /\ u # HostName /\ u # Given /\ u # Absent /\ u # Blank
      BY HostAssumption, UuidType DEF InUse
    <2>1. CASE u \in InUse
      BY <1>2, <1>4, <2>0, <2>1 DEF Usable
    <2>2. ASSUME NEW w \in Writers, ReadId(w), u = idFile PROVE u = idFile'
      BY <2>2 DEF ReadId
    <2>3. ASSUME NEW w \in Writers, WriteId(w), u = mine[w] PROVE u = idFile'
      BY <2>3 DEF WriteId, Written
    <2> QED BY <2>0, <2>1, <2>2, <2>3, UseFrom
  <1> QED BY <1>3, <1>5

LEMMA UnsplitCorrect == HostSpec => []UnsplitInv
  <1>1. HostInit => UnsplitInv
    BY DEF HostInit, Init, UnsplitInv, InUse
  <1>2. TypeOK /\ IdTypes /\ FileInv /\ UnsplitInv /\ [HostNext]_hostVars => UnsplitInv'
    BY UnsplitStep
  <1> QED BY <1>1, <1>2, FileCorrect, IdTypesCorrect, UsesStore, TypeCorrect, PTL DEF HostSpec

\* While the host is up a file only grows: if all that is left is whole, so was all.
LEMMA SoundBefore ==
    ASSUME TypeOK, [Next]_vars, ~ PowerLoss, AllSound'
    PROVE  AllSound
  <1> SUFFICES ASSUME NEW m \in Machines, NEW b \in Buckets, NEW i \in DOMAIN file[m][b]
               PROVE  Sound(file[m][b][i])
    BY DEF AllSound
  <1>1. i \in DOMAIN file'[m][b] /\ file'[m][b][i] = file[m][b][i]
    <2>1. ASSUME NEW w \in Writers, Write(w) \/ Tear(w)
          PROVE  i \in DOMAIN file'[m][b] /\ file'[m][b][i] = file[m][b][i]
      <3>1. PICK part \in Parts : Grows(event[w].machine, event[w].bucket, LineOf(w, part))
        BY <2>1, WriteEffect
      <3>2. CASE m = event[w].machine /\ b = event[w].bucket
        <4>1. /\ Len(file[m][b]) \in Nat /\ i \in 1 .. Len(file[m][b])
              /\ DOMAIN file'[m][b] = 1 .. Len(file[m][b]) + 1
              /\ file'[m][b][i] = file[m][b][i]
          BY <3>1, <3>2 DEF Grows
        <4> QED BY <4>1
      <3>3. CASE ~ (m = event[w].machine /\ b = event[w].bucket)
        BY <3>1, <3>3 DEF Grows
      <3> QED BY <3>2, <3>3
    <2> QED BY <2>1, FileChange
  <1> QED BY <1>1 DEF AllSound, Sound

LEMMA OrderStep ==
    TypeOK /\ IdTypes /\ LockInv /\ FilesInv /\ KeptInv /\ KnownInv /\ OrderInv
       /\ [HostNext]_hostVars => OrderInv'
  <1> SUFFICES ASSUME TypeOK, IdTypes, LockInv, FilesInv, KeptInv, KnownInv, OrderInv,
                      [HostNext]_hostVars, ~ blind'
               PROVE  ScanInv' /\ (AllSound' => BeforeInv')
    BY DEF OrderInv
  <1> USE DEF history, idVars
  <1>0. [Next]_vars
    BY StoreMoves
  <1>1. CASE PowerLoss
    BY <1>1 DEF PowerLoss, ScanInv, BeforeInv
  <1>2. CASE ~ PowerLoss
    <2>1. AllSound' => AllSound
      BY <1>0, <1>2, SoundBefore
    <2>2. ~ blind
      <3>1. CASE blind' = blind
        BY <3>1
      <3>2. ASSUME NEW w \in Writers, StoreStep(w) PROVE ~ blind
        BY <3>2 DEF StoreStep
      <3> QED BY <3>1, <3>2 DEF HostNext, HostStep, TakeGiven, ReadId, DrawId, OpenId, WriteId,
                IdRaises, RejectData, Log, KillEarly, Record, StoreWriteBack,
                WriteBackId, HostPowerLoss, hostVars
    <2>3. ASSUME NEW v \in Writers, NEW b \in Buckets, SkipFile(v, b) PROVE FALSE
      <3>1. todo'[v] # todo[v]
        BY <2>3 DEF SkipFile, TypeOK
      <3>2. ASSUME NEW w \in Writers, StoreStep(w) PROVE FALSE
        <4>1. v = w
          BY <3>1, <3>2, StoreStepMoves
        <4> QED BY <2>3, <3>2, <4>1 DEF StoreStep
      <3>3. CASE todo' = todo
        BY <3>1, <3>3
      <3>4. ASSUME UNCHANGED vars PROVE todo' = todo
        BY <3>4 DEF vars, writerVars
      <3>5. ~ HostPowerLoss
        BY <1>2 DEF HostPowerLoss
      <3> QED BY <3>2, <3>3, <3>4, <3>5 DEF HostNext, HostStep, TakeGiven, ReadId, DrawId,
                OpenId, WriteId, IdRaises, RejectData, Log, Call, KillEarly, StoreWriteBack,
                WriteBack, writerVars, WriteBackId, hostVars
    <2>4. ScanInv /\ (AllSound => BeforeInv)
      BY <2>2 DEF OrderInv
    <2>5. ScanInv'
      BY <1>0, <2>3, <2>4, ScanStep
    <2>6. AllSound' => BeforeInv'
      BY <1>0, <2>1, <2>4, BeforeStep
    <2> QED BY <2>5, <2>6
  <1> QED BY <1>1, <1>2

LEMMA OrderCorrect == HostSpec => []OrderInv
  <1>1. HostInit => OrderInv
    BY DEF HostInit, Init, OrderInv, ScanInv, BeforeInv
  <1>2. TypeOK /\ IdTypes /\ LockInv /\ FilesInv /\ KeptInv /\ KnownInv /\ OrderInv
          /\ [HostNext]_hostVars => OrderInv'
    BY OrderStep
  <1> QED
    BY <1>1, <1>2, IdTypesCorrect, UsesStore, TypeCorrect, LockCorrect, FilesCorrect,
       LinesStay, KnownCorrect, PTL DEF HostSpec

\* The appends that go by the id of the file come in the order in which they ran,
\* whichever process made the id, unless a race or a power loss has split them: while
\* no scan has left a file out and all that is left in the files is whole (machine.py,
\* resolve_machine_id; store.py, append).  No fault is excluded.
THEOREM IdsInOrder == HostSpec => []HostOrder
  <1>1. UnsplitInv /\ OrderInv /\ KnownInv => HostOrder
    <2> SUFFICES ASSUME UnsplitInv, OrderInv, KnownInv, ~ split, ~ blind, AllSound,
                        NEW w \in Writers, pc[w] = "done", event[w].machine \in Uuids,
                        NEW a \in before[w], a.machine \in Uuids
                 PROVE  a.machine = event[w].machine /\ a.seq < seq[w]
      BY DEF HostOrder
    <2>1. a.machine \in InUse
      BY InUseIs DEF KnownInv
    <2>2. event[w].machine \in InUse
      BY InUseIs
    <2>3. a.machine = event[w].machine
      BY <2>1, <2>2 DEF UnsplitInv
    <2> QED BY <2>3 DEF OrderInv, BeforeInv
  <1> QED BY <1>1, UnsplitCorrect, OrderCorrect, UsesStore, KnownCorrect, PTL
=============================================================================
