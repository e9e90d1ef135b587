------------------------------ MODULE AuditProofs ------------------------------
(***************************************************************************)
(* What holds of audits for every transcript, every option and any number  *)
(* of audits.                                                              *)
(***************************************************************************)
EXTENDS Audit, DeriveProofs

USE DEF Indexed

-----------------------------------------------------------------------------
(* The ledger and what of it is indexed.                                    *)

\* An append adds its event to the ledger's and leaves the others in their places.
LEMMA LedgerAppend ==
    ASSUME ledger \in Seq(ToSet(ledger)), NEW e, ledger' = Append(ledger, e)
    PROVE  /\ ledger' \in Seq(ToSet(ledger)')
           /\ ToSet(ledger)' = ToSet(ledger) \cup {e}
           /\ DOMAIN ledger = 1 .. Len(ledger) /\ Len(ledger) \in Nat
           /\ DOMAIN ledger' = 1 .. Len(ledger) + 1
           /\ \A i \in DOMAIN ledger : ledger'[i] = ledger[i]
           /\ ledger'[Len(ledger) + 1] = e
  <1> DEFINE S == ToSet(ledger) \cup {e}
  <1>1. DOMAIN ledger = 1 .. Len(ledger) /\ Len(ledger) \in Nat
    BY LenProperties
  <1>2. ledger \in Seq(S)
    <2>1. ToSet(ledger) \subseteq S
      OBVIOUS
    <2> HIDE DEF S
    <2> QED BY <2>1, SeqMonotonic
  <1>3. e \in S
    OBVIOUS
  <1> HIDE DEF S
  <1>4. /\ ledger' \in Seq(S) /\ Len(ledger') = Len(ledger) + 1
        /\ \A i \in 1 .. Len(ledger) : ledger'[i] = ledger[i]
        /\ ledger'[Len(ledger) + 1] = e
    BY <1>2, <1>3, AppendProperties
  <1>5. DOMAIN ledger' = 1 .. Len(ledger) + 1
    BY <1>4, LenProperties
  <1>6. 1 .. Len(ledger) + 1 = 1 .. Len(ledger) \cup {Len(ledger) + 1}
    BY <1>1
  <1>7. ToSet(ledger)' = S
    BY <1>1, <1>4, <1>5, <1>6 DEF ToSet, S
  <1> QED BY <1>1, <1>4, <1>5, <1>7 DEF S

\* What existing_signatures makes of an event.
EventKey(e) == <<e.session, Signature(Stripped(e.data))>>

\* The data of x without the markers.
Bare(x) == [topic |-> x.data.topic, wording |-> x.data.wording, marked |-> FALSE]

\* Two findings have the same signature just when they report the same thing.
LEMMA SameSignature ==
    ASSUME NEW t1, NEW w1, NEW t2, NEW w2
    PROVE  LET d1 == [topic |-> t1, wording |-> w1, marked |-> FALSE]
               d2 == [topic |-> t2, wording |-> w2, marked |-> FALSE]
           IN  Signature(d1) = Signature(d2) <=> t1 = t2 /\ (t1 \in Keyed \/ w1 = w2)
  <1> DEFINE d1 == [topic |-> t1, wording |-> w1, marked |-> FALSE]
             d2 == [topic |-> t2, wording |-> w2, marked |-> FALSE]
  <1>1. \A x : [topic |-> x] # d1 /\ [topic |-> x] # d2
    <2> SUFFICES ASSUME NEW x PROVE [topic |-> x] # d1 /\ [topic |-> x] # d2
      OBVIOUS
    <2>1. "wording" \notin DOMAIN [topic |-> x]
      OBVIOUS
    <2>2. "wording" \in DOMAIN d1 /\ "wording" \in DOMAIN d2
      OBVIOUS
    <2> QED BY <2>1, <2>2
  <1>2. [topic |-> t1] = [topic |-> t2] <=> t1 = t2
    OBVIOUS
  <1>3. d1 = d2 <=> t1 = t2 /\ w1 = w2
    OBVIOUS
  <1>4. d1.topic = t1 /\ d2.topic = t2
    OBVIOUS
  <1> HIDE DEF d1, d2
  <1> QED BY <1>1, <1>2, <1>3, <1>4 DEF Signature

\* Data with the same signature reports the same thing, marked or not.
LEMMA SignatureTells ==
    ASSUME NEW t1, NEW w1, NEW m1, NEW t2, NEW w2, NEW m2,
           NEW d1, d1 = [topic |-> t1, wording |-> w1, marked |-> m1],
           NEW d2, d2 = [topic |-> t2, wording |-> w2, marked |-> m2],
           Signature(d1) = Signature(d2)
    PROVE  t1 = t2 /\ (t1 \in Keyed \/ w1 = w2)
  <1>1. \A x : [topic |-> x] # d1 /\ [topic |-> x] # d2
    <2> SUFFICES ASSUME NEW x PROVE [topic |-> x] # d1 /\ [topic |-> x] # d2
      OBVIOUS
    <2>1. "wording" \notin DOMAIN [topic |-> x]
      OBVIOUS
    <2>2. "wording" \in DOMAIN d1 /\ "wording" \in DOMAIN d2
      OBVIOUS
    <2> QED BY <2>1, <2>2
  <1>2. [topic |-> t1] = [topic |-> t2] <=> t1 = t2
    OBVIOUS
  <1>3. d1 = d2 => t1 = t2 /\ w1 = w2
    OBVIOUS
  <1>4. d1.topic = t1 /\ d2.topic = t2
    OBVIOUS
  <1>5. /\ Signature(d1) = IF t1 \in Keyed THEN [topic |-> t1] ELSE d1
        /\ Signature(d2) = IF t2 \in Keyed THEN [topic |-> t2] ELSE d2
    BY <1>4 DEF Signature
  <1>6. CASE t1 \in Keyed
    BY <1>1, <1>2, <1>5, <1>6
  <1>7. CASE t1 \notin Keyed
    BY <1>1, <1>3, <1>5, <1>7
  <1> QED BY <1>6, <1>7

LEMMA BareMatch ==
    ASSUME NEW x, NEW y
    PROVE  <<x.session, Signature(Bare(x))>> = <<y.session, Signature(Bare(y))>> <=> SameRecord(x, y)
  <1>1. Signature(Bare(x)) = Signature(Bare(y)) <=>
            /\ x.data.topic = y.data.topic
            /\ x.data.topic \in Keyed \/ x.data.wording = y.data.wording
    BY SameSignature DEF Bare
  <1> QED BY <1>1 DEF SameRecord, SameThing

\* Taking the markers away, and adding them.
LEMMA MarkedAs ==
    ASSUME NEW d, NEW t, NEW w, NEW m, d = [topic |-> t, wording |-> w, marked |-> m], NEW n
    PROVE  [d EXCEPT !.marked = n] = [topic |-> t, wording |-> w, marked |-> n]
  <1> DEFINE Mark(x) == [x EXCEPT !.marked = n]
  <1>1. Mark(d) = Mark([topic |-> t, wording |-> w, marked |-> m])
    <2> HIDE DEF Mark
    <2> QED OBVIOUS
  <1> QED BY <1>1

LEMMA Unmarked ==
    ASSUME NEW d, NEW t, NEW w, d = [topic |-> t, wording |-> w, marked |-> TRUE]
    PROVE  Stripped(d) = [topic |-> t, wording |-> w, marked |-> FALSE]
  <1>1. PICK m, n : m = TRUE /\ n = FALSE
    OBVIOUS
  <1>2. [d EXCEPT !.marked = n] = [topic |-> t, wording |-> w, marked |-> n]
    BY <1>1, MarkedAs
  <1>3. Stripped(d) = [d EXCEPT !.marked = n]
    BY <1>1 DEF Stripped
  <1> QED BY <1>1, <1>2, <1>3

LEMMA Marked ==
    ASSUME NEW c, NEW t, NEW w, NEW m, c.data = [topic |-> t, wording |-> w, marked |-> m]
    PROVE  EventOf(c) = [session |-> c.session, origin |-> c.origin, reconstructed |-> TRUE,
                         echoed |-> m,
                         data |-> [topic |-> t, wording |-> w, marked |-> TRUE]]
  <1>1. PICK d, n : d = c.data /\ n = TRUE
    OBVIOUS
  <1>0. d = [topic |-> t, wording |-> w, marked |-> m]
    BY <1>1
  <1>2. [d EXCEPT !.marked = n] = [topic |-> t, wording |-> w, marked |-> n]
    BY <1>0, MarkedAs
  <1>3. EventOf(c) = [session |-> c.session, origin |-> c.origin, reconstructed |-> n,
                      echoed |-> m, data |-> [d EXCEPT !.marked = n]]
    <2>1. c.data.marked = m
      OBVIOUS
    <2> QED BY <1>1, <2>1 DEF EventOf
  <1> QED BY <1>1, <1>2, <1>3

LEMMA KeyOfEvent ==
    ASSUME NEW e, IsReconstructed(e)
    PROVE  EventKey(e) = <<e.session, Signature(Bare(e))>>
  <1>1. PICK t, w : t = e.data.topic /\ w = e.data.wording
    OBVIOUS
  <1>2. e.data = [topic |-> t, wording |-> w, marked |-> TRUE]
    BY <1>1 DEF IsReconstructed
  <1>3. Stripped(e.data) = [topic |-> t, wording |-> w, marked |-> FALSE]
    BY <1>2, Unmarked
  <1> QED BY <1>1, <1>3 DEF EventKey, Bare

\* A finding whose signature is stable has the key of its event.
LEMMA KeyOfCandidate ==
    ASSUME NEW c, IsCandidate(c), Stable(c.data.topic, c.data.marked)
    PROVE  Key(c) = <<c.session, Signature(Bare(c))>>
  <1>1. CASE c.data.topic \in Keyed
    <2>1. Bare(c).topic = c.data.topic
      BY DEF Bare
    <2>2. Signature(c.data) = Signature(Bare(c))
      BY <1>1, <2>1 DEF Signature
    <2> QED BY <2>2 DEF Key
  <1>2. CASE ~c.data.marked
    <2>1. PICK t, w, m : t = c.data.topic /\ w = c.data.wording /\ m = c.data.marked
      OBVIOUS
    <2>2. c.data = [topic |-> t, wording |-> w, marked |-> m]
      BY <2>1 DEF IsCandidate
    <2>3. m = FALSE
      BY <1>2, <2>1 DEF IsCandidate
    <2>4. c.data = Bare(c)
      BY <2>1, <2>2, <2>3 DEF Bare
    <2> QED BY <2>4 DEF Key
  <1> QED BY <1>1, <1>2 DEF Stable

LEMMA EventsMatch ==
    ASSUME NEW d, IsReconstructed(d), NEW e, IsReconstructed(e)
    PROVE  EventKey(d) = EventKey(e) <=> SameRecord(d, e)
  BY KeyOfEvent, BareMatch

LEMMA CandidatesMatch ==
    ASSUME NEW c, IsCandidate(c), NEW d, IsCandidate(d), Key(c) = Key(d)
    PROVE  SameRecord(c, d)
  <1>1. PICK t1, w1, m1, t2, w2, m2 :
            /\ t1 = c.data.topic /\ w1 = c.data.wording /\ m1 = c.data.marked
            /\ t2 = d.data.topic /\ w2 = d.data.wording /\ m2 = d.data.marked
    OBVIOUS
  <1>2. PICK x, y : x = c.data /\ y = d.data
    OBVIOUS
  <1>3. x = [topic |-> t1, wording |-> w1, marked |-> m1]
    BY <1>1, <1>2 DEF IsCandidate
  <1>4. y = [topic |-> t2, wording |-> w2, marked |-> m2]
    BY <1>1, <1>2 DEF IsCandidate
  <1>5. c.session = d.session /\ Signature(x) = Signature(y)
    BY <1>2 DEF Key
  <1>6. t1 = t2 /\ (t1 \in Keyed \/ w1 = w2)
    BY <1>3, <1>4, <1>5, SignatureTells
  <1> QED BY <1>1, <1>5, <1>6 DEF SameRecord, SameThing

LEMMA CandidateMatches ==
    ASSUME NEW c, IsCandidate(c), NEW e, IsReconstructed(e), Key(c) = EventKey(e)
    PROVE  SameRecord(c, e)
  <1>1. PICK t1, w1, m1, t2, w2, m2 :
            /\ t1 = c.data.topic /\ w1 = c.data.wording /\ m1 = c.data.marked
            /\ t2 = e.data.topic /\ w2 = e.data.wording /\ m2 = FALSE
    OBVIOUS
  <1>2. PICK x, y : x = c.data /\ y = Bare(e)
    OBVIOUS
  <1>3. x = [topic |-> t1, wording |-> w1, marked |-> m1]
    BY <1>1, <1>2 DEF IsCandidate
  <1>4. y = [topic |-> t2, wording |-> w2, marked |-> m2]
    BY <1>1, <1>2 DEF Bare
  <1>5. c.session = e.session /\ Signature(x) = Signature(y)
    BY <1>2, KeyOfEvent DEF Key
  <1>6. t1 = t2 /\ (t1 \in Keyed \/ w1 = w2)
    BY <1>3, <1>4, <1>5, SignatureTells
  <1> QED BY <1>1, <1>5, <1>6 DEF SameRecord, SameThing

\* The event made of a finding records it, and has its key if the signature is stable.
LEMMA EventOfCandidate ==
    ASSUME NEW c, IsCandidate(c)
    PROVE  /\ IsReconstructed(EventOf(c)) /\ EventOf(c).reconstructed
           /\ SameThing(c, EventOf(c)) /\ SameThing(EventOf(c), c)
           /\ EventOf(c).session = c.session
           /\ EventOf(c).data.topic = c.data.topic /\ EventOf(c).data.wording = c.data.wording
           /\ EventOf(c).echoed = c.data.marked
           /\ Stable(c.data.topic, c.data.marked) => EventKey(EventOf(c)) = Key(c)
  <1>1. PICK s, o, t, w, m : /\ s = c.session /\ o = c.origin /\ t = c.data.topic
                             /\ w = c.data.wording /\ m = c.data.marked
    OBVIOUS
  <1>2. c.data = [topic |-> t, wording |-> w, marked |-> m]
    BY <1>1 DEF IsCandidate
  <1>4. EventOf(c) = [session |-> s, origin |-> o, reconstructed |-> TRUE, echoed |-> m,
                      data |-> [topic |-> t, wording |-> w, marked |-> TRUE]]
    BY <1>1, <1>2, Marked
  <1>5. /\ EventOf(c).session = s /\ EventOf(c).origin = o /\ EventOf(c).reconstructed
        /\ EventOf(c).data.topic = t /\ EventOf(c).data.wording = w
    BY <1>4
  <1>5a. EventOf(c).echoed = m
    BY <1>4
  <1>6. IsReconstructed(EventOf(c))
    BY <1>4, <1>5, <1>5a DEF IsReconstructed
  <1>7. Bare(EventOf(c)) = Bare(c)
    BY <1>1, <1>5 DEF Bare
  <1>8. SameThing(c, EventOf(c)) /\ SameThing(EventOf(c), c)
    BY <1>1, <1>5 DEF SameThing
  <1>9. Stable(c.data.topic, c.data.marked) => EventKey(EventOf(c)) = Key(c)
    BY <1>1, <1>5, <1>6, <1>7, KeyOfEvent, KeyOfCandidate
  <1>10. EventOf(c).echoed = c.data.marked
    BY <1>1, <1>5a
  <1> QED BY <1>1, <1>5, <1>6, <1>8, <1>9, <1>10

\* A key is indexed just when an audit's event in the ledger has it.
LEMMA IndexedKeys ==
    ASSUME NEW k
    PROVE  k \in ExistingSignatures <=>
               \E e \in ToSet(ledger) : e.reconstructed /\ EventKey(e) = k
  BY DEF ExistingSignatures, EventKey

-----------------------------------------------------------------------------
(* Shapes.                                                                  *)

LEMMA ShapeInit == Init => ShapeInv
  <1> SUFFICES ASSUME Init PROVE ShapeInv
    OBVIOUS
  <1>1. ledger = <<>> /\ ledger \in Seq(ToSet(ledger)) /\ ToSet(ledger) = {}
    BY EmptySeq, LenProperties DEF Init, ToSet
  <1> QED BY <1>1 DEF Init, ShapeInv, Steps

\* What the model finds has the shape of a finding.
LEMMA FindingsShape ==
    ASSUME NEW chunk, NEW c \in Findings(chunk)
    PROVE  IsCandidate(c)
  <1>1. \E s, t, topic, wording : \E marked \in BOOLEAN :
            c = [session |-> s, origin |-> t,
                 data |-> [topic |-> topic, wording |-> wording, marked |-> marked]]
    BY DEF Findings
  <1>2. PICK s, t, topic, wording, marked :
            /\ marked \in BOOLEAN
            /\ c = [session |-> s, origin |-> t,
                    data |-> [topic |-> topic, wording |-> wording, marked |-> marked]]
    BY <1>1
  <1>3. c.session = s /\ c.origin = t /\ c.data.topic = topic /\ c.data.wording = wording
    BY <1>2
  <1>4. c.data.marked = marked
    BY <1>2
  <1> QED BY <1>2, <1>3, <1>4 DEF IsCandidate

\* How the ledger may change, and with it what is indexed.
LEMMA LedgerChange ==
    ASSUME ShapeInv, [Next]_vars
    PROVE  \/ ledger' = ledger
           \/ \E e : /\ e.reconstructed = FALSE
                    /\ ledger' = Append(ledger, e)
                    /\ UNCHANGED auditVars
           \/ \E a \in Auditors : \E c \in fresh[a] :
                 /\ AppendOne(a, c) \/ AppendRaises(a, c)
                 /\ pc[a] = "append"
                 /\ IsCandidate(c)
                 /\ ledger' = Append(ledger, EventOf(c))
  <1>1. ASSUME NEW t, NEW topic, NEW wording, SelfEmit(t, topic, wording)
        PROVE  \E e : /\ e.reconstructed = FALSE
                     /\ ledger' = Append(ledger, e)
                     /\ UNCHANGED auditVars
    <2> DEFINE e == [session |-> t.session, origin |-> t, reconstructed |-> FALSE,
                     echoed |-> FALSE,
                     data |-> [topic |-> topic, wording |-> wording, marked |-> FALSE]]
    <2>1. e.reconstructed = FALSE /\ ledger' = Append(ledger, e) /\ UNCHANGED auditVars
      BY <1>1 DEF SelfEmit
    <2> QED BY <2>1
  <1>2. ASSUME NEW a \in Auditors, NEW c \in fresh[a], AppendOne(a, c) \/ AppendRaises(a, c)
        PROVE  pc[a] = "append" /\ IsCandidate(c)
    BY <1>2 DEF AppendOne, AppendRaises, ShapeInv
  <1>3. ASSUME NEW a \in Auditors,
               \/ \E w \in Windows, passed \in SUBSET Files : Load(a, w, passed)
               \/ NoClient(a) \/ ReadExisting(a)
               \/ \E i \in unasked[a] : Ask(a, i) \/ AskFails(a, i)
               \/ Dedup(a) \/ Finish(a) \/ Crash(a)
        PROVE  ledger' = ledger
    BY <1>3 DEF Load, NoClient, ReadExisting, Ask, AskFails, Dedup, Finish, Crash, worldVars
  <1>4. ASSUME NEW t \in Turns, Speak(t) PROVE ledger' = ledger
    BY <1>4 DEF Speak
  <1>5. ASSUME NEW a \in Auditors, NEW c \in fresh[a], AppendOne(a, c) \/ AppendRaises(a, c)
        PROVE  ledger' = ledger \/ ledger' = Append(ledger, EventOf(c))
    BY <1>5 DEF AppendOne, AppendRaises
  <1>6. CASE UNCHANGED vars
    BY <1>6 DEF vars, worldVars
  <1> QED BY <1>1, <1>2, <1>3, <1>4, <1>5, <1>6 DEF Next

LEMMA ShapeLedger ==
    ASSUME ShapeInv, [Next]_vars
    PROVE  /\ ledger' \in Seq(ToSet(ledger)')
           /\ \A e \in ToSet(ledger)' : e.reconstructed = FALSE \/ IsReconstructed(e)
  <1>1. CASE ledger' = ledger
    BY <1>1 DEF ShapeInv, ToSet
  <1>2. ASSUME NEW e, ledger' = Append(ledger, e), e.reconstructed = FALSE \/ IsReconstructed(e)
        PROVE  /\ ledger' \in Seq(ToSet(ledger)')
               /\ \A d \in ToSet(ledger)' : d.reconstructed = FALSE \/ IsReconstructed(d)
    BY <1>2, LedgerAppend DEF ShapeInv
  <1> QED BY <1>1, <1>2, LedgerChange, EventOfCandidate

LEMMA ShapeLeave ==
    ASSUME ShapeInv, NEW a \in Auditors, Leave(a)
    PROVE  /\ pc' \in [Auditors -> Steps]
           /\ DOMAIN existing' = Auditors /\ DOMAIN candidates' = Auditors
           /\ DOMAIN fresh' = Auditors /\ DOMAIN failed' = Auditors
           /\ \A b \in Auditors :
                 /\ \A c \in candidates'[b] : IsCandidate(c)
                 /\ fresh'[b] \cup failed'[b] \subseteq candidates'[b]
  BY DEF ShapeInv, Leave, Steps

LEMMA ShapeStep == ShapeInv /\ [Next]_vars => ShapeInv'
  <1> SUFFICES ASSUME ShapeInv, [Next]_vars PROVE ShapeInv'
    OBVIOUS
  <1> DEFINE Rest == /\ pc' \in [Auditors -> Steps]
                     /\ DOMAIN existing' = Auditors /\ DOMAIN candidates' = Auditors
                     /\ DOMAIN fresh' = Auditors /\ DOMAIN failed' = Auditors
                     /\ \A a \in Auditors :
                           /\ \A c \in candidates'[a] : IsCandidate(c)
                           /\ fresh'[a] \cup failed'[a] \subseteq candidates'[a]
  <1>1. ASSUME UNCHANGED auditVars PROVE Rest
    <2>1. pc' = pc /\ existing' = existing /\ candidates' = candidates /\ fresh' = fresh /\ failed' = failed
      BY <1>1 DEF auditVars
    <2> QED BY <2>1 DEF ShapeInv
  <1>2. ASSUME NEW a \in Auditors, NEW w \in Windows, NEW passed, Load(a, w, passed) PROVE Rest
    BY <1>2 DEF Load, ShapeInv, Steps
  <1>3. ASSUME NEW a \in Auditors, NoClient(a) \/ Finish(a) \/ Crash(a) PROVE Rest
    BY <1>3, ShapeLeave DEF NoClient, Finish, Crash
  <1>4. ASSUME NEW a \in Auditors, ReadExisting(a) PROVE Rest
    BY <1>4 DEF ReadExisting, ShapeInv, Steps
  <1>5. ASSUME NEW a \in Auditors, NEW i \in unasked[a], Ask(a, i) PROVE Rest
    <2>1. PICK found \in SUBSET Findings(chunks[a][i]) :
             candidates' = [candidates EXCEPT ![a] = @ \cup found]
      BY <1>5 DEF Ask
    <2>2. \A c \in found : IsCandidate(c)
      BY <2>1, FindingsShape
    <2> QED BY <1>5, <2>1, <2>2 DEF Ask, ShapeInv
  <1>6. ASSUME NEW a \in Auditors, NEW i \in unasked[a], AskFails(a, i) PROVE Rest
    BY <1>6 DEF AskFails, ShapeInv
  <1>7. ASSUME NEW a \in Auditors, Dedup(a) PROVE Rest
    <2>1. PICK F \in SUBSET candidates[a] : fresh' = [fresh EXCEPT ![a] = F]
      BY <1>7 DEF Dedup
    <2> QED BY <1>7, <2>1 DEF Dedup, ShapeInv, Steps
  <1>8. ASSUME NEW a \in Auditors, NEW c \in fresh[a], AppendOne(a, c) \/ AppendRaises(a, c)
        PROVE  Rest
    BY <1>8 DEF AppendOne, AppendRaises, ShapeInv
  <1>9. Rest
    <2> HIDE DEF Rest
    <2> QED BY <1>1, <1>2, <1>3, <1>4, <1>5, <1>6, <1>7, <1>8
       DEF Next, Speak, SelfEmit, vars
  <1> QED BY <1>9, ShapeLedger DEF ShapeInv

LEMMA ShapeCorrect == Spec => []ShapeInv
  BY ShapeInit, ShapeStep, PTL DEF Spec

-----------------------------------------------------------------------------
(* Nothing that was found gets lost.                                        *)

\* An event of the ledger stays in it, and so does its key.
LEMMA EventsStay ==
    ASSUME ShapeInv, [Next]_vars
    PROVE  ToSet(ledger) \subseteq ToSet(ledger)' /\ ExistingSignatures \subseteq ExistingSignatures'
  <1>1. ToSet(ledger) \subseteq ToSet(ledger)'
    <2>1. ledger' = ledger \/ \E e : ledger' = Append(ledger, e)
      BY LedgerChange
    <2>2. CASE ledger' = ledger
      BY <2>2 DEF ToSet
    <2>3. ASSUME NEW e, ledger' = Append(ledger, e) PROVE ToSet(ledger) \subseteq ToSet(ledger)'
      BY <2>3, LedgerAppend DEF ShapeInv
    <2> QED BY <2>1, <2>2, <2>3
  <1> QED BY <1>1 DEF ExistingSignatures

LEMMA IndexStep == ShapeInv /\ IndexInv /\ [Next]_vars => IndexInv'
  <1> SUFFICES ASSUME ShapeInv, IndexInv, [Next]_vars PROVE IndexInv'
    OBVIOUS
  <1>1. CASE existing' = existing
    BY <1>1, EventsStay DEF IndexInv
  <1>2. ASSUME NEW a \in Auditors, ReadExisting(a) PROVE IndexInv'
    <2>1. existing' = [existing EXCEPT ![a] = ExistingSignatures]
      BY <1>2 DEF ReadExisting
    <2> QED BY <2>1, EventsStay DEF IndexInv, ShapeInv
  <1>3. ASSUME NEW a \in Auditors, Leave(a) PROVE IndexInv'
    <2>1. existing' = [existing EXCEPT ![a] = {}]
      BY <1>3 DEF Leave
    <2> QED BY <2>1, EventsStay DEF IndexInv, ShapeInv
  <1> QED BY <1>1, <1>2, <1>3
          DEF Next, Speak, SelfEmit, Load, NoClient, Ask, AskFails, Dedup, AppendOne,
              AppendRaises, Finish, Crash, vars, auditVars

LEMMA IndexCorrect == Spec => []IndexInv
  <1>1. Init => IndexInv
    BY DEF Init, IndexInv
  <1> QED BY <1>1, IndexStep, ShapeCorrect, PTL DEF Spec

\* Where a finding of a is accounted for.
Kept(a, c) ==
    \/ \E d \in fresh[a] \cup failed[a] : SameRecord(c, d)
    \/ \E e \in ToSet(ledger) : e.reconstructed /\ SameRecord(c, e)

\* Dedup drops what is known and what it keeps another of.
LEMMA DedupKeeps ==
    ASSUME ShapeInv, IndexInv, NEW a \in Auditors, Dedup(a), NEW c \in candidates[a]
    PROVE  Kept(a, c)'
  <1>1. PICK F \in SUBSET candidates[a] :
            IsFresh(F, candidates[a], existing[a]) /\ fresh' = [fresh EXCEPT ![a] = F]
    BY DEF Dedup
  <1>2. fresh'[a] = F /\ failed' = failed /\ ledger' = ledger
    BY <1>1 DEF Dedup, ShapeInv, worldVars
  <1>3. Key(c) \in existing[a] \/ \E d \in F : Key(d) = Key(c)
    BY <1>1 DEF IsFresh
  <1>4. CASE Key(c) \in existing[a]
    <2>1. PICK e \in ToSet(ledger) : e.reconstructed /\ EventKey(e) = Key(c)
      BY <1>4, IndexedKeys DEF IndexInv
    <2>2. IsReconstructed(e) /\ IsCandidate(c)
      BY <2>1 DEF ShapeInv
    <2>3. SameRecord(c, e)
      BY <2>1, <2>2, CandidateMatches
    <2> QED BY <1>2, <2>1, <2>3 DEF Kept
  <1>5. ASSUME NEW d \in F, Key(d) = Key(c) PROVE Kept(a, c)'
    <2>1. IsCandidate(c) /\ IsCandidate(d)
      BY <1>5 DEF ShapeInv
    <2>2. SameRecord(c, d)
      BY <1>5, <2>1, CandidatesMatch
    <2> QED BY <1>2, <2>2 DEF Kept
  <1> QED BY <1>3, <1>4, <1>5

\* An append moves a finding on, to the ledger or to those that failed.
LEMMA AppendKeeps ==
    ASSUME ShapeInv, NEW b \in Auditors, NEW d \in fresh[b],
           AppendOne(b, d) \/ AppendRaises(b, d),
           ToSet(ledger) \subseteq ToSet(ledger)',
           NEW a \in Auditors, NEW c \in candidates[a], Kept(a, c)
    PROVE  Kept(a, c)'
  <1>1. CASE AppendRaises(b, d)
    <2>1. fresh[a] \cup failed[a] \subseteq fresh'[a] \cup failed'[a]
      BY <1>1 DEF AppendRaises, ShapeInv
    <2> QED BY <2>1 DEF Kept
  <1>2. CASE AppendOne(b, d)
    <2>1. fresh[a] \subseteq fresh'[a] \cup {d} /\ failed' = failed
      BY <1>2 DEF AppendOne, ShapeInv
    <2>2. IsCandidate(c) /\ IsCandidate(d)
      BY DEF ShapeInv
    <2>3. EventOf(d) \in ToSet(ledger)'
      <3>1. ledger' = Append(ledger, EventOf(d))
        BY <1>2 DEF AppendOne
      <3> QED BY <3>1, LedgerAppend DEF ShapeInv
    <2>4. SameRecord(c, d) => SameRecord(c, EventOf(d)) /\ EventOf(d).reconstructed
      BY <2>2, EventOfCandidate DEF SameRecord, SameThing
    <2>5. CASE \E x \in fresh[a] \cup failed[a] : SameRecord(c, x)
      <3>1. PICK x \in fresh[a] \cup failed[a] : SameRecord(c, x)
        BY <2>5
      <3>2. x \in fresh'[a] \cup failed'[a] \/ x = d
        BY <2>1
      <3> QED BY <2>3, <2>4, <3>1, <3>2 DEF Kept
    <2>6. CASE \E e \in ToSet(ledger) : e.reconstructed /\ SameRecord(c, e)
      BY <2>6 DEF Kept
    <2> QED BY <2>5, <2>6 DEF Kept
  <1> QED BY <1>1, <1>2

LEMMA KeptStep == ShapeInv /\ IndexInv /\ FindingsKept /\ [Next]_vars => FindingsKept'
  <1> SUFFICES ASSUME ShapeInv, IndexInv, FindingsKept, [Next]_vars,
                      NEW a \in Auditors, pc'[a] = "append", NEW c \in candidates'[a]
               PROVE  Kept(a, c)'
    BY DEF FindingsKept, Kept
  <1>1. ToSet(ledger) \subseteq ToSet(ledger)'
    BY EventsStay
  <1>2. pc[a] = "append" /\ c \in candidates[a] => Kept(a, c)
    BY DEF FindingsKept, Kept
  <1>3. CASE /\ pc'[a] = pc[a] /\ candidates'[a] = candidates[a]
             /\ fresh'[a] = fresh[a] /\ failed'[a] = failed[a]
    BY <1>1, <1>2, <1>3 DEF Kept
  <1>4. CASE Dedup(a)
    BY <1>4, DedupKeeps DEF Dedup
  <1>5. ASSUME NEW b \in Auditors, NEW d \in fresh[b], AppendOne(b, d) \/ AppendRaises(b, d)
        PROVE  Kept(a, c)'
    <2>1. pc' = pc /\ candidates' = candidates
      BY <1>5 DEF AppendOne, AppendRaises
    <2> QED BY <1>1, <1>2, <1>5, <2>1, AppendKeeps
  <1>6. ASSUME NEW b \in Auditors, Leave(b)
        PROVE  /\ b # a
               /\ pc'[a] = pc[a] /\ candidates'[a] = candidates[a]
               /\ fresh'[a] = fresh[a] /\ failed'[a] = failed[a]
    BY <1>6 DEF Leave, ShapeInv
  <1>7. ASSUME NEW b \in Auditors, NEW w \in Windows, NEW passed, Load(b, w, passed)
        PROVE  /\ pc'[a] = pc[a] /\ candidates'[a] = candidates[a]
               /\ fresh'[a] = fresh[a] /\ failed'[a] = failed[a]
    BY <1>7 DEF Load, ShapeInv
  <1>8. ASSUME NEW b \in Auditors, ReadExisting(b) \/ \E i \in unasked[b] : AskFails(b, i)
        PROVE  /\ pc'[a] = pc[a] /\ candidates'[a] = candidates[a]
               /\ fresh'[a] = fresh[a] /\ failed'[a] = failed[a]
    BY <1>8 DEF ReadExisting, AskFails, ShapeInv
  <1>9. ASSUME NEW b \in Auditors, NEW i \in unasked[b], Ask(b, i)
        PROVE  /\ pc'[a] = pc[a] /\ candidates'[a] = candidates[a]
               /\ fresh'[a] = fresh[a] /\ failed'[a] = failed[a]
    BY <1>9 DEF Ask, ShapeInv
  <1>10. ASSUME NEW b \in Auditors, b # a, Dedup(b)
         PROVE  /\ pc'[a] = pc[a] /\ candidates'[a] = candidates[a]
                /\ fresh'[a] = fresh[a] /\ failed'[a] = failed[a]
    BY <1>10 DEF Dedup, ShapeInv
  <1>11. CASE UNCHANGED auditVars
    BY <1>3, <1>11 DEF auditVars
  <1> QED BY <1>3, <1>4, <1>5, <1>6, <1>7, <1>8, <1>9, <1>10, <1>11
          DEF Next, Speak, SelfEmit, NoClient, Finish, Crash, vars

\* However many audits run at once, whatever they are asked for and however often an
\* append fails: what the model found is still to be appended, failed, or is in the
\* ledger as an audit's event.
THEOREM NothingLost == Spec => []FindingsKept
  <1>1. Init => FindingsKept
    BY DEF Init, FindingsKept
  <1> QED BY <1>1, KeptStep, ShapeCorrect, IndexCorrect, PTL DEF Spec

-----------------------------------------------------------------------------
(* Nothing is appended twice, if one audit runs at a time.                  *)

\* What a session logs is not indexed; what an audit appends is, under its key.
LEMMA IndexAppend ==
    ASSUME ledger \in Seq(ToSet(ledger)), NEW e, ledger' = Append(ledger, e)
    PROVE  /\ e.reconstructed = FALSE => ExistingSignatures' = ExistingSignatures
           /\ e.reconstructed => ExistingSignatures' = ExistingSignatures \cup {EventKey(e)}
  <1>1. ToSet(ledger)' = ToSet(ledger) \cup {e}
    BY LedgerAppend
  <1> QED BY <1>1 DEF ExistingSignatures, EventKey

LEMMA SameIndex ==
    ASSUME ledger' = ledger
    PROVE  ExistingSignatures' = ExistingSignatures /\ StableKeys' = StableKeys
  <1>1. ToSet(ledger)' = ToSet(ledger)
    BY DEF ToSet
  <1> QED BY <1>1 DEF ExistingSignatures, StableKeys

\* A stable key belongs to an audit's event whose signature is stable.
LEMMA StableKeysOf ==
    ASSUME NEW k
    PROVE  k \in StableKeys <=>
               \E e \in ToSet(ledger) :
                   e.reconstructed /\ Stable(e.data.topic, e.echoed) /\ EventKey(e) = k
  BY DEF StableKeys, EventKey

LEMMA StableAreIndexed == StableKeys \subseteq ExistingSignatures
  BY StableKeysOf, IndexedKeys

LEMMA StableAppend ==
    ASSUME ledger \in Seq(ToSet(ledger)), NEW e, ledger' = Append(ledger, e)
    PROVE  /\ StableKeys' \subseteq StableKeys \cup {EventKey(e)}
           /\ e.reconstructed = FALSE \/ ~Stable(e.data.topic, e.echoed) => StableKeys' = StableKeys
  <1>1. ToSet(ledger)' = ToSet(ledger) \cup {e}
    BY LedgerAppend
  <1> QED BY <1>1 DEF StableKeys, EventKey

LEMMA FreshStep == ASSUME OneAuditor PROVE ShapeInv /\ FreshInv /\ [Next]_vars => FreshInv'
  <1> SUFFICES ASSUME ShapeInv, FreshInv, [Next]_vars, NEW a \in Auditors
               PROVE  /\ pc'[a] = "ask" => existing'[a] = ExistingSignatures'
                      /\ pc'[a] = "append" =>
                            /\ \A c \in fresh'[a] :
                                  Stable(c.data.topic, c.data.marked) => Key(c) \notin StableKeys'
                            /\ \A c, d \in fresh'[a] : Key(c) = Key(d) => c = d
    BY DEF FreshInv
  <1> DEFINE Ready == /\ pc'[a] = "ask" => existing'[a] = ExistingSignatures'
                      /\ pc'[a] = "append" =>
                            /\ \A c \in fresh'[a] :
                                  Stable(c.data.topic, c.data.marked) => Key(c) \notin StableKeys'
                            /\ \A c, d \in fresh'[a] : Key(c) = Key(d) => c = d
  <1>1. \A b \in Auditors : b = a
    BY DEF OneAuditor
  <1>2. ASSUME ExistingSignatures' = ExistingSignatures, StableKeys' = StableKeys,
               pc' = pc, existing' = existing, fresh' = fresh
        PROVE  Ready
    BY <1>2 DEF FreshInv
  <1>3. ASSUME UNCHANGED auditVars, ledger' = ledger PROVE Ready
    BY <1>2, <1>3, SameIndex DEF auditVars
  <1>4. ASSUME NEW t, NEW topic, NEW wording, SelfEmit(t, topic, wording) PROVE Ready
    <2> DEFINE e == [session |-> t.session, origin |-> t, reconstructed |-> FALSE,
                     echoed |-> FALSE,
                     data |-> [topic |-> topic, wording |-> wording, marked |-> FALSE]]
    <2>1. e.reconstructed = FALSE /\ ledger' = Append(ledger, e)
      BY <1>4 DEF SelfEmit
    <2>2. pc' = pc /\ existing' = existing /\ fresh' = fresh
      BY <1>4 DEF SelfEmit, auditVars
    <2>3. ExistingSignatures' = ExistingSignatures /\ StableKeys' = StableKeys
      <3> HIDE DEF e
      <3> QED BY <2>1, IndexAppend, StableAppend DEF ShapeInv
    <2> QED BY <1>2, <2>2, <2>3
  <1>5. ASSUME NEW w \in Windows, NEW passed, Load(a, w, passed) PROVE Ready
    BY <1>5 DEF Load, ShapeInv
  <1>6. ASSUME Leave(a) PROVE Ready
    BY <1>6 DEF Leave, ShapeInv
  <1>7. ASSUME ReadExisting(a) PROVE Ready
    BY <1>7, SameIndex DEF ReadExisting, ShapeInv, worldVars
  <1>8. ASSUME NEW i \in unasked[a], Ask(a, i) \/ AskFails(a, i) PROVE Ready
    <2>1. ledger' = ledger /\ pc' = pc /\ existing' = existing /\ fresh' = fresh
      BY <1>8 DEF Ask, AskFails, worldVars
    <2> QED BY <1>2, <2>1, SameIndex
  <1>9. ASSUME Dedup(a) PROVE Ready
    <2>1. PICK F \in SUBSET candidates[a] :
              IsFresh(F, candidates[a], existing[a]) /\ fresh' = [fresh EXCEPT ![a] = F]
      BY <1>9 DEF Dedup
    <2>2. /\ fresh'[a] = F /\ StableKeys' \subseteq ExistingSignatures
          /\ existing[a] = ExistingSignatures /\ pc'[a] # "ask"
      BY <1>9, <2>1, SameIndex, StableAreIndexed DEF Dedup, ShapeInv, FreshInv, worldVars
    <2> QED BY <2>1, <2>2 DEF IsFresh
  <1>10. ASSUME NEW c \in fresh[a], AppendOne(a, c) \/ AppendRaises(a, c) PROVE Ready
    <2>1. /\ pc[a] = "append" /\ pc' = pc /\ fresh'[a] = fresh[a] \ {c}
          /\ ledger' \in {ledger, Append(ledger, EventOf(c))}
      BY <1>10 DEF AppendOne, AppendRaises, ShapeInv
    <2>2. StableKeys' \subseteq StableKeys \cup {Key(c)}
      <3>1. CASE ledger' = ledger
        BY <3>1, SameIndex
      <3>2. CASE ledger' = Append(ledger, EventOf(c))
        <4>1. IsCandidate(c)
          BY DEF ShapeInv
        <4>2. /\ EventOf(c).data.topic = c.data.topic /\ EventOf(c).echoed = c.data.marked
              /\ Stable(c.data.topic, c.data.marked) => EventKey(EventOf(c)) = Key(c)
          BY <4>1, EventOfCandidate
        <4>3. CASE Stable(c.data.topic, c.data.marked)
          BY <3>2, <4>2, <4>3, StableAppend DEF ShapeInv
        <4>4. CASE ~Stable(c.data.topic, c.data.marked)
          <5>1. ~Stable(EventOf(c).data.topic, EventOf(c).echoed)
            BY <4>2, <4>4
          <5> QED BY <3>2, <5>1, StableAppend DEF ShapeInv
        <4> QED BY <4>3, <4>4
      <3> QED BY <2>1, <3>1, <3>2
    <2>3. /\ \A d \in fresh[a] : Stable(d.data.topic, d.data.marked) => Key(d) \notin StableKeys
          /\ \A d, e \in fresh[a] : Key(d) = Key(e) => d = e
      BY <2>1 DEF FreshInv
    <2> QED BY <2>1, <2>2, <2>3
  <1> HIDE DEF Ready
  <1>11. Ready
    <2>1. \/ UNCHANGED vars
          \/ \E t \in Turns : Speak(t)
          \/ \E t \in Turns : \E topic \in t.topics, wording \in Wordings :
                SelfEmit(t, topic, wording)
          \/ \E w \in Windows, passed \in SUBSET Files : Load(a, w, passed)
          \/ NoClient(a) \/ ReadExisting(a) \/ Dedup(a) \/ Finish(a) \/ Crash(a)
          \/ \E i \in unasked[a] : Ask(a, i) \/ AskFails(a, i)
          \/ \E c \in fresh[a] : AppendOne(a, c) \/ AppendRaises(a, c)
      BY <1>1 DEF Next
    <2>2. UNCHANGED vars \/ (\E t \in Turns : Speak(t)) => Ready
      BY <1>3 DEF Speak, vars, worldVars
    <2>3. NoClient(a) \/ Finish(a) \/ Crash(a) => Ready
      BY <1>6 DEF NoClient, Finish, Crash
    <2> QED BY <1>4, <1>5, <1>7, <1>8, <1>9, <1>10, <2>1, <2>2, <2>3
  <1> QED BY <1>11 DEF Ready

LEMMA DoubleStep ==
    ShapeInv /\ FreshInv /\ NoDoubleEmit /\ [Next]_vars => NoDoubleEmit'
  <1> SUFFICES ASSUME ShapeInv, FreshInv, NoDoubleEmit, [Next]_vars,
                      NEW i \in DOMAIN ledger', NEW j \in DOMAIN ledger',
                      ledger'[i].reconstructed, ledger'[j].reconstructed,
                      Stable(ledger'[i].data.topic, ledger'[i].echoed),
                      Stable(ledger'[j].data.topic, ledger'[j].echoed),
                      SameFinding(ledger'[i], ledger'[j]),
                      ledger'[i].session = ledger'[j].session
               PROVE  i = j
    BY DEF NoDoubleEmit
  <1>1. CASE ledger' = ledger
    BY <1>1 DEF NoDoubleEmit
  <1>2. ASSUME NEW e, ledger' = Append(ledger, e), e.reconstructed = FALSE PROVE i = j
    <2>1. /\ Len(ledger) \in Nat /\ DOMAIN ledger = 1 .. Len(ledger)
          /\ DOMAIN ledger' = 1 .. Len(ledger) + 1
          /\ \A k \in DOMAIN ledger : ledger'[k] = ledger[k]
          /\ ledger'[Len(ledger) + 1] = e
      BY <1>2, LedgerAppend DEF ShapeInv
    <2>2. i # Len(ledger) + 1 /\ j # Len(ledger) + 1
      BY <1>2, <2>1
    <2>3. i \in DOMAIN ledger /\ j \in DOMAIN ledger
      BY <2>1, <2>2
    <2> QED BY <2>1, <2>3 DEF NoDoubleEmit
  <1>3. ASSUME NEW a \in Auditors, NEW c \in fresh[a], pc[a] = "append", IsCandidate(c),
               ledger' = Append(ledger, EventOf(c))
        PROVE  i = j
    <2> DEFINE n == Len(ledger)
    <2>1. /\ n \in Nat /\ DOMAIN ledger = 1 .. n /\ DOMAIN ledger' = 1 .. n + 1
          /\ \A k \in DOMAIN ledger : ledger'[k] = ledger[k]
          /\ ledger'[n + 1] = EventOf(c)
      BY <1>3, LedgerAppend DEF ShapeInv
    <2>2. /\ IsReconstructed(EventOf(c))
          /\ Stable(EventOf(c).data.topic, EventOf(c).echoed) =>
                EventKey(EventOf(c)) \notin StableKeys
      <3>1. /\ EventOf(c).data.topic = c.data.topic /\ EventOf(c).echoed = c.data.marked
            /\ Stable(c.data.topic, c.data.marked) => EventKey(EventOf(c)) = Key(c)
            /\ IsReconstructed(EventOf(c))
        BY <1>3, EventOfCandidate
      <3>2. Stable(c.data.topic, c.data.marked) => Key(c) \notin StableKeys
        BY <1>3 DEF FreshInv
      <3> QED BY <3>1, <3>2
    <2>3. ASSUME NEW k \in DOMAIN ledger, ledger[k].reconstructed,
                 Stable(ledger[k].data.topic, ledger[k].echoed),
                 Stable(EventOf(c).data.topic, EventOf(c).echoed)
          PROVE  /\ ~ SameRecord(ledger[k], EventOf(c))
                 /\ ~ SameRecord(EventOf(c), ledger[k])
      <3>1. ledger[k] \in ToSet(ledger)
        BY DEF ToSet
      <3>2. IsReconstructed(ledger[k])
        BY <2>3, <3>1 DEF ShapeInv
      <3>3. EventKey(ledger[k]) \in StableKeys
        BY <2>3, <3>1, StableKeysOf
      <3>4. EventKey(EventOf(c)) \notin StableKeys /\ IsReconstructed(EventOf(c))
        BY <2>2, <2>3
      <3>5. PICK d, e : d = ledger[k] /\ e = EventOf(c)
        OBVIOUS
      <3>6. IsReconstructed(d) /\ IsReconstructed(e) /\ EventKey(d) # EventKey(e)
        BY <3>2, <3>3, <3>4, <3>5
      <3>7. ~SameRecord(d, e) /\ ~SameRecord(e, d)
        BY <3>6, EventsMatch
      <3> QED BY <3>5, <3>7
    <2>4. \A k \in DOMAIN ledger' : k \in DOMAIN ledger \/ k = n + 1
      BY <2>1
    <2> HIDE DEF n
    <2>4a. SameRecord(ledger'[i], ledger'[j])
      BY DEF SameFinding, SameRecord
    <2>5. CASE i \in DOMAIN ledger /\ j \in DOMAIN ledger
      BY <2>1, <2>5 DEF NoDoubleEmit
    <2>6. CASE i \in DOMAIN ledger /\ j = n + 1
      BY <2>1, <2>3, <2>4a, <2>6
    <2>7. CASE i = n + 1 /\ j \in DOMAIN ledger
      BY <2>1, <2>3, <2>4a, <2>7
    <2> QED BY <2>4, <2>5, <2>6, <2>7
  <1> QED BY <1>1, <1>2, <1>3, LedgerChange

\* As long as one audit runs at a time, no finding whose signature is stable gets into
\* the ledger twice under one session: over whatever windows, however often audits die
\* half-way or an append fails that has stored its line.
THEOREM NothingTwice == ASSUME OneAuditor PROVE Spec => []NoDoubleEmit
  <1>1. Init => FreshInv /\ NoDoubleEmit
    BY DEF Init, FreshInv, NoDoubleEmit
  <1>2. ShapeInv /\ FreshInv /\ NoDoubleEmit /\ [Next]_vars => FreshInv' /\ NoDoubleEmit'
    BY FreshStep, DoubleStep
  <1> QED BY <1>1, <1>2, ShapeCorrect, PTL DEF Spec

-----------------------------------------------------------------------------
(* The order in which turns are loaded.                                     *)

InTurn(S) == Sorted(S, TurnPrecedes)

\* A turn has its place among all that are said.
LEMMA TurnsOrder ==
    ASSUME NEW S \in SUBSET Turns
    PROVE  IsOrder(S, [t \in S |-> {u \in S : TurnPrecedes(u, t)}])
  <1> DEFINE before == [t \in S |-> {u \in S : TurnPrecedes(u, t)}]
  <1>1. \A t \in S : t.time \in Nat /\ t.session \in Nat /\ t.file \in Nat /\ t.line \in Nat
    BY TurnsAssumption DEF IsTurn
  <1>2. \A t \in S : ~TurnPrecedes(t, t)
    BY <1>1 DEF TurnPrecedes
  <1>3. \A t, u, v \in S : TurnPrecedes(t, u) /\ TurnPrecedes(u, v) => TurnPrecedes(t, v)
    BY <1>1 DEF TurnPrecedes
  <1>4. \A t, u \in S : t # u => TurnPrecedes(t, u) \/ TurnPrecedes(u, t)
    <2>1. \A t, u \in S : t # u => t.file # u.file \/ t.line # u.line
      BY TurnsAssumption
    <2> QED BY <1>1, <2>1 DEF TurnPrecedes
  <1>5. IsOrder(S, before)
    BY <1>2, <1>3, <1>4 DEF IsOrder
  <1> QED BY <1>5

\* Turns are put in order, each of them once.
LEMMA TurnsSort ==
    ASSUME NEW S \in SUBSET Turns, IsFiniteSet(S)
    PROVE  /\ InTurn(S) \in Seq(S)
           /\ Len(InTurn(S)) = Cardinality(S)
           /\ Range(InTurn(S)) = S
           /\ \A i, j \in 1 .. Len(InTurn(S)) :
                  i < j => TurnPrecedes(InTurn(S)[i], InTurn(S)[j])
  <1> DEFINE before == [t \in S |-> {u \in S : TurnPrecedes(u, t)}]
             rank(t) == Cardinality({u \in S : TurnPrecedes(u, t)})
             s == InTurn(S)
  <1>1. IsOrder(S, before)
    BY TurnsOrder
  <1>2. \A t \in S : before[t] = {u \in S : TurnPrecedes(u, t)}
    OBVIOUS
  <1>3. \A t \in S : rank(t) = Cardinality(before[t])
    BY <1>2
  <1>4. s = [n \in 1 .. Cardinality(S) |-> CHOOSE t \in S : rank(t) = n - 1]
    BY DEF InTurn, Sorted
  <1> HIDE DEF before, rank, s
  <1>5. \A n \in 1 .. Cardinality(S) : \E t \in S : rank(t) = n - 1
    BY <1>1, <1>3, RankTaken
  <1>6. \A n \in 1 .. Cardinality(S) : s[n] \in S /\ rank(s[n]) = n - 1
    BY <1>4, <1>5
  <1>7. s \in [1 .. Cardinality(S) -> S]
    BY <1>4, <1>6
  <1>8. \A n \in 1 .. Cardinality(S) : Cardinality(before[s[n]]) = n - 1
    BY <1>3, <1>6
  <1>9. /\ s \in Seq(S) /\ Len(s) = Cardinality(S) /\ Range(s) = S
        /\ \A i, j \in 1 .. Len(s) : i < j => s[i] \in before[s[j]]
    BY <1>1, <1>7, <1>8, RankSorts
  <1>10. \A i, j \in 1 .. Len(s) : i < j => TurnPrecedes(s[i], s[j])
    BY <1>2, <1>6, <1>9
  <1> QED BY <1>9, <1>10 DEF s

-----------------------------------------------------------------------------
(* The size of a chunk.                                                     *)

Sizes(n, t) == n + t.size

\* It is the end of a walk.
LEMMA SizeWalk ==
    ASSUME NEW chunk \in Seq(Turns)
    PROVE  \E w : /\ IsWalk(w, chunk, Nat, 0, [t \in Turns |-> [n \in Nat |-> Sizes(n, t)]])
                  /\ w[Len(chunk)] = SizeOf(chunk)
  <1> DEFINE N == Len(chunk)
             step == [t \in Turns |-> [n \in Nat |-> Sizes(n, t)]]
             F == [i \in 1 .. N |-> step[chunk[i]]]
             Body(g) == [s \in SUBSET DOMAIN chunk |->
                            IF s = {} THEN 0
                            ELSE g[s \ {Max(s)}] + chunk[Max(s)].size]
             iter == CHOOSE g : g = Body(g)
  <1>1. N \in Nat /\ DOMAIN chunk = 1 .. N /\ \A i \in 1 .. N : chunk[i] \in Turns
    BY LenProperties, ElementOfSeq
  <1>2. \A n \in Nat, t \in Turns : Sizes(n, t) \in Nat
    BY TurnsAssumption DEF Sizes, IsTurn
  <1> HIDE DEF N
  <1>3. step \in [Turns -> [Nat -> Nat]] /\ \A t \in Turns, n \in Nat : step[t][n] = Sizes(n, t)
    BY <1>2
  <1>4. \A i \in 1 .. N, n \in Nat : F[i][n] = Sizes(n, chunk[i]) /\ F[i][n] \in Nat
    BY <1>1, <1>2, <1>3
  <1> HIDE DEF F, step
  <1>5. PICK g : IsSeqFold(g, N, Nat, 0, F)
    BY <1>1, <1>4, SeqFoldExists
  <1>6. g = Body(g)
    <2>1. /\ g \in [SUBSET (1 .. N) -> Nat]
          /\ \A s \in SUBSET (1 .. N) :
                 g[s] = IF s = {} THEN 0 ELSE F[Max(s)][g[s \ {Max(s)}]]
      BY <1>5 DEF IsSeqFold
    <2>2. ASSUME NEW s \in SUBSET (1 .. N), s # {}
          PROVE  g[s] = g[s \ {Max(s)}] + chunk[Max(s)].size
      <3>1. Max(s) \in 1 .. N /\ s \ {Max(s)} \in SUBSET (1 .. N)
        BY <1>1, <2>2, FirstNumbers
      <3> QED BY <1>4, <2>1, <2>2, <3>1 DEF Sizes
    <2> QED BY <1>1, <2>1, <2>2
  <1>7. iter = Body(iter)
    BY <1>6
  <1>8. SizeOf(chunk) = iter[1 .. N]
    BY <1>1 DEF SizeOf, FoldLeft, MapThenFoldSet
  <1> HIDE DEF iter
  <1>9. iter[{}] = 0
    BY <1>7
  <1>10. ASSUME NEW s \in SUBSET (1 .. N), s # {}, iter[s \ {Max(s)}] \in Nat
         PROVE  iter[s] = step[chunk[Max(s)]][iter[s \ {Max(s)}]]
    <2>1. Max(s) \in 1 .. N
      BY <1>1, <1>10, FirstNumbers
    <2>2. iter[s] = iter[s \ {Max(s)}] + chunk[Max(s)].size
      BY <1>1, <1>7, <1>10
    <2> QED BY <1>1, <1>3, <1>10, <2>1, <2>2 DEF Sizes
  <1> HIDE DEF Body
  <1>11. IsIter(iter, chunk, Nat, 0, step)
    BY <1>9, <1>10 DEF IsIter, N
  <1>12. \E w : IsWalk(w, chunk, Nat, 0, step) /\ w[N] = iter[1 .. N]
    <2> DEFINE V == Nat
    <2>1. step \in [Turns -> [V -> V]] /\ 0 \in V /\ IsIter(iter, chunk, V, 0, step)
      BY <1>3, <1>11
    <2> HIDE DEF V
    <2>2. \E w : IsWalk(w, chunk, V, 0, step) /\ w[N] = iter[1 .. N]
      BY <2>1, IterWalk DEF N
    <2> QED BY <2>2 DEF V
  <1> QED BY <1>8, <1>12 DEF step, N

\* A turn adds its size.
LEMMA SizeGrows ==
    ASSUME NEW chunk \in Seq(Turns), NEW t \in Turns
    PROVE  SizeOf(chunk) \in Nat /\ SizeOf(Append(chunk, t)) = SizeOf(chunk) + t.size
  <1> DEFINE long == Append(chunk, t)
             N == Len(chunk)
             step == [u \in Turns |-> [n \in Nat |-> Sizes(n, u)]]
  <1>1. /\ long \in Seq(Turns) /\ Len(long) = N + 1 /\ N \in Nat /\ long[N + 1] = t
        /\ \A i \in 1 .. N : chunk[i] = long[i]
    BY AppendProperties, LenProperties
  <1>2. \A u \in Turns, n \in Nat : step[u][n] = Sizes(n, u)
    OBVIOUS
  <1> HIDE DEF long
  <1>3. PICK w : IsWalk(w, chunk, Nat, 0, step) /\ w[N] = SizeOf(chunk)
    BY SizeWalk
  <1>4. PICK u : IsWalk(u, long, Nat, 0, step) /\ u[N + 1] = SizeOf(long)
    BY <1>1, SizeWalk
  <1> HIDE DEF step, N
  <1>5. w[N] = u[N]
    <2>1. Alike(chunk, long, N)
      BY <1>1 DEF Alike, N
    <2> QED BY <1>3, <1>4, <2>1, WalksAgree
  <1>6. N \in 0 .. N + 1 /\ N + 1 \in 1 .. N + 1 /\ (N + 1) - 1 = N
    BY <1>1
  <1>7. u[N] \in Nat /\ u[N + 1] = step[long[N + 1]][u[N]]
    BY <1>1, <1>4, <1>6 DEF IsWalk
  <1> QED BY <1>1, <1>2, <1>3, <1>4, <1>5, <1>7 DEF Sizes, long

-----------------------------------------------------------------------------
(* The turns of chunks.                                                     *)

Joins == [c \in Seq(Turns) |-> [all \in Seq(Turns) |-> all \o c]]

\* They are the end of a walk.
LEMMA JoinWalk ==
    ASSUME NEW cs \in Seq(Seq(Turns))
    PROVE  \E w : IsWalk(w, cs, Seq(Turns), <<>>, Joins) /\ w[Len(cs)] = FlattenSeq(cs)
  <1> DEFINE V == Seq(Turns)
             N == Len(cs)
             Body(g) == [i \in 1 .. Len(cs) |-> IF i = 1 THEN cs[i] ELSE g[i - 1] \o cs[i]]
             iter == CHOOSE g : g = Body(g)
  <1>1. N \in Nat /\ \A i \in 1 .. N : cs[i] \in V
    BY LenProperties, ElementOfSeq
  <1>2. \A c, all \in V : Joins[c][all] = all \o c /\ all \o c \in V
    BY ConcatProperties DEF Joins
  <1>3. <<>> \in V /\ Joins \in [V -> [V -> V]]
    BY <1>2, EmptySeq DEF Joins
  <1>4. FlattenSeq(cs) = IF N = 0 THEN cs ELSE iter[N]
    BY DEF FlattenSeq
  <1>5. \A c \in V : <<>> \o c = c
    BY ConcatEmptySeq
  <1> HIDE DEF V
  <1>6. PICK w : IsWalk(w, cs, V, <<>>, Joins)
    BY <1>3, WalkExists DEF V
  <1>7. /\ \A n \in 0 .. N : w[n] \in V
        /\ w[0] = <<>> /\ \A n \in 1 .. N : w[n] = w[n - 1] \o cs[n]
    <2>1. \A n \in 1 .. N : n - 1 \in 0 .. N
      BY <1>1
    <2> QED BY <1>1, <1>2, <1>6, <2>1 DEF IsWalk
  <1>8. CASE N = 0
    <2>1. cs = <<>>
      BY <1>8, EmptySeq
    <2> QED BY <1>4, <1>6, <1>7, <1>8, <2>1 DEF V
  <1>9. CASE N # 0
    <2> DEFINE g == [i \in 1 .. N |-> w[i]]
    <2>1. 1 \in 1 .. N /\ w[1] = cs[1]
      <3>1. 1 \in 1 .. N /\ 1 - 1 = 0
        BY <1>1, <1>9
      <3>2. cs[1] \in V /\ w[1] = w[0] \o cs[1]
        BY <1>1, <1>7, <3>1
      <3>3. w[0] = <<>> /\ <<>> \o cs[1] = cs[1]
        BY <1>5, <1>7, <3>2
      <3> QED BY <3>1, <3>2, <3>3
    <2>2. ASSUME NEW i \in 1 .. N, i # 1 PROVE g[i] = g[i - 1] \o cs[i]
      <3>1. i - 1 \in 1 .. N
        BY <1>1, <2>2
      <3> QED BY <1>7, <3>1
    <2>3. g = Body(g)
      BY <2>1, <2>2
    <2> HIDE DEF g, Body
    <2>4. iter = Body(iter)
      BY <2>3
    <2> HIDE DEF iter
    <2>5. iter[1] = cs[1] /\ \A i \in 1 .. N : i # 1 => iter[i] = iter[i - 1] \o cs[i]
      BY <2>1, <2>4 DEF Body
    <2> DEFINE G == {n \in Nat : n \in 1 .. N => iter[n] = w[n]}
    <2>6. 0 \in G
      OBVIOUS
    <2>7. ASSUME NEW n \in Nat, n \in G PROVE n + 1 \in G
      <3> SUFFICES ASSUME n + 1 \in 1 .. N PROVE iter[n + 1] = w[n + 1]
        OBVIOUS
      <3>1. CASE n = 0
        BY <2>1, <2>5, <3>1
      <3>2. CASE n # 0
        <4>1. n \in 1 .. N /\ (n + 1) - 1 = n /\ n + 1 # 1
          BY <1>1, <3>2
        <4>2. iter[n] = w[n]
          BY <2>7, <4>1
        <4> QED BY <1>7, <2>5, <4>1, <4>2
      <3> QED BY <3>1, <3>2
    <2> HIDE DEF G
    <2>8. \A n \in Nat : n \in G
      BY <2>6, <2>7, NatsAre
    <2>9. iter[N] = w[N]
      <3>1. N \in 1 .. N
        BY <1>1, <1>9
      <3> QED BY <1>1, <2>8, <3>1 DEF G
    <2> QED BY <1>4, <1>6, <1>9, <2>9 DEF V
  <1> QED BY <1>8, <1>9

\* A chunk at the end adds its turns at the end, and what came before it is the same.
LEMMA JoinLast ==
    ASSUME NEW cs \in Seq(Seq(Turns)), NEW ds \in Seq(Seq(Turns)), NEW k \in Nat,
           Len(cs) = k + 1, Len(ds) \in {k, k + 1}, \A i \in 1 .. k : cs[i] = ds[i]
    PROVE  \E all \in Seq(Turns) :
               /\ FlattenSeq(cs) = all \o cs[k + 1]
               /\ FlattenSeq(ds) = IF Len(ds) = k THEN all ELSE all \o ds[k + 1]
  <1> DEFINE V == Seq(Turns)
  <1>1. PICK w : IsWalk(w, cs, V, <<>>, Joins) /\ w[Len(cs)] = FlattenSeq(cs)
    BY JoinWalk
  <1>2. PICK u : IsWalk(u, ds, V, <<>>, Joins) /\ u[Len(ds)] = FlattenSeq(ds)
    BY JoinWalk
  <1>3. w[k] = u[k]
    <2>1. Alike(cs, ds, k)
      BY DEF Alike
    <2> HIDE DEF V
    <2> QED BY <1>1, <1>2, <2>1, WalksAgree
  <1>4. k \in 0 .. Len(cs) /\ k + 1 \in 1 .. Len(cs) /\ (k + 1) - 1 = k
    OBVIOUS
  <1>5. w[k] \in V /\ w[k + 1] = Joins[cs[k + 1]][w[k]] /\ cs[k + 1] \in V
    BY <1>1, <1>4, ElementOfSeq DEF IsWalk
  <1>6. \A c, all \in V : Joins[c][all] = all \o c
    BY DEF Joins
  <1>7. FlattenSeq(cs) = w[k] \o cs[k + 1]
    BY <1>1, <1>5, <1>6
  <1>8. CASE Len(ds) = k
    BY <1>2, <1>3, <1>5, <1>7, <1>8
  <1>9. CASE Len(ds) = k + 1
    <2>1. k + 1 \in 1 .. Len(ds) /\ Len(ds) # k
      BY <1>9
    <2>2. u[k + 1] = Joins[ds[k + 1]][u[k]] /\ ds[k + 1] \in V
      BY <1>2, <1>4, <2>1, ElementOfSeq DEF IsWalk
    <2>3. u[k + 1] = FlattenSeq(ds) /\ u[k] = w[k]
      BY <1>2, <1>3, <1>9
    <2>4. FlattenSeq(ds) = w[k] \o ds[k + 1]
      <3>1. Joins[ds[k + 1]][w[k]] = w[k] \o ds[k + 1]
        BY <1>5, <1>6, <2>2
      <3> QED BY <2>2, <2>3, <3>1
    <2> QED BY <1>5, <1>7, <2>1, <2>4
  <1> QED BY <1>8, <1>9

-----------------------------------------------------------------------------
(* Packing.                                                                 *)

\* The chunks cs hold the turns all, as WellPacked has it.
Packed(cs, all) ==
    /\ cs \in Seq(Seq(Turns))
    /\ FlattenSeq(cs) = all
    /\ \A i \in 1 .. Len(cs) : cs[i] # <<>>
    /\ \A i \in 1 .. Len(cs) : Len(cs[i]) = 1 \/ SizeOf(cs[i]) <= Budget
    /\ \A i \in 1 .. Len(cs) : i < Len(cs) => SizeOf(cs[i]) + cs[i + 1][1].size > Budget

\* A turn that fits joins the last chunk.
LEMMA JoinKeeps ==
    ASSUME NEW cs, NEW all, Packed(cs, all), NEW t \in Turns, cs # <<>>, Fits(Last(cs), t)
    PROVE  Packed(Pack(cs, t), Append(all, t))
  <1> DEFINE V == Seq(Turns)
             N == Len(cs)
             c == cs[N]
             d == Append(c, t)
             ds == Pack(cs, t)
  <1>1. cs \in Seq(V) /\ N \in Nat \ {0} /\ \A i \in 1 .. N : cs[i] \in V
    BY LenProperties, ElementOfSeq, EmptySeq DEF Packed
  <1>2. N \in 1 .. N /\ c \in V /\ c # <<>>
    BY <1>1 DEF Packed
  <1>3. /\ d \in V /\ d # <<>> /\ d[1] = c[1]
        /\ SizeOf(d) = SizeOf(c) + t.size
    <2>1. Len(c) \in Nat \ {0}
      BY <1>2, LenProperties, EmptySeq
    <2>2. d \in V /\ Len(d) = Len(c) + 1 /\ \A i \in 1 .. Len(c) : d[i] = c[i]
      BY <1>2, AppendProperties
    <2>3. 1 \in 1 .. Len(c) /\ Len(d) # 0
      BY <2>1, <2>2
    <2> QED BY <1>2, <2>2, <2>3, SizeGrows, EmptySeq
  <1>4. SizeOf(d) <= Budget
    BY <1>3 DEF Fits, Last
  <1>5. ds = [cs EXCEPT ![N] = d]
    BY DEF Pack
  <1> HIDE DEF V, d, ds
  <1>6. /\ ds \in Seq(V) /\ Len(ds) = N /\ ds[N] = d
        /\ \A i \in 1 .. N : i # N => ds[i] = cs[i]
    BY <1>1, <1>2, <1>3, <1>5, ExceptSeq
  <1>7. FlattenSeq(ds) = Append(all, t)
    <2> DEFINE k == N - 1
    <2>1. k \in Nat /\ Len(cs) = k + 1 /\ Len(ds) = k + 1 /\ k + 1 = N
      BY <1>1, <1>6
    <2>2. \A i \in 1 .. k : cs[i] = ds[i]
      BY <1>1, <1>6
    <2> HIDE DEF k, N
    <2>3. PICK r \in V : FlattenSeq(cs) = r \o cs[k + 1] /\ FlattenSeq(ds) = r \o ds[k + 1]
      <3>1. cs \in Seq(Seq(Turns)) /\ ds \in Seq(Seq(Turns)) /\ Len(ds) \in {k, k + 1}
        BY <1>1, <1>6, <2>1 DEF V
      <3>2. PICK r \in Seq(Turns) :
               /\ FlattenSeq(cs) = r \o cs[k + 1]
               /\ FlattenSeq(ds) = IF Len(ds) = k THEN r ELSE r \o ds[k + 1]
        BY <2>1, <2>2, <3>1, JoinLast
      <3>3. Len(ds) # k
        BY <2>1
      <3> QED BY <3>2, <3>3 DEF V
    <2>4. all = r \o c /\ FlattenSeq(ds) = r \o Append(c, t)
      BY <1>6, <2>1, <2>3 DEF Packed, d
    <2>5. r \o Append(c, t) = Append(r \o c, t)
      <3>1. c \in Seq(Turns) /\ r \in Seq(Turns) /\ <<t>> \in Seq(Turns)
        BY <1>2 DEF V
      <3> HIDE DEF c
      <3>2. r \o c \in Seq(Turns)
        BY <3>1, ConcatProperties
      <3>3. Append(c, t) = c \o <<t>> /\ Append(r \o c, t) = (r \o c) \o <<t>>
        BY <3>1, <3>2, AppendIsConcat
      <3>4. (r \o c) \o <<t>> = r \o (c \o <<t>>)
        BY <3>1, ConcatAssociative
      <3> QED BY <3>3, <3>4
    <2> QED BY <2>4, <2>5
  <1>8. ASSUME NEW i \in 1 .. N
        PROVE  /\ ds[i] # <<>> /\ ds[i][1] = cs[i][1]
               /\ Len(ds[i]) = 1 \/ SizeOf(ds[i]) <= Budget
               /\ i < N => ds[i] = cs[i]
    <2>1. CASE i = N
      BY <1>3, <1>4, <1>6, <2>1
    <2>2. CASE i # N
      BY <1>6, <2>2 DEF Packed
    <2> QED BY <2>1, <2>2
  <1>9. ASSUME NEW i \in 1 .. N, i < N PROVE SizeOf(ds[i]) + ds[i + 1][1].size > Budget
    <2>1. i + 1 \in 1 .. N
      BY <1>1, <1>9
    <2>2. ds[i] = cs[i] /\ ds[i + 1][1] = cs[i + 1][1]
      BY <1>8, <1>9, <2>1
    <2> QED BY <1>9, <2>2 DEF Packed
  <1> QED BY <1>6, <1>7, <1>8, <1>9 DEF Packed, V, ds

\* One that does not opens the next.
LEMMA OpenKeeps ==
    ASSUME NEW cs, NEW all, Packed(cs, all), NEW t \in Turns, cs = <<>> \/ ~Fits(Last(cs), t)
    PROVE  Packed(Pack(cs, t), Append(all, t))
  <1> DEFINE V == Seq(Turns)
             N == Len(cs)
             ds == Pack(cs, t)
  <1>1. cs \in Seq(V) /\ N \in Nat /\ \A i \in 1 .. N : cs[i] \in V
    BY LenProperties, ElementOfSeq DEF Packed
  <1>2. <<t>> \in V /\ <<t>> # <<>> /\ Len(<<t>>) = 1 /\ <<t>>[1] = t
    OBVIOUS
  <1>3. ds = Append(cs, <<t>>)
    BY DEF Pack
  <1> HIDE DEF V, ds
  <1>4. /\ ds \in Seq(V) /\ Len(ds) = N + 1 /\ ds[N + 1] = <<t>>
        /\ \A i \in 1 .. N : ds[i] = cs[i]
    BY <1>1, <1>2, <1>3, AppendProperties
  <1>5. FlattenSeq(ds) = Append(all, t)
    <2>1. PICK r \in V : FlattenSeq(ds) = r \o ds[N + 1] /\ FlattenSeq(cs) = r
      <3>1. \A i \in 1 .. N : ds[i] = cs[i]
        BY <1>4
      <3> QED BY <1>1, <1>4, <3>1, JoinLast DEF V
    <2>2. r = all /\ FlattenSeq(ds) = r \o <<t>>
      BY <1>4, <2>1 DEF Packed
    <2>3. r \o <<t>> = Append(r, t)
      BY DEF V
    <2> QED BY <2>2, <2>3
  <1>6. \A i \in 1 .. N + 1 : i \in 1 .. N \/ i = N + 1
    BY <1>1
  <1>7. \A i \in 1 .. N + 1 : ds[i] # <<>> /\ (Len(ds[i]) = 1 \/ SizeOf(ds[i]) <= Budget)
    BY <1>2, <1>4, <1>6 DEF Packed
  <1>8. ASSUME NEW i \in 1 .. N + 1, i < N + 1
        PROVE  SizeOf(ds[i]) + ds[i + 1][1].size > Budget
    <2>1. i \in 1 .. N /\ ds[i] = cs[i]
      BY <1>1, <1>4, <1>8
    <2>2. CASE i < N
      <3>1. i + 1 \in 1 .. N
        BY <1>1, <2>2
      <3>2. ds[i + 1] = cs[i + 1]
        BY <1>4, <3>1
      <3> QED BY <2>1, <2>2, <3>2 DEF Packed
    <2>3. CASE i = N
      <3>1. cs # <<>> /\ cs[i] \in V
        BY <1>1, <2>1, EmptySeq
      <3>2. ~(SizeOf(cs[i]) + t.size <= Budget)
        BY <2>3, <3>1 DEF Fits, Last
      <3>3. SizeOf(cs[i]) \in Nat /\ t.size \in Nat /\ Budget \in Nat
        BY <3>1, SizeGrows, TurnsAssumption DEF V, IsTurn
      <3>4. ds[i + 1][1] = t
        BY <1>2, <1>4, <2>3
      <3> QED BY <2>1, <3>2, <3>3, <3>4
    <2> QED BY <1>1, <1>8, <2>1, <2>2, <2>3
  <1> QED BY <1>4, <1>5, <1>7, <1>8 DEF Packed, V, ds

LEMMA PackKeeps ==
    ASSUME NEW cs, NEW all, Packed(cs, all), NEW t \in Turns
    PROVE  Packed(Pack(cs, t), Append(all, t))
  BY JoinKeeps, OpenKeeps

LEMMA PackType ==
    ASSUME NEW cs \in Seq(Seq(Turns)), NEW t \in Turns
    PROVE  Pack(cs, t) \in Seq(Seq(Turns))
  <1> DEFINE V == Seq(Turns)
             N == Len(cs)
             d == Append(cs[N], t)
  <1>1. CASE cs # <<>> /\ Fits(Last(cs), t)
    <2>1. N \in 1 .. N
      BY <1>1, EmptySeq, LenProperties
    <2>2. cs[N] \in V
      BY <2>1, ElementOfSeq
    <2>3. d \in V
      BY <2>2, AppendProperties
    <2>4. Pack(cs, t) = [cs EXCEPT ![N] = d]
      BY <1>1 DEF Pack
    <2> HIDE DEF V, d
    <2>5. cs \in Seq(V)
      BY DEF V
    <2> QED BY <2>1, <2>3, <2>4, <2>5, ExceptSeq DEF V
  <1>2. CASE ~(cs # <<>> /\ Fits(Last(cs), t))
    <2>1. Pack(cs, t) = Append(cs, <<t>>) /\ <<t>> \in V
      BY <1>2 DEF Pack
    <2> HIDE DEF V
    <2> QED BY <2>1, AppendProperties DEF V
  <1> QED BY <1>1, <1>2

\* Chunks are the end of a walk.
LEMMA PackWalk ==
    ASSUME NEW turns \in Seq(Turns)
    PROVE  \E w : /\ IsWalk(w, turns, Seq(Seq(Turns)), <<>>,
                            [t \in Turns |-> [cs \in Seq(Seq(Turns)) |-> Pack(cs, t)]])
                  /\ w[Len(turns)] = ChunkTurns(turns)
  <1> DEFINE V == Seq(Seq(Turns))
             base == <<>>
             N == Len(turns)
             step == [t \in Turns |-> [cs \in V |-> Pack(cs, t)]]
             F == [i \in 1 .. N |-> step[turns[i]]]
             Body(g) == [s \in SUBSET DOMAIN turns |->
                            IF s = {} THEN base
                            ELSE Pack(g[s \ {Max(s)}], turns[Max(s)])]
             iter == CHOOSE g : g = Body(g)
  <1>1. N \in Nat /\ DOMAIN turns = 1 .. N /\ \A i \in 1 .. N : turns[i] \in Turns
    BY LenProperties, ElementOfSeq
  <1>2. \A cs \in V, t \in Turns : Pack(cs, t) \in V
    BY PackType
  <1>3. base \in V
    BY EmptySeq
  <1> HIDE DEF V, base, N
  <1>4. step \in [Turns -> [V -> V]] /\ \A t \in Turns, cs \in V : step[t][cs] = Pack(cs, t)
    BY <1>2
  <1>5. \A i \in 1 .. N, cs \in V : F[i][cs] = Pack(cs, turns[i]) /\ F[i][cs] \in V
    BY <1>1, <1>2, <1>4
  <1> HIDE DEF F, step
  <1>6. PICK g : IsSeqFold(g, N, V, base, F)
    BY <1>1, <1>3, <1>5, SeqFoldExists
  <1>7. g = Body(g)
    <2>1. /\ g \in [SUBSET (1 .. N) -> V]
          /\ \A s \in SUBSET (1 .. N) :
                 g[s] = IF s = {} THEN base ELSE F[Max(s)][g[s \ {Max(s)}]]
      BY <1>6 DEF IsSeqFold
    <2>2. ASSUME NEW s \in SUBSET (1 .. N), s # {}
          PROVE  g[s] = Pack(g[s \ {Max(s)}], turns[Max(s)])
      <3>1. Max(s) \in 1 .. N /\ s \ {Max(s)} \in SUBSET (1 .. N)
        BY <1>1, <2>2, FirstNumbers
      <3> QED BY <1>5, <2>1, <2>2, <3>1
    <2> QED BY <1>1, <2>1, <2>2
  <1>8. iter = Body(iter)
    BY <1>7
  <1>9. FoldLeft(Pack, base, turns) = iter[1 .. N]
    BY <1>1 DEF FoldLeft, MapThenFoldSet
  <1> HIDE DEF iter
  <1>10. iter[{}] = base
    BY <1>8
  <1>11. ASSUME NEW s \in SUBSET (1 .. N), s # {}, iter[s \ {Max(s)}] \in V
         PROVE  iter[s] = step[turns[Max(s)]][iter[s \ {Max(s)}]]
    <2>1. Max(s) \in 1 .. N
      BY <1>1, <1>11, FirstNumbers
    <2>2. iter[s] = Pack(iter[s \ {Max(s)}], turns[Max(s)])
      BY <1>1, <1>8, <1>11
    <2> QED BY <1>1, <1>4, <1>11, <2>1, <2>2
  <1>12. \E w : IsWalk(w, turns, V, base, step) /\ w[N] = iter[1 .. N]
    <2>1. step \in [Turns -> [V -> V]]
      BY <1>4
    <2> HIDE DEF Body
    <2>2. IsIter(iter, turns, V, base, step)
      BY <1>10, <1>11 DEF IsIter, N
    <2> QED BY <1>3, <2>1, <2>2, IterWalk DEF N
  <1> QED BY <1>9, <1>12 DEF V, base, step, N, ChunkTurns

\* The chunks hold the turns they were made of.
LEMMA ChunksPacked ==
    ASSUME NEW turns \in Seq(Turns)
    PROVE  Packed(ChunkTurns(turns), turns)
  <1> DEFINE V == Seq(Seq(Turns))
             N == Len(turns)
             step == [t \in Turns |-> [cs \in V |-> Pack(cs, t)]]
             so(n) == SubSeq(turns, 1, n)
  <1>1. N \in Nat /\ \A i \in 1 .. N : turns[i] \in Turns
    BY LenProperties, ElementOfSeq
  <1>2. PICK w : IsWalk(w, turns, V, <<>>, step) /\ w[N] = ChunkTurns(turns)
    BY PackWalk
  <1>3. \A t \in Turns, cs \in V : step[t][cs] = Pack(cs, t)
    OBVIOUS
  <1>4. so(0) = <<>> /\ so(N) = turns
    BY SubSeqEmpty, SubSeqFull
  <1>5. ASSUME NEW n \in Nat, n + 1 \in 1 .. N PROVE so(n + 1) = Append(so(n), turns[n + 1])
    BY <1>1, <1>5
  <1> HIDE DEF V, step, so, N
  <1> DEFINE G == {n \in Nat : n \in 0 .. N => Packed(w[n], so(n))}
  <1>6. 0 \in G
    <2>1. FlattenSeq(<<>>) = <<>> /\ Len(<<>>) = 0 /\ <<>> \in V
      BY EmptySeq DEF FlattenSeq, V
    <2>2. Packed(<<>>, <<>>)
      BY <2>1 DEF Packed, V
    <2> QED BY <1>2, <1>4, <2>2 DEF IsWalk
  <1>7. ASSUME NEW n \in Nat, n \in G PROVE n + 1 \in G
    <2> SUFFICES ASSUME n + 1 \in 0 .. N PROVE Packed(w[n + 1], so(n + 1))
      OBVIOUS
    <2>1. n \in 0 .. N /\ n + 1 \in 1 .. N /\ (n + 1) - 1 = n
      BY <1>1
    <2>2. Packed(w[n], so(n)) /\ turns[n + 1] \in Turns
      BY <1>1, <1>7, <2>1
    <2>3. w[n + 1] = step[turns[n + 1]][w[n]]
      BY <1>2, <2>1 DEF IsWalk, N
    <2>4. w[n + 1] = Pack(w[n], turns[n + 1])
      BY <1>3, <2>2, <2>3 DEF Packed, V
    <2> QED BY <1>5, <2>1, <2>2, <2>4, PackKeeps
  <1> HIDE DEF G
  <1>8. \A n \in Nat : n \in G
    BY <1>6, <1>7, NatsAre
  <1>9. Packed(w[N], so(N))
    <2>1. N \in 0 .. N
      BY <1>1
    <2> QED BY <1>1, <1>8, <2>1 DEF G
  <1> QED BY <1>2, <1>4, <1>9

-----------------------------------------------------------------------------
(* Types, and what is loaded.                                               *)

\* What is loaded are the turns of the window in order, in chunks.
LEMMA LoadPacks ==
    ASSUME NEW S \in SUBSET Turns, IsFiniteSet(S), NEW w
    PROVE  /\ IsFiniteSet(Wanted(S, w)) /\ Wanted(S, w) \in SUBSET Turns
           /\ Packed(ChunkTurns(Loaded(S, w)), InTurn(Wanted(S, w)))
  <1> DEFINE T == Wanted(S, w)
  <1>1. T \in SUBSET S
    BY DEF Wanted
  <1>2. IsFiniteSet(T) /\ T \in SUBSET Turns
    BY <1>1, FS_Subset
  <1>3. Loaded(S, w) = InTurn(T)
    BY DEF Loaded, InTurn
  <1> HIDE DEF T
  <1>4. InTurn(T) \in Seq(Turns)
    BY <1>2, TurnsSort, SeqMonotonic
  <1>5. Packed(ChunkTurns(InTurn(T)), InTurn(T))
    BY <1>4, ChunksPacked
  <1> QED BY <1>2, <1>3, <1>5 DEF T

\* Of finitely much that has been said, finitely much is read.
LEMMA ReadableTurns ==
    ASSUME NEW S \in SUBSET Turns, IsFiniteSet(S), NEW passed
    PROVE  Readable(S, passed) \in SUBSET Turns /\ IsFiniteSet(Readable(S, passed))
  <1>1. Readable(S, passed) \subseteq S
    BY DEF Readable
  <1> QED BY <1>1, FS_Subset

LEMMA FindingsType ==
    ASSUME NEW chunk \in Seq(Turns), chunk # <<>>
    PROVE  Findings(chunk) \subseteq Candidates
  <1>1. \A i \in DOMAIN chunk : chunk[i] \in Turns
    BY LenProperties, ElementOfSeq
  <1>2. SessionOf(chunk) \in Nat
    <2>1. 1 \in 1 .. Len(chunk)
      BY LenProperties, EmptySeq
    <2>2. chunk[1] \in Turns
      BY <2>1, ElementOfSeq
    <2> QED BY <2>2, TurnsAssumption DEF SessionOf, IsTurn
  <1> DEFINE s == SessionOf(chunk)
  <1> HIDE DEF s
  <1>3. ASSUME NEW t \in ToSet(chunk), NEW topic \in t.topics, NEW wording \in Wordings,
               NEW marked \in BOOLEAN
        PROVE  [session |-> s, origin |-> t,
                data |-> [topic |-> topic, wording |-> wording, marked |-> marked]] \in Candidates
    <2>1. t \in Turns
      BY <1>1 DEF ToSet
    <2>2. topic \in Topics
      BY <2>1 DEF Topics
    <2>3. [topic |-> topic, wording |-> wording, marked |-> marked] \in Data
      BY <2>2 DEF Data
    <2> DEFINE d == [topic |-> topic, wording |-> wording, marked |-> marked]
    <2> HIDE DEF d
    <2>4. s \in Nat /\ d \in Data
      BY <1>2, <2>3 DEF s, d
    <2>5. [session |-> s, origin |-> t, data |-> d] \in Candidates
      BY <2>1, <2>4 DEF Candidates
    <2> QED BY <2>5 DEF d
  <1> QED BY <1>3 DEF Findings, s

LEMMA EventType ==
    ASSUME NEW c \in Candidates
    PROVE  EventOf(c) \in Events
  <1>1. c.session \in Nat /\ c.data \in Data /\ c.origin \in Turns
    BY DEF Candidates
  <1>1a. c.data.marked \in BOOLEAN
    BY <1>1 DEF Data
  <1>2. [c.data EXCEPT !.marked = TRUE] \in Data
    BY <1>1 DEF Data
  <1>3. PICK s, o, d, n : s = c.session /\ o = c.origin /\ n = c.data.marked
                         /\ d = [c.data EXCEPT !.marked = TRUE]
    OBVIOUS
  <1>4. [session |-> s, data |-> d, origin |-> o, reconstructed |-> TRUE, echoed |-> n] \in Events
    BY <1>1, <1>1a, <1>2, <1>3 DEF Events
  <1> QED BY <1>3, <1>4 DEF EventOf

LEMMA IndexType ==
    ASSUME ledger \in Seq(Events)
    PROVE  ExistingSignatures \subseteq Nat \X (Data \cup [topic : Keyed])
  <1> SUFFICES ASSUME NEW e \in ToSet(ledger)
               PROVE  <<e.session, Signature(Stripped(e.data))>> \in Nat \X (Data \cup [topic : Keyed])
    BY DEF ExistingSignatures
  <1>1. e \in Events
    BY LenProperties, ElementOfSeq DEF ToSet
  <1>2. e.session \in Nat /\ e.data \in Data
    BY <1>1 DEF Events
  <1>3. Stripped(e.data) \in Data
    BY <1>2 DEF Stripped, Data
  <1>4. \A d \in Data : Signature(d) \in Data \cup [topic : Keyed]
    BY DEF Signature
  <1> QED BY <1>2, <1>3, <1>4

LEMMA TypeInit == Init => TypeOK /\ LoadInv
  <1> SUFFICES ASSUME Init PROVE TypeOK /\ LoadInv
    OBVIOUS
  <1>1. 0 \in 0 .. MaxAudits
    BY WindowsAssumption
  <1>2. <<>> \in Seq(Events) /\ <<>> \in Seq(Seq(Turns)) /\ DOMAIN <<>> = {}
    OBVIOUS
  <1>3. IsFiniteSet({})
    BY FS_EmptySet
  <1> QED BY <1>1, <1>2, <1>3 DEF Init, TypeOK, LoadInv, Steps

LEMMA TypeLeave ==
    ASSUME TypeOK, LoadInv, NEW a \in Auditors, Leave(a), UNCHANGED <<worldVars, started>>
    PROVE  TypeOK' /\ LoadInv'
  <1>1. <<>> \in Seq(Seq(Turns)) /\ DOMAIN <<>> = {}
    OBVIOUS
  <1>2. UNCHANGED <<spoken, ledger, started>>
    BY DEF worldVars
  <1>3. TypeOK'
    BY <1>1, <1>2 DEF TypeOK, Leave, Steps
  <1>4. LoadInv'
    <2>1. ASSUME NEW b \in Auditors
          PROVE  \/ unasked'[b] = unasked[b] /\ chunks'[b] = chunks[b] /\ pc'[b] = pc[b]
                 \/ unasked'[b] = {} /\ chunks'[b] = <<>>
      BY DEF TypeOK, Leave
    <2> QED BY <1>1, <1>2, <2>1 DEF LoadInv
  <1> QED BY <1>3, <1>4

LEMMA TypeStep == TypeOK /\ LoadInv /\ [Next]_vars => TypeOK' /\ LoadInv'
  <1> SUFFICES ASSUME TypeOK, LoadInv, [Next]_vars PROVE TypeOK' /\ LoadInv'
    OBVIOUS
  <1> USE DEF auditVars, worldVars
  <1>1. ASSUME NEW t \in Turns, Speak(t) PROVE TypeOK' /\ LoadInv'
    <2>1. IsFiniteSet(spoken')
      BY <1>1, FS_AddElement DEF Speak, LoadInv
    <2> QED BY <1>1, <2>1 DEF Speak, TypeOK, LoadInv
  <1>2. ASSUME NEW t \in Turns, NEW topic \in t.topics, NEW wording \in Wordings,
               SelfEmit(t, topic, wording)
        PROVE  TypeOK' /\ LoadInv'
    <2> DEFINE d == [topic |-> topic, wording |-> wording, marked |-> FALSE]
    <2>1. d \in Data /\ t.session \in Nat
      BY TurnsAssumption DEF Data, Topics, IsTurn
    <2>2. ledger' = Append(ledger, [session |-> t.session, origin |-> t,
                                    reconstructed |-> FALSE, echoed |-> FALSE, data |-> d])
      BY <1>2 DEF SelfEmit
    <2> HIDE DEF d
    <2>3. ledger' \in Seq(Events)
      BY <2>1, <2>2, AppendProperties DEF Events, TypeOK
    <2> QED BY <1>2, <2>3 DEF SelfEmit, TypeOK, LoadInv
  <1>3. ASSUME NEW a \in Auditors, NEW w \in Windows, NEW passed, Load(a, w, passed) PROVE TypeOK' /\ LoadInv'
    <2> DEFINE read == Readable(spoken, passed)
               cs == ChunkTurns(Loaded(read, w))
    <2>0. read \in SUBSET Turns /\ IsFiniteSet(read)
      BY ReadableTurns DEF TypeOK, LoadInv
    <2>1. cs \in Seq(Seq(Turns)) /\ \A i \in 1 .. Len(cs) : cs[i] # <<>>
      <3> HIDE DEF read
      <3> QED BY <2>0, LoadPacks DEF Packed
    <2>2. chunks' = [chunks EXCEPT ![a] = cs] /\ unasked' = unasked /\ spoken' = spoken
      BY <1>3 DEF Load
    <2>3. w.dryRun \in BOOLEAN /\ started + 1 \in 0 .. MaxAudits
      BY <1>3, WindowsAssumption DEF Load, TypeOK, IsWindow
    <2> HIDE DEF cs
    <2>4. TypeOK'
      BY <1>3, <2>1, <2>2, <2>3 DEF Load, TypeOK, Steps
    <2>5. LoadInv'
      <3>1. unasked'[a] = {} /\ chunks'[a] = cs /\ DOMAIN cs = 1 .. Len(cs)
        BY <1>3, <2>1, <2>2, LenProperties DEF Load, LoadInv, TypeOK
      <3>2. \A b \in Auditors : b # a =>
               unasked'[b] = unasked[b] /\ chunks'[b] = chunks[b] /\ pc'[b] = pc[b]
        BY <1>3, <2>2 DEF Load, TypeOK
      <3> QED BY <2>1, <2>2, <3>1, <3>2 DEF LoadInv
    <2> QED BY <2>4, <2>5
  <1>4. ASSUME NEW a \in Auditors, NoClient(a) \/ Finish(a) \/ Crash(a) PROVE TypeOK' /\ LoadInv'
    BY <1>4, TypeLeave DEF NoClient, Finish, Crash
  <1>5. ASSUME NEW a \in Auditors, ReadExisting(a) PROVE TypeOK' /\ LoadInv'
    <2>1. ExistingSignatures \subseteq Nat \X (Data \cup [topic : Keyed])
      BY IndexType DEF TypeOK
    <2>2. DOMAIN chunks[a] \subseteq Nat
      BY LenProperties DEF TypeOK
    <2> QED BY <1>5, <2>1, <2>2 DEF ReadExisting, TypeOK, LoadInv, Steps
  <1>6. ASSUME NEW a \in Auditors, NEW i \in unasked[a], Ask(a, i) PROVE TypeOK' /\ LoadInv'
    <2>1. PICK found \in SUBSET Findings(chunks[a][i]) :
             candidates' = [candidates EXCEPT ![a] = @ \cup found]
      BY <1>6 DEF Ask
    <2>2. chunks[a] \in Seq(Seq(Turns)) /\ i \in DOMAIN chunks[a] /\ chunks[a][i] # <<>>
      BY DEF TypeOK, LoadInv
    <2>3. chunks[a][i] \in Seq(Turns)
      BY <2>2, ElementOfSeq, LenProperties
    <2>4. found \subseteq Candidates
      BY <2>1, <2>2, <2>3, FindingsType
    <2> QED BY <1>6, <2>1, <2>4 DEF Ask, TypeOK, LoadInv
  <1>7. ASSUME NEW a \in Auditors, NEW i \in unasked[a], AskFails(a, i) PROVE TypeOK' /\ LoadInv'
    BY <1>7 DEF AskFails, TypeOK, LoadInv
  <1>8. ASSUME NEW a \in Auditors, Dedup(a) PROVE TypeOK' /\ LoadInv'
    <2>1. PICK F \in SUBSET candidates[a] : fresh' = [fresh EXCEPT ![a] = F]
      BY <1>8 DEF Dedup
    <2>2. F \subseteq Candidates
      BY <2>1 DEF TypeOK
    <2> QED BY <1>8, <2>1, <2>2 DEF Dedup, TypeOK, LoadInv, Steps
  <1>9. ASSUME NEW a \in Auditors, NEW c \in fresh[a], AppendOne(a, c) \/ AppendRaises(a, c)
        PROVE  TypeOK' /\ LoadInv'
    <2>1. c \in Candidates
      BY DEF TypeOK
    <2>2. ledger' \in Seq(Events)
      <3>1. EventOf(c) \in Events /\ ledger \in Seq(Events)
        BY <2>1, EventType DEF TypeOK
      <3>2. Append(ledger, EventOf(c)) \in Seq(Events)
        BY <3>1, AppendProperties
      <3> QED BY <1>9, <3>1, <3>2 DEF AppendOne, AppendRaises
    <2>3. /\ spoken' = spoken /\ started' = started /\ pc' = pc /\ dryRun' = dryRun
          /\ chunks' = chunks /\ existing' = existing /\ unasked' = unasked
          /\ candidates' = candidates
      BY <1>9 DEF AppendOne, AppendRaises
    <2>4. fresh' \in [Auditors -> SUBSET Candidates]
      <3>1. fresh \in [Auditors -> SUBSET Candidates]
        BY DEF TypeOK
      <3>2. fresh' = [fresh EXCEPT ![a] = @ \ {c}]
        BY <1>9 DEF AppendOne, AppendRaises
      <3> QED BY <3>1, <3>2
    <2>5. failed' \in [Auditors -> SUBSET Candidates]
      <3>1. failed \in [Auditors -> SUBSET Candidates]
        BY DEF TypeOK
      <3>2. failed' = failed \/ failed' = [failed EXCEPT ![a] = @ \cup {c}]
        BY <1>9 DEF AppendOne, AppendRaises
      <3> QED BY <2>1, <3>1, <3>2
    <2>6. TypeOK'
      BY <2>2, <2>3, <2>4, <2>5 DEF TypeOK
    <2>7. LoadInv'
      BY <2>3 DEF LoadInv
    <2> QED BY <2>6, <2>7
  <1>10. CASE UNCHANGED vars
    BY <1>10 DEF vars, TypeOK, LoadInv
  <1> QED BY <1>1, <1>2, <1>3, <1>4, <1>5, <1>6, <1>7, <1>8, <1>9, <1>10 DEF Next

\* Every variable of every audit holds a value of its kind: what is loaded are chunks of
\* turns, what is found are findings, and what is logged are events.
THEOREM TypeCorrect == Spec => []TypeOK
  BY TypeInit, TypeStep, PTL DEF Spec

\* What an audit reads of the turns S, as LoadsAll says it.
InView(S, w, passed) ==
    {t \in S :
        /\ t.file \notin passed /\ ~t.split
        /\ w.session \in {AnySession, t.file}
        /\ t.time # NoTime => t.time \in w.since .. w.until - 1}

LEMMA LoadFits ==
    ASSUME NEW S \in SUBSET Turns, IsFiniteSet(S), NEW w \in Windows, NEW passed
    PROVE  WellPacked(ChunkTurns(Loaded(Readable(S, passed), w)), InView(S, w, passed))
  <1> DEFINE R == Readable(S, passed)
             T == Wanted(R, w)
             cs == ChunkTurns(Loaded(R, w))
             all == InTurn(T)
  <1>0. R \in SUBSET Turns /\ IsFiniteSet(R)
    BY ReadableTurns
  <1>1. InView(S, w, passed) = T
    <2>1. w.since \in Nat /\ w.until \in Nat /\ w.session \in Nat
      BY WindowsAssumption DEF IsWindow
    <2>2. \A t \in S : t.time \in Nat
      BY TurnsAssumption DEF IsTurn
    <2> QED BY <2>1, <2>2 DEF InView, Readable, Wanted, InWindow
  <1>2. IsFiniteSet(T) /\ T \in SUBSET Turns /\ Packed(cs, all)
    <2> HIDE DEF R
    <2> QED BY <1>0, LoadPacks
  <1> HIDE DEF T, cs
  <1>3. /\ all \in Seq(T) /\ Len(all) = Cardinality(T) /\ Range(all) = T
        /\ \A i, j \in 1 .. Len(all) : i < j => TurnPrecedes(all[i], all[j])
    BY <1>2, TurnsSort
  <1> HIDE DEF all
  <1>4. DOMAIN all = 1 .. Len(all) /\ ToSet(all) = Range(all)
    BY <1>3, LenProperties DEF ToSet, Range
  <1>5. DOMAIN cs = 1 .. Len(cs) /\ FlattenSeq(cs) = all
    BY <1>2, LenProperties DEF Packed
  <1>6. WellPacked(cs, T)
    BY <1>2, <1>3, <1>4, <1>5 DEF WellPacked, Packed
  <1> QED BY <1>1, <1>6 DEF cs

\* Of the files it can read, an audit loads every turn of its session and its window
\* that has been spoken and that splitlines does not break (and those without a
\* timestamp), each in one chunk, in the order of their times; a chunk is within the
\* budget or a single turn, and none is closed early.
THEOREM TurnsLoaded == Spec => LoadsAll
  <1>1. ASSUME TypeOK, LoadInv, [Next]_vars
        PROVE  [\A a \in Auditors, w \in Windows, passed \in SUBSET Files :
                   Load(a, w, passed) =>
                       WellPacked(chunks'[a], InView(spoken, w, passed))]_vars
    <2> SUFFICES ASSUME NEW a \in Auditors, NEW w \in Windows, NEW passed, Load(a, w, passed)
                 PROVE  WellPacked(chunks'[a], InView(spoken, w, passed))
      OBVIOUS
    <2>1. chunks'[a] = ChunkTurns(Loaded(Readable(spoken, passed), w))
      BY <1>1 DEF Load, TypeOK
    <2>2. WellPacked(ChunkTurns(Loaded(Readable(spoken, passed), w)), InView(spoken, w, passed))
      BY <1>1, LoadFits DEF TypeOK, LoadInv
    <2> QED BY <2>1, <2>2
  <1> QED BY <1>1, TypeInit, TypeStep, PTL DEF Spec, LoadsAll, InView
=============================================================================
