------------------------------ MODULE LedgerProofs ------------------------------
(***************************************************************************)
(* What the abstract ledger promises follows from its steps, for every     *)
(* number of clients, machines and ids.                                    *)
(***************************************************************************)
EXTENDS Ledger, SequenceTheorems, TLAPS

\* The entry e has its place in its machine's log.
InPlace(e) == e.seq \in 0 .. Len(log[e.machine]) - 1 /\ log[e.machine][e.seq + 1] = e.id

\* An append that has taken effect has its place before it returns.
PlaceInv ==
    /\ TypeOK
    /\ \A c \in Clients : call[c] # NoCall /\ call[c].seq # -1 => InPlace(call[c])
    /\ \A a \in acked : InPlace(a)

LEMMA TypeInit == Init => TypeOK
  BY DEF Init, TypeOK

LEMMA PlaceInit == Init => PlaceInv
  BY TypeInit DEF Init, PlaceInv

\* What is in place stays there while logs grow at their ends.
LEMMA StaysInPlace ==
    ASSUME TypeOK, NEW e \in Calls, InPlace(e),
           NEW m \in Machines, NEW id \in Ids, log' = [log EXCEPT ![m] = Append(@, id)]
    PROVE  InPlace(e)'
  <1>1. e.machine \in Machines /\ log[e.machine] \in Seq(Ids)
    BY DEF TypeOK, Calls
  <1>2. CASE e.machine = m
    <2>1. log'[m] = Append(log[m], id)
      BY DEF TypeOK
    <2>2. /\ Len(log'[m]) = Len(log[m]) + 1 /\ Len(log[m]) \in Nat
          /\ \A i \in 1 .. Len(log[m]) : log'[m][i] = log[m][i]
      BY <1>1, <1>2, <2>1, AppendProperties, LenProperties
    <2>3. e.seq + 1 \in 1 .. Len(log[m]) /\ e.seq \in 0 .. Len(log'[m]) - 1
      BY <1>2, <2>2 DEF InPlace
    <2> QED BY <1>2, <2>2, <2>3 DEF InPlace
  <1>3. CASE e.machine # m
    BY <1>1, <1>3 DEF InPlace, TypeOK
  <1> QED BY <1>2, <1>3

LEMMA PlaceStep ==
    ASSUME NoCall \notin Calls, PlaceInv, [Next]_vars
    PROVE  PlaceInv'
  <1>0. TypeOK
    BY DEF PlaceInv
  <1>1. ASSUME NEW c \in Clients, NEW id \in Ids, NEW m \in Machines, Begin(c, id, m)
        PROVE  PlaceInv'
    <2>1. [id |-> id, machine |-> m, seq |-> -1] \in Calls
      BY DEF Calls
    <2>2. TypeOK'
      BY <1>0, <1>1, <2>1 DEF Begin, TypeOK
    <2>3. \A d \in Clients : call'[d] = call[d] \/ call'[d].seq = -1
      BY <1>0, <1>1 DEF Begin, TypeOK
    <2> QED BY <1>1, <2>2, <2>3 DEF Begin, PlaceInv, InPlace
  <1>2. ASSUME NEW c \in Clients, Commit(c) PROVE PlaceInv'
    <2>1. PICK m \in Machines, id \in Ids :
             /\ m = call[c].machine /\ id = call[c].id
             /\ call[c] \in Calls /\ call[c].seq = -1
             /\ log' = [log EXCEPT ![m] = Append(@, id)]
             /\ call' = [call EXCEPT ![c].seq = Len(log[m])]
             /\ acked' = acked
      BY <1>0, <1>2 DEF Commit, TypeOK, Calls
    <2>2. /\ log[m] \in Seq(Ids) /\ log'[m] = Append(log[m], id) /\ Len(log[m]) \in Nat
          /\ log'[m] \in Seq(Ids)
          /\ Len(log'[m]) = Len(log[m]) + 1 /\ log'[m][Len(log[m]) + 1] = id
      BY <1>0, <2>1, AppendProperties, LenProperties DEF TypeOK
    <2>3. call'[c] = [id |-> id, machine |-> m, seq |-> Len(log[m])]
      BY <1>0, <2>1 DEF TypeOK, Calls
    <2>4. call'[c] \in Calls
      BY <2>2, <2>3 DEF Calls
    <2>5. \A d \in Clients : d # c => call'[d] = call[d]
      BY <1>0, <2>1 DEF TypeOK
    <2>6. TypeOK'
      <3>1. log' \in [Machines -> Seq(Ids)]
        BY <1>0, <2>1, <2>2 DEF TypeOK
      <3>2. call' \in [Clients -> Calls \cup {NoCall}]
        BY <1>0, <2>1, <2>4, <2>5 DEF TypeOK
      <3> QED BY <1>0, <2>1, <3>1, <3>2 DEF TypeOK
    <2>7. InPlace(call[c])'
      BY <2>2, <2>3 DEF InPlace
    <2>8. ASSUME NEW d \in Clients, d # c, call'[d] # NoCall, call'[d].seq # -1
          PROVE  InPlace(call[d])'
      <3>1. PICK e \in Calls : e = call[d] /\ InPlace(e)
        BY <1>0, <2>5, <2>8 DEF PlaceInv, TypeOK
      <3>2. InPlace(e)'
        BY <1>0, <2>1, <3>1, StaysInPlace
      <3> QED BY <2>5, <2>8, <3>1, <3>2 DEF InPlace
    <2>9. ASSUME NEW a \in acked PROVE InPlace(a)'
      BY <1>0, <2>1, StaysInPlace DEF PlaceInv, TypeOK
    <2> QED BY <2>1, <2>6, <2>7, <2>8, <2>9 DEF PlaceInv
  <1>3. ASSUME NEW c \in Clients, Return(c) PROVE PlaceInv'
    <2>1. call[c] \in Calls /\ InPlace(call[c])
      BY <1>0, <1>3 DEF Return, PlaceInv, TypeOK
    <2>2. TypeOK'
      BY <1>0, <1>3, <2>1 DEF Return, TypeOK
    <2>3. \A d \in Clients : call'[d] = call[d] \/ call'[d] = NoCall
      BY <1>0, <1>3 DEF Return, TypeOK
    <2> QED BY <1>3, <2>1, <2>2, <2>3 DEF Return, PlaceInv, InPlace
  <1>4. ASSUME NEW c \in Clients, Abandon(c) PROVE PlaceInv'
    <2>1. TypeOK'
      BY <1>0, <1>4 DEF Abandon, TypeOK
    <2>2. \A d \in Clients : call'[d] = call[d] \/ call'[d] = NoCall
      BY <1>0, <1>4 DEF Abandon, TypeOK
    <2> QED BY <1>4, <2>1, <2>2 DEF Abandon, PlaceInv, InPlace
  <1>5. CASE UNCHANGED vars
    BY <1>5 DEF vars, PlaceInv, TypeOK, InPlace
  <1> QED BY <1>1, <1>2, <1>3, <1>4, <1>5 DEF Next

\* What an append returned is at the place it was returned for, and stays there
\* (store.py: "the exact object that was persisted", "distinct, gap-free").
THEOREM EntriesInPlace ==
    ASSUME NoCall \notin Calls
    PROVE  Spec => []AckedInPlace
  <1>1. PlaceInv /\ [Next]_vars => PlaceInv'
    BY PlaceStep
  <1>2. PlaceInv => AckedInPlace
    BY DEF PlaceInv, InPlace, AckedInPlace
  <1> QED BY <1>1, <1>2, PlaceInit, PTL DEF Spec
=============================================================================
