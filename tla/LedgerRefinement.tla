--------------------------- MODULE LedgerRefinement ---------------------------
(***************************************************************************)
(* The store implements the ledger: read off the files, the lines of a     *)
(* machine in the order of their seq are its log, an append takes effect   *)
(* when os.write stores its line, and what append returns is the entry.    *)
(***************************************************************************)
EXTENDS LedgerStore, FiniteSets

\* The id on m's line with a given seq.
IdAt(m, s) ==
    CHOOSE id \in Ids : \E b \in Buckets : \E i \in DOMAIN file[m][b] :
        file[m][b][i].seq = s /\ file[m][b][i].id = id

LogOf(m) == [n \in 1 .. Cardinality(Seqs(m)) |-> IdAt(m, n - 1)]

\* The line of the append that w has under way is in its file.
LineWritten(w) ==
    LET f == file[event[w].machine][event[w].bucket]
    IN  \E i \in DOMAIN f : f[i].id = event[w].id

CallOf(w) ==
    IF pc[w] = "idle" THEN NoEvent
    ELSE [id |-> event[w].id, machine |-> event[w].machine,
          seq |-> IF LineWritten(w) THEN seq[w] ELSE -1]

EntryOf(a) == [id |-> a.id, machine |-> a.machine, seq |-> a.seq]

\* The ledger's variables, read off the store's.
Logs == [m \in Machines |-> LogOf(m)]
UnderWay == [w \in Writers |-> CallOf(w)]
Returned == {EntryOf(a) : a \in acked}

L == INSTANCE Ledger WITH
        Clients <- Writers, NoCall <- NoEvent,
        log <- Logs, call <- UnderWay, acked <- Returned

\* Every step of the store is a step of the ledger or leaves it alone: threads
\* and processes that append at once, raise or die give each machine one log
\* without holes, and each append that returns is the entry it claims to be.
ImplementsLedger == L!Spec

\* A writer without an append is told from one with it.
ASSUME NoCallAssumption == NoEvent \notin L!Calls

-----------------------------------------------------------------------------
(* What makes the refinement inductive.                                     *)

\* The seqs of a machine are the first n numbers.
DenseInv == \A m \in Machines : \E n \in Nat : Seqs(m) = 0 .. n - 1
=============================================================================
