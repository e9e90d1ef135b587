-------------------------------- MODULE Ledger --------------------------------
(***************************************************************************)
(* What the ledger promises to those who append: each machine has one log, *)
(* an append puts its event at the end of it in one step between its call  *)
(* and its return, and returns the place (the seq) it got.  An append that *)
(* raises or dies may have put its event there or not, but never twice.    *)
(* This states the module comment of evledger/store.py ("append-only",     *)
(* "monotonic per-machine seq ... distinct, gap-free") and the docstring   *)
(* of append ("the exact object that was persisted").                      *)
(***************************************************************************)
EXTENDS Integers, Sequences

CONSTANTS
    Clients,  \* those who append
    Machines,
    Ids,      \* event ids
    NoCall    \* a client that has no append under way

\* seq is -1 until the append has taken effect.
Calls == [id : Ids, machine : Machines, seq : Nat \cup {-1}]

VARIABLES
    log,   \* log[m]: the ids of m's events in the order of their seq
    call,  \* call[c]: the append that c has under way
    acked  \* history: what appends have returned

vars == <<log, call, acked>>

Init ==
    /\ log = [m \in Machines |-> <<>>]
    /\ call = [c \in Clients |-> NoCall]
    /\ acked = {}

Begin(c, id, m) ==
    /\ call[c] = NoCall
    /\ call' = [call EXCEPT ![c] = [id |-> id, machine |-> m, seq |-> -1]]
    /\ UNCHANGED <<log, acked>>

\* The append takes effect.
Commit(c) ==
    /\ call[c] # NoCall
    /\ call[c].seq = -1
    /\ log' = [log EXCEPT ![call[c].machine] = Append(@, call[c].id)]
    /\ call' = [call EXCEPT ![c].seq = Len(log[call[c].machine])]
    /\ UNCHANGED acked

Return(c) ==
    /\ call[c] # NoCall
    /\ call[c].seq # -1
    /\ acked' = acked \cup {call[c]}
    /\ call' = [call EXCEPT ![c] = NoCall]
    /\ UNCHANGED log

\* The append raises, or its client dies.
Abandon(c) ==
    /\ call[c] # NoCall
    /\ call' = [call EXCEPT ![c] = NoCall]
    /\ UNCHANGED <<log, acked>>

Next ==
    \E c \in Clients :
        \/ \E id \in Ids, m \in Machines : Begin(c, id, m)
        \/ Commit(c)
        \/ Return(c)
        \/ Abandon(c)

Spec == Init /\ [][Next]_vars

-----------------------------------------------------------------------------
TypeOK ==
    /\ log \in [Machines -> Seq(Ids)]
    /\ call \in [Clients -> Calls \cup {NoCall}]
    /\ acked \subseteq Calls

\* What an append returned stays at the place it was returned for.
AckedInPlace ==
    \A a \in acked : a.seq \in 0 .. Len(log[a.machine]) - 1
                     /\ log[a.machine][a.seq + 1] = a.id
=============================================================================
