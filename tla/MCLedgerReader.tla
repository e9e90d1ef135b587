---------------------------- MODULE MCLedgerReader ----------------------------
(***************************************************************************)
(* Values for TLC's runs of readers against appends.                       *)
(***************************************************************************)
EXTENDS LedgerReader

CONSTANTS w1, w2, e1, e2, e3

Symmetry == Permutations(Writers) \cup Permutations(Ids)

OneMachine == {1}
TwoMachines == {1, 2}
TwoMonths == {1, 2}
=============================================================================
