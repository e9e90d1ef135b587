---------------------------- MODULE MCLedgerStore ----------------------------
(***************************************************************************)
(* Values for TLC's runs of the write path.                                *)
(***************************************************************************)
EXTENDS LedgerRefinement, TLC

CONSTANTS w1, w2, w3, e1, e2, e3, e4

ClientSymmetry == Permutations(Writers) \cup Permutations(Ids)

OneMachine == {1}
TwoMachines == {1, 2}
TwoMonths == {1, 2}
=============================================================================
