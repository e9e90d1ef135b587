------------------------------- MODULE Sorting -------------------------------
(***************************************************************************)
(* What Python's sort makes of a set, by a key that tells its elements     *)
(* apart.                                                                  *)
(***************************************************************************)
EXTENDS Integers, FiniteSets

\* The elements of S in the order Before, which is total: each comes after as many as
\* are before it.
Sorted(S, Before(_, _)) ==
    [n \in 1 .. Cardinality(S) |->
        CHOOSE e \in S : Cardinality({f \in S : Before(f, e)}) = n - 1]
=============================================================================
