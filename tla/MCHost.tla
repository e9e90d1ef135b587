-------------------------------- MODULE MCHost --------------------------------
(***************************************************************************)
(* Values for TLC's run of a host.  Event ids and uuids are numbers, taken *)
(* in their order, which stands for the symmetry between them.             *)
(***************************************************************************)
EXTENDS Host, TLC

CONSTANTS w1, w2

ProcessSymmetry == Permutations(Writers)

ThreeUuidsAndAName == {1, 2, 3, 9}
ThreeUuids == {1, 2, 3}
OneMonth == {1}
=============================================================================
