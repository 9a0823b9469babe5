------------------------------ MODULE MCEvent ------------------------------
(***************************************************************************)
(* ShEvent on small instances.                                             *)
(***************************************************************************)
EXTENDS ShEvent

CONSTANTS s1, s2, e1, e2, m1, m2, m3

Symmetry == Permutations(Servers) \cup Permutations(Msgs) \cup Permutations(Events)
=============================================================================
