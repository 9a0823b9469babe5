------------------------------ MODULE MCTimer ------------------------------
(***************************************************************************)
(* ShTimer on small instances.                                             *)
(***************************************************************************)
EXTENDS ShTimer

CONSTANTS t1, t2, t3, h1, h2

Symmetry == Permutations(Timers) \cup Permutations(Heads)
=============================================================================
