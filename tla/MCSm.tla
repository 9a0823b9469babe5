-------------------------------- MODULE MCSm --------------------------------
(***************************************************************************)
(* ShSm on small instances.                                                *)
(***************************************************************************)
EXTENDS ShSm

CONSTANTS s1, s2, e1, e2, m1, m2, m3, t1, t2, global

Symmetry == Permutations(Servers) \cup Permutations(Msgs)
            \cup Permutations(Timers) \cup Permutations(Events)
=============================================================================
