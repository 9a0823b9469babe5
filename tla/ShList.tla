------------------------------- MODULE ShList -------------------------------
(***************************************************************************)
(* The intrusive doubly linked lists of Inc/sh_list.h, as sequences of     *)
(* their nodes in `next` order, the list head left out.  A node that is on *)
(* no list points to itself, so that removing it again changes nothing.    *)
(***************************************************************************)
EXTENDS Naturals, SequencesExt

OnList(l, x) == \E i \in DOMAIN l : l[i] = x

Position(l, x) == CHOOSE i \in DOMAIN l : l[i] = x

sh_list_remove(l, x) == IF OnList(l, x) THEN RemoveAt(l, Position(l, x)) ELSE l

\* x goes before the node at position i.
sh_list_insert_before(l, x, i) == InsertAt(l, i, x)

\* What is left of the list when the nodes in X are removed one by one.
Without(l, X) ==
  LET kept[n \in 0 .. Len(l)] ==
        IF n = 0 THEN <<>>
        ELSE IF l[n] \in X THEN kept[n - 1] ELSE Append(kept[n - 1], l[n])
  IN  kept[Len(l)]

\* The positions at which x is on the list.
Occurs(x, l) == {i \in DOMAIN l : l[i] = x}
=============================================================================
