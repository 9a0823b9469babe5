---------------------------- MODULE BoundedQueue ----------------------------
(***************************************************************************)
(* What a ring buffer promises: a queue of at most Capacity items.  Items  *)
(* that do not fit are dropped from the end of a batch; taking items out   *)
(* hands over the oldest ones.                                             *)
(***************************************************************************)
EXTENDS Naturals, Sequences

CONSTANTS Capacity,
          Batches,   \* the sequences of items that callers put in
          Counts     \* the numbers of items that callers ask for

VARIABLES open,      \* TRUE while the queue may be used
          contents,  \* the items in the queue, oldest first
          accepted,  \* how many items the last In has put into the queue
          handed     \* what the last caller of Out got

queueVars == <<open, contents, accepted, handed>>

Smaller(a, b) == IF a < b THEN a ELSE b

QueueInit == open = FALSE /\ contents = <<>> /\ accepted = 0 /\ handed = <<>>

In(xs) ==
  /\ open
  /\ accepted' = Smaller(Len(xs), Capacity - Len(contents))
  /\ contents' = contents \o SubSeq(xs, 1, accepted')
  /\ UNCHANGED <<open, handed>>

Out(n) ==
  /\ open
  /\ LET k == Smaller(n, Len(contents))
     IN  /\ handed'   = SubSeq(contents, 1, k)
         /\ contents' = SubSeq(contents, k + 1, Len(contents))
  /\ UNCHANGED <<open, accepted>>

\* The queue is opened, empty, or closed, with whatever it holds.
Toggle ==
  /\ open' = ~open /\ contents' = <<>>
  /\ UNCHANGED <<accepted, handed>>

QueueNext ==
  \/ \E xs \in Batches : In(xs)
  \/ \E n \in Counts : Out(n)
  \/ Toggle

QueueSpec == QueueInit /\ [][QueueNext]_queueVars
=============================================================================
