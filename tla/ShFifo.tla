------------------------------- MODULE ShFifo -------------------------------
(***************************************************************************)
(* The ring buffer of sh_lib, Src/sh_fifo.c, of Size elements of which one *)
(* always stays free.  sh_fifo_in and sh_fifo_out disable interrupts;      *)
(* sh_fifo_out_peek and the size functions do not, so that interrupts      *)
(* change the buffer between any two of their reads.                       *)
(***************************************************************************)
EXTENDS ShIsr, SequencesExt

CONSTANTS Size,     \* fifo->size
          Word,     \* 2^32 in the code: unsigned arithmetic is modulo Word
          Items,    \* the elements, of esize bytes each
          MaxBatch  \* bound on the number of elements of one call

\* With more than 2^31 elements in + size would overflow.
ASSUME FifoAssumption ==
  /\ Size \in Nat \ {0} /\ Word \in Nat /\ 2 * Size <= Word
  /\ MaxBatch \in Nat

VARIABLES live,     \* TRUE while the buffer is allocated
          in, out,  \* fifo->in and fifo->out
          data,     \* fifo->data
          put,      \* what the last sh_fifo_in returned
          buf       \* what the last sh_fifo_out copied to its caller

fifoVars == <<live, in, out, data, put, buf>>

Index == 0 .. Size - 1
Unread == Size
Counts == 0 .. MaxBatch
Batches == UNION {[1 .. n -> Items] : n \in Counts}

\* A peek in progress: `i` and `o` are what it has read of in and out to
\* compute the used size, `want` how many elements it will copy, `got` those
\* copied so far, `had` (not in the code) the used size when it started.
PeekFrames == [op : {"peek"}, pc : {"check"}, at : {"size", "copy"},
               i : Index \cup {Unread}, o : Index \cup {Unread},
               want : Counts, had : Counts, got : Seq(Items),
               level : BOOLEAN, ok : BOOLEAN]

IsPeek(f) == f.op = "peek"

FifoInit ==
  /\ IsrInit
  /\ live = FALSE /\ in = 0 /\ out = 0 /\ put = 0 /\ buf = <<>>
  /\ data \in [Index -> Items]
-----------------------------------------------------------------------------
\* Mutant: no element is kept free.
unused_all(i, o) == Size - (((i + Size - o) % Word) % Size)

MIN(a, b) == IF a < b THEN a ELSE b

sh_fifo_get_used_size(i, o) == ((i + Size - o) % Word) % Size

sh_fifo_get_unused_size(i, o) == Size - sh_fifo_get_used_size(i, o) - 1

\* The element that the two memcpys from o on copy after k others.
At(o, k) == LET len == Size - (o % Size) IN IF k < len THEN o + k ELSE k - len

\* data after n elements of xs are copied in from index i on, in two parts.
Copied(d, i, xs, n) ==
  LET len == MIN(Size - (i % Size), n)
  IN  [j \in Index |-> IF j < n - len THEN xs[len + j + 1]
                       ELSE IF j \in i .. i + len - 1 THEN xs[j - i + 1]
                       ELSE d[j]]
-----------------------------------------------------------------------------
\* A buffer has one reader: nobody takes elements out of it, or frees it,
\* under a peek.
Unpeeked == \A i \in DOMAIN stack : ~IsPeek(stack[i])

\* What malloc returns is not initialised.
sh_fifo_create ==
  /\ CanCall("fifo_create") /\ ~live
  /\ live' = TRUE /\ in' = 0 /\ out' = 0 /\ data' \in [Index -> Items]
  /\ UNCHANGED <<put, buf, isrVars>>

sh_fifo_destroy ==
  /\ CanCall("fifo_destroy") /\ live /\ Unpeeked
  /\ live' = FALSE /\ in' = 0 /\ out' = 0
  /\ UNCHANGED <<data, put, buf, isrVars>>

\* Mutant: the index runs on.
in_unwrapped(xs) ==
  /\ CanCall("fifo_in") /\ live
  /\ LET n == MIN(Len(xs), sh_fifo_get_unused_size(in, out))
     IN  /\ data' = Copied(data, in, xs, n)
         /\ in'   = in + n
         /\ put'  = n
  /\ UNCHANGED <<live, out, buf, isrVars>>

sh_fifo_in(xs) ==
  /\ CanCall("fifo_in") /\ live
  /\ LET n == MIN(Len(xs), sh_fifo_get_unused_size(in, out))
     IN  /\ data' = Copied(data, in, xs, n)
         /\ in'   = ((in + n) % Word) % Size
         /\ put'  = n
  /\ UNCHANGED <<live, out, buf, isrVars>>

sh_fifo_out(n) ==
  /\ CanCall("fifo_out") /\ live /\ Unpeeked
  /\ LET k == MIN(n, sh_fifo_get_used_size(in, out))
     IN  /\ buf' = [i \in 1 .. k |-> data[At(out, i - 1)]]
         /\ out' = ((out + k) % Word) % Size
  /\ UNCHANGED <<live, in, data, put, isrVars>>

sh_fifo_out_peek(n) ==
  /\ CanCall("fifo_peek") /\ live
  /\ Enter([op |-> "peek", pc |-> "check", at |-> "size", i |-> Unread, o |-> Unread,
            want |-> n, had |-> MIN(n, sh_fifo_get_used_size(in, out)), got |-> <<>>,
            level |-> FALSE, ok |-> TRUE])
  /\ UNCHANGED fifoVars

PeekAt(l) == stack # <<>> /\ IsPeek(Top) /\ Top.at = l

\* in and out are read once each, in either order,
PeekReads ==
  /\ PeekAt("size")
  /\ \/ Top.i = Unread /\ Goto([Top EXCEPT !.i = in])
     \/ Top.o = Unread /\ Goto([Top EXCEPT !.o = out])
  /\ UNCHANGED fifoVars

\* Mutant: the size asked for is not limited.
peek_unlimited ==
  /\ PeekAt("size") /\ Top.i # Unread /\ Top.o # Unread
  /\ Goto([Top EXCEPT !.at = "copy"])
  /\ UNCHANGED fifoVars

\* the size asked for is limited to what is used,
PeekSize ==
  /\ PeekAt("size") /\ Top.i # Unread /\ Top.o # Unread
  /\ Goto([Top EXCEPT !.at = "copy",
                      !.want = MIN(@, sh_fifo_get_used_size(Top.i, Top.o))])
  /\ UNCHANGED fifoVars

\* and the elements are copied, from where out is by then.
PeekCopy ==
  /\ PeekAt("copy") /\ Len(Top.got) < Top.want
  /\ Goto([Top EXCEPT !.got = Append(@, data[At(out, Len(@))])])
  /\ UNCHANGED fifoVars

PeekDone ==
  /\ PeekAt("copy") /\ Len(Top.got) = Top.want
  /\ Leave
  /\ UNCHANGED fifoVars
-----------------------------------------------------------------------------
FifoNext ==
  \/ sh_fifo_create \/ sh_fifo_destroy
  \/ \E xs \in Batches : sh_fifo_in(xs)
  \/ \E n \in Counts : sh_fifo_out(n) \/ sh_fifo_out_peek(n)
  \/ PeekReads \/ PeekSize \/ PeekCopy \/ PeekDone

FifoSpec == FifoInit /\ [][FifoNext]_<<fifoVars, isrVars>>
-----------------------------------------------------------------------------
\* Indices stay inside the buffer.
FifoTypeOK ==
  /\ live \in BOOLEAN /\ in \in Index /\ out \in Index
  /\ data \in [Index -> Items]
  /\ put \in Counts /\ buf \in Seq(Items)
  /\ stack \in Seq(PeekFrames) /\ masked = FALSE

\* The elements from out up to in.
Contents == [k \in 1 .. sh_fifo_get_used_size(in, out) |-> data[At(out, k - 1)]]

Queue == INSTANCE BoundedQueue WITH
           Capacity <- Size - 1, open <- live, contents <- Contents,
           accepted <- put, handed <- buf

(***************************************************************************)
(* The ring buffer is a bounded queue of Size - 1 elements: what           *)
(* sh_fifo_out copies is what sh_fifo_in copied, in order and without      *)
(* loss, wherever the indices wrap and however full it is, and a batch     *)
(* that does not fit is cut at the end, by as much as sh_fifo_in says      *)
(* (sh_fifo_in, sh_fifo_out, sh_fifo_get_used_size).                       *)
(***************************************************************************)
IsBoundedQueue == Queue!QueueSpec

(***************************************************************************)
(* sh_fifo_out_peek, which does not disable interrupts, copies a prefix of *)
(* the queue although interrupts put elements in between its reads, and no *)
(* fewer elements than there were when it was called.                      *)
(***************************************************************************)
PeekIsPrefix ==
  \A i \in DOMAIN stack :
    IsPeek(stack[i]) =>
      /\ IsPrefix(stack[i].got, Contents)
      /\ stack[i].at = "copy" => stack[i].want >= stack[i].had
=============================================================================
