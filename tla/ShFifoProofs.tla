---------------------------- MODULE ShFifoProofs ----------------------------
(***************************************************************************)
(* Theorems about the ring buffer, for every size, word width, set of      *)
(* elements and batch length.                                              *)
(***************************************************************************)
EXTENDS ShFifo, ShLemmas

\* An index one lap ahead wraps.
LEMMA Wraps ==
  ASSUME NEW x \in 0 .. 2 * Size - 1
  PROVE  /\ x % Word = x
         /\ x % Size = (IF x < Size THEN x ELSE x - Size)
<1>1. x \in Nat /\ Size \in Nat \ {0} /\ Word \in Nat /\ x < Word /\ x < 2 * Size
  BY FifoAssumption
<1>2. x % Word = x
  BY <1>1
<1>3. CASE x < Size
  BY <1>1, <1>2, <1>3
<1>4. CASE ~(x < Size)
  BY <1>1, <1>2, <1>4
<1> QED BY <1>2, <1>3, <1>4

LEMMA UsedSize ==
  ASSUME NEW i \in Index, NEW o \in Index
  PROVE  /\ sh_fifo_get_used_size(i, o) = (IF i >= o THEN i - o ELSE i - o + Size)
         /\ sh_fifo_get_used_size(i, o) \in Index
         /\ sh_fifo_get_unused_size(i, o) \in Index
<1> DEFINE x == i + Size - o
<1>1. x \in 0 .. 2 * Size - 1 /\ Size \in Nat \ {0} /\ x = i + Size - o
  BY FifoAssumption DEF Index
<1>2. sh_fifo_get_used_size(i, o) = (x % Word) % Size
  BY DEF sh_fifo_get_used_size
<1> HIDE DEF x
<1>3. sh_fifo_get_used_size(i, o) = IF x < Size THEN x ELSE x - Size
  BY <1>1, <1>2, Wraps
<1>4. i \in Int /\ o \in Int /\ 0 <= i /\ i < Size /\ 0 <= o /\ o < Size
  BY <1>1 DEF Index
<1>5. sh_fifo_get_used_size(i, o) = (IF i >= o THEN i - o ELSE i - o + Size)
  BY <1>1, <1>3, <1>4
<1> QED BY <1>1, <1>4, <1>5 DEF Index, sh_fifo_get_unused_size

\* Copying n elements on from an index of the buffer stays inside it.
LEMMA AtIndex ==
  ASSUME NEW o \in Index, NEW k \in Index
  PROVE  /\ At(o, k) = IF o + k < Size THEN o + k ELSE o + k - Size
         /\ At(o, k) \in Index
<1>1. o % Size = o
  BY FifoAssumption, Wraps DEF Index
<1> QED BY <1>1, FifoAssumption DEF At, Index

LEMMA MinProperties ==
  ASSUME NEW a \in Nat, NEW b \in Nat
  PROVE  MIN(a, b) \in Nat /\ MIN(a, b) <= a /\ MIN(a, b) <= b
BY DEF MIN

LEMMA BatchIsSeq ==
  ASSUME NEW S, NEW n \in Nat, NEW xs \in [1 .. n -> S]
  PROVE  xs \in Seq(S) /\ Len(xs) = n
<1>1. xs \in Seq(S)
  BY SeqDef
<1>2. DOMAIN xs = 1 .. Len(xs) /\ Len(xs) \in Nat /\ DOMAIN xs = 1 .. n
  BY <1>1, LenProperties
<1> QED BY <1>1, <1>2

\* What the buffer holds k places after i once n elements are copied in at i.
LEMMA CopiedElements ==
  ASSUME NEW d \in [Index -> Items], NEW i \in Index, NEW xs \in Seq(Items),
         NEW n \in Index, n <= Len(xs)
  PROVE  /\ Copied(d, i, xs, n) \in [Index -> Items]
         /\ \A k \in Index :
              Copied(d, i, xs, n)[At(i, k)] = IF k < n THEN xs[k + 1] ELSE d[At(i, k)]
<1> DEFINE len == MIN(Size - i, n)
<1>1. i % Size = i
  <2>1. i \in 0 .. 2 * Size - 1 /\ i < Size
    BY FifoAssumption DEF Index
  <2> QED BY <2>1, Wraps
<1>2. /\ Size \in Nat /\ i \in Nat /\ n \in Nat /\ i < Size /\ n < Size
      /\ Len(xs) \in Nat /\ \A j \in 1 .. n : xs[j] \in Items
  BY FifoAssumption, ElementOfSeq, LenProperties DEF Index
<1>3. len \in Nat /\ len <= n /\ len <= Size - i /\ (len = n \/ len = Size - i)
  BY <1>2 DEF MIN
<1>4. Copied(d, i, xs, n) = [j \in Index |-> IF j < n - len THEN xs[len + j + 1]
                                             ELSE IF j \in i .. i + len - 1 THEN xs[j - i + 1]
                                             ELSE d[j]]
  BY <1>1 DEF Copied
<1> HIDE DEF len
<1>5. Copied(d, i, xs, n) \in [Index -> Items]
  <2> SUFFICES ASSUME NEW j \in Index
               PROVE  (IF j < n - len THEN xs[len + j + 1]
                       ELSE IF j \in i .. i + len - 1 THEN xs[j - i + 1] ELSE d[j]) \in Items
    BY <1>4
  <2>1. j \in Nat /\ d[j] \in Items
    BY DEF Index
  <2>2. j < n - len => len + j + 1 \in 1 .. n
    BY <1>2, <1>3, <2>1
  <2>3. j \in i .. i + len - 1 => j - i + 1 \in 1 .. n
    BY <1>2, <1>3, <2>1
  <2> QED BY <1>2, <2>1, <2>2, <2>3
<1>6. ASSUME NEW k \in Index
      PROVE  Copied(d, i, xs, n)[At(i, k)] = IF k < n THEN xs[k + 1] ELSE d[At(i, k)]
  <2> DEFINE j == At(i, k)
  <2>1. j \in Index /\ j = IF i + k < Size THEN i + k ELSE i + k - Size
    BY AtIndex
  <2>2. k \in Nat /\ k < Size
    BY <1>2 DEF Index
  <2> HIDE DEF j
  <2>3. Copied(d, i, xs, n)[j] = IF j < n - len THEN xs[len + j + 1]
                                 ELSE IF j \in i .. i + len - 1 THEN xs[j - i + 1] ELSE d[j]
    BY <1>4, <2>1
  <2>4. CASE k < n /\ i + k < Size
    <3>1. ~(j < n - len) /\ j \in i .. i + len - 1 /\ j - i + 1 = k + 1
      BY <1>2, <1>3, <2>1, <2>2, <2>4
    <3> QED BY <2>3, <2>4, <3>1 DEF j
  <2>5. CASE k < n /\ ~(i + k < Size)
    <3>1. j < n - len /\ len + j + 1 = k + 1
      BY <1>2, <1>3, <2>1, <2>2, <2>5
    <3> QED BY <2>3, <2>5, <3>1 DEF j
  <2>6. CASE ~(k < n)
    <3>1. ~(j < n - len) /\ ~(j \in i .. i + len - 1)
      BY <1>2, <1>3, <2>1, <2>2, <2>6
    <3> QED BY <2>3, <2>6, <3>1 DEF j
  <2> QED BY <2>4, <2>5, <2>6
<1> QED BY <1>5, <1>6

\* How many elements sh_fifo_in takes, and where they leave the indices.
LEMMA InCount ==
  ASSUME in \in Index, out \in Index, NEW l \in Nat
  PROVE  LET u == sh_fifo_get_used_size(in, out)
             n == MIN(l, sh_fifo_get_unused_size(in, out))
             e == ((in + n) % Word) % Size
         IN  /\ n \in Index /\ n <= l /\ e \in Index
             /\ sh_fifo_get_used_size(e, out) = u + n /\ u + n < Size
<1> DEFINE u == sh_fifo_get_used_size(in, out)
           n == MIN(l, sh_fifo_get_unused_size(in, out))
           t == in + n
           e == (t % Word) % Size
<1>1. /\ u = IF in >= out THEN in - out ELSE in - out + Size
      /\ u \in Index /\ sh_fifo_get_unused_size(in, out) \in Index
      /\ sh_fifo_get_unused_size(in, out) = Size - u - 1
  BY UsedSize DEF sh_fifo_get_unused_size
<1>2. /\ Size \in Nat /\ in \in Nat /\ out \in Nat /\ in < Size /\ out < Size
      /\ u \in Nat /\ sh_fifo_get_unused_size(in, out) \in Nat
  BY <1>1, FifoAssumption DEF Index
<1>3. n \in Nat /\ n <= l /\ n <= Size - u - 1
  BY <1>1, <1>2, MinProperties
<1> HIDE DEF u, n
<1>4. t = in + n /\ t \in 0 .. 2 * Size - 1
  BY <1>2, <1>3
<1> HIDE DEF t
<1>5. e = IF t < Size THEN t ELSE t - Size
  BY <1>4, Wraps
<1>6. e \in Index /\ n \in Index /\ u + n < Size
  BY <1>1, <1>2, <1>3, <1>4, <1>5 DEF Index
<1> HIDE DEF e
<1>7. sh_fifo_get_used_size(e, out) = IF e >= out THEN e - out ELSE e - out + Size
  BY <1>6, UsedSize
<1>8. sh_fifo_get_used_size(e, out) = u + n
  BY <1>1, <1>2, <1>3, <1>4, <1>5, <1>6, <1>7
<1> QED BY <1>3, <1>6, <1>8 DEF e, t, u, n

\* How many elements sh_fifo_out gives, and where they leave the indices.
LEMMA OutCount ==
  ASSUME in \in Index, out \in Index, NEW l \in Nat
  PROVE  LET u == sh_fifo_get_used_size(in, out)
             k == MIN(l, u)
             e == ((out + k) % Word) % Size
         IN  /\ u \in Index /\ k \in Index /\ k <= u /\ e \in Index
             /\ e = At(out, k)
             /\ sh_fifo_get_used_size(in, e) = u - k
<1> DEFINE u == sh_fifo_get_used_size(in, out)
           k == MIN(l, u)
           t == out + k
           e == (t % Word) % Size
<1>1. u = (IF in >= out THEN in - out ELSE in - out + Size) /\ u \in Index
  BY UsedSize
<1>2. Size \in Nat /\ in \in Nat /\ out \in Nat /\ in < Size /\ out < Size /\ u \in Nat
  BY <1>1, FifoAssumption DEF Index
<1> HIDE DEF u
<1>3. k \in Nat /\ k <= l /\ k <= u
  BY <1>2, MinProperties
<1> HIDE DEF k
<1>4. t = out + k /\ t \in 0 .. 2 * Size - 1 /\ k \in Index
  BY <1>1, <1>2, <1>3 DEF Index
<1> HIDE DEF t
<1>5. e = IF t < Size THEN t ELSE t - Size
  BY <1>4, Wraps
<1> HIDE DEF e
<1>6. e \in Index /\ e = At(out, k)
  <2>1. /\ At(out, k) = IF out + k < Size THEN out + k ELSE out + k - Size
        /\ At(out, k) \in Index
    BY <1>4, AtIndex
  <2> QED BY <1>2, <1>4, <1>5, <2>1
<1>7. sh_fifo_get_used_size(in, e) = IF in >= e THEN in - e ELSE in - e + Size
  BY <1>6, UsedSize
<1>8. sh_fifo_get_used_size(in, e) = u - k
  BY <1>1, <1>2, <1>3, <1>4, <1>5, <1>6, <1>7 DEF Index
<1> QED BY <1>1, <1>3, <1>4, <1>6, <1>8 DEF e, t, k, u
-----------------------------------------------------------------------------
(***************************************************************************)
(* A peek copies from inside the buffer because it has limited what it was *)
(* asked for; FifoTypeOK alone says nothing of that.                       *)
(***************************************************************************)
FifoInv ==
  /\ FifoTypeOK
  /\ \A i \in DOMAIN stack : stack[i].at = "copy" => stack[i].want \in Index

\* A frame that is pushed, replaced or popped keeps what holds of all frames.
LEMMA StackStep ==
  ASSUME FifoInv, NEW f \in PeekFrames, f.at = "copy" => f.want \in Index,
         Enter(f) \/ (stack # <<>> /\ Goto(f)) \/ (stack # <<>> /\ Leave)
  PROVE  /\ stack' \in Seq(PeekFrames) /\ masked' = FALSE
         /\ \A i \in DOMAIN stack' : stack'[i].at = "copy" => stack'[i].want \in Index
<1>1. stack \in Seq(PeekFrames) /\ masked = FALSE
  BY DEF FifoInv, FifoTypeOK
<1>2. CASE Enter(f)
  <2>1. /\ <<f>> \o stack \in Seq(PeekFrames) /\ Len(stack) \in Nat
        /\ DOMAIN stack = 1 .. Len(stack)
        /\ DOMAIN (<<f>> \o stack) = 1 .. Len(stack) + 1
        /\ (<<f>> \o stack)[1] = f
        /\ \A i \in 1 .. Len(stack) : (<<f>> \o stack)[i + 1] = stack[i]
    BY <1>1, PushFrames
  <2>2. ASSUME NEW i \in 1 .. Len(stack) + 1, i # 1
        PROVE  (<<f>> \o stack)[i] = stack[i - 1] /\ i - 1 \in DOMAIN stack
    <3>1. i - 1 \in 1 .. Len(stack) /\ (i - 1) + 1 = i
      BY <2>1, <2>2
    <3> QED BY <2>1, <3>1
  <2> QED BY <1>1, <1>2, <2>1, <2>2 DEF Enter, FifoInv
<1>3. CASE stack # <<>> /\ Goto(f)
  <2>1. /\ 1 \in 1 .. Len(stack) /\ DOMAIN stack = 1 .. Len(stack)
    BY <1>1, <1>3, TailFrames
  <2>2. /\ stack' \in Seq(PeekFrames) /\ DOMAIN stack' = DOMAIN stack
        /\ \A i \in DOMAIN stack : stack'[i] = IF i = 1 THEN f ELSE stack[i]
    BY <1>1, <1>3, <2>1, ExceptSeq DEF Goto
  <2> QED BY <1>1, <1>3, <2>2 DEF Goto, FifoInv
<1>4. CASE stack # <<>> /\ Leave
  <2>1. stack' = Tail(stack) /\ masked' = FALSE /\ Tail(stack) \in Seq(PeekFrames)
    BY <1>1, <1>4, TailFrames DEF Leave
  <2>2. \A i \in DOMAIN stack' : i + 1 \in DOMAIN stack /\ stack'[i] = stack[i + 1]
    BY <1>1, <1>4, <2>1, PopFrames
  <2> QED BY <2>1, <2>2 DEF FifoInv
<1> QED BY <1>2, <1>3, <1>4

LEMMA FifoInvInit == FifoInit => FifoInv
<1> SUFFICES ASSUME FifoInit PROVE FifoInv
  OBVIOUS
<1>1. 0 \in Index /\ 0 \in Counts
  BY FifoAssumption DEF Index, Counts
<1>2. stack = <<>> /\ <<>> \in Seq(PeekFrames) /\ <<>> \in Seq(Items) /\ DOMAIN stack = {}
  BY DEF FifoInit, IsrInit
<1> QED BY <1>1, <1>2 DEF FifoInit, IsrInit, FifoInv, FifoTypeOK

LEMMA FifoInvNext ==
  ASSUME FifoInv, [FifoNext]_<<fifoVars, isrVars>>
  PROVE  FifoInv'
<1>0. 0 \in Index /\ Size \in Nat /\ Index \subseteq Nat /\ MaxBatch \in Nat
  BY FifoAssumption DEF Index
<1> USE DEF FifoInv, FifoTypeOK, isrVars, fifoVars
<1>1. CASE sh_fifo_create
  BY <1>0, <1>1 DEF sh_fifo_create
<1>2. CASE sh_fifo_destroy
  BY <1>0, <1>2 DEF sh_fifo_destroy
<1>3. ASSUME NEW xs \in Batches, sh_fifo_in(xs)
      PROVE  FifoInv'
  <2> DEFINE n == MIN(Len(xs), sh_fifo_get_unused_size(in, out))
  <2>1. xs \in Seq(Items) /\ Len(xs) \in Counts /\ Len(xs) \in Nat
    <3>1. PICK m \in Counts : xs \in [1 .. m -> Items]
      BY DEF Batches
    <3> QED BY <1>0, <3>1, BatchIsSeq DEF Counts
  <2>2. n \in Index /\ n <= Len(xs) /\ ((in + n) % Word) % Size \in Index
    BY <2>1, InCount
  <2> HIDE DEF n
  <2>3. Copied(data, in, xs, n) \in [Index -> Items]
    BY <2>1, <2>2, CopiedElements
  <2>4. /\ data' = Copied(data, in, xs, n) /\ in' = ((in + n) % Word) % Size
        /\ put' = n /\ UNCHANGED <<live, out, buf, isrVars>>
    BY <1>3 DEF sh_fifo_in, n
  <2>5. n \in Counts
    BY <1>0, <2>1, <2>2 DEF Counts, Index
  <2> QED BY <2>2, <2>3, <2>4, <2>5
<1>4. ASSUME NEW n \in Counts, sh_fifo_out(n)
      PROVE  FifoInv'
  <2> DEFINE k == MIN(n, sh_fifo_get_used_size(in, out))
  <2>1. k \in Index /\ ((out + k) % Word) % Size \in Index
    BY OutCount DEF Counts
  <2> HIDE DEF k
  <2>2. \A i \in 1 .. k : i - 1 \in Index
    BY <1>0, <2>1 DEF Index
  <2>3. [i \in 1 .. k |-> data[At(out, i - 1)]] \in [1 .. k -> Items]
    BY <2>2, AtIndex
  <2>4. [i \in 1 .. k |-> data[At(out, i - 1)]] \in Seq(Items)
    BY <1>0, <2>1, <2>3, BatchIsSeq
  <2>5. /\ buf' = [i \in 1 .. k |-> data[At(out, i - 1)]] /\ out' = ((out + k) % Word) % Size
        /\ UNCHANGED <<live, in, data, put, isrVars>>
    BY <1>4 DEF sh_fifo_out, k
  <2> QED BY <2>1, <2>4, <2>5
<1>5. ASSUME NEW n \in Counts, sh_fifo_out_peek(n)
      PROVE  FifoInv'
  <2> DEFINE f == [op |-> "peek", pc |-> "check", at |-> "size", i |-> Unread, o |-> Unread,
                   want |-> n, had |-> MIN(n, sh_fifo_get_used_size(in, out)), got |-> <<>>,
                   level |-> FALSE, ok |-> TRUE]
  <2>1. MIN(n, sh_fifo_get_used_size(in, out)) \in Counts
    <3>1. sh_fifo_get_used_size(in, out) \in Nat
      BY <1>0, UsedSize
    <3> QED BY <3>1, FifoAssumption DEF Counts, MIN
  <2>2. f \in PeekFrames /\ f.at # "copy"
    BY <2>1 DEF PeekFrames
  <2> HIDE DEF f
  <2>3. Enter(f) /\ UNCHANGED fifoVars
    BY <1>5 DEF sh_fifo_out_peek, f
  <2> QED BY <2>2, <2>3, StackStep
<1>6. CASE PeekReads
  <2>1. stack # <<>> /\ Top \in PeekFrames /\ Top.at = "size"
    BY <1>6, TailFrames DEF PeekReads, PeekAt
  <2>2. PICK f \in {[Top EXCEPT !.i = in], [Top EXCEPT !.o = out]} : Goto(f)
    BY <1>6 DEF PeekReads
  <2>3. f \in PeekFrames /\ f.at # "copy"
    BY <2>1, <2>2 DEF PeekFrames
  <2> QED BY <1>6, <2>1, <2>2, <2>3, StackStep DEF PeekReads
<1>7. CASE PeekSize
  <2> DEFINE f == [Top EXCEPT !.at = "copy",
                              !.want = MIN(@, sh_fifo_get_used_size(Top.i, Top.o))]
  <2>1. /\ stack # <<>> /\ Top \in PeekFrames
        /\ Top.i # Unread /\ Top.o # Unread /\ Goto(f) /\ UNCHANGED fifoVars
    BY <1>7, TailFrames DEF PeekSize, PeekAt
  <2>2. Top.i \in Index /\ Top.o \in Index /\ Top.want \in Counts /\ Counts \subseteq Nat
    BY <2>1 DEF PeekFrames, Counts
  <2>3. /\ MIN(Top.want, sh_fifo_get_used_size(Top.i, Top.o)) \in Counts
        /\ MIN(Top.want, sh_fifo_get_used_size(Top.i, Top.o)) \in Index
    <3>1. sh_fifo_get_used_size(Top.i, Top.o) \in Index
      BY <2>2, UsedSize
    <3> QED BY <1>0, <2>2, <3>1, FifoAssumption DEF Counts, Index, MIN
  <2>4. f \in PeekFrames /\ f.want \in Index
    BY <2>1, <2>3 DEF PeekFrames
  <2> HIDE DEF f
  <2> QED BY <2>1, <2>4, StackStep
<1>8. CASE PeekCopy
  <2> DEFINE f == [Top EXCEPT !.got = Append(@, data[At(out, Len(@))])]
  <2>1. /\ stack # <<>> /\ Top \in PeekFrames /\ Top.at = "copy" /\ Len(Top.got) < Top.want
        /\ 1 \in DOMAIN stack /\ Goto(f) /\ UNCHANGED fifoVars
    BY <1>8, TailFrames DEF PeekCopy, PeekAt
  <2>2. Top.want \in Index /\ Top.got \in Seq(Items)
    BY <2>1 DEF PeekFrames, Top
  <2>3. data[At(out, Len(Top.got))] \in Items
    <3>1. Len(Top.got) \in Index
      BY <1>0, <2>1, <2>2, LenProperties DEF Index
    <3> QED BY <3>1, AtIndex
  <2>4. f \in PeekFrames /\ f.want = Top.want
    <3>1. Append(Top.got, data[At(out, Len(Top.got))]) \in Seq(Items)
      BY <2>2, <2>3, AppendProperties
    <3> QED BY <2>1, <3>1 DEF PeekFrames
  <2> HIDE DEF f
  <2> QED BY <2>1, <2>2, <2>4, StackStep
<1>9. CASE PeekDone
  <2>1. /\ stack # <<>> /\ Top \in PeekFrames /\ 1 \in DOMAIN stack
        /\ Leave /\ UNCHANGED fifoVars
    BY <1>9, TailFrames DEF PeekDone, PeekAt
  <2>2. Top.at = "copy" => Top.want \in Index
    BY <2>1 DEF Top
  <2> QED BY <2>1, <2>2, StackStep
<1>10. CASE UNCHANGED <<fifoVars, isrVars>>
  BY <1>10
<1> QED BY <1>1, <1>2, <1>3, <1>4, <1>5, <1>6, <1>7, <1>8, <1>9, <1>10 DEF FifoNext

LEMMA FifoInvCorrect == FifoSpec => []FifoInv
BY FifoInvInit, FifoInvNext, PTL DEF FifoSpec

(***************************************************************************)
(* The indices stay inside the buffer, and what sh_fifo_out and            *)
(* sh_fifo_out_peek copy are elements that were put in, whatever the size  *)
(* of the buffer, the width of its indices and the interrupts that come    *)
(* between the steps of a peek.                                            *)
(***************************************************************************)
THEOREM FifoTypeCorrect == FifoSpec => []FifoTypeOK
BY FifoInvCorrect, PTL DEF FifoInv
-----------------------------------------------------------------------------
\* The queue that a buffer d with the indices i and o holds.
ContentsOf(i, o, d) == [k \in 1 .. sh_fifo_get_used_size(i, o) |-> d[At(o, k - 1)]]

LEMMA ContentsProperties ==
  ASSUME NEW i \in Index, NEW o \in Index, NEW d \in [Index -> Items]
  PROVE  /\ ContentsOf(i, o, d) \in Seq(Items)
         /\ Len(ContentsOf(i, o, d)) = sh_fifo_get_used_size(i, o)
         /\ \A k \in 1 .. sh_fifo_get_used_size(i, o) :
              k - 1 \in Index /\ ContentsOf(i, o, d)[k] = d[At(o, k - 1)]
<1> DEFINE u == sh_fifo_get_used_size(i, o)
<1>1. u \in Index
  BY UsedSize
<1> HIDE DEF u
<1>2. u \in Nat /\ \A k \in 1 .. u : k - 1 \in Index
  BY <1>1, FifoAssumption DEF Index
<1>3. ContentsOf(i, o, d) = [k \in 1 .. u |-> d[At(o, k - 1)]]
  BY DEF ContentsOf, u
<1>4. ContentsOf(i, o, d) \in [1 .. u -> Items]
  BY <1>2, <1>3, AtIndex
<1>5. ContentsOf(i, o, d) \in Seq(Items) /\ Len(ContentsOf(i, o, d)) = u
  BY <1>2, <1>4, BatchIsSeq
<1> QED BY <1>2, <1>3, <1>5 DEF u

LEMMA EmptyContents ==
  ASSUME in = 0, out = 0, data \in [Index -> Items]
  PROVE  Contents = <<>>
<1>1. 0 \in Index
  BY FifoAssumption DEF Index
<1>2. sh_fifo_get_used_size(in, out) = 0
  BY <1>1, UsedSize
<1>3. Contents \in Seq(Items) /\ Len(Contents) = 0
  BY <1>1, <1>2, ContentsProperties DEF Contents, ContentsOf
<1> QED BY <1>3, EmptySeq

\* Places add up, also around the end of the buffer.
LEMMA AtAt ==
  ASSUME NEW o \in Index, NEW j \in Index, NEW k \in Index, j + k < Size
  PROVE  j + k \in Index /\ At(At(o, j), k) = At(o, j + k)
<1>1. Size \in Nat /\ o \in Nat /\ j \in Nat /\ k \in Nat /\ o < Size /\ j < Size /\ k < Size
  BY FifoAssumption DEF Index
<1> DEFINE p == At(o, j)
           m == j + k
<1>2. p \in Index /\ p = IF o + j < Size THEN o + j ELSE o + j - Size
  BY AtIndex
<1>3. m \in Index /\ m = j + k
  BY <1>1 DEF Index
<1> HIDE DEF p, m
<1>4. At(p, k) = IF p + k < Size THEN p + k ELSE p + k - Size
  BY <1>2, AtIndex
<1>5. At(o, m) = IF o + m < Size THEN o + m ELSE o + m - Size
  BY <1>3, AtIndex
<1>6. At(p, k) = At(o, m)
  BY <1>1, <1>2, <1>3, <1>4, <1>5
<1> QED BY <1>3, <1>6 DEF p, m

\* The first free place follows the last used one.
LEMMA FirstFree ==
  ASSUME NEW i \in Index, NEW o \in Index
  PROVE  i = At(o, sh_fifo_get_used_size(i, o))
<1> DEFINE u == sh_fifo_get_used_size(i, o)
<1>1. u \in Index /\ u = IF i >= o THEN i - o ELSE i - o + Size
  BY UsedSize
<1>2. Size \in Nat /\ i \in Nat /\ o \in Nat /\ i < Size /\ o < Size
  BY FifoAssumption DEF Index
<1> HIDE DEF u
<1>3. At(o, u) = IF o + u < Size THEN o + u ELSE o + u - Size
  BY <1>1, AtIndex
<1>4. i = At(o, u)
  BY <1>1, <1>2, <1>3
<1> QED BY <1>4 DEF u

\* sh_fifo_in appends what fits.
LEMMA InAppends ==
  ASSUME FifoInv, FifoInv', NEW xs \in Batches, sh_fifo_in(xs)
  PROVE  Queue!In(xs)
<1> DEFINE u == sh_fifo_get_used_size(in, out)
           n == MIN(Len(xs), sh_fifo_get_unused_size(in, out))
           xn == SubSeq(xs, 1, n)
           t == Contents \o xn
<1>1. /\ in \in Index /\ out \in Index /\ data \in [Index -> Items]
      /\ in' \in Index /\ out' = out /\ data' \in [Index -> Items] /\ buf' = buf
  BY DEF FifoInv, FifoTypeOK, sh_fifo_in
<1>2. xs \in Seq(Items) /\ Len(xs) \in Nat
  BY BatchIsSeq, FifoAssumption DEF Batches, Counts
<1>3. /\ n \in Index /\ n <= Len(xs) /\ u + n < Size
      /\ sh_fifo_get_used_size(in', out) = u + n
  BY <1>1, <1>2, InCount DEF sh_fifo_in
<1>4. u \in Index /\ sh_fifo_get_unused_size(in, out) = Size - u - 1
  BY <1>1, UsedSize DEF sh_fifo_get_unused_size
<1>5. data' = Copied(data, in, xs, n) /\ put' = n /\ in = At(out, u)
  BY <1>1, FirstFree DEF sh_fifo_in
<1>6. Contents = ContentsOf(in, out, data) /\ Contents' = ContentsOf(in', out, data')
  BY <1>1 DEF Contents, ContentsOf
<1>7. n = MIN(Len(xs), Size - u - 1)
  BY <1>4
<1> HIDE DEF u, n
<1>8. /\ Contents \in Seq(Items) /\ Len(Contents) = u
      /\ \A k \in 1 .. u : k - 1 \in Index /\ Contents[k] = data[At(out, k - 1)]
  BY <1>1, <1>6, ContentsProperties DEF u
<1>9. /\ Contents' \in Seq(Items) /\ Len(Contents') = u + n
      /\ \A k \in 1 .. u + n : k - 1 \in Index /\ Contents'[k] = data'[At(out, k - 1)]
  <2>1. /\ ContentsOf(in', out, data') \in Seq(Items)
        /\ Len(ContentsOf(in', out, data')) = sh_fifo_get_used_size(in', out)
        /\ \A k \in 1 .. sh_fifo_get_used_size(in', out) :
             k - 1 \in Index /\ ContentsOf(in', out, data')[k] = data'[At(out, k - 1)]
    BY <1>1, ContentsProperties
  <2>2. sh_fifo_get_used_size(in', out) = u + n
    BY <1>3
  <2> QED BY <1>6, <2>1, <2>2
<1>10. Size \in Nat /\ u \in Nat /\ n \in Nat
  BY <1>3, <1>4, FifoAssumption DEF Index
<1>11. n = Queue!Smaller(Len(xs), (Size - 1) - Len(Contents))
  BY <1>7, <1>8, <1>10 DEF Queue!Smaller, MIN
<1>12. /\ xn \in Seq(Items) /\ Len(xn) = n /\ \A i \in 1 .. n : xn[i] = xs[i]
  <2>1. \A i \in 1 .. n : xs[i] \in Items
    BY <1>2, <1>3, <1>10, ElementOfSeq
  <2>2. /\ xn \in Seq(Items) /\ Len(xn) = IF 1 <= n THEN n - 1 + 1 ELSE 0
        /\ \A i \in 1 .. n - 1 + 1 : xn[i] = xs[1 + i - 1]
    BY <1>10, <2>1, SubSeqProperties
  <2> QED BY <1>10, <2>2
<1> HIDE DEF xn
<1>13. /\ t \in Seq(Items) /\ Len(t) = u + n
       /\ \A i \in 1 .. u + n : t[i] = IF i <= u THEN Contents[i] ELSE xn[i - u]
  <2> DEFINE c == Contents
  <2>1. c \in Seq(Items) /\ xn \in Seq(Items) /\ Len(c) = u /\ Len(xn) = n
    BY <1>8, <1>12
  <2> HIDE DEF c
  <2>2. /\ c \o xn \in Seq(Items) /\ Len(c \o xn) = Len(c) + Len(xn)
        /\ \A i \in 1 .. Len(c) + Len(xn) :
             (c \o xn)[i] = IF i <= Len(c) THEN c[i] ELSE xn[i - Len(c)]
    BY <2>1, ConcatProperties
  <2> QED BY <2>1, <2>2 DEF c
<1> HIDE DEF t
<1>14. ASSUME NEW i \in 1 .. u + n
       PROVE  Contents'[i] = t[i]
  <2>1. CASE i <= u
    <3>1. i \in 1 .. u
      BY <1>10, <2>1
    <3>2. i - 1 \in Index
      BY <1>8, <3>1
    <3> DEFINE k == i - 1 - u + Size
    <3>3. k \in Index /\ ~(k < n)
      BY <1>3, <1>10, <2>1 DEF Index
    <3>4. At(in, k) = At(out, i - 1)
      <4>1. /\ in = IF out + u < Size THEN out + u ELSE out + u - Size
        BY <1>1, <1>4, <1>5, AtIndex DEF u
      <4>2. At(in, k) = IF in + k < Size THEN in + k ELSE in + k - Size
        BY <1>1, <3>3, AtIndex
      <4> DEFINE m == i - 1
      <4>3. m \in Index /\ m = i - 1
        BY <3>2
      <4> HIDE DEF m
      <4>4. At(out, m) = IF out + m < Size THEN out + m ELSE out + m - Size
        BY <1>1, <4>3, AtIndex
      <4>5. out \in Nat /\ out < Size /\ in \in Nat /\ in < Size
        BY <1>1, <1>10 DEF Index
      <4>6. At(in, k) = At(out, m)
        BY <1>10, <2>1, <4>1, <4>2, <4>3, <4>4, <4>5
      <4> QED BY <4>3, <4>6
    <3> HIDE DEF k
    <3>5. data'[At(in, k)] = data[At(in, k)]
      <4>1. Copied(data, in, xs, n)[At(in, k)] = IF k < n THEN xs[k + 1] ELSE data[At(in, k)]
        BY <1>1, <1>2, <1>3, <3>3, CopiedElements
      <4> QED BY <1>5, <3>3, <4>1
    <3> QED BY <1>8, <1>9, <1>13, <2>1, <3>1, <3>4, <3>5
  <2>2. CASE ~(i <= u)
    <3> DEFINE k == i - 1 - u
    <3>1. /\ k \in Index /\ k < n /\ u + k < Size
          /\ u + k = i - 1 /\ k + 1 = i - u /\ i - u \in 1 .. n
      BY <1>3, <1>10, <2>2 DEF Index
    <3> HIDE DEF k
    <3>2. At(in, k) = At(out, u + k)
      BY <1>1, <1>4, <1>5, <3>1, AtAt DEF u
    <3>3. data'[At(in, k)] = xs[k + 1]
      <4>1. Copied(data, in, xs, n)[At(in, k)] = IF k < n THEN xs[k + 1] ELSE data[At(in, k)]
        BY <1>1, <1>2, <1>3, <3>1, CopiedElements
      <4> QED BY <1>5, <3>1, <4>1
    <3> QED BY <1>9, <1>12, <1>13, <2>2, <3>1, <3>2, <3>3
  <2> QED BY <2>1, <2>2
<1>15. Contents' = t
  BY <1>9, <1>13, <1>14, SeqEqual
<1>16. live /\ live' = live
  BY DEF sh_fifo_in
<1> QED BY <1>1, <1>5, <1>11, <1>15, <1>16 DEF t, xn, Queue!In

\* sh_fifo_out hands over the oldest elements and keeps the others.
LEMMA OutTakes ==
  ASSUME FifoInv, NEW n \in Counts, sh_fifo_out(n)
  PROVE  Queue!Out(n)
<1> DEFINE u == sh_fifo_get_used_size(in, out)
           k == MIN(n, u)
           first == SubSeq(Contents, 1, k)
           rest == SubSeq(Contents, k + 1, u)
<1>1. /\ in \in Index /\ out \in Index /\ data \in [Index -> Items]
      /\ in' = in /\ data' = data
  BY DEF FifoInv, FifoTypeOK, sh_fifo_out
<1>2. /\ u \in Index /\ k \in Index /\ k <= u
      /\ out' \in Index /\ out' = At(out, k) /\ sh_fifo_get_used_size(in, out') = u - k
  BY <1>1, OutCount DEF sh_fifo_out, Counts
<1>3. buf' = [i \in 1 .. k |-> data[At(out, i - 1)]]
  BY DEF sh_fifo_out
<1>4. Contents = ContentsOf(in, out, data) /\ Contents' = ContentsOf(in, out', data)
  BY <1>1 DEF Contents, ContentsOf
<1>5. k = MIN(n, u)
  OBVIOUS
<1> HIDE DEF u, k
<1>6. Size \in Nat /\ u \in Nat /\ k \in Nat /\ u < Size
  BY <1>2, FifoAssumption DEF Index
<1>7. /\ Contents \in Seq(Items) /\ Len(Contents) = u
      /\ \A i \in 1 .. u : i - 1 \in Index /\ Contents[i] = data[At(out, i - 1)]
  BY <1>1, <1>4, ContentsProperties DEF u
<1>8. /\ Contents' \in Seq(Items) /\ Len(Contents') = u - k
      /\ \A i \in 1 .. u - k : i - 1 \in Index /\ Contents'[i] = data[At(out', i - 1)]
  <2>0. out' \in Index
    BY <1>2
  <2>1. /\ ContentsOf(in, out', data) \in Seq(Items)
        /\ Len(ContentsOf(in, out', data)) = sh_fifo_get_used_size(in, out')
        /\ \A i \in 1 .. sh_fifo_get_used_size(in, out') :
             i - 1 \in Index /\ ContentsOf(in, out', data)[i] = data[At(out', i - 1)]
    BY <1>1, <2>0, ContentsProperties
  <2>2. sh_fifo_get_used_size(in, out') = u - k
    BY <1>2
  <2> QED BY <1>4, <2>1, <2>2
<1>9. k = Queue!Smaller(n, Len(Contents))
  BY <1>5, <1>7 DEF Queue!Smaller, MIN
<1>10. \A i \in 1 .. u : Contents[i] \in Items
  BY <1>7, ElementOfSeq
<1>11. buf' = first
  <2>1. /\ first \in Seq(Items) /\ Len(first) = k
        /\ \A i \in 1 .. k : first[i] = Contents[i]
    <3>1. \A i \in 1 .. k : Contents[i] \in Items
      BY <1>2, <1>6, <1>10
    <3>2. /\ first \in Seq(Items) /\ Len(first) = IF 1 <= k THEN k - 1 + 1 ELSE 0
          /\ \A i \in 1 .. k - 1 + 1 : first[i] = Contents[1 + i - 1]
      BY <1>6, <3>1, SubSeqProperties
    <3> QED BY <1>6, <3>2
  <2>2. \A i \in 1 .. k : i - 1 \in Index /\ buf'[i] = Contents[i]
    BY <1>2, <1>3, <1>6, <1>7
  <2>3. buf' \in [1 .. k -> Items]
    BY <1>3, <1>1, <2>2, AtIndex
  <2>4. buf' \in Seq(Items) /\ Len(buf') = k
    BY <1>6, <2>3, BatchIsSeq
  <2> HIDE DEF first
  <2> QED BY <2>1, <2>2, <2>4, SeqEqual
<1>12. Contents' = rest
  <2>1. /\ rest \in Seq(Items) /\ Len(rest) = u - k
        /\ \A i \in 1 .. u - k : rest[i] = Contents[k + i]
    <3>1. \A i \in k + 1 .. u : Contents[i] \in Items
      BY <1>6, <1>10
    <3>2. /\ rest \in Seq(Items) /\ Len(rest) = IF k + 1 <= u THEN u - (k + 1) + 1 ELSE 0
          /\ \A i \in 1 .. u - (k + 1) + 1 : rest[i] = Contents[k + 1 + i - 1]
      BY <1>6, <3>1, SubSeqProperties
    <3> QED BY <1>2, <1>6, <3>2
  <2>2. ASSUME NEW i \in 1 .. u - k
        PROVE  Contents'[i] = Contents[k + i]
    <3> DEFINE j == i - 1
    <3>1. j \in Index /\ k + j < Size /\ j = i - 1 /\ k + j = (k + i) - 1 /\ k + i \in 1 .. u
      BY <1>2, <1>6, <1>8 DEF Index
    <3> HIDE DEF j
    <3>2. At(out', j) = At(out, k + j)
      BY <1>1, <1>2, <3>1, AtAt
    <3> QED BY <1>7, <1>8, <3>1, <3>2
  <2> HIDE DEF rest
  <2> QED BY <1>8, <2>1, <2>2, SeqEqual
<1>13. live /\ live' = live /\ put' = put
  BY DEF sh_fifo_out
<1> QED BY <1>7, <1>9, <1>11, <1>12, <1>13 DEF first, rest, Queue!Out

(***************************************************************************)
(* The ring buffer implements the bounded queue of Size - 1 elements       *)
(* (sh_fifo_in, sh_fifo_out), for every size, word width and batch length: *)
(* nothing is lost, reordered or handed out twice where the indices wrap   *)
(* and the copies are split, and as much is taken in as is said.           *)
(***************************************************************************)
THEOREM FifoIsQueue == FifoSpec => IsBoundedQueue
<1>1. FifoInit => Queue!QueueInit
  BY EmptyContents DEF FifoInit, Queue!QueueInit
<1>2. ASSUME FifoInv, FifoInv', [FifoNext]_<<fifoVars, isrVars>>
      PROVE  [Queue!QueueNext]_(Queue!queueVars)
  <2>1. CASE sh_fifo_create \/ sh_fifo_destroy
    <3>1. /\ in' = 0 /\ out' = 0 /\ data' \in [Index -> Items]
          /\ buf' = buf /\ put' = put /\ live' = ~live
      BY <1>2, <2>1 DEF sh_fifo_create, sh_fifo_destroy, FifoInv, FifoTypeOK
    <3>2. ContentsOf(0, 0, data') = <<>>
      <4>1. 0 \in Index
        BY FifoAssumption DEF Index
      <4>2. sh_fifo_get_used_size(0, 0) = 0
        BY <4>1, UsedSize
      <4>3. ContentsOf(0, 0, data') \in Seq(Items) /\ Len(ContentsOf(0, 0, data')) = 0
        BY <3>1, <4>1, <4>2, ContentsProperties
      <4> QED BY <4>3, EmptySeq
    <3>3. Contents' = <<>>
      BY <3>1, <3>2 DEF Contents, ContentsOf
    <3> QED BY <3>1, <3>3 DEF Queue!QueueNext, Queue!Toggle
  <2>2. ASSUME NEW xs \in Batches, sh_fifo_in(xs)
        PROVE  Queue!QueueNext
    BY <1>2, <2>2, InAppends DEF Queue!QueueNext
  <2>3. ASSUME NEW n \in Counts, sh_fifo_out(n)
        PROVE  Queue!QueueNext
    BY <1>2, <2>3, OutTakes DEF Queue!QueueNext
  <2>4. CASE UNCHANGED fifoVars
    BY <2>4 DEF fifoVars, Contents, Queue!queueVars
  <2>5. CASE \/ \E n \in Counts : sh_fifo_out_peek(n)
             \/ PeekReads \/ PeekSize \/ PeekCopy \/ PeekDone
             \/ UNCHANGED <<fifoVars, isrVars>>
    BY <2>4, <2>5 DEF sh_fifo_out_peek, PeekReads, PeekSize, PeekCopy, PeekDone
  <2> QED BY <1>2, <2>1, <2>2, <2>3, <2>5 DEF FifoNext
<1> QED BY <1>1, <1>2, FifoInvCorrect, PTL DEF FifoSpec, IsBoundedQueue, Queue!QueueSpec
-----------------------------------------------------------------------------
(***************************************************************************)
(* Peeks: what every peek on the stack knows of the buffer while           *)
(* interrupts put elements in, peek themselves, but take nothing out.      *)
(***************************************************************************)
\* It has read out as it is and in as it is or was, will copy no fewer
\* elements than there were and no more than there are, and has copied the
\* first elements of c.
PeekOK(f, i, o, c) ==
  LET u == sh_fifo_get_used_size(i, o)
  IN  /\ f.had <= f.want /\ f.had <= u
      /\ f.o # Unread => f.o = o
      /\ f.i # Unread => /\ f.had <= sh_fifo_get_used_size(f.i, o)
                         /\ sh_fifo_get_used_size(f.i, o) <= u
      /\ f.at = "copy" => f.want <= u
      /\ Len(f.got) <= u /\ \A k \in 1 .. Len(f.got) : f.got[k] = c[k]

Peeks(i, o, c) == {f \in PeekFrames : PeekOK(f, i, o, c)}

PeekInv ==
  /\ FifoInv
  /\ stack # <<>> => live
  /\ stack \in Seq(Peeks(in, out, Contents))

LEMMA SeqSubset ==
  ASSUME NEW S, NEW T, S \subseteq T, NEW s \in Seq(S)
  PROVE  s \in Seq(T)
<1>1. /\ Len(s) \in Nat /\ s \in [1 .. Len(s) -> S]
  BY LenProperties
<1>2. s \in [1 .. Len(s) -> T]
  BY <1>1
<1> QED BY <1>1, <1>2, SeqDef

\* A frame of S pushed on, put at the top of, or popped from a stack of S.
LEMMA StackIn ==
  ASSUME NEW S, stack \in Seq(S), NEW f \in S,
         Enter(f) \/ (stack # <<>> /\ Goto(f)) \/ (stack # <<>> /\ Leave)
  PROVE  stack' \in Seq(S)
<1>1. CASE Enter(f)
  BY <1>1, PushFrames DEF Enter
<1>2. CASE stack # <<>> /\ Goto(f)
  BY <1>2, TailFrames, ExceptSeq DEF Goto
<1>3. CASE stack # <<>> /\ Leave
  BY <1>3, TailFrames DEF Leave
<1> QED BY <1>1, <1>2, <1>3

LEMMA ContentsTyped ==
  ASSUME FifoInv
  PROVE  /\ sh_fifo_get_used_size(in, out) \in Index /\ Index \subseteq Nat
         /\ Contents \in Seq(Items) /\ Len(Contents) = sh_fifo_get_used_size(in, out)
         /\ \A k \in 1 .. sh_fifo_get_used_size(in, out) :
              k - 1 \in Index /\ Contents[k] = data[At(out, k - 1)]
<1>1. in \in Index /\ out \in Index /\ data \in [Index -> Items]
  BY DEF FifoInv, FifoTypeOK
<1>2. Contents = ContentsOf(in, out, data)
  BY DEF Contents, ContentsOf
<1>3. sh_fifo_get_used_size(in, out) \in Index /\ Index \subseteq Nat
  BY <1>1, UsedSize DEF Index
<1> QED BY <1>1, <1>2, <1>3, ContentsProperties

\* Putting elements in disturbs no peek.
LEMMA InKeepsPeeks ==
  ASSUME PeekInv, FifoInv', NEW xs \in Batches, sh_fifo_in(xs)
  PROVE  PeekInv'
<1> DEFINE u == sh_fifo_get_used_size(in, out)
           v == sh_fifo_get_used_size(in', out')
           xn == SubSeq(xs, 1, Queue!Smaller(Len(xs), (Size - 1) - Len(Contents)))
<1>1. /\ out' = out /\ stack' = stack /\ live' = live
      /\ in \in Index /\ out \in Index /\ in' \in Index
  BY DEF sh_fifo_in, isrVars, PeekInv, FifoInv, FifoTypeOK
<1>2. /\ u \in Nat /\ v \in Nat /\ Contents \in Seq(Items) /\ Len(Contents) = u
      /\ Contents' \in Seq(Items) /\ Len(Contents') = v
  <2>1. u \in Nat /\ Contents \in Seq(Items) /\ Len(Contents) = u
    BY ContentsTyped DEF PeekInv
  <2>2. Contents' = ContentsOf(in', out', data') /\ data' \in [Index -> Items]
    BY DEF Contents, ContentsOf, FifoInv, FifoTypeOK
  <2>3. out' \in Index
    BY <1>1
  <2>4. v \in Nat
    BY <1>1, <2>3, UsedSize DEF Index
  <2>5. Contents' \in Seq(Items) /\ Len(Contents') = v
    BY <1>1, <2>2, <2>3, ContentsProperties
  <2> QED BY <2>1, <2>4, <2>5
<1>3. u <= v /\ \A k \in 1 .. u : Contents'[k] = Contents[k]
  <2>1. Contents' = Contents \o xn
    BY InAppends DEF PeekInv, Queue!In
  <2>2. xs \in Seq(Items) /\ Len(xs) \in Nat
    BY BatchIsSeq, FifoAssumption DEF Batches, Counts
  <2> DEFINE n == MIN(Len(xs), sh_fifo_get_unused_size(in, out))
  <2>3. v = u + n /\ n \in Nat
    <3>1. sh_fifo_get_unused_size(in, out) \in Nat
      BY <1>1, UsedSize DEF Index
    <3>2. n \in Nat
      BY <2>2, <3>1, MinProperties
    <3>3. in' = ((in + n) % Word) % Size
      BY DEF sh_fifo_in
    <3> QED BY <1>1, <2>2, <3>2, <3>3, InCount
  <2>4. xn \in Seq(Items) /\ Len(xn) \in Nat
    <3> DEFINE l == Queue!Smaller(Len(xs), (Size - 1) - Len(Contents))
    <3>1. l \in Int /\ l <= Len(xs)
      BY <1>2, <2>2, FifoAssumption DEF Queue!Smaller
    <3>2. \A i \in 1 .. l : xs[i] \in Items
      BY <2>2, <3>1, ElementOfSeq
    <3> HIDE DEF l
    <3>3. SubSeq(xs, 1, l) \in Seq(Items)
      BY <3>1, <3>2, SubSeqProperties
    <3> QED BY <3>3, LenProperties DEF l
  <2> HIDE DEF xn, n
  <2>5. \A i \in 1 .. Len(Contents) + Len(xn) :
          (Contents \o xn)[i] = IF i <= Len(Contents) THEN Contents[i] ELSE xn[i - Len(Contents)]
    BY <1>2, <2>4, ConcatProperties
  <2>6. \A k \in 1 .. u : k \in 1 .. Len(Contents) + Len(xn) /\ k <= Len(Contents)
    BY <1>2, <2>4
  <2> HIDE DEF u, v
  <2> QED BY <1>2, <2>1, <2>3, <2>5, <2>6
<1>4. Peeks(in, out, Contents) \subseteq Peeks(in', out', Contents')
  <2> SUFFICES ASSUME NEW f \in PeekFrames, PeekOK(f, in, out, Contents)
               PROVE  PeekOK(f, in', out', Contents')
    BY DEF Peeks
  <2>1. f.had \in Nat /\ f.want \in Nat /\ f.i \in Index \cup {Unread} /\ Len(f.got) \in Nat
    BY FifoAssumption, LenProperties DEF PeekFrames, Counts
  <2>2. f.i # Unread => sh_fifo_get_used_size(f.i, out) \in Nat
    <3> SUFFICES ASSUME f.i # Unread PROVE sh_fifo_get_used_size(f.i, out) \in Nat
      OBVIOUS
    <3>1. f.i \in Index
      BY <2>1
    <3>2. sh_fifo_get_used_size(f.i, out) \in Index
      BY <1>1, <3>1, UsedSize
    <3> QED BY <3>2, ContentsTyped DEF PeekInv
  <2> HIDE DEF u, v
  <2>3. /\ f.had <= f.want /\ f.had <= u
        /\ f.o # Unread => f.o = out
        /\ f.i # Unread => /\ f.had <= sh_fifo_get_used_size(f.i, out)
                           /\ sh_fifo_get_used_size(f.i, out) <= u
        /\ f.at = "copy" => f.want <= u
        /\ Len(f.got) <= u /\ \A k \in 1 .. Len(f.got) : f.got[k] = Contents[k]
    BY DEF PeekOK, u
  <2>4. \A k \in 1 .. Len(f.got) : k \in 1 .. u
    BY <1>2, <2>1, <2>3
  <2>5. /\ f.had <= f.want /\ f.had <= v
        /\ f.o # Unread => f.o = out'
        /\ f.i # Unread => /\ f.had <= sh_fifo_get_used_size(f.i, out')
                           /\ sh_fifo_get_used_size(f.i, out') <= v
        /\ f.at = "copy" => f.want <= v
        /\ Len(f.got) <= v /\ \A k \in 1 .. Len(f.got) : f.got[k] = Contents'[k]
    BY <1>1, <1>2, <1>3, <2>1, <2>2, <2>3, <2>4
  <2> QED BY <2>5 DEF PeekOK, v
<1>5. stack' \in Seq(Peeks(in', out', Contents'))
  BY <1>1, <1>4, SeqSubset DEF PeekInv
<1> QED BY <1>1, <1>5 DEF PeekInv

\* A peek reads one of the indices.
LEMMA PeekReadsOK ==
  ASSUME PeekInv, PeekReads
  PROVE  stack' \in Seq(Peeks(in, out, Contents))
<1>1. /\ stack # <<>> /\ Top.at = "size" /\ Top \in PeekFrames /\ PeekOK(Top, in, out, Contents)
      /\ stack \in Seq(Peeks(in, out, Contents))
  BY TailFrames DEF PeekReads, PeekAt, PeekInv, Peeks
<1>2. in \in Index /\ out \in Index /\ sh_fifo_get_used_size(in, out) \in Nat
  BY ContentsTyped DEF PeekInv, FifoInv, FifoTypeOK
<1>3. PICK f \in {[Top EXCEPT !.i = in], [Top EXCEPT !.o = out]} : Goto(f)
  BY DEF PeekReads
<1>4. /\ f \in PeekFrames /\ f.at = Top.at /\ f.want = Top.want /\ f.had = Top.had
      /\ f.got = Top.got /\ (f.i = Top.i \/ f.i = in) /\ (f.o = Top.o \/ f.o = out)
  BY <1>1, <1>2, <1>3 DEF PeekFrames
<1>5. PeekOK(f, in, out, Contents)
  BY <1>1, <1>2, <1>4 DEF PeekOK
<1>6. f \in Peeks(in, out, Contents)
  BY <1>4, <1>5 DEF Peeks
<1> QED BY <1>1, <1>3, <1>6, StackIn

\* A peek limits the size asked for, but not below what there was.
LEMMA PeekSizeOK ==
  ASSUME PeekInv, PeekSize
  PROVE  stack' \in Seq(Peeks(in, out, Contents))
<1> DEFINE n == sh_fifo_get_used_size(Top.i, Top.o)
           f == [Top EXCEPT !.at = "copy", !.want = MIN(@, n)]
<1>1. /\ stack # <<>> /\ Top \in PeekFrames /\ PeekOK(Top, in, out, Contents)
      /\ stack \in Seq(Peeks(in, out, Contents))
      /\ Top.i # Unread /\ Top.o # Unread /\ Goto(f)
  BY TailFrames DEF PeekSize, PeekAt, PeekInv, Peeks
<1>2. Top.i \in Index /\ Top.o = out /\ out \in Index
  BY <1>1 DEF PeekFrames, PeekOK, PeekInv, FifoInv, FifoTypeOK
<1>3. n \in Nat /\ Top.want \in Counts /\ Top.want \in Nat /\ Top.had \in Nat
  BY <1>1, <1>2, UsedSize, FifoAssumption DEF PeekFrames, Counts, Index
<1>4. Top.had <= n /\ n <= sh_fifo_get_used_size(in, out)
  BY <1>1, <1>2 DEF PeekOK
<1> HIDE DEF n
<1>5. /\ MIN(Top.want, n) \in Counts /\ MIN(Top.want, n) <= n
      /\ MIN(Top.want, n) = Top.want \/ MIN(Top.want, n) = n
  BY <1>3, FifoAssumption DEF MIN, Counts
<1>6. /\ f \in PeekFrames /\ f.want = MIN(Top.want, n) /\ f.had = Top.had
      /\ f.got = Top.got /\ f.i = Top.i /\ f.o = Top.o
  BY <1>1, <1>5 DEF PeekFrames
<1> HIDE DEF f
<1>7. f.had <= f.want /\ f.want <= sh_fifo_get_used_size(in, out)
  <2>1. sh_fifo_get_used_size(in, out) \in Nat /\ Top.had <= Top.want
    BY <1>1, ContentsTyped DEF PeekInv, PeekOK
  <2> QED BY <1>3, <1>4, <1>5, <1>6, <2>1
<1>8. f \in Peeks(in, out, Contents)
  BY <1>1, <1>6, <1>7 DEF Peeks, PeekOK
<1> QED BY <1>1, <1>8, StackIn

\* A peek copies the next element of the queue.
LEMMA PeekCopyOK ==
  ASSUME PeekInv, PeekCopy
  PROVE  stack' \in Seq(Peeks(in, out, Contents))
<1> DEFINE l == Len(Top.got)
           g == Append(Top.got, data[At(out, l)])
           f == [Top EXCEPT !.got = g]
           u == sh_fifo_get_used_size(in, out)
<1>1. /\ stack # <<>> /\ Top \in PeekFrames /\ PeekOK(Top, in, out, Contents)
      /\ stack \in Seq(Peeks(in, out, Contents))
      /\ Top.at = "copy" /\ l < Top.want /\ Goto(f)
  BY TailFrames DEF PeekCopy, PeekAt, PeekInv, Peeks
<1>2. /\ Top.got \in Seq(Items) /\ l \in Nat /\ Top.want \in Nat /\ Top.want <= u
      /\ u \in Index /\ u \in Nat
      /\ \A k \in 1 .. l : Top.got[k] = Contents[k]
      /\ Contents \in Seq(Items) /\ Len(Contents) = u
      /\ \A k \in 1 .. u : Contents[k] = data[At(out, k - 1)]
  BY <1>1, LenProperties, ContentsTyped, FifoAssumption DEF PeekFrames, PeekOK, PeekInv, Counts
<1> HIDE DEF u, l
<1>3. l + 1 \in 1 .. u /\ (l + 1) - 1 = l /\ l + 1 <= u
  BY <1>1, <1>2
<1>4. data[At(out, l)] = Contents[l + 1] /\ Contents[l + 1] \in Items
  BY <1>2, <1>3, ElementOfSeq
<1>5. /\ g \in Seq(Items) /\ Len(g) = l + 1
      /\ \A k \in 1 .. l : g[k] = Top.got[k]
      /\ g[l + 1] = Contents[l + 1]
  BY <1>2, <1>4, AppendProperties DEF l
<1> HIDE DEF g
<1>6. \A k \in 1 .. Len(g) : g[k] = Contents[k]
  <2>1. \A k \in 1 .. l + 1 : k = l + 1 \/ k \in 1 .. l
    BY <1>2
  <2> QED BY <1>2, <1>5, <2>1
<1>7. /\ f \in PeekFrames /\ f.want = Top.want /\ f.had = Top.had /\ f.at = Top.at
      /\ f.got = g /\ f.i = Top.i /\ f.o = Top.o
  BY <1>1, <1>5 DEF PeekFrames
<1> HIDE DEF f
<1>8. f \in Peeks(in, out, Contents)
  BY <1>1, <1>3, <1>5, <1>6, <1>7 DEF Peeks, PeekOK, u
<1> QED BY <1>1, <1>8, StackIn

\* A peek starts.
LEMMA PeekStartOK ==
  ASSUME PeekInv, NEW n \in Counts, sh_fifo_out_peek(n)
  PROVE  stack' \in Seq(Peeks(in, out, Contents))
<1> DEFINE u == sh_fifo_get_used_size(in, out)
           f == [op |-> "peek", pc |-> "check", at |-> "size", i |-> Unread, o |-> Unread,
                 want |-> n, had |-> MIN(n, u), got |-> <<>>, level |-> FALSE, ok |-> TRUE]
<1>1. u \in Nat /\ n \in Nat
  BY ContentsTyped, FifoAssumption DEF PeekInv, Counts
<1>2. Enter(f) /\ stack \in Seq(Peeks(in, out, Contents))
  BY DEF sh_fifo_out_peek, PeekInv
<1> HIDE DEF u
<1>3. MIN(n, u) \in Counts /\ MIN(n, u) <= n /\ MIN(n, u) <= u
  BY <1>1, FifoAssumption DEF MIN, Counts
<1>4. /\ f \in PeekFrames /\ f.want = n /\ f.had = MIN(n, u) /\ f.at = "size"
      /\ f.got = <<>> /\ f.i = Unread /\ f.o = Unread
  BY <1>3 DEF PeekFrames
<1>5. Len(f.got) = 0
  BY <1>4
<1> HIDE DEF f
<1>6. f \in Peeks(in, out, Contents)
  BY <1>1, <1>3, <1>4, <1>5 DEF Peeks, PeekOK, u
<1> QED BY <1>2, <1>6, StackIn

LEMMA PeekInvNext ==
  ASSUME PeekInv, FifoInv', [FifoNext]_<<fifoVars, isrVars>>
  PROVE  PeekInv'
<1>1. CASE sh_fifo_create \/ sh_fifo_destroy \/ \E n \in Counts : sh_fifo_out(n)
  <2>1. stack = <<>> /\ stack' = stack
    <3>1. ~Unpeeked => stack # <<>> /\ live
      BY DEF Unpeeked, PeekInv
    <3>2. Unpeeked => stack = <<>>
      <4> SUFFICES ASSUME Unpeeked, stack # <<>> PROVE FALSE
        OBVIOUS
      <4>1. 1 \in DOMAIN stack /\ stack[1] \in PeekFrames
        BY TailFrames DEF PeekInv, FifoInv, FifoTypeOK, Top
      <4> QED BY <4>1 DEF Unpeeked, IsPeek, PeekFrames
    <3> QED BY <1>1, <3>1, <3>2 DEF sh_fifo_create, sh_fifo_destroy, sh_fifo_out, isrVars
  <2>2. \A S : <<>> \in Seq(S)
    OBVIOUS
  <2> QED BY <2>1, <2>2 DEF PeekInv
<1>2. ASSUME NEW xs \in Batches, sh_fifo_in(xs)
      PROVE  PeekInv'
  BY <1>2, InKeepsPeeks
<1>3. ASSUME NEW n \in Counts, sh_fifo_out_peek(n)
      PROVE  PeekInv'
  <2>1. UNCHANGED fifoVars /\ live
    BY <1>3 DEF sh_fifo_out_peek
  <2>2. in' = in /\ out' = out /\ live' /\ Contents' = Contents
    BY <2>1 DEF fifoVars, Contents
  <2> QED BY <1>3, <2>2, PeekStartOK DEF PeekInv
<1>4. CASE PeekReads \/ PeekSize \/ PeekCopy \/ PeekDone
  <2>1. UNCHANGED fifoVars /\ stack # <<>> /\ live
    BY <1>4 DEF PeekReads, PeekSize, PeekCopy, PeekDone, PeekAt, PeekInv
  <2>2. in' = in /\ out' = out /\ live' /\ Contents' = Contents
    BY <2>1 DEF fifoVars, Contents
  <2>3. CASE PeekDone
    <3>1. stack' \in Seq(Peeks(in, out, Contents))
      BY <2>1, <2>3, TailFrames DEF PeekDone, Leave, PeekInv
    <3> QED BY <2>2, <3>1 DEF PeekInv
  <2> QED BY <1>4, <2>2, <2>3, PeekReadsOK, PeekSizeOK, PeekCopyOK DEF PeekInv
<1>5. CASE UNCHANGED <<fifoVars, isrVars>>
  <2>1. in' = in /\ out' = out /\ live' = live /\ Contents' = Contents /\ stack' = stack
    BY <1>5 DEF fifoVars, isrVars, Contents
  <2> QED BY <2>1 DEF PeekInv
<1> QED BY <1>1, <1>2, <1>3, <1>4, <1>5 DEF FifoNext

(***************************************************************************)
(* What a peek copies is a prefix of the queue, and no shorter than what   *)
(* it was asked for and found, although it does not disable interrupts     *)
(* (sh_fifo_out_peek): the used size it computes may be too small by then, *)
(* never too large, since nobody takes elements out meanwhile.             *)
(***************************************************************************)
THEOREM FifoPeekCorrect == FifoSpec => []PeekIsPrefix
<1>1. FifoInit => PeekInv
  <2> SUFFICES ASSUME FifoInit PROVE PeekInv
    OBVIOUS
  <2>1. stack = <<>> /\ \A S : <<>> \in Seq(S)
    BY DEF FifoInit, IsrInit
  <2> QED BY <2>1, FifoInvInit DEF PeekInv
<1>2. PeekInv => PeekIsPrefix
  <2> SUFFICES ASSUME PeekInv, NEW i \in DOMAIN stack
               PROVE  /\ IsPrefix(stack[i].got, Contents)
                      /\ stack[i].at = "copy" => stack[i].want >= stack[i].had
    BY DEF PeekIsPrefix
  <2> DEFINE f == stack[i]
             u == sh_fifo_get_used_size(in, out)
             l == Len(f.got)
  <2>1. f \in PeekFrames /\ PeekOK(f, in, out, Contents)
    BY LenProperties, ElementOfSeq DEF PeekInv, Peeks
  <2> HIDE DEF f
  <2>2. /\ f.got \in Seq(Items) /\ l \in Nat /\ u \in Nat /\ l <= u
        /\ \A k \in 1 .. l : f.got[k] = Contents[k]
        /\ Contents \in Seq(Items) /\ Len(Contents) = u
        /\ f.want \in Nat /\ f.had \in Nat /\ f.had <= f.want
    BY <2>1, LenProperties, ContentsTyped, FifoAssumption DEF PeekFrames, PeekOK, PeekInv, Counts
  <2> HIDE DEF l, u
  <2>3. SubSeq(f.got, 1, l) = SubSeq(Contents, 1, l)
    <3>1. \A k \in 1 .. l : f.got[k] \in Items /\ Contents[k] \in Items
      BY <2>2, ElementOfSeq DEF l
    <3>2. /\ SubSeq(f.got, 1, l) \in Seq(Items)
          /\ Len(SubSeq(f.got, 1, l)) = IF 1 <= l THEN l - 1 + 1 ELSE 0
          /\ \A k \in 1 .. l - 1 + 1 : SubSeq(f.got, 1, l)[k] = f.got[1 + k - 1]
      BY <2>2, <3>1, SubSeqProperties
    <3>3. /\ SubSeq(Contents, 1, l) \in Seq(Items)
          /\ Len(SubSeq(Contents, 1, l)) = IF 1 <= l THEN l - 1 + 1 ELSE 0
          /\ \A k \in 1 .. l - 1 + 1 : SubSeq(Contents, 1, l)[k] = Contents[1 + k - 1]
      BY <2>2, <3>1, SubSeqProperties
    <3> DEFINE p == SubSeq(f.got, 1, l)
               q == SubSeq(Contents, 1, l)
    <3>4. /\ p \in Seq(Items) /\ q \in Seq(Items) /\ Len(p) = l /\ Len(q) = l
          /\ \A k \in 1 .. l : p[k] = q[k]
      BY <2>2, <3>2, <3>3
    <3> HIDE DEF p, q
    <3>5. p = q
      BY <3>4, SeqEqual
    <3> QED BY <3>5 DEF p, q
  <2>4. IsPrefix(f.got, Contents) <=> l <= Len(Contents) /\ SubSeq(f.got, 1, l) = SubSeq(Contents, 1, l)
    BY DEF IsPrefix, l
  <2> QED BY <2>2, <2>3, <2>4 DEF f
<1>3. PeekInv /\ FifoInv' /\ [FifoNext]_<<fifoVars, isrVars>> => PeekInv'
  BY PeekInvNext
<1> QED BY <1>1, <1>2, <1>3, FifoInvCorrect, PTL DEF FifoSpec
=============================================================================
