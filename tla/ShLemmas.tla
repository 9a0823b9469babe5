------------------------------ MODULE ShLemmas ------------------------------
(***************************************************************************)
(* Lemmas that the proofs about several components share: about the lists  *)
(* of sh_list.h and sequences, and about the stack of functions in         *)
(* progress and the interrupts that they disable (sh_isr).                 *)
(***************************************************************************)
EXTENDS ShIsr, ShList, SequenceTheorems, FiniteSetTheorems, WellFoundedInduction, TLAPS

-----------------------------------------------------------------------------
(***************************************************************************)
(* What removal and insertion do to a list of sh_list.h: which nodes are   *)
(* on it afterwards, and that no node comes to be on it twice.             *)
(***************************************************************************)

\* No node is on the list twice.
Once(l) == \A i, j \in DOMAIN l : l[i] = l[j] => i = j

\* The length and the elements of RemoveAt(l, k).
LEMMA RemoveAtProperties ==
  ASSUME NEW S, NEW l \in Seq(S), NEW k \in DOMAIN l
  PROVE  /\ RemoveAt(l, k) \in Seq(S)
         /\ Len(RemoveAt(l, k)) = Len(l) - 1
         /\ \A i \in 1 .. Len(l) - 1 :
              RemoveAt(l, k)[i] = IF i < k THEN l[i] ELSE l[i + 1]
<1> DEFINE a == SubSeq(l, 1, k - 1)
           b == SubSeq(l, k + 1, Len(l))
<1>1. /\ Len(l) \in Nat /\ k \in 1 .. Len(l)
      /\ \A i \in 1 .. Len(l) : l[i] \in S
  BY LenProperties, ElementOfSeq
<1>2. /\ a \in Seq(S) /\ Len(a) = k - 1
      /\ \A i \in 1 .. k - 1 : a[i] = l[i]
  <2>1. \A i \in 1 .. k - 1 : l[i] \in S
    BY <1>1
  <2>2. /\ SubSeq(l, 1, k - 1) \in Seq(S)
        /\ Len(SubSeq(l, 1, k - 1)) = IF 1 <= k - 1 THEN k - 1 - 1 + 1 ELSE 0
        /\ \A i \in 1 .. k - 1 - 1 + 1 : SubSeq(l, 1, k - 1)[i] = l[1 + i - 1]
    BY <1>1, <2>1, SubSeqProperties
  <2> QED BY <1>1, <2>2
<1>3. /\ b \in Seq(S) /\ Len(b) = Len(l) - k
      /\ \A i \in 1 .. Len(l) - k : b[i] = l[k + i]
  <2>1. \A i \in k + 1 .. Len(l) : l[i] \in S
    BY <1>1
  <2>2. /\ SubSeq(l, k + 1, Len(l)) \in Seq(S)
        /\ Len(SubSeq(l, k + 1, Len(l))) =
             IF k + 1 <= Len(l) THEN Len(l) - (k + 1) + 1 ELSE 0
        /\ \A i \in 1 .. Len(l) - (k + 1) + 1 :
             SubSeq(l, k + 1, Len(l))[i] = l[k + 1 + i - 1]
    BY <1>1, <2>1, SubSeqProperties
  <2> QED BY <1>1, <2>2
<1>4. RemoveAt(l, k) = a \o b
  BY DEF RemoveAt
<1> HIDE DEF a, b
<1>5. /\ a \o b \in Seq(S) /\ Len(a \o b) = Len(a) + Len(b)
      /\ \A i \in 1 .. Len(a) + Len(b) :
           (a \o b)[i] = IF i <= Len(a) THEN a[i] ELSE b[i - Len(a)]
  BY <1>2, <1>3, ConcatProperties
<1>6. /\ Len(l) \in Nat /\ k \in 1 .. Len(l)
      /\ Len(a) = k - 1 /\ Len(b) = Len(l) - k /\ Len(a \o b) = Len(a) + Len(b)
  BY <1>1, <1>2, <1>3, <1>5, Zenon
<1>7. Len(a \o b) = Len(l) - 1 /\ Len(a) + Len(b) = Len(l) - 1
  BY <1>6
<1>8. ASSUME NEW i \in 1 .. Len(l) - 1
      PROVE  (a \o b)[i] = IF i < k THEN l[i] ELSE l[i + 1]
  <2>1. (a \o b)[i] = IF i <= Len(a) THEN a[i] ELSE b[i - Len(a)]
    <3>1. i \in 1 .. Len(a) + Len(b)
      BY <1>7
    <3> QED BY <1>5, <3>1, Zenon
  <2>2. CASE i < k
    <3>1. i \in 1 .. k - 1 /\ i <= Len(a)
      BY <1>6, <2>2
    <3> QED BY <1>2, <2>1, <2>2, <3>1
  <2>3. CASE ~(i < k)
    <3> DEFINE j == i - (k - 1)
    <3>1. /\ j \in 1 .. Len(l) - k /\ k + j = i + 1
          /\ ~(i <= Len(a)) /\ i - Len(a) = j
      <4>1. /\ Len(l) \in Nat /\ k \in 1 .. Len(l) /\ Len(a) = k - 1
        BY <1>6
      <4>2. i \in Nat /\ k <= i /\ i <= Len(l) - 1
        BY <2>3, <4>1
      <4>3. i - (k - 1) \in 1 .. Len(l) - k
        BY <4>1, <4>2
      <4>4. k + (i - (k - 1)) = i + 1 /\ ~(i <= k - 1)
        BY <4>1, <4>2
      <4> QED BY <4>1, <4>3, <4>4
    <3> HIDE DEF j
    <3>2. b[j] = l[k + j]
      BY <1>3, <3>1
    <3> QED BY <2>1, <2>3, <3>1, <3>2
  <2> QED BY <2>2, <2>3
<1> QED BY <1>4, <1>5, <1>7, <1>8

\* The same for InsertAt(l, k, x), which may also append x.
LEMMA InsertAtProperties ==
  ASSUME NEW S, NEW l \in Seq(S), NEW k \in 1 .. Len(l) + 1, NEW x \in S
  PROVE  /\ InsertAt(l, k, x) \in Seq(S)
         /\ Len(InsertAt(l, k, x)) = Len(l) + 1
         /\ \A i \in 1 .. Len(l) + 1 :
              InsertAt(l, k, x)[i] = IF i < k THEN l[i] ELSE IF i = k THEN x ELSE l[i - 1]
<1> DEFINE a == SubSeq(l, 1, k - 1)
           b == SubSeq(l, k, Len(l))
           c == a \o <<x>>
<1>1. /\ Len(l) \in Nat /\ k \in 1 .. Len(l) + 1
      /\ \A i \in 1 .. Len(l) : l[i] \in S
  BY LenProperties, ElementOfSeq
<1>2. /\ a \in Seq(S) /\ Len(a) = k - 1
      /\ \A i \in 1 .. k - 1 : a[i] = l[i]
  <2>1. \A i \in 1 .. k - 1 : l[i] \in S
    BY <1>1
  <2>2. /\ SubSeq(l, 1, k - 1) \in Seq(S)
        /\ Len(SubSeq(l, 1, k - 1)) = IF 1 <= k - 1 THEN k - 1 - 1 + 1 ELSE 0
        /\ \A i \in 1 .. k - 1 - 1 + 1 : SubSeq(l, 1, k - 1)[i] = l[1 + i - 1]
    BY <1>1, <2>1, SubSeqProperties
  <2> QED BY <1>1, <2>2
<1>3. /\ b \in Seq(S) /\ Len(b) = Len(l) - k + 1
      /\ \A i \in 1 .. Len(l) - k + 1 : b[i] = l[k + i - 1]
  <2>1. \A i \in k .. Len(l) : l[i] \in S
    BY <1>1
  <2>2. /\ SubSeq(l, k, Len(l)) \in Seq(S)
        /\ Len(SubSeq(l, k, Len(l))) = IF k <= Len(l) THEN Len(l) - k + 1 ELSE 0
        /\ \A i \in 1 .. Len(l) - k + 1 : SubSeq(l, k, Len(l))[i] = l[k + i - 1]
    BY <1>1, <2>1, SubSeqProperties
  <2> QED BY <1>1, <2>2
<1>4. InsertAt(l, k, x) = c \o b
  BY DEF InsertAt
<1> HIDE DEF a, b
<1>5. /\ c \in Seq(S) /\ Len(c) = k
      /\ \A i \in 1 .. k : c[i] = IF i < k THEN l[i] ELSE x
  <2>1. <<x>> \in Seq(S) /\ Len(<<x>>) = 1 /\ <<x>>[1] = x
    OBVIOUS
  <2>2. /\ a \o <<x>> \in Seq(S) /\ Len(a \o <<x>>) = Len(a) + Len(<<x>>)
        /\ \A i \in 1 .. Len(a) + Len(<<x>>) :
             (a \o <<x>>)[i] = IF i <= Len(a) THEN a[i] ELSE <<x>>[i - Len(a)]
    BY <1>2, <2>1, ConcatProperties
  <2> QED BY <1>1, <1>2, <2>1, <2>2
<1> HIDE DEF c
<1>6. /\ c \o b \in Seq(S) /\ Len(c \o b) = Len(c) + Len(b)
      /\ \A i \in 1 .. Len(c) + Len(b) :
           (c \o b)[i] = IF i <= Len(c) THEN c[i] ELSE b[i - Len(c)]
  BY <1>3, <1>5, ConcatProperties
<1>7. /\ Len(l) \in Nat /\ k \in 1 .. Len(l) + 1
      /\ Len(c) = k /\ Len(b) = Len(l) - k + 1 /\ Len(c \o b) = Len(c) + Len(b)
  BY <1>1, <1>3, <1>5, <1>6, Zenon
<1>8. Len(c \o b) = Len(l) + 1 /\ Len(c) + Len(b) = Len(l) + 1
  BY <1>7
<1>9. ASSUME NEW i \in 1 .. Len(l) + 1
      PROVE  (c \o b)[i] = IF i < k THEN l[i] ELSE IF i = k THEN x ELSE l[i - 1]
  <2>1. (c \o b)[i] = IF i <= Len(c) THEN c[i] ELSE b[i - Len(c)]
    <3>1. i \in 1 .. Len(c) + Len(b)
      BY <1>8
    <3> QED BY <1>6, <3>1, Zenon
  <2>2. CASE i <= k
    <3>1. i \in 1 .. k /\ i <= Len(c) /\ (~(i < k) => i = k)
      BY <1>7, <2>2
    <3> QED BY <1>5, <2>1, <3>1
  <2>3. CASE ~(i <= k)
    <3> DEFINE j == i - k
               n == Len(l)
    <3>1. n \in Nat /\ k \in 1 .. n + 1 /\ i \in 1 .. n + 1 /\ Len(c) = k
      BY <1>7
    <3> HIDE DEF n
    <3>2. /\ j \in 1 .. n - k + 1 /\ k + j - 1 = i - 1
          /\ ~(i <= k) /\ i - k = j /\ ~(i < k) /\ i # k
      BY <2>3, <3>1
    <3>3. /\ j \in 1 .. Len(l) - k + 1 /\ k + j - 1 = i - 1
          /\ ~(i <= Len(c)) /\ i - Len(c) = j /\ ~(i < k) /\ i # k
      BY <3>1, <3>2 DEF n
    <3> HIDE DEF j
    <3>4. b[j] = l[k + j - 1]
      BY <1>3, <3>3
    <3> QED BY <2>1, <3>3, <3>4
  <2> QED BY <2>2, <2>3
<1> QED BY <1>4, <1>6, <1>8, <1>9

\* Two sequences with the same elements.
LEMMA SameEntries ==
  ASSUME NEW S, NEW s \in Seq(S), NEW t \in Seq(S), Len(s) = Len(t),
         \A n \in 1 .. Len(s) : s[n] = t[n]
  PROVE  s = t
OBVIOUS

(***************************************************************************)
(* sh_list_remove(l, x) takes x off the list and nothing else.             *)
(***************************************************************************)
LEMMA RemoveProperties ==
  ASSUME NEW S, NEW l \in Seq(S), NEW x
  PROVE  /\ sh_list_remove(l, x) \in Seq(S)
         /\ \A y : y # x => (OnList(sh_list_remove(l, x), y) <=> OnList(l, y))
         /\ Once(l) => /\ ~OnList(sh_list_remove(l, x), x)
                      /\ Once(sh_list_remove(l, x))
<1>1. CASE ~OnList(l, x)
  BY <1>1 DEF sh_list_remove
<1>2. CASE OnList(l, x)
  <2> DEFINE k == Position(l, x)
             r == RemoveAt(l, k)
  <2>1. k \in DOMAIN l /\ l[k] = x
    BY <1>2 DEF OnList, Position
  <2> HIDE DEF k
  <2>2. sh_list_remove(l, x) = r
    BY <1>2 DEF sh_list_remove, k
  <2>3. /\ r \in Seq(S) /\ Len(r) = Len(l) - 1
        /\ \A i \in 1 .. Len(l) - 1 : r[i] = IF i < k THEN l[i] ELSE l[i + 1]
    BY <2>1, RemoveAtProperties
  <2> HIDE DEF r
  <2>4. /\ Len(l) \in Nat /\ DOMAIN l = 1 .. Len(l) /\ k \in 1 .. Len(l)
        /\ DOMAIN r = 1 .. Len(l) - 1
    BY <2>1, <2>3, LenProperties
  <2>5. ASSUME NEW y, y # x PROVE OnList(r, y) <=> OnList(l, y)
    <3>1. ASSUME OnList(r, y) PROVE OnList(l, y)
      <4>1. PICK i \in 1 .. Len(l) - 1 : r[i] = y
        BY <2>4, <3>1 DEF OnList
      <4>2. i \in DOMAIN l /\ i + 1 \in DOMAIN l
        BY <2>4
      <4> QED BY <2>3, <4>1, <4>2 DEF OnList
    <3>2. ASSUME OnList(l, y) PROVE OnList(r, y)
      <4>1. PICK i \in 1 .. Len(l) : l[i] = y
        BY <2>4, <3>2 DEF OnList
      <4>2. i # k
        BY <2>1, <2>5, <4>1
      <4>3. CASE i < k
        <5>1. i \in 1 .. Len(l) - 1
          BY <2>4, <4>3
        <5>2. r[i] = y /\ i \in DOMAIN r
          BY <2>3, <2>4, <4>1, <4>3, <5>1
        <5> QED BY <5>2 DEF OnList
      <4>4. CASE i > k
        <5>1. i - 1 \in 1 .. Len(l) - 1 /\ ~(i - 1 < k) /\ (i - 1) + 1 = i
          BY <2>4, <4>4
        <5> QED BY <2>3, <2>4, <4>1, <5>1 DEF OnList
      <4> QED BY <2>4, <4>2, <4>3, <4>4
    <3> QED BY <3>1, <3>2
  <2>6. ASSUME Once(l) PROVE ~OnList(r, x) /\ Once(r)
    <3>1. ASSUME NEW i \in DOMAIN r
          PROVE  \E m \in DOMAIN l : /\ r[i] = l[m] /\ m # k
                                    /\ m = IF i < k THEN i ELSE i + 1
      BY <2>3, <2>4
    <3>2. ~OnList(r, x)
      BY <2>1, <2>6, <3>1 DEF OnList, Once
    <3>3. ASSUME NEW i \in DOMAIN r, NEW j \in DOMAIN r, r[i] = r[j]
          PROVE  i = j
      <4>1. PICK m \in DOMAIN l : r[i] = l[m] /\ m = IF i < k THEN i ELSE i + 1
        BY <3>1
      <4>2. PICK n \in DOMAIN l : r[j] = l[n] /\ n = IF j < k THEN j ELSE j + 1
        BY <3>1
      <4>3. m = n
        BY <2>6, <3>3, <4>1, <4>2 DEF Once
      <4> QED BY <2>4, <4>1, <4>2, <4>3
    <3> QED BY <3>2, <3>3 DEF Once
  <2> QED BY <2>2, <2>3, <2>5, <2>6
<1> QED BY <1>1, <1>2

(***************************************************************************)
(* sh_list_insert_before(l, x, k) puts x on the list and nothing else.     *)
(***************************************************************************)
LEMMA InsertProperties ==
  ASSUME NEW S, NEW l \in Seq(S), NEW k \in DOMAIN l, NEW x \in S
  PROVE  /\ sh_list_insert_before(l, x, k) \in Seq(S)
         /\ \A y : OnList(sh_list_insert_before(l, x, k), y)
                      <=> y = x \/ OnList(l, y)
         /\ Once(l) /\ ~OnList(l, x) => Once(sh_list_insert_before(l, x, k))
<1> DEFINE r == InsertAt(l, k, x)
<1>1. /\ r \in Seq(S) /\ Len(r) = Len(l) + 1
      /\ \A i \in 1 .. Len(l) + 1 :
           r[i] = IF i < k THEN l[i] ELSE IF i = k THEN x ELSE l[i - 1]
  <2>1. k \in 1 .. Len(l) + 1
    BY LenProperties
  <2>2. \A j \in 1 .. Len(l) + 1 :
          /\ InsertAt(l, j, x) \in Seq(S) /\ Len(InsertAt(l, j, x)) = Len(l) + 1
          /\ \A i \in 1 .. Len(l) + 1 :
               InsertAt(l, j, x)[i] = IF i < j THEN l[i] ELSE IF i = j THEN x ELSE l[i - 1]
    BY InsertAtProperties
  <2> QED BY <2>1, <2>2, Zenon
<1>2. sh_list_insert_before(l, x, k) = r
  BY DEF sh_list_insert_before
<1> HIDE DEF r
<1>3. /\ Len(l) \in Nat /\ DOMAIN l = 1 .. Len(l) /\ k \in 1 .. Len(l)
      /\ DOMAIN r = 1 .. Len(l) + 1
  BY <1>1, LenProperties
<1>4. ASSUME NEW i \in DOMAIN r
      PROVE  \/ i = k /\ r[i] = x
             \/ /\ i # k
                /\ \E m \in DOMAIN l : r[i] = l[m] /\ m = IF i < k THEN i ELSE i - 1
  BY <1>1, <1>3
<1>5. ASSUME NEW y PROVE OnList(r, y) <=> y = x \/ OnList(l, y)
  <2>1. ASSUME OnList(r, y) PROVE y = x \/ OnList(l, y)
    BY <1>4, <2>1 DEF OnList
  <2>2. ASSUME y = x PROVE OnList(r, y)
    BY <1>1, <1>3, <2>2 DEF OnList
  <2>3. ASSUME OnList(l, y) PROVE OnList(r, y)
    <3>1. PICK m \in 1 .. Len(l) : l[m] = y
      BY <1>3, <2>3 DEF OnList
    <3>2. CASE m < k
      BY <1>1, <1>3, <3>1, <3>2 DEF OnList
    <3>3. CASE m >= k
      <4>1. m + 1 \in 1 .. Len(l) + 1 /\ ~(m + 1 < k) /\ m + 1 # k /\ (m + 1) - 1 = m
        BY <1>3, <3>3
      <4> QED BY <1>1, <1>3, <3>1, <4>1 DEF OnList
    <3> QED BY <1>3, <3>2, <3>3
  <2> QED BY <2>1, <2>2, <2>3
<1>6. ASSUME Once(l), ~OnList(l, x), NEW i \in DOMAIN r, NEW j \in DOMAIN r, r[i] = r[j]
      PROVE  i = j
  <2>1. CASE i = k \/ j = k
    BY <1>4, <1>6, <2>1 DEF OnList
  <2>2. CASE i # k /\ j # k
    <3>1. PICK m \in DOMAIN l : r[i] = l[m] /\ m = IF i < k THEN i ELSE i - 1
      BY <1>4, <2>2
    <3>2. PICK n \in DOMAIN l : r[j] = l[n] /\ n = IF j < k THEN j ELSE j - 1
      BY <1>4, <2>2
    <3>3. m = n
      BY <1>6, <3>1, <3>2 DEF Once
    <3> QED BY <1>3, <2>2, <3>1, <3>2, <3>3
  <2> QED BY <2>1, <2>2
<1> QED BY <1>1, <1>2, <1>5, <1>6 DEF Once

\* The same for a node that goes before the head.
LEMMA AppendOnceProperties ==
  ASSUME NEW S, NEW l \in Seq(S), NEW x \in S
  PROVE  /\ Append(l, x) \in Seq(S)
         /\ \A y : OnList(Append(l, x), y) <=> y = x \/ OnList(l, y)
         /\ Once(l) /\ ~OnList(l, x) => Once(Append(l, x))
<1> DEFINE r == Append(l, x)
<1>1. /\ Len(l) \in Nat /\ DOMAIN l = 1 .. Len(l)
      /\ r \in Seq(S) /\ DOMAIN r = 1 .. Len(l) + 1
      /\ r[Len(l) + 1] = x /\ \A i \in 1 .. Len(l) : r[i] = l[i]
  BY LenProperties, AppendProperties
<1> HIDE DEF r
<1>2. ASSUME NEW y PROVE OnList(r, y) <=> y = x \/ OnList(l, y)
  BY <1>1 DEF OnList
<1>3. ASSUME Once(l), ~OnList(l, x) PROVE Once(r)
  BY <1>1, <1>3 DEF OnList, Once
<1> QED BY <1>1, <1>2, <1>3 DEF r

\* A node of a list that holds no node twice occurs in one place.
LEMMA OnceOccurs ==
  ASSUME NEW S, NEW l \in Seq(S), NEW x, Once(l), OnList(l, x)
  PROVE  Cardinality(Occurs(x, l)) = 1
<1>1. PICK i \in DOMAIN l : l[i] = x
  BY DEF OnList
<1>2. Occurs(x, l) = {i}
  BY <1>1 DEF Occurs, Once
<1> QED BY <1>2, FS_Singleton

\* A nonempty set of list positions has a least element.
LEMMA Least ==
  ASSUME NEW P \in SUBSET Nat, P # {}
  PROVE  \E x \in P : \A y \in P : x <= y
<1>1. PICK x \in P : \A y \in P : ~(<<y, x>> \in OpToRel(<, Nat))
  BY NatLessThanWellFounded, WFMin
<1>2. ASSUME NEW y \in P, y < x PROVE <<y, x>> \in OpToRel(<, Nat)
  <2>1. <<y, x>> \in Nat \X Nat /\ <<y, x>>[1] = y /\ <<y, x>>[2] = x
    BY SMT
  <2> QED BY <1>2, <2>1, Zenon DEF OpToRel
<1>3. \A y \in P : ~(y < x)
  BY <1>1, <1>2, Zenon
<1> QED BY <1>3

\* f collects the nodes of the first n places of l that are not in X.
Collects(f, l, X, n) ==
  f = [k \in 0 .. n |-> IF k = 0 THEN <<>>
                        ELSE IF l[k] \in X THEN f[k - 1] ELSE Append(f[k - 1], l[k])]

LEMMA WithoutUnfolds ==
  ASSUME NEW l, NEW X, NEW f, Collects(f, l, X, Len(l))
  PROVE  \E g : Collects(g, l, X, Len(l)) /\ Without(l, X) = g[Len(l)]
<1> DEFINE F == CHOOSE g : g = [k \in 0 .. Len(l) |-> IF k = 0 THEN <<>>
                        ELSE IF l[k] \in X THEN g[k - 1] ELSE Append(g[k - 1], l[k])]
<1>1. F = [k \in 0 .. Len(l) |-> IF k = 0 THEN <<>>
                        ELSE IF l[k] \in X THEN F[k - 1] ELSE Append(F[k - 1], l[k])]
  BY DEF Collects
<1>2. Without(l, X) = F[Len(l)]
  BY DEF Without
<1> HIDE DEF F
<1>3. Collects(F, l, X, Len(l))
  BY <1>1 DEF Collects
<1> QED BY <1>2, <1>3

\* Such a function exists, for every n.
LEMMA CollectsExists ==
  ASSUME NEW S, NEW l \in Seq(S), NEW X
  PROVE  \E f : Collects(f, l, X, Len(l))
<1> DEFINE P == {n \in 0 .. Len(l) : ~ \E f : Collects(f, l, X, n)}
<1>1. Len(l) \in Nat
  BY LenProperties
<1> SUFFICES ASSUME P # {} PROVE FALSE
  BY <1>1
<1>2. PICK n \in P : \A k \in P : n <= k
  <2>1. P \in SUBSET Nat
    BY <1>1
  <2> HIDE DEF P
  <2> QED BY <2>1, Least
<1>3. n \in 0 .. Len(l) /\ n \in Nat
  BY <1>1
<1>4. CASE n = 0
  <2>1. Collects([k \in 0 .. 0 |-> <<>>], l, X, 0)
    BY DEF Collects
  <2> QED BY <1>4, <2>1
<1>5. CASE n # 0
  <2>1. n - 1 \in 0 .. Len(l) /\ ~(n <= n - 1)
    BY <1>1, <1>3, <1>5
  <2>2. n - 1 \notin P
    BY <1>2, <2>1
  <2>3. PICK f : Collects(f, l, X, n - 1)
    BY <2>1, <2>2
  <2> DEFINE e == IF l[n] \in X THEN f[n - 1] ELSE Append(f[n - 1], l[n])
             g == [k \in 0 .. n |-> IF k = n THEN e ELSE f[k]]
  <2>4. ASSUME NEW k \in 0 .. n
        PROVE  g[k] = IF k = 0 THEN <<>>
                      ELSE IF l[k] \in X THEN g[k - 1] ELSE Append(g[k - 1], l[k])
    <3>1. CASE k = n
      <4>1. g[k - 1] = f[n - 1] /\ g[k] = e
        BY <1>3, <1>5, <3>1
      <4> QED BY <1>5, <3>1, <4>1
    <3>2. CASE k # n
      <4>1. k \in 0 .. n - 1 /\ (k # 0 => k - 1 \in 0 .. n /\ k - 1 # n)
        BY <1>3, <3>2
      <4>2. f[k] = IF k = 0 THEN <<>>
                   ELSE IF l[k] \in X THEN f[k - 1] ELSE Append(f[k - 1], l[k])
        BY <2>3, <4>1 DEF Collects
      <4>3. g[k] = f[k] /\ (k # 0 => g[k - 1] = f[k - 1])
        BY <3>2, <4>1
      <4> HIDE DEF g
      <4> QED BY <4>2, <4>3
    <3> QED BY <3>1, <3>2
  <2>5. g = [k \in 0 .. n |-> g[k]]
    OBVIOUS
  <2> HIDE DEF g
  <2>6. Collects(g, l, X, n)
    BY <2>4, <2>5 DEF Collects
  <2> QED BY <2>6
<1> QED BY <1>4, <1>5

\* What f has collected when it has come to place k.
LEMMA Collected ==
  ASSUME NEW S, NEW l \in Seq(S), NEW X, NEW f, Collects(f, l, X, Len(l))
  PROVE  \A k \in 0 .. Len(l) :
           /\ f[k] \in Seq(S)
           /\ \A y : OnList(f[k], y) <=> y \notin X /\ \E i \in 1 .. k : l[i] = y
           /\ Once(l) => Once(f[k])
<1> DEFINE G(k) == /\ f[k] \in Seq(S)
                   /\ \A y : OnList(f[k], y) <=> y \notin X /\ \E i \in 1 .. k : l[i] = y
                   /\ Once(l) => Once(f[k])
           P == {k \in 0 .. Len(l) : ~G(k)}
<1>1. Len(l) \in Nat /\ DOMAIN l = 1 .. Len(l)
  BY LenProperties
<1>2. \A k \in 0 .. Len(l) :
        f[k] = IF k = 0 THEN <<>>
               ELSE IF l[k] \in X THEN f[k - 1] ELSE Append(f[k - 1], l[k])
  BY DEF Collects
<1> SUFFICES ASSUME P # {} PROVE FALSE
  OBVIOUS
<1>3. PICK n \in P : \A k \in P : n <= k
  <2>1. P \in SUBSET Nat
    BY <1>1
  <2> HIDE DEF P
  <2> QED BY <2>1, Least
<1>4. n \in 0 .. Len(l) /\ n \in Nat /\ ~G(n)
  BY <1>1
<1> SUFFICES G(n)
  BY <1>4
<1>5. CASE n = 0
  <2>1. f[n] = <<>>
    BY <1>2, <1>4, <1>5
  <2>2. <<>> \in Seq(S) /\ DOMAIN <<>> = {}
    BY EmptySeq
  <2> QED BY <1>5, <2>1, <2>2 DEF OnList, Once
<1>6. CASE n # 0
  <2>1. n - 1 \in 0 .. Len(l) /\ ~(n <= n - 1) /\ n \in 1 .. Len(l)
    BY <1>1, <1>4, <1>6
  <2>2. G(n - 1)
    BY <1>3, <2>1
  <2> DEFINE a == f[n - 1]
             x == l[n]
  <2>3. /\ a \in Seq(S) /\ x \in S /\ (Once(l) => Once(a))
        /\ \A y : OnList(a, y) <=> y \notin X /\ \E i \in 1 .. n - 1 : l[i] = y
    BY <2>1, <2>2, ElementOfSeq
  <2>4. f[n] = IF x \in X THEN a ELSE Append(a, x)
    BY <1>2, <1>4, <1>6
  <2>5. 1 .. n = (1 .. n - 1) \cup {n} /\ n \notin 1 .. n - 1 /\ 1 .. n - 1 \subseteq 1 .. Len(l)
    BY <1>1, <1>4, <1>6
  <2> HIDE DEF a
  <2>6. CASE x \in X
    <3>1. \A y : y \notin X => ((\E i \in 1 .. n : l[i] = y) <=> \E i \in 1 .. n - 1 : l[i] = y)
      BY <2>5, <2>6
    <3> QED BY <2>3, <2>4, <2>6, <3>1
  <2>7. CASE x \notin X
    <3>1. Once(l) => ~OnList(a, x)
      <4>1. ASSUME Once(l), OnList(a, x) PROVE FALSE
        <5>1. PICK i \in 1 .. n - 1 : l[i] = x
          BY <2>3, <4>1
        <5>2. i \in DOMAIN l /\ n \in DOMAIN l /\ i # n
          BY <1>1, <2>1, <2>5
        <5> QED BY <4>1, <5>1, <5>2 DEF Once
      <4> QED BY <4>1
    <3>2. /\ Append(a, x) \in Seq(S)
          /\ \A y : OnList(Append(a, x), y) <=> y = x \/ OnList(a, y)
          /\ Once(a) /\ ~OnList(a, x) => Once(Append(a, x))
      BY <2>3, AppendOnceProperties
    <3>3. \A y : (\E i \in 1 .. n : l[i] = y) <=> y = x \/ \E i \in 1 .. n - 1 : l[i] = y
      BY <2>5
    <3>4. f[n] = Append(a, x)
      BY <2>4, <2>7
    <3>5. \A y : OnList(f[n], y) <=> y \notin X /\ \E i \in 1 .. n : l[i] = y
      BY <2>3, <2>7, <3>2, <3>3, <3>4
    <3> QED BY <2>3, <3>1, <3>2, <3>4, <3>5
  <2> QED BY <2>6, <2>7
<1> QED BY <1>5, <1>6

\* Removing the nodes in X leaves the others, as often as they were there.
LEMMA WithoutProperties ==
  ASSUME NEW S, NEW l \in Seq(S), NEW X
  PROVE  /\ Without(l, X) \in Seq(S)
         /\ \A y : OnList(Without(l, X), y) <=> y \notin X /\ OnList(l, y)
         /\ Once(l) => Once(Without(l, X))
<1>1. PICK f : Collects(f, l, X, Len(l)) /\ Without(l, X) = f[Len(l)]
  BY CollectsExists, WithoutUnfolds
<1>2. Len(l) \in 0 .. Len(l) /\ DOMAIN l = 1 .. Len(l)
  BY LenProperties
<1> DEFINE r == f[Len(l)]
<1>3. /\ r \in Seq(S) /\ (Once(l) => Once(r))
      /\ \A y : OnList(r, y) <=> y \notin X /\ \E i \in 1 .. Len(l) : l[i] = y
  <2>1. Collects(f, l, X, Len(l))
    BY <1>1
  <2>2. \A k \in 0 .. Len(l) :
          /\ f[k] \in Seq(S)
          /\ \A y : OnList(f[k], y) <=> y \notin X /\ \E i \in 1 .. k : l[i] = y
          /\ Once(l) => Once(f[k])
    BY <2>1, Collected
  <2> QED BY <1>2, <2>2
<1> HIDE DEF r
<1>4. \A y : OnList(l, y) <=> \E i \in 1 .. Len(l) : l[i] = y
  BY <1>2 DEF OnList
<1>5. Without(l, X) = r
  BY <1>1 DEF r
<1> QED BY <1>3, <1>4, <1>5
-----------------------------------------------------------------------------
(***************************************************************************)
(* How the ways in which a function is entered, goes on and returns keep   *)
(* MaskDiscipline, for stacks of any frames F.  The proofs about the event *)
(* bus and the timers use nothing else about masked and level.             *)
(***************************************************************************)

\* The frames of a stack that are below the first one.
LEMMA TailFrames ==
  ASSUME NEW F, stack \in Seq(F), stack # <<>>
  PROVE  /\ Tail(stack) \in Seq(F) /\ Len(stack) \in Nat \ {0}
         /\ DOMAIN stack = 1 .. Len(stack) /\ DOMAIN Tail(stack) = 1 .. Len(stack) - 1
         /\ \A i \in 1 .. Len(stack) - 1 : Tail(stack)[i] = stack[i + 1]
         /\ Top \in F
BY HeadTailProperties, LenProperties, ElementOfSeq DEF Top

\* Pushing a frame f.
LEMMA PushFrames ==
  ASSUME NEW F, stack \in Seq(F), NEW f \in F
  PROVE  /\ <<f>> \o stack \in Seq(F) /\ Len(stack) \in Nat
         /\ DOMAIN stack = 1 .. Len(stack)
         /\ DOMAIN (<<f>> \o stack) = 1 .. Len(stack) + 1
         /\ (<<f>> \o stack)[1] = f
         /\ \A i \in 1 .. Len(stack) : (<<f>> \o stack)[i + 1] = stack[i]
<1>1. <<f>> \in Seq(F) /\ Len(<<f>>) = 1 /\ <<f>>[1] = f
  OBVIOUS
<1>2. /\ <<f>> \o stack \in Seq(F) /\ Len(<<f>> \o stack) = 1 + Len(stack)
      /\ \A i \in 1 .. 1 + Len(stack) :
           (<<f>> \o stack)[i] = IF i <= 1 THEN <<f>>[i] ELSE stack[i - 1]
  BY <1>1, ConcatProperties
<1>3. Len(stack) \in Nat /\ DOMAIN stack = 1 .. Len(stack)
  BY LenProperties
<1>4. DOMAIN (<<f>> \o stack) = 1 .. Len(stack) + 1
  BY <1>2, <1>3, LenProperties
<1>5. (<<f>> \o stack)[1] = f
  BY <1>1, <1>2, <1>3
<1>6. ASSUME NEW i \in 1 .. Len(stack) PROVE (<<f>> \o stack)[i + 1] = stack[i]
  <2>1. i + 1 \in 1 .. 1 + Len(stack) /\ ~(i + 1 <= 1) /\ (i + 1) - 1 = i
    BY <1>3
  <2> QED BY <1>2, <2>1
<1> QED BY <1>2, <1>3, <1>4, <1>5, <1>6

\* A function is entered with interrupts as they are.
LEMMA EnterKeepsMask ==
  ASSUME NEW F, stack \in Seq(F), NEW f \in F, ~Locked(f), Enter(f), MaskDiscipline
  PROVE  MaskDiscipline'
<1>1. /\ stack' = <<f>> \o stack /\ masked' = masked
      /\ Len(stack) \in Nat /\ DOMAIN stack = 1 .. Len(stack)
      /\ DOMAIN (<<f>> \o stack) = 1 .. Len(stack) + 1
      /\ (<<f>> \o stack)[1] = f
      /\ \A i \in 1 .. Len(stack) : (<<f>> \o stack)[i + 1] = stack[i]
  BY PushFrames DEF Enter
<1>2. \A i \in DOMAIN stack : i + 1 \in DOMAIN stack' /\ stack'[i + 1] = stack[i]
  BY <1>1
<1>3. \A i \in DOMAIN stack' :
        Locked(stack'[i]) => /\ i - 1 \in DOMAIN stack /\ stack'[i] = stack[i - 1]
  <2> SUFFICES ASSUME NEW i \in DOMAIN stack', Locked(stack'[i])
               PROVE  i - 1 \in DOMAIN stack /\ stack'[i] = stack[i - 1]
    OBVIOUS
  <2>1. i \in 1 .. Len(stack) + 1 /\ i # 1
    BY <1>1
  <2>2. i - 1 \in 1 .. Len(stack) /\ (i - 1) + 1 = i
    BY <1>1, <2>1
  <2> QED BY <1>1, <2>2
<1>4. (\E i \in DOMAIN stack : Locked(stack[i])) <=> \E i \in DOMAIN stack' : Locked(stack'[i])
  BY <1>2, <1>3
<1>5. ASSUME NEW i \in DOMAIN stack', Locked(stack'[i])
      PROVE  stack'[i].level = \E j \in DOMAIN stack' : j > i /\ Locked(stack'[j])
  <2>1. /\ i - 1 \in DOMAIN stack /\ stack'[i] = stack[i - 1]
    BY <1>3, <1>5
  <2>2. stack[i - 1].level = \E j \in DOMAIN stack : j > i - 1 /\ Locked(stack[j])
    BY <1>5, <2>1 DEF MaskDiscipline
  <2>3. i \in Nat /\ \A j \in DOMAIN stack \cup DOMAIN stack' : j \in Nat
    BY <1>1
  <2>4. (\E j \in DOMAIN stack : j > i - 1 /\ Locked(stack[j]))
          <=> \E j \in DOMAIN stack' : j > i /\ Locked(stack'[j])
    <3>1. ASSUME NEW j \in DOMAIN stack, j > i - 1, Locked(stack[j])
          PROVE  \E k \in DOMAIN stack' : k > i /\ Locked(stack'[k])
      BY <1>2, <2>3, <3>1
    <3>2. ASSUME NEW j \in DOMAIN stack', j > i, Locked(stack'[j])
          PROVE  \E k \in DOMAIN stack : k > i - 1 /\ Locked(stack[k])
      BY <1>3, <2>3, <3>2
    <3> QED BY <3>1, <3>2
  <2> QED BY <2>1, <2>2, <2>4
<1> QED BY <1>1, <1>4, <1>5 DEF MaskDiscipline, Locked

\* The current function goes on, with or without interrupts as before.
LEMMA GotoKeepsMask ==
  ASSUME NEW F, stack \in Seq(F), stack # <<>>, NEW f \in F, Locked(Top), Locked(f),
         f.level = Top.level, Goto(f), MaskDiscipline
  PROVE  MaskDiscipline'
<1>1. /\ DOMAIN stack = 1 .. Len(stack) /\ Len(stack) \in Nat \ {0}
      /\ DOMAIN stack' = DOMAIN stack /\ masked' = masked
      /\ stack'[1] = f /\ stack[1] = Top
      /\ \A i \in DOMAIN stack : i # 1 => stack'[i] = stack[i]
  BY TailFrames, ExceptSeq DEF Goto, Top
<1>2. \A i \in DOMAIN stack : /\ Locked(stack'[i]) <=> Locked(stack[i])
                              /\ stack'[i].level = stack[i].level
  BY <1>1
<1> QED BY <1>1, <1>2 DEF MaskDiscipline, Locked

\* The current function disables interrupts.
LEMMA DisableKeepsMask ==
  ASSUME NEW F, stack \in Seq(F), stack # <<>>, ~Locked(Top), NEW f \in F,
         NEW g \in F, g = [f EXCEPT !.level = masked], g.level = masked, Locked(g),
         sh_isr_disable(f), MaskDiscipline
  PROVE  MaskDiscipline'
<1>1. /\ DOMAIN stack = 1 .. Len(stack) /\ Len(stack) \in Nat \ {0}
      /\ DOMAIN stack' = DOMAIN stack /\ masked' = TRUE
      /\ stack'[1] = g /\ stack[1] = Top
      /\ \A i \in DOMAIN stack : i # 1 => stack'[i] = stack[i]
  BY TailFrames, ExceptSeq DEF sh_isr_disable, Top
<1>2. (\E i \in DOMAIN stack : Locked(stack[i]))
        <=> \E j \in DOMAIN stack' : j > 1 /\ Locked(stack'[j])
  BY <1>1
<1>3. ASSUME NEW i \in DOMAIN stack', Locked(stack'[i])
      PROVE  stack'[i].level = \E j \in DOMAIN stack' : j > i /\ Locked(stack'[j])
  <2>1. CASE i = 1
    <3>1. stack'[1].level = masked
      BY <1>1
    <3>2. masked = \E j \in DOMAIN stack : Locked(stack[j])
      BY DEF MaskDiscipline
    <3> QED BY <1>2, <2>1, <3>1, <3>2
  <2>2. CASE i # 1
    <3>1. stack'[i] = stack[i] /\ i \in DOMAIN stack
      BY <1>1, <2>2
    <3>2. stack[i].level = \E j \in DOMAIN stack : j > i /\ Locked(stack[j])
      BY <1>3, <3>1 DEF MaskDiscipline
    <3>3. (\E j \in DOMAIN stack : j > i /\ Locked(stack[j]))
            <=> \E j \in DOMAIN stack' : j > i /\ Locked(stack'[j])
      BY <1>1, <3>1
    <3> QED BY <3>1, <3>2, <3>3
  <2> QED BY <2>1, <2>2
<1>4. \E i \in DOMAIN stack' : Locked(stack'[i])
  BY <1>1
<1> QED BY <1>1, <1>3, <1>4 DEF MaskDiscipline, Locked

\* What is known of the stack below a function that returns.
LEMMA PopFrames ==
  ASSUME NEW F, stack \in Seq(F), stack # <<>>, stack' = Tail(stack)
  PROVE  /\ Len(stack) \in Nat /\ DOMAIN stack = 1 .. Len(stack) /\ 1 \in DOMAIN stack
         /\ DOMAIN stack' = 1 .. Len(stack) - 1
         /\ \A i \in DOMAIN stack' : i + 1 \in DOMAIN stack /\ stack'[i] = stack[i + 1]
         /\ \A i \in DOMAIN stack :
              i # 1 => i - 1 \in DOMAIN stack' /\ stack'[i - 1] = stack[i]
         /\ \A i \in DOMAIN stack \cup DOMAIN stack' : i \in Nat /\ i >= 1
<1>1. /\ Len(stack) \in Nat \ {0}
      /\ DOMAIN stack = 1 .. Len(stack) /\ DOMAIN stack' = 1 .. Len(stack) - 1
      /\ \A i \in 1 .. Len(stack) - 1 : stack'[i] = stack[i + 1]
  BY TailFrames
<1>2. ASSUME NEW i \in DOMAIN stack, i # 1
      PROVE  i - 1 \in DOMAIN stack' /\ stack'[i - 1] = stack[i]
  <2>1. i - 1 \in 1 .. Len(stack) - 1 /\ (i - 1) + 1 = i
    BY <1>1, <1>2
  <2> QED BY <1>1, <2>1
<1> QED BY <1>1, <1>2

\* The levels of the frames below stay right.
LEMMA PopKeepsLevels ==
  ASSUME NEW F, stack \in Seq(F), stack # <<>>, stack' = Tail(stack), MaskDiscipline
  PROVE  /\ \A i \in DOMAIN stack' :
              Locked(stack'[i]) =>
                stack'[i].level = \E j \in DOMAIN stack' : j > i /\ Locked(stack'[j])
         /\ (\E i \in DOMAIN stack' : Locked(stack'[i]))
              <=> \E i \in DOMAIN stack : i > 1 /\ Locked(stack[i])
<1>1. /\ \A i \in DOMAIN stack' : i + 1 \in DOMAIN stack /\ stack'[i] = stack[i + 1]
      /\ \A i \in DOMAIN stack :
           i # 1 => i - 1 \in DOMAIN stack' /\ stack'[i - 1] = stack[i]
      /\ \A i \in DOMAIN stack \cup DOMAIN stack' : i \in Nat /\ i >= 1
  BY PopFrames
<1>2. ASSUME NEW i \in DOMAIN stack', Locked(stack'[i])
      PROVE  stack'[i].level = \E j \in DOMAIN stack' : j > i /\ Locked(stack'[j])
  <2>1. stack[i + 1].level = \E j \in DOMAIN stack : j > i + 1 /\ Locked(stack[j])
    BY <1>1, <1>2 DEF MaskDiscipline
  <2>2. (\E j \in DOMAIN stack : j > i + 1 /\ Locked(stack[j]))
          <=> \E j \in DOMAIN stack' : j > i /\ Locked(stack'[j])
    <3>1. ASSUME NEW j \in DOMAIN stack, j > i + 1, Locked(stack[j])
          PROVE  \E k \in DOMAIN stack' : k > i /\ Locked(stack'[k])
      <4>1. j # 1 /\ j - 1 > i
        BY <1>1, <3>1
      <4> QED BY <1>1, <3>1, <4>1
    <3>2. ASSUME NEW j \in DOMAIN stack', j > i, Locked(stack'[j])
          PROVE  \E k \in DOMAIN stack : k > i + 1 /\ Locked(stack[k])
      <4>1. j + 1 > i + 1
        BY <1>1, <3>2
      <4> QED BY <1>1, <3>2, <4>1
    <3> QED BY <3>1, <3>2
  <2> QED BY <1>1, <2>1, <2>2
<1>3. ASSUME NEW i \in DOMAIN stack', Locked(stack'[i])
      PROVE  \E k \in DOMAIN stack : k > 1 /\ Locked(stack[k])
  <2>1. i + 1 > 1
    BY <1>1
  <2> QED BY <1>1, <1>3, <2>1
<1>4. ASSUME NEW i \in DOMAIN stack, i > 1, Locked(stack[i])
      PROVE  \E k \in DOMAIN stack' : Locked(stack'[k])
  <2>1. i # 1
    BY <1>1, <1>4
  <2> QED BY <1>1, <1>4, <2>1
<1> QED BY <1>2, <1>3, <1>4

\* The current function enables interrupts and returns.
LEMMA EnableKeepsMask ==
  ASSUME NEW F, stack \in Seq(F), stack # <<>>, Locked(Top), sh_isr_enable, MaskDiscipline
  PROVE  MaskDiscipline'
<1>1. stack' = Tail(stack) /\ masked' = Top.level
  BY DEF sh_isr_enable
<1>2. /\ \A i \in DOMAIN stack' :
           Locked(stack'[i]) =>
             stack'[i].level = \E j \in DOMAIN stack' : j > i /\ Locked(stack'[j])
      /\ (\E i \in DOMAIN stack' : Locked(stack'[i]))
           <=> \E i \in DOMAIN stack : i > 1 /\ Locked(stack[i])
  BY <1>1, PopKeepsLevels
<1>3. Top.level = \E i \in DOMAIN stack : i > 1 /\ Locked(stack[i])
  BY <1>1, PopFrames DEF MaskDiscipline, Top
<1>4. masked' = \E i \in DOMAIN stack' : Locked(stack'[i])
  BY <1>1, <1>2, <1>3
<1> QED BY <1>2, <1>4 DEF MaskDiscipline, Locked

\* The current function returns without having disabled interrupts.
LEMMA LeaveKeepsMask ==
  ASSUME NEW F, stack \in Seq(F), stack # <<>>, ~Locked(Top), Leave, MaskDiscipline
  PROVE  MaskDiscipline'
<1>1. stack' = Tail(stack) /\ masked' = masked
  BY DEF Leave
<1>2. /\ \A i \in DOMAIN stack' :
           Locked(stack'[i]) =>
             stack'[i].level = \E j \in DOMAIN stack' : j > i /\ Locked(stack'[j])
      /\ (\E i \in DOMAIN stack' : Locked(stack'[i]))
           <=> \E i \in DOMAIN stack : i > 1 /\ Locked(stack[i])
  BY <1>1, PopKeepsLevels
<1>3. (\E i \in DOMAIN stack : Locked(stack[i]))
        <=> \E i \in DOMAIN stack : i > 1 /\ Locked(stack[i])
  <2>1. \A i \in DOMAIN stack : Locked(stack[i]) => i > 1
    BY <1>1, PopFrames DEF Top
  <2> QED BY <2>1
<1>4. masked' = \E i \in DOMAIN stack' : Locked(stack'[i])
  BY <1>1, <1>2, <1>3 DEF MaskDiscipline
<1> QED BY <1>2, <1>4 DEF MaskDiscipline, Locked
-----------------------------------------------------------------------------
(***************************************************************************)
(* The half of MaskDiscipline that survives a function that returns with   *)
(* interrupts off: inside a critical section they are off, and they stay   *)
(* off when a nested one ends.                                             *)
(***************************************************************************)
Covered ==
  \A i \in DOMAIN stack :
    Locked(stack[i]) =>
      /\ masked = TRUE
      /\ \A j \in DOMAIN stack : j > i /\ Locked(stack[j]) => stack[i].level = TRUE

LEMMA EnterKeepsCovered ==
  ASSUME NEW F, stack \in Seq(F), NEW f \in F, ~Locked(f), Enter(f), Covered
  PROVE  Covered'
<1>1. /\ stack' = <<f>> \o stack /\ masked' = masked
      /\ Len(stack) \in Nat /\ DOMAIN stack = 1 .. Len(stack)
      /\ DOMAIN (<<f>> \o stack) = 1 .. Len(stack) + 1
      /\ (<<f>> \o stack)[1] = f
      /\ \A i \in 1 .. Len(stack) : (<<f>> \o stack)[i + 1] = stack[i]
  BY PushFrames DEF Enter
<1>2. ASSUME NEW i \in DOMAIN stack', Locked(stack'[i])
      PROVE  i - 1 \in DOMAIN stack /\ stack'[i] = stack[i - 1]
  <2>1. i \in 1 .. Len(stack) + 1 /\ i # 1
    BY <1>1, <1>2
  <2>2. i - 1 \in 1 .. Len(stack) /\ (i - 1) + 1 = i
    BY <1>1, <2>1
  <2> QED BY <1>1, <2>2
<1>3. \A i, j \in DOMAIN stack' : j > i => j - 1 > i - 1
  BY <1>1
<1> QED BY <1>1, <1>2, <1>3 DEF Covered, Locked

LEMMA GotoKeepsCovered ==
  ASSUME NEW F, stack \in Seq(F), stack # <<>>, NEW f \in F, Locked(Top), Locked(f),
         f.level = Top.level, Goto(f), Covered
  PROVE  Covered'
<1>1. /\ DOMAIN stack' = DOMAIN stack /\ masked' = masked
      /\ stack'[1] = f /\ stack[1] = Top
      /\ \A i \in DOMAIN stack : i # 1 => stack'[i] = stack[i]
  BY TailFrames, ExceptSeq DEF Goto, Top
<1>2. \A i \in DOMAIN stack : /\ Locked(stack'[i]) <=> Locked(stack[i])
                              /\ stack'[i].level = stack[i].level
  BY <1>1
<1> QED BY <1>1, <1>2 DEF Covered, Locked

LEMMA DisableKeepsCovered ==
  ASSUME NEW F, stack \in Seq(F), stack # <<>>, ~Locked(Top), NEW f \in F,
         NEW g \in F, g = [f EXCEPT !.level = masked], g.level = masked, Locked(g),
         sh_isr_disable(f), Covered
  PROVE  Covered'
<1>1. /\ DOMAIN stack = 1 .. Len(stack) /\ Len(stack) \in Nat \ {0}
      /\ DOMAIN stack' = DOMAIN stack /\ masked' = TRUE
      /\ stack'[1] = g /\ stack[1] = Top
      /\ \A i \in DOMAIN stack : i # 1 => stack'[i] = stack[i]
  BY TailFrames, ExceptSeq DEF sh_isr_disable, Top
<1>2. \A j \in DOMAIN stack : j > 1 /\ Locked(stack'[j]) => stack'[1].level = TRUE
  BY <1>1 DEF Covered
<1>3. ASSUME NEW i \in DOMAIN stack, Locked(stack'[i]), NEW j \in DOMAIN stack,
             j > i, Locked(stack'[j])
      PROVE  stack'[i].level = TRUE
  <2>1. CASE i = 1
    BY <1>2, <1>3, <2>1
  <2>2. CASE i # 1
    <3>1. j # 1 /\ stack'[i] = stack[i] /\ stack'[j] = stack[j]
      BY <1>1, <1>3, <2>2
    <3>2. i \in DOMAIN stack /\ j \in DOMAIN stack
      OBVIOUS
    <3> QED BY <1>3, <3>1, <3>2 DEF Covered
  <2> QED BY <2>1, <2>2
<1> QED BY <1>1, <1>3 DEF Covered, Locked

LEMMA EnableKeepsCovered ==
  ASSUME NEW F, stack \in Seq(F), stack # <<>>, Locked(Top), sh_isr_enable, Covered
  PROVE  Covered'
<1>1. stack' = Tail(stack) /\ masked' = Top.level
  BY DEF sh_isr_enable
<1>2. /\ 1 \in DOMAIN stack
      /\ \A i \in DOMAIN stack' : i + 1 \in DOMAIN stack /\ stack'[i] = stack[i + 1]
      /\ \A i \in DOMAIN stack \cup DOMAIN stack' : i \in Nat /\ i >= 1
  BY <1>1, PopFrames
<1>3. ASSUME NEW i \in DOMAIN stack', Locked(stack'[i])
      PROVE  masked' = TRUE
  <2>1. i + 1 > 1
    BY <1>2
  <2> QED BY <1>1, <1>2, <1>3, <2>1 DEF Covered, Top
<1>4. ASSUME NEW i \in DOMAIN stack', Locked(stack'[i]), NEW j \in DOMAIN stack',
             j > i, Locked(stack'[j])
      PROVE  stack'[i].level = TRUE
  <2>1. j + 1 > i + 1
    BY <1>2, <1>4
  <2> QED BY <1>2, <1>4, <2>1 DEF Covered
<1> QED BY <1>3, <1>4 DEF Covered, Locked
=============================================================================
