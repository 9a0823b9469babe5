---------------------------- MODULE ShHashProofs ----------------------------
(***************************************************************************)
(* Theorems about the hash table, for every set of keys and values, every  *)
(* size and every hash function.                                           *)
(***************************************************************************)
EXTENDS ShHash, ShLemmas

-----------------------------------------------------------------------------
(***************************************************************************)
(* Numbers in ascending order.                                             *)
(***************************************************************************)
Below(P, i) == {j \in P : j < i}

Rank(P, i) == Cardinality(Below(P, i))

LEMMA BelowGrows ==
  ASSUME NEW P \in SUBSET Nat, NEW i \in Nat, NEW j \in Nat, i <= j
  PROVE  Below(P, i) \in SUBSET Below(P, j)
<1>1. ASSUME NEW x \in Below(P, i) PROVE x \in Below(P, j)
  <2>1. x \in P /\ x \in Nat /\ x < i
    BY DEF Below
  <2> QED BY <2>1 DEF Below
<1> QED BY <1>1

\* A rank is smaller than the number of elements, and grows with the element.
LEMMA RankProperties ==
  ASSUME NEW P \in SUBSET Nat, IsFiniteSet(P)
  PROVE  /\ Cardinality(P) \in Nat
         /\ \A i \in P : Rank(P, i) \in 0 .. Cardinality(P) - 1
         /\ \A i \in P, j \in Nat : i < j => Rank(P, i) < Rank(P, j)
         /\ \A i \in Nat : Rank(P, i) \in 0 .. Cardinality(P)
<1>1. Cardinality(P) \in Nat
  BY FS_CardinalityType
<1>2. ASSUME NEW i \in Nat
      PROVE  /\ IsFiniteSet(Below(P, i)) /\ Rank(P, i) \in Nat /\ Rank(P, i) <= Cardinality(P)
             /\ Cardinality(P) = Rank(P, i) => P = Below(P, i)
  <2>1. Below(P, i) \in SUBSET P
    BY DEF Below
  <2>2. /\ IsFiniteSet(Below(P, i)) /\ Cardinality(Below(P, i)) <= Cardinality(P)
        /\ Cardinality(P) = Cardinality(Below(P, i)) => P = Below(P, i)
    BY <2>1, FS_Subset
  <2> QED BY <2>2, FS_CardinalityType DEF Rank
<1>3. ASSUME NEW i \in P
      PROVE  Rank(P, i) \in 0 .. Cardinality(P) - 1
  <2>1. i \in Nat /\ ~(i < i) /\ i \notin Below(P, i)
    BY DEF Below
  <2>2. Rank(P, i) # Cardinality(P)
    BY <1>2, <2>1
  <2> QED BY <1>1, <1>2, <2>1, <2>2
<1>4. ASSUME NEW i \in P, NEW j \in Nat, i < j
      PROVE  Rank(P, i) < Rank(P, j)
  <2>1. i \in Nat /\ Below(P, i) \in SUBSET Below(P, j) /\ i \in Below(P, j) /\ i \notin Below(P, i)
    <3>1. i \in Nat /\ i <= j
      BY <1>4
    <3> QED BY <1>4, <3>1, BelowGrows DEF Below
  <2>2. IsFiniteSet(Below(P, j)) /\ Rank(P, i) \in Nat /\ Rank(P, j) \in Nat
    BY <1>2, <2>1
  <2>3. /\ Cardinality(Below(P, i)) <= Cardinality(Below(P, j))
        /\ Cardinality(Below(P, j)) = Cardinality(Below(P, i)) => Below(P, j) = Below(P, i)
    BY <2>1, <2>2, FS_Subset
  <2> QED BY <2>1, <2>2, <2>3 DEF Rank
<1> QED BY <1>1, <1>2, <1>3, <1>4

LEMMA RankInjective ==
  ASSUME NEW P \in SUBSET Nat, IsFiniteSet(P), NEW i \in P, NEW j \in P, Rank(P, i) = Rank(P, j)
  PROVE  i = j
<1>1. i \in Nat /\ j \in Nat /\ Rank(P, i) \in Nat
  BY RankProperties
<1>2. ~(i < j) /\ ~(j < i)
  <2>1. i < j => Rank(P, i) < Rank(P, j)
    BY <1>1, RankProperties
  <2>2. j < i => Rank(P, j) < Rank(P, i)
    BY <1>1, RankProperties
  <2> QED BY <1>1, <2>1, <2>2
<1> QED BY <1>1, <1>2

\* Every rank is somebody's.
LEMMA RankOnto ==
  ASSUME NEW P \in SUBSET Nat, IsFiniteSet(P), NEW n \in 0 .. Cardinality(P) - 1
  PROVE  \E i \in P : Rank(P, i) = n
<1> DEFINE m == Cardinality(P)
           T == 0 .. m - 1
           f == [i \in P |-> Rank(P, i)]
<1>1. m \in Nat /\ \A i \in P : Rank(P, i) \in T
  BY RankProperties
<1>2. f \in [P -> T]
  BY <1>1
<1>3. \A i, j \in P : f[i] = f[j] => i = j
  BY RankInjective
<1>4. f \in Injection(P, T)
  BY <1>2, <1>3 DEF Injection, IsInjective
<1>5. IsFiniteSet(T) /\ Cardinality(T) = m
  BY <1>1, FS_Interval
<1>6. f \in Surjection(P, T)
  BY <1>4, <1>5, FS_Injection
<1>7. \E i \in P : f[i] = n
  BY <1>6 DEF Surjection
<1> QED BY <1>7

\* So Ascending(P) lists P by rank.
LEMMA AscendingProperties ==
  ASSUME NEW P \in SUBSET Nat, IsFiniteSet(P), NEW n \in 1 .. Cardinality(P)
  PROVE  /\ Ascending(P)[n] \in P /\ Rank(P, Ascending(P)[n]) = n - 1
         /\ \A i \in P : Rank(P, i) = n - 1 => Ascending(P)[n] = i
<1>1. Cardinality(P) \in Nat /\ n - 1 \in 0 .. Cardinality(P) - 1
  BY RankProperties
<1>2. Ascending(P)[n] = CHOOSE i \in P : Rank(P, i) = n - 1
  BY DEF Ascending, Rank, Below
<1>3. Ascending(P)[n] \in P /\ Rank(P, Ascending(P)[n]) = n - 1
  <2>1. \E i \in P : Rank(P, i) = n - 1
    BY <1>1, RankOnto
  <2> QED BY <1>2, <2>1
<1>4. ASSUME NEW i \in P, Rank(P, i) = n - 1
      PROVE  Ascending(P)[n] = i
  BY <1>3, <1>4, RankInjective
<1> QED BY <1>3, <1>4

\* Another number takes its place, and the larger ones move on.
LEMMA AscendingInsert ==
  ASSUME NEW P \in SUBSET Nat, IsFiniteSet(P), NEW p \in Nat \ P, NEW Q, Q = P \cup {p}
  PROVE  /\ Cardinality(Q) = Cardinality(P) + 1
         /\ \A n \in 1 .. Cardinality(P) + 1 :
              Ascending(Q)[n] = IF n < Rank(P, p) + 1 THEN Ascending(P)[n]
                                ELSE IF n = Rank(P, p) + 1 THEN p
                                ELSE Ascending(P)[n - 1]
<1> DEFINE c == Cardinality(P)
           r == Rank(P, p)
<1>1. IsFiniteSet(Q) /\ Cardinality(Q) = c + 1 /\ Q \in SUBSET Nat
  BY FS_AddElement
<1>2. c \in Nat /\ r \in 0 .. c
  BY RankProperties
<1>3. ASSUME NEW i \in Nat
      PROVE  Rank(Q, i) = IF p < i THEN Rank(P, i) + 1 ELSE Rank(P, i)
  <2>1. IsFiniteSet(Below(P, i)) /\ p \notin Below(P, i)
    <3>1. Below(P, i) \in SUBSET P
      BY DEF Below
    <3> QED BY <3>1, FS_Subset
  <2>2. CASE p < i
    <3>1. Below(Q, i) = Below(P, i) \cup {p}
      BY <2>2 DEF Below
    <3> QED BY <2>1, <2>2, <3>1, FS_AddElement DEF Rank
  <2>3. CASE ~(p < i)
    <3>1. Below(Q, i) = Below(P, i)
      BY <2>3 DEF Below
    <3> QED BY <2>3, <3>1 DEF Rank
  <2> QED BY <2>2, <2>3
<1>4. Rank(Q, p) = r
  <2>1. ~(p < p)
    OBVIOUS
  <2> QED BY <1>3, <2>1
<1>5. ASSUME NEW n \in 1 .. c + 1, NEW i \in Q, Rank(Q, i) = n - 1
      PROVE  Ascending(Q)[n] = i
  BY <1>1, <1>5, AscendingProperties
<1>6. ASSUME NEW n \in 1 .. c, n < r + 1
      PROVE  Ascending(Q)[n] = Ascending(P)[n]
  <2> DEFINE i == Ascending(P)[n]
  <2>1. i \in P /\ Rank(P, i) = n - 1
    BY AscendingProperties
  <2> HIDE DEF i
  <2>2. ~(p < i)
    <3>1. p < i => Rank(P, i) >= r
      <4>1. ASSUME p < i PROVE Below(P, p) \in SUBSET Below(P, i)
        BY <2>1, <4>1, BelowGrows
      <4>2. IsFiniteSet(Below(P, i)) /\ IsFiniteSet(Below(P, p))
        <5>1. Below(P, i) \in SUBSET P /\ Below(P, p) \in SUBSET P
          BY DEF Below
        <5> QED BY <5>1, FS_Subset
      <4>3. ASSUME p < i PROVE Cardinality(Below(P, p)) <= Cardinality(Below(P, i))
        BY <4>1, <4>2, <4>3, FS_Subset
      <4>4. Rank(P, i) \in Nat /\ r \in Nat
        BY <1>2, <2>1
      <4> QED BY <4>3, <4>4 DEF Rank
    <3> QED BY <1>2, <1>6, <2>1, <3>1
  <2>3. Rank(Q, i) = n - 1 /\ i \in Q
    BY <1>3, <2>1, <2>2
  <2>4. Ascending(Q)[n] = i
    <3>1. n \in 1 .. c + 1
      BY <1>2
    <3> QED BY <1>5, <2>3, <3>1
  <2> QED BY <2>4 DEF i
<1>7. Ascending(Q)[r + 1] = p
  <2>1. r + 1 \in 1 .. c + 1 /\ p \in Q /\ Rank(Q, p) = (r + 1) - 1
    BY <1>2, <1>4
  <2> HIDE DEF r, c
  <2> QED BY <1>5, <2>1
<1>8. ASSUME NEW n \in 2 .. c + 1, n > r + 1
      PROVE  Ascending(Q)[n] = Ascending(P)[n - 1]
  <2> DEFINE i == Ascending(P)[n - 1]
  <2>0. n - 1 \in 1 .. c
    BY <1>2
  <2>1. i \in P /\ Rank(P, i) = (n - 1) - 1
    BY <2>0, AscendingProperties
  <2> HIDE DEF i
  <2>2. i < p => Rank(P, i) < r
    BY <2>1, RankProperties
  <2>3. p < i
    BY <1>2, <1>8, <2>1, <2>2
  <2>4. Rank(Q, i) = n - 1 /\ i \in Q
    BY <1>3, <2>1, <2>3
  <2>5. Ascending(Q)[n] = i
    <3>1. n \in 1 .. c + 1
      BY <1>2
    <3> QED BY <1>5, <2>4, <3>1
  <2> QED BY <2>5 DEF i
<1>9. ASSUME NEW n \in 1 .. c + 1
      PROVE  Ascending(Q)[n] = IF n < r + 1 THEN Ascending(P)[n]
                               ELSE IF n = r + 1 THEN p ELSE Ascending(P)[n - 1]
  <2>1. n < r + 1 => n \in 1 .. c
    BY <1>2
  <2>2. n > r + 1 => n \in 2 .. c + 1
    BY <1>2
  <2>3. n < r + 1 \/ n = r + 1 \/ n > r + 1
    BY <1>2
  <2>4. n < r + 1 => Ascending(Q)[n] = Ascending(P)[n]
    BY <1>6, <2>1
  <2>5. n > r + 1 => Ascending(Q)[n] = Ascending(P)[n - 1] /\ ~(n < r + 1) /\ n # r + 1
    <3>1. n > r + 1 => ~(n < r + 1) /\ n # r + 1
      BY <1>2
    <3> QED BY <1>8, <2>2, <3>1
  <2>6. n = r + 1 => Ascending(Q)[n] = p /\ ~(n < r + 1)
    BY <1>2, <1>7
  <2> HIDE DEF r
  <2> QED BY <2>3, <2>4, <2>5, <2>6
<1> QED BY <1>1, <1>9
-----------------------------------------------------------------------------
(***************************************************************************)
(* Probing.  From its home a key reaches every bucket in node_count steps, *)
(* each once.                                                              *)
(***************************************************************************)
LEMMA ModuloOnce ==
  ASSUME NEW n \in Nat \ {0}, NEW a \in 0 .. n - 1, NEW i \in 0 .. n - 1
  PROVE  (a + i) % n = IF a + i < n THEN a + i ELSE a + i - n
<1>1. CASE a + i < n
  BY <1>1
<1>2. CASE ~(a + i < n)
  <2> DEFINE x == a + i - n
  <2>1. x \in 0 .. n - 1 /\ a + i = x + n
    BY <1>2
  <2>2. x % n = x /\ (x + n) % n = x
    BY <2>1
  <2> QED BY <1>2, <2>1, <2>2
<1> QED BY <1>1, <1>2

\* The table: its size, its nodes and the hash function.
TableOK ==
  /\ node_count \in Tables \cup {0} /\ jenkins_hash \in [Keys -> Hashes]
  /\ nodes \in [Buckets -> HashNode]
  /\ \A b \in Buckets : nodes[b].is_exist => nodes[b].key \in Keys

HashInv == TableOK /\ used = Cardinality(Occupied)

LEMMA CountNat == TableOK => node_count \in Nat
BY HashAssumption DEF TableOK

LEMMA ProbedOnce ==
  ASSUME TableOK, NEW k \in Keys
  PROVE  /\ \A i \in Buckets : Probed(k, i) \in Buckets
         /\ \A i, j \in Buckets : Probed(k, i) = Probed(k, j) => i = j
         /\ \A b \in Buckets : \E i \in Buckets : Probed(k, i) = b
<1> DEFINE n == node_count
           a == sh_jen_hash(k)
<1>1. CASE n = 0
  <2>1. Buckets = {}
    BY <1>1 DEF Buckets
  <2> QED BY <2>1
<1>2. CASE n # 0
  <2>1. n \in Nat \ {0} /\ jenkins_hash[k] \in Nat
    BY <1>2, CountNat, HashAssumption DEF TableOK
  <2>2. a \in 0 .. n - 1
    BY <2>1 DEF sh_jen_hash
  <2>3. Buckets = 0 .. n - 1 /\ \A i : Probed(k, i) = (a + i) % n
    BY DEF Buckets, Probed
  <2> HIDE DEF n, a
  <2>4. ASSUME NEW i \in 0 .. n - 1
        PROVE  Probed(k, i) = IF a + i < n THEN a + i ELSE a + i - n
    BY <2>1, <2>2, <2>3, ModuloOnce
  <2>5. ASSUME NEW i \in 0 .. n - 1, NEW j \in 0 .. n - 1, Probed(k, i) = Probed(k, j)
        PROVE  i = j
    BY <2>1, <2>2, <2>4, <2>5
  <2>6. ASSUME NEW b \in 0 .. n - 1
        PROVE  \E i \in 0 .. n - 1 : Probed(k, i) = b
    <3> DEFINE i == IF a <= b THEN b - a ELSE b + n - a
    <3>1. i \in 0 .. n - 1
      BY <2>1, <2>2
    <3>2. Probed(k, i) = b
      BY <2>1, <2>2, <2>4, <3>1
    <3> QED BY <3>1, <3>2
  <2>7. ASSUME NEW i \in 0 .. n - 1
        PROVE  Probed(k, i) \in 0 .. n - 1
    BY <2>1, <2>2, <2>4
  <2> QED BY <2>3, <2>5, <2>6, <2>7
<1> QED BY <1>1, <1>2

LEMMA BucketsFinite ==
  ASSUME TableOK
  PROVE  /\ IsFiniteSet(Buckets) /\ Cardinality(Buckets) = node_count
         /\ IsFiniteSet(Occupied) /\ Cardinality(Occupied) \in 0 .. node_count
         /\ Buckets \in SUBSET Nat
<1>1. node_count \in Nat
  BY CountNat
<1>2. IsFiniteSet(Buckets) /\ Cardinality(Buckets) = node_count
  BY <1>1, FS_Interval DEF Buckets
<1>3. Occupied \in SUBSET Buckets
  BY DEF Occupied
<1>4. /\ IsFiniteSet(Occupied) /\ Cardinality(Occupied) <= node_count
      /\ Cardinality(Occupied) \in Nat
  BY <1>2, <1>3, FS_Subset, FS_CardinalityType
<1> QED BY <1>1, <1>2, <1>4 DEF Buckets

\* A set of natural numbers has a least element.
LEMMA LeastNumber ==
  ASSUME NEW P \in SUBSET Nat, IsFiniteSet(P), P # {}
  PROVE  \E i \in P : \A j \in P : i <= j
<1>1. Cardinality(P) \in Nat /\ Cardinality(P) # 0
  BY FS_CardinalityType, FS_EmptySet
<1>2. PICK i \in P : Rank(P, i) = 0
  BY <1>1, RankOnto
<1>3. ASSUME NEW j \in P PROVE i <= j
  <2>1. j < i => Rank(P, j) < Rank(P, i)
    BY RankProperties
  <2>2. Rank(P, j) \in Nat /\ i \in Nat /\ j \in Nat
    BY RankProperties
  <2> QED BY <1>2, <2>1, <2>2
<1> QED BY <1>2, <1>3

\* A table that is not full has a free bucket, and the first one from the home
\* of k on is taken.
LEMMA FreeBucket ==
  ASSUME HashInv, NEW k \in Keys, used < node_count
  PROVE  \E f \in Buckets :
           /\ FreeIndex(k) = Probed(k, f) /\ FreeIndex(k) \in Buckets
           /\ ~nodes[Probed(k, f)].is_exist
           /\ \A j \in 0 .. f - 1 : nodes[Probed(k, j)].is_exist
<1>1. TableOK /\ node_count \in Nat /\ Buckets = 0 .. node_count - 1
  BY CountNat DEF HashInv, Buckets
<1> DEFINE F == {i \in Buckets : ~nodes[Probed(k, i)].is_exist}
<1>2. \E b \in Buckets : ~nodes[b].is_exist
  <2>1. Occupied # Buckets
    BY <1>1, BucketsFinite DEF HashInv
  <2> QED BY <2>1 DEF Occupied
<1>3. F # {} /\ F \in SUBSET Buckets
  <2>1. PICK b \in Buckets : ~nodes[b].is_exist
    BY <1>2
  <2>2. PICK i \in Buckets : Probed(k, i) = b
    BY <1>1, ProbedOnce
  <2>3. i \in F
    BY <2>1, <2>2
  <2> QED BY <2>3
<1>4. F \in SUBSET Nat /\ IsFiniteSet(F)
  BY <1>1, <1>3, BucketsFinite, FS_Subset
<1>5. PICK f \in F : \A j \in F : f <= j
  <2> HIDE DEF F
  <2> QED BY <1>3, <1>4, LeastNumber
<1>6. \A j \in 0 .. f - 1 : nodes[Probed(k, j)].is_exist
  <2>1. ASSUME NEW j \in 0 .. f - 1 PROVE j \in Buckets /\ ~(f <= j)
    BY <1>1, <1>5
  <2> QED BY <1>5, <2>1
<1> DEFINE Free(i) == /\ ~nodes[Probed(k, i)].is_exist
                      /\ \A j \in 0 .. i - 1 : nodes[Probed(k, j)].is_exist
           g == CHOOSE i \in Buckets : Free(i)
<1>7. f \in Buckets /\ Free(f)
  BY <1>5, <1>6
<1>8. g \in Buckets /\ Free(g)
  BY <1>7
<1>9. FreeIndex(k) = Probed(k, g)
  BY DEF FreeIndex
<1>10. FreeIndex(k) \in Buckets
  BY <1>1, <1>8, <1>9, ProbedOnce
<1> HIDE DEF g
<1> QED BY <1>8, <1>9, <1>10

\* The place where a key is found is the first that holds it.
LEMMA FoundPlace ==
  ASSUME TableOK, NEW k \in Keys, Found(k)
  PROVE  \E i \in Places(k) :
           /\ IndexOf(k) = Probed(k, i) /\ IndexOf(k) \in Buckets
           /\ \A j \in Places(k) : i <= j
<1> DEFINE g == CHOOSE i \in Buckets : sh_hash_find_index(k, i)
<1>1. g \in Buckets /\ sh_hash_find_index(k, g)
  BY DEF Found
<1>2. IndexOf(k) = Probed(k, g)
  BY DEF IndexOf
<1> HIDE DEF g
<1>3. g \in Places(k)
  BY <1>1 DEF Places, sh_hash_find_index
<1>4. ASSUME NEW j \in Places(k) PROVE g <= j
  <2>1. node_count \in Nat /\ g \in Nat /\ j \in Nat
    BY <1>1, CountNat DEF Places, Buckets
  <2>2. Holds(Probed(k, j), k)
    BY DEF Places
  <2>3. j \notin 0 .. g - 1
    BY <1>1, <2>2 DEF sh_hash_find_index
  <2> QED BY <2>1, <2>3
<1>5. IndexOf(k) \in Buckets
  BY <1>1, <1>2, ProbedOnce
<1> QED BY <1>2, <1>3, <1>4, <1>5
-----------------------------------------------------------------------------
(***************************************************************************)
(* The invariant holds.                                                    *)
(***************************************************************************)
LEMMA NodeTypes ==
  /\ Zeroed \in HashNode
  /\ \A k \in Keys, v \in Values : [is_exist |-> TRUE, key |-> k, value |-> v] \in HashNode
BY DEF Zeroed, HashNode

\* Every node is zeroed.
LEMMA EmptyTable ==
  ASSUME TableOK, \A b \in Buckets : nodes[b] = Zeroed
  PROVE  Cardinality(Occupied) = 0
<1>1. Occupied = {}
  BY DEF Occupied, Zeroed
<1> QED BY <1>1, FS_EmptySet

LEMMA HashInvInit == HashInit => HashInv
<1> SUFFICES ASSUME HashInit PROVE HashInv
  OBVIOUS
<1>1. nodes = <<>> /\ node_count = 0 /\ used = 0 /\ jenkins_hash \in [Keys -> Hashes]
  BY DEF HashInit
<1>2. Buckets = {} /\ Occupied = {}
  BY <1>1 DEF Buckets, Occupied
<1>3. nodes \in [Buckets -> HashNode]
  BY <1>1, <1>2
<1> QED BY <1>1, <1>2, <1>3, FS_EmptySet DEF HashInv, TableOK

\* One more node is in use.
LEMMA AddSteps ==
  ASSUME HashInv, NEW k \in Keys, NEW v \in Values, sh_hash_add(k, v)
  PROVE  \E f \in Buckets :
           /\ TableOK' /\ Buckets' = Buckets
           /\ ~nodes[Probed(k, f)].is_exist
           /\ \A j \in 0 .. f - 1 : nodes[Probed(k, j)].is_exist
           /\ \A b \in Buckets : nodes'[b] = IF b = Probed(k, f)
                                             THEN [is_exist |-> TRUE, key |-> k, value |-> v]
                                             ELSE nodes[b]
           /\ Occupied' = Occupied \cup {Probed(k, f)} /\ Probed(k, f) \notin Occupied
<1> DEFINE N == [is_exist |-> TRUE, key |-> k, value |-> v]
<1>1. /\ used < node_count /\ nodes' = [nodes EXCEPT ![FreeIndex(k)] = N]
      /\ UNCHANGED <<node_count, jenkins_hash>>
  BY DEF sh_hash_add
<1>2. N \in HashNode /\ N.is_exist /\ N.key = k
  BY NodeTypes
<1>3. PICK f \in Buckets :
        /\ FreeIndex(k) = Probed(k, f) /\ FreeIndex(k) \in Buckets
        /\ ~nodes[Probed(k, f)].is_exist
        /\ \A j \in 0 .. f - 1 : nodes[Probed(k, j)].is_exist
  BY <1>1, FreeBucket
<1> HIDE DEF N
<1>4. Buckets' = Buckets
  BY <1>1 DEF Buckets
<1>5. nodes' = [nodes EXCEPT ![Probed(k, f)] = N] /\ Probed(k, f) \in Buckets
  BY <1>1, <1>3
<1>6. nodes \in [Buckets -> HashNode] /\ \A b \in Buckets : nodes[b].is_exist => nodes[b].key \in Keys
  BY DEF HashInv, TableOK
<1>7. nodes' \in [Buckets -> HashNode]
      /\ \A b \in Buckets : nodes'[b] = IF b = Probed(k, f) THEN N ELSE nodes[b]
  BY <1>2, <1>5, <1>6
<1>8. TableOK'
  BY <1>1, <1>2, <1>4, <1>6, <1>7 DEF HashInv, TableOK
<1>9. Occupied' = Occupied \cup {Probed(k, f)} /\ Probed(k, f) \notin Occupied
  BY <1>2, <1>3, <1>4, <1>5, <1>7 DEF Occupied
<1> QED BY <1>3, <1>4, <1>7, <1>8, <1>9 DEF N

\* The first node of k is zeroed.
LEMMA RemoveSteps ==
  ASSUME HashInv, NEW k \in Keys, sh_hash_remove(k)
  PROVE  \E i \in Places(k) :
           /\ TableOK' /\ Buckets' = Buckets
           /\ \A j \in Places(k) : i <= j
           /\ \A b \in Buckets : nodes'[b] = IF b = Probed(k, i) THEN Zeroed ELSE nodes[b]
           /\ Occupied' = Occupied \ {Probed(k, i)} /\ Probed(k, i) \in Occupied
<1>1. /\ Found(k) /\ nodes' = [nodes EXCEPT ![IndexOf(k)] = Zeroed]
      /\ UNCHANGED <<node_count, jenkins_hash>>
  BY DEF sh_hash_remove
<1>2. PICK i \in Places(k) :
        /\ IndexOf(k) = Probed(k, i) /\ IndexOf(k) \in Buckets
        /\ \A j \in Places(k) : i <= j
  BY <1>1, FoundPlace DEF HashInv
<1>3. Buckets' = Buckets
  BY <1>1 DEF Buckets
<1>4. nodes' = [nodes EXCEPT ![Probed(k, i)] = Zeroed] /\ Probed(k, i) \in Buckets
  BY <1>1, <1>2
<1>5. nodes \in [Buckets -> HashNode] /\ \A b \in Buckets : nodes[b].is_exist => nodes[b].key \in Keys
  BY DEF HashInv, TableOK
<1>6. Zeroed \in HashNode /\ ~Zeroed.is_exist
  BY NodeTypes DEF Zeroed
<1>7. nodes' \in [Buckets -> HashNode]
      /\ \A b \in Buckets : nodes'[b] = IF b = Probed(k, i) THEN Zeroed ELSE nodes[b]
  BY <1>4, <1>5, <1>6
<1>8. TableOK'
  BY <1>1, <1>3, <1>5, <1>6, <1>7 DEF HashInv, TableOK
<1>9. Holds(Probed(k, i), k)
  BY <1>2 DEF Places
<1>10. Occupied' = Occupied \ {Probed(k, i)} /\ Probed(k, i) \in Occupied
  BY <1>3, <1>4, <1>6, <1>7, <1>9 DEF Occupied, Holds
<1> QED BY <1>2, <1>3, <1>7, <1>8, <1>10

LEMMA HashInvNext == HashInv /\ [HashNext]_hashVars => HashInv'
<1> SUFFICES ASSUME HashInv, [HashNext]_hashVars PROVE HashInv'
  OBVIOUS
<1>1. ASSUME NEW size \in Tables, sh_hash_create(size)
      PROVE  HashInv'
  <2>1. /\ node_count' = size /\ nodes' = [b \in 0 .. size - 1 |-> Zeroed] /\ used' = 0
        /\ UNCHANGED jenkins_hash
    BY <1>1 DEF sh_hash_create
  <2>2. Buckets' = 0 .. size - 1
    BY <2>1 DEF Buckets
  <2>3. nodes' \in [Buckets' -> HashNode] /\ \A b \in Buckets' : nodes'[b] = Zeroed
    BY <2>1, <2>2, NodeTypes
  <2>4. TableOK'
    BY <2>1, <2>3 DEF HashInv, TableOK, Zeroed
  <2>5. Occupied' = {}
    BY <2>3 DEF Occupied, Zeroed
  <2> QED BY <2>1, <2>4, <2>5, FS_EmptySet DEF HashInv
<1>2. CASE sh_hash_destroy
  <2>1. /\ node_count' = 0 /\ nodes' = <<>> /\ used' = 0 /\ UNCHANGED jenkins_hash
    BY <1>2 DEF sh_hash_destroy
  <2>2. Buckets' = {} /\ Occupied' = {}
    BY <2>1 DEF Buckets, Occupied
  <2>3. nodes' \in [Buckets' -> HashNode]
    BY <2>1, <2>2
  <2> QED BY <2>1, <2>2, <2>3, FS_EmptySet DEF HashInv, TableOK
<1>3. CASE sh_hash_clear
  <2>1. nodes' = [b \in Buckets |-> Zeroed] /\ used' = 0 /\ UNCHANGED <<node_count, jenkins_hash>>
    BY <1>3 DEF sh_hash_clear
  <2>2. Buckets' = Buckets
    BY <2>1 DEF Buckets
  <2>3. nodes' \in [Buckets' -> HashNode] /\ \A b \in Buckets' : nodes'[b] = Zeroed
    BY <2>1, <2>2, NodeTypes
  <2>4. TableOK'
    BY <2>1, <2>3 DEF HashInv, TableOK, Zeroed
  <2>5. Occupied' = {}
    BY <2>3 DEF Occupied, Zeroed
  <2> QED BY <2>1, <2>4, <2>5, FS_EmptySet DEF HashInv
<1>4. ASSUME NEW k \in Keys, NEW v \in Values, sh_hash_add(k, v)
      PROVE  HashInv'
  <2>1. PICK f : TableOK' /\ Occupied' = Occupied \cup {f} /\ f \notin Occupied
    BY <1>4, AddSteps
  <2>2. used' = used + 1 /\ used = Cardinality(Occupied) /\ IsFiniteSet(Occupied)
    BY <1>4, BucketsFinite DEF sh_hash_add, HashInv
  <2> QED BY <2>1, <2>2, FS_AddElement DEF HashInv
<1>5. ASSUME NEW k \in Keys, sh_hash_remove(k)
      PROVE  HashInv'
  <2>1. PICK b : TableOK' /\ Occupied' = Occupied \ {b} /\ b \in Occupied
    BY <1>5, RemoveSteps
  <2>2. /\ used' = used - (IF used > 0 THEN 1 ELSE 0) /\ used = Cardinality(Occupied)
        /\ IsFiniteSet(Occupied) /\ Cardinality(Occupied) \in Nat
    BY <1>5, BucketsFinite, FS_CardinalityType DEF sh_hash_remove, HashInv
  <2>3. used # 0
    BY <2>1, <2>2, FS_EmptySet
  <2>4. used' = used - 1
    BY <2>2, <2>3
  <2>5. Cardinality(Occupied') = used - 1
    BY <2>1, <2>2, FS_RemoveElement
  <2> QED BY <2>1, <2>4, <2>5 DEF HashInv
<1>6. ASSUME NEW k \in Keys, sh_hash_find(k) \/ sh_hash_is_key_exist(k) \/ AddFull(k)
      PROVE  HashInv'
  BY <1>6 DEF sh_hash_find, sh_hash_is_key_exist, AddFull, HashInv, TableOK, Buckets, Occupied
<1>7. CASE UNCHANGED hashVars
  BY <1>7 DEF hashVars, HashInv, TableOK, Buckets, Occupied
<1> QED BY <1>1, <1>2, <1>3, <1>4, <1>5, <1>6, <1>7 DEF HashNext

LEMMA HashInvAlways == HashSpec => []HashInv
BY HashInvInit, HashInvNext, PTL DEF HashSpec

(***************************************************************************)
(* sh_hash_get_used_amount tells the number of nodes in use after any      *)
(* number of adds, removals and clears, for any hash function, so that     *)
(* sh_hash_add finds a free node exactly when it does not refuse.          *)
(***************************************************************************)
THEOREM HashUsedCounts == HashSpec => []UsedCounts
<1>1. HashInv => UsedCounts
  BY DEF HashInv, TableOK, UsedCounts
<1> QED BY <1>1, HashInvAlways, PTL
-----------------------------------------------------------------------------
(***************************************************************************)
(* What the table stores under a key.                                      *)
(***************************************************************************)
Kept == Values \cup {NULL}

LEMMA PlacesFinite ==
  ASSUME TableOK, NEW k \in Keys
  PROVE  /\ Places(k) \in SUBSET Nat /\ IsFiniteSet(Places(k)) /\ Cardinality(Places(k)) \in Nat
         /\ \A i \in Places(k) : i \in Buckets /\ Probed(k, i) \in Buckets /\ Holds(Probed(k, i), k)
<1>1. Places(k) \in SUBSET Buckets
  BY DEF Places
<1>2. IsFiniteSet(Places(k)) /\ Places(k) \in SUBSET Nat
  BY <1>1, BucketsFinite, FS_Subset
<1> QED BY <1>1, <1>2, ProbedOnce, FS_CardinalityType DEF Places

LEMMA EntriesTypes ==
  ASSUME TableOK, NEW k \in Keys
  PROVE  /\ EntriesOf(k) \in Seq(Kept) /\ Len(EntriesOf(k)) = Cardinality(Places(k))
         /\ DOMAIN EntriesOf(k) = 1 .. Cardinality(Places(k))
         /\ \A n \in 1 .. Cardinality(Places(k)) :
              /\ Ascending(Places(k))[n] \in Places(k)
              /\ EntriesOf(k)[n] = nodes[Probed(k, Ascending(Places(k))[n])].value
<1> DEFINE c == Cardinality(Places(k))
<1>1. c \in Nat
  BY PlacesFinite
<1>2. ASSUME NEW n \in 1 .. c
      PROVE  /\ Ascending(Places(k))[n] \in Places(k)
             /\ nodes[Probed(k, Ascending(Places(k))[n])].value \in Kept
  <2>1. Ascending(Places(k))[n] \in Places(k)
    BY PlacesFinite, AscendingProperties
  <2>2. Probed(k, Ascending(Places(k))[n]) \in Buckets
    BY <2>1, PlacesFinite
  <2>3. nodes[Probed(k, Ascending(Places(k))[n])] \in HashNode
    BY <2>2 DEF TableOK
  <2> QED BY <2>1, <2>3 DEF HashNode, Kept
<1>3. EntriesOf(k) = [n \in 1 .. c |-> nodes[Probed(k, Ascending(Places(k))[n])].value]
  BY DEF EntriesOf
<1>4. EntriesOf(k) \in [1 .. c -> Kept]
  BY <1>2, <1>3
<1>5. EntriesOf(k) \in Seq(Kept) /\ Len(EntriesOf(k)) = c /\ DOMAIN EntriesOf(k) = 1 .. c
  <2> DEFINE s == EntriesOf(k)
  <2>1. s \in [1 .. c -> Kept]
    BY <1>4
  <2> HIDE DEF s, c
  <2>2. s \in Seq(Kept) /\ DOMAIN s = 1 .. c
    BY <1>1, <2>1
  <2>3. Len(s) = c
    BY <1>1, <2>2, LenProperties
  <2> QED BY <2>2, <2>3 DEF s
<1>6. \A n \in 1 .. c : EntriesOf(k)[n] = nodes[Probed(k, Ascending(Places(k))[n])].value
  BY <1>3
<1> QED BY <1>2, <1>5, <1>6

EntriesOK(k) ==
  /\ EntriesOf(k) \in Seq(Kept) /\ Len(EntriesOf(k)) = Cardinality(Places(k))
  /\ \A n \in 1 .. Cardinality(Places(k)) :
       /\ Ascending(Places(k))[n] \in Places(k)
       /\ EntriesOf(k)[n] = nodes[Probed(k, Ascending(Places(k))[n])].value

\* The same after a step.
LEMMA EntriesTypesNext == TableOK' => \A k \in Keys : EntriesOK(k)'
<1>1. TableOK => \A k \in Keys : EntriesOK(k)
  BY EntriesTypes DEF EntriesOK
<1>2. TableOK' => (\A k \in Keys : EntriesOK(k))'
  BY <1>1, PTL
<1> QED BY <1>2

\* The first entry is that of the first node.
LEMMA FirstEntry ==
  ASSUME TableOK, NEW k \in Keys, NEW i \in Places(k), \A j \in Places(k) : i <= j
  PROVE  EntriesOf(k) # <<>> /\ Head(EntriesOf(k)) = nodes[Probed(k, i)].value
<1>1. Places(k) # {} /\ IsFiniteSet(Places(k)) /\ Places(k) \in SUBSET Nat
  BY PlacesFinite
<1>2. Cardinality(Places(k)) \in Nat /\ Cardinality(Places(k)) # 0
  BY <1>1, FS_EmptySet, PlacesFinite
<1>3. 1 \in 1 .. Cardinality(Places(k))
  BY <1>2
<1>4. Rank(Places(k), i) = 0
  <2>1. Below(Places(k), i) = {}
    <3>1. ASSUME NEW j \in Below(Places(k), i) PROVE FALSE
      <4>1. j \in Places(k) /\ j < i /\ j \in Nat /\ i \in Nat
        BY <1>1 DEF Below
      <4> QED BY <4>1
    <3> QED BY <3>1
  <2> QED BY <2>1, FS_EmptySet DEF Rank
<1>5. Ascending(Places(k))[1] = i
  BY <1>1, <1>3, <1>4, AscendingProperties
<1>6. EntriesOf(k)[1] = nodes[Probed(k, i)].value
  BY <1>3, <1>5, EntriesTypes
<1>7. EntriesOf(k) \in Seq(Kept) /\ Len(EntriesOf(k)) # 0
  BY <1>2, EntriesTypes
<1>8. EntriesOf(k) # <<>>
  BY <1>7
<1> QED BY <1>6, <1>7, <1>8

\* A key is found unless it is not in the table or behind a hole.
LEMMA FoundUnlessHole ==
  ASSUME TableOK, NEW k \in Keys, ~Found(k), Unbroken
  PROVE  EntriesOf(k) = <<>>
<1>1. CASE Places(k) = {}
  <2>1. Len(EntriesOf(k)) = 0 /\ EntriesOf(k) \in Seq(Kept)
    BY <1>1, EntriesTypes, FS_EmptySet
  <2> QED BY <2>1
<1>2. CASE Places(k) # {}
  <2>1. PICK i \in Places(k) : \A j \in Places(k) : i <= j
    BY <1>2, PlacesFinite, LeastNumber
  <2>2. i \in Buckets /\ Holds(Probed(k, i), k)
    BY PlacesFinite
  <2>3. ASSUME NEW j \in 0 .. i - 1
        PROVE  nodes[Probed(k, j)].is_exist /\ ~Holds(Probed(k, j), k)
    <3>1. nodes[Probed(k, j)].is_exist
      BY <2>2 DEF Unbroken
    <3>2. node_count \in Nat /\ i \in 0 .. node_count - 1
      BY <2>2, CountNat DEF Buckets
    <3>3. j \in Buckets /\ ~(i <= j)
      BY <3>2 DEF Buckets
    <3>4. j \notin Places(k)
      BY <2>1, <3>3
    <3> QED BY <3>1, <3>3, <3>4 DEF Places
  <2>4. sh_hash_find_index(k, i)
    BY <2>2, <2>3 DEF sh_hash_find_index
  <2> QED BY <2>2, <2>4 DEF Found
<1> QED BY <1>1, <1>2

\* The entries of all keys are the nodes in use.
LEMMA TotalIsUsed ==
  ASSUME TableOK
  PROVE  Dict!Total = Cardinality(Occupied)
<1> DEFINE E == UNION {{k} \X DOMAIN EntriesOf(k) : k \in Keys}
           at(k, n) == Probed(k, Ascending(Places(k))[n])
           g == [e \in E |-> at(e[1], e[2])]
<1>1. Dict!Total = Cardinality(E)
  <2> DEFINE ent == [k \in Keys |-> EntriesOf(k)]
  <2>1. \A k \in Keys : ent[k] = EntriesOf(k)
    OBVIOUS
  <2>2. Dict!Total = Cardinality(UNION {{k} \X DOMAIN ent[k] : k \in Keys})
    BY DEF Dict!Total, Dict!Cardinality, Cardinality
  <2> HIDE DEF ent
  <2>3. {{k} \X DOMAIN ent[k] : k \in Keys} = {{k} \X DOMAIN EntriesOf(k) : k \in Keys}
    BY <2>1
  <2> QED BY <2>2, <2>3
<1>2. ASSUME NEW e \in E
      PROVE  /\ e = <<e[1], e[2]>> /\ e[1] \in Keys /\ e[2] \in 1 .. Cardinality(Places(e[1]))
             /\ Ascending(Places(e[1]))[e[2]] \in Places(e[1])
  <2>1. PICK k \in Keys : e \in {k} \X DOMAIN EntriesOf(k)
    OBVIOUS
  <2>2. e = <<e[1], e[2]>> /\ e[1] = k /\ e[2] \in DOMAIN EntriesOf(k)
    BY <2>1
  <2> QED BY <2>2, EntriesTypes
<1>3. ASSUME NEW k \in Keys, NEW n \in 1 .. Cardinality(Places(k))
      PROVE  <<k, n>> \in E
  <2>1. n \in DOMAIN EntriesOf(k)
    BY EntriesTypes
  <2>2. <<k, n>> \in {k} \X DOMAIN EntriesOf(k)
    BY <2>1
  <2> QED BY <2>2
<1> HIDE DEF E
<1>4. ASSUME NEW e \in E
      PROVE  g[e] \in Occupied /\ nodes[g[e]].key = e[1]
  <2>1. g[e] = Probed(e[1], Ascending(Places(e[1]))[e[2]])
    OBVIOUS
  <2>2. g[e] \in Buckets /\ Holds(g[e], e[1])
    BY <1>2, <2>1, PlacesFinite
  <2> QED BY <2>2 DEF Occupied, Holds
<1>5. ASSUME NEW d \in E, NEW e \in E, g[d] = g[e]
      PROVE  d = e
  <2> DEFINE k == d[1]
             P == Places(k)
  <2>1. k \in Keys /\ e[1] = k /\ d[2] \in 1 .. Cardinality(P) /\ e[2] \in 1 .. Cardinality(P)
    BY <1>2, <1>4, <1>5
  <2>2. g[d] = Probed(k, Ascending(P)[d[2]]) /\ g[e] = Probed(k, Ascending(P)[e[2]])
    BY <2>1
  <2>3. Ascending(P)[d[2]] \in Buckets /\ Ascending(P)[e[2]] \in Buckets
    BY <1>2, <2>1, PlacesFinite
  <2> HIDE DEF P
  <2>4. Ascending(P)[d[2]] = Ascending(P)[e[2]]
    BY <1>5, <2>1, <2>2, <2>3, ProbedOnce
  <2>5. P \in SUBSET Nat /\ IsFiniteSet(P) /\ Cardinality(P) \in Nat
    BY <2>1, PlacesFinite DEF P
  <2>6. Rank(P, Ascending(P)[d[2]]) = d[2] - 1 /\ Rank(P, Ascending(P)[e[2]]) = e[2] - 1
    BY <2>1, <2>5, AscendingProperties
  <2>7. d[2] = e[2]
    BY <2>1, <2>4, <2>5, <2>6
  <2> QED BY <1>2, <2>1, <2>7
<1>6. ASSUME NEW b \in Occupied
      PROVE  \E e \in E : g[e] = b
  <2> DEFINE k == nodes[b].key
             P == Places(k)
  <2>1. b \in Buckets /\ k \in Keys /\ Holds(b, k)
    BY DEF Occupied, TableOK, Holds
  <2> HIDE DEF k
  <2>2. PICK i \in Buckets : Probed(k, i) = b
    BY <2>1, ProbedOnce
  <2>3. i \in P
    BY <2>1, <2>2 DEF Places
  <2>4. P \in SUBSET Nat /\ IsFiniteSet(P) /\ Cardinality(P) \in Nat
    BY <2>1, PlacesFinite
  <2> HIDE DEF P
  <2>5. Rank(P, i) \in 0 .. Cardinality(P) - 1
    BY <2>3, <2>4, RankProperties
  <2> DEFINE n == Rank(P, i) + 1
  <2>6. n \in 1 .. Cardinality(P) /\ Rank(P, i) = n - 1
    BY <2>4, <2>5
  <2> HIDE DEF n
  <2>7. Ascending(P)[n] = i
    BY <2>3, <2>4, <2>6, AscendingProperties
  <2>8. <<k, n>> \in E
    BY <1>3, <2>1, <2>6 DEF P
  <2>9. g[<<k, n>>] = b
    BY <2>2, <2>7, <2>8 DEF P
  <2> QED BY <2>8, <2>9
<1>7. g \in [E -> Occupied]
  BY <1>4
<1>8. DOMAIN g = E
  OBVIOUS
<1> HIDE DEF g
<1>9. g \in Injection(E, Occupied) /\ g \in Surjection(E, Occupied)
  BY <1>5, <1>6, <1>7, <1>8 DEF Injection, IsInjective, Surjection
<1>10. Cardinality(E) = Cardinality(Occupied)
  BY <1>9, BucketsFinite, FS_Injection
<1> QED BY <1>1, <1>10
-----------------------------------------------------------------------------
(***************************************************************************)
(* How the operations change what is stored under a key.                   *)
(***************************************************************************)
\* Nothing changes for a key whose nodes stay and hold the same.
LEMMA EntriesStay ==
  ASSUME TableOK, TableOK', NEW k \in Keys, UNCHANGED <<node_count, jenkins_hash>>,
         Places(k)' = Places(k),
         \A i \in Places(k) : nodes'[Probed(k, i)] = nodes[Probed(k, i)]
  PROVE  EntriesOf(k)' = EntriesOf(k)
<1> DEFINE P == Places(k)
           c == Cardinality(P)
<1>1. \A i : Probed(k, i)' = Probed(k, i)
  BY DEF Probed, sh_jen_hash
<1>2. EntriesOf(k)' = [n \in 1 .. c |-> nodes'[Probed(k, Ascending(P)[n])].value]
  BY <1>1 DEF EntriesOf
<1>3. EntriesOf(k) = [n \in 1 .. c |-> nodes[Probed(k, Ascending(P)[n])].value]
  BY DEF EntriesOf
<1>4. ASSUME NEW n \in 1 .. c
      PROVE  nodes'[Probed(k, Ascending(P)[n])].value = nodes[Probed(k, Ascending(P)[n])].value
  <2>1. Ascending(P)[n] \in P
    BY PlacesFinite, AscendingProperties
  <2> QED BY <2>1
<1> HIDE DEF P, c
<1> QED BY <1>2, <1>3, <1>4

\* An add inserts one entry of its key, at the end unless there is a hole, and
\* it makes no hole.
LEMMA AddEntries ==
  ASSUME HashInv, NEW k \in Keys, NEW v \in Values, sh_hash_add(k, v)
  PROVE  /\ \A l \in Keys \ {k} : EntriesOf(l)' = EntriesOf(l)
         /\ \E p \in 1 .. Len(EntriesOf(k)) + 1 :
              /\ EntriesOf(k)' = InsertAt(EntriesOf(k), p, v)
              /\ Unbroken => p = Len(EntriesOf(k)) + 1
         /\ Unbroken => Unbroken'
<1> DEFINE N == [is_exist |-> TRUE, key |-> k, value |-> v]
<1>1. PICK f \in Buckets :
        /\ TableOK' /\ Buckets' = Buckets
        /\ ~nodes[Probed(k, f)].is_exist
        /\ \A j \in 0 .. f - 1 : nodes[Probed(k, j)].is_exist
        /\ \A b \in Buckets : nodes'[b] = IF b = Probed(k, f) THEN N ELSE nodes[b]
  BY AddSteps
<1>2. TableOK /\ UNCHANGED <<node_count, jenkins_hash>>
  BY DEF HashInv, sh_hash_add
<1>3. \A l, i : Probed(l, i)' = Probed(l, i)
  BY <1>2 DEF Probed, sh_jen_hash
<1>4. Probed(k, f) \in Buckets
  BY <1>2, ProbedOnce
<1>5. N.is_exist /\ N.key = k /\ N.value = v
  OBVIOUS
<1> HIDE DEF N
<1>6. ASSUME NEW l \in Keys \ {k}
      PROVE  EntriesOf(l)' = EntriesOf(l)
  <2>1. ASSUME NEW i \in Buckets PROVE Holds(Probed(l, i), l)' <=> Holds(Probed(l, i), l)
    <3>1. Probed(l, i) \in Buckets
      BY <1>2, ProbedOnce
    <3> QED BY <1>1, <1>3, <1>5, <3>1 DEF Holds
  <2>2. Places(l)' = Places(l)
    BY <1>1, <2>1 DEF Places
  <2>3. ASSUME NEW i \in Places(l) PROVE nodes'[Probed(l, i)] = nodes[Probed(l, i)]
    <3>1. Probed(l, i) \in Buckets /\ nodes[Probed(l, i)].is_exist
      BY <1>2, PlacesFinite DEF Holds
    <3> QED BY <1>1, <3>1
  <2> QED BY <1>1, <1>2, <2>2, <2>3, EntriesStay
<1> DEFINE P == Places(k)
           Q == Places(k)'
           r == Rank(P, f)
           s == EntriesOf(k)
           t == InsertAt(s, r + 1, v)
<1>7. f \in Nat \ P /\ Q = P \cup {f}
  <2>1. f \notin P /\ f \in Nat
    BY <1>1, <1>2, BucketsFinite DEF Places, Holds
  <2>2. ASSUME NEW i \in Buckets, i # f
        PROVE  Holds(Probed(k, i), k)' <=> Holds(Probed(k, i), k)
    <3>1. Probed(k, i) \in Buckets /\ Probed(k, i) # Probed(k, f)
      BY <1>2, <2>2, ProbedOnce
    <3> QED BY <1>1, <1>3, <3>1 DEF Holds
  <2>3. Holds(Probed(k, f), k)'
    BY <1>1, <1>3, <1>4, <1>5 DEF Holds
  <2> QED BY <1>1, <2>1, <2>2, <2>3 DEF Places
<1>8. /\ P \in SUBSET Nat /\ IsFiniteSet(P) /\ Cardinality(P) \in Nat
      /\ \A i \in P : i \in Buckets /\ Probed(k, i) \in Buckets /\ nodes[Probed(k, i)].is_exist
  BY <1>2, PlacesFinite DEF Holds
<1>9. /\ s \in Seq(Kept) /\ Len(s) = Cardinality(P)
      /\ \A n \in 1 .. Cardinality(P) :
           Ascending(P)[n] \in P /\ s[n] = nodes[Probed(k, Ascending(P)[n])].value
  BY <1>2, EntriesTypes
<1>10. /\ EntriesOf(k)' \in Seq(Kept) /\ Len(EntriesOf(k)') = Cardinality(Q)
       /\ \A n \in 1 .. Cardinality(Q) :
            EntriesOf(k)'[n] = nodes'[Probed(k, Ascending(Q)[n])].value
  BY <1>1, <1>3, EntriesTypesNext DEF EntriesOK
<1>11. Cardinality(Q) = Cardinality(P) + 1 /\ r \in 0 .. Cardinality(P)
  BY <1>7, <1>8, AscendingInsert, RankProperties
<1>12. v \in Kept
  BY DEF Kept
<1>13. /\ t \in Seq(Kept) /\ Len(t) = Len(s) + 1
       /\ \A n \in 1 .. Len(s) + 1 :
            t[n] = IF n < r + 1 THEN s[n] ELSE IF n = r + 1 THEN v ELSE s[n - 1]
  <2> DEFINE p == r + 1
             u == InsertAt(s, p, v)
  <2>1. p \in 1 .. Len(s) + 1
    BY <1>8, <1>9, <1>11
  <2>2. s \in Seq(Kept)
    BY <1>9
  <2> HIDE DEF s, p
  <2>3. /\ u \in Seq(Kept) /\ Len(u) = Len(s) + 1
        /\ \A n \in 1 .. Len(s) + 1 :
             u[n] = IF n < p THEN s[n] ELSE IF n = p THEN v ELSE s[n - 1]
    BY <1>12, <2>1, <2>2, InsertAtProperties
  <2>4. t = u /\ p = r + 1
    BY DEF p
  <2> HIDE DEF t, u
  <2> QED BY <2>3, <2>4
<1>14. ASSUME NEW n \in 1 .. Cardinality(P) + 1
       PROVE  EntriesOf(k)'[n] = t[n]
  <2> DEFINE i == Ascending(Q)[n]
  <2>1. i = IF n < r + 1 THEN Ascending(P)[n] ELSE IF n = r + 1 THEN f ELSE Ascending(P)[n - 1]
    <3> HIDE DEF P, Q
    <3> QED BY <1>7, <1>8, AscendingInsert
  <2>2. EntriesOf(k)'[n] = nodes'[Probed(k, i)].value
    BY <1>10, <1>11
  <2>3. t[n] = IF n < r + 1 THEN s[n] ELSE IF n = r + 1 THEN v ELSE s[n - 1]
    BY <1>9, <1>13
  <2>4. \A j \in P : nodes'[Probed(k, j)] = nodes[Probed(k, j)]
    BY <1>1, <1>8
  <2> HIDE DEF i, t, s, P, Q
  <2>5. CASE n < r + 1
    <3>1. n \in 1 .. Cardinality(P)
      BY <1>8, <1>11, <2>5
    <3> QED BY <1>9, <2>1, <2>2, <2>3, <2>4, <2>5, <3>1
  <2>6. CASE n = r + 1
    <3>1. i = f /\ t[n] = v
      BY <1>11, <2>1, <2>3, <2>6
    <3>2. nodes'[Probed(k, f)] = N
      BY <1>1, <1>4
    <3> QED BY <1>5, <2>2, <3>1, <3>2
  <2>7. CASE n > r + 1
    <3>1. n - 1 \in 1 .. Cardinality(P) /\ ~(n < r + 1) /\ n # r + 1
      BY <1>8, <1>11, <2>7
    <3>2. i = Ascending(P)[n - 1] /\ t[n] = s[n - 1]
      BY <2>1, <2>3, <3>1
    <3> QED BY <1>9, <2>2, <2>4, <3>1, <3>2
  <2>8. n < r + 1 \/ n = r + 1 \/ n > r + 1
    BY <1>8, <1>11
  <2> QED BY <2>5, <2>6, <2>7, <2>8
<1>15. EntriesOf(k)' = t
  <2> DEFINE e == EntriesOf(k)'
  <2>1. e \in Seq(Kept) /\ Len(e) = Len(t) /\ \A n \in 1 .. Len(e) : e[n] = t[n]
    BY <1>9, <1>10, <1>11, <1>13, <1>14
  <2>2. t \in Seq(Kept)
    BY <1>13
  <2> HIDE DEF e, t
  <2>3. e = t
    BY <2>1, <2>2, SameEntries
  <2> QED BY <2>3 DEF e
\* Without holes the free bucket is behind all nodes of k.
<1>16. ASSUME Unbroken
       PROVE  r = Cardinality(P)
  <2>1. ASSUME NEW i \in P PROVE i < f
    <3>1. i \in Buckets /\ Holds(Probed(k, i), k) /\ i # f
      BY <1>7 DEF Places
    <3>2. \A j \in 0 .. i - 1 : nodes[Probed(k, j)].is_exist
      BY <1>16, <3>1 DEF Unbroken
    <3>3. f \notin 0 .. i - 1
      BY <1>1, <3>2
    <3>4. i \in Nat /\ f \in Nat
      BY <1>7, <1>8
    <3> QED BY <3>1, <3>3, <3>4
  <2>2. Below(P, f) = P
    BY <2>1 DEF Below
  <2> QED BY <2>2 DEF Rank
<1>17. ASSUME Unbroken
       PROVE  Unbroken'
  <2>1. ASSUME NEW b \in Buckets, nodes[b].is_exist PROVE nodes'[b].is_exist
    BY <1>1, <1>5, <2>1
  <2>2. ASSUME NEW l \in Keys, NEW i \in Buckets, Holds(Probed(l, i), l)',
               NEW j \in 0 .. i - 1
        PROVE  nodes'[Probed(l, j)].is_exist
    <3>1. j \in Buckets
      <4>1. node_count \in Nat
        BY <1>2, CountNat
      <4> QED BY <4>1 DEF Buckets
    <3>2. Probed(l, j) \in Buckets /\ Probed(l, i) \in Buckets
      BY <1>2, <3>1, ProbedOnce
    <3>3. CASE Probed(l, i) = Probed(k, f)
      <4>1. nodes'[Probed(l, i)] = N
        BY <1>1, <3>2, <3>3
      <4>2. l = k
        BY <1>3, <1>5, <2>2, <4>1 DEF Holds
      <4>3. i = f
        BY <1>2, <3>3, <4>2, ProbedOnce
      <4>4. nodes[Probed(l, j)].is_exist
        BY <1>1, <4>2, <4>3
      <4> QED BY <2>1, <3>2, <4>4
    <3>4. CASE Probed(l, i) # Probed(k, f)
      <4>1. Holds(Probed(l, i), l)
        BY <1>1, <1>3, <2>2, <3>2, <3>4 DEF Holds
      <4>2. nodes[Probed(l, j)].is_exist
        BY <1>17, <4>1 DEF Unbroken
      <4> QED BY <2>1, <3>2, <4>2
    <3> QED BY <3>3, <3>4
  <2> QED BY <1>1, <1>3, <2>2 DEF Unbroken
<1>18. r + 1 \in 1 .. Len(s) + 1 /\ (Unbroken => r + 1 = Len(s) + 1)
  BY <1>8, <1>9, <1>11, <1>16
<1> QED BY <1>6, <1>15, <1>17, <1>18

\* A removal takes out the first entry of its key.
LEMMA RemoveEntries ==
  ASSUME HashInv, NEW k \in Keys, sh_hash_remove(k)
  PROVE  /\ \A l \in Keys \ {k} : EntriesOf(l)' = EntriesOf(l)
         /\ EntriesOf(k) # <<>> /\ EntriesOf(k)' = Tail(EntriesOf(k))
<1>1. PICK f \in Places(k) :
        /\ TableOK' /\ Buckets' = Buckets
        /\ \A j \in Places(k) : f <= j
        /\ \A b \in Buckets : nodes'[b] = IF b = Probed(k, f) THEN Zeroed ELSE nodes[b]
  BY RemoveSteps
<1>2. TableOK /\ UNCHANGED <<node_count, jenkins_hash>>
  BY DEF HashInv, sh_hash_remove
<1>3. \A l, i : Probed(l, i)' = Probed(l, i)
  BY <1>2 DEF Probed, sh_jen_hash
<1>4. f \in Buckets /\ Probed(k, f) \in Buckets /\ Holds(Probed(k, f), k)
  BY <1>2, PlacesFinite
<1>5. ~Zeroed.is_exist
  BY DEF Zeroed
<1>6. ASSUME NEW l \in Keys \ {k}
      PROVE  EntriesOf(l)' = EntriesOf(l)
  <2>1. ASSUME NEW i \in Buckets
        PROVE  Holds(Probed(l, i), l)' <=> Holds(Probed(l, i), l)
    <3>1. Probed(l, i) \in Buckets
      BY <1>2, ProbedOnce
    <3> QED BY <1>1, <1>3, <1>4, <1>5, <3>1 DEF Holds
  <2>2. Places(l)' = Places(l)
    BY <1>1, <2>1 DEF Places
  <2>3. ASSUME NEW i \in Places(l) PROVE nodes'[Probed(l, i)] = nodes[Probed(l, i)]
    <3>1. Probed(l, i) \in Buckets /\ Holds(Probed(l, i), l)
      BY <1>2, PlacesFinite
    <3> QED BY <1>1, <1>4, <3>1 DEF Holds
  <2> QED BY <1>1, <1>2, <2>2, <2>3, EntriesStay
<1> DEFINE P == Places(k)
           Q == Places(k)'
           s == EntriesOf(k)
           e == EntriesOf(k)'
           c == Cardinality(Q)
<1>7. f \in Nat \ Q /\ P = Q \cup {f}
  <2>1. f \in Nat
    BY <1>2, <1>4, BucketsFinite
  <2>2. ASSUME NEW i \in Buckets, i # f
        PROVE  Holds(Probed(k, i), k)' <=> Holds(Probed(k, i), k)
    <3>1. Probed(k, i) \in Buckets /\ Probed(k, i) # Probed(k, f)
      BY <1>2, <1>4, <2>2, ProbedOnce
    <3> QED BY <1>1, <1>3, <3>1 DEF Holds
  <2>3. ~Holds(Probed(k, f), k)'
    BY <1>1, <1>3, <1>4, <1>5 DEF Holds
  <2> QED BY <1>1, <1>4, <2>1, <2>2, <2>3 DEF Places
<1>8. /\ P \in SUBSET Nat /\ IsFiniteSet(P)
      /\ \A i \in P : i \in Buckets /\ Probed(k, i) \in Buckets
  BY <1>2, PlacesFinite
<1>9. Q \in SUBSET Nat /\ IsFiniteSet(Q) /\ c \in Nat
  <2>1. Q \in SUBSET P
    BY <1>7
  <2> HIDE DEF P, Q
  <2> QED BY <1>8, <2>1, FS_Subset, FS_CardinalityType
<1>10. /\ s \in Seq(Kept) /\ Len(s) = Cardinality(P)
       /\ \A n \in 1 .. Cardinality(P) : s[n] = nodes[Probed(k, Ascending(P)[n])].value
  BY <1>2, EntriesTypes
<1>11. /\ e \in Seq(Kept) /\ Len(e) = c
       /\ \A n \in 1 .. c :
            Ascending(Q)[n] \in Q /\ e[n] = nodes'[Probed(k, Ascending(Q)[n])].value
  BY <1>1, <1>3, EntriesTypesNext DEF EntriesOK
<1> HIDE DEF P, Q
<1>12. Rank(Q, f) = 0
  <2>1. ASSUME NEW j \in Below(Q, f) PROVE FALSE
    <3>1. j \in P /\ j < f /\ j \in Nat /\ f \in Nat
      BY <1>7, <1>8 DEF Below
    <3>2. f <= j
      BY <1>1, <3>1 DEF P
    <3> QED BY <3>1, <3>2
  <2>2. Below(Q, f) = {}
    BY <2>1
  <2> QED BY <2>2, FS_EmptySet DEF Rank
<1>13. /\ Cardinality(P) = c + 1
       /\ \A n \in 1 .. c + 1 :
            Ascending(P)[n] = IF n < 0 + 1 THEN Ascending(Q)[n]
                              ELSE IF n = 0 + 1 THEN f ELSE Ascending(Q)[n - 1]
  BY <1>7, <1>9, <1>12, AscendingInsert
<1> HIDE DEF c, s, e
<1>14. ASSUME NEW n \in 1 .. c
       PROVE  s[n + 1] = e[n]
  <2>1. n + 1 \in 1 .. c + 1 /\ ~(n + 1 < 0 + 1) /\ n + 1 # 0 + 1 /\ (n + 1) - 1 = n
    BY <1>9
  <2>2. Ascending(P)[n + 1] = Ascending(Q)[n]
    BY <1>13, <2>1
  <2> DEFINE i == Ascending(Q)[n]
  <2>3. i \in Q /\ i \in P /\ i # f /\ e[n] = nodes'[Probed(k, i)].value
    BY <1>7, <1>11
  <2>4. s[n + 1] = nodes[Probed(k, i)].value
    BY <1>10, <1>13, <2>1, <2>2
  <2> HIDE DEF i
  <2>5. i \in Buckets /\ Probed(k, i) \in Buckets /\ Probed(k, i) # Probed(k, f)
    BY <1>2, <1>4, <1>8, <2>3, ProbedOnce
  <2>6. nodes'[Probed(k, i)] = nodes[Probed(k, i)]
    BY <1>1, <2>5
  <2> QED BY <2>3, <2>4, <2>6
<1>15. s # <<>> /\ e = Tail(s)
  <2>1. Len(s) = c + 1 /\ s # <<>>
    BY <1>9, <1>10, <1>13
  <2>2. Tail(s) \in Seq(Kept) /\ Len(Tail(s)) = c /\ \A n \in 1 .. c : Tail(s)[n] = s[n + 1]
    BY <1>9, <1>10, <2>1, HeadTailProperties
  <2> DEFINE t == Tail(s)
  <2>3. t \in Seq(Kept) /\ Len(e) = Len(t) /\ \A n \in 1 .. Len(e) : e[n] = t[n]
    BY <1>11, <1>14, <2>2
  <2> HIDE DEF t
  <2>4. e = t
    BY <1>11, <2>3, SameEntries
  <2> QED BY <2>1, <2>4 DEF t
<1> QED BY <1>6, <1>15 DEF s, e
-----------------------------------------------------------------------------
(***************************************************************************)
(* The dictionary that the table implements.                               *)
(***************************************************************************)
Stored == [k \in Keys |-> EntriesOf(k)]

Blank == \A b \in Buckets : nodes[b] = Zeroed

LEMMA BlankTable ==
  TableOK /\ Blank => Stored = [k \in Keys |-> <<>>] /\ Unbroken
<1> SUFFICES ASSUME TableOK, Blank
             PROVE  Stored = [k \in Keys |-> <<>>] /\ Unbroken
  OBVIOUS
<1>1. ASSUME NEW k \in Keys, NEW i \in Buckets
      PROVE  ~Holds(Probed(k, i), k)
  BY ProbedOnce DEF Blank, Zeroed, Holds
<1>2. ASSUME NEW k \in Keys
      PROVE  EntriesOf(k) = <<>>
  <2>1. Places(k) = {}
    BY <1>1 DEF Places
  <2>2. Cardinality(Places(k)) = 0
    BY <2>1, FS_EmptySet
  <2>3. EntriesOf(k) \in Seq(Kept) /\ Len(EntriesOf(k)) = 0
    BY <2>2, EntriesTypes
  <2> QED BY <2>3
<1>3. Unbroken
  BY <1>1 DEF Unbroken
<1> QED BY <1>2, <1>3 DEF Stored

LEMMA BlankTableNext ==
  TableOK' /\ Blank' => Stored' = [k \in Keys |-> <<>>] /\ Unbroken'
<1>1. (TableOK /\ Blank)' => (Stored = [k \in Keys |-> <<>>] /\ Unbroken)'
  BY BlankTable, PTL
<1> QED BY <1>1

\* What is stored depends on the nodes only.
LEMMA StoredUnchanged ==
  ASSUME UNCHANGED <<nodes, node_count, jenkins_hash>>
  PROVE  Stored' = Stored /\ (Unbroken' <=> Unbroken)
<1>1. Buckets' = Buckets
  BY DEF Buckets
<1>2. \A k, i : Probed(k, i)' = Probed(k, i)
  BY DEF Probed, sh_jen_hash
<1>3. \A k, i : Holds(Probed(k, i), k)' <=> Holds(Probed(k, i), k)
  BY <1>2 DEF Holds
<1>4. Unbroken' <=> Unbroken
  BY <1>1, <1>2, <1>3 DEF Unbroken
<1>5. ASSUME NEW k \in Keys
      PROVE  EntriesOf(k)' = EntriesOf(k)
  <2>1. Places(k)' = Places(k)
    BY <1>1, <1>3 DEF Places
  <2> QED BY <1>2, <2>1 DEF EntriesOf
<1> QED BY <1>4, <1>5 DEF Stored

LEMMA DictionaryStarts == HashInit => Dict!DictionaryInit
<1> SUFFICES ASSUME HashInit
             PROVE  Dict!DictionaryInit
  OBVIOUS
<1>1. TableOK /\ Blank
  <2>1. TableOK
    BY HashInvInit DEF HashInv
  <2>2. Buckets = {}
    BY DEF HashInit, Buckets
  <2> QED BY <2>1, <2>2 DEF Blank
<1>2. Stored = [k \in Keys |-> <<>>] /\ Unbroken
  BY <1>1, BlankTable
<1>3. Unbroken = TRUE
  BY <1>2
<1> QED BY <1>2, <1>3 DEF HashInit, Stored, Dict!DictionaryInit, Dict!NoEntries

LEMMA CreateOpens ==
  ASSUME HashInv, HashInv', NEW size \in Tables, sh_hash_create(size)
  PROVE  Dict!Open
<1>1. TableOK /\ Blank
  <2>1. Buckets = {}
    BY DEF sh_hash_create, Buckets
  <2> QED BY <2>1 DEF HashInv, Blank
<1>2. TableOK' /\ Blank'
  BY DEF HashInv, sh_hash_create, Blank, Buckets
<1>3. Stored' = Stored /\ Unbroken /\ Unbroken'
  BY <1>1, <1>2, BlankTable, BlankTableNext
<1>4. Unbroken' = Unbroken
  BY <1>3
<1>5. node_count = 0 /\ node_count' \in Nat \ {0} /\ answer' = answer
  BY HashAssumption DEF sh_hash_create
<1> QED BY <1>3, <1>4, <1>5 DEF Stored, Dict!Open

LEMMA DestroyCloses ==
  ASSUME HashInv, HashInv', sh_hash_destroy
  PROVE  Dict!Close
<1>1. TableOK' /\ Blank'
  <2>1. Buckets' = {}
    BY DEF sh_hash_destroy, Buckets
  <2> QED BY <2>1 DEF HashInv, Blank
<1>2. Stored' = [k \in Keys |-> <<>>] /\ Unbroken'
  BY <1>1, BlankTableNext
<1>3. Unbroken' = TRUE
  BY <1>2
<1> QED BY <1>2, <1>3 DEF sh_hash_destroy, Stored, Dict!Close, Dict!NoEntries

LEMMA ClearEmpties ==
  ASSUME HashInv, HashInv', sh_hash_clear
  PROVE  Dict!Empty
<1>1. TableOK' /\ Blank'
  BY DEF HashInv, sh_hash_clear, Blank, Buckets
<1>2. Stored' = [k \in Keys |-> <<>>] /\ Unbroken'
  BY <1>1, BlankTableNext
<1>3. Unbroken' = TRUE
  BY <1>2
<1> QED BY <1>2, <1>3 DEF sh_hash_clear, Stored, Dict!Empty, Dict!NoEntries

LEMMA RefusedWhenFull ==
  ASSUME HashInv, NEW k \in Keys, AddFull(k)
  PROVE  Dict!Refuse(k)
<1>1. Dict!Total = node_count
  <2>1. TableOK /\ used = Cardinality(Occupied) /\ used >= node_count
    BY DEF HashInv, AddFull
  <2>2. Cardinality(Occupied) \in 0 .. node_count /\ node_count \in Nat
    BY <2>1, BucketsFinite, CountNat
  <2> QED BY <2>1, <2>2, TotalIsUsed
<1>2. Stored' = Stored /\ (Unbroken' <=> Unbroken)
  BY StoredUnchanged DEF AddFull
<1>3. Unbroken' = Unbroken
  BY <1>2 DEF Unbroken
<1> QED BY <1>1, <1>2, <1>3 DEF AddFull, Returns, Stored, Dict!Refuse, Dict!Answer

LEMMA AddInserts ==
  ASSUME HashInv, NEW k \in Keys, NEW v \in Values, sh_hash_add(k, v)
  PROVE  Dict!Insert(k, v)
<1>1. Dict!Total < node_count
  BY TotalIsUsed DEF HashInv, sh_hash_add
<1>2. PICK p \in 1 .. Len(EntriesOf(k)) + 1 :
        /\ EntriesOf(k)' = InsertAt(EntriesOf(k), p, v)
        /\ Unbroken => p = Len(EntriesOf(k)) + 1
  BY AddEntries
<1>3. \A l \in Keys \ {k} : EntriesOf(l)' = EntriesOf(l)
  BY AddEntries
<1>4. Unbroken => Unbroken'
  BY AddEntries
<1>5. Stored[k] = EntriesOf(k) /\ Stored' = [Stored EXCEPT ![k] = InsertAt(Stored[k], p, v)]
  BY <1>2, <1>3 DEF Stored
<1>6. Stored' = [Stored EXCEPT ![k] = Dict!InsertAt(@, p, v)]
  BY <1>5 DEF InsertAt, Dict!InsertAt
<1>7. p \in 1 .. Len(Stored[k]) + 1 /\ (Unbroken => p = Len(Stored[k]) + 1)
  BY <1>2, <1>5
<1>8. Unbroken => Unbroken' = TRUE
  BY <1>4
<1>9. Dict!Answer("add", k, TRUE, NULL) /\ node_count' = node_count
  BY DEF sh_hash_add, Returns, Dict!Answer
<1> QED BY <1>1, <1>6, <1>7, <1>8, <1>9 DEF Stored, Dict!Insert

LEMMA RemoveTakesOut ==
  ASSUME HashInv, NEW k \in Keys, sh_hash_remove(k)
  PROVE  Dict!TakeOut(k)
<1>1. EntriesOf(k) # <<>> /\ EntriesOf(k)' = Tail(EntriesOf(k))
  BY RemoveEntries
<1>2. \A l \in Keys \ {k} : EntriesOf(l)' = EntriesOf(l)
  BY RemoveEntries
<1>3. Stored[k] # <<>> /\ Stored' = [Stored EXCEPT ![k] = Tail(@)]
  BY <1>1, <1>2 DEF Stored
<1> QED BY <1>3 DEF sh_hash_remove, Stored, Dict!TakeOut

\* The two lookups.
LEMMA Lookup ==
  ASSUME HashInv, NEW k \in Keys
  PROVE  /\ Found(k) => Stored[k] # <<>> /\ Head(Stored[k]) = nodes[IndexOf(k)].value
         /\ ~Found(k) /\ Unbroken => Stored[k] = <<>>
<1>1. TableOK /\ Stored[k] = EntriesOf(k)
  BY DEF HashInv, Stored
<1>2. ASSUME Found(k)
      PROVE  Stored[k] # <<>> /\ Head(Stored[k]) = nodes[IndexOf(k)].value
  <2>1. PICK i \in Places(k) : IndexOf(k) = Probed(k, i) /\ \A j \in Places(k) : i <= j
    BY <1>1, <1>2, FoundPlace
  <2> QED BY <1>1, <2>1, FirstEntry
<1>3. ASSUME ~Found(k), Unbroken
      PROVE  Stored[k] = <<>>
  BY <1>1, <1>3, FoundUnlessHole
<1> QED BY <1>2, <1>3

LEMMA FindFinds ==
  ASSUME HashInv, NEW k \in Keys, sh_hash_find(k) \/ sh_hash_is_key_exist(k)
  PROVE  Dict!Find(k)
<1>1. Stored' = Stored /\ (Unbroken' <=> Unbroken) /\ node_count' = node_count
  BY StoredUnchanged DEF sh_hash_find, sh_hash_is_key_exist
<1>2. Unbroken' = Unbroken
  BY <1>1 DEF Unbroken
<1>3. ~Found(k) => Dict!Overlooked(k)
  BY Lookup DEF Stored, Dict!Overlooked
<1>4. \/ Stored[k] # <<>> /\ Dict!Answer("find", k, TRUE, Head(Stored[k]))
      \/ Stored[k] # <<>> /\ Dict!Answer("exist", k, TRUE, NULL)
      \/ Dict!Overlooked(k) /\ \E call \in {"find", "exist"} : Dict!Answer(call, k, FALSE, NULL)
  <2>1. CASE sh_hash_find(k) /\ Found(k)
    BY <2>1, Lookup DEF sh_hash_find, Returns, Dict!Answer
  <2>2. CASE sh_hash_find(k) /\ ~Found(k)
    BY <1>3, <2>2 DEF sh_hash_find, Returns, Dict!Answer
  <2>3. CASE sh_hash_is_key_exist(k) /\ Found(k)
    <3>1. Found(k) = TRUE
      BY <2>3 DEF Found
    <3> QED BY <2>3, <3>1, Lookup DEF sh_hash_is_key_exist, Returns, Dict!Answer
  <2>4. CASE sh_hash_is_key_exist(k) /\ ~Found(k)
    <3>1. Found(k) = FALSE
      BY <2>4 DEF Found
    <3> QED BY <1>3, <2>4, <3>1 DEF sh_hash_is_key_exist, Returns, Dict!Answer
  <2> QED BY <2>1, <2>2, <2>3, <2>4
<1> QED BY <1>1, <1>2, <1>4 DEF Stored, Dict!Find

\* Every step of the table is one of the dictionary, or leaves it alone.
LEMMA DictionarySteps ==
  HashInv /\ HashInv' /\ [HashNext]_hashVars => [Dict!DictionaryNext]_(Dict!dictionaryVars)
<1> SUFFICES ASSUME HashInv, HashInv', [HashNext]_hashVars
             PROVE  [Dict!DictionaryNext]_(Dict!dictionaryVars)
  OBVIOUS
<1>1. CASE sh_hash_destroy
  BY <1>1, DestroyCloses DEF Dict!DictionaryNext
<1>2. CASE sh_hash_clear
  BY <1>2, ClearEmpties DEF Dict!DictionaryNext
<1>3. ASSUME NEW size \in Tables, sh_hash_create(size)
      PROVE  Dict!DictionaryNext
  BY <1>3, CreateOpens DEF Dict!DictionaryNext
<1>4. ASSUME NEW k \in Keys, sh_hash_find(k) \/ sh_hash_is_key_exist(k)
      PROVE  Dict!DictionaryNext
  BY <1>4, FindFinds DEF Dict!DictionaryNext
<1>5. ASSUME NEW k \in Keys, sh_hash_remove(k)
      PROVE  Dict!DictionaryNext
  BY <1>5, RemoveTakesOut DEF Dict!DictionaryNext
<1>6. ASSUME NEW k \in Keys, AddFull(k)
      PROVE  Dict!DictionaryNext
  BY <1>6, RefusedWhenFull DEF Dict!DictionaryNext
<1>7. ASSUME NEW k \in Keys, NEW v \in Values, sh_hash_add(k, v)
      PROVE  Dict!DictionaryNext
  BY <1>7, AddInserts DEF Dict!DictionaryNext
<1>8. CASE UNCHANGED hashVars
  <2>1. /\ UNCHANGED <<nodes, node_count, jenkins_hash>>
        /\ answer' = answer
    BY <1>8 DEF hashVars
  <2>2. Stored' = Stored /\ (Unbroken' <=> Unbroken)
    BY <2>1, StoredUnchanged
  <2>3. Unbroken' = Unbroken
    BY <2>2 DEF Unbroken
  <2> QED BY <2>1, <2>2, <2>3 DEF Stored, Dict!dictionaryVars
<1> QED BY <1>1, <1>2, <1>3, <1>4, <1>5, <1>6, <1>7, <1>8 DEF HashNext

(***************************************************************************)
(* The hash table implements the dictionary, for every size and every hash *)
(* function: an add appends the value to those of its key unless a removal *)
(* left a hole, a lookup gives the first value and misses none unless      *)
(* there is a hole, and a removal takes out the first value and disturbs   *)
(* no other (sh_hash_add, sh_hash_find, sh_hash_remove).                   *)
(***************************************************************************)
THEOREM HashIsDictionary == HashSpec => IsDictionary
<1> QED BY HashInvAlways, DictionaryStarts, DictionarySteps, PTL
        DEF HashSpec, IsDictionary, Dict!DictionarySpec
=============================================================================
