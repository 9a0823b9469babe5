------------------------------- MODULE ShHash -------------------------------
(***************************************************************************)
(* The hash table of sh_lib, Src/sh_hash.c: open addressing with linear    *)
(* probing in a fixed array.  A key may be added more than once, and       *)
(* removal zeroes the node, which leaves a hole in the probe chains that   *)
(* pass through it.                                                        *)
(***************************************************************************)
EXTENDS Naturals, SequencesExt

CONSTANTS Keys,    \* the strings used as keys
          Values,  \* the values, void* in the code
          Hashes,  \* what jenkins_hash may return
          Tables,  \* the sizes given to sh_hash_create
          NULL     \* of a node that was zeroed

\* The hash is taken modulo the size, which must not be 0.
ASSUME HashAssumption ==
  /\ Hashes \subseteq Nat /\ Tables \subseteq Nat \ {0}
  /\ NULL \notin Keys

VARIABLES nodes,        \* hash->nodes
          node_count,   \* hash->node_count, 0 while there is no table
          used,         \* hash->used
          jenkins_hash, \* the hash of each key
          answer        \* the last call, its key, if it returned 0, its *value

hashVars == <<nodes, node_count, used, jenkins_hash, answer>>

HashNode == [is_exist : BOOLEAN, key : Keys \cup {NULL}, value : Values \cup {NULL}]

Zeroed == [is_exist |-> FALSE, key |-> NULL, value |-> NULL]

Buckets == 0 .. node_count - 1

\* Any function may be the hash function: every outcome of collisions.
HashInit ==
  /\ nodes = <<>> /\ node_count = 0 /\ used = 0
  /\ jenkins_hash \in [Keys -> Hashes]
  /\ answer = [call |-> "none", key |-> NULL, ok |-> FALSE, value |-> NULL]
-----------------------------------------------------------------------------
sh_jen_hash(k) == jenkins_hash[k] % node_count

\* The bucket reached from the home of k after i times sh_hash_get_next_index.
Probed(k, i) == (sh_jen_hash(k) + i) % node_count

Holds(b, k) == nodes[b].is_exist /\ nodes[b].key = k

\* Mutant: only the home bucket of the key is looked at.
index_at_home(k, i) == i = 0 /\ Holds(Probed(k, i), k)

\* sh_hash_find_index stops with success at the i-th bucket it looks at.
sh_hash_find_index(k, i) ==
  /\ Holds(Probed(k, i), k)
  /\ \A j \in 0 .. i - 1 :
       nodes[Probed(k, j)].is_exist /\ ~Holds(Probed(k, j), k)

Found(k) == \E i \in Buckets : sh_hash_find_index(k, i)

IndexOf(k) == Probed(k, CHOOSE i \in Buckets : sh_hash_find_index(k, i))

\* The first bucket from the home of k on that is free.
FreeIndex(k) ==
  Probed(k, CHOOSE i \in Buckets :
              /\ ~nodes[Probed(k, i)].is_exist
              /\ \A j \in 0 .. i - 1 : nodes[Probed(k, j)].is_exist)

Returns(call, k, ok, v) == answer' = [call |-> call, key |-> k, ok |-> ok, value |-> v]
-----------------------------------------------------------------------------
\* When malloc fails what was allocated is freed and nothing changes.
sh_hash_create(size) ==
  /\ node_count = 0
  /\ node_count' = size
  /\ nodes' = [b \in 0 .. size - 1 |-> Zeroed] /\ used' = 0
  /\ UNCHANGED <<jenkins_hash, answer>>

sh_hash_destroy ==
  /\ node_count # 0
  /\ node_count' = 0 /\ nodes' = <<>> /\ used' = 0
  /\ UNCHANGED <<jenkins_hash, answer>>

AddFull(k) ==
  /\ node_count # 0 /\ used >= node_count
  /\ Returns("add", k, FALSE, NULL)
  /\ UNCHANGED <<nodes, node_count, used, jenkins_hash>>

sh_hash_add(k, v) ==
  /\ used < node_count
  /\ nodes' = [nodes EXCEPT ![FreeIndex(k)] =
                 [is_exist |-> TRUE, key |-> k, value |-> v]]
  /\ used' = used + 1
  /\ Returns("add", k, TRUE, NULL)
  /\ UNCHANGED <<node_count, jenkins_hash>>

sh_hash_find(k) ==
  /\ node_count # 0
  /\ \/ Found(k) /\ Returns("find", k, TRUE, nodes[IndexOf(k)].value)
     \/ ~Found(k) /\ Returns("find", k, FALSE, NULL)
  /\ UNCHANGED <<nodes, node_count, used, jenkins_hash>>

sh_hash_is_key_exist(k) ==
  /\ node_count # 0
  /\ Returns("exist", k, Found(k), NULL)
  /\ UNCHANGED <<nodes, node_count, used, jenkins_hash>>

sh_hash_clear ==
  /\ node_count # 0
  /\ nodes' = [b \in Buckets |-> Zeroed] /\ used' = 0
  /\ UNCHANGED <<node_count, jenkins_hash, answer>>

\* Mutant: a key that is not found is counted too.
remove_counted(k) ==
  /\ node_count # 0
  /\ nodes' = IF Found(k) THEN [nodes EXCEPT ![IndexOf(k)] = Zeroed] ELSE nodes
  /\ used'  = used - (IF used > 0 THEN 1 ELSE 0)
  /\ UNCHANGED <<node_count, jenkins_hash, answer>>

sh_hash_remove(k) ==
  /\ Found(k)
  /\ nodes' = [nodes EXCEPT ![IndexOf(k)] = Zeroed]
  /\ used'  = used - (IF used > 0 THEN 1 ELSE 0)
  /\ UNCHANGED <<node_count, jenkins_hash, answer>>
-----------------------------------------------------------------------------
HashNext ==
  \/ sh_hash_destroy \/ sh_hash_clear
  \/ \E size \in Tables : sh_hash_create(size)
  \/ \E k \in Keys : \/ sh_hash_find(k) \/ sh_hash_is_key_exist(k)
                     \/ sh_hash_remove(k) \/ AddFull(k)
                     \/ \E v \in Values : sh_hash_add(k, v)

HashSpec == HashInit /\ [][HashNext]_hashVars
-----------------------------------------------------------------------------
Occupied == {b \in Buckets : nodes[b].is_exist}

(***************************************************************************)
(* sh_hash_get_used_amount tells the number of nodes in use, whatever is   *)
(* added and removed; so sh_hash_add, which looks for a free node without  *)
(* a limit, always finds one when it does not refuse, and it refuses only  *)
(* when all nodes are in use (sh_hash_add, sh_hash_remove, sh_hash_clear). *)
(***************************************************************************)
UsedCounts ==
  /\ node_count \in Tables \cup {0} /\ nodes \in [Buckets -> HashNode]
  /\ used = Cardinality(Occupied)

\* How many steps from its home the nodes of k are.
Places(k) == {i \in Buckets : Holds(Probed(k, i), k)}

\* The numbers of P in ascending order.
Ascending(P) ==
  [n \in 1 .. Cardinality(P) |-> CHOOSE i \in P : Cardinality({j \in P : j < i}) = n - 1]

\* The values stored under k, in the order in which they are probed.
EntriesOf(k) ==
  [n \in 1 .. Cardinality(Places(k)) |-> nodes[Probed(k, Ascending(Places(k))[n])].value]

\* No hole lies between the home of a key and a node that holds it.
Unbroken ==
  \A k \in Keys : \A i \in Buckets :
    Holds(Probed(k, i), k) => \A j \in 0 .. i - 1 : nodes[Probed(k, j)].is_exist

Dict == INSTANCE Dictionary WITH
          capacity <- node_count, intact <- Unbroken,
          entries <- [k \in Keys |-> EntriesOf(k)]

(***************************************************************************)
(* The hash table is a dictionary of node_count entries: wherever keys     *)
(* collide and probing wraps, a key that was added is found with its first *)
(* value as long as no removal has left a hole before it; an add fills a   *)
(* hole and never makes one; a removal takes out that first value only     *)
(* (sh_hash_add, sh_hash_find, sh_hash_remove, sh_hash_is_key_exist).      *)
(***************************************************************************)
IsDictionary == Dict!DictionarySpec

(***************************************************************************)
(* What test/test_sh_hash.cpp expects of sh_hash_remove: it takes the key  *)
(* it is given out of the table, and the keys added beside it stay.        *)
(***************************************************************************)
RemovesOneKey ==
  [][\A k \in Keys : \A l \in Keys \ {k} :
       sh_hash_remove(k) /\ Found(l) => Found(l)']_hashVars
=============================================================================
