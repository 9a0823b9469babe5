----------------------------- MODULE Dictionary -----------------------------
(***************************************************************************)
(* What a hash table without tombstones promises: a dictionary of at most  *)
(* `capacity` entries in which a key may be added several times.  The      *)
(* value found is the one added first; taking a key out brings the next    *)
(* one to light.  While the dictionary is `intact` every entry is found;   *)
(* taking an entry out may end that, and until the gap is filled or the    *)
(* dictionary cleared, a key may be overlooked, but nothing is made up.    *)
(***************************************************************************)
EXTENDS Naturals, SequencesExt

CONSTANTS Keys, Values, NULL

VARIABLES capacity, \* 0 while there is no dictionary
          entries,  \* the values of each key
          intact,   \* FALSE: keys may be overlooked
          answer    \* the last call, its key, whether it succeeded, the value it gave

dictionaryVars == <<capacity, entries, intact, answer>>

NoEntries == [k \in Keys |-> <<>>]

\* The number of all entries.
Total == Cardinality(UNION {{k} \X DOMAIN entries[k] : k \in Keys})

Answer(call, k, ok, v) == answer' = [call |-> call, key |-> k, ok |-> ok, value |-> v]

DictionaryInit ==
  /\ capacity = 0 /\ entries = NoEntries /\ intact = TRUE
  /\ answer = [call |-> "none", key |-> NULL, ok |-> FALSE, value |-> NULL]

Open ==
  /\ capacity = 0 /\ capacity' \in Nat \ {0}
  /\ UNCHANGED <<entries, intact, answer>>

Close == capacity' = 0 /\ entries' = NoEntries /\ intact' = TRUE /\ UNCHANGED answer

Empty == entries' = NoEntries /\ intact' = TRUE /\ UNCHANGED <<capacity, answer>>

Insert(k, v) ==
  /\ Total < capacity
  /\ \E i \in 1 .. Len(entries[k]) + 1 :
       /\ entries' = [entries EXCEPT ![k] = InsertAt(@, i, v)]
       /\ intact => i = Len(entries[k]) + 1
  /\ intact => intact' = TRUE
  /\ Answer("add", k, TRUE, NULL) /\ UNCHANGED capacity

Refuse(k) ==
  /\ Total = capacity
  /\ Answer("add", k, FALSE, NULL)
  /\ UNCHANGED <<capacity, entries, intact>>

\* Key k may not be found.
Overlooked(k) == intact => entries[k] = <<>>

Find(k) ==
  /\ \/ entries[k] # <<>> /\ Answer("find", k, TRUE, Head(entries[k]))
     \/ entries[k] # <<>> /\ Answer("exist", k, TRUE, NULL)
     \/ Overlooked(k) /\ \E call \in {"find", "exist"} : Answer(call, k, FALSE, NULL)
  /\ UNCHANGED <<capacity, entries, intact>>

TakeOut(k) ==
  /\ \/ entries[k] # <<>> /\ entries' = [entries EXCEPT ![k] = Tail(@)]
     \/ Overlooked(k) /\ UNCHANGED <<entries, intact>>
  /\ UNCHANGED <<capacity, answer>>

DictionaryNext ==
  \/ Open \/ Close \/ Empty
  \/ \E k \in Keys : Refuse(k) \/ Find(k) \/ TakeOut(k) \/ \E v \in Values : Insert(k, v)

DictionarySpec == DictionaryInit /\ [][DictionaryNext]_dictionaryVars
=============================================================================
