---------------------------- MODULE MCStandalone ----------------------------
(***************************************************************************)
(* ShFifo, ShHash, ShConfig and ShButton on small instances.  These parts  *)
(* of the library share no state and do not call each other: a behaviour   *)
(* uses one of them, and the others keep still.                            *)
(***************************************************************************)
EXTENDS ShFifo, ShHash, ShConfig, ShButton

CONSTANTS a, b,    \* elements of the buffer, and values of the hash table
          k1, k2, k3, \* its keys
          x, y, z, \* configuration variables
          p        \* a button

VARIABLE inUse

MCSettable == <<x, y, z>>
MCSizeOf == [v \in Range(MCSettable) |-> IF v = y THEN 2 ELSE 1]
MCFactory == [v \in Range(MCSettable) |-> IF v = y THEN <<0, 255>> ELSE <<0>>]

\* Zeroes to be replaced by the defaults, and a button that is hardly debounced.
MCConfigs == {[debounce |-> 0, release |-> 0, long |-> 0, repeat |-> 0],
              [debounce |-> 1, release |-> 2, long |-> 3, repeat |-> 1]}
MCDefaults == [debounce |-> 3, release |-> 4, long |-> 5, repeat |-> 2]

\* The keys are interchangeable: hashes in ascending order stand for all.
StandaloneInit ==
  /\ inUse \in {"fifo", "hash", "config", "button"}
  /\ FifoInit /\ HashInit /\ ConfigInit /\ ButtonInit
  /\ inUse # "fifo" => data = [i \in Index |-> a]
  /\ jenkins_hash[k1] <= jenkins_hash[k2] /\ jenkins_hash[k2] <= jenkins_hash[k3]
  /\ inUse # "hash" => jenkins_hash[k3] = 0
  /\ inUse # "button" => ctrl.debounce = 0

StandaloneNext ==
  /\ UNCHANGED inUse
  /\ \/ /\ inUse = "fifo" /\ FifoNext
        /\ UNCHANGED <<hashVars, configVars, buttonVars>>
     \/ /\ inUse = "hash" /\ HashNext
        /\ UNCHANGED <<fifoVars, isrVars, configVars, buttonVars>>
     \/ /\ inUse = "config" /\ ConfigNext
        /\ UNCHANGED <<fifoVars, isrVars, hashVars, buttonVars>>
     \/ /\ inUse = "button" /\ ButtonNext
        /\ UNCHANGED <<fifoVars, isrVars, hashVars, configVars>>

StandaloneSpec ==
  StandaloneInit /\ [][StandaloneNext]_<<fifoVars, isrVars, hashVars, configVars,
                                         buttonVars, inUse>>
=============================================================================
