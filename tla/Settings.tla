------------------------------ MODULE Settings ------------------------------
(***************************************************************************)
(* What a store of settings promises: a setting that was saved has that    *)
(* value again after a restart, one that never was has its default.  A     *)
(* failed save leaves its own setting in doubt and no other.  The blank    *)
(* value looks as if it had never been saved.                              *)
(***************************************************************************)
CONSTANTS Names, Patterns, Default, Blank

VARIABLES ready,  \* the settings that have been restored since the restart
          value,  \* what the program reads, blank while not ready
          saved,  \* the value that a restart will restore
          result  \* the last call, its setting, and TRUE if it succeeded

settingsVars == <<ready, value, saved, result>>

Result(call, of, ok) == result' = [call |-> call, of |-> of, ok |-> ok]

SettingsInit ==
  /\ ready = {} /\ value = Blank
  /\ saved = Blank
  /\ result = [call |-> "none", of |-> {}, ok |-> TRUE]

\* The program starts again, and loses its memory or not.
Restart ==
  /\ ready' = {} /\ value' = Blank
  /\ UNCHANGED result \/ Result("init", {}, TRUE)
  /\ UNCHANGED saved

Restore(n) ==
  /\ n \notin ready
  /\ ready' = ready \cup {n}
  /\ \/ saved[n] = Blank[n] /\ value' = [value EXCEPT ![n] = Default[n]]
     \/ saved[n] # Blank[n] /\ value' = [value EXCEPT ![n] = saved[n]]
  /\ Result("register", {n}, TRUE) /\ UNCHANGED saved

Change(n) ==
  /\ n \in ready
  /\ \E v \in Patterns[n] : value' = [value EXCEPT ![n] = v]
  /\ UNCHANGED <<ready, saved, result>>

Save(n) ==
  /\ n \in ready
  /\ saved' = [saved EXCEPT ![n] = value[n]]
  /\ Result("write", {n}, TRUE) /\ UNCHANGED <<ready, value>>

\* The call fails, or the program stops in the middle of it.
SaveFails(n) ==
  /\ \/ UNCHANGED saved
     \/ n \in ready /\ \E v \in Patterns[n] : saved' = [saved EXCEPT ![n] = v]
  /\ Result("write", {n}, FALSE) /\ UNCHANGED <<ready, value>>

OtherFailure ==
  /\ Result("init", {}, FALSE) \/ \E n \in Names : Result("register", {n}, FALSE)
  /\ UNCHANGED <<ready, value, saved>>

SettingsNext ==
  \/ Restart \/ OtherFailure
  \/ \E n \in Names : Restore(n) \/ Change(n) \/ Save(n) \/ SaveFails(n)

SettingsSpec == SettingsInit /\ [][SettingsNext]_settingsVars
=============================================================================
