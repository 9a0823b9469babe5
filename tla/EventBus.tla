------------------------------ MODULE EventBus ------------------------------
(***************************************************************************)
(* What the event bus promises to programs with asynchronous subscribers:  *)
(* every server has an inbox of events, a publication puts the event at    *)
(* once at the end of the inbox of every active listener, and a server     *)
(* handles its inbox from the front.                                       *)
(***************************************************************************)
EXTENDS Sequences

CONSTANTS Servers, Events

VARIABLES listens,  \* listens[e]: the servers subscribed to e
          active,   \* the started servers
          inbox     \* inbox[s]: the events waiting for s, oldest first

busVars == <<listens, active, inbox>>

BusInit ==
  /\ listens = [e \in Events |-> {}]
  /\ active  = {}
  /\ inbox   = [s \in Servers |-> <<>>]

Publish(e) ==
  /\ inbox' = [s \in Servers |-> IF s \in listens[e] \cap active
                                 THEN Append(inbox[s], e) ELSE inbox[s]]
  /\ UNCHANGED <<listens, active>>

Take(s) ==
  /\ inbox[s] # <<>>
  /\ inbox' = [inbox EXCEPT ![s] = Tail(@)]
  /\ UNCHANGED <<listens, active>>

Clear(s) ==
  /\ inbox' = [inbox EXCEPT ![s] = <<>>]
  /\ UNCHANGED <<listens, active>>

\* A server starts, stops, subscribes, unsubscribes or goes; what it was
\* sent before stays in its inbox.
Configure(s) ==
  /\ active' \in {active \cup {s}, active \ {s}}
  /\ \E E \in SUBSET Events :
       listens' = [e \in Events |-> IF e \in E THEN listens[e] \cup {s}
                                                ELSE listens[e] \ {s}]
  /\ UNCHANGED inbox

BusNext ==
  \/ \E e \in Events : Publish(e)
  \/ \E s \in Servers : Take(s) \/ Clear(s) \/ Configure(s)

BusSpec == BusInit /\ [][BusNext]_busVars
=============================================================================
