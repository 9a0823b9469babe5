------------------------------ MODULE ShEvent ------------------------------
(***************************************************************************)
(* The event bus of sh_lib, Src/sh_event.c: servers subscribe to events of *)
(* a map, a publication calls the synchronous subscribers at once and      *)
(* queues one reference-counted message for all asynchronous ones, and     *)
(* sh_event_handler drains a server's queue through its callbacks.         *)
(*                                                                         *)
(* One action is one stretch of code that nothing can interrupt: a whole   *)
(* function when it runs with interrupts off and calls no callback,        *)
(* otherwise the part up to the next callback or the next point where an   *)
(* interrupt can preempt it.                                               *)
(***************************************************************************)
EXTENDS ShIsr, ShList

CONSTANTS Servers, Events,
          Msgs,        \* the message control blocks memory has room for
          Careful,     \* TRUE: callbacks leave the lists being walked alone
          ClearFirst   \* TRUE: a server is drained before it is destroyed

ASSUME EventAssumption ==
  /\ {Careful, ClearFirst} \subseteq BOOLEAN
  /\ "head" \notin Servers /\ "none" \notin Events \cup Msgs

VARIABLES map,     \* TRUE while the event map is allocated
          server,  \* server[s]: absent, stopped, started, or freed (leaked)
          subs,    \* subs[e]: event->server, the list of subscribers of e
          mode,    \* mode[s][e]: none (cb NULL), async or sync
          queue,   \* queue[s]: event_queue, the messages waiting for s
          msg      \* msg[m]: free, or [ev, ref] (sh_event_msg_ctrl_t)

eventVars == <<map, server, subs, mode, queue, msg>>

Live(s) == server[s] \in {"stopped", "started"}

\* A message that is not allocated.
Free == [ev |-> "none", ref |-> 0]

PubFrames == [op : {"pub"}, pc : {"check", "loop", "cb"}, ev : Events,
              msg : Msgs \cup {"none"}, cur : Servers \cup {"head"},
              level : BOOLEAN, ok : BOOLEAN]
ExecFrames == [op : {"exec"}, pc : {"check", "loop", "cb"}, srv : Servers,
               msg : Msgs \cup {"none"}, more : BOOLEAN,
               level : BOOLEAN, ok : BOOLEAN]

IsPub(f)  == f.op = "pub"
IsExec(f) == f.op = "exec"

EventInit ==
  /\ IsrInit
  /\ map    = FALSE
  /\ server = [s \in Servers |-> "absent"]
  /\ subs   = [e \in Events |-> <<>>]
  /\ mode   = [s \in Servers |-> [e \in Events |-> "none"]]
  /\ queue  = [s \in Servers |-> <<>>]
  /\ msg    = [m \in Msgs |-> Free]
-----------------------------------------------------------------------------
(***************************************************************************)
(* Lists, and what freeing a node does to the functions walking its list.  *)
(***************************************************************************)
Subscribed(s, e) == OnList(subs[e], s)

\* sh_list_for_each in a publication reads node->next after the callback:
\* the publications of an event in E that are at server s lose their place
\* when the node of s is freed.
UnlinkBreaks(fs, s, E) ==
  {i \in DOMAIN fs : /\ IsPub(fs[i]) /\ Locked(fs[i])
                     /\ fs[i].ev \in E /\ fs[i].cur = s}

\* sh_list_for_each_safe in a drain keeps the next node across the callback:
\* the drains of s that saved one lose it when someone else consumes it.
DrainBreaks(fs, s) ==
  {i \in DOMAIN fs : /\ IsExec(fs[i]) /\ Locked(fs[i])
                     /\ fs[i].srv = s /\ fs[i].more}

ExecsOf(fs, s) == {i \in DOMAIN fs : IsExec(fs[i]) /\ fs[i].srv = s}

\* The frames at I lose the node they would follow.
Break(fs, I) == [i \in DOMAIN fs |-> [fs[i] EXCEPT !.ok = @ /\ i \notin I]]

\* What a careful callback, or anyone else who runs while interrupts are off,
\* does not do: unsubscribe the server that a publication is calling from the
\* event it delivers (other servers may come and go), empty a queue whose drain
\* has saved its next node, or one that holds a message being published.
MayUnlink(s, E) == Careful => UnlinkBreaks(stack, s, E) = {}

MayDrain(s) ==
  Careful /\ masked =>
    /\ DrainBreaks(stack, s) = {}
    /\ \A i \in DOMAIN stack :
         ~(IsPub(stack[i]) /\ stack[i].msg \in ToSet(queue[s]))

\* Mutants: the last reference does not free the message; one too many is
\* dropped.
release_keeps(m, n) == [msg[m] EXCEPT !.ref = @ - n]
release_twice(m, n) == [msg[m] EXCEPT !.ref = @ - n - 1]

\* sh_event_check_if_msg_needs_to_free after n references are dropped.
Release(m, n) ==
  IF msg[m].ref = n THEN Free ELSE [msg[m] EXCEPT !.ref = @ - n]
-----------------------------------------------------------------------------
(***************************************************************************)
(* The map and the servers.                                                *)
(***************************************************************************)
sh_event_map_create ==
  /\ CanCall("map") /\ ~map
  /\ map' = TRUE
  /\ subs' = [e \in Events |-> <<>>]
  /\ UNCHANGED <<server, mode, queue, msg, isrVars>>

\* "must destroy all servers that created with this map before"
sh_event_map_destroy ==
  /\ CanCall("map") /\ map
  /\ \A s \in Servers : ~Live(s)
  /\ map' = FALSE
  /\ UNCHANGED <<server, subs, mode, queue, msg, isrVars>>

sh_event_server_create(s) ==
  /\ CanCall("create") /\ map /\ server[s] = "absent"
  /\ server' = [server EXCEPT ![s] = "stopped"]
  /\ mode'   = [mode EXCEPT ![s] = [e \in Events |-> "none"]]
  /\ queue'  = [queue EXCEPT ![s] = <<>>]
  /\ UNCHANGED <<map, subs, msg, isrVars>>

\* The server leaves every subscriber list and is freed; the nodes of its
\* queue are not, so a server with messages waiting stays behind as "freed".
sh_event_server_destroy(s) ==
  /\ CanCall("destroy") /\ Live(s)
  /\ MayUnlink(s, Events) /\ MayDrain(s) /\ (Careful => ExecsOf(stack, s) = {})
  /\ ClearFirst => queue[s] = <<>>
  /\ server' = [server EXCEPT ![s] = IF queue[s] = <<>> THEN "absent" ELSE "freed"]
  /\ subs'   = [e \in Events |-> sh_list_remove(subs[e], s)]
  /\ mode'   = [mode EXCEPT ![s] = [e \in Events |-> "none"]]
  /\ stack'  = Break(stack, UnlinkBreaks(stack, s, Events) \cup ExecsOf(stack, s))
  /\ UNCHANGED <<map, queue, msg, masked>>

sh_event_server_start(s) ==
  /\ CanCall("start") /\ server[s] = "stopped"
  /\ server' = [server EXCEPT ![s] = "started"]
  /\ UNCHANGED <<map, subs, mode, queue, msg, isrVars>>

sh_event_server_stop(s) ==
  /\ CanCall("stop") /\ server[s] = "started"
  /\ server' = [server EXCEPT ![s] = "stopped"]
  /\ UNCHANGED <<map, subs, mode, queue, msg, isrVars>>
-----------------------------------------------------------------------------
(***************************************************************************)
(* Subscriptions.  Subscribing twice changes nothing, not even the mode.   *)
(***************************************************************************)
\* Mutant: a second subscription adds a second node.
subscribe_again(s, e, m) ==
  /\ Live(s) /\ Len(subs[e]) < 3
  /\ subs' = [subs EXCEPT ![e] = Append(@, s)]
  /\ mode' = [mode EXCEPT ![s][e] = m]
  /\ UNCHANGED <<map, server, queue, msg, isrVars>>

Subscribe(s, e, m) ==
  /\ Live(s) /\ ~Subscribed(s, e)
  /\ subs' = [subs EXCEPT ![e] = Append(@, s)]
  /\ mode' = [mode EXCEPT ![s][e] = m]
  /\ UNCHANGED <<map, server, queue, msg, isrVars>>

sh_event_subscribe(s, e) ==
  CanCall("subscribe") /\ Subscribe(s, e, "async")

sh_event_subscribe_sync(s, e) ==
  CanCall("subscribe_sync") /\ Subscribe(s, e, "sync")

Unlink(s, E) ==
  /\ MayUnlink(s, E)
  /\ subs'  = [e \in Events |-> IF e \in E THEN sh_list_remove(subs[e], s) ELSE subs[e]]
  /\ mode'  = [mode EXCEPT ![s] = [e \in Events |-> IF e \in E THEN "none" ELSE @[e]]]
  /\ stack' = Break(stack, UnlinkBreaks(stack, s, E))
  /\ UNCHANGED <<map, server, queue, msg, masked>>

sh_event_unsubscribe(s, e) ==
  CanCall("unsubscribe") /\ Live(s) /\ Subscribed(s, e) /\ Unlink(s, {e})

sh_event_unsubscribe_all(s) ==
  /\ CanCall("unsubscribe_all") /\ Live(s)
  /\ Unlink(s, {e \in Events : Subscribed(s, e)})
-----------------------------------------------------------------------------
(***************************************************************************)
(* sh_event_publish_with_param.  The lookup and the empty test (pc "check")*)
(* run with interrupts enabled, the delivery loop with interrupts off.     *)
(***************************************************************************)
PubFrame(e) == [op |-> "pub", pc |-> "check", ev |-> e, msg |-> "none",
                cur |-> "head", level |-> FALSE, ok |-> TRUE]

PublishEnter(e) ==
  map /\ subs[e] # <<>> /\ Enter(PubFrame(e)) /\ UNCHANGED eventVars

sh_event_publish(e) == CanCall("publish") /\ PublishEnter(e)

\* sh_event_msg_create succeeds.
PublishLock ==
  /\ stack # <<>> /\ IsPub(Top) /\ Top.pc = "check"
  /\ \E m \in Msgs :
       /\ msg[m] = Free
       /\ msg' = [msg EXCEPT ![m] = [ev |-> Top.ev, ref |-> 0]]
       /\ sh_isr_disable([Top EXCEPT !.pc = "loop", !.msg = m])
  /\ UNCHANGED <<map, server, subs, mode, queue>>

\* sh_event_msg_create fails: no room for the control block, or (its memory
\* is then lost) room for the control block but not for the data.
PublishNoMemory ==
  /\ stack # <<>> /\ IsPub(Top) /\ Top.pc = "check"
  /\ \/ /\ AllocFails \/ \A m \in Msgs : msg[m] # Free
        /\ UNCHANGED msg
     \/ AllocFails /\ \E m \in Msgs :
          /\ msg[m] = Free
          /\ msg' = [msg EXCEPT ![m] = [ev |-> Top.ev, ref |-> 0]]
  /\ Leave
  /\ UNCHANGED <<map, server, subs, mode, queue>>

\* The node the loop looks at next: 1 + Len(subs[ev]) is the list head.
NextNode(f) == IF f.cur = "head" THEN 1 ELSE Position(subs[f.ev], f.cur) + 1

InLoop == stack # <<>> /\ IsPub(Top) /\ Top.pc = "loop" /\ Top.ok

\* The loop reaches server s.
Reaches(s) == InLoop /\ NextNode(Top) <= Len(subs[Top.ev]) /\ s = subs[Top.ev][NextNode(Top)]

PublishSkip(s) ==
  /\ Reaches(s) /\ server[s] # "started"
  /\ Goto([Top EXCEPT !.cur = s])
  /\ UNCHANGED eventVars

\* sh_event_execute_sync_cb calls the callback.
PublishSync(s) ==
  /\ Reaches(s) /\ server[s] = "started" /\ mode[s][Top.ev] = "sync"
  /\ Goto([Top EXCEPT !.cur = s, !.pc = "cb"])
  /\ UNCHANGED eventVars

\* sh_event_server_save_msg
PublishSave(s) ==
  /\ Reaches(s) /\ server[s] = "started" /\ mode[s][Top.ev] = "async"
  /\ queue' = [queue EXCEPT ![s] = Append(@, Top.msg)]
  /\ msg'   = [msg EXCEPT ![Top.msg].ref = @ + 1]
  /\ Goto([Top EXCEPT !.cur = s])
  /\ UNCHANGED <<map, server, subs, mode>>

\* Mutant: the reference is counted before the node is allocated.
save_fails_counted(s) ==
  /\ Reaches(s) /\ server[s] = "started" /\ mode[s][Top.ev] = "async"
  /\ AllocFails
  /\ msg' = [msg EXCEPT ![Top.msg].ref = @ + 1]
  /\ sh_isr_enable
  /\ UNCHANGED <<map, server, subs, mode, queue>>

\* sh_event_server_save_msg fails: `goto fail` skips the final release.
PublishSaveFails(s) ==
  /\ Reaches(s) /\ server[s] = "started" /\ mode[s][Top.ev] = "async"
  /\ AllocFails
  /\ sh_isr_enable
  /\ UNCHANGED eventVars

PublishDone ==
  /\ InLoop /\ NextNode(Top) > Len(subs[Top.ev])
  /\ msg' = [msg EXCEPT ![Top.msg] = IF @.ref = 0 THEN Free ELSE @]
  /\ sh_isr_enable
  /\ UNCHANGED <<map, server, subs, mode, queue>>
-----------------------------------------------------------------------------
(***************************************************************************)
(* _sh_event_execute: the drain.  The empty test (pc "check") runs with    *)
(* interrupts enabled.  `more` is whether the saved next node n is a       *)
(* message (the head of what is left of the queue) or the list head.       *)
(***************************************************************************)
ExecFrame(s) == [op |-> "exec", pc |-> "check", srv |-> s, msg |-> "none",
                 more |-> FALSE, level |-> FALSE, ok |-> TRUE]

\* Mutant: a stopped server keeps its messages.
handler_of_started(s) ==
  /\ CanCall("handler") /\ server[s] = "started" /\ MayDrain(s) /\ queue[s] # <<>>
  /\ Enter(ExecFrame(s))
  /\ UNCHANGED eventVars

sh_event_handler(s) ==
  /\ CanCall("handler") /\ Live(s) /\ MayDrain(s) /\ queue[s] # <<>>
  /\ Enter(ExecFrame(s))
  /\ UNCHANGED eventVars

ExecLock ==
  /\ stack # <<>> /\ IsExec(Top) /\ Top.pc = "check" /\ Top.ok
  /\ sh_isr_disable([Top EXCEPT !.pc = "loop", !.more = queue[Top.srv] # <<>>])
  /\ UNCHANGED eventVars

\* Mutant: the reference is dropped before the callback reads the message.
take_releases ==
  /\ stack # <<>> /\ IsExec(Top) /\ Top.pc = "loop" /\ Top.ok /\ Top.more
  /\ LET s == Top.srv
         m == Head(queue[s])
     IN /\ queue' = [queue EXCEPT ![s] = Tail(@)]
        /\ msg'   = [msg EXCEPT ![m] = Release(m, 1)]
        /\ stack' = <<[Top EXCEPT !.more = Len(queue[s]) > 1, !.pc = "cb", !.msg = m]>>
                    \o Tail(stack)
  /\ UNCHANGED <<map, server, subs, mode, masked>>

\* The drain takes the head of the queue and calls the callback of its
\* event, unless the server was stopped or the callback is gone: then the
\* message is dropped.
ExecTake ==
  /\ stack # <<>> /\ IsExec(Top) /\ Top.pc = "loop" /\ Top.ok /\ Top.more
  /\ LET s == Top.srv
         m == Head(queue[s])
         f == [Top EXCEPT !.more = Len(queue[s]) > 1]
         calls == server[s] = "started" /\ mode[s][msg[m].ev] # "none"
     IN /\ queue' = [queue EXCEPT ![s] = Tail(@)]
        /\ msg'   = IF calls THEN msg ELSE [msg EXCEPT ![m] = Release(m, 1)]
        /\ stack' = <<IF calls THEN [f EXCEPT !.pc = "cb", !.msg = m] ELSE f>>
                    \o Break(Tail(stack), DrainBreaks(Tail(stack), s))
  /\ UNCHANGED <<map, server, subs, mode, masked>>

\* Mutant: the drain returns without enabling interrupts.
done_masked ==
  /\ stack # <<>> /\ IsExec(Top) /\ Top.pc = "loop" /\ Top.ok /\ ~Top.more
  /\ Leave
  /\ UNCHANGED eventVars

ExecDone ==
  /\ stack # <<>> /\ IsExec(Top) /\ Top.pc = "loop" /\ Top.ok /\ ~Top.more
  /\ sh_isr_enable
  /\ UNCHANGED eventVars

\* A callback returns: into a publication's loop, or into a drain, which
\* drops its reference to the message.
CbReturn ==
  /\ stack # <<>> /\ Top.op \in {"pub", "exec"} /\ Top.pc = "cb"
  /\ IF IsPub(Top)
     THEN /\ Goto([Top EXCEPT !.pc = "loop"])
          /\ UNCHANGED msg
     ELSE /\ Goto([Top EXCEPT !.pc = "loop", !.msg = "none"])
          /\ msg' = [msg EXCEPT ![Top.msg] = Release(Top.msg, 1)]
  /\ UNCHANGED <<map, server, subs, mode, queue>>

\* sh_event_server_clear_msg: the same drain without callbacks, hence atomic.
Cleared(s) ==
  [m \in Msgs |-> LET n == Cardinality(Occurs(m, queue[s]))
                  IN  IF n = 0 THEN msg[m] ELSE Release(m, n)]

sh_event_server_clear_msg(s) ==
  /\ CanCall("clear") /\ Live(s) /\ MayDrain(s) /\ queue[s] # <<>>
  /\ queue' = [queue EXCEPT ![s] = <<>>]
  /\ msg'   = Cleared(s)
  /\ stack' = Break(stack, DrainBreaks(stack, s))
  /\ UNCHANGED <<map, server, subs, mode, masked>>
-----------------------------------------------------------------------------
EventSteps ==
  \/ PublishLock \/ PublishNoMemory \/ PublishDone
  \/ \E s \in Servers : \/ PublishSkip(s) \/ PublishSync(s)
                        \/ PublishSave(s) \/ PublishSaveFails(s)
  \/ ExecLock \/ ExecTake \/ ExecDone \/ CbReturn

EventNext ==
  \/ EventSteps
  \/ sh_event_map_create \/ sh_event_map_destroy
  \/ \E s \in Servers :
       \/ sh_event_server_create(s) \/ sh_event_server_destroy(s)
       \/ sh_event_server_start(s)  \/ sh_event_server_stop(s)
       \/ sh_event_unsubscribe_all(s)
       \/ sh_event_handler(s)       \/ sh_event_server_clear_msg(s)
       \/ \E e \in Events : \/ sh_event_subscribe(s, e)
                            \/ sh_event_subscribe_sync(s, e)
                            \/ sh_event_unsubscribe(s, e)
  \/ \E e \in Events : sh_event_publish(e)

EventSpec == EventInit /\ [][EventNext]_<<eventVars, isrVars>>

\* The library code that runs goes on running, at every level of interrupt
\* nesting: interrupts end and do not starve what they preempted.  The main
\* loop calls every server's handler again and again, as that of
\* example/sh_sm_example.c does.
EventFairness ==
  /\ \A d \in 1..MaxDepth :
       SF_<<eventVars, isrVars>>(Len(stack) = d /\ EventSteps)
  /\ \A s \in Servers :
       SF_<<eventVars, isrVars>>(stack = <<>> /\ sh_event_handler(s))

EventFairSpec == EventSpec /\ EventFairness
-----------------------------------------------------------------------------
TypeOK ==
  /\ map \in BOOLEAN /\ masked \in BOOLEAN
  /\ server \in [Servers -> {"absent", "stopped", "started", "freed"}]
  /\ subs \in [Events -> Seq(Servers)]
  /\ mode \in [Servers -> [Events -> {"none", "async", "sync"}]]
  /\ queue \in [Servers -> Seq(Msgs)]
  /\ msg \in [Msgs -> [ev : Events \cup {"none"}, ref : Nat]]
  /\ stack \in Seq(PubFrames \cup ExecFrames)

\* Where references to message m are held: in queues, and by the drains that
\* are inside m's callback.
Holders(m) == UNION {{s} \X Occurs(m, queue[s]) : s \in Servers}
Callers(m) ==
  {i \in DOMAIN stack : IsExec(stack[i]) /\ stack[i].msg = m}

(***************************************************************************)
(* sh_event_msg_ctrl_t.ref is exact: it counts the queue nodes that point  *)
(* to the message and the drains that are calling its callback             *)
(* (sh_event_server_save_msg, _sh_event_execute), no more and no fewer,    *)
(* through every nesting of publications, drains and callbacks.            *)
(***************************************************************************)
RefCounted ==
  \A m \in Msgs : msg[m].ref = Cardinality(Holders(m)) + Cardinality(Callers(m))

(***************************************************************************)
(* Whoever still needs a message finds it: the queues it waits in, the     *)
(* publication that is delivering it and the drain that is calling its     *)
(* callback never point to a message that has been freed, or freed and     *)
(* allocated again for another event (sh_event_check_if_msg_needs_to_free).*)
(***************************************************************************)
NoFreedMsg ==
  /\ \A s \in Servers : \A m \in ToSet(queue[s]) : msg[m] # Free
  /\ \A i \in DOMAIN stack :
       stack[i].msg # "none" =>
         /\ msg[stack[i].msg] # Free
         /\ IsPub(stack[i]) => msg[stack[i].msg].ev = stack[i].ev

(***************************************************************************)
(* And nobody keeps one that nobody needs: every allocated message waits   *)
(* in the queue of a server that exists, is being published or is being    *)
(* handled.  The tests' TearDown check the same from outside, as free      *)
(* memory being back to what it was.                                       *)
(***************************************************************************)
Reclaimed ==
  \A m \in Msgs :
    msg[m] # Free =>
      \/ \E s \in Servers : Live(s) /\ m \in ToSet(queue[s])
      \/ \E i \in DOMAIN stack : stack[i].msg = m

(***************************************************************************)
(* The two records of a subscription agree: a server is in the subscriber  *)
(* list of an event exactly when its cb[] entry for that event is set, and *)
(* it is there once (_sh_event_subscribe, sh_event_unsubscribe,            *)
(* sh_event_server_destroy).                                               *)
(***************************************************************************)
SubscriptionsAgree ==
  \A s \in Servers, e \in Events :
    /\ Subscribed(s, e) <=> mode[s][e] # "none"
    /\ Subscribed(s, e) => Live(s)
    /\ Cardinality(Occurs(s, subs[e])) <= 1

(***************************************************************************)
(* A publication reaches a server once: no message is in a queue twice,    *)
(* also when callbacks change the list that sh_event_publish_with_param    *)
(* walks.  They may add servers to it or take servers off it, not both: a  *)
(* server that was visited, left and came back stands behind the node the  *)
(* loop is at, and sh_event_server_save_msg queues the message again.      *)
(***************************************************************************)
QueuedOnce ==
  \A s \in Servers, m \in Msgs : Cardinality(Occurs(m, queue[s])) <= 1
-----------------------------------------------------------------------------
(***************************************************************************)
(* The bus as a program sees it.  A message being published is not in the  *)
(* inboxes yet: it arrives everywhere when the publication ends.           *)
(***************************************************************************)
InFlight(m) == \E i \in DOMAIN stack : IsPub(stack[i]) /\ stack[i].msg = m

Inbox(s) ==
  LET arrived == SelectSeq(queue[s], LAMBDA m : ~InFlight(m))
  IN  [i \in DOMAIN arrived |-> msg[arrived[i]].ev]

Bus == INSTANCE EventBus WITH
         listens <- [e \in Events |-> ToSet(subs[e])],
         active  <- {s \in Servers : server[s] = "started"},
         inbox   <- [s \in Servers |-> Inbox(s)]

(***************************************************************************)
(* With asynchronous subscribers a publication is one atomic broadcast to  *)
(* the servers started and subscribed at that moment, and each server      *)
(* takes its events in the order they were published: no event is lost,    *)
(* duplicated or reordered by interrupts and callbacks that publish,       *)
(* subscribe, drain and clear meanwhile (sh_event_publish_with_param,      *)
(* _sh_event_execute).                                                     *)
(***************************************************************************)
IsAtomicBroadcast == Bus!BusSpec

(***************************************************************************)
(* A queued message does not wait forever: its server's handler reaches it *)
(* or the queue is cleared (_sh_event_execute; callbacks that publish      *)
(* without end are excluded, the code drains what they publish too).       *)
(***************************************************************************)
EventuallyTaken ==
  \A s \in Servers, m \in Msgs :
    m \in ToSet(queue[s]) ~> m \notin ToSet(queue[s])

(***************************************************************************)
(* Interrupts never stay disabled: README.md:13 asks for short callbacks,  *)
(* the library itself has to do the rest.                                  *)
(***************************************************************************)
InterruptsReturn == masked ~> ~masked
=============================================================================
