-------------------------------- MODULE ShSm --------------------------------
(***************************************************************************)
(* The state machine of sh_lib, Src/sh_sm.c, on top of the event bus and   *)
(* the timers.  Every state owns an event server and a list of private     *)
(* timers; only the server of the current state is started.  A timer of    *)
(* the machine publishes an event when it runs out and removes itself.     *)
(* sh_sm_handler serves the global timers, the timers of the current       *)
(* state, then the events of the state it started with, and starts over    *)
(* while transitions happen.                                               *)
(*                                                                         *)
(* States are named by their servers; Heads are the timer_ctrl structures, *)
(* one for each state and the Global one of the machine.  sh_timer_t and   *)
(* sh_sm_timer_t are allocated together, so a timer names its node too.    *)
(***************************************************************************)
EXTENDS ShEvent, ShTimer

CONSTANTS Global,   \* the machine's own timer_ctrl
          MaxIds    \* bits in timer_ctrl.bitmap, 32 in the code

ASSUME SmAssumption ==
  /\ Heads = Servers \cup {Global} /\ Global \notin Servers
  /\ MaxIds \in Nat \ {0} /\ "none" \notin Heads

VARIABLES sm,       \* TRUE while the machine is allocated
          current,  \* sm->current_state, or "none"
          re,       \* sm->re_execute
          bitmap,   \* bitmap[h]: the timer ids in use in timer_ctrl h
          node      \* node[t]: the sh_sm_timer_t of timer t, or NoNode

smVars == <<sm, current, re, bitmap, node>>
allVars == <<smVars, eventVars, timerVars, isrVars>>

NoNode == [ctrl |-> "none", ev |-> "none", id |-> 0]
IsNode(t) == node[t] # NoNode

SmFrames == [op : {"sm"}, pc : {"check"},
             at : {"global", "private", "event", "again"},
             srv : Servers \cup {"none"}, level : BOOLEAN, ok : BOOLEAN]
TransFrames == [op : {"trans"}, pc : {"check"}, at : {"clear", "timers", "start"},
                to : Servers, level : BOOLEAN, ok : BOOLEAN]
OvertickFrames == [op : {"ovt"}, pc : {"remove"}, timer : Timers,
                   level : BOOLEAN, ok : BOOLEAN]

IsSm(f)    == f.op = "sm"
IsTrans(f) == f.op = "trans"

\* The pass on top of the stack is calling sh_sm_timer_overtick_cb, which is
\* not a user callback.
InOvertick == stack # <<>> /\ IsTmr(Top) /\ Top.pc = "cb" /\ IsNode(Top.cur)

SmCanCall(op) == CanCall(op) /\ sm /\ ~InOvertick

SmInit ==
  /\ EventInit /\ TimerInit
  /\ sm = FALSE /\ current = "none" /\ re = FALSE
  /\ bitmap = [h \in Heads |-> {}]
  /\ node = [t \in Timers |-> NoNode]
-----------------------------------------------------------------------------
(***************************************************************************)
(* Creation.  sh_sm_init leaves re_execute as malloc returned it.          *)
(***************************************************************************)
sh_sm_create ==
  /\ stack = <<>> /\ ~sm
  /\ sm' = TRUE /\ map' = TRUE
  /\ current' = "none" /\ re' \in BOOLEAN
  /\ UNCHANGED <<bitmap, node, server, subs, mode, queue, msg, timerVars, isrVars>>

sh_sm_state_create(s) ==
  /\ SmCanCall("state_create") /\ server[s] = "absent"
  /\ server' = [server EXCEPT ![s] = "stopped"]
  /\ UNCHANGED <<smVars, map, subs, mode, queue, msg, timerVars, isrVars>>

sh_sm_state_subscribe_event(s, e) ==
  /\ SmCanCall("subscribe") /\ Subscribe(s, e, "async")
  /\ UNCHANGED <<smVars, timerVars>>

sh_sm_state_unsubscribe_event(s, e) ==
  /\ SmCanCall("unsubscribe") /\ Live(s) /\ Subscribed(s, e) /\ Unlink(s, {e})
  /\ UNCHANGED <<smVars, timerVars>>
-----------------------------------------------------------------------------
(***************************************************************************)
(* Timers of the machine.                                                  *)
(***************************************************************************)
\* Mutant: ids count from 1.
ids_from_1(h) == (1 .. MaxIds) \ bitmap[h]

\* The next free id of a timer_ctrl (sh_sm_timer_get_uniqe_id).
FreeIds(h) == (0 .. MaxIds - 1) \ bitmap[h]

NewTimer(t, h, md, ivl) ==
  /\ timer' = [timer EXCEPT ![t] = [live |-> TRUE, mode |-> md, cb |-> TRUE,
                                    ivl |-> ivl, over |-> Plus(tick, ivl)]]
  /\ list'  = [list EXCEPT ![h] = Sorted(@, t, Plus(tick, ivl))]
  /\ age'   = [age EXCEPT ![t] = 0]
  /\ UNCHANGED tick

\* Refused (-1, nothing changed) when all ids are taken, when the interval is
\* too long or when there is no memory.
sh_sm_start_timer_and_get_id(t, h, ivl, e) ==
  /\ ~timer[t].live /\ FreeIds(h) # {} /\ StartOk(ivl)
  /\ NewTimer(t, h, "single", ivl)
  /\ node'   = [node EXCEPT ![t] = [ctrl |-> h, ev |-> e, id |-> Min(FreeIds(h))]]
  /\ bitmap' = [bitmap EXCEPT ![h] = @ \cup {Min(FreeIds(h))}]
  /\ UNCHANGED <<sm, current, re, eventVars, isrVars>>

sh_sm_start_global_timer(t, ivl, e) ==
  SmCanCall("start_global") /\ sh_sm_start_timer_and_get_id(t, Global, ivl, e)

sh_sm_start_timer(t, ivl, e) ==
  /\ SmCanCall("start_private") /\ current # "none"
  /\ sh_sm_start_timer_and_get_id(t, current, ivl, e)

\* A LOOP timer with a user callback on the global list, known to the caller
\* only.
sh_sm_start_normal_timer(t, ivl) ==
  /\ SmCanCall("start_normal") /\ ~timer[t].live /\ StartOk(ivl)
  /\ NewTimer(t, Global, "loop", ivl)
  /\ UNCHANGED <<smVars, eventVars, isrVars>>

\* The caller is done with it (outside callbacks).
DestroyNormalTimer(t) ==
  /\ stack = <<>> /\ timer[t].live /\ ~IsNode(t)
  /\ timer' = [timer EXCEPT ![t] = Absent]
  /\ list'  = Unlinked(list, t)
  /\ age'   = [age EXCEPT ![t] = 0]
  /\ UNCHANGED <<tick, smVars, eventVars, isrVars>>

\* The nodes of timer_ctrl h whose ids are in I.
Nodes(h, I) == {t \in Timers : node[t].ctrl = h /\ node[t].id \in I}

\* Mutant: the id stays set in the bitmap.
remove_keeps_id(h, I) ==
  LET T == Nodes(h, I \cap bitmap[h])
  IN  /\ timer'  = [t \in Timers |-> IF t \in T THEN Absent ELSE timer[t]]
      /\ list'   = [g \in Heads |-> Without(list[g], T)]
      /\ age'    = [t \in Timers |-> IF t \in T THEN 0 ELSE age[t]]
      /\ node'   = [t \in Timers |-> IF t \in T THEN NoNode ELSE node[t]]
      /\ UNCHANGED <<bitmap, tick>>

\* sh_sm_remove_timer for the ids I that are set in h's bitmap.
RemoveTimers(h, I) ==
  LET T == Nodes(h, I \cap bitmap[h])
  IN  /\ timer'  = [t \in Timers |-> IF t \in T THEN Absent ELSE timer[t]]
      /\ list'   = [g \in Heads |-> Without(list[g], T)]
      /\ age'    = [t \in Timers |-> IF t \in T THEN 0 ELSE age[t]]
      /\ node'   = [t \in Timers |-> IF t \in T THEN NoNode ELSE node[t]]
      /\ bitmap' = [bitmap EXCEPT ![h] = @ \ {node[t].id : t \in T}]
      /\ UNCHANGED tick

\* sh_sm_get_bitmap_and_timer_head: a private id is one of the current state.
sh_sm_remove_timer(private, id) ==
  /\ SmCanCall("remove_timer") /\ (private => current # "none")
  /\ LET h == IF private THEN current ELSE Global
     IN  id \in bitmap[h] /\ RemoveTimers(h, {id})
  /\ UNCHANGED <<sm, current, re, eventVars, isrVars>>

\* Walks the bitmap of state s but removes from the current state.
sh_sm_remove_state_all_timer(s) ==
  /\ SmCanCall("remove_all") /\ Live(s) /\ current # "none" /\ bitmap[s] # {}
  /\ RemoveTimers(current, bitmap[s])
  /\ UNCHANGED <<sm, current, re, eventVars, isrVars>>

sh_sm_remove_all_global_timer ==
  /\ SmCanCall("remove_all") /\ bitmap[Global] # {}
  /\ RemoveTimers(Global, bitmap[Global])
  /\ UNCHANGED <<sm, current, re, eventVars, isrVars>>

\* sh_sm_timer_overtick_cb: publish the event of the timer ...
SmOvertick ==
  /\ InOvertick
  /\ masked' = TRUE
  /\ LET e == node[Top.cur].ev
         f == [op |-> "ovt", pc |-> "remove", timer |-> Top.cur,
               level |-> masked, ok |-> TRUE]
     IN  stack' = (IF subs[e] = <<>> THEN <<f>> ELSE <<PubFrame(e), f>>) \o stack
  /\ UNCHANGED <<smVars, eventVars, timerVars>>

\* ... then remove the timer and return to the pass.
SmOvertickDone ==
  /\ stack # <<>> /\ Top.op = "ovt"
  /\ LET n == node[Top.timer]
     IN  RemoveTimers(IF n.ctrl = Global THEN Global ELSE current, {n.id})
  /\ masked' = Top.level
  /\ stack'  = <<[stack[2] EXCEPT !.pc = "loop", !.cur = "head"]>>
               \o SubSeq(stack, 3, Len(stack))
  /\ UNCHANGED <<sm, current, re, eventVars>>
-----------------------------------------------------------------------------
(***************************************************************************)
(* sh_sm_trans_to.  It does not disable interrupts: an interrupt may       *)
(* publish between its steps.                                              *)
(***************************************************************************)
\* Mutant: the server of the old state is not stopped.
trans_unstopped(s) ==
  /\ SmCanCall("trans_to") /\ Live(s)
  /\ current # "none" => MayDrain(current)
  /\ Enter([op |-> "trans", pc |-> "check", to |-> s, level |-> FALSE, ok |-> TRUE,
            at |-> IF current = "none" THEN "start" ELSE "clear"])
  /\ UNCHANGED <<smVars, eventVars, timerVars>>

sh_sm_trans_to(s) ==
  /\ SmCanCall("trans_to") /\ Live(s)
  /\ current # "none" => MayDrain(current)
  /\ Enter([op |-> "trans", pc |-> "check", to |-> s, level |-> FALSE, ok |-> TRUE,
            at |-> IF current = "none" THEN "start" ELSE "clear"])
  /\ server' = IF current = "none" THEN server
               ELSE [server EXCEPT ![current] = "stopped"]
  /\ UNCHANGED <<smVars, map, subs, mode, queue, msg, timerVars>>

TransAt(l) == stack # <<>> /\ IsTrans(Top) /\ Top.at = l

\* Mutants: the messages of the old state stay; its nodes are freed but their
\* references to the messages are not dropped.
clear_nothing ==
  /\ TransAt("clear")
  /\ Goto([Top EXCEPT !.at = "timers"])
  /\ UNCHANGED <<smVars, eventVars, timerVars>>

clear_unreleased ==
  /\ TransAt("clear")
  /\ queue' = [queue EXCEPT ![current] = <<>>]
  /\ Goto([Top EXCEPT !.at = "timers"])
  /\ UNCHANGED <<smVars, map, server, subs, mode, msg, timerVars>>

TransClear ==
  /\ TransAt("clear")
  /\ queue' = [queue EXCEPT ![current] = <<>>]
  /\ msg'   = Cleared(current)
  /\ stack' = <<[Top EXCEPT !.at = "timers"]>>
              \o (IF queue[current] = <<>> THEN Tail(stack)
                  ELSE Break(Tail(stack), DrainBreaks(Tail(stack), current)))
  /\ UNCHANGED <<smVars, map, server, subs, mode, masked, timerVars>>

\* Mutant: the timers of the old state stay.
timers_stay ==
  /\ TransAt("timers")
  /\ Goto([Top EXCEPT !.at = "start"])
  /\ UNCHANGED <<smVars, eventVars, timerVars>>

TransTimers ==
  /\ TransAt("timers")
  /\ RemoveTimers(current, bitmap[current])
  /\ Goto([Top EXCEPT !.at = "start"])
  /\ UNCHANGED <<sm, current, re, eventVars>>

\* Mutant: the handler is not told to go round again.
start_unnoticed ==
  /\ TransAt("start")
  /\ current' = Top.to
  /\ server'  = [server EXCEPT ![Top.to] = "started"]
  /\ Leave
  /\ UNCHANGED <<sm, re, bitmap, node, map, subs, mode, queue, msg, timerVars>>

TransStart ==
  /\ TransAt("start")
  /\ current' = Top.to
  /\ server'  = [server EXCEPT ![Top.to] = "started"]
  /\ re'      = TRUE
  /\ Leave
  /\ UNCHANGED <<sm, bitmap, node, map, subs, mode, queue, msg, timerVars>>
-----------------------------------------------------------------------------
(***************************************************************************)
(* sh_sm_handler.  `srv` is the server it read before serving the timers,  *)
(* whose callbacks may change the current state.                           *)
(***************************************************************************)
sh_sm_handler ==
  /\ SmCanCall("sm_handler") /\ current # "none"
  /\ Enter([op |-> "sm", pc |-> "check", at |-> "global", srv |-> "none",
            level |-> FALSE, ok |-> TRUE])
  /\ UNCHANGED <<smVars, eventVars, timerVars>>

HandlerAt(l) == stack # <<>> /\ IsSm(Top) /\ Top.at = l /\ Top.ok

\* The handler goes on at frame f, calling the functions of fs first.
Call(fs, f) == stack' = fs \o <<f>> \o Tail(stack) /\ UNCHANGED masked

HandlerGlobal ==
  /\ HandlerAt("global")
  /\ Call(<<TimerFrame(Global)>>, [Top EXCEPT !.at = "private", !.srv = current])
  /\ UNCHANGED <<smVars, eventVars, timerVars>>

HandlerPrivate ==
  /\ HandlerAt("private")
  /\ Call(<<TimerFrame(current)>>, [Top EXCEPT !.at = "event"])
  /\ UNCHANGED <<smVars, eventVars, timerVars>>

HandlerEvent ==
  /\ HandlerAt("event")
  /\ Call(IF queue[Top.srv] = <<>> THEN <<>> ELSE <<ExecFrame(Top.srv)>>,
          [Top EXCEPT !.at = "again"])
  /\ UNCHANGED <<smVars, eventVars, timerVars>>

HandlerAgain ==
  /\ HandlerAt("again")
  /\ IF re THEN Goto([Top EXCEPT !.at = "global"]) ELSE Leave
  /\ re' = FALSE
  /\ UNCHANGED <<sm, current, bitmap, node, eventVars, timerVars>>

sh_sm_publish_event(e) ==
  /\ SmCanCall("publish") /\ PublishEnter(e)
  /\ UNCHANGED <<smVars, timerVars>>
-----------------------------------------------------------------------------
(***************************************************************************)
(* Destruction.                                                            *)
(***************************************************************************)
\* Callers do not destroy the state the machine is in, is moving to or is
\* about to drain: the code would keep a pointer to it.
MayDestroy(s) ==
  Careful =>
    /\ s # current
    /\ \A i \in DOMAIN stack : /\ IsSm(stack[i]) => stack[i].srv # s \/ stack[i].at = "again"
                               /\ IsTrans(stack[i]) => stack[i].to # s
                               /\ i \notin ExecsOf(stack, s)

\* The server goes first, then the timers: those in the state's bitmap, looked
\* up in the current state.
sh_sm_state_destroy(s) ==
  /\ SmCanCall("state_destroy") /\ Live(s) /\ MayDestroy(s) /\ MayUnlink(s, Events)
  /\ ClearFirst => queue[s] = <<>>
  /\ server' = [server EXCEPT ![s] = IF queue[s] = <<>> THEN "absent" ELSE "freed"]
  /\ subs'   = [e \in Events |-> sh_list_remove(subs[e], s)]
  /\ mode'   = [mode EXCEPT ![s] = [e \in Events |-> "none"]]
  /\ IF current = "none" THEN UNCHANGED <<timerVars, node, bitmap>>
                         ELSE RemoveTimers(current, bitmap[s])
  /\ stack'  = Break(stack, UnlinkBreaks(stack, s, Events) \cup ExecsOf(stack, s))
  /\ UNCHANGED <<sm, current, re, map, queue, msg, masked>>

\* Destroys the states, the map and the global timers, not the normal timers:
\* callers destroy those first, and leave no message behind.
sh_sm_destroy ==
  /\ stack = <<>> /\ sm
  /\ Careful => \A t \in Timers : timer[t].live => IsNode(t)
  /\ ClearFirst => \A s \in Servers : queue[s] = <<>>
  /\ sm' = FALSE /\ map' = FALSE /\ current' = "none"
  /\ server' = [s \in Servers |-> IF queue[s] = <<>> THEN "absent" ELSE "freed"]
  /\ subs'   = [e \in Events |-> <<>>]
  /\ mode'   = [s \in Servers |-> [e \in Events |-> "none"]]
  /\ LET T == Nodes(Global, bitmap[Global])
               \cup (IF current = "none" THEN {}
                     ELSE UNION {Nodes(current, bitmap[s]) : s \in Servers})
     IN  /\ timer'  = [t \in Timers |-> IF t \in T THEN Absent ELSE timer[t]]
         /\ list'   = [g \in Heads |-> Without(list[g], T)]
         /\ age'    = [t \in Timers |-> IF t \in T THEN 0 ELSE age[t]]
         /\ node'   = [t \in Timers |-> IF t \in T THEN NoNode ELSE node[t]]
         /\ bitmap' = [h \in Heads |-> bitmap[h] \ {node[t].id : t \in {u \in T : node[u].ctrl = h}}]
  /\ UNCHANGED <<re, queue, msg, tick, isrVars>>
-----------------------------------------------------------------------------
SmSteps ==
  \/ SmOvertick \/ SmOvertickDone
  \/ TransClear \/ TransTimers \/ TransStart
  \/ HandlerGlobal \/ HandlerPrivate \/ HandlerEvent \/ HandlerAgain
  \/ EventSteps /\ UNCHANGED <<smVars, timerVars>>
  \/ TimerSteps /\ ~InOvertick /\ UNCHANGED <<smVars, eventVars>>

SmNext ==
  \/ SmSteps
  \/ Tick /\ UNCHANGED <<smVars, eventVars>>
  \/ sh_sm_create \/ sh_sm_destroy \/ sh_sm_handler
  \/ sh_sm_remove_all_global_timer
  \/ \E s \in Servers :
       \/ sh_sm_state_create(s) \/ sh_sm_state_destroy(s) \/ sh_sm_trans_to(s)
       \/ sh_sm_remove_state_all_timer(s)
       \/ \E e \in Events : \/ sh_sm_state_subscribe_event(s, e)
                            \/ sh_sm_state_unsubscribe_event(s, e)
  \/ \E e \in Events :
       \/ sh_sm_publish_event(e)
       \/ \E t \in Timers, ivl \in Intervals : \/ sh_sm_start_global_timer(t, ivl, e)
                                               \/ sh_sm_start_timer(t, ivl, e)
  \/ \E t \in Timers : \/ DestroyNormalTimer(t)
                       \/ \E ivl \in Intervals : sh_sm_start_normal_timer(t, ivl)
  \/ \E id \in 0 .. MaxIds - 1, private \in BOOLEAN : sh_sm_remove_timer(private, id)

SmSpec == SmInit /\ [][SmNext]_allVars
-----------------------------------------------------------------------------
SmTypeOK ==
  /\ sm \in BOOLEAN /\ re \in BOOLEAN
  /\ current \in Servers \cup {"none"}
  /\ bitmap \in [Heads -> SUBSET (0 .. MaxIds - 1)]
  /\ node \in [Timers -> [ctrl : Heads \cup {"none"}, ev : Events \cup {"none"},
                          id : 0 .. MaxIds - 1]]
  /\ stack \in Seq(PubFrames \cup ExecFrames \cup TimerFrames
                   \cup SmFrames \cup TransFrames \cup OvertickFrames)

(***************************************************************************)
(* Only the current state listens: no other server is started, and that of *)
(* the current state is, except while sh_sm_trans_to is on its way.        *)
(***************************************************************************)
OnlyCurrentStarted ==
  /\ \A s \in Servers : server[s] = "started" => s = current
  /\ current # "none" =>
       \/ server[current] = "started"
       \/ \E i \in DOMAIN stack : IsTrans(stack[i])

(***************************************************************************)
(* A state that was left is at rest: no message waits for it and none of   *)
(* its timers runs (sh_sm_trans_to clears both; publications and timers    *)
(* started in callbacks and interrupts during the transition, and events   *)
(* of timers that run out meanwhile, must not refill them).                *)
(* _sh_sm_remove_state_all_timer relies on it: it walks the bitmap of one  *)
(* state and removes from another, the current one.                        *)
(***************************************************************************)
LeftAtRest ==
  \A s \in Servers \ {current} :
    Live(s) => queue[s] = <<>> /\ bitmap[s] = {} /\ list[s] = <<>>

(***************************************************************************)
(* The three records of a timer of the machine agree: the id is set in the *)
(* bitmap of its timer_ctrl exactly while a node with this id exists, no   *)
(* two nodes of a timer_ctrl share an id, and the node's timer runs on the *)
(* list of that timer_ctrl unless its callback is being called.            *)
(***************************************************************************)
NodesAgree ==
  /\ \A h \in Heads :
       bitmap[h] = {node[t].id : t \in {u \in Timers : node[u].ctrl = h}}
  /\ \A t, u \in Timers :
       IsNode(t) /\ node[u].ctrl = node[t].ctrl /\ node[u].id = node[t].id => t = u
  /\ \A t \in Timers :
       IsNode(t) => \/ OnList(list[node[t].ctrl], t)
                    \/ \E i \in DOMAIN stack : /\ IsTmr(stack[i])
                                               /\ stack[i].pc = "cb" /\ stack[i].cur = t

(***************************************************************************)
(* sh_sm_handler does not return before it has served the state the        *)
(* machine is in: if a callback changed the state after the handler read   *)
(* the server, it goes round again (re_execute).                           *)
(***************************************************************************)
ServesCurrent ==
  \A i \in DOMAIN stack :
    IsSm(stack[i]) /\ stack[i].at = "again" /\ ~re => stack[i].srv = current

\* Interrupts end and do not starve what they preempted, and the main loop
\* calls sh_sm_handler again and again (example/sh_sm_example.c).
SmFairness ==
  /\ \A d \in 1 .. MaxDepth + 3 : SF_allVars(Len(stack) = d /\ SmSteps)
  /\ SF_allVars(stack = <<>> /\ sh_sm_handler)

SmFairSpec == SmSpec /\ SmFairness

(***************************************************************************)
(* An event queued for a state is handled, or dropped by a transition: it  *)
(* does not wait for ever although sh_sm_handler serves only the current   *)
(* state.                                                                  *)
(***************************************************************************)
EventServed ==
  \A s \in Servers, m \in Msgs :
    m \in ToSet(queue[s]) ~> m \notin ToSet(queue[s])
=============================================================================
