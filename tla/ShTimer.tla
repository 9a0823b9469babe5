------------------------------ MODULE ShTimer ------------------------------
(***************************************************************************)
(* The software timers of sh_lib, Src/sh_timer.c: lists of timers sorted   *)
(* by the tick at which they run out, and a handler that fires those that  *)
(* have.  Ticks are unsigned and wrap: uint32_t is 0 .. Modulus-1 here,    *)
(* with Half = Modulus / 2 in the place of 2^31.                           *)
(***************************************************************************)
EXTENDS ShIsr, ShList, Integers

CONSTANTS Timers, Heads,
          Half,         \* 2^31 in the code
          Intervals,    \* the interval_tick values callers ask for
          NullCbModes,  \* the modes in which timers without callback are used
          MaxTick,      \* the tick counter stops here (Modulus-1: it wraps)
          MaxLag        \* bound on how late the handler is called, in ticks

Modulus == 2 * Half
Ticks == 0 .. Modulus - 1

ASSUME TimerAssumption ==
  /\ Half \in Nat \ {0, 1}
  /\ Intervals \subseteq Ticks \ {0}
  /\ NullCbModes \subseteq {"single", "loop"}
  /\ MaxTick \in Ticks /\ MaxLag \in 1 .. Half - 1
  /\ "head" \notin Timers

VARIABLES tick,    \* what sh_timer_get_tick returns
          timer,   \* timer[t]: sh_timer_t, or Absent when not allocated
          list,    \* list[h]: the timers running on the list of head h
          age      \* age[t]: ticks since t was started (not in the code)

timerVars == <<tick, timer, list, age>>

\* Mutants: sums that do not wrap; a comparison that does not.
plus_unbounded(a, b) == a + b
timed_out_raw(now, set_tick) == now >= set_tick

\* uint32_t addition and subtraction
Plus(a, b)  == IF a + b < Modulus THEN a + b ELSE a + b - Modulus
Minus(a, b) == IF a >= b THEN a - b ELSE a - b + Modulus

\* (int32_t)(now - set_tick) >= 0
sh_timer_is_time_out(now, set_tick) == Minus(now, set_tick) < Half

Absent == [live |-> FALSE, mode |-> "single", cb |-> FALSE, ivl |-> 0, over |-> 0]

TimerFrames == [op : {"tmr"}, pc : {"check", "loop", "cb"}, head : Heads,
                now : Ticks, cur : Timers \cup {"head"},
                level : BOOLEAN, ok : BOOLEAN]

IsTmr(f) == f.op = "tmr"

Running(t) == \E h \in Heads : OnList(list[h], t)

TimerInit ==
  /\ IsrInit
  /\ tick  = 0
  /\ timer = [t \in Timers |-> Absent]
  /\ list  = [h \in Heads |-> <<>>]
  /\ age   = [t \in Timers |-> 0]
-----------------------------------------------------------------------------
(***************************************************************************)
(* Starting and stopping, as functions on the lists.                       *)
(***************************************************************************)
\* The timer leaves the list it is on, whichever that is.
Unlinked(ls, t) == [h \in Heads |-> sh_list_remove(ls[h], t)]

\* Mutants: always last; always first.
sorted_last(l, t, over)  == Append(l, t)
sorted_first(l, t, over) == <<t>> \o l

\* Behind every timer that runs out no later, comparing raw tick values.
Sorted(l, t, over) ==
  LET later == {i \in DOMAIN l : over < timer[l[i]].over}
  IN  IF later = {} THEN Append(l, t)
      ELSE sh_list_insert_before(l, t, Min(later))

\* Mutant: any interval is accepted.
start_any(ivl) == TRUE

StartOk(ivl) == ivl <= Half - 1

\* Mutant: a timer that is running is not taken off its list first.
start_linked(ls, t, h, now, ivl) ==
  /\ timer' = [timer EXCEPT ![t].ivl = ivl, ![t].over = Plus(now, ivl)]
  /\ list'  = IF Len(ls[h]) > 2 THEN ls
              ELSE [ls EXCEPT ![h] = Sorted(ls[h], t, Plus(now, ivl))]
  /\ age'   = [age EXCEPT ![t] = Minus(tick, now)]

\* sh_timer_start(t, h, now, ivl) with lists ls; age is the time since now.
Start(ls, t, h, now, ivl) ==
  /\ timer' = [timer EXCEPT ![t].ivl = ivl, ![t].over = Plus(now, ivl)]
  /\ list'  = LET l == Unlinked(ls, t)
              IN  [l EXCEPT ![h] = Sorted(l[h], t, Plus(now, ivl))]
  /\ age'   = [age EXCEPT ![t] = Minus(tick, now)]
-----------------------------------------------------------------------------
(***************************************************************************)
(* The functions of the interface.                                         *)
(***************************************************************************)
sh_timer_create(t, mode, cb) ==
  /\ CanCall("timer_create") /\ ~timer[t].live
  /\ cb \/ mode \in NullCbModes
  /\ timer' = [timer EXCEPT ![t] = [live |-> TRUE, mode |-> mode, cb |-> cb,
                                    ivl |-> 0, over |-> 0]]
  /\ UNCHANGED <<tick, list, age, isrVars>>

\* Without memory sh_timer_create returns from inside its critical section.
sh_timer_create_fails ==
  /\ CanCall("timer_create") /\ AllocFails
  /\ masked' = TRUE
  /\ UNCHANGED <<timerVars, stack>>

sh_timer_destroy(t) ==
  /\ CanCall("timer_destroy") /\ timer[t].live
  /\ list'  = Unlinked(list, t)
  /\ timer' = [timer EXCEPT ![t] = Absent]
  /\ age'   = [age EXCEPT ![t] = 0]
  /\ UNCHANGED <<tick, isrVars>>

sh_timer_set_mode(t, mode) ==
  /\ CanCall("timer_set_mode") /\ timer[t].live
  /\ timer[t].cb \/ mode \in NullCbModes
  /\ timer' = [timer EXCEPT ![t].mode = mode]
  /\ UNCHANGED <<tick, list, age, isrVars>>

\* The caller passes the current tick.  A refused interval (-1) still takes
\* the timer off its list.
sh_timer_start(t, h, ivl) ==
  /\ CanCall("timer_start") /\ timer[t].live
  /\ IF StartOk(ivl) THEN Start(list, t, h, tick, ivl)
                     ELSE list' = Unlinked(list, t) /\ UNCHANGED <<timer, age>>
  /\ UNCHANGED <<tick, isrVars>>

\* sh_timer_start asserts that the interval it is given is not 0.
sh_timer_restart(t, h) ==
  /\ CanCall("timer_restart") /\ timer[t].live /\ timer[t].ivl # 0
  /\ Start(list, t, h, tick, timer[t].ivl)
  /\ UNCHANGED <<tick, isrVars>>

sh_timer_stop(t) ==
  /\ CanCall("timer_stop") /\ Running(t)
  /\ list' = Unlinked(list, t)
  /\ UNCHANGED <<tick, timer, age, isrVars>>
-----------------------------------------------------------------------------
(***************************************************************************)
(* sh_timer_handler.  The tick is read (pc "check") before interrupts are  *)
(* disabled.  In the loop `cur` is the node the loop is at.                *)
(***************************************************************************)
TimerFrame(h) == [op |-> "tmr", pc |-> "check", head |-> h, now |-> tick,
                  cur |-> "head", level |-> FALSE, ok |-> TRUE]

sh_timer_handler(h) ==
  CanCall("timer_handler") /\ Enter(TimerFrame(h)) /\ UNCHANGED timerVars

TimerLock ==
  /\ stack # <<>> /\ IsTmr(Top) /\ Top.pc = "check"
  /\ sh_isr_disable([Top EXCEPT !.pc = "loop"])
  /\ UNCHANGED timerVars

\* node->next of the node a pass is at: a timer that was stopped and not
\* started again points to itself.
NodeAfter(f) ==
  LET l == list[f.head]
      i == IF f.cur = "head" THEN 1 ELSE Position(l, f.cur) + 1
  IN  IF f.cur # "head" /\ ~OnList(l, f.cur) THEN f.cur
      ELSE IF i > Len(l) THEN "head" ELSE l[i]

InPass == stack # <<>> /\ IsTmr(Top) /\ Top.pc = "loop"

\* The loop has come to the head or to a timer that has not run out.
PassEnds ==
  /\ InPass
  /\ NodeAfter(Top) # "head" =>
       ~sh_timer_is_time_out(Top.now, timer[NodeAfter(Top)].over)

\* Mutant: the pass returns without enabling interrupts.
pass_masked == PassEnds /\ Leave /\ UNCHANGED timerVars

TimerDone == PassEnds /\ sh_isr_enable /\ UNCHANGED timerVars

\* Mutant: only LOOP timers are taken off the list.
fire_keeps_single(t) ==
  /\ InPass /\ ~PassEnds /\ t = NodeAfter(Top)
  /\ IF timer[t].mode = "loop"
     THEN Start(Unlinked(list, t), t, Top.head, Top.now, timer[t].ivl)
     ELSE UNCHANGED <<list, timer, age>>
  /\ Goto([Top EXCEPT !.cur = t, !.pc = IF timer[t].cb THEN "cb" ELSE "loop"])
  /\ UNCHANGED tick

\* A timer that has run out is stopped, started again if it is a LOOP timer,
\* and its callback, if any, is called.
TimerFire(t) ==
  /\ InPass /\ ~PassEnds /\ t = NodeAfter(Top)
  /\ IF timer[t].mode = "loop"
     THEN Start(Unlinked(list, t), t, Top.head, Top.now, timer[t].ivl)
     ELSE list' = Unlinked(list, t) /\ UNCHANGED <<timer, age>>
  /\ Goto([Top EXCEPT !.cur = t, !.pc = IF timer[t].cb THEN "cb" ELSE "loop"])
  /\ UNCHANGED tick

\* Mutant: the pass goes on from the node it was at.
return_continues ==
  /\ stack # <<>> /\ IsTmr(Top) /\ Top.pc = "cb"
  /\ Goto([Top EXCEPT !.pc = "loop"])
  /\ UNCHANGED timerVars

\* After a callback the pass starts over from the head (goto restart).
TimerCbReturn ==
  /\ stack # <<>> /\ IsTmr(Top) /\ Top.pc = "cb"
  /\ Goto([Top EXCEPT !.pc = "loop", !.cur = "head"])
  /\ UNCHANGED timerVars

\* The first timer of h has run out MaxLag ticks ago and is not served yet.
Neglected(h) ==
  /\ list[h] # <<>>
  /\ Minus(tick, timer[list[h][1]].over) \in MaxLag .. Half - 1

\* Time passes, with interrupts on or off.  The handler is called, and its
\* passes end, within MaxLag ticks of the moment the first timer runs out.
Tick ==
  /\ tick < MaxTick \/ MaxTick = Modulus - 1
  /\ \A h \in Heads : ~Neglected(h)
  /\ \A i \in DOMAIN stack : IsTmr(stack[i]) => Minus(tick, stack[i].now) < MaxLag
  /\ tick' = Plus(tick, 1)
  /\ age'  = [t \in Timers |-> IF Running(t) /\ age[t] < Modulus
                               THEN age[t] + 1 ELSE age[t]]
  /\ UNCHANGED <<timer, list, isrVars>>
-----------------------------------------------------------------------------
TimerSteps ==
  \/ TimerLock \/ TimerDone \/ TimerCbReturn
  \/ \E t \in Timers : TimerFire(t)

TimerNext ==
  \/ TimerSteps \/ Tick \/ sh_timer_create_fails
  \/ \E h \in Heads : sh_timer_handler(h)
  \/ \E t \in Timers :
       \/ sh_timer_destroy(t) \/ sh_timer_stop(t)
       \/ \E mode \in {"single", "loop"} :
            \/ sh_timer_set_mode(t, mode)
            \/ \E cb \in BOOLEAN : sh_timer_create(t, mode, cb)
       \/ \E h \in Heads : \/ sh_timer_restart(t, h)
                           \/ \E ivl \in Intervals : sh_timer_start(t, h, ivl)

TimerSpec == TimerInit /\ [][TimerNext]_<<timerVars, isrVars>>

\* Interrupts end and do not starve what they preempted, time goes on, and
\* the main loop calls the handler of every list again and again.
TimerFairness ==
  /\ \A d \in 1..MaxDepth :
       SF_<<timerVars, isrVars>>(Len(stack) = d /\ TimerSteps)
  /\ \A h \in Heads :
       SF_<<timerVars, isrVars>>(stack = <<>> /\ sh_timer_handler(h))
  /\ SF_<<timerVars, isrVars>>(Tick)

TimerFairSpec == TimerSpec /\ TimerFairness
-----------------------------------------------------------------------------
TimerTypeOK ==
  /\ tick \in Ticks
  /\ timer \in [Timers -> [live : BOOLEAN, mode : {"single", "loop"},
                           cb : BOOLEAN, ivl : Ticks, over : Ticks]]
  /\ list \in [Heads -> Seq(Timers)]
  /\ age \in [Timers -> 0 .. Modulus]
  /\ masked \in BOOLEAN
  /\ stack \in Seq(TimerFrames)

(***************************************************************************)
(* The links are sound: a timer is on at most one list and once, and only  *)
(* if it is allocated and has a valid interval, whatever mix of start,     *)
(* stop, restart and destroy callbacks and interrupts apply to it          *)
(* (sh_timer_start removes before it inserts).                             *)
(***************************************************************************)
LinkedOnce ==
  /\ \A t \in Timers, h \in Heads :
       OnList(list[h], t) =>
         /\ timer[t].live /\ timer[t].ivl \in 1 .. Half - 1
         /\ Cardinality(Occurs(t, list[h])) = 1
         /\ \A g \in Heads \ {h} : ~OnList(list[g], t)

(***************************************************************************)
(* When a pass of sh_timer_handler ends it leaves no timer behind that had *)
(* run out at the tick it works with: stopping at the first timer that has *)
(* not is enough, because the list is sorted.                              *)
(***************************************************************************)
PassComplete ==
  PassEnds => \A t \in Timers :
                OnList(list[Top.head], t) =>
                  ~sh_timer_is_time_out(Top.now, timer[t].over)

(***************************************************************************)
(* No timer fires early: when sh_timer_handler takes t off its list        *)
(* because it has run out, at least interval_tick ticks have passed since  *)
(* it was started, across a wrap of the tick counter too.  The limit on    *)
(* interval_tick in sh_timer_start is what makes this true.                *)
(***************************************************************************)
NeverEarly ==
  [][\A t \in Timers : TimerFire(t) => age[t] >= timer[t].ivl]_<<timerVars, isrVars>>

(***************************************************************************)
(* A timer that was stopped, destroyed or refused does not fire, even when *)
(* that happens in the callback of another timer in the same pass (the     *)
(* reason for sh_timer_handler's goto restart).                            *)
(***************************************************************************)
OnlyRunningFires ==
  [][\A t \in Timers : TimerFire(t) => OnList(list[Top.head], t)]_<<timerVars, isrVars>>

(***************************************************************************)
(* A timer is served in time: if the handler serves the first timer of a   *)
(* list within MaxLag ticks, every timer fires, is stopped or is started   *)
(* again within MaxLag ticks of the moment it runs out.                    *)
(***************************************************************************)
OnTime == \A t \in Timers : Running(t) => age[t] <= timer[t].ivl + MaxLag

(***************************************************************************)
(* Weaker, and all that is left to ask when the tick counter wraps: no     *)
(* running timer is passed over until its overtick is half the range of    *)
(* the counter in the past, when it stops counting as run out.             *)
(* test/test_sh_timer.cpp tests the comparison that this relies on.        *)
(***************************************************************************)
NotLost == \A t \in Timers : Running(t) => age[t] < timer[t].ivl + Half

(***************************************************************************)
(* A handler pass ends, whatever its callbacks start, so that interrupts   *)
(* do not stay disabled.                                                   *)
(***************************************************************************)
PassReturns == masked ~> ~masked

(***************************************************************************)
(* The handler keeps up with time: called again and again it never falls   *)
(* behind so far that the bound MaxLag holds time back for ever.           *)
(***************************************************************************)
TimeGoesOn == []<><<Tick>>_<<timerVars, isrVars>>
=============================================================================
