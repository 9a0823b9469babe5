--------------------------- MODULE ShTimerProofs ---------------------------
(***************************************************************************)
(* Theorems about the timers, for every set of timers and lists, every     *)
(* width of the tick counter and every depth of nesting.                   *)
(***************************************************************************)
EXTENDS ShTimer, ShLemmas

Lists == [Heads -> Seq(Timers)]

TimerRecords == [live : BOOLEAN, mode : {"single", "loop"}, cb : BOOLEAN,
                 ivl : Ticks, over : Ticks]

-----------------------------------------------------------------------------
(***************************************************************************)
(* Ticks and lists.                                                        *)
(***************************************************************************)
\* Sums and differences of ticks are ticks.
LEMMA TickArithmetic ==
  ASSUME NEW a \in Ticks, NEW b \in Ticks
  PROVE  /\ Plus(a, b) \in Ticks /\ Minus(a, b) \in Ticks
         /\ Minus(a, b) \in 0 .. Modulus /\ Modulus \in Nat /\ 0 \in Ticks
BY TimerAssumption DEF Plus, Minus, Ticks, Modulus

\* A nonempty set of list positions has a least element.
LEMMA MinProperties ==
  ASSUME NEW P \in SUBSET Nat, P # {}
  PROVE  Min(P) \in P /\ \A y \in P : Min(P) <= y
<1>1. \E x \in P : \A y \in P : x <= y
  BY Least
<1> QED BY <1>1 DEF Min

\* Unlinked takes t off every list and changes nothing else.
LEMMA UnlinkedProperties ==
  ASSUME NEW ls \in Lists, NEW t \in Timers
  PROVE  /\ Unlinked(ls, t) \in Lists
         /\ \A h \in Heads, y \in Timers :
              y # t => (OnList(Unlinked(ls, t)[h], y) <=> OnList(ls[h], y))
         /\ (\A h \in Heads : Once(ls[h])) =>
              \A h \in Heads : /\ ~OnList(Unlinked(ls, t)[h], t)
                               /\ Once(Unlinked(ls, t)[h])
<1>1. \A h \in Heads : ls[h] \in Seq(Timers)
  BY DEF Lists
<1>2. \A h \in Heads : Unlinked(ls, t)[h] = sh_list_remove(ls[h], t)
  BY DEF Unlinked
<1>3. \A h \in Heads :
        /\ sh_list_remove(ls[h], t) \in Seq(Timers)
        /\ \A y : y # t => (OnList(sh_list_remove(ls[h], t), y) <=> OnList(ls[h], y))
        /\ Once(ls[h]) => /\ ~OnList(sh_list_remove(ls[h], t), t)
                          /\ Once(sh_list_remove(ls[h], t))
  BY <1>1, RemoveProperties
<1>4. Unlinked(ls, t) \in Lists
  BY <1>3 DEF Unlinked, Lists
<1> QED BY <1>2, <1>3, <1>4

\* Sorted puts t on the list, wherever that is.
LEMMA SortedProperties ==
  ASSUME NEW l \in Seq(Timers), NEW t \in Timers, NEW over
  PROVE  /\ Sorted(l, t, over) \in Seq(Timers)
         /\ \A y : OnList(Sorted(l, t, over), y) <=> y = t \/ OnList(l, y)
         /\ Once(l) /\ ~OnList(l, t) => Once(Sorted(l, t, over))
<1> DEFINE later == {i \in DOMAIN l : over < timer[l[i]].over}
<1>1. DOMAIN l \subseteq Nat
  BY LenProperties
<1>2. CASE later = {}
  BY <1>2, AppendOnceProperties DEF Sorted
<1>3. CASE later # {}
  <2>1. Min(later) \in DOMAIN l
    BY <1>1, <1>3, MinProperties
  <2>2. Sorted(l, t, over) = sh_list_insert_before(l, t, Min(later))
    BY <1>3 DEF Sorted
  <2> DEFINE k == Min(later)
             r == sh_list_insert_before(l, t, k)
  <2> HIDE DEF later
  <2>3. k \in DOMAIN l
    BY <2>1
  <2> HIDE DEF k
  <2>4. /\ r \in Seq(Timers)
        /\ \A y : OnList(r, y) <=> y = t \/ OnList(l, y)
        /\ Once(l) /\ ~OnList(l, t) => Once(r)
    BY <2>3, InsertProperties
  <2>5. Sorted(l, t, over) = r
    BY <2>2 DEF k
  <2> QED BY <2>4, <2>5
<1> QED BY <1>2, <1>3

\* sh_timer_start leaves t on the list of h and on no other.
LEMMA StartProperties ==
  ASSUME NEW ls \in Lists, NEW t \in Timers, NEW h \in Heads, NEW now, NEW ivl,
         Start(ls, t, h, now, ivl)
  PROVE  /\ list' \in Lists
         /\ \A g \in Heads, y \in Timers :
              y # t => (OnList(list'[g], y) <=> OnList(ls[g], y))
         /\ (\A g \in Heads : Once(ls[g])) =>
              \A g \in Heads : /\ Once(list'[g])
                               /\ OnList(list'[g], t) <=> g = h
<1> DEFINE l == Unlinked(ls, t)
           s == Sorted(l[h], t, Plus(now, ivl))
<1>1. /\ l \in Lists
      /\ \A g \in Heads, y \in Timers : y # t => (OnList(l[g], y) <=> OnList(ls[g], y))
      /\ (\A g \in Heads : Once(ls[g])) =>
           \A g \in Heads : ~OnList(l[g], t) /\ Once(l[g])
  BY UnlinkedProperties
<1>2. list' = [l EXCEPT ![h] = s]
  BY DEF Start
<1>3. l[h] \in Seq(Timers)
  BY <1>1 DEF Lists
<1>4. /\ s \in Seq(Timers)
      /\ \A y : OnList(s, y) <=> y = t \/ OnList(l[h], y)
      /\ Once(l[h]) /\ ~OnList(l[h], t) => Once(s)
  BY <1>3, SortedProperties
<1> HIDE DEF l, s
<1>5. /\ list' \in Lists
      /\ \A g \in Heads : list'[g] = IF g = h THEN s ELSE l[g]
  BY <1>1, <1>2, <1>4 DEF Lists
<1>6. \A g \in Heads, y \in Timers : y # t => (OnList(list'[g], y) <=> OnList(ls[g], y))
  BY <1>1, <1>4, <1>5
<1>7. ASSUME \A g \in Heads : Once(ls[g]), NEW g \in Heads
      PROVE  Once(list'[g]) /\ (OnList(list'[g], t) <=> g = h)
  BY <1>1, <1>4, <1>5, <1>7
<1> QED BY <1>5, <1>6, <1>7
-----------------------------------------------------------------------------
(***************************************************************************)
(* Types.                                                                  *)
(***************************************************************************)
allTimerVars == <<timerVars, isrVars>>

\* What starting a timer does to the types of timer, list and age.
LEMMA StartTypes ==
  ASSUME TimerTypeOK, NEW ls \in Lists, NEW t \in Timers, NEW h \in Heads,
         NEW now \in Ticks, NEW ivl \in Ticks, Start(ls, t, h, now, ivl)
  PROVE  /\ timer' \in [Timers -> TimerRecords] /\ list' \in Lists
         /\ age' \in [Timers -> 0 .. Modulus]
         /\ timer' = [timer EXCEPT ![t].ivl = ivl, ![t].over = Plus(now, ivl)]
<1>1. Plus(now, ivl) \in Ticks /\ Minus(tick, now) \in 0 .. Modulus
  BY TickArithmetic DEF TimerTypeOK
<1>2. list' \in Lists
  BY StartProperties
<1>3. timer' = [timer EXCEPT ![t].ivl = ivl, ![t].over = Plus(now, ivl)]
  BY DEF Start
<1>4. timer \in [Timers -> TimerRecords]
  BY DEF TimerTypeOK, TimerRecords
<1>5. timer' \in [Timers -> TimerRecords]
  <2> DEFINE r == [timer[t] EXCEPT !.ivl = ivl, !.over = Plus(now, ivl)]
  <2>1. timer[t] \in TimerRecords
    BY <1>4
  <2>2. r \in TimerRecords
    BY <1>1, <2>1 DEF TimerRecords
  <2>3. timer' = [timer EXCEPT ![t] = r]
    BY <1>3, <1>4
  <2> HIDE DEF r
  <2> QED BY <1>4, <2>2, <2>3
<1>6. age' \in [Timers -> 0 .. Modulus]
  BY <1>1 DEF Start, TimerTypeOK
<1> QED BY <1>2, <1>3, <1>5, <1>6

\* Every step keeps the types.
LEMMA TypeStep ==
  ASSUME TimerTypeOK, [TimerNext]_allTimerVars
  PROVE  TimerTypeOK'
<1> USE DEF TimerTypeOK, Lists, TimerRecords
<1>1. CASE UNCHANGED allTimerVars
  BY <1>1 DEF allTimerVars, timerVars, isrVars
<1>2. ASSUME NEW h \in Heads, sh_timer_handler(h) PROVE TimerTypeOK'
  <2>1. TimerFrame(h) \in TimerFrames
    BY DEF TimerFrame, TimerFrames
  <2>2. stack' \in Seq(TimerFrames)
    BY <1>2, <2>1, PushFrames DEF sh_timer_handler, Enter
  <2> QED BY <1>2, <2>2 DEF sh_timer_handler, Enter, timerVars
<1>3. CASE TimerLock
  <2> DEFINE g == [[Top EXCEPT !.pc = "loop"] EXCEPT !.level = masked]
  <2>1. Top \in TimerFrames
    BY <1>3, TailFrames DEF TimerLock
  <2>2. g \in TimerFrames
    BY <2>1 DEF TimerFrames
  <2>3. stack' = [stack EXCEPT ![1] = g] /\ masked' = TRUE
    BY <1>3 DEF TimerLock, sh_isr_disable
  <2>4. stack' \in Seq(TimerFrames)
    BY <1>3, <2>2, <2>3, TailFrames, ExceptSeq DEF TimerLock
  <2> QED BY <1>3, <2>3, <2>4 DEF TimerLock, timerVars
<1>4. CASE TimerDone
  <2>1. stack # <<>> /\ stack' = Tail(stack) /\ masked' = Top.level
    BY <1>4 DEF TimerDone, PassEnds, InPass, sh_isr_enable
  <2>2. stack' \in Seq(TimerFrames) /\ Top \in TimerFrames
    BY <2>1, TailFrames
  <2>3. masked' \in BOOLEAN
    BY <2>1, <2>2 DEF TimerFrames
  <2> QED BY <1>4, <2>2, <2>3 DEF TimerDone, timerVars
<1>5. CASE TimerCbReturn
  <2>1. Top \in TimerFrames
    BY <1>5, TailFrames DEF TimerCbReturn
  <2>2. [Top EXCEPT !.pc = "loop", !.cur = "head"] \in TimerFrames
    BY <2>1 DEF TimerFrames
  <2>3. stack' \in Seq(TimerFrames)
    BY <1>5, <2>2, TailFrames, ExceptSeq DEF TimerCbReturn, Goto
  <2> QED BY <1>5, <2>3 DEF TimerCbReturn, Goto, timerVars
<1>6. ASSUME NEW t \in Timers, TimerFire(t) PROVE TimerTypeOK'
  <2> DEFINE f == [Top EXCEPT !.cur = t, !.pc = IF timer[t].cb THEN "cb" ELSE "loop"]
  <2>1. stack # <<>> /\ Top \in TimerFrames
    BY <1>6, TailFrames DEF TimerFire, InPass
  <2>2. f \in TimerFrames /\ Top.head \in Heads /\ Top.now \in Ticks
    BY <2>1 DEF TimerFrames
  <2>3. stack' \in Seq(TimerFrames) /\ masked' = masked /\ tick' = tick
    BY <1>6, <2>1, <2>2, TailFrames, ExceptSeq DEF TimerFire, Goto
  <2>4. Unlinked(list, t) \in Lists
    BY UnlinkedProperties
  <2>5. /\ timer' \in [Timers -> TimerRecords] /\ list' \in Lists
        /\ age' \in [Timers -> 0 .. Modulus]
    <3>1. CASE timer[t].mode = "loop"
      <4>1. Start(Unlinked(list, t), t, Top.head, Top.now, timer[t].ivl)
        BY <1>6, <3>1 DEF TimerFire
      <4>2. timer[t].ivl \in Ticks
        OBVIOUS
      <4> HIDE DEF TimerTypeOK, Lists, TimerRecords
      <4> QED BY <2>2, <2>4, <4>1, <4>2, StartTypes
    <3>2. CASE timer[t].mode # "loop"
      BY <1>6, <2>4, <3>2 DEF TimerFire
    <3> QED BY <3>1, <3>2
  <2> QED BY <2>3, <2>5
<1>7. CASE Tick
  <2>1. tick' \in Ticks
    <3>1. 1 \in Ticks
      BY TimerAssumption DEF Ticks, Modulus
    <3> QED BY <1>7, <3>1, TickArithmetic DEF Tick
  <2>2. age' \in [Timers -> 0 .. Modulus]
    BY <1>7, TimerAssumption DEF Tick, Modulus
  <2> QED BY <1>7, <2>1, <2>2 DEF Tick, isrVars
<1>8. CASE sh_timer_create_fails
  BY <1>8 DEF sh_timer_create_fails, timerVars
<1>9. ASSUME NEW t \in Timers, sh_timer_destroy(t) PROVE TimerTypeOK'
  <2>1. Absent \in TimerRecords /\ 0 \in 0 .. Modulus
    BY TimerAssumption DEF Absent, Ticks, Modulus
  <2>2. list' \in Lists
    BY <1>9, UnlinkedProperties DEF sh_timer_destroy
  <2> QED BY <1>9, <2>1, <2>2 DEF sh_timer_destroy, isrVars
<1>10. ASSUME NEW t \in Timers, sh_timer_stop(t) PROVE TimerTypeOK'
  <2>1. list' \in Lists
    BY <1>10, UnlinkedProperties DEF sh_timer_stop
  <2> QED BY <1>10, <2>1 DEF sh_timer_stop, isrVars
<1>11. ASSUME NEW t \in Timers, NEW mode \in {"single", "loop"}, sh_timer_set_mode(t, mode)
       PROVE  TimerTypeOK'
  BY <1>11 DEF sh_timer_set_mode, isrVars
<1>12. ASSUME NEW t \in Timers, NEW mode \in {"single", "loop"}, NEW cb \in BOOLEAN,
              sh_timer_create(t, mode, cb)
       PROVE  TimerTypeOK'
  <2>1. [live |-> TRUE, mode |-> mode, cb |-> cb, ivl |-> 0, over |-> 0] \in TimerRecords
    BY TimerAssumption DEF Ticks, Modulus
  <2> QED BY <1>12, <2>1 DEF sh_timer_create, isrVars
<1>13. ASSUME NEW t \in Timers, NEW h \in Heads, sh_timer_restart(t, h)
       PROVE  TimerTypeOK'
  <2>1. Start(list, t, h, tick, timer[t].ivl) /\ timer[t].ivl \in Ticks
    BY <1>13 DEF sh_timer_restart
  <2>2. /\ timer' \in [Timers -> TimerRecords] /\ list' \in Lists
        /\ age' \in [Timers -> 0 .. Modulus]
    <3>1. tick \in Ticks /\ list \in Lists
      OBVIOUS
    <3> HIDE DEF TimerTypeOK, Lists, TimerRecords
    <3> QED BY <2>1, <3>1, StartTypes
  <2> QED BY <1>13, <2>2 DEF sh_timer_restart, isrVars
<1>14. ASSUME NEW t \in Timers, NEW h \in Heads, NEW ivl \in Intervals,
              sh_timer_start(t, h, ivl)
       PROVE  TimerTypeOK'
  <2>1. /\ timer' \in [Timers -> TimerRecords] /\ list' \in Lists
        /\ age' \in [Timers -> 0 .. Modulus]
    <3>1. tick \in Ticks /\ list \in Lists /\ ivl \in Ticks
      BY TimerAssumption
    <3>2. CASE StartOk(ivl)
      <4>1. Start(list, t, h, tick, ivl)
        BY <1>14, <3>2 DEF sh_timer_start
      <4> HIDE DEF TimerTypeOK, Lists, TimerRecords
      <4> QED BY <3>1, <4>1, StartTypes
    <3>3. CASE ~StartOk(ivl)
      <4>1. list' = Unlinked(list, t) /\ timer' = timer /\ age' = age
        BY <1>14, <3>3 DEF sh_timer_start
      <4>2. Unlinked(list, t) \in Lists
        BY UnlinkedProperties
      <4> QED BY <4>1, <4>2
    <3> QED BY <3>2, <3>3
  <2>2. tick' = tick /\ stack' = stack /\ masked' = masked
    BY <1>14 DEF sh_timer_start, isrVars
  <2> QED BY <2>1, <2>2
<1> QED
  BY <1>1, <1>2, <1>3, <1>4, <1>5, <1>6, <1>7, <1>8, <1>9, <1>10, <1>11, <1>12,
     <1>13, <1>14 DEF TimerNext, TimerSteps

\* At the start no timer is allocated, and the types are right.
LEMMA TypeInit == TimerInit => TimerTypeOK
<1> SUFFICES ASSUME TimerInit PROVE TimerTypeOK
  OBVIOUS
<1>1. 0 \in Ticks /\ 0 \in 0 .. Modulus
  BY TimerAssumption DEF Ticks, Modulus
<1>2. timer \in [Timers -> TimerRecords]
  BY <1>1 DEF TimerInit, Absent, TimerRecords
<1>3. list \in [Heads -> Seq(Timers)] /\ age \in [Timers -> 0 .. Modulus]
  BY <1>1 DEF TimerInit
<1>4. stack \in Seq(TimerFrames) /\ masked \in BOOLEAN
  BY EmptySeq DEF TimerInit, IsrInit
<1> QED BY <1>1, <1>2, <1>3, <1>4 DEF TimerTypeOK, TimerRecords, TimerInit

(***************************************************************************)
(* Type correctness: ticks, intervals and overticks stay within the range  *)
(* of uint32_t, and only functions of the timers are on the stack.         *)
(***************************************************************************)
THEOREM TimerTypeCorrect == TimerSpec => []TimerTypeOK
<1>1. TimerTypeOK /\ [TimerNext]_allTimerVars => TimerTypeOK'
  BY TypeStep
<1> QED BY <1>1, TypeInit, PTL DEF TimerSpec, allTimerVars
-----------------------------------------------------------------------------
(***************************************************************************)
(* Interrupts.                                                             *)
(***************************************************************************)
\* Every step keeps MaskDiscipline, as long as sh_timer_create finds memory.
LEMMA MaskStep ==
  ASSUME ~AllocFails, TimerTypeOK, MaskDiscipline, [TimerNext]_allTimerVars
  PROVE  MaskDiscipline'
<1>1. stack \in Seq(TimerFrames)
  BY DEF TimerTypeOK
<1>2. CASE UNCHANGED isrVars
  BY <1>2 DEF isrVars, MaskDiscipline, Locked
<1>3. ASSUME NEW h \in Heads, sh_timer_handler(h) PROVE MaskDiscipline'
  <2>1. TimerFrame(h) \in TimerFrames /\ ~Locked(TimerFrame(h))
    BY DEF TimerFrame, TimerFrames, Locked, TimerTypeOK
  <2>2. Enter(TimerFrame(h))
    BY <1>3 DEF sh_timer_handler
  <2> QED BY <1>1, <2>1, <2>2, EnterKeepsMask
<1>4. CASE TimerLock
  <2> DEFINE f == [Top EXCEPT !.pc = "loop"]
             g == [f EXCEPT !.level = masked]
  <2>1. /\ stack # <<>> /\ Top \in TimerFrames /\ ~Locked(Top)
        /\ sh_isr_disable(f) /\ masked \in BOOLEAN
    BY <1>1, <1>4, TailFrames DEF TimerLock, Locked, TimerTypeOK
  <2>2. f \in TimerFrames /\ g \in TimerFrames /\ g.level = masked /\ Locked(g)
    BY <2>1 DEF TimerFrames, Locked
  <2> QED BY <1>1, <2>1, <2>2, DisableKeepsMask
<1>5. CASE TimerDone
  BY <1>1, <1>5, EnableKeepsMask DEF TimerDone, PassEnds, InPass, Locked
<1>6. CASE TimerCbReturn
  <2> DEFINE f == [Top EXCEPT !.pc = "loop", !.cur = "head"]
  <2>1. stack # <<>> /\ Top \in TimerFrames /\ Locked(Top) /\ Goto(f)
    BY <1>1, <1>6, TailFrames DEF TimerCbReturn, Locked
  <2>2. f \in TimerFrames /\ Locked(f) /\ f.level = Top.level
    BY <2>1 DEF TimerFrames, Locked
  <2> QED BY <1>1, <2>1, <2>2, GotoKeepsMask
<1>7. ASSUME NEW t \in Timers, TimerFire(t) PROVE MaskDiscipline'
  <2> DEFINE f == [Top EXCEPT !.cur = t, !.pc = IF timer[t].cb THEN "cb" ELSE "loop"]
  <2>1. stack # <<>> /\ Top \in TimerFrames /\ Locked(Top) /\ Goto(f)
    BY <1>1, <1>7, TailFrames DEF TimerFire, InPass, Locked
  <2>2. f \in TimerFrames /\ Locked(f) /\ f.level = Top.level
    BY <2>1 DEF TimerFrames, Locked
  <2> QED BY <1>1, <2>1, <2>2, GotoKeepsMask
<1>8. CASE sh_timer_create_fails
  BY <1>8 DEF sh_timer_create_fails
<1>9. \/ UNCHANGED isrVars \/ TimerLock \/ TimerDone \/ TimerCbReturn
      \/ \E t \in Timers : TimerFire(t)
      \/ sh_timer_create_fails \/ \E h \in Heads : sh_timer_handler(h)
  BY DEF TimerNext, TimerSteps, Tick, sh_timer_destroy, sh_timer_stop, sh_timer_set_mode,
         sh_timer_create, sh_timer_restart, sh_timer_start, allTimerVars
<1> QED BY <1>2, <1>3, <1>4, <1>5, <1>6, <1>7, <1>8, <1>9

(***************************************************************************)
(* Interrupts are off exactly inside the critical sections of sh_timer.c,  *)
(* and every function restores the level it found, for any nesting of      *)
(* handlers, callbacks and interrupts, if no allocation fails in           *)
(* sh_timer_create.                                                        *)
(***************************************************************************)
THEOREM TimerMaskCorrect ==
  ASSUME ~AllocFails
  PROVE  TimerSpec => []MaskDiscipline
<1>1. ASSUME TimerInit PROVE MaskDiscipline
  <2>1. stack = <<>> /\ masked = FALSE
    BY <1>1 DEF TimerInit, IsrInit
  <2>2. DOMAIN stack = {}
    BY <2>1
  <2> QED BY <2>1, <2>2 DEF MaskDiscipline
<1>2. TimerTypeOK /\ MaskDiscipline /\ [TimerNext]_allTimerVars => MaskDiscipline'
  BY MaskStep
<1>3. TimerSpec => []TimerTypeOK
  BY TimerTypeCorrect
<1> QED BY <1>1, <1>2, <1>3, PTL DEF TimerSpec, allTimerVars
-----------------------------------------------------------------------------
(***************************************************************************)
(* Links.  LinkedOnce alone is not inductive: a pass that has fired a      *)
(* timer without callback may be at a timer that is on no list any more,   *)
(* and may start it again.  What makes that safe is that nothing can run   *)
(* between two steps of a pass, because interrupts are off (Covered), so   *)
(* that the timer a pass is at is the one it has just fired (Passing).     *)
(***************************************************************************)
Armed(tm, t) == tm[t].live = TRUE /\ tm[t].ivl # 0

\* The lists ls are sound for the timers tm.
Sound(tm, ls) ==
  /\ \A h \in Heads : Once(ls[h])
  /\ \A t \in Timers : tm[t].ivl <= Half - 1
  /\ \A h \in Heads, t \in Timers :
       OnList(ls[h], t) => Armed(tm, t) /\ \A g \in Heads \ {h} : ~OnList(ls[g], t)

Passing ==
  \A i \in DOMAIN stack :
    /\ stack[i].pc = "loop" =>
         i = 1 /\ (stack[i].cur # "head" => Armed(timer, stack[i].cur))
    /\ stack[i].pc = "check" => stack[i].cur = "head"

LinkInv == Sound(timer, list) /\ Covered /\ Passing

\* Nothing is called while a pass is between two callbacks.
LEMMA CallOutsidePass ==
  ASSUME TimerTypeOK, Covered, Passing, NEW op, CanCall(op)
  PROVE  \A i \in DOMAIN stack : stack[i].pc # "loop"
<1> SUFFICES ASSUME NEW i \in DOMAIN stack, stack[i].pc = "loop" PROVE FALSE
  OBVIOUS
<1>1. i = 1 /\ Top.pc = "loop" /\ masked = TRUE
  BY DEF Passing, Covered, Locked, Top
<1>2. stack # <<>>
  <2> SUFFICES ASSUME stack = <<>> PROVE FALSE
    OBVIOUS
  <2>1. DOMAIN stack = {}
    OBVIOUS
  <2> QED BY <2>1
<1> QED BY <1>1, <1>2 DEF CanCall

\* Taking t off its list keeps the lists sound, whatever becomes of t.
LEMMA UnlinkSound ==
  ASSUME NEW tm, NEW tn, NEW ls \in Lists, NEW t \in Timers, Sound(tm, ls),
         \A y \in Timers : y # t => tn[y] = tm[y], tn[t].ivl <= Half - 1
  PROVE  Sound(tn, Unlinked(ls, t))
<1> DEFINE l == Unlinked(ls, t)
<1>1. \A h \in Heads : Once(ls[h])
  BY DEF Sound
<1>2. /\ \A h \in Heads, y \in Timers : y # t => (OnList(l[h], y) <=> OnList(ls[h], y))
      /\ \A h \in Heads : ~OnList(l[h], t) /\ Once(l[h])
  BY <1>1, UnlinkedProperties
<1> HIDE DEF l
<1>3. ASSUME NEW h \in Heads, NEW y \in Timers, OnList(l[h], y)
      PROVE  Armed(tn, y) /\ \A g \in Heads \ {h} : ~OnList(l[g], y)
  <2>1. y # t /\ OnList(ls[h], y)
    BY <1>2, <1>3
  <2>2. Armed(tm, y) /\ \A g \in Heads \ {h} : ~OnList(ls[g], y)
    BY <2>1 DEF Sound
  <2> QED BY <1>2, <2>1, <2>2 DEF Armed
<1>4. \A y \in Timers : tn[y].ivl <= Half - 1
  BY DEF Sound
<1>5. Sound(tn, l)
  BY <1>2, <1>3, <1>4 DEF Sound
<1> QED BY <1>5 DEF l

\* Starting an allocated timer with a valid interval keeps them sound.
LEMMA StartSound ==
  ASSUME TimerTypeOK, NEW ls \in Lists, NEW t \in Timers, NEW h \in Heads,
         NEW now \in Ticks, NEW ivl \in Ticks, Start(ls, t, h, now, ivl),
         Sound(timer, ls), timer[t].live = TRUE, ivl # 0, ivl <= Half - 1
  PROVE  /\ Sound(timer', list')
         /\ \A y \in Timers : Armed(timer, y) => Armed(timer', y)
         /\ Armed(timer', t)
<1>1. \A g \in Heads : Once(ls[g])
  BY DEF Sound
<1>2. /\ \A g \in Heads, y \in Timers : y # t => (OnList(list'[g], y) <=> OnList(ls[g], y))
      /\ \A g \in Heads : Once(list'[g]) /\ (OnList(list'[g], t) <=> g = h)
  BY <1>1, StartProperties
<1>3. /\ timer \in [Timers -> TimerRecords]
      /\ timer' = [timer EXCEPT ![t].ivl = ivl, ![t].over = Plus(now, ivl)]
  BY DEF Start, TimerTypeOK, TimerRecords
<1>4. /\ \A y \in Timers : y # t => timer'[y] = timer[y]
      /\ timer'[t].ivl = ivl /\ timer'[t].live = timer[t].live
  BY <1>3 DEF TimerRecords
<1>5. ASSUME NEW g \in Heads, NEW y \in Timers, OnList(list'[g], y)
      PROVE  Armed(timer', y) /\ \A k \in Heads \ {g} : ~OnList(list'[k], y)
  <2>1. CASE y = t
    BY <1>2, <1>4, <1>5, <2>1 DEF Armed
  <2>2. CASE y # t
    <3>1. Armed(timer, y) /\ \A k \in Heads \ {g} : ~OnList(ls[k], y)
      BY <1>2, <1>5, <2>2 DEF Sound
    <3> QED BY <1>2, <1>4, <2>2, <3>1 DEF Armed
  <2> QED BY <2>1, <2>2
<1>6. \A y \in Timers : timer'[y].ivl <= Half - 1
  BY <1>4 DEF Sound
<1>7. Sound(timer', list')
  BY <1>2, <1>5, <1>6 DEF Sound
<1> QED BY <1>4, <1>7 DEF Armed

\* Every step keeps the critical sections covered.
LEMMA CoveredStep ==
  ASSUME TimerTypeOK, Covered, [TimerNext]_allTimerVars
  PROVE  Covered'
<1>1. stack \in Seq(TimerFrames)
  BY DEF TimerTypeOK
<1>2. CASE UNCHANGED isrVars
  BY <1>2 DEF isrVars, Covered, Locked
<1>3. ASSUME NEW h \in Heads, sh_timer_handler(h) PROVE Covered'
  <2>1. TimerFrame(h) \in TimerFrames /\ ~Locked(TimerFrame(h))
    BY DEF TimerFrame, TimerFrames, Locked, TimerTypeOK
  <2>2. Enter(TimerFrame(h))
    BY <1>3 DEF sh_timer_handler
  <2> QED BY <1>1, <2>1, <2>2, EnterKeepsCovered
<1>4. CASE TimerLock
  <2> DEFINE f == [Top EXCEPT !.pc = "loop"]
             g == [f EXCEPT !.level = masked]
  <2>1. /\ stack # <<>> /\ Top \in TimerFrames /\ ~Locked(Top)
        /\ sh_isr_disable(f) /\ masked \in BOOLEAN
    BY <1>1, <1>4, TailFrames DEF TimerLock, Locked, TimerTypeOK
  <2>2. f \in TimerFrames /\ g \in TimerFrames /\ g.level = masked /\ Locked(g)
    BY <2>1 DEF TimerFrames, Locked
  <2> QED BY <1>1, <2>1, <2>2, DisableKeepsCovered
<1>5. CASE TimerDone
  BY <1>1, <1>5, EnableKeepsCovered DEF TimerDone, PassEnds, InPass, Locked
<1>6. CASE TimerCbReturn
  <2> DEFINE f == [Top EXCEPT !.pc = "loop", !.cur = "head"]
  <2>1. stack # <<>> /\ Top \in TimerFrames /\ Locked(Top) /\ Goto(f)
    BY <1>1, <1>6, TailFrames DEF TimerCbReturn, Locked
  <2>2. f \in TimerFrames /\ Locked(f) /\ f.level = Top.level
    BY <2>1 DEF TimerFrames, Locked
  <2> QED BY <1>1, <2>1, <2>2, GotoKeepsCovered
<1>7. ASSUME NEW t \in Timers, TimerFire(t) PROVE Covered'
  <2> DEFINE f == [Top EXCEPT !.cur = t, !.pc = IF timer[t].cb THEN "cb" ELSE "loop"]
  <2>1. stack # <<>> /\ Top \in TimerFrames /\ Locked(Top) /\ Goto(f)
    BY <1>1, <1>7, TailFrames DEF TimerFire, InPass, Locked
  <2>2. f \in TimerFrames /\ Locked(f) /\ f.level = Top.level
    BY <2>1 DEF TimerFrames, Locked
  <2> QED BY <1>1, <2>1, <2>2, GotoKeepsCovered
<1>8. CASE sh_timer_create_fails
  BY <1>8 DEF sh_timer_create_fails, Covered, Locked
<1>9. \/ UNCHANGED isrVars \/ TimerLock \/ TimerDone \/ TimerCbReturn
      \/ \E t \in Timers : TimerFire(t)
      \/ sh_timer_create_fails \/ \E h \in Heads : sh_timer_handler(h)
  BY DEF TimerNext, TimerSteps, Tick, sh_timer_destroy, sh_timer_stop, sh_timer_set_mode,
         sh_timer_create, sh_timer_restart, sh_timer_start, allTimerVars
<1> QED BY <1>2, <1>3, <1>4, <1>5, <1>6, <1>7, <1>8, <1>9

\* A function of the interface, called outside a pass, keeps Passing.
LEMMA CallKeepsPassing ==
  ASSUME TimerTypeOK, Covered, Passing, NEW op, CanCall(op), stack' = stack
  PROVE  Passing'
BY CallOutsidePass DEF Passing

\* The node a pass goes on to is on the list, or the pass is still at it.
LEMMA NodeAfterOnList ==
  ASSUME NEW f, NEW t, list[f.head] \in Seq(Timers), t = NodeAfter(f), t # "head"
  PROVE  OnList(list[f.head], t) \/ f.cur = t
<1> DEFINE l == list[f.head]
           i == IF f.cur = "head" THEN 1 ELSE Position(l, f.cur) + 1
<1>1. Len(l) \in Nat /\ DOMAIN l = 1 .. Len(l)
  BY LenProperties
<1>2. CASE f.cur # "head" /\ ~OnList(l, f.cur)
  BY <1>2 DEF NodeAfter
<1>3. CASE ~(f.cur # "head" /\ ~OnList(l, f.cur))
  <2>1. i \in Nat /\ i >= 1
    <3>1. CASE f.cur = "head"
      BY <3>1
    <3>2. CASE f.cur # "head"
      <4>1. Position(l, f.cur) \in DOMAIN l
        BY <1>3, <3>2 DEF OnList, Position
      <4> QED BY <1>1, <3>2, <4>1
    <3> QED BY <3>1, <3>2
  <2>2. t = IF i > Len(l) THEN "head" ELSE l[i]
    BY <1>3 DEF NodeAfter
  <2> HIDE DEF i, l
  <2>3. i \in DOMAIN l /\ l[i] = t
    BY <1>1, <2>1, <2>2
  <2> QED BY <2>3 DEF OnList, l
<1> QED BY <1>2, <1>3

\* Every step keeps LinkInv.
LEMMA LinkStep ==
  ASSUME TimerTypeOK, LinkInv, [TimerNext]_allTimerVars
  PROVE  LinkInv'
<1> USE DEF LinkInv
<1>1. /\ stack \in Seq(TimerFrames) /\ list \in Lists /\ tick \in Ticks
      /\ timer \in [Timers -> TimerRecords]
      /\ \A t \in Timers : timer[t].ivl \in Ticks /\ timer[t].ivl <= Half - 1
  BY DEF TimerTypeOK, Lists, TimerRecords, Sound
<1>2. Covered'
  BY CoveredStep
<1>3. ASSUME NEW t \in Timers, NEW op, CanCall(op), stack' = stack,
             list' = Unlinked(list, t), timer'[t].ivl <= Half - 1,
             \A y \in Timers : y # t => timer'[y] = timer[y]
      PROVE  LinkInv'
  <2>1. Sound(timer', list')
    BY <1>1, <1>3, UnlinkSound
  <2> QED BY <1>2, <1>3, <2>1, CallKeepsPassing DEF Sound, Armed
<1>4. ASSUME NEW t \in Timers, NEW h \in Heads, NEW ivl \in Ticks, NEW op, CanCall(op),
             Start(list, t, h, tick, ivl), timer[t].live = TRUE,
             ivl # 0, ivl <= Half - 1, stack' = stack
      PROVE  LinkInv'
  <2>1. Sound(timer', list')
    BY <1>1, <1>4, StartSound
  <2> QED BY <1>2, <1>4, <2>1, CallKeepsPassing DEF Sound, Armed
<1>5. CASE UNCHANGED <<timer, list, stack>>
  <2>1. Passing' /\ Sound(timer, list)'
    BY <1>5 DEF Passing, Sound, Armed
  <2> QED BY <1>2, <2>1
<1>6. ASSUME NEW h \in Heads, sh_timer_handler(h) PROVE LinkInv'
  <2>1. /\ CanCall("timer_handler") /\ stack' = <<TimerFrame(h)>> \o stack
        /\ timer' = timer /\ list' = list
    BY <1>6 DEF sh_timer_handler, Enter, timerVars
  <2>2. TimerFrame(h) \in TimerFrames /\ TimerFrame(h).pc = "check"
        /\ TimerFrame(h).cur = "head"
    BY <1>1 DEF TimerFrame, TimerFrames
  <2>3. \A i \in DOMAIN stack : stack[i].pc # "loop" /\
                                (stack[i].pc = "check" => stack[i].cur = "head")
    BY <2>1, CallOutsidePass DEF Passing
  <2>4. \A i \in DOMAIN stack' : stack'[i].pc # "loop" /\
                                 (stack'[i].pc = "check" => stack'[i].cur = "head")
    <3>1. /\ DOMAIN stack' = 1 .. Len(stack) + 1 /\ stack'[1] = TimerFrame(h)
          /\ DOMAIN stack = 1 .. Len(stack) /\ Len(stack) \in Nat
          /\ \A i \in 1 .. Len(stack) : stack'[i + 1] = stack[i]
      BY <1>1, <2>1, <2>2, PushFrames
    <3>2. ASSUME NEW i \in DOMAIN stack', i # 1
          PROVE  i - 1 \in DOMAIN stack /\ stack'[i] = stack[i - 1]
      <4>1. i - 1 \in 1 .. Len(stack) /\ (i - 1) + 1 = i
        BY <3>1, <3>2
      <4> QED BY <3>1, <4>1
    <3> QED BY <2>2, <2>3, <3>1, <3>2
  <2>5. Passing' /\ Sound(timer, list)'
    BY <2>1, <2>4 DEF Passing, Sound, Armed
  <2> QED BY <1>2, <2>5
<1>7. CASE TimerLock
  <2> DEFINE g == [[Top EXCEPT !.pc = "loop"] EXCEPT !.level = masked]
  <2>1. /\ stack # <<>> /\ Top.pc = "check" /\ stack' = [stack EXCEPT ![1] = g]
        /\ timer' = timer /\ list' = list
    BY <1>7 DEF TimerLock, sh_isr_disable, timerVars
  <2>2. /\ DOMAIN stack' = DOMAIN stack /\ 1 \in DOMAIN stack /\ stack'[1] = g
        /\ \A i \in DOMAIN stack : i # 1 => stack'[i] = stack[i]
        /\ Top \in TimerFrames
    BY <1>1, <2>1, TailFrames, ExceptSeq
  <2>3. g.pc = "loop" /\ g.cur = "head"
    BY <2>1, <2>2 DEF Passing, Top, TimerFrames
  <2>4. Passing' /\ Sound(timer, list)'
    BY <2>1, <2>2, <2>3 DEF Passing, Sound, Armed
  <2> QED BY <1>2, <2>4
<1>8. CASE TimerDone
  <2>1. /\ stack # <<>> /\ stack' = Tail(stack) /\ timer' = timer /\ list' = list
    BY <1>8 DEF TimerDone, PassEnds, InPass, sh_isr_enable, timerVars
  <2>2. \A i \in DOMAIN stack' : i + 1 \in DOMAIN stack /\ stack'[i] = stack[i + 1]
                                 /\ i \in Nat /\ i >= 1 /\ i + 1 # 1
    BY <1>1, <2>1, PopFrames
  <2>3. Passing' /\ Sound(timer, list)'
    BY <2>1, <2>2 DEF Passing, Sound, Armed
  <2> QED BY <1>2, <2>3
<1>9. CASE TimerCbReturn
  <2> DEFINE f == [Top EXCEPT !.pc = "loop", !.cur = "head"]
  <2>1. /\ stack # <<>> /\ stack' = [stack EXCEPT ![1] = f]
        /\ timer' = timer /\ list' = list
    BY <1>9 DEF TimerCbReturn, Goto, timerVars
  <2>2. /\ DOMAIN stack' = DOMAIN stack /\ stack'[1] = f /\ Top \in TimerFrames
        /\ \A i \in DOMAIN stack : i # 1 => stack'[i] = stack[i]
    BY <1>1, <2>1, TailFrames, ExceptSeq
  <2>3. f.pc = "loop" /\ f.cur = "head"
    BY <2>2 DEF TimerFrames
  <2>4. Passing' /\ Sound(timer, list)'
    BY <2>1, <2>2, <2>3 DEF Passing, Sound, Armed
  <2> QED BY <1>2, <2>4
<1>10. ASSUME NEW t \in Timers, TimerFire(t) PROVE LinkInv'
  <2> DEFINE f == [Top EXCEPT !.cur = t, !.pc = IF timer[t].cb THEN "cb" ELSE "loop"]
  <2>1. /\ InPass /\ ~PassEnds /\ t = NodeAfter(Top) /\ stack # <<>>
        /\ Top.pc = "loop" /\ stack' = [stack EXCEPT ![1] = f]
    BY <1>10 DEF TimerFire, InPass, Goto
  <2>2. /\ DOMAIN stack' = DOMAIN stack /\ stack'[1] = f /\ Top \in TimerFrames
        /\ 1 \in DOMAIN stack /\ \A i \in DOMAIN stack : i # 1 => stack'[i] = stack[i]
        /\ DOMAIN stack \subseteq Nat
    BY <1>1, <2>1, TailFrames, ExceptSeq
  <2>3. /\ f.cur = t /\ f.pc \in {"cb", "loop"} /\ Top.head \in Heads /\ Top.now \in Ticks
        /\ list[Top.head] \in Seq(Timers)
    BY <1>1, <2>2 DEF TimerFrames, Lists
  <2>4. t # "head"
    BY TimerAssumption
  <2>5. Armed(timer, t)
    <3>1. CASE OnList(list[Top.head], t)
      BY <2>3, <3>1 DEF Sound
    <3>2. CASE ~OnList(list[Top.head], t)
      <4>1. Top.cur = t
        BY <2>1, <2>3, <2>4, <3>2, NodeAfterOnList
      <4> QED BY <2>1, <2>2, <2>4, <4>1 DEF Passing, Top
    <3> QED BY <3>1, <3>2
  <2>6. Sound(timer, Unlinked(list, t)) /\ Unlinked(list, t) \in Lists
    BY <1>1, UnlinkSound, UnlinkedProperties
  <2>7. Sound(timer', list') /\ Armed(timer', t)
    <3>1. CASE timer[t].mode = "loop"
      <4>1. Start(Unlinked(list, t), t, Top.head, Top.now, timer[t].ivl)
        BY <1>10, <3>1 DEF TimerFire
      <4> QED BY <1>1, <2>3, <2>5, <2>6, <4>1, StartSound DEF Armed
    <3>2. CASE timer[t].mode # "loop"
      BY <1>10, <2>5, <2>6, <3>2 DEF TimerFire
    <3> QED BY <3>1, <3>2
  <2>8. ASSUME NEW i \in DOMAIN stack'
        PROVE  /\ stack'[i].pc = "loop" =>
                    i = 1 /\ (stack'[i].cur # "head" => Armed(timer', stack'[i].cur))
               /\ stack'[i].pc = "check" => stack'[i].cur = "head"
    <3> HIDE DEF f
    <3>1. CASE i = 1
      BY <2>2, <2>3, <2>7, <3>1
    <3>2. CASE i # 1
      BY <2>2, <3>2 DEF Passing
    <3> QED BY <3>1, <3>2
  <2>9. Passing'
    BY <2>8 DEF Passing
  <2> QED BY <1>2, <2>7, <2>9 DEF Sound
<1>11. ASSUME NEW t \in Timers, sh_timer_destroy(t) PROVE LinkInv'
  <2>1. timer'[t] = Absent /\ \A y \in Timers : y # t => timer'[y] = timer[y]
    BY <1>1, <1>11 DEF sh_timer_destroy
  <2>2. timer'[t].ivl <= Half - 1
    BY <2>1, TimerAssumption DEF Absent
  <2> QED BY <1>3, <1>11, <2>1, <2>2 DEF sh_timer_destroy, isrVars
<1>12. ASSUME NEW t \in Timers, sh_timer_stop(t) PROVE LinkInv'
  BY <1>1, <1>3, <1>12 DEF sh_timer_stop, isrVars
<1>13. ASSUME NEW t \in Timers, NEW mode \in {"single", "loop"}, sh_timer_set_mode(t, mode)
       PROVE  LinkInv'
  <2>1. /\ list' = list /\ stack' = stack /\ CanCall("timer_set_mode")
        /\ \A y \in Timers : timer'[y].live = timer[y].live /\ timer'[y].ivl = timer[y].ivl
    BY <1>1, <1>13 DEF sh_timer_set_mode, isrVars, TimerRecords
  <2>2. Sound(timer, list)'
    BY <2>1 DEF Sound, Armed
  <2> QED BY <1>2, <2>1, <2>2, CallKeepsPassing
<1>14. ASSUME NEW t \in Timers, NEW mode \in {"single", "loop"}, NEW cb \in BOOLEAN,
              sh_timer_create(t, mode, cb)
       PROVE  LinkInv'
  <2>1. /\ list' = list /\ stack' = stack /\ CanCall("timer_create")
        /\ timer[t].live # TRUE /\ timer'[t].ivl = 0
        /\ \A y \in Timers : y # t => timer'[y] = timer[y]
    BY <1>1, <1>14 DEF sh_timer_create, isrVars
  <2>2. 0 <= Half - 1
    BY TimerAssumption
  <2>3. Sound(timer, list)'
    BY <2>1, <2>2 DEF Sound, Armed
  <2> QED BY <1>2, <2>1, <2>3, CallKeepsPassing
<1>15. ASSUME NEW t \in Timers, NEW h \in Heads, sh_timer_restart(t, h)
       PROVE  LinkInv'
  BY <1>1, <1>4, <1>15 DEF sh_timer_restart, isrVars
<1>16. ASSUME NEW t \in Timers, NEW h \in Heads, NEW ivl \in Intervals,
              sh_timer_start(t, h, ivl)
       PROVE  LinkInv'
  <2>1. ivl \in Ticks /\ ivl # 0 /\ stack' = stack
        /\ CanCall("timer_start") /\ timer[t].live = TRUE
    BY <1>16, TimerAssumption DEF sh_timer_start, isrVars
  <2>2. CASE StartOk(ivl)
    BY <1>4, <1>16, <2>1, <2>2 DEF sh_timer_start, StartOk
  <2>3. CASE ~StartOk(ivl)
    BY <1>1, <1>3, <1>16, <2>1, <2>3 DEF sh_timer_start
  <2> QED BY <2>2, <2>3
<1>17. ASSUME TimerNext
       PROVE  \/ UNCHANGED <<timer, list, stack>> \/ TimerLock \/ TimerDone \/ TimerCbReturn
              \/ \E h \in Heads : sh_timer_handler(h)
              \/ \E t \in Timers :
                   \/ TimerFire(t) \/ sh_timer_destroy(t) \/ sh_timer_stop(t)
                   \/ \E mode \in {"single", "loop"} :
                        \/ sh_timer_set_mode(t, mode)
                        \/ \E cb \in BOOLEAN : sh_timer_create(t, mode, cb)
                   \/ \E h \in Heads :
                        \/ sh_timer_restart(t, h)
                        \/ \E ivl \in Intervals : sh_timer_start(t, h, ivl)
  BY <1>17 DEF TimerNext, TimerSteps, Tick, sh_timer_create_fails, isrVars, timerVars
<1> QED
  BY <1>5, <1>6, <1>7, <1>8, <1>9, <1>10, <1>11, <1>12, <1>13, <1>14, <1>15, <1>16, <1>17
  DEF allTimerVars, timerVars, isrVars

\* LinkInv is stronger than LinkedOnce.
LEMMA LinkInvLinkedOnce ==
  ASSUME TimerTypeOK, LinkInv
  PROVE  LinkedOnce
<1> SUFFICES ASSUME NEW t \in Timers, NEW h \in Heads, OnList(list[h], t)
             PROVE  /\ timer[t].live /\ timer[t].ivl \in 1 .. Half - 1
                    /\ Cardinality(Occurs(t, list[h])) = 1
                    /\ \A g \in Heads \ {h} : ~OnList(list[g], t)
  BY DEF LinkedOnce
<1>1. /\ Armed(timer, t) /\ timer[t].ivl <= Half - 1 /\ Once(list[h])
      /\ \A g \in Heads \ {h} : ~OnList(list[g], t)
  BY DEF LinkInv, Sound
<1>2. timer[t].ivl \in Nat /\ list[h] \in Seq(Timers)
  BY DEF TimerTypeOK, Ticks
<1>3. Cardinality(Occurs(t, list[h])) = 1
  BY <1>1, <1>2, OnceOccurs
<1>4. timer[t].ivl \in 1 .. Half - 1
  BY <1>1, <1>2, TimerAssumption DEF Armed
<1> QED BY <1>1, <1>3, <1>4 DEF Armed

LEMMA LinkInitially == TimerInit => LinkInv
<1> SUFFICES ASSUME TimerInit PROVE LinkInv
  OBVIOUS
<1>1. DOMAIN stack = {} /\ \A h \in Heads : DOMAIN list[h] = {}
  BY DEF TimerInit, IsrInit
<1>2. Sound(timer, list)
  BY <1>1, TimerAssumption DEF TimerInit, Sound, Once, OnList, Absent
<1> QED BY <1>1, <1>2 DEF LinkInv, Covered, Passing

(***************************************************************************)
(* A timer is on at most one list and once, and only if it is allocated    *)
(* and has a valid interval, whatever callbacks and interrupts do to the   *)
(* timers during a pass of sh_timer_handler, failed allocations included.  *)
(***************************************************************************)
THEOREM TimerLinksCorrect == TimerSpec => []LinkedOnce
<1>1. TimerTypeOK /\ LinkInv /\ [TimerNext]_allTimerVars => LinkInv'
  BY LinkStep
<1>2. TimerTypeOK /\ LinkInv => LinkedOnce
  BY LinkInvLinkedOnce
<1>3. TimerSpec => []TimerTypeOK
  BY TimerTypeCorrect
<1> QED BY <1>1, <1>2, <1>3, LinkInitially, PTL DEF TimerSpec, allTimerVars
-----------------------------------------------------------------------------
(***************************************************************************)
(* Time.  A running timer that is not overdue by more than the range of    *)
(* the counter shows in its overtick how long ago it was started           *)
(* (Clocked).  A pass works with a tick that is at most MaxLag ticks old   *)
(* (Recent), so an interval that leaves that much room below half the      *)
(* range cannot count as run out before it has (NotYet).                   *)
(***************************************************************************)
Accepted == {ivl \in Intervals : StartOk(ivl)}

Headroom == \A ivl \in Accepted : ivl + MaxLag <= Half

IntervalsOK == \A t \in Timers : timer[t].ivl # 0 => timer[t].ivl \in Accepted

Clocked ==
  \A t \in Timers :
    Running(t) /\ age[t] < Modulus =>
      timer[t].over = Plus(Minus(tick, age[t]), timer[t].ivl)

Recent == \A i \in DOMAIN stack : Minus(tick, stack[i].now) <= MaxLag

\* The timer that a pass has fired and not started again was not early.
FiredInTime ==
  \A i \in DOMAIN stack, t \in Timers :
    stack[i].pc = "loop" /\ stack[i].cur = t /\ ~Running(t) => age[t] >= timer[t].ivl

TimeInv == IntervalsOK /\ Clocked /\ Recent /\ FiredInTime

\* Time passes, and an age with it.
LEMMA TickOn ==
  ASSUME NEW now \in Ticks
  PROVE  /\ Plus(now, 1) \in Ticks
         /\ \A a \in Nat : a + 1 < Modulus => Minus(Plus(now, 1), a + 1) = Minus(now, a)
         /\ \A s \in Ticks : Minus(now, s) < MaxLag => Minus(Plus(now, 1), s) <= MaxLag
BY TimerAssumption DEF Ticks, Modulus, Plus, Minus

LEMMA AgeAtStart ==
  ASSUME NEW now \in Ticks, NEW s \in Ticks
  PROVE  Minus(now, s) \in Ticks /\ Minus(now, Minus(now, s)) = s /\ Minus(now, now) = 0
BY TimerAssumption DEF Ticks, Modulus, Minus

\* A timer younger than its interval has not run out at a recent tick.
LEMMA NotYet ==
  ASSUME NEW now \in Ticks, NEW s \in Ticks, Minus(now, s) <= MaxLag,
         NEW ivl \in Nat, ivl + MaxLag <= Half, NEW a \in Nat, a < ivl
  PROVE  ~sh_timer_is_time_out(s, Plus(Minus(now, a), ivl))
BY TimerAssumption DEF Ticks, Modulus, Plus, Minus, sh_timer_is_time_out

\* A pass fires timers that are allocated and have an interval.
LEMMA FiresArmed ==
  ASSUME TimerTypeOK, LinkInv, NEW t \in Timers, TimerFire(t)
  PROVE  Armed(timer, t)
<1>1. stack # <<>> /\ Top.pc = "loop" /\ stack \in Seq(TimerFrames) /\ t = NodeAfter(Top)
  BY DEF TimerTypeOK, TimerFire, InPass
<1>2. Top \in TimerFrames /\ 1 \in DOMAIN stack /\ Top = stack[1]
  BY <1>1, TailFrames DEF Top
<1>3. t # "head" /\ Top.head \in Heads /\ list[Top.head] \in Seq(Timers)
  BY <1>2, TimerAssumption DEF TimerFrames, TimerTypeOK
<1>4. OnList(list[Top.head], t) \/ Top.cur = t
  BY <1>1, <1>3, NodeAfterOnList
<1> QED BY <1>1, <1>2, <1>3, <1>4 DEF LinkInv, Sound, Passing

\* No timer fires early.
LEMMA FiresInTime ==
  ASSUME Headroom, TimerTypeOK, LinkInv, TimeInv, NEW t \in Timers, TimerFire(t)
  PROVE  age[t] >= timer[t].ivl
<1>1. /\ InPass /\ t = NodeAfter(Top) /\ stack # <<>> /\ Top.pc = "loop"
      /\ sh_timer_is_time_out(Top.now, timer[t].over)
  BY TimerAssumption DEF TimerFire, PassEnds, InPass
<1>2. /\ Top \in TimerFrames /\ 1 \in DOMAIN stack /\ Top = stack[1]
      /\ Top.now \in Ticks /\ Top.head \in Heads
  <2>1. stack \in Seq(TimerFrames)
    BY DEF TimerTypeOK
  <2>2. Top \in TimerFrames /\ 1 \in DOMAIN stack
    BY <1>1, <2>1, TailFrames
  <2> QED BY <2>2 DEF TimerFrames, Top
<1>3. timer[t].ivl \in Nat /\ age[t] \in Nat /\ tick \in Ticks /\ Modulus \in Nat
  BY TimerAssumption DEF TimerTypeOK, Ticks, Modulus
<1>4. CASE Running(t)
  <2>1. timer[t].ivl \in Accepted
    BY <1>4 DEF LinkInv, Sound, Armed, Running, TimeInv, IntervalsOK
  <2>2. timer[t].ivl + MaxLag <= Half /\ timer[t].ivl < Modulus
    BY <1>3, <2>1, TimerAssumption DEF Headroom, Modulus
  <2>3. Minus(tick, Top.now) <= MaxLag
    BY <1>2 DEF TimeInv, Recent
  <2>4. ASSUME age[t] < timer[t].ivl PROVE FALSE
    <3>1. age[t] < Modulus
      BY <1>3, <2>2, <2>4
    <3>2. timer[t].over = Plus(Minus(tick, age[t]), timer[t].ivl)
      BY <1>4, <3>1 DEF TimeInv, Clocked
    <3> QED BY <1>1, <1>2, <1>3, <2>2, <2>3, <2>4, <3>2, NotYet
  <2> QED BY <1>3, <2>4
<1>5. CASE ~Running(t)
  <2>1. t # "head" /\ list[Top.head] \in Seq(Timers)
    BY <1>2, TimerAssumption DEF TimerTypeOK
  <2>2. Top.cur = t
    BY <1>1, <1>2, <1>5, <2>1, NodeAfterOnList DEF Running
  <2> QED BY <1>1, <1>2, <1>5, <2>2 DEF TimeInv, FiredInTime
<1> QED BY <1>4, <1>5

\* Starting t, off or on its list.
LEMMA StartClocked ==
  ASSUME TimerTypeOK, IntervalsOK, Clocked, NEW ls \in Lists, \A g \in Heads : Once(ls[g]),
         \A g \in Heads, y \in Timers : OnList(ls[g], y) => OnList(list[g], y),
         NEW t \in Timers, NEW h \in Heads, NEW now \in Ticks, NEW ivl \in Accepted,
         Start(ls, t, h, now, ivl), tick' = tick
  PROVE  IntervalsOK' /\ Clocked' /\ Running(t)'
<1>1. ivl \in Ticks /\ tick \in Ticks
  BY TimerAssumption DEF Accepted, TimerTypeOK
<1>2. /\ timer' = [timer EXCEPT ![t].ivl = ivl, ![t].over = Plus(now, ivl)]
      /\ age' = [age EXCEPT ![t] = Minus(tick, now)]
      /\ timer \in [Timers -> TimerRecords] /\ age \in [Timers -> 0 .. Modulus]
  BY DEF Start, TimerTypeOK, TimerRecords
<1>3. /\ timer'[t].ivl = ivl /\ timer'[t].over = Plus(now, ivl)
      /\ \A y \in Timers : y # t => timer'[y] = timer[y]
  BY <1>2 DEF TimerRecords
<1>4. /\ \A g \in Heads, y \in Timers : y # t => (OnList(list'[g], y) <=> OnList(ls[g], y))
      /\ \A g \in Heads : OnList(list'[g], t) <=> g = h
  BY StartProperties
<1>5. IntervalsOK'
  BY <1>3 DEF IntervalsOK
<1>6. ASSUME NEW y \in Timers, Running(y)', age'[y] < Modulus
      PROVE  timer'[y].over = Plus(Minus(tick', age'[y]), timer'[y].ivl)
  <2>1. CASE y = t
    BY <1>1, <1>2, <1>3, <2>1, AgeAtStart
  <2>2. CASE y # t
    BY <1>2, <1>3, <1>4, <1>6, <2>2 DEF Clocked, Running
  <2> QED BY <2>1, <2>2
<1> QED BY <1>4, <1>5, <1>6 DEF Clocked, Running

\* Taking t off its list, whatever becomes of it.
LEMMA UnlinkClocked ==
  ASSUME TimerTypeOK, LinkInv, IntervalsOK, Clocked, NEW t \in Timers,
         list' = Unlinked(list, t), tick' = tick,
         timer'[t].ivl # 0 => timer'[t].ivl \in Accepted,
         \A y \in Timers : y # t => timer'[y] = timer[y] /\ age'[y] = age[y]
  PROVE  IntervalsOK' /\ Clocked' /\ ~Running(t)'
<1>1. list \in Lists /\ \A h \in Heads : Once(list[h])
  BY DEF TimerTypeOK, Lists, LinkInv, Sound
<1>2. /\ \A h \in Heads, y \in Timers : y # t => (OnList(list'[h], y) <=> OnList(list[h], y))
      /\ \A h \in Heads : ~OnList(list'[h], t)
  BY <1>1, UnlinkedProperties
<1> QED BY <1>2 DEF IntervalsOK, Clocked, Running

\* The functions of the interface: no pass stands at a timer.
LEMMA CallKeepsTimes ==
  ASSUME TimerTypeOK, LinkInv, Recent, NEW op, CanCall(op), UNCHANGED <<tick, stack>>
  PROVE  Recent' /\ FiredInTime'
<1>1. \A i \in DOMAIN stack : stack[i].pc # "loop"
  BY CallOutsidePass DEF LinkInv
<1> QED BY <1>1 DEF Recent, FiredInTime

\* What the other steps of a handler do to the frames.
LEMMA FramesStep ==
  ASSUME TimerTypeOK, LinkInv,
         TimerLock \/ TimerDone \/ TimerCbReturn \/ \E h \in Heads : sh_timer_handler(h)
  PROVE  \A i \in DOMAIN stack' :
           \/ stack'[i].pc = "check" /\ stack'[i].now = tick
           \/ \E j \in DOMAIN stack :
                /\ stack'[i].now = stack[j].now
                /\ stack'[i] = stack[j] \/ stack'[i].cur = "head"
<1>1. stack \in Seq(TimerFrames) /\ tick \in Ticks
  BY DEF TimerTypeOK
<1>2. ASSUME NEW f \in TimerFrames, stack # <<>>, stack' = [stack EXCEPT ![1] = f],
             f.now = Top.now, f.cur = "head", NEW i \in DOMAIN stack'
      PROVE  \E j \in DOMAIN stack : /\ stack'[i].now = stack[j].now
                                     /\ stack'[i] = stack[j] \/ stack'[i].cur = "head"
  <2>1. /\ DOMAIN stack' = DOMAIN stack /\ stack'[1] = f /\ Top = stack[1]
        /\ \A j \in DOMAIN stack : j # 1 => stack'[j] = stack[j]
    BY <1>1, <1>2, TailFrames, ExceptSeq DEF Top
  <2> QED BY <1>2, <2>1
<1>3. CASE TimerLock
  <2> DEFINE g == [[Top EXCEPT !.pc = "loop"] EXCEPT !.level = masked]
  <2>1. /\ stack # <<>> /\ Top.pc = "check" /\ stack' = [stack EXCEPT ![1] = g]
    BY <1>3 DEF TimerLock, sh_isr_disable
  <2>2. Top \in TimerFrames /\ 1 \in DOMAIN stack
    BY <1>1, <2>1, TailFrames
  <2>3. Top.cur = "head"
    BY <2>1, <2>2 DEF LinkInv, Passing, Top
  <2>4. g \in TimerFrames /\ g.now = Top.now /\ g.cur = "head"
    BY <2>2, <2>3 DEF TimerFrames, TimerTypeOK
  <2> HIDE DEF g
  <2> QED BY <1>2, <2>1, <2>4
<1>4. CASE TimerCbReturn
  <2> DEFINE f == [Top EXCEPT !.pc = "loop", !.cur = "head"]
  <2>1. stack # <<>> /\ stack' = [stack EXCEPT ![1] = f]
    BY <1>4 DEF TimerCbReturn, Goto
  <2>2. Top \in TimerFrames
    BY <1>1, <2>1, TailFrames
  <2>3. f \in TimerFrames /\ f.now = Top.now /\ f.cur = "head"
    BY <2>2 DEF TimerFrames
  <2> HIDE DEF f
  <2> QED BY <1>2, <2>1, <2>3
<1>5. CASE TimerDone
  <2>1. stack # <<>> /\ stack' = Tail(stack)
    BY <1>5 DEF TimerDone, PassEnds, InPass, sh_isr_enable
  <2>2. \A i \in DOMAIN stack' : i + 1 \in DOMAIN stack /\ stack'[i] = stack[i + 1]
    BY <1>1, <2>1, PopFrames
  <2> QED BY <2>2
<1>6. ASSUME NEW h \in Heads, sh_timer_handler(h), NEW i \in DOMAIN stack'
      PROVE  \/ stack'[i].pc = "check" /\ stack'[i].now = tick
             \/ \E j \in DOMAIN stack : stack'[i] = stack[j]
  <2>1. stack' = <<TimerFrame(h)>> \o stack
    BY <1>6 DEF sh_timer_handler, Enter
  <2>2. /\ TimerFrame(h) \in TimerFrames /\ TimerFrame(h).pc = "check"
        /\ TimerFrame(h).now = tick
    BY <1>1 DEF TimerFrame, TimerFrames
  <2>3. /\ DOMAIN stack' = 1 .. Len(stack) + 1 /\ stack'[1] = TimerFrame(h)
        /\ DOMAIN stack = 1 .. Len(stack) /\ Len(stack) \in Nat
        /\ \A j \in 1 .. Len(stack) : stack'[j + 1] = stack[j]
    BY <1>1, <2>1, <2>2, PushFrames
  <2>4. CASE i # 1
    <3>1. i - 1 \in 1 .. Len(stack) /\ (i - 1) + 1 = i
      BY <1>6, <2>3, <2>4
    <3> QED BY <2>3, <3>1
  <2> QED BY <2>2, <2>3, <2>4
<1> QED BY <1>2, <1>3, <1>4, <1>5, <1>6

LEMMA StackTimes ==
  ASSUME TimerTypeOK, LinkInv, TimeInv, UNCHANGED timerVars,
         TimerLock \/ TimerDone \/ TimerCbReturn \/ \E h \in Heads : sh_timer_handler(h)
  PROVE  Recent' /\ FiredInTime'
<1>1. tick \in Ticks /\ tick' = tick /\ timer' = timer /\ list' = list /\ age' = age
  BY DEF TimerTypeOK, timerVars
<1>2. Minus(tick, tick) <= MaxLag
  BY <1>1, AgeAtStart, TimerAssumption
<1>3. Recent'
  BY <1>1, <1>2, FramesStep DEF TimeInv, Recent
<1>4. FiredInTime'
  BY <1>1, FramesStep, TimerAssumption DEF TimeInv, FiredInTime, Running
<1> QED BY <1>3, <1>4

LEMMA FireTimes ==
  ASSUME Headroom, TimerTypeOK, LinkInv, TimeInv, NEW t \in Timers, TimerFire(t)
  PROVE  TimeInv'
<1> DEFINE f == [Top EXCEPT !.cur = t, !.pc = IF timer[t].cb THEN "cb" ELSE "loop"]
<1>1. /\ stack \in Seq(TimerFrames) /\ list \in Lists /\ tick' = tick
      /\ stack # <<>> /\ Top.pc = "loop" /\ stack' = [stack EXCEPT ![1] = f]
  BY DEF TimerTypeOK, Lists, TimerFire, InPass, Goto
<1>2. /\ DOMAIN stack' = DOMAIN stack /\ stack'[1] = f /\ Top = stack[1]
      /\ 1 \in DOMAIN stack /\ \A i \in DOMAIN stack : i # 1 => stack'[i] = stack[i]
      /\ Top \in TimerFrames
  <2> HIDE DEF f
  <2>1. Top \in TimerFrames /\ 1 \in DOMAIN stack /\ stack \in Seq(TimerFrames)
    BY <1>1, TailFrames
  <2> QED BY <1>1, <2>1, ExceptSeq DEF Top
<1>3. f.now = Top.now /\ f.cur = t /\ Top.now \in Ticks /\ Top.head \in Heads
  BY <1>2 DEF TimerFrames
<1> HIDE DEF f
<1>4. Recent'
  BY <1>1, <1>2, <1>3 DEF TimeInv, Recent
<1>5. age[t] >= timer[t].ivl
  BY FiresInTime
<1>6. \A i \in DOMAIN stack : i # 1 => stack[i].pc # "loop"
  BY DEF LinkInv, Passing
<1>7. /\ Unlinked(list, t) \in Lists /\ \A g \in Heads : Once(list[g])
      /\ \A g \in Heads : Once(Unlinked(list, t)[g]) /\ ~OnList(Unlinked(list, t)[g], t)
      /\ \A g \in Heads, y \in Timers : OnList(Unlinked(list, t)[g], y) => OnList(list[g], y)
  BY <1>1, UnlinkedProperties DEF LinkInv, Sound
<1>8. timer[t].ivl # 0
  BY FiresArmed DEF Armed
<1>9. CASE timer[t].mode = "loop"
  <2>1. timer[t].ivl \in Accepted
    BY <1>8 DEF TimeInv, IntervalsOK
  <2>2. Start(Unlinked(list, t), t, Top.head, Top.now, timer[t].ivl)
    BY <1>9 DEF TimerFire
  <2>3. IntervalsOK' /\ Clocked' /\ Running(t)'
    BY <1>1, <1>3, <1>7, <2>1, <2>2, StartClocked DEF TimeInv
  <2>4. FiredInTime'
    BY <1>2, <1>3, <1>6, <2>3 DEF FiredInTime
  <2> QED BY <1>4, <2>3, <2>4 DEF TimeInv
<1>10. CASE timer[t].mode # "loop"
  <2>1. list' = Unlinked(list, t) /\ timer' = timer /\ age' = age
    BY <1>10 DEF TimerFire
  <2>2. IntervalsOK' /\ Clocked' /\ ~Running(t)'
    BY <1>1, <2>1, UnlinkClocked DEF TimeInv, IntervalsOK
  <2>3. FiredInTime'
    BY <1>2, <1>3, <1>5, <1>6, <2>1 DEF FiredInTime
  <2> QED BY <1>4, <2>2, <2>3 DEF TimeInv
<1> QED BY <1>9, <1>10

LEMMA TickTimes ==
  ASSUME TimerTypeOK, LinkInv, TimeInv, Tick
  PROVE  TimeInv'
<1>1. /\ tick \in Ticks /\ tick' = Plus(tick, 1) /\ timer' = timer /\ list' = list
      /\ stack' = stack /\ stack \in Seq(TimerFrames)
      /\ \A t \in Timers : age[t] \in Nat /\ age[t] <= Modulus
      /\ \A i \in DOMAIN stack : IsTmr(stack[i]) => Minus(tick, stack[i].now) < MaxLag
      /\ age' = [t \in Timers |-> IF Running(t) /\ age[t] < Modulus
                                  THEN age[t] + 1 ELSE age[t]]
  BY TimerAssumption DEF TimerTypeOK, Tick, isrVars, Modulus
<1>2. IntervalsOK'
  BY <1>1 DEF TimeInv, IntervalsOK
<1>3. ASSUME NEW t \in Timers, Running(t)', age'[t] < Modulus
      PROVE  timer'[t].over = Plus(Minus(tick', age'[t]), timer'[t].ivl)
  <2>1. Running(t)
    BY <1>1, <1>3 DEF Running
  <2>2. age[t] < Modulus /\ age'[t] = age[t] + 1
    BY <1>1, <1>3, <2>1
  <2>3. Minus(tick', age'[t]) = Minus(tick, age[t])
    BY <1>1, <1>3, <2>2, TickOn
  <2> QED BY <1>1, <2>1, <2>2, <2>3 DEF TimeInv, Clocked
<1>4. ASSUME NEW i \in DOMAIN stack' PROVE Minus(tick', stack'[i].now) <= MaxLag
  <2>1. stack[i] \in TimerFrames
    BY <1>1, <1>4, ElementOfSeq
  <2>2. IsTmr(stack[i]) /\ stack[i].now \in Ticks
    BY <2>1 DEF TimerFrames, IsTmr
  <2> QED BY <1>1, <1>4, <2>2, TickOn
<1>5. ASSUME NEW i \in DOMAIN stack', NEW t \in Timers, stack'[i].pc = "loop",
             stack'[i].cur = t, ~Running(t)'
      PROVE  age'[t] >= timer'[t].ivl
  <2>1. ~Running(t)
    BY <1>1, <1>5 DEF Running
  <2> QED BY <1>1, <1>5, <2>1 DEF TimeInv, FiredInTime
<1> QED BY <1>2, <1>3, <1>4, <1>5 DEF TimeInv, Clocked, Recent, FiredInTime

LEMMA TimeStep ==
  ASSUME Headroom, TimerTypeOK, LinkInv, TimeInv, [TimerNext]_allTimerVars
  PROVE  TimeInv'
<1>1. /\ list \in Lists /\ tick \in Ticks /\ timer \in [Timers -> TimerRecords]
      /\ age \in [Timers -> 0 .. Modulus] /\ \A h \in Heads : Once(list[h])
  BY DEF TimerTypeOK, Lists, TimerRecords, LinkInv, Sound
<1>2. CASE UNCHANGED allTimerVars
  BY <1>2 DEF allTimerVars, timerVars, isrVars, TimeInv, IntervalsOK, Clocked, Recent,
              FiredInTime, Running
<1>3. ASSUME UNCHANGED timerVars
      PROVE  IntervalsOK' /\ Clocked'
  BY <1>3 DEF timerVars, TimeInv, IntervalsOK, Clocked, Running
<1>4. CASE TimerLock \/ TimerDone \/ TimerCbReturn \/ \E h \in Heads : sh_timer_handler(h)
  <2>1. UNCHANGED timerVars
    BY <1>4 DEF TimerLock, TimerDone, TimerCbReturn, sh_timer_handler
  <2> QED BY <1>3, <1>4, <2>1, StackTimes DEF TimeInv
<1>5. ASSUME NEW t \in Timers, TimerFire(t) PROVE TimeInv'
  BY <1>5, FireTimes
<1>6. CASE Tick
  BY <1>6, TickTimes
<1>7. CASE sh_timer_create_fails
  BY <1>7 DEF sh_timer_create_fails, timerVars, TimeInv, IntervalsOK, Clocked, Recent,
              FiredInTime, Running
<1>8. ASSUME NEW t \in Timers, sh_timer_destroy(t) PROVE TimeInv'
  <2>1. /\ CanCall("timer_destroy") /\ UNCHANGED <<tick, stack>>
        /\ list' = Unlinked(list, t) /\ timer'[t].ivl = 0
        /\ \A y \in Timers : y # t => timer'[y] = timer[y] /\ age'[y] = age[y]
    BY <1>1, <1>8 DEF sh_timer_destroy, isrVars, Absent
  <2> QED BY <2>1, UnlinkClocked, CallKeepsTimes DEF TimeInv
<1>9. ASSUME NEW t \in Timers, sh_timer_stop(t) PROVE TimeInv'
  <2>1. /\ CanCall("timer_stop") /\ UNCHANGED <<tick, stack, timer, age>>
        /\ list' = Unlinked(list, t)
    BY <1>9 DEF sh_timer_stop, isrVars
  <2> QED BY <2>1, UnlinkClocked, CallKeepsTimes DEF TimeInv, IntervalsOK
<1>10. ASSUME NEW t \in Timers, NEW mode \in {"single", "loop"}, sh_timer_set_mode(t, mode)
       PROVE  TimeInv'
  <2>1. /\ CanCall("timer_set_mode") /\ UNCHANGED <<tick, stack, list, age>>
        /\ \A y \in Timers : timer'[y].ivl = timer[y].ivl /\ timer'[y].over = timer[y].over
    BY <1>1, <1>10 DEF sh_timer_set_mode, isrVars, TimerRecords
  <2>2. IntervalsOK' /\ Clocked'
    BY <2>1 DEF TimeInv, IntervalsOK, Clocked, Running
  <2> QED BY <2>1, <2>2, CallKeepsTimes DEF TimeInv
<1>11. ASSUME NEW t \in Timers, NEW mode \in {"single", "loop"}, NEW cb \in BOOLEAN,
              sh_timer_create(t, mode, cb)
       PROVE  TimeInv'
  <2>1. /\ CanCall("timer_create") /\ UNCHANGED <<tick, stack, list, age>>
        /\ timer'[t].ivl = 0 /\ \A y \in Timers : y # t => timer'[y] = timer[y]
        /\ timer[t].live # TRUE
    BY <1>1, <1>11 DEF sh_timer_create, isrVars
  <2>2. ~Running(t)
    BY <2>1 DEF LinkInv, Sound, Armed, Running
  <2>3. IntervalsOK' /\ Clocked'
    BY <2>1, <2>2 DEF TimeInv, IntervalsOK, Clocked, Running
  <2> QED BY <2>1, <2>3, CallKeepsTimes DEF TimeInv
<1>12. ASSUME NEW t \in Timers, NEW h \in Heads, NEW ivl \in Accepted, NEW op, CanCall(op),
              Start(list, t, h, tick, ivl), UNCHANGED <<tick, stack>>
       PROVE  TimeInv'
  BY <1>1, <1>12, StartClocked, CallKeepsTimes DEF TimeInv
<1>13. ASSUME NEW t \in Timers, NEW h \in Heads, sh_timer_restart(t, h) PROVE TimeInv'
  <2>1. timer[t].ivl \in Accepted
    BY <1>13 DEF sh_timer_restart, TimeInv, IntervalsOK
  <2> QED BY <1>12, <1>13, <2>1 DEF sh_timer_restart, isrVars
<1>14. ASSUME NEW t \in Timers, NEW h \in Heads, NEW ivl \in Intervals,
              sh_timer_start(t, h, ivl)
       PROVE  TimeInv'
  <2>1. CanCall("timer_start") /\ UNCHANGED <<tick, stack>>
    BY <1>14 DEF sh_timer_start, isrVars
  <2>2. CASE StartOk(ivl)
    BY <1>12, <1>14, <2>1, <2>2 DEF sh_timer_start, Accepted
  <2>3. CASE ~StartOk(ivl)
    <3>1. list' = Unlinked(list, t) /\ timer' = timer /\ age' = age
      BY <1>14, <2>3 DEF sh_timer_start
    <3> QED BY <2>1, <3>1, UnlinkClocked, CallKeepsTimes DEF TimeInv, IntervalsOK
  <2> QED BY <2>2, <2>3
<1> QED BY <1>2, <1>4, <1>5, <1>6, <1>7, <1>8, <1>9, <1>10, <1>11, <1>13, <1>14
        DEF TimerNext, TimerSteps

LEMMA TimeInitially == TimerInit => TimeInv
<1> SUFFICES ASSUME TimerInit PROVE TimeInv
  OBVIOUS
<1>1. DOMAIN stack = {} /\ \A h \in Heads : DOMAIN list[h] = {}
  BY DEF TimerInit, IsrInit
<1>2. \A t \in Timers : timer[t].ivl = 0 /\ ~Running(t)
  BY <1>1 DEF TimerInit, Absent, Running, OnList
<1> QED BY <1>1, <1>2 DEF TimeInv, IntervalsOK, Clocked, Recent, FiredInTime

(***************************************************************************)
(* No timer fires before its interval has passed since it was started,     *)
(* wherever the tick counter wraps and whatever callbacks and interrupts   *)
(* start during a pass (sh_timer_start, sh_timer_handler), if the          *)
(* intervals that sh_timer_start accepts are at most Half - MaxLag.        *)
(***************************************************************************)
THEOREM TimerNeverEarly ==
  ASSUME Headroom
  PROVE  TimerSpec => NeverEarly
<1>1. TimerTypeOK /\ LinkInv /\ TimeInv /\ [TimerNext]_allTimerVars => TimeInv'
  BY TimeStep
<1>2. TimerTypeOK /\ LinkInv /\ [TimerNext]_allTimerVars => LinkInv'
  BY LinkStep
<1>3. TimerTypeOK /\ LinkInv /\ TimeInv
        => [\A t \in Timers : TimerFire(t) => age[t] >= timer[t].ivl]_allTimerVars
  BY FiresInTime
<1>4. TimerInit => LinkInv
  BY LinkInitially
<1> QED BY <1>1, <1>2, <1>3, <1>4, TimeInitially, TimerTypeCorrect, PTL
        DEF TimerSpec, NeverEarly, allTimerVars
-----------------------------------------------------------------------------
(***************************************************************************)
(* Order.  As long as no overtick wraps, the lists are sorted by it, and   *)
(* because the first timer of a list is served in time, no other is late   *)
(* either.                                                                 *)
(***************************************************************************)
BeforeWrap == MaxTick < Modulus - 1 /\ \A ivl \in Accepted : MaxTick + ivl < Modulus

Ordered(l, tm) == \A i, j \in DOMAIN l : i < j => tm[l[i]].over <= tm[l[j]].over

ListsOrdered == \A h \in Heads : Ordered(list[h], timer)

InTime ==
  \A t \in Timers :
    Running(t) => /\ tick <= timer[t].over + MaxLag
                  /\ age[t] + timer[t].over = tick + timer[t].ivl

Nows ==
  /\ tick <= MaxTick
  /\ \A i \in DOMAIN stack : stack[i].now <= tick /\ tick <= stack[i].now + MaxLag

OrderInv == IntervalsOK /\ ListsOrdered /\ InTime /\ Nows

\* What is left of an ordered list is ordered.
LEMMA RemoveOrdered ==
  ASSUME NEW l \in Seq(Timers), NEW x, NEW tm, Ordered(l, tm)
  PROVE  Ordered(sh_list_remove(l, x), tm)
<1>1. CASE ~OnList(l, x)
  BY <1>1 DEF sh_list_remove
<1>2. CASE OnList(l, x)
  <2> DEFINE k == Position(l, x)
             r == RemoveAt(l, k)
  <2>1. k \in DOMAIN l /\ DOMAIN l = 1 .. Len(l) /\ Len(l) \in Nat
    BY <1>2, LenProperties DEF OnList, Position
  <2> HIDE DEF k
  <2>2. /\ r \in Seq(Timers) /\ Len(r) = Len(l) - 1
        /\ \A i \in 1 .. Len(l) - 1 : r[i] = IF i < k THEN l[i] ELSE l[i + 1]
    BY <2>1, RemoveAtProperties
  <2>3. DOMAIN r = 1 .. Len(l) - 1
    BY <2>2, LenProperties
  <2> HIDE DEF r
  <2>4. ASSUME NEW i \in DOMAIN r, NEW j \in DOMAIN r, i < j
        PROVE  tm[r[i]].over <= tm[r[j]].over
    <3> DEFINE a == IF i < k THEN i ELSE i + 1
               b == IF j < k THEN j ELSE j + 1
    <3>1. a \in DOMAIN l /\ b \in DOMAIN l /\ a < b
      BY <2>1, <2>3, <2>4
    <3>2. r[i] = l[a] /\ r[j] = l[b]
      BY <2>2, <2>3
    <3> HIDE DEF a, b
    <3> QED BY <3>1, <3>2 DEF Ordered
  <2>5. sh_list_remove(l, x) = r
    BY <1>2 DEF sh_list_remove, r, k
  <2> QED BY <2>4, <2>5 DEF Ordered
<1> QED BY <1>1, <1>2

LEMMA UnlinkedOrdered ==
  ASSUME NEW ls \in Lists, NEW t \in Timers, NEW tm, \A h \in Heads : Ordered(ls[h], tm)
  PROVE  \A h \in Heads : Ordered(Unlinked(ls, t)[h], tm)
<1> SUFFICES ASSUME NEW h \in Heads PROVE Ordered(Unlinked(ls, t)[h], tm)
  OBVIOUS
<1>1. ls[h] \in Seq(Timers) /\ Unlinked(ls, t)[h] = sh_list_remove(ls[h], t)
  BY DEF Lists, Unlinked
<1> QED BY <1>1, RemoveOrdered

\* Only the timers on a list matter to its order.
LEMMA OrderedFor ==
  ASSUME NEW l \in Seq(Timers), NEW t, NEW tm, NEW tn, Ordered(l, tm), ~OnList(l, t),
         \A y \in Timers : y # t => tn[y].over = tm[y].over
  PROVE  Ordered(l, tn)
<1>1. \A i \in DOMAIN l : l[i] \in Timers /\ l[i] # t
  BY ElementOfSeq DEF OnList
<1> QED BY <1>1 DEF Ordered

\* sh_timer_start keeps the order.
LEMMA SortedOrdered ==
  ASSUME timer \in [Timers -> TimerRecords], NEW l \in Seq(Timers), NEW t \in Timers,
         NEW over \in Ticks, NEW tn, Ordered(l, timer), ~OnList(l, t), tn[t].over = over,
         \A y \in Timers : y # t => tn[y].over = timer[y].over
  PROVE  Ordered(Sorted(l, t, over), tn)
<1> DEFINE later == {i \in DOMAIN l : over < timer[l[i]].over}
           r == Sorted(l, t, over)
<1>1. Len(l) \in Nat /\ DOMAIN l = 1 .. Len(l)
  BY LenProperties
<1>2. ASSUME NEW i \in DOMAIN l
      PROVE  /\ l[i] \in Timers /\ l[i] # t /\ tn[l[i]].over = timer[l[i]].over
             /\ timer[l[i]].over \in Int
  <2>1. l[i] \in Timers /\ l[i] # t
    BY ElementOfSeq DEF OnList
  <2> QED BY <2>1 DEF TimerRecords, Ticks
<1>3. Ordered(l, tn)
  BY OrderedFor
<1>4. over \in Int
  BY DEF Ticks
<1>5. CASE later = {}
  <2>1. r = Append(l, t)
    BY <1>5 DEF Sorted
  <2>2. /\ DOMAIN r = 1 .. Len(l) + 1 /\ r[Len(l) + 1] = t
        /\ \A i \in 1 .. Len(l) : r[i] = l[i]
    BY <1>1, <2>1, AppendProperties, LenProperties
  <2>3. \A i \in DOMAIN l : tn[l[i]].over <= tn[t].over
    BY <1>2, <1>4, <1>5
  <2> HIDE DEF r
  <2>4. Ordered(r, tn)
    BY <1>1, <1>3, <2>2, <2>3 DEF Ordered
  <2> QED BY <2>4 DEF r
<1>6. CASE later # {}
  <2> DEFINE k == Min(later)
  <2>1. k \in later /\ \A i \in later : k <= i
    <3>1. later \in SUBSET Nat
      BY <1>1
    <3> HIDE DEF later
    <3> QED BY <1>6, <3>1, MinProperties
  <2>2. r = InsertAt(l, k, t)
    BY <1>6 DEF Sorted, sh_list_insert_before
  <2> HIDE DEF k, r
  <2>3. k \in DOMAIN l
    BY <2>1
  <2>4. /\ DOMAIN r = 1 .. Len(l) + 1
        /\ \A i \in 1 .. Len(l) + 1 :
             r[i] = IF i < k THEN l[i] ELSE IF i = k THEN t ELSE l[i - 1]
    <3>1. /\ r \in Seq(Timers) /\ Len(r) = Len(l) + 1
          /\ \A i \in 1 .. Len(l) + 1 :
               r[i] = IF i < k THEN l[i] ELSE IF i = k THEN t ELSE l[i - 1]
      <4> DEFINE q == InsertAt(l, k, t)
      <4>1. /\ q \in Seq(Timers) /\ Len(q) = Len(l) + 1
            /\ \A i \in 1 .. Len(l) + 1 :
                 q[i] = IF i < k THEN l[i] ELSE IF i = k THEN t ELSE l[i - 1]
        <5>1. k \in 1 .. Len(l) + 1
          BY <2>3, LenProperties
        <5> QED BY <5>1, InsertAtProperties
      <4> HIDE DEF q
      <4>2. r = q
        BY <2>2 DEF q
      <4> QED BY <4>1, <4>2
    <3>2. DOMAIN r = 1 .. Len(l) + 1
      BY <3>1, LenProperties
    <3> QED BY <3>1, <3>2
  <2>5. \A i \in DOMAIN l : i < k => tn[l[i]].over <= tn[t].over
    BY <1>1, <1>2, <1>4, <2>1
  <2>6. \A i \in DOMAIN l : k <= i => tn[t].over <= tn[l[i]].over
    <3> SUFFICES ASSUME NEW i \in DOMAIN l, k <= i PROVE tn[t].over <= tn[l[i]].over
      OBVIOUS
    <3>1. tn[t].over < tn[l[k]].over
      BY <1>2, <2>1
    <3>2. tn[l[k]].over <= tn[l[i]].over
      <4>1. CASE k < i
        BY <1>3, <2>3, <4>1 DEF Ordered
      <4>2. CASE k = i
        BY <1>2, <4>2
      <4> QED BY <1>1, <2>3, <4>1, <4>2
    <3> QED BY <1>2, <1>4, <2>3, <3>1, <3>2
  <2>7. ASSUME NEW i \in DOMAIN r, NEW j \in DOMAIN r, i < j
        PROVE  tn[r[i]].over <= tn[r[j]].over
    <3>1. CASE i # k /\ j # k
      <4> DEFINE a == IF i < k THEN i ELSE i - 1
                 b == IF j < k THEN j ELSE j - 1
      <4>1. a \in DOMAIN l /\ b \in DOMAIN l /\ a < b
        BY <1>1, <2>3, <2>4, <2>7, <3>1
      <4>2. r[i] = l[a] /\ r[j] = l[b]
        BY <2>4, <3>1
      <4> HIDE DEF a, b
      <4> QED BY <1>3, <4>1, <4>2 DEF Ordered
    <3>2. CASE i = k
      <4>1. j - 1 \in DOMAIN l /\ k <= j - 1 /\ r[i] = t /\ r[j] = l[j - 1]
        BY <1>1, <2>3, <2>4, <2>7, <3>2
      <4> QED BY <2>6, <4>1
    <3>3. CASE j = k
      <4>1. i \in DOMAIN l /\ i < k /\ r[i] = l[i] /\ r[j] = t
        BY <1>1, <2>3, <2>4, <2>7, <3>3
      <4> QED BY <2>5, <4>1
    <3> QED BY <3>1, <3>2, <3>3
  <2>8. Ordered(r, tn)
    BY <2>7 DEF Ordered
  <2> QED BY <2>8 DEF r
<1> QED BY <1>5, <1>6

\* Starting t at a recent tick.
LEMMA StartInTime ==
  ASSUME BeforeWrap, TimerTypeOK, OrderInv, NEW ls \in Lists, \A g \in Heads : Once(ls[g]),
         \A g \in Heads : Ordered(ls[g], timer),
         \A g \in Heads, y \in Timers : OnList(ls[g], y) => OnList(list[g], y),
         NEW t \in Timers, NEW h \in Heads, NEW now \in Ticks, now <= tick,
         tick <= now + MaxLag, NEW ivl \in Accepted,
         Start(ls, t, h, now, ivl), tick' = tick
  PROVE  IntervalsOK' /\ ListsOrdered' /\ InTime' /\ Running(t)'
<1> DEFINE over == Plus(now, ivl)
           l == Unlinked(ls, t)
<1>1. /\ ivl \in Nat \ {0} /\ tick \in Nat /\ now \in Nat /\ tick <= MaxTick /\ MaxTick \in Nat
      /\ MaxTick + ivl < Modulus /\ ivl \in Ticks /\ Modulus \in Nat /\ MaxLag \in Nat
  <2>1. /\ Modulus \in Nat /\ MaxTick \in Ticks /\ MaxLag \in Nat /\ tick \in Ticks
        /\ ivl \in Ticks /\ ivl # 0
    BY TimerAssumption DEF Accepted, TimerTypeOK, Modulus
  <2>2. tick <= MaxTick /\ MaxTick + ivl < Modulus
    BY DEF OrderInv, Nows, BeforeWrap
  <2> QED BY <2>1, <2>2 DEF Ticks
<1>2. over = now + ivl /\ over \in Ticks /\ Minus(tick, now) = tick - now
  BY <1>1 DEF Plus, Minus, Ticks
<1> HIDE DEF over
<1>3. /\ timer' = [timer EXCEPT ![t].ivl = ivl, ![t].over = over]
      /\ age' = [age EXCEPT ![t] = Minus(tick, now)]
      /\ list' = [l EXCEPT ![h] = Sorted(l[h], t, over)]
      /\ timer \in [Timers -> TimerRecords] /\ age \in [Timers -> 0 .. Modulus]
  BY DEF Start, TimerTypeOK, TimerRecords, over
<1>4. /\ timer'[t].ivl = ivl /\ timer'[t].over = over
      /\ \A y \in Timers : y # t => timer'[y] = timer[y]
  BY <1>3 DEF TimerRecords
<1>5. /\ \A g \in Heads, y \in Timers : y # t => (OnList(list'[g], y) <=> OnList(ls[g], y))
      /\ \A g \in Heads : OnList(list'[g], t) <=> g = h
  BY StartProperties
<1>6. IntervalsOK'
  BY <1>4 DEF OrderInv, IntervalsOK
<1>7. InTime'
  <2> SUFFICES ASSUME NEW y \in Timers, Running(y)'
               PROVE  /\ tick' <= timer'[y].over + MaxLag
                      /\ age'[y] + timer'[y].over = tick' + timer'[y].ivl
    BY DEF InTime
  <2>1. CASE y = t
    <3>1. age'[t] = tick - now
      BY <1>2, <1>3
    <3> QED BY <1>1, <1>2, <1>4, <2>1, <3>1
  <2>2. CASE y # t
    <3>1. Running(y)
      BY <1>5, <2>2 DEF Running
    <3>2. age'[y] = age[y]
      BY <1>3, <2>2
    <3> QED BY <1>4, <2>2, <3>1, <3>2 DEF OrderInv, InTime
  <2> QED BY <2>1, <2>2
<1>8. /\ l \in Lists /\ \A g \in Heads : Ordered(l[g], timer)
      /\ \A g \in Heads : ~OnList(l[g], t) /\ l[g] \in Seq(Timers)
  BY UnlinkedProperties, UnlinkedOrdered DEF Lists
<1> HIDE DEF l
<1>9. ASSUME NEW g \in Heads PROVE Ordered(list'[g], timer')
  <2>1. CASE g = h
    <3>1. list'[g] = Sorted(l[h], t, over)
      BY <1>3, <1>8, <2>1 DEF Lists
    <3>2. /\ l[h] \in Seq(Timers) /\ Ordered(l[h], timer) /\ ~OnList(l[h], t)
          /\ \A y \in Timers : y # t => timer'[y].over = timer[y].over
          /\ timer'[t].over = over
      BY <1>4, <1>8
    <3> DEFINE k == l[h]
               tn == timer'
    <3> HIDE DEF k, tn
    <3>3. /\ k \in Seq(Timers) /\ Ordered(k, timer) /\ ~OnList(k, t)
          /\ \A y \in Timers : y # t => tn[y].over = timer[y].over
          /\ tn[t].over = over
      BY <3>2 DEF k, tn
    <3>4. Ordered(Sorted(k, t, over), tn)
      BY <1>2, <1>3, <3>3, SortedOrdered
    <3> QED BY <3>1, <3>4 DEF k, tn
  <2>2. CASE g # h
    <3>1. list'[g] = l[g]
      BY <1>3, <1>8, <2>2 DEF Lists
    <3> DEFINE k == l[g]
               tn == timer'
    <3>2. /\ k \in Seq(Timers) /\ Ordered(k, timer) /\ ~OnList(k, t)
          /\ \A y \in Timers : y # t => tn[y].over = timer[y].over
      BY <1>4, <1>8
    <3> HIDE DEF k, tn
    <3>3. Ordered(k, tn)
      BY <3>2, OrderedFor
    <3> QED BY <3>1, <3>3 DEF k, tn
  <2> QED BY <2>1, <2>2
<1> QED BY <1>5, <1>6, <1>7, <1>9 DEF ListsOrdered, Running

LEMMA UnlinkInTime ==
  ASSUME TimerTypeOK, LinkInv, OrderInv, NEW t \in Timers,
         list' = Unlinked(list, t), tick' = tick,
         timer'[t].ivl # 0 => timer'[t].ivl \in Accepted,
         \A y \in Timers : y # t => timer'[y] = timer[y] /\ age'[y] = age[y]
  PROVE  IntervalsOK' /\ ListsOrdered' /\ InTime' /\ ~Running(t)'
<1>1. list \in Lists /\ \A h \in Heads : Once(list[h])
  BY DEF TimerTypeOK, Lists, LinkInv, Sound
<1>2. /\ \A h \in Heads, y \in Timers : y # t => (OnList(list'[h], y) <=> OnList(list[h], y))
      /\ \A h \in Heads : ~OnList(list'[h], t) /\ list'[h] \in Seq(Timers)
  <2>1. /\ list' \in Lists
        /\ \A h \in Heads, y \in Timers : y # t => (OnList(list'[h], y) <=> OnList(list[h], y))
        /\ \A h \in Heads : ~OnList(list'[h], t)
    BY <1>1, UnlinkedProperties
  <2> QED BY <2>1 DEF Lists
<1>3. \A h \in Heads : Ordered(list'[h], timer)
  BY <1>1, UnlinkedOrdered DEF OrderInv, ListsOrdered
<1>4. ASSUME NEW h \in Heads PROVE Ordered(list'[h], timer')
  <2>1. \A y \in Timers : y # t => timer'[y].over = timer[y].over
    OBVIOUS
  <2> QED BY <1>2, <1>3, <2>1, OrderedFor
<1>5. IntervalsOK' /\ InTime' /\ ~Running(t)'
  BY <1>2 DEF OrderInv, IntervalsOK, InTime, Running
<1> QED BY <1>4, <1>5 DEF ListsOrdered

\* When time passes no timer of an ordered list becomes late.
LEMMA TickInTime ==
  ASSUME BeforeWrap, TimerTypeOK, LinkInv, OrderInv, Tick
  PROVE  OrderInv'
<1>1. /\ tick \in Ticks /\ tick' = Plus(tick, 1) /\ timer' = timer /\ list' = list
      /\ stack' = stack /\ stack \in Seq(TimerFrames)
      /\ tick < MaxTick \/ MaxTick = Modulus - 1
      /\ \A h \in Heads : ~Neglected(h)
      /\ \A i \in DOMAIN stack : IsTmr(stack[i]) => Minus(tick, stack[i].now) < MaxLag
      /\ age' = [t \in Timers |-> IF Running(t) /\ age[t] < Modulus
                                  THEN age[t] + 1 ELSE age[t]]
  BY DEF TimerTypeOK, Tick, isrVars
<1>2. /\ tick \in Nat /\ MaxTick \in Ticks /\ MaxTick \in Nat /\ MaxLag \in 1 .. Half - 1
      /\ Half \in Nat /\ Modulus = 2 * Half
      /\ \A t \in Timers : timer[t].over \in Ticks /\ timer[t].ivl \in Nat /\ age[t] \in Nat
                           /\ timer[t].ivl <= Half - 1
      /\ \A h \in Heads : list[h] \in Seq(Timers)
  BY <1>1, TimerAssumption DEF TimerTypeOK, Ticks, Modulus, LinkInv, Sound
<1>3. tick < MaxTick /\ tick' = tick + 1 /\ tick' <= MaxTick
  <2>1. tick < MaxTick
    BY <1>1, <1>2 DEF BeforeWrap
  <2> QED BY <1>1, <1>2, <2>1 DEF Plus, Ticks
<1>4. ASSUME NEW t \in Timers, Running(t)
      PROVE  /\ tick' <= timer[t].over + MaxLag
             /\ age'[t] + timer[t].over = tick' + timer[t].ivl
  <2>1. PICK h \in Heads : OnList(list[h], t)
    BY <1>4 DEF Running
  <2>2. PICK i \in DOMAIN list[h] : list[h][i] = t
    BY <2>1 DEF OnList
  <2>3. /\ list[h] # <<>> /\ 1 \in DOMAIN list[h] /\ list[h][1] \in Timers
        /\ i = 1 \/ 1 < i
    <3>1. DOMAIN list[h] = 1 .. Len(list[h]) /\ Len(list[h]) \in Nat
      BY <1>2, LenProperties
    <3>2. i \in Nat /\ 1 \in DOMAIN list[h] /\ (i = 1 \/ 1 < i)
      BY <2>2, <3>1
    <3>3. list[h] # <<>>
      BY <2>2, <3>1
    <3> QED BY <1>2, <3>2, <3>3, ElementOfSeq
  <2> DEFINE first == list[h][1]
  <2>4. /\ first \in Timers /\ Running(first) /\ timer[first].over \in Nat
        /\ timer[first].over <= timer[t].over
    <3>1. Running(first) /\ first \in Timers
      BY <2>3 DEF Running, OnList
    <3>2. timer[first].over \in Nat
      BY <1>2, <3>1 DEF Ticks
    <3>3. CASE i = 1
      BY <2>2, <3>1, <3>2, <3>3
    <3>4. CASE 1 < i
      BY <2>2, <2>3, <3>1, <3>2, <3>4 DEF OrderInv, ListsOrdered, Ordered
    <3> QED BY <2>3, <3>1, <3>2, <3>3, <3>4
  <2>5. Minus(tick, timer[first].over) \notin MaxLag .. Half - 1
    BY <1>1, <2>3 DEF Neglected
  <2> HIDE DEF first
  <2>6. tick <= timer[first].over + MaxLag
    BY <2>4 DEF OrderInv, InTime
  <2>7. tick < timer[first].over + MaxLag
    <3>1. CASE tick < timer[first].over
      BY <1>2, <2>4, <3>1
    <3>2. CASE timer[first].over <= tick
      <4>1. Minus(tick, timer[first].over) = tick - timer[first].over
        BY <3>2 DEF Minus
      <4> QED BY <1>2, <2>4, <2>5, <2>6, <3>2, <4>1
    <3> QED BY <1>2, <2>4, <3>1, <3>2
  <2>8. /\ tick <= timer[t].over + MaxLag
        /\ age[t] + timer[t].over = tick + timer[t].ivl
    BY <1>4 DEF OrderInv, InTime
  <2> DEFINE a == age[t]
             o == timer[t].over
             v == timer[t].ivl
             p == timer[first].over
  <2>9. /\ tick \in Nat /\ MaxLag \in 1 .. Half - 1 /\ Half \in Nat /\ Modulus = 2 * Half
        /\ a \in Nat /\ o \in Nat /\ v \in Nat /\ v <= Half - 1 /\ p \in Nat
        /\ p <= o /\ tick < p + MaxLag /\ tick <= o + MaxLag /\ a + o = tick + v
    BY <1>2, <2>4, <2>7, <2>8 DEF Ticks
  <2> HIDE DEF a, o, v, p
  <2>10. a < Modulus /\ tick + 1 <= o + MaxLag /\ (a + 1) + o = (tick + 1) + v
    BY <2>9
  <2>11. age'[t] = age[t] + 1
    BY <1>1, <1>4, <2>10 DEF a
  <2> QED BY <1>3, <2>10, <2>11 DEF a, o, v
<1>5. ASSUME NEW i \in DOMAIN stack'
      PROVE  stack'[i].now <= tick' /\ tick' <= stack'[i].now + MaxLag
  <2>1. stack[i] \in TimerFrames
    BY <1>1, <1>5, ElementOfSeq
  <2>2. IsTmr(stack[i]) /\ stack[i].now \in Nat /\ stack[i].now <= tick
    BY <1>1, <1>5, <2>1 DEF TimerFrames, IsTmr, OrderInv, Nows, Ticks
  <2>3. Minus(tick, stack[i].now) = tick - stack[i].now
    BY <2>2 DEF Minus
  <2>4. tick - stack[i].now < MaxLag
    BY <1>1, <1>5, <2>2, <2>3
  <2> QED BY <1>1, <1>2, <1>3, <2>2, <2>4
<1>6. IntervalsOK' /\ ListsOrdered'
  BY <1>1 DEF OrderInv, IntervalsOK, ListsOrdered, Ordered
<1>7. InTime' /\ Nows'
  BY <1>1, <1>3, <1>4, <1>5 DEF InTime, Nows, Running
<1> QED BY <1>6, <1>7 DEF OrderInv

LEMMA FireInTime ==
  ASSUME BeforeWrap, TimerTypeOK, LinkInv, OrderInv, NEW t \in Timers, TimerFire(t)
  PROVE  OrderInv' /\ (timer[t].mode # "loop" => ~Running(t)')
<1> DEFINE f == [Top EXCEPT !.cur = t, !.pc = IF timer[t].cb THEN "cb" ELSE "loop"]
<1>1. /\ stack \in Seq(TimerFrames) /\ list \in Lists /\ tick' = tick
      /\ stack # <<>> /\ Top.pc = "loop" /\ stack' = [stack EXCEPT ![1] = f]
  BY DEF TimerTypeOK, Lists, TimerFire, InPass, Goto
<1>2. /\ DOMAIN stack' = DOMAIN stack /\ stack'[1] = f /\ Top = stack[1]
      /\ 1 \in DOMAIN stack /\ \A i \in DOMAIN stack : i # 1 => stack'[i] = stack[i]
      /\ Top \in TimerFrames
  <2> HIDE DEF f
  <2>1. Top \in TimerFrames /\ 1 \in DOMAIN stack /\ stack \in Seq(TimerFrames)
    BY <1>1, TailFrames
  <2> QED BY <1>1, <2>1, ExceptSeq DEF Top
<1>3. f.now = Top.now /\ f.cur = t /\ Top.now \in Ticks /\ Top.head \in Heads
  BY <1>2 DEF TimerFrames
<1> HIDE DEF f
<1>4. Nows'
  BY <1>1, <1>2, <1>3 DEF OrderInv, Nows
<1>5. /\ Unlinked(list, t) \in Lists /\ \A g \in Heads : Once(list[g])
      /\ \A g \in Heads : Once(Unlinked(list, t)[g])
      /\ \A g \in Heads, y \in Timers : OnList(Unlinked(list, t)[g], y) => OnList(list[g], y)
      /\ \A g \in Heads : Ordered(Unlinked(list, t)[g], timer)
  <2>1. \A g \in Heads : Once(list[g])
    BY DEF LinkInv, Sound
  <2>2. \A g \in Heads : Ordered(Unlinked(list, t)[g], timer)
    BY <1>1, UnlinkedOrdered DEF OrderInv, ListsOrdered
  <2>3. /\ \A g \in Heads, y \in Timers : y # t => (OnList(Unlinked(list, t)[g], y) <=> OnList(list[g], y))
        /\ \A g \in Heads : Once(Unlinked(list, t)[g]) /\ ~OnList(Unlinked(list, t)[g], t)
        /\ Unlinked(list, t) \in Lists
    BY <1>1, <2>1, UnlinkedProperties
  <2> QED BY <2>1, <2>2, <2>3
<1>6. Armed(timer, t)
  BY FiresArmed
<1>7. timer[t].ivl \in Accepted
  BY <1>6 DEF Armed, OrderInv, IntervalsOK
<1>8. CASE timer[t].mode = "loop"
  <2>1. Start(Unlinked(list, t), t, Top.head, Top.now, timer[t].ivl)
    BY <1>8 DEF TimerFire
  <2>2. Top.now <= tick /\ tick <= Top.now + MaxLag
    BY <1>2 DEF OrderInv, Nows
  <2>3. IntervalsOK' /\ ListsOrdered' /\ InTime'
    BY <1>1, <1>3, <1>5, <1>7, <2>1, <2>2, StartInTime
  <2> QED BY <1>4, <1>8, <2>3 DEF OrderInv
<1>9. CASE timer[t].mode # "loop"
  <2>1. list' = Unlinked(list, t) /\ timer' = timer /\ age' = age
    BY <1>9 DEF TimerFire
  <2>2. IntervalsOK' /\ ListsOrdered' /\ InTime' /\ ~Running(t)'
    BY <1>1, <2>1, UnlinkInTime DEF OrderInv, IntervalsOK
  <2> QED BY <1>4, <2>2 DEF OrderInv
<1> QED BY <1>8, <1>9

LEMMA OrderStep ==
  ASSUME BeforeWrap, TimerTypeOK, LinkInv, OrderInv, [TimerNext]_allTimerVars
  PROVE  OrderInv'
<1>1. /\ list \in Lists /\ tick \in Ticks /\ timer \in [Timers -> TimerRecords]
      /\ age \in [Timers -> 0 .. Modulus] /\ \A h \in Heads : Once(list[h])
      /\ \A h \in Heads : Ordered(list[h], timer)
      /\ tick <= tick /\ tick <= tick + MaxLag
  BY TimerAssumption
  DEF TimerTypeOK, Lists, TimerRecords, LinkInv, Sound, OrderInv, ListsOrdered, Ticks, Modulus
<1>2. CASE UNCHANGED <<timerVars, stack>>
  BY <1>2 DEF timerVars, OrderInv, IntervalsOK, ListsOrdered, Ordered, InTime, Nows, Running
<1>3. CASE TimerLock \/ TimerDone \/ TimerCbReturn \/ \E h \in Heads : sh_timer_handler(h)
  <2>1. tick' = tick /\ timer' = timer /\ list' = list /\ age' = age
    BY <1>3 DEF TimerLock, TimerDone, TimerCbReturn, sh_timer_handler, timerVars
  <2>2. Nows'
    BY <1>1, <1>3, <2>1, FramesStep DEF OrderInv, Nows
  <2>3. IntervalsOK' /\ ListsOrdered' /\ InTime'
    BY <2>1 DEF OrderInv, IntervalsOK, ListsOrdered, Ordered, InTime, Running
  <2> QED BY <2>2, <2>3 DEF OrderInv
<1>4. ASSUME NEW t \in Timers, TimerFire(t) PROVE OrderInv'
  BY <1>4, FireInTime
<1>5. CASE Tick
  BY <1>5, TickInTime
<1>6. CASE sh_timer_create_fails
  BY <1>2, <1>6 DEF sh_timer_create_fails
<1>7. ASSUME UNCHANGED <<tick, stack>> PROVE Nows'
  BY <1>7 DEF OrderInv, Nows
<1>8. ASSUME NEW t \in Timers, sh_timer_destroy(t) PROVE OrderInv'
  <2>1. /\ UNCHANGED <<tick, stack>> /\ list' = Unlinked(list, t) /\ timer'[t].ivl = 0
        /\ \A y \in Timers : y # t => timer'[y] = timer[y] /\ age'[y] = age[y]
    BY <1>1, <1>8 DEF sh_timer_destroy, isrVars, Absent
  <2> QED BY <1>7, <2>1, UnlinkInTime DEF OrderInv
<1>9. ASSUME NEW t \in Timers, sh_timer_stop(t) PROVE OrderInv'
  <2>1. UNCHANGED <<tick, stack, timer, age>> /\ list' = Unlinked(list, t)
    BY <1>9 DEF sh_timer_stop, isrVars
  <2> QED BY <1>7, <2>1, UnlinkInTime DEF OrderInv, IntervalsOK
<1>10. ASSUME NEW t \in Timers, NEW mode \in {"single", "loop"}, sh_timer_set_mode(t, mode)
       PROVE  OrderInv'
  <2>1. /\ UNCHANGED <<tick, stack, list, age>>
        /\ \A y \in Timers : timer'[y].ivl = timer[y].ivl /\ timer'[y].over = timer[y].over
    BY <1>1, <1>10 DEF sh_timer_set_mode, isrVars, TimerRecords
  <2>2. \A h \in Heads : \A i \in DOMAIN list[h] : list[h][i] \in Timers
    BY <1>1, ElementOfSeq DEF Lists
  <2>3. IntervalsOK' /\ ListsOrdered' /\ InTime'
    BY <2>1, <2>2 DEF OrderInv, IntervalsOK, ListsOrdered, Ordered, InTime, Running
  <2> QED BY <1>7, <2>1, <2>3 DEF OrderInv
<1>11. ASSUME NEW t \in Timers, NEW mode \in {"single", "loop"}, NEW cb \in BOOLEAN,
              sh_timer_create(t, mode, cb)
       PROVE  OrderInv'
  <2>1. /\ UNCHANGED <<tick, stack, list, age>> /\ timer[t].live # TRUE
        /\ timer'[t].ivl = 0 /\ \A y \in Timers : y # t => timer'[y] = timer[y]
    BY <1>1, <1>11 DEF sh_timer_create, isrVars
  <2>2. ~Running(t)
    BY <2>1 DEF LinkInv, Sound, Armed, Running
  <2>3. IntervalsOK' /\ InTime'
    BY <2>1, <2>2 DEF OrderInv, IntervalsOK, InTime, Running
  <2>4. ASSUME NEW h \in Heads PROVE Ordered(list'[h], timer')
    <3>1. list[h] \in Seq(Timers) /\ ~OnList(list[h], t)
      BY <1>1, <2>2 DEF Lists, Running
    <3>2. \A y \in Timers : y # t => timer'[y].over = timer[y].over
      BY <2>1
    <3> QED BY <1>1, <2>1, <3>1, <3>2, OrderedFor
  <2> QED BY <1>7, <2>1, <2>3, <2>4 DEF OrderInv, ListsOrdered
<1>12. ASSUME NEW t \in Timers, NEW h \in Heads, NEW ivl \in Accepted,
              Start(list, t, h, tick, ivl), UNCHANGED <<tick, stack>>
       PROVE  OrderInv'
  BY <1>1, <1>7, <1>12, StartInTime DEF OrderInv
<1>13. ASSUME NEW t \in Timers, NEW h \in Heads, sh_timer_restart(t, h) PROVE OrderInv'
  <2>1. timer[t].ivl \in Accepted
    BY <1>13 DEF sh_timer_restart, OrderInv, IntervalsOK
  <2> QED BY <1>12, <1>13, <2>1 DEF sh_timer_restart, isrVars
<1>14. ASSUME NEW t \in Timers, NEW h \in Heads, NEW ivl \in Intervals,
              sh_timer_start(t, h, ivl)
       PROVE  OrderInv'
  <2>1. UNCHANGED <<tick, stack>>
    BY <1>14 DEF sh_timer_start, isrVars
  <2>2. CASE StartOk(ivl)
    BY <1>12, <1>14, <2>1, <2>2 DEF sh_timer_start, Accepted
  <2>3. CASE ~StartOk(ivl)
    <3>1. list' = Unlinked(list, t) /\ timer' = timer /\ age' = age
      BY <1>14, <2>3 DEF sh_timer_start
    <3> QED BY <1>7, <2>1, <3>1, UnlinkInTime DEF OrderInv, IntervalsOK
  <2> QED BY <2>2, <2>3
<1> QED BY <1>2, <1>3, <1>4, <1>5, <1>6, <1>8, <1>9, <1>10, <1>11, <1>13, <1>14
        DEF TimerNext, TimerSteps, allTimerVars, isrVars

LEMMA OrderInitially == TimerInit => OrderInv
<1> SUFFICES ASSUME TimerInit PROVE OrderInv
  OBVIOUS
<1>1. /\ DOMAIN stack = {} /\ tick = 0 /\ \A h \in Heads : DOMAIN list[h] = {}
      /\ 0 <= MaxTick
  BY TimerAssumption DEF TimerInit, IsrInit, Ticks
<1>2. \A t \in Timers : timer[t].ivl = 0 /\ ~Running(t)
  BY <1>1 DEF TimerInit, Absent, Running, OnList
<1> QED BY <1>1, <1>2 DEF OrderInv, IntervalsOK, ListsOrdered, Ordered, InTime, Nows

LEMMA OrderOnTime == TimerTypeOK /\ OrderInv => OnTime
<1> SUFFICES ASSUME TimerTypeOK, OrderInv, NEW t \in Timers, Running(t)
             PROVE  age[t] <= timer[t].ivl + MaxLag
  BY DEF OnTime
<1>1. /\ tick \in Nat /\ age[t] \in Nat /\ timer[t].ivl \in Nat /\ timer[t].over \in Nat
      /\ MaxLag \in Nat
  BY TimerAssumption DEF TimerTypeOK, Ticks, Modulus
<1>2. tick <= timer[t].over + MaxLag /\ age[t] + timer[t].over = tick + timer[t].ivl
  BY DEF OrderInv, InTime
<1> QED BY <1>1, <1>2

(***************************************************************************)
(* Every timer is served within MaxLag ticks of the moment it runs out,    *)
(* for any number of timers and lists, if the handler serves the first     *)
(* timer of a list that soon and the tick counter does not wrap: the       *)
(* sorted insertion of sh_timer_start makes looking at the first timer     *)
(* enough (sh_timer_start, sh_timer_handler).                              *)
(***************************************************************************)
THEOREM TimerServesOnTime ==
  ASSUME BeforeWrap
  PROVE  TimerSpec => []OnTime
<1>1. TimerTypeOK /\ LinkInv /\ OrderInv /\ [TimerNext]_allTimerVars => OrderInv'
  BY OrderStep
<1>2. TimerTypeOK /\ LinkInv /\ [TimerNext]_allTimerVars => LinkInv'
  BY LinkStep
<1> QED BY <1>1, <1>2, LinkInitially, OrderInitially, OrderOnTime, TimerTypeCorrect, PTL
        DEF TimerSpec, allTimerVars
-----------------------------------------------------------------------------
(***************************************************************************)
(* Timers with and without callback.  Only one without leaves a pass       *)
(* standing at a timer.                                                    *)
(***************************************************************************)
Callbacks == \A t \in Timers : timer[t].live => timer[t].cb \/ timer[t].mode \in NullCbModes

\* Then it is a SINGLE one,
AtSingle ==
  \A i \in DOMAIN stack, t \in Timers :
    stack[i].pc = "loop" /\ stack[i].cur = t =>
      ~Running(t) /\ sh_timer_is_time_out(stack[i].now, timer[t].over)

\* and if there is none without callback, a pass is always at the head.
AtHead == \A i \in DOMAIN stack : stack[i].pc = "loop" => stack[i].cur = "head"

LEMMA CallbacksStep ==
  ASSUME TimerTypeOK, Callbacks, [TimerNext]_allTimerVars
  PROVE  Callbacks'
<1>1. timer \in [Timers -> TimerRecords]
  BY DEF TimerTypeOK, TimerRecords
<1>2. ASSUME NEW ls, NEW t \in Timers, NEW h, NEW now, NEW ivl, Start(ls, t, h, now, ivl)
      PROVE  Callbacks'
  <2>1. \A y \in Timers : /\ timer'[y].live = timer[y].live /\ timer'[y].cb = timer[y].cb
                          /\ timer'[y].mode = timer[y].mode
    BY <1>1, <1>2 DEF Start, TimerRecords
  <2> QED BY <2>1 DEF Callbacks
<1>3. CASE timer' = timer
  BY <1>3 DEF Callbacks
<1>4. ASSUME NEW t \in Timers, TimerFire(t) PROVE Callbacks'
  BY <1>2, <1>3, <1>4 DEF TimerFire
<1>5. ASSUME NEW t \in Timers, sh_timer_destroy(t) PROVE Callbacks'
  <2>1. timer'[t].live = FALSE /\ \A y \in Timers : y # t => timer'[y] = timer[y]
    BY <1>1, <1>5 DEF sh_timer_destroy, Absent
  <2> QED BY <2>1 DEF Callbacks
<1>6. ASSUME NEW t \in Timers, NEW mode \in {"single", "loop"}, sh_timer_set_mode(t, mode)
      PROVE  Callbacks'
  <2>1. /\ timer[t].cb \/ mode \in NullCbModes
        /\ timer'[t].cb = timer[t].cb /\ timer'[t].mode = mode
        /\ \A y \in Timers : y # t => timer'[y] = timer[y]
    BY <1>1, <1>6 DEF sh_timer_set_mode, TimerRecords
  <2> QED BY <2>1 DEF Callbacks
<1>7. ASSUME NEW t \in Timers, NEW mode \in {"single", "loop"}, NEW cb \in BOOLEAN,
             sh_timer_create(t, mode, cb)
      PROVE  Callbacks'
  <2>1. /\ cb \/ mode \in NullCbModes
        /\ timer'[t].cb = cb /\ timer'[t].mode = mode
        /\ \A y \in Timers : y # t => timer'[y] = timer[y]
    BY <1>1, <1>7 DEF sh_timer_create
  <2> QED BY <2>1 DEF Callbacks
<1>8. ASSUME NEW t \in Timers, NEW h \in Heads, sh_timer_restart(t, h) PROVE Callbacks'
  BY <1>2, <1>8 DEF sh_timer_restart
<1>9. ASSUME NEW t \in Timers, NEW h \in Heads, NEW ivl \in Intervals,
             sh_timer_start(t, h, ivl)
      PROVE  Callbacks'
  BY <1>2, <1>3, <1>9 DEF sh_timer_start
<1>10. CASE \/ TimerLock \/ TimerDone \/ TimerCbReturn \/ Tick \/ sh_timer_create_fails
            \/ \E h \in Heads : sh_timer_handler(h)
            \/ \E t \in Timers : sh_timer_stop(t)
  BY <1>3, <1>10
  DEF TimerLock, TimerDone, TimerCbReturn, Tick, sh_timer_create_fails, sh_timer_handler,
      sh_timer_stop, timerVars
<1> QED BY <1>3, <1>4, <1>5, <1>6, <1>7, <1>8, <1>9, <1>10
        DEF TimerNext, TimerSteps, allTimerVars, timerVars

\* What a firing does to the frames.
LEMMA FireFrames ==
  ASSUME TimerTypeOK, LinkInv, NEW t \in Timers, TimerFire(t)
  PROVE  /\ DOMAIN stack' = DOMAIN stack
         /\ \A i \in DOMAIN stack : i # 1 => stack'[i].pc # "loop"
         /\ stack'[1].now = Top.now /\ stack'[1].cur = t
         /\ timer[t].cb => stack'[1].pc = "cb"
         /\ sh_timer_is_time_out(Top.now, timer[t].over)
<1> DEFINE f == [Top EXCEPT !.cur = t, !.pc = IF timer[t].cb THEN "cb" ELSE "loop"]
<1>1. /\ stack # <<>> /\ stack' = [stack EXCEPT ![1] = f] /\ stack \in Seq(TimerFrames)
      /\ sh_timer_is_time_out(Top.now, timer[t].over)
  BY TimerAssumption DEF TimerFire, InPass, Goto, PassEnds, TimerTypeOK
<1>2. /\ DOMAIN stack' = DOMAIN stack /\ stack'[1] = f
      /\ \A i \in DOMAIN stack : i # 1 => stack'[i] = stack[i]
      /\ Top \in TimerFrames
  <2> HIDE DEF f
  <2>1. Top \in TimerFrames /\ 1 \in DOMAIN stack
    BY <1>1, TailFrames
  <2> QED BY <1>1, <2>1, ExceptSeq
<1>3. f.now = Top.now /\ f.cur = t /\ f.pc = IF timer[t].cb THEN "cb" ELSE "loop"
  BY <1>2 DEF TimerFrames
<1> HIDE DEF f
<1> QED BY <1>1, <1>2, <1>3 DEF LinkInv, Passing

\* The steps that neither fire a timer nor act on the stack.
LEMMA OtherSteps ==
  ASSUME TimerTypeOK, LinkInv, [TimerNext]_allTimerVars,
         \A t \in Timers : ~TimerFire(t),
         ~(TimerLock \/ TimerDone \/ TimerCbReturn \/ \E h \in Heads : sh_timer_handler(h))
  PROVE  /\ stack' = stack
         /\ UNCHANGED <<timer, list>> \/ \A i \in DOMAIN stack : stack[i].pc # "loop"
<1>1. CASE UNCHANGED allTimerVars \/ Tick \/ sh_timer_create_fails
  BY <1>1 DEF allTimerVars, timerVars, isrVars, Tick, sh_timer_create_fails
<1>2. ASSUME NEW op, CanCall(op), stack' = stack
      PROVE  \A i \in DOMAIN stack : stack[i].pc # "loop"
  BY <1>2, CallOutsidePass DEF LinkInv
<1>3. CASE \E t \in Timers :
             \/ sh_timer_destroy(t) \/ sh_timer_stop(t)
             \/ \E mode \in {"single", "loop"} :
                  \/ sh_timer_set_mode(t, mode)
                  \/ \E cb \in BOOLEAN : sh_timer_create(t, mode, cb)
             \/ \E h \in Heads : \/ sh_timer_restart(t, h)
                                 \/ \E ivl \in Intervals : sh_timer_start(t, h, ivl)
  <2>1. stack' = stack /\ \E op : CanCall(op)
    BY <1>3 DEF sh_timer_destroy, sh_timer_stop, sh_timer_set_mode, sh_timer_create,
                sh_timer_restart, sh_timer_start, isrVars
  <2> QED BY <1>2, <2>1
<1> QED BY <1>1, <1>3 DEF TimerNext, TimerSteps

LEMMA AtSingleStep ==
  ASSUME BeforeWrap, "loop" \notin NullCbModes, TimerTypeOK, LinkInv, OrderInv,
         Callbacks, AtSingle, [TimerNext]_allTimerVars
  PROVE  AtSingle'
<1>1. CASE TimerLock \/ TimerDone \/ TimerCbReturn \/ \E h \in Heads : sh_timer_handler(h)
  <2>1. timer' = timer /\ list' = list
    BY <1>1 DEF TimerLock, TimerDone, TimerCbReturn, sh_timer_handler, timerVars
  <2> QED BY <1>1, <2>1, FramesStep, TimerAssumption DEF AtSingle, Running
<1>2. ASSUME NEW t \in Timers, TimerFire(t) PROVE AtSingle'
  <2>1. /\ DOMAIN stack' = DOMAIN stack
        /\ \A i \in DOMAIN stack : i # 1 => stack'[i].pc # "loop"
        /\ stack'[1].now = Top.now /\ stack'[1].cur = t
        /\ timer[t].cb => stack'[1].pc = "cb"
        /\ sh_timer_is_time_out(Top.now, timer[t].over)
    BY <1>2, FireFrames
  <2>2. timer[t].mode # "loop" => ~Running(t)'
    BY <1>2, FireInTime
  <2>3. CASE timer[t].mode = "loop"
    <3>1. stack'[1].pc = "cb"
      BY <1>2, <2>1, <2>3, FiresArmed DEF Callbacks, Armed
    <3> QED BY <2>1, <3>1 DEF AtSingle
  <2>4. CASE timer[t].mode # "loop"
    <3>1. timer' = timer
      BY <1>2, <2>4 DEF TimerFire
    <3> QED BY <2>1, <2>2, <2>4, <3>1 DEF AtSingle
  <2> QED BY <2>3, <2>4
<1> QED BY <1>1, <1>2, OtherSteps DEF AtSingle, Running

LEMMA AtHeadStep ==
  ASSUME NullCbModes = {}, TimerTypeOK, LinkInv, Callbacks, AtHead, [TimerNext]_allTimerVars
  PROVE  AtHead'
<1>1. CASE TimerLock \/ TimerDone \/ TimerCbReturn \/ \E h \in Heads : sh_timer_handler(h)
  BY <1>1, FramesStep DEF AtHead
<1>2. ASSUME NEW t \in Timers, TimerFire(t) PROVE AtHead'
  <2>1. stack'[1].pc = "cb"
    BY <1>2, FireFrames, FiresArmed DEF Callbacks, Armed
  <2> QED BY <1>2, <2>1, FireFrames DEF AtHead
<1> QED BY <1>1, <1>2, OtherSteps DEF AtHead

LEMMA PassInitially == TimerInit => Callbacks /\ AtSingle /\ AtHead
<1> SUFFICES ASSUME TimerInit PROVE Callbacks /\ AtSingle /\ AtHead
  OBVIOUS
<1>1. DOMAIN stack = {}
  BY DEF TimerInit, IsrInit
<1> QED BY <1>1 DEF TimerInit, Absent, Callbacks, AtSingle, AtHead

LEMMA PassOrdered ==
  ASSUME Headroom, TimerTypeOK, LinkInv, OrderInv, AtSingle
  PROVE  PassComplete
<1> SUFFICES ASSUME PassEnds, NEW t \in Timers, OnList(list[Top.head], t)
             PROVE  ~sh_timer_is_time_out(Top.now, timer[t].over)
  BY DEF PassComplete
<1> DEFINE l == list[Top.head]
<1>1. stack # <<>> /\ Top.pc = "loop" /\ stack \in Seq(TimerFrames)
  BY DEF PassEnds, InPass, TimerTypeOK
<1>2. Top \in TimerFrames /\ 1 \in DOMAIN stack /\ Top = stack[1]
  BY <1>1, TailFrames DEF Top
<1>3. /\ Top.now \in Ticks /\ Top.head \in Heads /\ Top.cur \in Timers \cup {"head"}
      /\ l \in Seq(Timers)
  BY <1>2 DEF TimerFrames, TimerTypeOK
<1>4. PICK i \in DOMAIN l : l[i] = t
  BY DEF OnList
<1>5. /\ 1 \in DOMAIN l /\ Len(l) \in Nat /\ 1 <= Len(l) /\ l[1] \in Timers
      /\ i = 1 \/ 1 < i
  <2>1. DOMAIN l = 1 .. Len(l) /\ Len(l) \in Nat
    BY <1>3, LenProperties
  <2>2. i \in Nat /\ 1 \in DOMAIN l /\ 1 <= Len(l) /\ (i = 1 \/ 1 < i)
    BY <1>4, <2>1
  <2> QED BY <1>3, <2>1, <2>2, ElementOfSeq
<1>6. Top.cur = "head"
  <2> SUFFICES ASSUME Top.cur # "head" PROVE FALSE
    OBVIOUS
  <2>1. /\ Top.cur \in Timers /\ ~Running(Top.cur)
        /\ sh_timer_is_time_out(Top.now, timer[Top.cur].over)
    BY <1>1, <1>2, <1>3 DEF AtSingle
  <2>2. NodeAfter(Top) = Top.cur
    BY <1>3, <2>1 DEF NodeAfter, Running
  <2> QED BY <2>1, <2>2 DEF PassEnds
<1>7. NodeAfter(Top) = l[1]
  BY <1>5, <1>6 DEF NodeAfter
<1>8. ~sh_timer_is_time_out(Top.now, timer[l[1]].over)
  BY <1>5, <1>7, TimerAssumption DEF PassEnds
<1> DEFINE p == timer[l[1]].over
           o == timer[t].over
           v == timer[t].ivl
           a == age[t]
           n == Top.now
<1>9. Running(t) /\ Running(l[1])
  BY <1>3, <1>5 DEF Running, OnList
<1>10. p \in Ticks /\ o \in Ticks /\ v \in Nat /\ a \in Nat /\ tick \in Ticks
  BY <1>5 DEF TimerTypeOK, Ticks
<1>11. p <= o
  <2>1. CASE i = 1
    BY <1>4, <1>10, <2>1 DEF Ticks
  <2>2. CASE 1 < i
    BY <1>3, <1>4, <1>5, <2>2 DEF OrderInv, ListsOrdered, Ordered
  <2> QED BY <1>5, <2>1, <2>2
<1>12. tick <= p + MaxLag /\ a + o = tick + v
  BY <1>5, <1>9 DEF OrderInv, InTime
<1>13. n <= tick /\ tick <= n + MaxLag
  BY <1>2 DEF OrderInv, Nows
<1>14. v + MaxLag <= Half
  BY <1>9 DEF Headroom, OrderInv, IntervalsOK, LinkInv, Sound, Armed, Running
<1>15. n \in Ticks /\ Half \in Nat /\ MaxLag \in 1 .. Half - 1
  BY <1>3, TimerAssumption
<1>16. ~(Minus(n, p) < Half)
  BY <1>8 DEF sh_timer_is_time_out
<1> HIDE DEF p, o, v, a, n, l
<1>17. n < p
  <2> SUFFICES ASSUME p <= n PROVE FALSE
    BY <1>10, <1>15 DEF Ticks
  <2>1. Minus(n, p) = n - p
    BY DEF Minus
  <2> QED BY <1>10, <1>12, <1>13, <1>15, <1>16, <2>1 DEF Ticks
<1>18. n < o /\ o <= n + Half
  BY <1>10, <1>11, <1>12, <1>13, <1>14, <1>15, <1>17 DEF Ticks
<1>19. ~(Minus(n, o) < Half)
  BY <1>10, <1>15, <1>18 DEF Minus, Ticks, Modulus
<1> QED BY <1>19 DEF sh_timer_is_time_out, n, o

(***************************************************************************)
(* A pass of sh_timer_handler leaves no timer behind that had run out at   *)
(* the tick it works with, whatever its callbacks and interrupts started   *)
(* before, if the tick counter does not wrap, intervals are at most Half - *)
(* MaxLag and no LOOP timer is without callback: stopping at the first     *)
(* timer that has not run out is enough.                                   *)
(***************************************************************************)
THEOREM TimerPassComplete ==
  ASSUME BeforeWrap, Headroom, "loop" \notin NullCbModes
  PROVE  TimerSpec => []PassComplete
<1>1. TimerTypeOK /\ LinkInv /\ OrderInv /\ [TimerNext]_allTimerVars => OrderInv'
  BY OrderStep
<1>2. TimerTypeOK /\ LinkInv /\ [TimerNext]_allTimerVars => LinkInv'
  BY LinkStep
<1>3. TimerTypeOK /\ LinkInv /\ OrderInv /\ Callbacks /\ AtSingle /\ [TimerNext]_allTimerVars
        => Callbacks' /\ AtSingle'
  BY CallbacksStep, AtSingleStep
<1>4. TimerTypeOK /\ LinkInv /\ OrderInv /\ AtSingle => PassComplete
  BY PassOrdered
<1> QED BY <1>1, <1>2, <1>3, <1>4, LinkInitially, OrderInitially, PassInitially,
           TimerTypeCorrect, PTL
        DEF TimerSpec, allTimerVars

(***************************************************************************)
(* A timer that was stopped, destroyed or refused does not fire, even when *)
(* that happens in the callback of another timer in the same pass (the     *)
(* goto restart of sh_timer_handler), if every timer has a callback.  The  *)
(* tick counter may wrap.                                                  *)
(***************************************************************************)
THEOREM TimerOnlyRunningFires ==
  ASSUME NullCbModes = {}
  PROVE  TimerSpec => OnlyRunningFires
<1>1. TimerTypeOK /\ LinkInv /\ [TimerNext]_allTimerVars => LinkInv'
  BY LinkStep
<1>2. TimerTypeOK /\ LinkInv /\ Callbacks /\ AtHead /\ [TimerNext]_allTimerVars
        => Callbacks' /\ AtHead'
  BY CallbacksStep, AtHeadStep
<1>3. ASSUME TimerTypeOK, AtHead, NEW t \in Timers, TimerFire(t)
      PROVE  OnList(list[Top.head], t)
  <2>1. stack # <<>> /\ Top.pc = "loop" /\ stack \in Seq(TimerFrames) /\ t = NodeAfter(Top)
    BY <1>3 DEF TimerTypeOK, TimerFire, InPass
  <2>2. Top \in TimerFrames /\ 1 \in DOMAIN stack /\ Top = stack[1]
    BY <2>1, TailFrames DEF Top
  <2>3. t # "head" /\ Top.cur = "head" /\ list[Top.head] \in Seq(Timers)
    BY <1>3, <2>1, <2>2, TimerAssumption DEF AtHead, TimerFrames, TimerTypeOK
  <2> QED BY <2>1, <2>3, NodeAfterOnList
<1>4. TimerTypeOK /\ AtHead
        => [\A t \in Timers : TimerFire(t) => OnList(list[Top.head], t)]_allTimerVars
  BY <1>3
<1> QED BY <1>1, <1>2, <1>4, LinkInitially, PassInitially, TimerTypeCorrect, PTL
        DEF TimerSpec, OnlyRunningFires, allTimerVars
=============================================================================
