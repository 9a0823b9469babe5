------------------------------ MODULE ShButton ------------------------------
(***************************************************************************)
(* The button driver of sh_lib, Src/sh_button.c.  sh_button_handler runs   *)
(* every tick: for every button on the list it reads the pin, debounces it *)
(* and advances the automaton that calls back for presses, releases,       *)
(* clicks and long presses.  Buttons share nothing but the limits.         *)
(***************************************************************************)
EXTENDS Naturals, SequencesExt

CONSTANTS Buttons,      \* the buttons
          ActiveLevels, \* their active levels, of {0, 1}
          CntMod,       \* 2^4 in the code: debounce_cnt has four bits
          RepeatMax,    \* SH_BUTTON_REPEAT_MAX, 7 in the code
          CtrlConfigs,  \* how programs initialise a sh_button_ctrl_t,
          CtrlDefaults, \* what sh_button_ctrl_init puts for a zero
          CbEvents      \* the events given to sh_button_attach_cb, detach_cb

Events == {"PRESS", "RELEASE", "SINGLE_CLICK", "DOUBLE_CLICK", "MULTI_CLICK",
           "LONG_PRESS_START", "LONG_PRESS_REPEAT"}

Limits == [debounce : Nat, release : Nat, long : Nat, repeat : Nat]

\* debounce_cnt never gets to a larger debounce.
ASSUME ButtonAssumption ==
  /\ ActiveLevels \subseteq {0, 1} /\ CntMod \in Nat /\ RepeatMax \in Nat \ 0 .. 2
  /\ CtrlConfigs \subseteq Limits /\ CtrlDefaults \in Limits
  /\ \A f \in DOMAIN CtrlDefaults : CtrlDefaults[f] > 0
  /\ \A c \in CtrlConfigs \cup {CtrlDefaults} : c.debounce < CntMod
  /\ CbEvents \subseteq Events

VARIABLES ctrl,    \* the limits of the sh_button_ctrl_t,
          head,    \* the buttons of its list,
          started, \* and whether sh_button_ctrl_init was called
          button,  \* the buttons,
          created, \* and those for which sh_button_init was called
          seen     \* of each button (not in the code): the level read last, for
                   \* how many scans it was `steady`, if it was an `edge`

buttonVars == <<ctrl, head, started, button, created, seen>>

ButtonOf(active) ==
  [state |-> "IDLE", ticks |-> 0, repeat |-> 0, debounce_cnt |-> 0,
   active_level |-> active, current_level |-> 1 - active,
   event |-> "PRESS", cb |-> {},
   told |-> <<>>] \* not in the code: the callbacks of the last scan

SeenOf(active) == [raw |-> 1 - active, steady |-> 0, edge |-> FALSE]

ButtonInit ==
  /\ ctrl \in CtrlConfigs /\ head = <<>> /\ started = FALSE
  /\ button = [b \in Buttons |-> ButtonOf(0)] /\ created = {}
  /\ seen = [b \in Buttons |-> SeenOf(0)]
-----------------------------------------------------------------------------
sh_button_init(b, active) ==
  /\ b \notin created /\ created' = created \cup {b}
  /\ button' = [button EXCEPT ![b] = ButtonOf(active)]
  /\ seen' = [seen EXCEPT ![b] = SeenOf(active)]
  /\ UNCHANGED <<ctrl, head, started>>

Attach(b, cbs) ==
  /\ b \in created
  /\ button' = [button EXCEPT ![b].cb = cbs]
  /\ UNCHANGED <<ctrl, head, started, created, seen>>

\* One callback for all events, or none.
sh_button_attach_cbs(b) == Attach(b, Events) \/ Attach(b, {})

sh_button_attach_cb(b, e) == Attach(b, button[b].cb \cup {e})

sh_button_detach_cb(b, e) == Attach(b, button[b].cb \ {e})

sh_button_ctrl_init ==
  /\ ~started /\ started' = TRUE /\ head' = <<>>
  /\ ctrl' = [f \in DOMAIN ctrl |-> IF ctrl[f] = 0 THEN CtrlDefaults[f] ELSE ctrl[f]]
  /\ UNCHANGED <<button, created, seen>>

\* A button is added once.
sh_button_ctrl_add(b) ==
  /\ started /\ b \in created /\ b \notin Range(head)
  /\ head' = Append(head, b)
  /\ UNCHANGED <<ctrl, started, button, created, seen>>
-----------------------------------------------------------------------------
Pressed(B) == B.current_level = B.active_level

\* Mutant: samples that agree with the current level do not count.
debounce_kept(B, level) ==
  IF B.current_level = level THEN B
  ELSE LET cnt == (B.debounce_cnt + 1) % CntMod
       IN  [B EXCEPT !.debounce_cnt = cnt,
                     !.current_level = IF cnt >= ctrl.debounce THEN 1 - @ ELSE @]

\* Mutant: the level is accepted one scan late.
debounce_late(B, level) ==
  IF B.current_level = level THEN [B EXCEPT !.debounce_cnt = 0]
  ELSE LET cnt == (B.debounce_cnt + 1) % CntMod
       IN  [B EXCEPT !.debounce_cnt = cnt,
                     !.current_level = IF cnt > ctrl.debounce THEN 1 - @ ELSE @]

\* The count goes on after an edge, until the level read agrees with it.
sh_button_debounce(B, level) ==
  IF B.current_level = level THEN [B EXCEPT !.debounce_cnt = 0]
  ELSE LET cnt == (B.debounce_cnt + 1) % CntMod
       IN  [B EXCEPT !.debounce_cnt = cnt,
                     !.current_level = IF cnt >= ctrl.debounce THEN 1 - @ ELSE @]

\* Mutant: the time is not started again.
update_state_keeps_ticks(B, e, s) ==
  [B EXCEPT !.event = e, !.state = s,
            !.told = IF e \in B.cb THEN Append(@, e) ELSE @]

invoke_cb_and_update_state(B, e, s) ==
  [B EXCEPT !.event = e, !.state = s, !.ticks = 0,
            !.told = IF e \in B.cb THEN Append(@, e) ELSE @]

\* Mutant: the count of presses is not started again.
edge_counts_on(B) ==
  LET press == invoke_cb_and_update_state(B, "PRESS", "PRESS")
      more(R) == IF R.repeat < RepeatMax THEN [R EXCEPT !.repeat = @ + 1] ELSE R
  IN  CASE B.state \in {"IDLE", "RELEASE"} /\ Pressed(B) -> more(press)
        [] B.state = "PRESS" /\ ~Pressed(B) ->
             invoke_cb_and_update_state(B, "RELEASE", "RELEASE")
        [] B.state = "LONG_PRESS" /\ ~Pressed(B) ->
             invoke_cb_and_update_state(B, "RELEASE", "IDLE")
        [] OTHER -> B

\* The first `if` of every case: the button went down or up.
ProcessEdge(B) ==
  LET press(R) == invoke_cb_and_update_state(R, "PRESS", "PRESS")
      more(R)  == IF R.repeat < RepeatMax THEN [R EXCEPT !.repeat = @ + 1] ELSE R
  IN  CASE B.state = "IDLE" /\ Pressed(B) -> [press(B) EXCEPT !.repeat = 1]
        [] B.state = "RELEASE" /\ Pressed(B) -> press(more(B))
        [] B.state = "PRESS" /\ ~Pressed(B) ->
             invoke_cb_and_update_state(B, "RELEASE", "RELEASE")
        [] B.state = "LONG_PRESS" /\ ~Pressed(B) ->
             invoke_cb_and_update_state(B, "RELEASE", "IDLE")
        [] OTHER -> B

ClickOf(B) == CASE B.repeat = 1 -> "SINGLE_CLICK"
                [] B.repeat = 2 -> "DOUBLE_CLICK"
                [] OTHER -> "MULTI_CLICK"

\* The second `if` of the case of state s: a time has passed.
ProcessTimeout(s, B) ==
  CASE s = "PRESS" /\ B.ticks >= ctrl.long ->
         invoke_cb_and_update_state(B, "LONG_PRESS_START", "LONG_PRESS")
    [] s = "RELEASE" /\ B.ticks >= ctrl.release ->
         invoke_cb_and_update_state(B, ClickOf(B), "IDLE")
    [] s = "LONG_PRESS" /\ B.ticks >= ctrl.repeat ->
         invoke_cb_and_update_state(B, "LONG_PRESS_REPEAT", "LONG_PRESS")
    [] OTHER -> B

\* ticks stops at a limit, which fits into it.
sh_button_state_machine_process(B) ==
  LET ticked == [B EXCEPT !.ticks = IF B.state = "IDLE" THEN @ ELSE @ + 1]
  IN  ProcessTimeout(B.state, ProcessEdge(ticked))

Scanned(B, level) ==
  sh_button_state_machine_process(sh_button_debounce([B EXCEPT !.told = <<>>], level))

Sees(S, level, edge) ==
  LET n == IF S.raw = level THEN S.steady + 1 ELSE 1
  IN  [raw |-> level, edge |-> edge,
       steady |-> IF n > ctrl.debounce + 1 THEN S.steady ELSE n]

\* `levels` is what get_button_level returns for every button.
sh_button_handler(levels) ==
  /\ started
  /\ button' = [b \in Buttons |-> IF b \in Range(head) THEN Scanned(button[b], levels[b])
                                  ELSE button[b]]
  /\ seen' = [b \in Buttons |->
                IF b \notin Range(head) THEN seen[b]
                ELSE Sees(seen[b], levels[b],
                          button'[b].current_level # button[b].current_level)]
  /\ UNCHANGED <<ctrl, head, started, created>>

ButtonNext ==
  \/ sh_button_ctrl_init
  \/ \E levels \in [Buttons -> {0, 1}] : sh_button_handler(levels)
  \/ \E b \in Buttons :
       \/ sh_button_ctrl_add(b) \/ sh_button_attach_cbs(b)
       \/ \E active \in ActiveLevels : sh_button_init(b, active)
       \/ \E e \in CbEvents : sh_button_attach_cb(b, e) \/ sh_button_detach_cb(b, e)

ButtonSpec == ButtonInit /\ [][ButtonNext]_buttonVars
-----------------------------------------------------------------------------
(***************************************************************************)
(* Types, with what keeps the fields inside their bits: ticks stays below  *)
(* the limit of the state, and the state follows the debounced level from  *)
(* scan to scan (sh_button_state_machine_process).                         *)
(***************************************************************************)
ButtonTypeOK ==
  /\ created \subseteq Buttons /\ Range(head) \subseteq created
  /\ \A b \in Buttons :
       LET B == button[b]
       IN  /\ B.debounce_cnt \in 0 .. CntMod - 1 /\ B.repeat \in 0 .. RepeatMax
           /\ B.event \in Events /\ B.cb \subseteq Events
           /\ \/ B.state = "PRESS" /\ B.ticks \in 0 .. ctrl.long - 1
              \/ B.state = "LONG_PRESS" /\ B.ticks \in 0 .. ctrl.repeat - 1
              \/ B.state = "RELEASE" /\ B.ticks \in 0 .. ctrl.release - 1
              \/ B.state = "IDLE" /\ B.ticks = 0
           /\ (Pressed(B) <=> B.state \in {"PRESS", "LONG_PRESS"})

(***************************************************************************)
(* A level that is read debounce_ticks + 1 times in a row is the current   *)
(* one, whatever bounced before: debounce_cnt may wrap to 0 only once on   *)
(* the way (sh_button_debounce).                                           *)
(***************************************************************************)
Settles ==
  \A b \in Buttons : seen[b].steady > ctrl.debounce => button[b].current_level = seen[b].raw

(***************************************************************************)
(* An edge is accepted only when the new level was read debounce_ticks     *)
(* times in a row, or in the scan right after another edge, whose count    *)
(* goes on (sh_button_debounce).                                           *)
(***************************************************************************)
EdgesDebounced ==
  [][\A b \in Range(head) :
       button'[b].current_level # button[b].current_level =>
         seen'[b].steady >= ctrl.debounce \/ seen[b].edge]_buttonVars

\* Scans since the button went down or up.
AgeOf(B) ==
  CASE B.state # "LONG_PRESS" -> B.ticks
    [] B.state = "LONG_PRESS" /\ B.ticks = 0 /\ B.event = "LONG_PRESS_REPEAT" ->
         ctrl.long + ctrl.repeat
    [] OTHER -> ctrl.long + B.ticks

Told == INSTANCE Gestures WITH
          MaxSeries <- RepeatMax, listed <- Range(head), limits <- ctrl,
          down <- [b \in Buttons |-> Pressed(button[b])],
          age <- [b \in Buttons |-> AgeOf(button[b])],
          series <- [b \in Buttons |-> IF button[b].state = "IDLE" THEN 0
                                       ELSE button[b].repeat],
          listens <- [b \in Buttons |-> button[b].cb],
          told <- [b \in Buttons |-> button[b].told]

(***************************************************************************)
(* What the callbacks are told is what the debounced button did: presses   *)
(* and releases in turn, a click of the right kind exactly release ticks   *)
(* after the last release of a series, a long press exactly long_press     *)
(* ticks after the press and its repetitions without drift, and never two  *)
(* of them at once (sh_button_state_machine_process).                      *)
(***************************************************************************)
IsGestures == Told!GestureSpec
=============================================================================
