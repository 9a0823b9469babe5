--------------------------- MODULE ShButtonProofs ---------------------------
(***************************************************************************)
(* Theorems about the button driver, for every set of buttons, limits,     *)
(* width of the debouncing counter and number of presses counted.          *)
(***************************************************************************)
EXTENDS ShButton, SequenceTheorems, TLAPS

States == {"IDLE", "PRESS", "RELEASE", "LONG_PRESS"}

ButtonRecords == [state : States, ticks : Nat, repeat : 0 .. RepeatMax,
                  debounce_cnt : 0 .. CntMod - 1, active_level : {0, 1},
                  current_level : {0, 1}, event : Events, cb : SUBSET Events,
                  told : Seq(Events)]

SeenRecords == [raw : {0, 1}, steady : Nat, edge : BOOLEAN]

-----------------------------------------------------------------------------
(***************************************************************************)
(* The invariant.                                                          *)
(***************************************************************************)
\* The limits once sh_button_ctrl_init has replaced the zeroes.
LimitsOK(c) ==
  /\ c.debounce \in 1 .. CntMod - 1
  /\ {c.release, c.long, c.repeat} \subseteq Nat \ {0}

\* The automaton follows the debounced level, and its time is below the limit.
StateOK(B, c) ==
  /\ \/ B.state = "PRESS" /\ B.ticks < c.long
     \/ B.state = "LONG_PRESS" /\ B.ticks < c.repeat
     \/ B.state = "RELEASE" /\ B.ticks < c.release
     \/ B.state = "IDLE" /\ B.ticks = 0
  /\ Pressed(B) <=> B.state \in {"PRESS", "LONG_PRESS"}

\* What the counter says of the levels that were read.  It may be one scan
\* behind them, when it has wrapped, and ahead of them only after an edge.
CountOK(B, S, c) ==
  /\ B.current_level # S.raw => B.debounce_cnt < c.debounce /\ S.steady <= B.debounce_cnt + 1
  /\ IF S.edge THEN B.debounce_cnt >= c.debounce
     ELSE /\ B.debounce_cnt <= S.steady
          /\ B.debounce_cnt > 0 => B.current_level # S.raw

\* A button that was not scanned since sh_button_init.
Fresh(B, S) ==
  /\ B.state = "IDLE" /\ B.ticks = 0 /\ ~Pressed(B) /\ B.debounce_cnt = 0
  /\ S.raw = B.current_level /\ S.steady = 0 /\ ~S.edge

ButtonInv ==
  /\ created \subseteq Buttons /\ started \in BOOLEAN
  /\ head \in Seq(Buttons) /\ \A i \in DOMAIN head : head[i] \in created
  /\ ctrl \in Limits /\ ctrl.debounce < CntMod
  /\ button \in [Buttons -> ButtonRecords] /\ seen \in [Buttons -> SeenRecords]
  /\ IF started
     THEN /\ LimitsOK(ctrl)
          /\ \A b \in Buttons : StateOK(button[b], ctrl) /\ CountOK(button[b], seen[b], ctrl)
     ELSE \A b \in Buttons : Fresh(button[b], seen[b])

LEMMA CounterRange == CntMod \in Nat \ {0}
BY ButtonAssumption DEF Limits

LEMMA FreshButton ==
  ASSUME NEW active \in {0, 1}, CntMod \in Nat \ {0}
  PROVE  /\ ButtonOf(active) \in ButtonRecords /\ SeenOf(active) \in SeenRecords
         /\ Fresh(ButtonOf(active), SeenOf(active))
<1>1. <<>> \in Seq(Events) /\ "PRESS" \in Events /\ 0 \in 0 .. RepeatMax /\ 0 \in 0 .. CntMod - 1
  BY ButtonAssumption DEF Events
<1>2. ButtonOf(active) \in ButtonRecords
  BY <1>1 DEF ButtonOf, ButtonRecords, States
<1>3. SeenOf(active) \in SeenRecords
  BY DEF SeenOf, SeenRecords
<1>4. Fresh(ButtonOf(active), SeenOf(active))
  BY DEF Fresh, ButtonOf, SeenOf, Pressed
<1> QED BY <1>2, <1>3, <1>4

\* A fresh button satisfies the rest.
LEMMA FreshOK ==
  ASSUME NEW B \in ButtonRecords, NEW S \in SeenRecords, NEW c, LimitsOK(c), Fresh(B, S)
  PROVE  StateOK(B, c) /\ CountOK(B, S, c)
BY DEF Fresh, StateOK, CountOK, LimitsOK, ButtonRecords, SeenRecords

-----------------------------------------------------------------------------
(***************************************************************************)
(* One scan.                                                               *)
(***************************************************************************)
\* Counting modulo CntMod.
LEMMA CountUp ==
  ASSUME NEW n \in 0 .. CntMod - 1, CntMod \in Nat \ {0}
  PROVE  (n + 1) % CntMod = (IF n + 1 < CntMod THEN n + 1 ELSE 0)
<1>1. CASE n + 1 < CntMod
  BY <1>1
<1>2. CASE ~(n + 1 < CntMod)
  <2>1. n + 1 = CntMod
    BY <1>2
  <2> QED BY <1>2, <2>1
<1> QED BY <1>1, <1>2

LEMMA CounterReset ==
  ASSUME NEW B \in ButtonRecords, CntMod \in Nat \ {0},
         NEW D, D = [B EXCEPT !.debounce_cnt = 0]
  PROVE  /\ D \in ButtonRecords /\ D.debounce_cnt = 0
         /\ D.current_level = B.current_level /\ D.state = B.state /\ D.ticks = B.ticks
BY DEF ButtonRecords

LEMMA DebounceOK ==
  ASSUME NEW B \in ButtonRecords, NEW S \in SeenRecords, NEW level \in {0, 1},
         LimitsOK(ctrl), CntMod \in Nat \ {0}, CountOK(B, S, ctrl)
  PROVE  LET D == sh_button_debounce(B, level)
             T == Sees(S, level, D.current_level # B.current_level)
         IN  /\ D \in ButtonRecords /\ T \in SeenRecords /\ CountOK(D, T, ctrl)
             /\ D.state = B.state /\ D.ticks = B.ticks
             /\ D.current_level # B.current_level => T.steady >= ctrl.debounce \/ S.edge
<1> DEFINE D == sh_button_debounce(B, level)
           T == Sees(S, level, D.current_level # B.current_level)
           cnt == (B.debounce_cnt + 1) % CntMod
           n == IF S.raw = level THEN S.steady + 1 ELSE 1
<1>1. /\ B.debounce_cnt \in 0 .. CntMod - 1 /\ B.current_level \in {0, 1}
      /\ S.raw \in {0, 1} /\ S.steady \in Nat /\ S.edge \in BOOLEAN
  BY DEF ButtonRecords, SeenRecords
<1>2. ctrl.debounce \in 1 .. CntMod - 1
  BY DEF LimitsOK
<1>3. cnt = IF B.debounce_cnt + 1 < CntMod THEN B.debounce_cnt + 1 ELSE 0
  BY <1>1, CountUp
<1>4. cnt \in 0 .. CntMod - 1
  BY <1>1, <1>3
<1>5. /\ T.raw = level /\ T.edge = (D.current_level # B.current_level)
      /\ T.steady = IF n > ctrl.debounce + 1 THEN S.steady ELSE n
  BY DEF Sees
<1>6. T \in SeenRecords
  <2>1. T.steady \in Nat
    BY <1>1, <1>5
  <2>2. (D.current_level # B.current_level) \in BOOLEAN
    BY Zenon
  <2> QED BY <2>1, <2>2, <1>5 DEF Sees, SeenRecords
<1>7. CASE B.current_level = level
  <2>1. D = [B EXCEPT !.debounce_cnt = 0]
    BY <1>7 DEF sh_button_debounce
  <2>2. /\ D \in ButtonRecords /\ D.debounce_cnt = 0 /\ D.current_level = level
        /\ D.state = B.state /\ D.ticks = B.ticks
    <3> HIDE DEF D
    <3> QED BY <1>7, <2>1, CounterReset
  <2>3. CountOK(D, T, ctrl)
    <3>1. ~T.edge /\ T.steady \in Nat
      BY <1>5, <1>6, <1>7, <2>2 DEF SeenRecords
    <3> QED BY <1>5, <2>2, <3>1 DEF CountOK
  <2> QED BY <1>6, <1>7, <2>2, <2>3
<1>8. CASE B.current_level # level
  <2>1. D = [B EXCEPT !.debounce_cnt = cnt,
                      !.current_level = IF cnt >= ctrl.debounce THEN 1 - @ ELSE @]
    BY <1>8 DEF sh_button_debounce
  <2> HIDE DEF cnt
  <2>2. /\ D \in ButtonRecords /\ D.debounce_cnt = cnt
        /\ D.current_level = IF cnt >= ctrl.debounce THEN level ELSE B.current_level
        /\ D.state = B.state /\ D.ticks = B.ticks
    <3> DEFINE l == IF cnt >= ctrl.debounce THEN 1 - B.current_level ELSE B.current_level
    <3>1. l \in {0, 1} /\ l = IF cnt >= ctrl.debounce THEN level ELSE B.current_level
      BY <1>1, <1>8
    <3>2. D = [B EXCEPT !.debounce_cnt = cnt, !.current_level = l]
      BY <2>1
    <3>3. l \in {0, 1} /\ cnt \in 0 .. CntMod - 1
      BY <1>4, <3>1
    <3> HIDE DEF l, D
    <3>4. /\ D \in ButtonRecords /\ D.debounce_cnt = cnt
          /\ D.current_level = l /\ D.state = B.state /\ D.ticks = B.ticks
      BY <3>2, <3>3 DEF ButtonRecords
    <3> QED BY <3>1, <3>4
  <2> HIDE DEF D
  <2>3. /\ T.edge = (cnt >= ctrl.debounce) /\ T.edge \in BOOLEAN
        /\ D.current_level # T.raw => cnt < ctrl.debounce
        /\ cnt < ctrl.debounce => D.current_level # T.raw
    BY <1>2, <1>4, <1>5, <1>6, <1>8, <2>2 DEF SeenRecords
  <2> HIDE DEF T, n
  <2>4. S.raw = level <=> B.current_level # S.raw
    BY <1>1, <1>8
  <2>5. n = IF B.current_level # S.raw THEN S.steady + 1 ELSE 1
    BY <2>4 DEF n
  <2>6. /\ B.current_level # S.raw => B.debounce_cnt < ctrl.debounce /\ S.steady <= B.debounce_cnt + 1
        /\ S.edge => B.debounce_cnt >= ctrl.debounce
        /\ ~S.edge => /\ B.debounce_cnt <= S.steady
                      /\ B.debounce_cnt > 0 => B.current_level # S.raw
    BY DEF CountOK
  <2>7. cnt < ctrl.debounce => T.steady <= cnt + 1
    BY <1>1, <1>2, <1>3, <1>5, <2>5, <2>6
  <2>8. cnt < ctrl.debounce => cnt <= T.steady
    BY <1>1, <1>2, <1>3, <1>5, <2>5, <2>6
  <2>9. cnt >= ctrl.debounce => T.steady >= ctrl.debounce \/ S.edge
    BY <1>1, <1>2, <1>3, <1>5, <2>5, <2>6
  <2>10. CountOK(D, T, ctrl)
    <3>1. D.debounce_cnt = cnt /\ cnt \in Nat /\ ctrl.debounce \in Nat
      BY <1>2, <1>4, <2>2
    <3>2. cnt < ctrl.debounce \/ cnt >= ctrl.debounce
      BY <3>1
    <3> QED BY <2>3, <2>7, <2>8, <3>1, <3>2 DEF CountOK
  <2>11. D.current_level # B.current_level => cnt >= ctrl.debounce
    BY <2>2
  <2> QED BY <1>6, <2>2, <2>9, <2>10, <2>11 DEF D, T
<1> QED BY <1>7, <1>8

\* What the automaton leaves of the debounced button.
SameLevels(R, B) ==
  /\ R.active_level = B.active_level /\ R.current_level = B.current_level
  /\ R.debounce_cnt = B.debounce_cnt

LEMMA InvokeOK ==
  ASSUME NEW B \in ButtonRecords, NEW e \in Events, NEW s \in States
  PROVE  /\ invoke_cb_and_update_state(B, e, s) \in ButtonRecords
         /\ SameLevels(invoke_cb_and_update_state(B, e, s), B)
         /\ invoke_cb_and_update_state(B, e, s).state = s
         /\ invoke_cb_and_update_state(B, e, s).ticks = 0
         /\ invoke_cb_and_update_state(B, e, s).repeat = B.repeat
<1> DEFINE t == IF e \in B.cb THEN Append(B.told, e) ELSE B.told
           R == invoke_cb_and_update_state(B, e, s)
<1>1. t \in Seq(Events)
  <2>1. B.told \in Seq(Events)
    BY DEF ButtonRecords
  <2> QED BY <2>1, AppendProperties
<1>2. R = [B EXCEPT !.event = e, !.state = s, !.ticks = 0, !.told = t]
  BY DEF invoke_cb_and_update_state
<1> HIDE DEF t, R
<1>3. /\ R \in ButtonRecords /\ SameLevels(R, B)
      /\ R.state = s /\ R.ticks = 0 /\ R.repeat = B.repeat
  BY <1>1, <1>2 DEF ButtonRecords, SameLevels
<1> QED BY <1>3 DEF R

LEMMA RepeatOK ==
  ASSUME NEW B \in ButtonRecords, NEW r \in 0 .. RepeatMax, NEW R, R = [B EXCEPT !.repeat = r]
  PROVE  R \in ButtonRecords /\ SameLevels(R, B) /\ R.state = B.state /\ R.ticks = B.ticks
BY DEF ButtonRecords, SameLevels

LEMMA SameTrans ==
  ASSUME NEW A, NEW B, NEW C, SameLevels(A, B), SameLevels(B, C)
  PROVE  SameLevels(A, C)
BY DEF SameLevels

LEMMA EventNames ==
  /\ {"PRESS", "RELEASE", "SINGLE_CLICK", "DOUBLE_CLICK", "MULTI_CLICK",
      "LONG_PRESS_START", "LONG_PRESS_REPEAT"} \subseteq Events
  /\ {"IDLE", "PRESS", "RELEASE", "LONG_PRESS"} \subseteq States
BY DEF Events, States

\* After an edge the time starts again, in the state of the new level.
LEMMA EdgeOK ==
  ASSUME NEW B \in ButtonRecords
  PROVE  /\ ProcessEdge(B) \in ButtonRecords /\ SameLevels(ProcessEdge(B), B)
         /\ \/ /\ ProcessEdge(B).state = B.state /\ ProcessEdge(B).ticks = B.ticks
               /\ Pressed(B) <=> B.state \in {"PRESS", "LONG_PRESS"}
            \/ /\ ProcessEdge(B).ticks = 0
               /\ \/ Pressed(B) /\ ProcessEdge(B).state = "PRESS"
                  \/ ~Pressed(B) /\ ProcessEdge(B).state \in {"RELEASE", "IDLE"}
<1> DEFINE E == ProcessEdge(B)
           press(R) == invoke_cb_and_update_state(R, "PRESS", "PRESS")
           more(R)  == IF R.repeat < RepeatMax THEN [R EXCEPT !.repeat = @ + 1] ELSE R
<1>0. B.state \in States /\ B.repeat \in 0 .. RepeatMax /\ RepeatMax \in Nat /\ RepeatMax > 2
  BY ButtonAssumption DEF ButtonRecords
<1>1. CASE B.state = "IDLE" /\ Pressed(B)
  <2>1. E = [press(B) EXCEPT !.repeat = 1]
    BY <1>1 DEF ProcessEdge
  <2>2. /\ press(B) \in ButtonRecords /\ SameLevels(press(B), B)
        /\ press(B).state = "PRESS" /\ press(B).ticks = 0
    BY EventNames, InvokeOK
  <2>3. 1 \in 0 .. RepeatMax
    BY <1>0
  <2> HIDE DEF E, press
  <2>4. E \in ButtonRecords /\ SameLevels(E, press(B)) /\ E.state = "PRESS" /\ E.ticks = 0
    BY <2>1, <2>2, <2>3, RepeatOK
  <2>5. SameLevels(E, B)
    BY <2>2, <2>4, SameTrans
  <2> QED BY <1>1, <2>4, <2>5 DEF E
<1>2. CASE B.state = "RELEASE" /\ Pressed(B)
  <2> DEFINE m == more(B)
  <2>1. E = press(m)
    BY <1>2 DEF ProcessEdge
  <2>2. m \in ButtonRecords /\ SameLevels(m, B)
    <3>1. CASE B.repeat < RepeatMax
      <4>1. m = [B EXCEPT !.repeat = B.repeat + 1] /\ B.repeat + 1 \in 0 .. RepeatMax
        BY <1>0, <3>1
      <4> HIDE DEF m
      <4> QED BY <4>1, RepeatOK
    <3>2. CASE ~(B.repeat < RepeatMax)
      BY <3>2 DEF SameLevels
    <3> QED BY <3>1, <3>2
  <2> HIDE DEF m
  <2>3. /\ press(m) \in ButtonRecords /\ SameLevels(press(m), m)
        /\ press(m).state = "PRESS" /\ press(m).ticks = 0
    BY <2>2, EventNames, InvokeOK
  <2>4. SameLevels(press(m), B)
    BY <2>2, <2>3, SameTrans
  <2> HIDE DEF press
  <2> QED BY <1>2, <2>1, <2>3, <2>4
<1>3. CASE B.state = "PRESS" /\ ~Pressed(B)
  <2>1. E = invoke_cb_and_update_state(B, "RELEASE", "RELEASE")
    BY <1>3 DEF ProcessEdge
  <2> HIDE DEF E
  <2>2. E \in ButtonRecords /\ SameLevels(E, B) /\ E.state = "RELEASE" /\ E.ticks = 0
    <3>1. "RELEASE" \in Events /\ "RELEASE" \in States
      BY EventNames
    <3> QED BY <2>1, <3>1, InvokeOK
  <2> QED BY <1>3, <2>2 DEF E
<1>4. CASE B.state = "LONG_PRESS" /\ ~Pressed(B)
  <2>1. E = invoke_cb_and_update_state(B, "RELEASE", "IDLE")
    BY <1>4 DEF ProcessEdge
  <2> HIDE DEF E
  <2>2. E \in ButtonRecords /\ SameLevels(E, B) /\ E.state = "IDLE" /\ E.ticks = 0
    <3>1. "RELEASE" \in Events /\ "IDLE" \in States
      BY EventNames
    <3> QED BY <2>1, <3>1, InvokeOK
  <2> QED BY <1>4, <2>2 DEF E
<1>5. CASE Pressed(B) <=> B.state \in {"PRESS", "LONG_PRESS"}
  <2>1. E = B
    BY <1>5 DEF ProcessEdge
  <2> QED BY <1>5, <2>1 DEF SameLevels
<1> QED BY <1>0, <1>1, <1>2, <1>3, <1>4, <1>5 DEF States

\* A time that has passed starts again, in a state with the same level.
LEMMA TimeoutOK ==
  ASSUME NEW E \in ButtonRecords, NEW s \in States, NEW R, R = ProcessTimeout(s, E)
  PROVE  /\ R \in ButtonRecords /\ SameLevels(R, E)
         /\ \/ R = E /\ \/ s = "IDLE"
                        \/ s = "PRESS" /\ ~(E.ticks >= ctrl.long)
                        \/ s = "RELEASE" /\ ~(E.ticks >= ctrl.release)
                        \/ s = "LONG_PRESS" /\ ~(E.ticks >= ctrl.repeat)
            \/ R.ticks = 0 /\ s = "PRESS" /\ E.ticks >= ctrl.long /\ R.state = "LONG_PRESS"
            \/ R.ticks = 0 /\ s = "RELEASE" /\ E.ticks >= ctrl.release /\ R.state = "IDLE"
            \/ R.ticks = 0 /\ s = "LONG_PRESS" /\ E.ticks >= ctrl.repeat
               /\ R.state = "LONG_PRESS"
<1>1. CASE s = "PRESS" /\ E.ticks >= ctrl.long
  <2>1. R = invoke_cb_and_update_state(E, "LONG_PRESS_START", "LONG_PRESS")
    BY <1>1 DEF ProcessTimeout
  <2> DEFINE e == "LONG_PRESS_START"
  <2>2. e \in Events /\ "LONG_PRESS" \in States
    BY EventNames
  <2>3. R = invoke_cb_and_update_state(E, e, "LONG_PRESS")
    BY <2>1
  <2> HIDE DEF e
  <2>4. R \in ButtonRecords /\ SameLevels(R, E) /\ R.state = "LONG_PRESS" /\ R.ticks = 0
    BY <2>2, <2>3, InvokeOK
  <2> QED BY <1>1, <2>4
<1>2. CASE s = "RELEASE" /\ E.ticks >= ctrl.release
  <2>1. R = invoke_cb_and_update_state(E, ClickOf(E), "IDLE") /\ ClickOf(E) \in Events
    BY <1>2, EventNames DEF ProcessTimeout, ClickOf
  <2> DEFINE e == ClickOf(E)
  <2>2. e \in Events /\ "IDLE" \in States
    BY <2>1, EventNames
  <2>3. R = invoke_cb_and_update_state(E, e, "IDLE")
    BY <2>1
  <2> HIDE DEF e
  <2>4. R \in ButtonRecords /\ SameLevels(R, E) /\ R.state = "IDLE" /\ R.ticks = 0
    BY <2>2, <2>3, InvokeOK
  <2> QED BY <1>2, <2>4
<1>3. CASE s = "LONG_PRESS" /\ E.ticks >= ctrl.repeat
  <2>1. R = invoke_cb_and_update_state(E, "LONG_PRESS_REPEAT", "LONG_PRESS")
    BY <1>3 DEF ProcessTimeout
  <2> DEFINE e == "LONG_PRESS_REPEAT"
  <2>2. e \in Events /\ "LONG_PRESS" \in States
    BY EventNames
  <2>3. R = invoke_cb_and_update_state(E, e, "LONG_PRESS")
    BY <2>1
  <2> HIDE DEF e
  <2>4. R \in ButtonRecords /\ SameLevels(R, E) /\ R.state = "LONG_PRESS" /\ R.ticks = 0
    BY <2>2, <2>3, InvokeOK
  <2> QED BY <1>3, <2>4
<1>4. CASE /\ ~(s = "PRESS" /\ E.ticks >= ctrl.long)
           /\ ~(s = "RELEASE" /\ E.ticks >= ctrl.release)
           /\ ~(s = "LONG_PRESS" /\ E.ticks >= ctrl.repeat)
  <2>1. R = E
    BY <1>4 DEF ProcessTimeout
  <2> QED BY <1>4, <2>1 DEF States, SameLevels
<1> QED BY <1>1, <1>2, <1>3, <1>4

\* The automaton follows the debounced level, wherever its time was.
LEMMA ProcessOK ==
  ASSUME NEW A \in ButtonRecords, NEW B \in ButtonRecords, LimitsOK(ctrl), StateOK(A, ctrl),
         B.state = A.state, B.ticks = A.ticks
  PROVE  LET R == sh_button_state_machine_process(B)
         IN  R \in ButtonRecords /\ SameLevels(R, B) /\ StateOK(R, ctrl)
<1> DEFINE T == [B EXCEPT !.ticks = IF B.state = "IDLE" THEN @ ELSE @ + 1]
           E == ProcessEdge(T)
           R == ProcessTimeout(B.state, E)
           down == Pressed(B)
<1>1. /\ T \in ButtonRecords /\ SameLevels(T, B) /\ T.state = B.state
      /\ T.ticks = IF B.state = "IDLE" THEN B.ticks ELSE B.ticks + 1
  <2> DEFINE t == IF B.state = "IDLE" THEN B.ticks ELSE B.ticks + 1
  <2>1. t \in Nat
    BY DEF ButtonRecords
  <2>2. T = [B EXCEPT !.ticks = t]
    OBVIOUS
  <2> HIDE DEF t, T
  <2>3. T \in ButtonRecords /\ SameLevels(T, B) /\ T.state = B.state /\ T.ticks = t
    BY <2>1, <2>2 DEF ButtonRecords, SameLevels
  <2> QED BY <2>3 DEF t
<1>2. Pressed(T) <=> down
  BY <1>1 DEF Pressed, SameLevels
<1> HIDE DEF T
<1>3. /\ E \in ButtonRecords /\ SameLevels(E, T)
      /\ \/ /\ E.state = T.state /\ E.ticks = T.ticks
            /\ down <=> T.state \in {"PRESS", "LONG_PRESS"}
         \/ /\ E.ticks = 0
            /\ \/ down /\ E.state = "PRESS"
               \/ ~down /\ E.state \in {"RELEASE", "IDLE"}
  BY <1>1, <1>2, EdgeOK
<1> HIDE DEF E
<1>4. B.state \in States /\ B.ticks \in Nat
  BY DEF ButtonRecords
<1>5. /\ R \in ButtonRecords /\ SameLevels(R, E)
      /\ \/ R = E /\ \/ B.state = "IDLE"
                     \/ B.state = "PRESS" /\ ~(E.ticks >= ctrl.long)
                     \/ B.state = "RELEASE" /\ ~(E.ticks >= ctrl.release)
                     \/ B.state = "LONG_PRESS" /\ ~(E.ticks >= ctrl.repeat)
         \/ R.ticks = 0 /\ B.state = "PRESS" /\ E.ticks >= ctrl.long /\ R.state = "LONG_PRESS"
         \/ R.ticks = 0 /\ B.state = "RELEASE" /\ E.ticks >= ctrl.release /\ R.state = "IDLE"
         \/ R.ticks = 0 /\ B.state = "LONG_PRESS" /\ E.ticks >= ctrl.repeat
            /\ R.state = "LONG_PRESS"
  BY <1>3, <1>4, TimeoutOK
<1> HIDE DEF R
<1>6. SameLevels(R, B)
  BY <1>1, <1>3, <1>5, SameTrans
<1>7. Pressed(R) <=> down
  BY <1>6 DEF Pressed, SameLevels
<1> HIDE DEF down
<1>8. ctrl.long \in Nat \ {0} /\ ctrl.release \in Nat \ {0} /\ ctrl.repeat \in Nat \ {0}
  BY DEF LimitsOK
<1>9. \/ B.state = "PRESS" /\ B.ticks < ctrl.long
      \/ B.state = "LONG_PRESS" /\ B.ticks < ctrl.repeat
      \/ B.state = "RELEASE" /\ B.ticks < ctrl.release
      \/ B.state = "IDLE" /\ B.ticks = 0
  BY DEF StateOK
<1>10. E.ticks \in Nat
  BY <1>3 DEF ButtonRecords
<1>11. ASSUME E.state = T.state, E.ticks = T.ticks,
              down <=> T.state \in {"PRESS", "LONG_PRESS"}
       PROVE  StateOK(R, ctrl)
  BY <1>1, <1>4, <1>5, <1>7, <1>8, <1>9, <1>10, <1>11 DEF StateOK
<1>12. ASSUME E.ticks = 0,
              (down /\ E.state = "PRESS") \/ (~down /\ E.state \in {"RELEASE", "IDLE"})
       PROVE  StateOK(R, ctrl)
  <2>1. R = E
    BY <1>5, <1>8, <1>12
  <2> QED BY <1>7, <1>8, <1>12, <2>1 DEF StateOK
<1>13. StateOK(R, ctrl)
  BY <1>3, <1>11, <1>12
<1>14. R = sh_button_state_machine_process(B)
  BY DEF R, E, T, sh_button_state_machine_process
<1> QED BY <1>5, <1>6, <1>13, <1>14

\* What one call of sh_button_handler does to one button.
LEMMA ScanOK ==
  ASSUME NEW B \in ButtonRecords, NEW S \in SeenRecords, NEW level \in {0, 1},
         LimitsOK(ctrl), StateOK(B, ctrl), CountOK(B, S, ctrl),
         NEW R, R = Scanned(B, level),
         NEW T, T = Sees(S, level, R.current_level # B.current_level)
  PROVE  /\ R \in ButtonRecords /\ T \in SeenRecords
         /\ StateOK(R, ctrl) /\ CountOK(R, T, ctrl)
         /\ R.current_level # B.current_level => T.steady >= ctrl.debounce \/ S.edge
<1> DEFINE A == [B EXCEPT !.told = <<>>]
           D == sh_button_debounce(A, level)
           U == Sees(S, level, D.current_level # A.current_level)
<1>1. /\ A \in ButtonRecords /\ A.state = B.state /\ A.ticks = B.ticks /\ SameLevels(A, B)
  <2>1. <<>> \in Seq(Events)
    OBVIOUS
  <2> QED BY <2>1 DEF ButtonRecords, SameLevels
<1>2. R = sh_button_state_machine_process(D)
  BY DEF Scanned
<1> HIDE DEF A
<1>3. StateOK(A, ctrl) /\ CountOK(A, S, ctrl)
  BY <1>1 DEF StateOK, CountOK, SameLevels, Pressed
<1>4. /\ D \in ButtonRecords /\ U \in SeenRecords /\ CountOK(D, U, ctrl)
      /\ D.state = A.state /\ D.ticks = A.ticks
      /\ D.current_level # A.current_level => U.steady >= ctrl.debounce \/ S.edge
  BY <1>1, <1>3, CounterRange, DebounceOK
<1> HIDE DEF D
<1>5. R \in ButtonRecords /\ SameLevels(R, D) /\ StateOK(R, ctrl)
  BY <1>1, <1>2, <1>3, <1>4, ProcessOK
<1>6. R.current_level = D.current_level /\ B.current_level = A.current_level
  BY <1>1, <1>5 DEF SameLevels
<1>7. T = U
  BY <1>6
<1> HIDE DEF U
<1>8. CountOK(R, T, ctrl)
  BY <1>4, <1>5, <1>7 DEF CountOK, SameLevels
<1> QED BY <1>4, <1>5, <1>6, <1>7, <1>8
-----------------------------------------------------------------------------
(***************************************************************************)
(* The invariant holds.                                                    *)
(***************************************************************************)
LEMMA ButtonInvInit == ButtonInit => ButtonInv
<1> SUFFICES ASSUME ButtonInit PROVE ButtonInv
  OBVIOUS
<1>1. /\ ctrl \in CtrlConfigs /\ head = <<>> /\ started = FALSE /\ created = {}
      /\ button = [b \in Buttons |-> ButtonOf(0)] /\ seen = [b \in Buttons |-> SeenOf(0)]
  BY DEF ButtonInit
<1>2. ctrl \in Limits /\ ctrl.debounce < CntMod
  BY <1>1, ButtonAssumption
<1>3. /\ ButtonOf(0) \in ButtonRecords /\ SeenOf(0) \in SeenRecords
      /\ Fresh(ButtonOf(0), SeenOf(0))
  BY CounterRange, FreshButton
<1>4. /\ button \in [Buttons -> ButtonRecords] /\ seen \in [Buttons -> SeenRecords]
      /\ \A b \in Buttons : Fresh(button[b], seen[b])
  <2> DEFINE B == ButtonOf(0)
             S == SeenOf(0)
  <2>1. /\ button = [b \in Buttons |-> B] /\ seen = [b \in Buttons |-> S]
        /\ B \in ButtonRecords /\ S \in SeenRecords /\ Fresh(B, S)
    BY <1>1, <1>3
  <2> HIDE DEF B, S
  <2> QED BY <2>1
<1>5. <<>> \in Seq(Buttons) /\ DOMAIN <<>> = {}
  OBVIOUS
<1>6. head \in Seq(Buttons) /\ \A i \in DOMAIN head : head[i] \in created
  BY <1>1, <1>5
<1>7. created \subseteq Buttons /\ started \in BOOLEAN /\ ~started
  BY <1>1
<1> QED BY <1>2, <1>4, <1>6, <1>7 DEF ButtonInv

LEMMA InitKeeps ==
  ASSUME ButtonInv, NEW b \in Buttons, NEW active \in ActiveLevels, sh_button_init(b, active)
  PROVE  ButtonInv'
<1> DEFINE B == ButtonOf(active)
           S == SeenOf(active)
<1>1. B \in ButtonRecords /\ S \in SeenRecords /\ Fresh(B, S)
  <2>1. active \in {0, 1}
    BY ButtonAssumption
  <2> QED BY <2>1, CounterRange, FreshButton
<1>2. LimitsOK(ctrl) => StateOK(B, ctrl) /\ CountOK(B, S, ctrl)
  BY <1>1, FreshOK
<1> HIDE DEF B, S
<1>3. /\ created' = created \cup {b} /\ UNCHANGED <<ctrl, head, started>>
      /\ button' = [button EXCEPT ![b] = B] /\ seen' = [seen EXCEPT ![b] = S]
  BY DEF sh_button_init, B, S
<1> QED BY <1>1, <1>2, <1>3 DEF ButtonInv

\* Callbacks are not what the invariant is about.
LEMMA AttachKeeps ==
  ASSUME ButtonInv, NEW b \in Buttons, NEW cbs \in SUBSET Events, Attach(b, cbs)
  PROVE  ButtonInv'
<1> DEFINE B == [button[b] EXCEPT !.cb = cbs]
<1>1. /\ button \in [Buttons -> ButtonRecords] /\ button[b] \in ButtonRecords
      /\ button' = [button EXCEPT ![b] = B]
      /\ UNCHANGED <<ctrl, head, started, created, seen>>
  BY DEF ButtonInv, Attach
<1>2. /\ B \in ButtonRecords /\ B.state = button[b].state /\ B.ticks = button[b].ticks
      /\ SameLevels(B, button[b])
  BY <1>1 DEF ButtonRecords, SameLevels
<1> HIDE DEF B
<1>3. /\ Fresh(button[b], seen[b]) => Fresh(B, seen[b])
      /\ StateOK(button[b], ctrl) => StateOK(B, ctrl)
      /\ CountOK(button[b], seen[b], ctrl) => CountOK(B, seen[b], ctrl)
  BY <1>2 DEF Fresh, StateOK, CountOK, SameLevels, Pressed
<1> QED BY <1>1, <1>2, <1>3 DEF ButtonInv

\* sh_button_ctrl_init replaces the limits that are zero.
LEMMA CtrlInitKeeps ==
  ASSUME ButtonInv, sh_button_ctrl_init
  PROVE  ButtonInv'
<1>1. /\ ~started /\ started' = TRUE /\ head' = <<>> /\ UNCHANGED <<button, created, seen>>
      /\ ctrl' = [f \in DOMAIN ctrl |-> IF ctrl[f] = 0 THEN CtrlDefaults[f] ELSE ctrl[f]]
  BY DEF sh_button_ctrl_init
<1>2. /\ ctrl \in Limits /\ ctrl.debounce < CntMod
      /\ CtrlDefaults \in Limits /\ CtrlDefaults.debounce < CntMod
      /\ \A f \in DOMAIN CtrlDefaults : CtrlDefaults[f] > 0
  BY ButtonAssumption DEF ButtonInv
<1>3. /\ ctrl' \in Limits
      /\ ctrl'.debounce = (IF ctrl.debounce = 0 THEN CtrlDefaults.debounce ELSE ctrl.debounce)
      /\ ctrl'.release = (IF ctrl.release = 0 THEN CtrlDefaults.release ELSE ctrl.release)
      /\ ctrl'.long = (IF ctrl.long = 0 THEN CtrlDefaults.long ELSE ctrl.long)
      /\ ctrl'.repeat = (IF ctrl.repeat = 0 THEN CtrlDefaults.repeat ELSE ctrl.repeat)
  BY <1>1, <1>2 DEF Limits
<1>4. /\ CtrlDefaults.debounce > 0 /\ CtrlDefaults.release > 0
      /\ CtrlDefaults.long > 0 /\ CtrlDefaults.repeat > 0
  BY <1>2 DEF Limits
<1>5. ctrl'.debounce < CntMod /\ LimitsOK(ctrl')
  BY <1>2, <1>3, <1>4, CounterRange DEF Limits, LimitsOK
<1>6. ASSUME NEW b \in Buttons PROVE StateOK(button[b], ctrl') /\ CountOK(button[b], seen[b], ctrl')
  BY <1>1, <1>5, FreshOK DEF ButtonInv
<1>7. <<>> \in Seq(Buttons) /\ DOMAIN <<>> = {}
  OBVIOUS
<1> QED BY <1>1, <1>3, <1>5, <1>6, <1>7 DEF ButtonInv

LEMMA AddKeeps ==
  ASSUME ButtonInv, NEW b \in Buttons, sh_button_ctrl_add(b)
  PROVE  ButtonInv'
<1>1. /\ b \in created /\ head' = Append(head, b) /\ UNCHANGED <<ctrl, started, button, created, seen>>
      /\ head \in Seq(Buttons) /\ \A i \in DOMAIN head : head[i] \in created
  BY DEF sh_button_ctrl_add, ButtonInv
<1>2. /\ head' \in Seq(Buttons) /\ Len(head') = Len(head) + 1
      /\ \A i \in 1 .. Len(head) : head'[i] = head[i]
      /\ head'[Len(head) + 1] = b
  BY <1>1, AppendProperties
<1>3. Len(head) \in Nat /\ DOMAIN head = 1 .. Len(head) /\ DOMAIN head' = 1 .. Len(head) + 1
  BY <1>1, <1>2, LenProperties
<1>4. \A i \in DOMAIN head' : head'[i] \in created
  BY <1>1, <1>2, <1>3
<1> QED BY <1>1, <1>2, <1>4 DEF ButtonInv

\* One scan of all buttons on the list.
LEMMA HandlerScans ==
  ASSUME ButtonInv, NEW levels \in [Buttons -> {0, 1}], sh_button_handler(levels),
         NEW b \in Buttons
  PROVE  /\ button'[b] \in ButtonRecords /\ seen'[b] \in SeenRecords
         /\ StateOK(button'[b], ctrl) /\ CountOK(button'[b], seen'[b], ctrl)
         /\ button'[b].current_level # button[b].current_level =>
              seen'[b].steady >= ctrl.debounce \/ seen[b].edge
<1>1. /\ LimitsOK(ctrl) /\ StateOK(button[b], ctrl) /\ CountOK(button[b], seen[b], ctrl)
      /\ button[b] \in ButtonRecords /\ seen[b] \in SeenRecords
  BY DEF sh_button_handler, ButtonInv
<1>2. CASE b \in Range(head)
  <2>1. /\ button'[b] = Scanned(button[b], levels[b])
        /\ seen'[b] = Sees(seen[b], levels[b],
                           button'[b].current_level # button[b].current_level)
    BY <1>2 DEF sh_button_handler
  <2>2. levels[b] \in {0, 1}
    OBVIOUS
  <2> QED BY <1>1, <2>1, <2>2, ScanOK
<1>3. CASE b \notin Range(head)
  <2>1. button'[b] = button[b] /\ seen'[b] = seen[b]
    BY <1>3 DEF sh_button_handler
  <2> QED BY <1>1, <2>1
<1> QED BY <1>2, <1>3

LEMMA HandlerKeeps ==
  ASSUME ButtonInv, NEW levels \in [Buttons -> {0, 1}], sh_button_handler(levels)
  PROVE  ButtonInv'
<1>1. started /\ UNCHANGED <<ctrl, head, started, created>>
  BY DEF sh_button_handler
<1>2. button' \in [Buttons -> ButtonRecords] /\ seen' \in [Buttons -> SeenRecords]
  <2>1. button' = [b \in Buttons |-> button'[b]] /\ seen' = [b \in Buttons |-> seen'[b]]
    BY DEF sh_button_handler
  <2>2. \A b \in Buttons : button'[b] \in ButtonRecords /\ seen'[b] \in SeenRecords
    BY HandlerScans
  <2> QED BY <2>1, <2>2
<1>3. \A b \in Buttons : StateOK(button'[b], ctrl) /\ CountOK(button'[b], seen'[b], ctrl)
  BY HandlerScans
<1> QED BY <1>1, <1>2, <1>3 DEF ButtonInv

LEMMA ButtonInvNext == ButtonInv /\ [ButtonNext]_buttonVars => ButtonInv'
<1> SUFFICES ASSUME ButtonInv, [ButtonNext]_buttonVars PROVE ButtonInv'
  OBVIOUS
<1>1. CASE sh_button_ctrl_init
  BY <1>1, CtrlInitKeeps
<1>2. ASSUME NEW levels \in [Buttons -> {0, 1}], sh_button_handler(levels)
      PROVE  ButtonInv'
  BY <1>2, HandlerKeeps
<1>3. ASSUME NEW b \in Buttons, sh_button_ctrl_add(b)
      PROVE  ButtonInv'
  BY <1>3, AddKeeps
<1>4. ASSUME NEW b \in Buttons, NEW active \in ActiveLevels, sh_button_init(b, active)
      PROVE  ButtonInv'
  BY <1>4, InitKeeps
<1>5. ASSUME NEW b \in Buttons,
             \/ sh_button_attach_cbs(b)
             \/ \E e \in CbEvents : sh_button_attach_cb(b, e) \/ sh_button_detach_cb(b, e)
      PROVE  ButtonInv'
  <2>1. button[b].cb \in SUBSET Events
    BY DEF ButtonInv, ButtonRecords
  <2>2. \E cbs \in SUBSET Events : Attach(b, cbs)
    BY <1>5, <2>1, ButtonAssumption
    DEF sh_button_attach_cbs, sh_button_attach_cb, sh_button_detach_cb
  <2> QED BY <2>2, AttachKeeps
<1>6. CASE UNCHANGED buttonVars
  BY <1>6 DEF buttonVars, ButtonInv
<1> QED BY <1>1, <1>2, <1>3, <1>4, <1>5, <1>6 DEF ButtonNext

LEMMA ButtonInvAlways == ButtonSpec => []ButtonInv
BY ButtonInvInit, ButtonInvNext, PTL DEF ButtonSpec

(***************************************************************************)
(* The automaton of every button follows its debounced level and its time  *)
(* stays below the limit of its state, whatever levels are read, and       *)
(* nothing leaves its bits (sh_button_debounce,                            *)
(* sh_button_state_machine_process).                                       *)
(***************************************************************************)
THEOREM ButtonTypeCorrect == ButtonSpec => []ButtonTypeOK
<1>1. ButtonInv => ButtonTypeOK
  <2> SUFFICES ASSUME ButtonInv PROVE ButtonTypeOK
    OBVIOUS
  <2>1. Range(head) \subseteq created
    BY DEF ButtonInv, Range
  <2>2. ASSUME NEW b \in Buttons
        PROVE  LET B == button[b]
               IN  /\ B.debounce_cnt \in 0 .. CntMod - 1 /\ B.repeat \in 0 .. RepeatMax
                   /\ B.event \in Events /\ B.cb \subseteq Events
                   /\ \/ B.state = "PRESS" /\ B.ticks \in 0 .. ctrl.long - 1
                      \/ B.state = "LONG_PRESS" /\ B.ticks \in 0 .. ctrl.repeat - 1
                      \/ B.state = "RELEASE" /\ B.ticks \in 0 .. ctrl.release - 1
                      \/ B.state = "IDLE" /\ B.ticks = 0
                   /\ (Pressed(B) <=> B.state \in {"PRESS", "LONG_PRESS"})
    <3> DEFINE B == button[b]
    <3>1. B \in ButtonRecords /\ ctrl \in Limits
      BY DEF ButtonInv
    <3>2. StateOK(B, ctrl)
      BY DEF ButtonInv, Fresh, StateOK
    <3> HIDE DEF B
    <3>3. /\ B.debounce_cnt \in 0 .. CntMod - 1 /\ B.repeat \in 0 .. RepeatMax
          /\ B.event \in Events /\ B.cb \subseteq Events
      BY <3>1 DEF ButtonRecords
    <3>4. /\ B.ticks \in Nat /\ ctrl.long \in Nat /\ ctrl.repeat \in Nat /\ ctrl.release \in Nat
      BY <3>1 DEF ButtonRecords, Limits
    <3>5. \/ B.state = "PRESS" /\ B.ticks \in 0 .. ctrl.long - 1
          \/ B.state = "LONG_PRESS" /\ B.ticks \in 0 .. ctrl.repeat - 1
          \/ B.state = "RELEASE" /\ B.ticks \in 0 .. ctrl.release - 1
          \/ B.state = "IDLE" /\ B.ticks = 0
      BY <3>2, <3>4 DEF StateOK
    <3>6. Pressed(B) <=> B.state \in {"PRESS", "LONG_PRESS"}
      BY <3>2 DEF StateOK
    <3> QED BY <3>3, <3>5, <3>6 DEF B
  <2> QED BY <2>1, <2>2 DEF ButtonTypeOK, ButtonInv
<1> QED BY <1>1, ButtonInvAlways, PTL

(***************************************************************************)
(* A level that was read debounce_ticks + 1 times in a row is the current  *)
(* level, whatever was read before and wherever the four-bit counter       *)
(* wrapped (sh_button_debounce).                                           *)
(***************************************************************************)
THEOREM ButtonSettles == ButtonSpec => []Settles
<1>1. ButtonInv => Settles
  <2> SUFFICES ASSUME ButtonInv, NEW b \in Buttons, seen[b].steady > ctrl.debounce,
                      button[b].current_level # seen[b].raw
               PROVE  FALSE
    BY DEF Settles
  <2>1. /\ seen[b].steady \in Nat /\ button[b].debounce_cnt \in 0 .. CntMod - 1
        /\ ctrl.debounce \in Nat
    BY DEF ButtonInv, ButtonRecords, SeenRecords, Limits
  <2>2. started /\ CountOK(button[b], seen[b], ctrl)
    BY DEF ButtonInv, Fresh
  <2>3. /\ button[b].debounce_cnt < ctrl.debounce
        /\ seen[b].steady <= button[b].debounce_cnt + 1
    BY <2>2 DEF CountOK
  <2> QED BY <2>1, <2>3, CounterRange
<1> QED BY <1>1, ButtonInvAlways, PTL

(***************************************************************************)
(* The debounced level changes only to a level that was read               *)
(* debounce_ticks times in a row, or in the scan right after another       *)
(* change, whose count goes on (sh_button_debounce).                       *)
(***************************************************************************)
THEOREM ButtonEdgesCorrect == ButtonSpec => EdgesDebounced
<1>1. ASSUME ButtonInv, [ButtonNext]_buttonVars
      PROVE  [\A b \in Range(head) :
                button'[b].current_level # button[b].current_level =>
                  seen'[b].steady >= ctrl.debounce \/ seen[b].edge]_buttonVars
  <2> SUFFICES ASSUME NEW b \in Range(head), ButtonNext,
                      button'[b].current_level # button[b].current_level
               PROVE  seen'[b].steady >= ctrl.debounce \/ seen[b].edge
    BY <1>1
  <2>1. b \in created /\ b \in Buttons /\ button \in [Buttons -> ButtonRecords]
    BY <1>1 DEF ButtonInv, Range
  <2>2. CASE \E levels \in [Buttons -> {0, 1}] : sh_button_handler(levels)
    BY <1>1, <2>1, <2>2, HandlerScans
  <2>3. ASSUME NEW c \in Buttons, NEW active \in ActiveLevels, sh_button_init(c, active)
        PROVE  FALSE
    <3>1. c # b
      BY <2>1, <2>3 DEF sh_button_init
    <3>2. button'[b] = button[b]
      BY <2>1, <2>3, <3>1 DEF sh_button_init
    <3> QED BY <3>2
  <2>4. ASSUME NEW c \in Buttons, NEW cbs, Attach(c, cbs)
        PROVE  FALSE
    <3>1. button[b] \in ButtonRecords /\ button' = [button EXCEPT ![c].cb = cbs]
      BY <2>1, <2>4 DEF Attach
    <3>2. button'[b].current_level = button[b].current_level
      BY <2>1, <3>1 DEF ButtonRecords
    <3> QED BY <3>2
  <2>5. CASE sh_button_ctrl_init \/ \E c \in Buttons : sh_button_ctrl_add(c)
    BY <2>5 DEF sh_button_ctrl_init, sh_button_ctrl_add
  <2> QED BY <2>2, <2>3, <2>4, <2>5
        DEF ButtonNext, sh_button_attach_cbs, sh_button_attach_cb, sh_button_detach_cb
<1> QED BY <1>1, ButtonInvAlways, PTL DEF ButtonSpec, EdgesDebounced
-----------------------------------------------------------------------------
(***************************************************************************)
(* Gestures.  What a scan makes of a button, seen as the abstract          *)
(* specification sees it: whether it is down, its age and its series.      *)
(***************************************************************************)
SeriesOf(B) == IF B.state = "IDLE" THEN 0 ELSE B.repeat

\* There is a press to tell of.
Counted(B) == B.state # "IDLE" => B.repeat > 0

\* The automaton calls back for e, at most, and enters state s with n presses.
Enters(R, B, e, s, n) ==
  /\ R.state = s /\ R.ticks = 0 /\ R.event = e /\ R.repeat = n /\ R.cb = B.cb
  /\ R.told = IF e \in B.cb THEN <<e>> ELSE <<>>

\* Or it only counts.
Counts(R, B, n) ==
  /\ R.state = B.state /\ R.ticks = n /\ R.event = B.event /\ R.repeat = B.repeat
  /\ R.cb = B.cb /\ R.told = <<>>

\* What one callback leaves.
LEMMA InvokeEnters ==
  ASSUME NEW B \in ButtonRecords, NEW e \in Events, NEW s \in States, B.told = <<>>
  PROVE  Enters(invoke_cb_and_update_state(B, e, s), B, e, s, B.repeat)
<1> DEFINE t == IF e \in B.cb THEN <<e>> ELSE <<>>
           R == invoke_cb_and_update_state(B, e, s)
<1>1. Append(B.told, e) = <<e>>
  OBVIOUS
<1>2. R = [B EXCEPT !.event = e, !.state = s, !.ticks = 0, !.told = t]
  BY <1>1 DEF invoke_cb_and_update_state
<1> HIDE DEF R, t
<1>3. R.state = s /\ R.ticks = 0 /\ R.event = e /\ R.repeat = B.repeat /\ R.cb = B.cb /\ R.told = t
  BY <1>2 DEF ButtonRecords
<1> QED BY <1>3 DEF t, Enters, R

\* Debouncing changes the level and the counter only.
LEMMA DebounceLeaves ==
  ASSUME NEW B \in ButtonRecords, NEW level, NEW D, D = sh_button_debounce(B, level)
  PROVE  /\ D.state = B.state /\ D.ticks = B.ticks /\ D.event = B.event /\ D.repeat = B.repeat
         /\ D.cb = B.cb /\ D.told = B.told /\ D.active_level = B.active_level
<1>1. CASE B.current_level = level
  <2>1. D = [B EXCEPT !.debounce_cnt = 0]
    BY <1>1 DEF sh_button_debounce
  <2> QED BY <2>1 DEF ButtonRecords
<1>2. CASE B.current_level # level
  <2> DEFINE cnt == (B.debounce_cnt + 1) % CntMod
             l == IF cnt >= ctrl.debounce THEN 1 - B.current_level ELSE B.current_level
  <2>1. D = [B EXCEPT !.debounce_cnt = cnt, !.current_level = l]
    BY <1>2 DEF sh_button_debounce
  <2> HIDE DEF cnt, l
  <2> QED BY <2>1 DEF ButtonRecords
<1> QED BY <1>1, <1>2

\* One step of the automaton, case by case.
ProcessResult(R, B) ==
  LET p == Pressed(B)
  IN  \/ B.state = "IDLE" /\ p /\ Enters(R, B, "PRESS", "PRESS", 1)
      \/ B.state = "IDLE" /\ ~p /\ Counts(R, B, B.ticks)
      \/ B.state = "RELEASE" /\ p
         /\ Enters(R, B, "PRESS", "PRESS", IF B.repeat < RepeatMax THEN B.repeat + 1 ELSE B.repeat)
      \/ B.state = "RELEASE" /\ ~p /\ B.ticks + 1 < ctrl.release /\ Counts(R, B, B.ticks + 1)
      \/ B.state = "RELEASE" /\ ~p /\ B.ticks + 1 >= ctrl.release
         /\ Enters(R, B, ClickOf(B), "IDLE", B.repeat)
      \/ B.state = "PRESS" /\ ~p /\ Enters(R, B, "RELEASE", "RELEASE", B.repeat)
      \/ B.state = "PRESS" /\ p /\ B.ticks + 1 < ctrl.long /\ Counts(R, B, B.ticks + 1)
      \/ B.state = "PRESS" /\ p /\ B.ticks + 1 >= ctrl.long
         /\ Enters(R, B, "LONG_PRESS_START", "LONG_PRESS", B.repeat)
      \/ B.state = "LONG_PRESS" /\ ~p /\ Enters(R, B, "RELEASE", "IDLE", B.repeat)
      \/ B.state = "LONG_PRESS" /\ p /\ B.ticks + 1 < ctrl.repeat /\ Counts(R, B, B.ticks + 1)
      \/ B.state = "LONG_PRESS" /\ p /\ B.ticks + 1 >= ctrl.repeat
         /\ Enters(R, B, "LONG_PRESS_REPEAT", "LONG_PRESS", B.repeat)

LEMMA ProcessCases ==
  ASSUME NEW B \in ButtonRecords, LimitsOK(ctrl), B.told = <<>>
  PROVE  ProcessResult(sh_button_state_machine_process(B), B)
<1> DEFINE T == [B EXCEPT !.ticks = IF B.state = "IDLE" THEN @ ELSE @ + 1]
           E == ProcessEdge(T)
           R == ProcessTimeout(B.state, E)
           p == Pressed(B)
<1>0. R = sh_button_state_machine_process(B)
  BY DEF sh_button_state_machine_process
<1>1. /\ T \in ButtonRecords /\ T.state = B.state /\ T.event = B.event /\ T.repeat = B.repeat
      /\ T.cb = B.cb /\ T.told = <<>> /\ (Pressed(T) <=> p)
      /\ T.ticks = IF B.state = "IDLE" THEN B.ticks ELSE B.ticks + 1
  <2> DEFINE t == IF B.state = "IDLE" THEN B.ticks ELSE B.ticks + 1
  <2>1. t \in Nat
    BY DEF ButtonRecords
  <2>2. T = [B EXCEPT !.ticks = t]
    OBVIOUS
  <2> HIDE DEF t, T
  <2>3. /\ T \in ButtonRecords /\ T.state = B.state /\ T.event = B.event /\ T.repeat = B.repeat
        /\ T.cb = B.cb /\ T.told = B.told /\ T.ticks = t
        /\ T.active_level = B.active_level /\ T.current_level = B.current_level
    BY <2>1, <2>2 DEF ButtonRecords
  <2> QED BY <2>3 DEF t, Pressed
<1>2. B.state \in States /\ B.ticks \in Nat /\ B.repeat \in 0 .. RepeatMax
  BY DEF ButtonRecords
<1>3. ctrl.long \in Nat \ {0} /\ ctrl.release \in Nat \ {0} /\ ctrl.repeat \in Nat \ {0}
  BY DEF LimitsOK
<1> HIDE DEF T
<1>4. ASSUME NEW e \in Events, NEW s \in States
      PROVE  Enters(invoke_cb_and_update_state(T, e, s), B, e, s, B.repeat)
  BY <1>1, InvokeEnters DEF Enters
<1>5. {"PRESS", "RELEASE", "LONG_PRESS_START", "LONG_PRESS_REPEAT"} \subseteq Events
      /\ {"IDLE", "PRESS", "RELEASE", "LONG_PRESS"} \subseteq States
  BY DEF Events, States
\* An edge starts the time again, so that none has passed.
<1>6. ASSUME NEW e, NEW s, NEW n, Enters(E, B, e, s, n), B.state # "IDLE"
      PROVE  R = E
  BY <1>3, <1>6 DEF ProcessTimeout, Enters
<1>7. ASSUME B.state = "IDLE", p
      PROVE  Enters(R, B, "PRESS", "PRESS", 1)
  <2> DEFINE P == invoke_cb_and_update_state(T, "PRESS", "PRESS")
  <2>1. E = [P EXCEPT !.repeat = 1]
    BY <1>1, <1>7 DEF ProcessEdge
  <2>2. P \in ButtonRecords /\ Enters(P, B, "PRESS", "PRESS", B.repeat)
    BY <1>1, <1>4, <1>5, InvokeOK
  <2> HIDE DEF P, E
  <2>3. Enters(E, B, "PRESS", "PRESS", 1)
    <3>1. /\ E.state = P.state /\ E.ticks = P.ticks /\ E.event = P.event /\ E.repeat = 1
          /\ E.cb = P.cb /\ E.told = P.told
      BY <2>1, <2>2 DEF ButtonRecords
    <3> QED BY <2>2, <3>1 DEF Enters
  <2>4. R = E
    BY <1>7 DEF ProcessTimeout
  <2> QED BY <2>3, <2>4
<1>8. ASSUME B.state = "IDLE", ~p
      PROVE  Counts(R, B, B.ticks)
  <2>1. E = T
    BY <1>1, <1>8 DEF ProcessEdge
  <2>2. R = E
    BY <1>8 DEF ProcessTimeout
  <2> QED BY <1>1, <1>8, <2>1, <2>2 DEF Counts
<1>9. ASSUME B.state = "RELEASE", p
      PROVE  Enters(R, B, "PRESS", "PRESS", IF B.repeat < RepeatMax THEN B.repeat + 1 ELSE B.repeat)
  <2> DEFINE n == IF B.repeat < RepeatMax THEN B.repeat + 1 ELSE B.repeat
             M == IF T.repeat < RepeatMax THEN [T EXCEPT !.repeat = @ + 1] ELSE T
  <2>1. E = invoke_cb_and_update_state(M, "PRESS", "PRESS")
    BY <1>1, <1>9 DEF ProcessEdge
  <2>2. n \in 0 .. RepeatMax
    BY <1>2, ButtonAssumption
  <2>3. M \in ButtonRecords /\ M.repeat = n /\ M.told = <<>> /\ M.cb = B.cb
    <3>1. CASE B.repeat < RepeatMax
      <4>1. M = [T EXCEPT !.repeat = n]
        BY <1>1, <3>1
      <4> HIDE DEF M, n
      <4> QED BY <1>1, <2>2, <4>1 DEF ButtonRecords
    <3>2. CASE ~(B.repeat < RepeatMax)
      BY <1>1, <3>2
    <3> QED BY <3>1, <3>2
  <2> HIDE DEF M, E
  <2>4. Enters(E, B, "PRESS", "PRESS", n)
    BY <1>5, <2>1, <2>3, InvokeEnters DEF Enters
  <2> QED BY <1>6, <1>9, <2>4 DEF E
<1>10. ASSUME B.state = "PRESS", ~p
       PROVE  Enters(R, B, "RELEASE", "RELEASE", B.repeat)
  <2>1. E = invoke_cb_and_update_state(T, "RELEASE", "RELEASE")
    BY <1>1, <1>10 DEF ProcessEdge
  <2>2. Enters(E, B, "RELEASE", "RELEASE", B.repeat)
    BY <1>4, <1>5, <2>1
  <2> QED BY <1>6, <1>10, <2>2
<1>11. ASSUME B.state = "LONG_PRESS", ~p
       PROVE  Enters(R, B, "RELEASE", "IDLE", B.repeat)
  <2>1. E = invoke_cb_and_update_state(T, "RELEASE", "IDLE")
    BY <1>1, <1>11 DEF ProcessEdge
  <2>2. Enters(E, B, "RELEASE", "IDLE", B.repeat)
    BY <1>4, <1>5, <2>1
  <2> QED BY <1>6, <1>11, <2>2
\* Without an edge the time decides.
<1>12. ASSUME p <=> B.state \in {"PRESS", "LONG_PRESS"}
       PROVE  E = T
  BY <1>1, <1>12 DEF ProcessEdge
<1>13. ASSUME B.state = "PRESS", p
       PROVE  IF B.ticks + 1 < ctrl.long THEN Counts(R, B, B.ticks + 1)
              ELSE Enters(R, B, "LONG_PRESS_START", "LONG_PRESS", B.repeat)
  <2>1. E = T /\ T.ticks = B.ticks + 1
    BY <1>1, <1>12, <1>13
  <2>2. CASE B.ticks + 1 < ctrl.long
    <3>1. R = T
      BY <1>2, <1>3, <1>13, <2>1, <2>2 DEF ProcessTimeout
    <3> QED BY <1>1, <2>1, <2>2, <3>1 DEF Counts
  <2>3. CASE ~(B.ticks + 1 < ctrl.long)
    <3>1. R = invoke_cb_and_update_state(T, "LONG_PRESS_START", "LONG_PRESS")
      BY <1>2, <1>3, <1>13, <2>1, <2>3 DEF ProcessTimeout
    <3> QED BY <1>4, <1>5, <2>3, <3>1
  <2> QED BY <2>2, <2>3
<1>14. ASSUME B.state = "LONG_PRESS", p
       PROVE  IF B.ticks + 1 < ctrl.repeat THEN Counts(R, B, B.ticks + 1)
              ELSE Enters(R, B, "LONG_PRESS_REPEAT", "LONG_PRESS", B.repeat)
  <2>1. E = T /\ T.ticks = B.ticks + 1
    BY <1>1, <1>12, <1>14
  <2>2. CASE B.ticks + 1 < ctrl.repeat
    <3>1. R = T
      BY <1>2, <1>3, <1>14, <2>1, <2>2 DEF ProcessTimeout
    <3> QED BY <1>1, <2>1, <2>2, <3>1 DEF Counts
  <2>3. CASE ~(B.ticks + 1 < ctrl.repeat)
    <3>1. R = invoke_cb_and_update_state(T, "LONG_PRESS_REPEAT", "LONG_PRESS")
      BY <1>2, <1>3, <1>14, <2>1, <2>3 DEF ProcessTimeout
    <3> QED BY <1>4, <1>5, <2>3, <3>1
  <2> QED BY <2>2, <2>3
<1>15. ASSUME B.state = "RELEASE", ~p
       PROVE  IF B.ticks + 1 < ctrl.release THEN Counts(R, B, B.ticks + 1)
              ELSE Enters(R, B, ClickOf(B), "IDLE", B.repeat)
  <2>1. E = T /\ T.ticks = B.ticks + 1 /\ ClickOf(T) = ClickOf(B)
    BY <1>1, <1>12, <1>15 DEF ClickOf
  <2>2. CASE B.ticks + 1 < ctrl.release
    <3>1. R = T
      BY <1>2, <1>3, <1>15, <2>1, <2>2 DEF ProcessTimeout
    <3> QED BY <1>1, <2>1, <2>2, <3>1 DEF Counts
  <2>3. CASE ~(B.ticks + 1 < ctrl.release)
    <3>1. R = invoke_cb_and_update_state(T, ClickOf(B), "IDLE")
      BY <1>2, <1>3, <1>15, <2>1, <2>3 DEF ProcessTimeout
    <3>2. ClickOf(B) \in Events /\ "IDLE" \in States
      BY DEF ClickOf, Events, States
    <3> QED BY <1>4, <2>3, <3>1, <3>2
  <2> QED BY <2>2, <2>3
<1> HIDE DEF R, p
<1>16. ProcessResult(R, B)
  <2>1. B.ticks + 1 \in Nat
    BY <1>2
  <2>2. /\ B.ticks + 1 < ctrl.long \/ B.ticks + 1 >= ctrl.long
        /\ B.ticks + 1 < ctrl.release \/ B.ticks + 1 >= ctrl.release
        /\ B.ticks + 1 < ctrl.repeat \/ B.ticks + 1 >= ctrl.repeat
    BY <1>3, <2>1
  <2> QED BY <1>2, <1>3, <1>7, <1>8, <1>9, <1>10, <1>11, <1>13, <1>14, <1>15, <2>2
          DEF ProcessResult, States, p
<1> QED BY <1>0, <1>16
-----------------------------------------------------------------------------
\* What a scan that turned B into R is to the abstract specification.
Calls(R, B, e) == R.told = IF e \in B.cb THEN <<e>> ELSE <<>>

WentDown(R, B) ==
  /\ ~Pressed(B) /\ Pressed(R) /\ AgeOf(R) = 0 /\ Calls(R, B, "PRESS")
  /\ SeriesOf(R) = IF SeriesOf(B) + 1 < RepeatMax THEN SeriesOf(B) + 1 ELSE RepeatMax

WentUp(R, B) ==
  /\ Pressed(B) /\ ~Pressed(R) /\ AgeOf(R) = 0 /\ Calls(R, B, "RELEASE")
  /\ SeriesOf(R) = IF AgeOf(B) >= ctrl.long THEN 0 ELSE SeriesOf(B)

StaysUp(R, B) ==
  /\ ~Pressed(B) /\ ~Pressed(R)
  /\ \/ SeriesOf(B) = 0 /\ SeriesOf(R) = 0 /\ AgeOf(R) = 0 /\ R.told = <<>>
     \/ /\ SeriesOf(B) > 0 /\ AgeOf(B) + 1 < ctrl.release
        /\ SeriesOf(R) = SeriesOf(B) /\ AgeOf(R) = AgeOf(B) + 1 /\ R.told = <<>>
     \/ /\ SeriesOf(B) > 0 /\ AgeOf(B) + 1 = ctrl.release
        /\ SeriesOf(R) = 0 /\ AgeOf(R) = 0 /\ Calls(R, B, Told!Click(SeriesOf(B)))

StaysDown(R, B) ==
  /\ Pressed(B) /\ Pressed(R) /\ SeriesOf(R) = SeriesOf(B)
  /\ AgeOf(R) = IF AgeOf(B) = ctrl.long + ctrl.repeat THEN ctrl.long + 1 ELSE AgeOf(B) + 1
  /\ \/ AgeOf(R) \notin {ctrl.long, ctrl.long + ctrl.repeat} /\ R.told = <<>>
     \/ AgeOf(R) = ctrl.long /\ Calls(R, B, "LONG_PRESS_START")
     \/ AgeOf(R) = ctrl.long + ctrl.repeat /\ Calls(R, B, "LONG_PRESS_REPEAT")

\* A long press is as old as its repetition says.
LEMMA LongAge ==
  ASSUME NEW B \in ButtonRecords, LimitsOK(ctrl), StateOK(B, ctrl), B.state = "LONG_PRESS"
  PROVE  /\ AgeOf(B) \in Nat /\ AgeOf(B) >= ctrl.long
         /\ B.ticks + 1 + ctrl.long =
              IF AgeOf(B) = ctrl.long + ctrl.repeat THEN ctrl.long + 1 ELSE AgeOf(B) + 1
<1>1. /\ B.ticks \in Nat /\ B.ticks < ctrl.repeat
      /\ ctrl.long \in Nat \ {0} /\ ctrl.repeat \in Nat \ {0}
  BY DEF ButtonRecords, StateOK, LimitsOK
<1>2. AgeOf(B) = IF B.ticks = 0 /\ B.event = "LONG_PRESS_REPEAT" THEN ctrl.long + ctrl.repeat
                 ELSE ctrl.long + B.ticks
  BY DEF AgeOf
<1> QED BY <1>1, <1>2

LEMMA ScanGesture ==
  ASSUME NEW B \in ButtonRecords, NEW level \in {0, 1}, LimitsOK(ctrl), StateOK(B, ctrl),
         Counted(B), NEW R, R = Scanned(B, level)
  PROVE  /\ R \in ButtonRecords /\ R.cb = B.cb /\ Counted(R)
         /\ WentDown(R, B) \/ WentUp(R, B) \/ StaysUp(R, B) \/ StaysDown(R, B)
<1> DEFINE A == [B EXCEPT !.told = <<>>]
           D == sh_button_debounce(A, level)
<1>1. /\ A \in ButtonRecords /\ A.state = B.state /\ A.ticks = B.ticks /\ A.event = B.event
      /\ A.repeat = B.repeat /\ A.cb = B.cb /\ A.told = <<>>
      /\ A.active_level = B.active_level /\ A.current_level = B.current_level
  <2>1. <<>> \in Seq(Events)
    OBVIOUS
  <2> QED BY <2>1 DEF ButtonRecords
<1>2. R = sh_button_state_machine_process(D)
  BY DEF Scanned
<1> HIDE DEF A
<1>3. StateOK(A, ctrl)
  BY <1>1 DEF StateOK, Pressed
<1>4. D \in ButtonRecords
  <2>1. ctrl.debounce \in 1 .. CntMod - 1
    BY DEF LimitsOK
  <2>2. CASE A.current_level = level
    <3>1. D = [A EXCEPT !.debounce_cnt = 0]
      BY <2>2 DEF sh_button_debounce
    <3> HIDE DEF D
    <3> QED BY <1>1, <3>1, CounterReset, CounterRange
  <2>3. CASE A.current_level # level
    <3> DEFINE cnt == (A.debounce_cnt + 1) % CntMod
               l == IF cnt >= ctrl.debounce THEN 1 - A.current_level ELSE A.current_level
    <3>1. D = [A EXCEPT !.debounce_cnt = cnt, !.current_level = l]
      BY <2>3 DEF sh_button_debounce
    <3>2. A.debounce_cnt \in 0 .. CntMod - 1 /\ A.current_level \in {0, 1}
      BY <1>1 DEF ButtonRecords
    <3>3. cnt \in 0 .. CntMod - 1
      BY <3>2, CountUp, CounterRange
    <3>4. l \in {0, 1}
      BY <3>2
    <3> HIDE DEF cnt, l, D
    <3> QED BY <1>1, <3>1, <3>3, <3>4 DEF ButtonRecords
  <2> QED BY <2>2, <2>3
<1>5. /\ D.state = B.state /\ D.ticks = B.ticks /\ D.event = B.event /\ D.repeat = B.repeat
      /\ D.cb = B.cb /\ D.told = <<>>
  BY <1>1, DebounceLeaves
<1> HIDE DEF D
<1>6. R \in ButtonRecords /\ SameLevels(R, D)
  BY <1>1, <1>2, <1>3, <1>4, <1>5, ProcessOK
<1>7. Pressed(R) <=> Pressed(D)
  BY <1>6 DEF Pressed, SameLevels
<1>8. ProcessResult(R, D)
  BY <1>2, <1>4, <1>5, ProcessCases
<1>9. /\ B.ticks \in Nat /\ B.repeat \in 0 .. RepeatMax /\ RepeatMax \in Nat /\ RepeatMax > 2
      /\ ctrl.long \in Nat \ {0} /\ ctrl.repeat \in Nat \ {0} /\ ctrl.release \in Nat \ {0}
      /\ B.state # "IDLE" => B.repeat > 0
  BY ButtonAssumption DEF ButtonRecords, LimitsOK, Counted
<1>10. /\ Pressed(B) <=> B.state \in {"PRESS", "LONG_PRESS"}
       /\ B.state = "PRESS" => B.ticks < ctrl.long
       /\ B.state = "RELEASE" => B.ticks < ctrl.release
       /\ B.state = "LONG_PRESS" => B.ticks < ctrl.repeat
       /\ B.state = "IDLE" => B.ticks = 0
  BY DEF StateOK
<1>11. /\ B.state # "LONG_PRESS" => AgeOf(B) = B.ticks
       /\ R.state # "LONG_PRESS" => AgeOf(R) = R.ticks
       /\ R.state = "LONG_PRESS" =>
            AgeOf(R) = IF R.ticks = 0 /\ R.event = "LONG_PRESS_REPEAT" THEN ctrl.long + ctrl.repeat
                       ELSE ctrl.long + R.ticks
  BY DEF AgeOf
<1>12. ASSUME B.state = "LONG_PRESS"
       PROVE  /\ AgeOf(B) \in Nat /\ AgeOf(B) >= ctrl.long
              /\ B.ticks + 1 + ctrl.long =
                   IF AgeOf(B) = ctrl.long + ctrl.repeat THEN ctrl.long + 1 ELSE AgeOf(B) + 1
  BY <1>12, LongAge
<1>13. ASSUME Enters(R, D, "PRESS", "PRESS", 1), B.state = "IDLE", Pressed(R)
       PROVE  WentDown(R, B) /\ Counted(R) /\ R.cb = B.cb
  BY <1>5, <1>9, <1>10, <1>11, <1>13 DEF Enters, WentDown, Calls, SeriesOf, Counted
<1>14. ASSUME Counts(R, D, B.ticks), B.state = "IDLE", ~Pressed(R)
       PROVE  StaysUp(R, B) /\ Counted(R) /\ R.cb = B.cb
  BY <1>5, <1>10, <1>11, <1>14 DEF Counts, StaysUp, SeriesOf, Counted
<1>15. ASSUME Enters(R, D, "PRESS", "PRESS",
                     IF B.repeat < RepeatMax THEN B.repeat + 1 ELSE B.repeat),
              B.state = "RELEASE", Pressed(R)
       PROVE  WentDown(R, B) /\ Counted(R) /\ R.cb = B.cb
  BY <1>5, <1>9, <1>10, <1>11, <1>15 DEF Enters, WentDown, Calls, SeriesOf, Counted
<1>16. ASSUME Counts(R, D, B.ticks + 1), B.state = "RELEASE", ~Pressed(R),
              B.ticks + 1 < ctrl.release
       PROVE  StaysUp(R, B) /\ Counted(R) /\ R.cb = B.cb
  BY <1>5, <1>9, <1>10, <1>11, <1>16 DEF Counts, StaysUp, SeriesOf, Counted
<1>17. ASSUME Enters(R, D, ClickOf(D), "IDLE", B.repeat), B.state = "RELEASE", ~Pressed(R),
              B.ticks + 1 >= ctrl.release
       PROVE  StaysUp(R, B) /\ Counted(R) /\ R.cb = B.cb
  <2>1. ClickOf(D) = Told!Click(SeriesOf(B))
    BY <1>5, <1>17 DEF ClickOf, Told!Click, SeriesOf
  <2>2. Calls(R, B, Told!Click(SeriesOf(B)))
    BY <1>5, <1>17, <2>1 DEF Enters, Calls
  <2>3. B.ticks + 1 = ctrl.release
    BY <1>9, <1>10, <1>17
  <2> QED BY <1>5, <1>9, <1>10, <1>11, <1>17, <2>2, <2>3 DEF Enters, StaysUp, SeriesOf, Counted
<1>18. ASSUME Enters(R, D, "RELEASE", "RELEASE", B.repeat), B.state = "PRESS", ~Pressed(R)
       PROVE  WentUp(R, B) /\ Counted(R) /\ R.cb = B.cb
  BY <1>5, <1>9, <1>10, <1>11, <1>18 DEF Enters, WentUp, Calls, SeriesOf, Counted
<1>19. ASSUME Counts(R, D, B.ticks + 1), B.state = "PRESS", Pressed(R), B.ticks + 1 < ctrl.long
       PROVE  StaysDown(R, B) /\ Counted(R) /\ R.cb = B.cb
  <2>1. SeriesOf(R) = SeriesOf(B) /\ Counted(R) /\ R.cb = B.cb /\ R.told = <<>>
    BY <1>5, <1>9, <1>19 DEF Counts, SeriesOf, Counted
  <2>2. AgeOf(B) = B.ticks /\ AgeOf(R) = B.ticks + 1
    BY <1>5, <1>11, <1>19 DEF Counts
  <2> QED BY <1>9, <1>10, <1>19, <2>1, <2>2 DEF StaysDown
<1>20. ASSUME Enters(R, D, "LONG_PRESS_START", "LONG_PRESS", B.repeat), B.state = "PRESS",
              Pressed(R), B.ticks + 1 >= ctrl.long
       PROVE  StaysDown(R, B) /\ Counted(R) /\ R.cb = B.cb
  <2>1. /\ SeriesOf(R) = SeriesOf(B) /\ Counted(R) /\ R.cb = B.cb
        /\ Calls(R, B, "LONG_PRESS_START")
    BY <1>5, <1>9, <1>20 DEF Enters, SeriesOf, Counted, Calls
  <2>2. AgeOf(B) = B.ticks /\ AgeOf(R) = ctrl.long + 0
    BY <1>5, <1>11, <1>20 DEF Enters
  <2> QED BY <1>9, <1>10, <1>20, <2>1, <2>2 DEF StaysDown
<1>21. ASSUME Enters(R, D, "RELEASE", "IDLE", B.repeat), B.state = "LONG_PRESS", ~Pressed(R)
       PROVE  WentUp(R, B) /\ Counted(R) /\ R.cb = B.cb
  BY <1>5, <1>9, <1>10, <1>11, <1>12, <1>21 DEF Enters, WentUp, Calls, SeriesOf, Counted
<1>22. ASSUME Counts(R, D, B.ticks + 1), B.state = "LONG_PRESS", Pressed(R),
              B.ticks + 1 < ctrl.repeat
       PROVE  StaysDown(R, B) /\ Counted(R) /\ R.cb = B.cb
  <2>1. SeriesOf(R) = SeriesOf(B) /\ Counted(R) /\ R.cb = B.cb /\ R.told = <<>>
    BY <1>5, <1>9, <1>22 DEF Counts, SeriesOf, Counted
  <2>2. R.state = "LONG_PRESS" /\ R.ticks = B.ticks + 1 /\ R.ticks # 0
    BY <1>5, <1>9, <1>22 DEF Counts
  <2>3. AgeOf(R) = ctrl.long + (B.ticks + 1)
    BY <1>11, <2>2
  <2> QED BY <1>9, <1>10, <1>12, <1>22, <2>1, <2>3 DEF StaysDown
<1>23. ASSUME Enters(R, D, "LONG_PRESS_REPEAT", "LONG_PRESS", B.repeat), B.state = "LONG_PRESS",
              Pressed(R), B.ticks + 1 >= ctrl.repeat
       PROVE  StaysDown(R, B) /\ Counted(R) /\ R.cb = B.cb
  <2>1. /\ SeriesOf(R) = SeriesOf(B) /\ Counted(R) /\ R.cb = B.cb
        /\ Calls(R, B, "LONG_PRESS_REPEAT")
    BY <1>5, <1>9, <1>23 DEF Enters, SeriesOf, Counted, Calls
  <2>2. AgeOf(R) = ctrl.long + ctrl.repeat
    BY <1>5, <1>11, <1>23 DEF Enters
  <2> QED BY <1>9, <1>10, <1>12, <1>23, <2>1, <2>2 DEF StaysDown
<1> QED BY <1>5, <1>6, <1>7, <1>8, <1>13, <1>14, <1>15, <1>16, <1>17, <1>18, <1>19, <1>20,
           <1>21, <1>22, <1>23 DEF ProcessResult
-----------------------------------------------------------------------------
(***************************************************************************)
(* The refinement.                                                         *)
(***************************************************************************)
\* Nothing is scanned before sh_button_ctrl_init and sh_button_init, and a
\* button that is not at rest has been pressed.
GestureInv ==
  /\ ~started => head = <<>>
  /\ \A b \in Buttons \ created : button[b] = ButtonOf(0)
  /\ \A b \in Buttons : Counted(button[b])

LEMMA GestureInvInit == ButtonInit => GestureInv
BY DEF ButtonInit, GestureInv, Counted, ButtonOf

\* A scan of one button, which is on the list.
LEMMA HandlerGesture ==
  ASSUME ButtonInv, GestureInv, NEW levels \in [Buttons -> {0, 1}], sh_button_handler(levels),
         NEW b \in Range(head), NEW B, B = button[b], NEW R, R = button'[b]
  PROVE  /\ b \in Buttons /\ R.cb = B.cb /\ Counted(R) /\ B \in ButtonRecords /\ R \in ButtonRecords
         /\ WentDown(R, B) \/ WentUp(R, B) \/ StaysUp(R, B) \/ StaysDown(R, B)
<1>1. b \in Buttons
  BY DEF ButtonInv, Range
<1>2. B \in ButtonRecords /\ LimitsOK(ctrl) /\ StateOK(B, ctrl) /\ Counted(B)
  BY <1>1 DEF ButtonInv, GestureInv, sh_button_handler
<1>3. R = Scanned(B, levels[b]) /\ levels[b] \in {0, 1}
  BY <1>1 DEF sh_button_handler
<1> QED BY <1>1, <1>2, <1>3, ScanGesture

LEMMA GestureInvNext ==
  ASSUME ButtonInv, GestureInv, [ButtonNext]_buttonVars
  PROVE  GestureInv'
<1>1. button \in [Buttons -> ButtonRecords]
  BY DEF ButtonInv
<1>2. CASE sh_button_ctrl_init
  BY <1>2 DEF sh_button_ctrl_init, GestureInv
<1>3. ASSUME NEW b \in Buttons, sh_button_ctrl_add(b)
      PROVE  GestureInv'
  BY <1>3 DEF sh_button_ctrl_add, GestureInv
<1>4. ASSUME NEW b \in Buttons, NEW active \in ActiveLevels, sh_button_init(b, active)
      PROVE  GestureInv'
  <2>1. Counted(ButtonOf(active))
    BY DEF Counted, ButtonOf
  <2>2. /\ created' = created \cup {b} /\ UNCHANGED <<head, started>>
        /\ button' = [button EXCEPT ![b] = ButtonOf(active)]
    BY <1>4 DEF sh_button_init
  <2> QED BY <1>1, <2>1, <2>2 DEF GestureInv
<1>5. ASSUME NEW b \in Buttons, NEW cbs, Attach(b, cbs)
      PROVE  GestureInv'
  <2> DEFINE B == [button[b] EXCEPT !.cb = cbs]
  <2>1. /\ b \in created /\ UNCHANGED <<head, started, created>>
        /\ button' = [button EXCEPT ![b] = B]
    BY <1>5 DEF Attach
  <2>2. button[b] \in ButtonRecords /\ Counted(button[b])
    BY <1>1 DEF GestureInv
  <2>3. Counted(B)
    BY <2>2 DEF Counted, ButtonRecords
  <2> HIDE DEF B
  <2> QED BY <1>1, <2>1, <2>3 DEF GestureInv
<1>6. ASSUME NEW levels \in [Buttons -> {0, 1}], sh_button_handler(levels)
      PROVE  GestureInv'
  <2>1. UNCHANGED <<head, started, created>> /\ started
    BY <1>6 DEF sh_button_handler
  <2>2. ASSUME NEW b \in Buttons, b \notin Range(head)
        PROVE  button'[b] = button[b]
    BY <1>6, <2>2 DEF sh_button_handler
  <2>3. Range(head) \subseteq created
    BY DEF ButtonInv, Range
  <2>4. ASSUME NEW b \in Buttons PROVE Counted(button'[b])
    <3>1. CASE b \in Range(head)
      BY <1>6, <3>1, HandlerGesture
    <3>2. CASE b \notin Range(head)
      BY <2>2, <3>2 DEF GestureInv
    <3> QED BY <3>1, <3>2
  <2>5. ASSUME NEW b \in Buttons \ created PROVE button'[b] = ButtonOf(0)
    BY <2>2, <2>3 DEF GestureInv
  <2> QED BY <2>1, <2>4, <2>5 DEF GestureInv
<1>7. CASE UNCHANGED buttonVars
  BY <1>7 DEF buttonVars, GestureInv
<1> QED BY <1>2, <1>3, <1>4, <1>5, <1>6, <1>7
        DEF ButtonNext, sh_button_attach_cbs, sh_button_attach_cb, sh_button_detach_cb

LEMMA GestureInitially == ButtonInit => Told!GestureInit
<1> SUFFICES ASSUME ButtonInit PROVE Told!GestureInit
  OBVIOUS
<1>1. head = <<>> /\ button = [b \in Buttons |-> ButtonOf(0)]
  BY DEF ButtonInit
<1>2. Range(head) = {}
  BY <1>1 DEF Range
<1>3. ~Pressed(ButtonOf(0)) /\ AgeOf(ButtonOf(0)) = 0 /\ ButtonOf(0).state = "IDLE"
      /\ ButtonOf(0).told = <<>>
  BY DEF ButtonOf, Pressed, AgeOf
<1> DEFINE B == ButtonOf(0)
<1>4. /\ button = [b \in Buttons |-> B] /\ Pressed(B) = FALSE /\ AgeOf(B) = 0
      /\ (IF B.state = "IDLE" THEN 0 ELSE B.repeat) = 0 /\ B.told = <<>>
  BY <1>1, <1>3 DEF Pressed
<1> HIDE DEF B
<1> QED BY <1>2, <1>4 DEF Told!GestureInit

\* Every button that a scan reads changes, or stays, and calls back as the
\* abstract specification says.
LEMMA ScanIsGesture ==
  ASSUME ButtonInv, GestureInv, NEW levels \in [Buttons -> {0, 1}], sh_button_handler(levels)
  PROVE  Told!Scan
<1> DEFINE down == [b \in Buttons |-> Pressed(button[b])]
           age == [b \in Buttons |-> AgeOf(button[b])]
           series == [b \in Buttons |-> IF button[b].state = "IDLE" THEN 0 ELSE button[b].repeat]
           listens == [b \in Buttons |-> button[b].cb]
           told == [b \in Buttons |-> button[b].told]
<1>1. UNCHANGED <<ctrl, head, started, created>>
  BY DEF sh_button_handler
<1>2. ASSUME NEW b \in Buttons
      PROVE  /\ down[b] = Pressed(button[b]) /\ down'[b] = Pressed(button'[b])
             /\ age[b] = AgeOf(button[b]) /\ age'[b] = AgeOf(button'[b])
             /\ series[b] = SeriesOf(button[b]) /\ series'[b] = SeriesOf(button'[b])
             /\ listens[b] = button[b].cb /\ listens'[b] = button'[b].cb
             /\ told[b] = button[b].told /\ told'[b] = button'[b].told
  BY <1>1 DEF SeriesOf, AgeOf, Pressed
<1>3. ASSUME NEW b \in Buttons, b \notin Range(head)
      PROVE  button'[b] = button[b]
  BY <1>3 DEF sh_button_handler
<1>4. Range(head) \subseteq Buttons
  BY DEF ButtonInv, Range
<1>5. listens' = listens
  <2>1. ASSUME NEW b \in Buttons PROVE button'[b].cb = button[b].cb
    BY <1>3, HandlerGesture
  <2> QED BY <2>1
<1>6. ASSUME NEW b \in Range(head)
      PROVE  (Told!Changed(b) \/ Told!Stays(b)) /\ Told!Tells(b)
  <2> DEFINE B == button[b]
             R == button'[b]
  <2> DEFINE d == Pressed(B)
             d1 == Pressed(R)
             a == AgeOf(B)
             a1 == AgeOf(R)
             s == SeriesOf(B)
             s1 == SeriesOf(R)
  <2>1. /\ WentDown(R, B) \/ WentUp(R, B) \/ StaysUp(R, B) \/ StaysDown(R, B)
        /\ B \in ButtonRecords /\ R \in ButtonRecords /\ b \in Buttons
    BY HandlerGesture
  <2>2. /\ d \in BOOLEAN /\ d1 \in BOOLEAN /\ s \in Nat /\ s1 \in Nat
    BY <2>1, ButtonAssumption DEF Pressed, SeriesOf, ButtonRecords
  <2>3. Told!Changed(b) <=>
          /\ d1 # d /\ a1 = 0
          /\ \/ d1 /\ s1 = Told!Smaller(s + 1, RepeatMax)
             \/ ~d1 /\ s1 = IF a >= ctrl.long THEN 0 ELSE s
    BY <1>2, <2>1 DEF Told!Changed
  <2>4. Told!Stays(b) <=>
          /\ d1 = d
          /\ \/ d /\ a1 = Told!Older(a) /\ s1 = s
             \/ /\ ~d /\ s > 0 /\ a + 1 < ctrl.release
                /\ a1 = a + 1 /\ s1 = s
             \/ /\ ~d /\ (s > 0 => a + 1 = ctrl.release)
                /\ a1 = 0 /\ s1 = 0
    BY <1>2, <2>1 DEF Told!Stays
  <2>5. ASSUME NEW e
        PROVE  Told!Occurs(b, e) <=>
                 \/ e = "PRESS" /\ ~d /\ d1
                 \/ e = "RELEASE" /\ d /\ ~d1
                 \/ ~d /\ ~d1 /\ s > 0 /\ s1 = 0 /\ e = Told!Click(s)
                 \/ /\ d /\ d1
                    /\ \/ e = "LONG_PRESS_START" /\ a1 = ctrl.long
                       \/ e = "LONG_PRESS_REPEAT" /\ a1 = ctrl.long + ctrl.repeat
    BY <1>1, <1>2, <2>1 DEF Told!Occurs
  <2>6. ASSUME NEW e, Calls(R, B, e), \A f : Told!Occurs(b, f) <=> f = e
        PROVE  Told!Tells(b)
    BY <1>2, <2>1, <2>6 DEF Told!Tells, Calls
  <2>7. ASSUME R.told = <<>>, \A f : ~Told!Occurs(b, f)
        PROVE  Told!Tells(b)
    BY <1>2, <2>1, <2>7 DEF Told!Tells
  <2>8. ctrl.long \in Nat \ {0} /\ ctrl.repeat \in Nat \ {0} /\ ctrl.release \in Nat \ {0}
    BY DEF ButtonInv, LimitsOK, sh_button_handler
  <2>9. CASE WentDown(R, B)
    <3>1. ~d /\ d1 /\ a1 = 0 /\ s1 = (IF s + 1 < RepeatMax THEN s + 1 ELSE RepeatMax)
      BY <2>9 DEF WentDown
    <3>2. Calls(R, B, "PRESS")
      BY <2>9 DEF WentDown
    <3> HIDE DEF B, R, d, d1, a, a1, s, s1
    <3>3. Told!Changed(b)
      BY <2>3, <3>1 DEF Told!Smaller
    <3>4. \A f : Told!Occurs(b, f) <=> f = "PRESS"
      BY <2>5, <3>1
    <3> QED BY <2>6, <3>2, <3>3, <3>4
  <2>10. CASE WentUp(R, B)
    <3>1. d /\ ~d1 /\ a1 = 0 /\ s1 = (IF a >= ctrl.long THEN 0 ELSE s)
      BY <2>10 DEF WentUp
    <3>2. Calls(R, B, "RELEASE")
      BY <2>10 DEF WentUp
    <3> HIDE DEF B, R, d, d1, a, a1, s, s1
    <3>3. Told!Changed(b)
      BY <2>3, <3>1
    <3>4. \A f : Told!Occurs(b, f) <=> f = "RELEASE"
      BY <2>5, <3>1
    <3> QED BY <2>6, <3>2, <3>3, <3>4
  <2>11. CASE StaysUp(R, B)
    <3>1. /\ ~d /\ ~d1
          /\ \/ s = 0 /\ s1 = 0 /\ a1 = 0 /\ R.told = <<>>
             \/ s > 0 /\ a + 1 < ctrl.release /\ s1 = s /\ a1 = a + 1 /\ R.told = <<>>
             \/ s > 0 /\ a + 1 = ctrl.release /\ s1 = 0 /\ a1 = 0 /\ Calls(R, B, Told!Click(s))
      BY <2>11 DEF StaysUp
    <3> HIDE DEF B, R, d, d1, a, a1, s, s1
    <3>2. Told!Stays(b)
      BY <2>2, <2>4, <3>1
    <3>3. CASE R.told = <<>> /\ (s = 0 \/ (s > 0 /\ s1 = s))
      <4>1. \A f : ~Told!Occurs(b, f)
        BY <2>2, <2>5, <3>1, <3>3
      <4> QED BY <2>7, <3>2, <3>3, <4>1
    <3>4. CASE s > 0 /\ s1 = 0 /\ Calls(R, B, Told!Click(s))
      <4>1. \A f : Told!Occurs(b, f) <=> f = Told!Click(s)
        BY <2>5, <3>1, <3>4
      <4> QED BY <2>6, <3>2, <3>4, <4>1
    <3> QED BY <3>1, <3>3, <3>4
  <2>12. CASE StaysDown(R, B)
    <3>1. d /\ d1 /\ s1 = s /\ a1 = Told!Older(a)
      BY <2>12 DEF StaysDown, Told!Older
    <3>2. \/ a1 \notin {ctrl.long, ctrl.long + ctrl.repeat} /\ R.told = <<>>
          \/ a1 = ctrl.long /\ Calls(R, B, "LONG_PRESS_START")
          \/ a1 = ctrl.long + ctrl.repeat /\ Calls(R, B, "LONG_PRESS_REPEAT")
      BY <2>12 DEF StaysDown
    <3> HIDE DEF B, R, d, d1, a, a1, s, s1
    <3>3. Told!Stays(b)
      BY <2>4, <3>1
    <3>4. ctrl.long # ctrl.long + ctrl.repeat
      BY <2>8
    <3>5. CASE a1 \notin {ctrl.long, ctrl.long + ctrl.repeat} /\ R.told = <<>>
      <4>1. \A f : ~Told!Occurs(b, f)
        BY <2>5, <3>1, <3>5
      <4> QED BY <2>7, <3>3, <3>5, <4>1
    <3>6. CASE a1 = ctrl.long /\ Calls(R, B, "LONG_PRESS_START")
      <4>1. \A f : Told!Occurs(b, f) <=> f = "LONG_PRESS_START"
        BY <2>5, <3>1, <3>4, <3>6
      <4> QED BY <2>6, <3>3, <3>6, <4>1
    <3>7. CASE a1 = ctrl.long + ctrl.repeat /\ Calls(R, B, "LONG_PRESS_REPEAT")
      <4>1. \A f : Told!Occurs(b, f) <=> f = "LONG_PRESS_REPEAT"
        BY <2>5, <3>1, <3>4, <3>7
      <4> QED BY <2>6, <3>3, <3>7, <4>1
    <3> QED BY <3>2, <3>5, <3>6, <3>7
  <2> QED BY <2>1, <2>9, <2>10, <2>11, <2>12
<1>7. ASSUME NEW b \in Buttons \ Range(head)
      PROVE  down'[b] = down[b] /\ age'[b] = age[b] /\ series'[b] = series[b] /\ told'[b] = told[b]
  BY <1>2, <1>3
<1> QED BY <1>1, <1>5, <1>6, <1>7 DEF Told!Scan

\* No other operation shows in what the abstract specification sees, except
\* in the buttons that are listed and, before there are any, the limits.
LEMMA GestureStep ==
  ASSUME ButtonInv, GestureInv, [ButtonNext]_buttonVars
  PROVE  [Told!GestureNext]_(Told!gestureVars)
<1> DEFINE down == [b \in Buttons |-> Pressed(button[b])]
           age == [b \in Buttons |-> AgeOf(button[b])]
           series == [b \in Buttons |-> IF button[b].state = "IDLE" THEN 0 ELSE button[b].repeat]
           listens == [b \in Buttons |-> button[b].cb]
           told == [b \in Buttons |-> button[b].told]
<1>1. button \in [Buttons -> ButtonRecords]
  BY DEF ButtonInv
<1>2. CASE sh_button_ctrl_init
  <2>1. /\ ~started /\ head = <<>> /\ head' = <<>> /\ button' = button
        /\ \A b \in Buttons : button[b].state = "IDLE"
    BY <1>2 DEF sh_button_ctrl_init, GestureInv, ButtonInv, Fresh
  <2>2. Range(head) = {}
    BY <2>1 DEF Range
  <2>3. \A b \in Buttons : AgeOf(button[b]) = button[b].ticks /\ AgeOf(button[b])' = button[b].ticks
    BY <2>1 DEF AgeOf
  <2>4. UNCHANGED <<down, age, series, listens, told>>
    BY <2>1, <2>3 DEF Pressed
  <2> QED BY <2>2, <2>4 DEF Told!GestureNext, Told!Setup
<1>3. ASSUME NEW b \in Buttons, sh_button_ctrl_add(b)
      PROVE  Told!Setup
  <2>1. UNCHANGED <<ctrl, button>> /\ head' = Append(head, b) /\ head \in Seq(Buttons)
    BY <1>3 DEF sh_button_ctrl_add, ButtonInv
  <2>2. Range(head) \subseteq Range(head)'
    <3>1. /\ head' \in Seq(Buttons) /\ Len(head') = Len(head) + 1
          /\ \A i \in 1 .. Len(head) : head'[i] = head[i]
      BY <2>1, AppendProperties
    <3>2. Len(head) \in Nat /\ DOMAIN head = 1 .. Len(head) /\ DOMAIN head' = 1 .. Len(head) + 1
      BY <2>1, <3>1, LenProperties
    <3> QED BY <3>1, <3>2 DEF Range
  <2>3. UNCHANGED <<down, age, series, listens, told>>
    BY <2>1 DEF Pressed, AgeOf
  <2> QED BY <2>1, <2>2, <2>3 DEF Told!Setup
\* A button that is initialised was, and is, at rest.
<1>4. ASSUME NEW b \in Buttons, NEW active \in ActiveLevels, sh_button_init(b, active)
      PROVE  Told!Listen
  <2> DEFINE A == ButtonOf(0)
             B == ButtonOf(active)
  <2>1. /\ button[b] = A /\ button' = [button EXCEPT ![b] = B] /\ UNCHANGED <<ctrl, head>>
    BY <1>4 DEF sh_button_init, GestureInv
  <2>2. /\ ~Pressed(A) /\ ~Pressed(B) /\ AgeOf(A) = 0 /\ AgeOf(B) = 0
        /\ A.state = "IDLE" /\ B.state = "IDLE" /\ A.told = B.told
    <3>1. active \in {0, 1}
      BY ButtonAssumption
    <3> QED BY <3>1 DEF ButtonOf, Pressed, AgeOf
  <2>3. Pressed(A) = Pressed(B)
    BY <2>2 DEF Pressed
  <2> HIDE DEF A, B
  <2>4. ASSUME NEW c \in Buttons
        PROVE  /\ Pressed(button'[c]) = Pressed(button[c])
               /\ AgeOf(button'[c]) = AgeOf(button[c])
               /\ SeriesOf(button'[c]) = SeriesOf(button[c])
               /\ button'[c].told = button[c].told
    <3>1. button'[c] = IF c = b THEN B ELSE button[c]
      BY <1>1, <2>1
    <3> QED BY <2>1, <2>2, <2>3, <3>1 DEF SeriesOf
  <2>5. UNCHANGED <<down, age, series, told>>
    BY <2>1, <2>4 DEF SeriesOf, AgeOf, Pressed
  <2> QED BY <2>1, <2>5 DEF Told!Listen
<1>5. ASSUME NEW b \in Buttons, NEW cbs, Attach(b, cbs)
      PROVE  Told!Listen
  <2> DEFINE B == [button[b] EXCEPT !.cb = cbs]
  <2>1. button' = [button EXCEPT ![b] = B] /\ UNCHANGED <<ctrl, head>>
    BY <1>5 DEF Attach
  <2>2. /\ B.state = button[b].state /\ B.ticks = button[b].ticks /\ B.event = button[b].event
        /\ B.repeat = button[b].repeat /\ B.told = button[b].told
        /\ B.active_level = button[b].active_level
        /\ B.current_level = button[b].current_level
    BY <1>1 DEF ButtonRecords
  <2> HIDE DEF B
  <2>3. ASSUME NEW c \in Buttons
        PROVE  /\ Pressed(button'[c]) = Pressed(button[c])
               /\ AgeOf(button'[c]) = AgeOf(button[c])
               /\ SeriesOf(button'[c]) = SeriesOf(button[c])
               /\ button'[c].told = button[c].told
    <3>1. button'[c] = IF c = b THEN B ELSE button[c]
      BY <1>1, <2>1
    <3> QED BY <2>2, <3>1 DEF SeriesOf, AgeOf, Pressed
  <2>4. UNCHANGED <<down, age, series, told>>
    BY <2>1, <2>3 DEF SeriesOf, AgeOf, Pressed
  <2> QED BY <2>1, <2>4 DEF Told!Listen
<1>6. ASSUME NEW levels \in [Buttons -> {0, 1}], sh_button_handler(levels)
      PROVE  Told!Scan
  BY <1>6, ScanIsGesture
<1>7. CASE UNCHANGED buttonVars
  BY <1>7 DEF buttonVars, Told!gestureVars, AgeOf, Pressed
<1> QED BY <1>2, <1>3, <1>4, <1>5, <1>6, <1>7
        DEF ButtonNext, sh_button_attach_cbs, sh_button_attach_cb, sh_button_detach_cb,
            Told!GestureNext

(***************************************************************************)
(* What callbacks are told is what the debounced buttons did, for any      *)
(* number of buttons, limits, bounces and changes of callbacks: presses    *)
(* and releases in turn, a click of the right kind release ticks after the *)
(* last release of a series, a long press after long_press ticks and its   *)
(* repetitions without drift, and never two at once                        *)
(* (sh_button_state_machine_process).                                      *)
(***************************************************************************)
THEOREM ButtonIsGestures == ButtonSpec => IsGestures
<1>1. ButtonInv /\ GestureInv /\ [ButtonNext]_buttonVars
        => GestureInv' /\ [Told!GestureNext]_(Told!gestureVars)
  BY GestureInvNext, GestureStep
<1> QED BY <1>1, GestureInvInit, GestureInitially, ButtonInvAlways, PTL
        DEF ButtonSpec, IsGestures, Told!GestureSpec
=============================================================================
