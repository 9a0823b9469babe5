------------------------------ MODULE Gestures ------------------------------
(***************************************************************************)
(* What a button driver promises of a debounced button: presses, releases, *)
(* clicks and long presses as a function of when the button went down and  *)
(* up.  A click is told once the button has been up for limits.release     *)
(* scans, for the whole series of presses; a long press once it has been   *)
(* down for limits.long scans, and again every limits.repeat scans; a      *)
(* series that ends in a long press is no click.                           *)
(***************************************************************************)
EXTENDS Naturals, Sequences

CONSTANTS Buttons, MaxSeries

VARIABLES listed,  \* the buttons that are scanned
          limits,  \* the times above
          down,    \* whether a button is down
          age,     \* scans since it went down or up, while that matters
          series,  \* presses since the last click or long press, if not told
          listens, \* the events that are wanted
          told     \* those told in the last scan

gestureVars == <<listed, limits, down, age, series, listens, told>>

Smaller(a, b) == IF a < b THEN a ELSE b

GestureInit ==
  /\ listed = {} /\ down = [b \in Buttons |-> FALSE]
  /\ age = [b \in Buttons |-> 0] /\ series = [b \in Buttons |-> 0]
  /\ told = [b \in Buttons |-> <<>>]

Click(n) == CASE n = 1 -> "SINGLE_CLICK" [] n = 2 -> "DOUBLE_CLICK" [] OTHER -> "MULTI_CLICK"

\* The age of a long press starts over with every repetition.
Older(n) == IF n = limits.long + limits.repeat THEN limits.long + 1 ELSE n + 1

\* Button b went down or up,
Changed(b) ==
  /\ down'[b] # down[b] /\ age'[b] = 0
  /\ \/ down'[b] /\ series'[b] = Smaller(series[b] + 1, MaxSeries)
     \/ ~down'[b] /\ series'[b] = IF age[b] >= limits.long THEN 0 ELSE series[b]

\* or stays down or up: a click is due when it has been up long enough.
Stays(b) ==
  /\ down'[b] = down[b]
  /\ \/ down[b] /\ age'[b] = Older(age[b]) /\ series'[b] = series[b]
     \/ /\ ~down[b] /\ series[b] > 0 /\ age[b] + 1 < limits.release
        /\ age'[b] = age[b] + 1 /\ series'[b] = series[b]
     \/ /\ ~down[b] /\ (series[b] > 0 => age[b] + 1 = limits.release)
        /\ age'[b] = 0 /\ series'[b] = 0

\* The event that a scan of b is to tell.
Occurs(b, e) ==
  \/ e = "PRESS" /\ ~down[b] /\ down'[b]
  \/ e = "RELEASE" /\ down[b] /\ ~down'[b]
  \/ ~down[b] /\ ~down'[b] /\ series[b] > 0 /\ series'[b] = 0 /\ e = Click(series[b])
  \/ /\ down[b] /\ down'[b]
     /\ \/ e = "LONG_PRESS_START" /\ age'[b] = limits.long
        \/ e = "LONG_PRESS_REPEAT" /\ age'[b] = limits.long + limits.repeat

Tells(b) ==
  \/ \E e \in listens[b] : Occurs(b, e) /\ told'[b] = <<e>>
  \/ (\A e \in listens[b] : ~Occurs(b, e)) /\ told'[b] = <<>>

Scan ==
  /\ \A b \in listed : (Changed(b) \/ Stays(b)) /\ Tells(b)
  /\ \A b \in Buttons \ listed :
       /\ down'[b] = down[b] /\ age'[b] = age[b] /\ series'[b] = series[b]
       /\ told'[b] = told[b]
  /\ UNCHANGED <<listed, limits, listens>>

Listen == UNCHANGED <<listed, limits, down, age, series, told>>

Setup ==
  /\ listed = {} \/ limits' = limits
  /\ listed \subseteq listed'
  /\ UNCHANGED <<down, age, series, listens, told>>

GestureNext == Scan \/ Listen \/ Setup

GestureSpec == GestureInit /\ [][GestureNext]_gestureVars
=============================================================================
