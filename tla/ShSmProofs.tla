----------------------------- MODULE ShSmProofs -----------------------------
(***************************************************************************)
(* Theorems about the state machine, for every set of states, events,      *)
(* messages and timers, every width of the tick counter, every choice of   *)
(* the operations that callbacks call and every depth of nesting.          *)
(***************************************************************************)
EXTENDS ShSm, ShEventProofs, ShTimerProofs

\* The frames of the state machine and of what it calls.
AllFrames == PubFrames \cup ExecFrames \cup TimerFrames
             \cup SmFrames \cup TransFrames \cup OvertickFrames

NodeRecords == [ctrl : Heads \cup {"none"}, ev : Events \cup {"none"}, id : 0 .. MaxIds - 1]

NodeTimers == {t \in Timers : IsNode(t)}
LiveTimers == {t \in Timers : timer[t].live}

SmTypes ==
  /\ sm \in BOOLEAN /\ re \in BOOLEAN /\ current \in Servers \cup {"none"}
  /\ bitmap \in [Heads -> SUBSET (0 .. MaxIds - 1)]
  /\ node \in [Timers -> NodeRecords]
  /\ server \in [Servers -> {"absent", "stopped", "started", "freed"}]
  /\ mode \in [Servers -> [Events -> {"none", "async"}]]
  /\ queue \in [Servers -> Seq(Msgs)]
  /\ tick \in Ticks
  /\ timer \in [Timers -> TimerRecords]
  /\ list \in Lists
  /\ masked \in BOOLEAN /\ stack \in Seq(AllFrames)

IsOvt(f) == f.op = "ovt"

\* A pass that is calling the callback of timer t.
Calls(f, t) == IsTmr(f) /\ f.pc = "cb" /\ f.cur = t

\* A pass that is calling sh_sm_timer_overtick_cb: N are the timers with a node.
Overticks(f, N) == IsTmr(f) /\ f.pc = "cb" /\ f.cur \in N

\* sh_sm_handler is called by the main loop only.
MainOnly == "sm_handler" \notin CbOps

\* What the fields of a frame say about each other and about the queues q, the
\* current state c, re_execute r and the allocated timers L.
SmFrameOK(f, q, c, r, L) ==
  /\ IsPub(f) \/ IsExec(f) => FrameOK(f, q)
  /\ IsPub(f) => f.pc # "cb"
  /\ IsSm(f) => /\ c # "none" /\ (f.at # "global" => f.srv # "none")
                /\ MainOnly /\ f.at # "global" /\ ~r => f.srv = c
  /\ IsTrans(f) /\ f.at # "start" => c # "none"
  /\ IsTmr(f) => IF f.pc = "cb" THEN f.cur \in L ELSE f.cur = "head"

\* What runs on top of what, and where interrupts were disabled.
PlaceOK(fs, i, N) ==
  /\ \A j \in DOMAIN fs : j > i /\ (IsTrans(fs[j]) \/ IsOvt(fs[j])) => IsPub(fs[i])
  /\ IsOvt(fs[i]) <=> i + 1 \in DOMAIN fs /\ Overticks(fs[i + 1], N)
  /\ IsOvt(fs[i]) => fs[i].timer = fs[i + 1].cur
  /\ MainOnly /\ IsSm(fs[i]) => \A j \in DOMAIN fs : j <= i
  /\ Locked(fs[i]) => (fs[i].level <=> \E j \in DOMAIN fs : j > i /\ Locked(fs[j]))

StackOK(fs, q, c, r, L, N) ==
  \A i \in DOMAIN fs : SmFrameOK(fs[i], q, c, r, L) /\ PlaceOK(fs, i, N)

AnyLocked(fs) == \E i \in DOMAIN fs : Locked(fs[i])

StackInv ==
  /\ StackOK(stack, queue, current, re, LiveTimers, NodeTimers)
  /\ masked <=> AnyLocked(stack)

\* A transition is on its way at one of the places in A.
Moving(fs, A) == \E i \in DOMAIN fs : IsTrans(fs[i]) /\ fs[i].at \in A
Anywhere == {"clear", "timers", "start"}

ServersInv ==
  /\ \A s \in Servers : server[s] = "started" => s = current /\ ~Moving(stack, Anywhere)
  /\ \A s \in Servers :
       s # current \/ Moving(stack, {"timers", "start"}) =>
         server[s] = "freed" \/ queue[s] = <<>>
  /\ \A s \in Servers :
       s # current \/ Moving(stack, {"start"}) => bitmap[s] = {} /\ list[s] = <<>>
  /\ ~sm => current = "none" /\ stack = <<>>

Busy(fs, t) == \E i \in DOMAIN fs : Calls(fs[i], t)

\* The timers of the machine, their nodes and their ids.
NodesOK ==
  /\ \A t \in Timers :
       /\ timer[t].live => timer[t].cb
       /\ IsNode(t) => /\ timer[t].live /\ timer[t].mode = "single"
                       /\ node[t].ctrl \in Heads /\ node[t].ev \in Events
  /\ \A h \in Heads, k \in 0 .. MaxIds - 1 :
       k \in bitmap[h] <=> \E u \in Timers : node[u].ctrl = h /\ node[u].id = k
  /\ \A t, u \in Timers :
       IsNode(t) /\ node[u].ctrl = node[t].ctrl /\ node[u].id = node[t].id => t = u
  /\ \A h \in Heads : Once(list[h])
  /\ \A h \in Heads, t \in Timers :
       OnList(list[h], t) => /\ timer[t].live
                             /\ (h = Global /\ ~IsNode(t)) \/ node[t].ctrl = h

RunOK ==
  \A t \in Timers : IsNode(t) => OnList(list[node[t].ctrl], t) \/ Busy(stack, t)

SmInv == SmTypes /\ StackInv /\ ServersInv /\ NodesOK /\ RunOK

CarefulInv == current # "none" => server[current] = "started" \/ Moving(stack, Anywhere)
-----------------------------------------------------------------------------
(***************************************************************************)
(* Frames.                                                                 *)
(***************************************************************************)
LEMMA SmFrameKinds ==
  ASSUME NEW f \in AllFrames
  PROVE  /\ IsPub(f) => f \in PubFrames
         /\ IsExec(f) => f \in ExecFrames
         /\ IsTmr(f) => f \in TimerFrames
         /\ IsSm(f) => f \in SmFrames
         /\ IsTrans(f) => f \in TransFrames
         /\ IsOvt(f) => f \in OvertickFrames
         /\ IsPub(f) \/ IsExec(f) \/ IsTmr(f) \/ IsSm(f) \/ IsTrans(f) \/ IsOvt(f)
         /\ f.ok \in BOOLEAN /\ f.level \in BOOLEAN
         /\ IsSm(f) \/ IsTrans(f) => ~Locked(f) /\ f.pc # "cb"
         /\ IsOvt(f) => Locked(f) /\ f.pc # "cb"
BY DEF AllFrames, PubFrames, ExecFrames, TimerFrames, SmFrames, TransFrames, OvertickFrames,
       IsPub, IsExec, IsTmr, IsSm, IsTrans, IsOvt, Locked

\* f and g are of one kind.
Kind(f, g) ==
  /\ IsPub(f) <=> IsPub(g)
  /\ IsExec(f) <=> IsExec(g)
  /\ IsTmr(f) <=> IsTmr(g)
  /\ IsSm(f) <=> IsSm(g)
  /\ IsTrans(f) <=> IsTrans(g)
  /\ IsOvt(f) <=> IsOvt(g)

\* f and g differ in `ok` at most.
SmAlike(f, g) ==
  /\ Kind(f, g) /\ f.pc = g.pc /\ f.level = g.level
  /\ IsPub(f) => f.msg = g.msg /\ f.cur = g.cur
  /\ IsExec(f) => f.msg = g.msg /\ f.srv = g.srv /\ f.more = g.more
  /\ IsTmr(f) => f.cur = g.cur
  /\ IsSm(f) => f.at = g.at /\ f.srv = g.srv
  /\ IsTrans(f) => f.at = g.at
  /\ IsOvt(f) => f.timer = g.timer

LEMMA SmOkUpdate ==
  ASSUME NEW f \in AllFrames, NEW b \in BOOLEAN, NEW g, g = [f EXCEPT !.ok = b]
  PROVE  g \in AllFrames /\ SmAlike(f, g) /\ g.ok = b
<1>1. CASE f \in PubFrames
  BY <1>1 DEF AllFrames, PubFrames, SmAlike, Kind, IsPub, IsExec, IsTmr, IsSm, IsTrans, IsOvt
<1>2. CASE f \in ExecFrames
  BY <1>2 DEF AllFrames, ExecFrames, SmAlike, Kind, IsPub, IsExec, IsTmr, IsSm, IsTrans, IsOvt
<1>3. CASE f \in TimerFrames
  BY <1>3 DEF AllFrames, TimerFrames, SmAlike, Kind, IsPub, IsExec, IsTmr, IsSm, IsTrans, IsOvt
<1>4. CASE f \in SmFrames
  BY <1>4 DEF AllFrames, SmFrames, SmAlike, Kind, IsPub, IsExec, IsTmr, IsSm, IsTrans, IsOvt
<1>5. CASE f \in TransFrames
  BY <1>5 DEF AllFrames, TransFrames, SmAlike, Kind, IsPub, IsExec, IsTmr, IsSm, IsTrans, IsOvt
<1>6. CASE f \in OvertickFrames
  BY <1>6 DEF AllFrames, OvertickFrames, SmAlike, Kind, IsPub, IsExec, IsTmr, IsSm, IsTrans, IsOvt
<1> QED BY <1>1, <1>2, <1>3, <1>4, <1>5, <1>6 DEF AllFrames

LEMMA SmBreakFrames ==
  ASSUME NEW fs \in Seq(AllFrames), NEW I
  PROVE  /\ Break(fs, I) \in Seq(AllFrames) /\ DOMAIN Break(fs, I) = DOMAIN fs
         /\ \A i \in DOMAIN fs : /\ SmAlike(fs[i], Break(fs, I)[i])
                                 /\ Break(fs, I)[i].ok <=> fs[i].ok /\ i \notin I
<1>1. DOMAIN fs = 1 .. Len(fs) /\ Len(fs) \in Nat /\ \A i \in DOMAIN fs : fs[i] \in AllFrames
  BY LenProperties, ElementOfSeq
<1> DEFINE r == Break(fs, I)
<1>2. r = [i \in DOMAIN fs |-> [fs[i] EXCEPT !.ok = fs[i].ok /\ i \notin I]]
  BY DEF Break
<1> HIDE DEF r
<1>3. ASSUME NEW i \in DOMAIN fs
      PROVE  r[i] \in AllFrames /\ SmAlike(fs[i], r[i]) /\ (r[i].ok <=> fs[i].ok /\ i \notin I)
  <2> DEFINE f == fs[i]
             b == f.ok /\ i \notin I
             g == r[i]
  <2>1. f \in AllFrames /\ b \in BOOLEAN
    BY <1>1, Zenon
  <2>2. g = [f EXCEPT !.ok = b]
    BY <1>2
  <2> HIDE DEF f, g
  <2>3. b <=> f.ok /\ i \notin I
    OBVIOUS
  <2> HIDE DEF b
  <2>4. g \in AllFrames /\ SmAlike(f, g) /\ g.ok = b
    BY <2>1, <2>2, SmOkUpdate
  <2> QED BY <2>3, <2>4 DEF f, g
<1>4. DOMAIN r = DOMAIN fs
  BY <1>2
<1>5. r \in Seq(AllFrames)
  <2>1. r = [i \in 1 .. Len(fs) |-> r[i]]
    BY <1>1, <1>2
  <2> QED BY <1>1, <1>3, <2>1, IsASeq
<1> QED BY <1>3, <1>4, <1>5 DEF r

\* A frame minds neither a broken place nor a change that empties no queue,
\* keeps a current state and frees no timer whose callback is being called.
LEMMA SmFrameKept ==
  ASSUME NEW f \in AllFrames, NEW g, SmAlike(f, g), g.ok => f.ok,
         NEW q1, NEW c1, NEW r1, NEW L1, SmFrameOK(f, q1, c1, r1, L1),
         NEW q2, NEW c2, NEW r2, NEW L2,
         IsExec(f) /\ g.ok /\ q1[f.srv] # <<>> /\ Locked(f) /\ f.more => q2[f.srv] # <<>>,
         c1 # "none" => c2 # "none",
         MainOnly /\ IsSm(f) => r2 \/ (c2 = c1 /\ r2 = r1),
         IsTmr(f) /\ f.pc = "cb" /\ f.cur \in L1 => f.cur \in L2
  PROVE  SmFrameOK(g, q2, c2, r2, L2)
<1>1. IsPub(g) \/ IsExec(g) => FrameOK(g, q2)
  BY SmFrameKinds DEF SmFrameOK, FrameOK, SmAlike, Kind, Locked
<1>2. IsSm(g) => /\ c2 # "none" /\ (g.at # "global" => g.srv # "none")
                 /\ MainOnly /\ g.at # "global" /\ ~r2 => g.srv = c2
  BY DEF SmFrameOK, SmAlike, Kind
<1>3. IsTmr(g) => IF g.pc = "cb" THEN g.cur \in L2 ELSE g.cur = "head"
  BY DEF SmFrameOK, SmAlike, Kind
<1>4. (IsPub(g) => g.pc # "cb") /\ (IsTrans(g) /\ g.at # "start" => c2 # "none")
  BY DEF SmFrameOK, SmAlike, Kind
<1> QED BY <1>1, <1>2, <1>3, <1>4 DEF SmFrameOK

-----------------------------------------------------------------------------
(***************************************************************************)
(* The stack as its first frame on top of the others.                      *)
(***************************************************************************)
\* Frame g may run on top of the frames fs.
MayTop(g, fs, N) ==
  /\ \A j \in DOMAIN fs : IsTrans(fs[j]) \/ IsOvt(fs[j]) => IsPub(g)
  /\ IsOvt(g) <=> 1 \in DOMAIN fs /\ Overticks(fs[1], N)
  /\ IsOvt(g) => g.timer = fs[1].cur
  /\ MainOnly /\ IsSm(g) => DOMAIN fs = {}
  /\ Locked(g) => (g.level <=> AnyLocked(fs))

\* S has g in front of fs.
Shifted(S, g, fs) ==
  /\ S[1] = g /\ 1 \in DOMAIN S
  /\ DOMAIN fs \subseteq Nat \ {0} /\ DOMAIN S \subseteq Nat \ {0}
  /\ \A i \in Nat \ {0} : i \in DOMAIN fs <=> i + 1 \in DOMAIN S
  /\ \A i \in DOMAIN fs : S[i + 1] = fs[i]
  /\ \A i \in DOMAIN S : i # 1 => i - 1 \in DOMAIN fs /\ S[i] = fs[i - 1]

LEMMA PushPlaces ==
  ASSUME NEW fs \in Seq(AllFrames), NEW g \in AllFrames, NEW S, S = <<g>> \o fs
  PROVE  Shifted(S, g, fs) /\ S \in Seq(AllFrames) /\ S # <<>> /\ Tail(S) = fs
<1>1. /\ S \in Seq(AllFrames) /\ Len(fs) \in Nat /\ DOMAIN fs = 1 .. Len(fs)
      /\ DOMAIN S = 1 .. Len(fs) + 1 /\ S[1] = g
      /\ \A i \in 1 .. Len(fs) : S[i + 1] = fs[i]
      /\ \A i \in 1 .. Len(fs) + 1 : i # 1 => i - 1 \in 1 .. Len(fs) /\ S[i] = fs[i - 1]
  BY PushSeq
<1>2. S # <<>>
  <2>1. 1 \in DOMAIN S /\ DOMAIN <<>> = {}
    BY <1>1
  <2> QED BY <2>1
<1>3. Tail(S) = fs
  OBVIOUS
<1>4. Shifted(S, g, fs)
  BY <1>1 DEF Shifted
<1> QED BY <1>1, <1>2, <1>3, <1>4

LEMMA PushPlaceOK ==
  ASSUME NEW fs \in Seq(AllFrames), NEW g \in AllFrames, NEW S, S = <<g>> \o fs, NEW N
  PROVE  /\ PlaceOK(S, 1, N) <=> MayTop(g, fs, N)
         /\ \A i \in DOMAIN fs : PlaceOK(S, i + 1, N) <=> PlaceOK(fs, i, N)
<1>1. /\ S[1] = g /\ 1 \in DOMAIN S
      /\ DOMAIN fs \subseteq Nat \ {0} /\ DOMAIN S \subseteq Nat \ {0}
      /\ \A i \in Nat \ {0} : i \in DOMAIN fs <=> i + 1 \in DOMAIN S
      /\ \A i \in DOMAIN fs : S[i + 1] = fs[i]
      /\ \A i \in DOMAIN S : i # 1 => i - 1 \in DOMAIN fs /\ S[i] = fs[i - 1]
  <2>1. Shifted(S, g, fs)
    BY PushPlaces
  <2> QED BY <2>1, Zenon DEF Shifted
<1>2. PlaceOK(S, 1, N) <=> MayTop(g, fs, N)
  <2>1. (\A j \in DOMAIN S : j > 1 /\ (IsTrans(S[j]) \/ IsOvt(S[j])) => IsPub(g))
          <=> \A j \in DOMAIN fs : IsTrans(fs[j]) \/ IsOvt(fs[j]) => IsPub(g)
    <3>1. ASSUME \A j \in DOMAIN S : j > 1 /\ (IsTrans(S[j]) \/ IsOvt(S[j])) => IsPub(g),
                 NEW j \in DOMAIN fs, IsTrans(fs[j]) \/ IsOvt(fs[j])
          PROVE  IsPub(g)
      <4>1. j + 1 \in DOMAIN S /\ j + 1 > 1 /\ S[j + 1] = fs[j]
        BY <1>1
      <4> QED BY <3>1, <4>1
    <3>2. ASSUME \A j \in DOMAIN fs : IsTrans(fs[j]) \/ IsOvt(fs[j]) => IsPub(g),
                 NEW j \in DOMAIN S, j > 1, IsTrans(S[j]) \/ IsOvt(S[j])
          PROVE  IsPub(g)
      <4>1. j - 1 \in DOMAIN fs /\ S[j] = fs[j - 1]
        BY <1>1, <3>2
      <4> QED BY <3>2, <4>1
    <3> QED BY <3>1, <3>2
  <2>2. 1 + 1 \in DOMAIN S <=> 1 \in DOMAIN fs
    BY <1>1
  <2>3. 1 \in DOMAIN fs => S[1 + 1] = fs[1]
    BY <1>1
  <2>4. (\A j \in DOMAIN S : j <= 1) <=> DOMAIN fs = {}
    <3>1. ASSUME \A j \in DOMAIN S : j <= 1, NEW j \in DOMAIN fs PROVE FALSE
      <4>1. j + 1 \in DOMAIN S /\ ~(j + 1 <= 1)
        BY <1>1
      <4> QED BY <3>1, <4>1
    <3>2. ASSUME DOMAIN fs = {}, NEW j \in DOMAIN S PROVE j <= 1
      BY <1>1, <3>2
    <3> QED BY <3>1, <3>2
  <2>5. (\E j \in DOMAIN S : j > 1 /\ Locked(S[j])) <=> AnyLocked(fs)
    <3>1. ASSUME NEW j \in DOMAIN S, j > 1, Locked(S[j]) PROVE AnyLocked(fs)
      <4>1. j - 1 \in DOMAIN fs /\ S[j] = fs[j - 1]
        BY <1>1, <3>1
      <4> QED BY <3>1, <4>1 DEF AnyLocked
    <3>2. ASSUME NEW j \in DOMAIN fs, Locked(fs[j])
          PROVE  \E k \in DOMAIN S : k > 1 /\ Locked(S[k])
      <4>1. j + 1 \in DOMAIN S /\ j + 1 > 1 /\ S[j + 1] = fs[j]
        BY <1>1
      <4> QED BY <3>2, <4>1
    <3> QED BY <3>1, <3>2 DEF AnyLocked
  <2> DEFINE A == \A j \in DOMAIN S : j > 1 /\ (IsTrans(S[j]) \/ IsOvt(S[j])) => IsPub(g)
             B == \A j \in DOMAIN S : j <= 1
             C == \E j \in DOMAIN S : j > 1 /\ Locked(S[j])
             D == 1 + 1 \in DOMAIN S
             E == S[1 + 1]
  <2>6. PlaceOK(S, 1, N) <=>
          /\ A /\ (IsOvt(g) <=> D /\ Overticks(E, N)) /\ (IsOvt(g) => g.timer = E.cur)
          /\ (MainOnly /\ IsSm(g) => B) /\ (Locked(g) => (g.level <=> C))
    BY <1>1, Zenon DEF PlaceOK
  <2> HIDE DEF A, B, C, D, E
  <2>7. MayTop(g, fs, N) <=>
          /\ A /\ (IsOvt(g) <=> D /\ Overticks(fs[1], N)) /\ (IsOvt(g) => g.timer = fs[1].cur)
          /\ (MainOnly /\ IsSm(g) => B) /\ (Locked(g) => (g.level <=> C))
    BY <2>1, <2>2, <2>4, <2>5 DEF MayTop, A, B, C, D
  <2>8. D => E = fs[1]
    BY <2>2, <2>3 DEF D, E
  <2>9. CASE D
    <3>1. E = fs[1]
      BY <2>8, <2>9
    <3> QED BY <2>6, <2>7, <3>1
  <2>10. CASE ~D
    BY <2>6, <2>7, <2>10
  <2> QED BY <2>9, <2>10
<1>3. ASSUME NEW i \in DOMAIN fs PROVE PlaceOK(S, i + 1, N) <=> PlaceOK(fs, i, N)
  <2>0. i \in Nat \ {0} /\ S[i + 1] = fs[i]
    BY <1>1
  <2>1. \A j \in DOMAIN S : j > i + 1 => j - 1 \in DOMAIN fs /\ j - 1 > i /\ S[j] = fs[j - 1]
    BY <1>1, <2>0
  <2>2. \A j \in DOMAIN fs : j > i => j + 1 \in DOMAIN S /\ j + 1 > i + 1 /\ S[j + 1] = fs[j]
    <3> SUFFICES ASSUME NEW j \in DOMAIN fs, j > i
                 PROVE  j + 1 \in DOMAIN S /\ j + 1 > i + 1 /\ S[j + 1] = fs[j]
      OBVIOUS
    <3>1. j \in Nat \ {0}
      BY <1>1
    <3> QED BY <1>1, <2>0, <3>1
  <2>3. i + 1 \in DOMAIN fs <=> (i + 1) + 1 \in DOMAIN S
    BY <1>1, <2>0
  <2>4. i + 1 \in DOMAIN fs => S[(i + 1) + 1] = fs[i + 1]
    BY <1>1, <2>0
  <2>5. (\A j \in DOMAIN S : j <= i + 1) <=> \A j \in DOMAIN fs : j <= i
    <3>1. ASSUME \A j \in DOMAIN S : j <= i + 1, NEW j \in DOMAIN fs PROVE j <= i
      <4>1. j + 1 \in DOMAIN S /\ j \in Nat
        BY <1>1
      <4>2. j + 1 <= i + 1
        BY <3>1, <4>1
      <4> QED BY <2>0, <4>1, <4>2
    <3>2. ASSUME \A j \in DOMAIN fs : j <= i, NEW j \in DOMAIN S PROVE j <= i + 1
      <4>1. j \in Nat \ {0}
        BY <1>1
      <4>2. CASE j = 1
        BY <2>0, <4>2
      <4>3. CASE j # 1
        <5>1. j - 1 \in DOMAIN fs
          BY <1>1, <4>3
        <5>2. j - 1 <= i
          BY <3>2, <5>1
        <5> QED BY <2>0, <4>1, <5>2
      <4> QED BY <4>2, <4>3
    <3> QED BY <3>1, <3>2
  <2>6. (\A j \in DOMAIN S : j > i + 1 /\ (IsTrans(S[j]) \/ IsOvt(S[j])) => IsPub(fs[i]))
          <=> \A j \in DOMAIN fs : j > i /\ (IsTrans(fs[j]) \/ IsOvt(fs[j])) => IsPub(fs[i])
    <3>1. ASSUME \A j \in DOMAIN S : j > i + 1 /\ (IsTrans(S[j]) \/ IsOvt(S[j])) => IsPub(fs[i]),
                 NEW j \in DOMAIN fs, j > i, IsTrans(fs[j]) \/ IsOvt(fs[j])
          PROVE  IsPub(fs[i])
      BY <2>2, <3>1
    <3>2. ASSUME \A j \in DOMAIN fs : j > i /\ (IsTrans(fs[j]) \/ IsOvt(fs[j])) => IsPub(fs[i]),
                 NEW j \in DOMAIN S, j > i + 1, IsTrans(S[j]) \/ IsOvt(S[j])
          PROVE  IsPub(fs[i])
      BY <2>1, <3>2
    <3> QED BY <3>1, <3>2
  <2>7. (\E j \in DOMAIN S : j > i + 1 /\ Locked(S[j]))
          <=> \E j \in DOMAIN fs : j > i /\ Locked(fs[j])
    BY <2>1, <2>2
  <2> DEFINE A == \A j \in DOMAIN S : j > i + 1 /\ (IsTrans(S[j]) \/ IsOvt(S[j])) => IsPub(fs[i])
             B == \A j \in DOMAIN S : j <= i + 1
             C == \E j \in DOMAIN S : j > i + 1 /\ Locked(S[j])
             D == (i + 1) + 1 \in DOMAIN S
             E == S[(i + 1) + 1]
             f == fs[i]
  <2>8. PlaceOK(S, i + 1, N) <=>
          /\ A /\ (IsOvt(f) <=> D /\ Overticks(E, N)) /\ (IsOvt(f) => f.timer = E.cur)
          /\ (MainOnly /\ IsSm(f) => B) /\ (Locked(f) => (f.level <=> C))
    BY <2>0, Zenon DEF PlaceOK
  <2> HIDE DEF A, B, C, D, E, f
  <2>9. PlaceOK(fs, i, N) <=>
          /\ A /\ (IsOvt(f) <=> D /\ Overticks(fs[i + 1], N))
          /\ (IsOvt(f) => f.timer = fs[i + 1].cur)
          /\ (MainOnly /\ IsSm(f) => B) /\ (Locked(f) => (f.level <=> C))
    BY <2>3, <2>5, <2>6, <2>7 DEF PlaceOK, A, B, C, D, f
  <2>10. D => E = fs[i + 1]
    BY <2>3, <2>4 DEF D, E
  <2> QED BY <2>8, <2>9, <2>10
<1> QED BY <1>2, <1>3

LEMMA StackPush ==
  ASSUME NEW fs \in Seq(AllFrames), NEW g \in AllFrames, NEW S, S = <<g>> \o fs,
         NEW q, NEW c, NEW r, NEW L, NEW N
  PROVE  /\ StackOK(S, q, c, r, L, N)
              <=> StackOK(fs, q, c, r, L, N) /\ SmFrameOK(g, q, c, r, L) /\ MayTop(g, fs, N)
         /\ AnyLocked(S) <=> Locked(g) \/ AnyLocked(fs)
         /\ \A A : Moving(S, A) <=> (IsTrans(g) /\ g.at \in A) \/ Moving(fs, A)
         /\ \A t : Busy(S, t) <=> Calls(g, t) \/ Busy(fs, t)
<1>1. /\ S[1] = g /\ 1 \in DOMAIN S
      /\ DOMAIN fs \subseteq Nat \ {0} /\ DOMAIN S \subseteq Nat \ {0}
      /\ \A i \in Nat \ {0} : i \in DOMAIN fs <=> i + 1 \in DOMAIN S
      /\ \A i \in DOMAIN fs : S[i + 1] = fs[i]
      /\ \A i \in DOMAIN S : i # 1 => i - 1 \in DOMAIN fs /\ S[i] = fs[i - 1]
  <2>1. Shifted(S, g, fs)
    BY PushPlaces
  <2> QED BY <2>1, Zenon DEF Shifted
<1>2. /\ PlaceOK(S, 1, N) <=> MayTop(g, fs, N)
      /\ \A i \in DOMAIN fs : PlaceOK(S, i + 1, N) <=> PlaceOK(fs, i, N)
  BY PushPlaceOK
<1>3. \A i \in DOMAIN fs : i + 1 \in DOMAIN S /\ S[i + 1] = fs[i]
  BY <1>1
<1>4. \A i \in DOMAIN S : i = 1 \/ \E j \in DOMAIN fs : i = j + 1 /\ S[i] = fs[j]
  <2>1. ASSUME NEW i \in DOMAIN S, i # 1
        PROVE  \E j \in DOMAIN fs : i = j + 1 /\ S[i] = fs[j]
    <3>1. i - 1 \in DOMAIN fs /\ S[i] = fs[i - 1] /\ i = (i - 1) + 1
      BY <1>1, <2>1
    <3> QED BY <3>1
  <2> QED BY <2>1
<1>5. StackOK(S, q, c, r, L, N)
        <=> StackOK(fs, q, c, r, L, N) /\ SmFrameOK(g, q, c, r, L) /\ MayTop(g, fs, N)
  <2>1. ASSUME StackOK(S, q, c, r, L, N)
        PROVE  StackOK(fs, q, c, r, L, N) /\ SmFrameOK(g, q, c, r, L) /\ MayTop(g, fs, N)
    <3>1. SmFrameOK(g, q, c, r, L) /\ MayTop(g, fs, N)
      BY <1>1, <1>2, <2>1 DEF StackOK
    <3>2. ASSUME NEW i \in DOMAIN fs PROVE SmFrameOK(fs[i], q, c, r, L) /\ PlaceOK(fs, i, N)
      BY <1>2, <1>3, <2>1 DEF StackOK
    <3> QED BY <3>1, <3>2 DEF StackOK
  <2>2. ASSUME StackOK(fs, q, c, r, L, N), SmFrameOK(g, q, c, r, L), MayTop(g, fs, N),
               NEW i \in DOMAIN S
        PROVE  SmFrameOK(S[i], q, c, r, L) /\ PlaceOK(S, i, N)
    <3>1. CASE i = 1
      BY <1>1, <1>2, <2>2, <3>1
    <3>2. CASE i # 1
      <4>1. PICK j \in DOMAIN fs : i = j + 1 /\ S[i] = fs[j]
        BY <1>4, <3>2
      <4>2. SmFrameOK(fs[j], q, c, r, L) /\ PlaceOK(fs, j, N)
        BY <2>2 DEF StackOK
      <4> QED BY <1>2, <4>1, <4>2
    <3> QED BY <3>1, <3>2
  <2> QED BY <2>1, <2>2 DEF StackOK
<1>6. AnyLocked(S) <=> Locked(g) \/ AnyLocked(fs)
  BY <1>1, <1>3, <1>4 DEF AnyLocked
<1>7. ASSUME NEW A PROVE Moving(S, A) <=> (IsTrans(g) /\ g.at \in A) \/ Moving(fs, A)
  BY <1>1, <1>3, <1>4 DEF Moving
<1>8. ASSUME NEW t PROVE Busy(S, t) <=> Calls(g, t) \/ Busy(fs, t)
  BY <1>1, <1>3, <1>4 DEF Busy
<1> QED BY <1>5, <1>6, <1>7, <1>8

\* Breaking frames of a stack, with queues that change.
LEMMA StackBroken ==
  ASSUME NEW fs \in Seq(AllFrames), NEW I, NEW S, S = Break(fs, I),
         NEW q1, NEW q2, NEW c, NEW r, NEW L, NEW N, StackOK(fs, q1, c, r, L, N),
         \A i \in DOMAIN fs :
           /\ IsExec(fs[i]) /\ Locked(fs[i]) /\ fs[i].more /\ i \notin I
           /\ q1[fs[i].srv] # <<>>
           => q2[fs[i].srv] # <<>>
  PROVE  /\ S \in Seq(AllFrames) /\ StackOK(S, q2, c, r, L, N)
         /\ AnyLocked(S) <=> AnyLocked(fs)
         /\ \A A : Moving(S, A) <=> Moving(fs, A)
         /\ \A t : Busy(S, t) <=> Busy(fs, t)
         /\ \A g : MayTop(g, S, N) <=> MayTop(g, fs, N)
<1>1. /\ S \in Seq(AllFrames) /\ DOMAIN S = DOMAIN fs
      /\ \A i \in DOMAIN fs : SmAlike(fs[i], S[i]) /\ (S[i].ok <=> fs[i].ok /\ i \notin I)
  BY SmBreakFrames
<1>2. DOMAIN fs = 1 .. Len(fs) /\ Len(fs) \in Nat /\ \A i \in DOMAIN fs : fs[i] \in AllFrames
  BY LenProperties, ElementOfSeq
<1>3. \A i \in DOMAIN fs :
        /\ Kind(fs[i], S[i])
        /\ Locked(fs[i]) <=> Locked(S[i])
        /\ S[i].level = fs[i].level
        /\ \A M : Overticks(fs[i], M) <=> Overticks(S[i], M)
        /\ \A t : Calls(fs[i], t) <=> Calls(S[i], t)
        /\ IsOvt(fs[i]) => S[i].timer = fs[i].timer
        /\ IsTmr(fs[i]) => S[i].cur = fs[i].cur
        /\ IsTrans(fs[i]) => S[i].at = fs[i].at
  BY <1>1 DEF SmAlike, Kind, Locked, Overticks, Calls
<1>4. ASSUME NEW i \in DOMAIN fs PROVE SmFrameOK(S[i], q2, c, r, L)
  <2> DEFINE f == fs[i]
             g == S[i]
  <2>1. f \in AllFrames /\ SmAlike(f, g) /\ (g.ok <=> f.ok /\ i \notin I)
    BY <1>1, <1>2
  <2>2. SmFrameOK(f, q1, c, r, L)
    BY DEF StackOK
  <2>3. IsExec(f) /\ g.ok /\ q1[f.srv] # <<>> /\ Locked(f) /\ f.more => q2[f.srv] # <<>>
    BY <2>1
  <2> HIDE DEF f, g
  <2> QED BY <2>1, <2>2, <2>3, SmFrameKept DEF g
<1>5. ASSUME NEW i \in DOMAIN fs PROVE PlaceOK(S, i, N)
  <2>1. PlaceOK(fs, i, N)
    BY DEF StackOK
  <2>2. IsOvt(fs[i]) => i + 1 \in DOMAIN fs /\ IsTmr(fs[i + 1])
    BY <2>1 DEF PlaceOK, Overticks
  <2>3. i + 1 \in DOMAIN fs => (Overticks(fs[i + 1], N) <=> Overticks(S[i + 1], N))
    BY <1>3
  <2>4. IsOvt(fs[i]) => S[i].timer = S[i + 1].cur
    BY <1>3, <2>1, <2>2 DEF PlaceOK
  <2>5. (\E j \in DOMAIN S : j > i /\ Locked(S[j])) <=> \E j \in DOMAIN fs : j > i /\ Locked(fs[j])
    BY <1>1, <1>3
  <2>6. \A j \in DOMAIN S : j > i /\ (IsTrans(S[j]) \/ IsOvt(S[j])) => IsPub(S[i])
    BY <1>1, <1>3, <2>1 DEF PlaceOK, Kind
  <2>7. Locked(S[i]) => (S[i].level <=> \E j \in DOMAIN S : j > i /\ Locked(S[j]))
    BY <1>3, <2>1, <2>5 DEF PlaceOK
  <2>8. IsOvt(S[i]) <=> i + 1 \in DOMAIN S /\ Overticks(S[i + 1], N)
    BY <1>1, <1>3, <2>1, <2>3 DEF PlaceOK, Kind
  <2>9. MainOnly /\ IsSm(S[i]) => \A j \in DOMAIN S : j <= i
    BY <1>1, <1>3, <2>1 DEF PlaceOK, Kind
  <2>10. IsOvt(S[i]) => S[i].timer = S[i + 1].cur
    BY <1>3, <2>4 DEF Kind
  <2> QED BY <2>6, <2>7, <2>8, <2>9, <2>10 DEF PlaceOK
<1>6. StackOK(S, q2, c, r, L, N)
  BY <1>1, <1>4, <1>5 DEF StackOK
<1>7. AnyLocked(S) <=> AnyLocked(fs)
  BY <1>1, <1>3 DEF AnyLocked
<1>8. ASSUME NEW A PROVE Moving(S, A) <=> Moving(fs, A)
  BY <1>1, <1>3 DEF Moving, Kind
<1>9. ASSUME NEW t PROVE Busy(S, t) <=> Busy(fs, t)
  BY <1>1, <1>3 DEF Busy
<1>10. ASSUME NEW g PROVE MayTop(g, S, N) <=> MayTop(g, fs, N)
  <2>1. 1 \in DOMAIN fs => /\ Overticks(fs[1], N) <=> Overticks(S[1], N)
                           /\ IsTmr(fs[1]) => S[1].cur = fs[1].cur
    BY <1>3
  <2>2. (\A j \in DOMAIN S : IsTrans(S[j]) \/ IsOvt(S[j]) => IsPub(g))
          <=> \A j \in DOMAIN fs : IsTrans(fs[j]) \/ IsOvt(fs[j]) => IsPub(g)
    BY <1>1, <1>3 DEF Kind
  <2>3. (IsOvt(g) <=> 1 \in DOMAIN S /\ Overticks(S[1], N))
          <=> (IsOvt(g) <=> 1 \in DOMAIN fs /\ Overticks(fs[1], N))
    BY <1>1, <2>1
  <2>4. 1 \in DOMAIN fs /\ Overticks(fs[1], N) => S[1].cur = fs[1].cur
    BY <2>1 DEF Overticks
  <2>5. DOMAIN S = DOMAIN fs
    BY <1>1
  <2> QED BY <1>7, <2>2, <2>3, <2>4, <2>5 DEF MayTop
<1> QED BY <1>1, <1>6, <1>7, <1>8, <1>9, <1>10

\* The stack stays and what its frames speak of changes.
LEMMA StackChanged ==
  ASSUME NEW fs \in Seq(AllFrames),
         NEW q, NEW c, NEW r, NEW L, NEW N, StackOK(fs, q, c, r, L, N),
         NEW q2, NEW c2, NEW r2, NEW L2, NEW N2,
         \A s \in Servers : q[s] # <<>> => q2[s] # <<>>,
         c # "none" => c2 # "none",
         r2 \/ (c2 = c /\ r2 = r) \/ \A i \in DOMAIN fs : ~IsSm(fs[i]) \/ ~MainOnly,
         \A i \in DOMAIN fs : IsTmr(fs[i]) /\ fs[i].pc = "cb" =>
           /\ fs[i].cur \in L => fs[i].cur \in L2
           /\ fs[i].cur \in N <=> fs[i].cur \in N2
  PROVE  /\ StackOK(fs, q2, c2, r2, L2, N2)
         /\ \A g : MayTop(g, fs, N) <=> MayTop(g, fs, N2)
<1>1. DOMAIN fs = 1 .. Len(fs) /\ Len(fs) \in Nat /\ \A i \in DOMAIN fs : fs[i] \in AllFrames
  BY LenProperties, ElementOfSeq
<1>2. \A i \in DOMAIN fs : Overticks(fs[i], N) <=> Overticks(fs[i], N2)
  BY DEF Overticks
<1>3. ASSUME NEW i \in DOMAIN fs PROVE SmFrameOK(fs[i], q2, c2, r2, L2)
  <2> DEFINE f == fs[i]
  <2>1. f \in AllFrames /\ SmAlike(f, f)
    BY <1>1 DEF SmAlike, Kind
  <2>2. SmFrameOK(f, q, c, r, L)
    BY DEF StackOK
  <2>3. IsExec(f) => f.srv \in Servers
    BY <2>1, SmFrameKinds DEF ExecFrames
  <2>4. IsExec(f) /\ f.ok /\ q[f.srv] # <<>> /\ Locked(f) /\ f.more => q2[f.srv] # <<>>
    BY <2>3
  <2>5. MainOnly /\ IsSm(f) => r2 \/ (c2 = c /\ r2 = r)
    OBVIOUS
  <2>6. IsTmr(f) /\ f.pc = "cb" /\ f.cur \in L => f.cur \in L2
    OBVIOUS
  <2> HIDE DEF f
  <2> QED BY <2>1, <2>2, <2>4, <2>5, <2>6, SmFrameKept DEF f
<1>4. ASSUME NEW i \in DOMAIN fs PROVE PlaceOK(fs, i, N2)
  <2>1. PlaceOK(fs, i, N)
    BY DEF StackOK
  <2>2. i + 1 \in DOMAIN fs => (Overticks(fs[i + 1], N) <=> Overticks(fs[i + 1], N2))
    BY <1>2
  <2> QED BY <2>1, <2>2 DEF PlaceOK
<1>5. ASSUME NEW g PROVE MayTop(g, fs, N) <=> MayTop(g, fs, N2)
  <2>1. 1 \in DOMAIN fs => (Overticks(fs[1], N) <=> Overticks(fs[1], N2))
    BY <1>2
  <2> QED BY <2>1 DEF MayTop
<1> QED BY <1>3, <1>4, <1>5 DEF StackOK

\* The empty stack.
LEMMA StackEmpty ==
  ASSUME NEW fs, fs = <<>>
  PROVE  /\ fs \in Seq(AllFrames)
         /\ \A q, c, r, L, N : StackOK(fs, q, c, r, L, N)
         /\ ~AnyLocked(fs) /\ \A A : ~Moving(fs, A)
         /\ \A t : ~Busy(fs, t)
<1>1. DOMAIN fs = {} /\ fs \in Seq(AllFrames)
  BY EmptySeq
<1> QED BY <1>1 DEF StackOK, AnyLocked, Moving, Busy

\* The first frame and the others.
LEMMA StackSplit ==
  ASSUME stack \in Seq(AllFrames), stack # <<>>
  PROVE  /\ Top \in AllFrames /\ Tail(stack) \in Seq(AllFrames)
         /\ stack = <<Top>> \o Tail(stack) /\ 1 \in DOMAIN stack
         /\ \A x \in AllFrames : [stack EXCEPT ![1] = x] = <<x>> \o Tail(stack)
<1>1. /\ Top \in AllFrames /\ Tail(stack) \in Seq(AllFrames)
      /\ stack = <<Top>> \o Tail(stack)
      /\ \A x \in AllFrames : [stack EXCEPT ![1] = x] = <<x>> \o Tail(stack)
  BY SplitSeq DEF Top
<1>2. 1 \in DOMAIN stack
  BY TailFrames
<1> QED BY <1>1, <1>2

-----------------------------------------------------------------------------
(***************************************************************************)
(* The ways in which a step changes the stack.  The queues q and           *)
(* re_execute r may be those after the step.                               *)
(***************************************************************************)
\* The stack fs with the mask m is right for the states and timers of now.
Rests(fs, m, q, r) ==
  /\ fs \in Seq(AllFrames) /\ m \in BOOLEAN
  /\ StackOK(fs, q, current, r, LiveTimers, NodeTimers)
  /\ m <=> AnyLocked(fs)

LEMMA StackRests ==
  ASSUME SmTypes, StackInv
  PROVE  Rests(stack, masked, queue, re)
BY DEF SmTypes, StackInv, Rests

\* The state changes under a stack that is right.
LEMMA RestsKept ==
  ASSUME NEW q, NEW r, Rests(stack', masked', q, r),
         \A s \in Servers : q[s] # <<>> => queue'[s] # <<>>,
         current # "none" => current' # "none",
         \/ re' \/ (current' = current /\ re' = r)
         \/ \A i \in DOMAIN stack' : ~IsSm(stack'[i]) \/ ~MainOnly,
         \A i \in DOMAIN stack' : IsTmr(stack'[i]) /\ stack'[i].pc = "cb" =>
           /\ stack'[i].cur \in LiveTimers => stack'[i].cur \in LiveTimers'
           /\ stack'[i].cur \in NodeTimers <=> stack'[i].cur \in NodeTimers'
  PROVE  StackInv' /\ stack' \in Seq(AllFrames) /\ masked' \in BOOLEAN
<1> DEFINE fs == stack'
           q2 == queue'
           c2 == current'
           r2 == re'
           L2 == LiveTimers'
           N2 == NodeTimers'
<1>1. /\ fs \in Seq(AllFrames) /\ masked' \in BOOLEAN
      /\ StackOK(fs, q, current, r, LiveTimers, NodeTimers)
      /\ masked' <=> AnyLocked(fs)
  BY DEF Rests
<1>2. /\ \A s \in Servers : q[s] # <<>> => q2[s] # <<>>
      /\ current # "none" => c2 # "none"
      /\ r2 \/ (c2 = current /\ r2 = r) \/ \A i \in DOMAIN fs : ~IsSm(fs[i]) \/ ~MainOnly
      /\ \A i \in DOMAIN fs : IsTmr(fs[i]) /\ fs[i].pc = "cb" =>
           /\ fs[i].cur \in LiveTimers => fs[i].cur \in L2
           /\ fs[i].cur \in NodeTimers <=> fs[i].cur \in N2
  OBVIOUS
<1> HIDE DEF fs, q2, c2, r2, L2, N2
<1>3. StackOK(fs, q2, c2, r2, L2, N2)
  BY <1>1, <1>2, StackChanged
<1> QED BY <1>1, <1>3 DEF StackInv, fs, q2, c2, r2, L2, N2

\* The same when neither states nor timers change.
LEMMA RestsStays ==
  ASSUME NEW q, NEW r, Rests(stack', masked', q, r), UNCHANGED <<current, timer, node>>,
         queue' = q \/ (q = queue /\ \A s \in Servers : queue[s] # <<>> => queue'[s] # <<>>),
         re' = r
  PROVE  StackInv' /\ stack' \in Seq(AllFrames) /\ masked' \in BOOLEAN
<1>1. LiveTimers' = LiveTimers /\ NodeTimers' = NodeTimers
  BY DEF LiveTimers, NodeTimers, IsNode, NoNode
<1>2. \A s \in Servers : q[s] # <<>> => queue'[s] # <<>>
  OBVIOUS
<1> QED BY <1>1, <1>2, RestsKept

\* The first frame becomes g, the others fs.
LEMMA Replaced ==
  ASSUME SmTypes, StackInv, stack # <<>>, ~IsOvt(Top), NEW q, NEW r,
         NEW fs \in Seq(AllFrames), StackOK(fs, q, current, r, LiveTimers, NodeTimers),
         AnyLocked(fs) <=> AnyLocked(Tail(stack)),
         \A f : MayTop(f, fs, NodeTimers) <=> MayTop(f, Tail(stack), NodeTimers),
         NEW g \in AllFrames, Kind(Top, g), SmFrameOK(g, q, current, r, LiveTimers),
         Locked(Top) => Locked(g) /\ g.level = Top.level /\ masked' = masked,
         ~Locked(Top) => IF Locked(g) THEN g.level = masked /\ masked' = TRUE
                                      ELSE masked' = masked,
         stack' = <<g>> \o fs
  PROVE  Rests(stack', masked', q, r)
<1> DEFINE t == Tail(stack)
           N == NodeTimers
           L == LiveTimers
<1>1. Top \in AllFrames /\ t \in Seq(AllFrames) /\ stack = <<Top>> \o t
  BY StackSplit DEF SmTypes
<1>2. /\ StackOK(stack, queue, current, re, L, N) /\ (masked <=> AnyLocked(stack))
      /\ masked \in BOOLEAN
  BY DEF StackInv, SmTypes
<1>3. \A f : MayTop(f, fs, N) <=> MayTop(f, t, N)
  OBVIOUS
<1>4. StackOK(fs, q, current, r, L, N) /\ SmFrameOK(g, q, current, r, L)
  OBVIOUS
<1>5. AnyLocked(fs) <=> AnyLocked(t)
  OBVIOUS
<1> HIDE DEF t, N, L
<1>6. /\ MayTop(Top, t, N)
      /\ AnyLocked(stack) <=> Locked(Top) \/ AnyLocked(t)
  BY <1>1, <1>2, StackPush
<1>7. MayTop(g, t, N)
  BY <1>2, <1>6 DEF MayTop, Kind
<1>8. MayTop(g, fs, N)
  BY <1>3, <1>7
<1> DEFINE S == <<g>> \o fs
<1>9. S \in Seq(AllFrames)
  BY PushPlaces
<1>10. StackOK(S, q, current, r, L, N) /\ (AnyLocked(S) <=> Locked(g) \/ AnyLocked(fs))
  BY <1>4, <1>8, StackPush
<1>11. stack' = S
  OBVIOUS
<1> HIDE DEF S
<1>12. masked' \in BOOLEAN /\ (masked' <=> AnyLocked(S))
  BY <1>2, <1>5, <1>6, <1>10
<1> QED BY <1>9, <1>10, <1>11, <1>12 DEF Rests, N, L

\* The same when the others stay.
LEMMA Replaces ==
  ASSUME SmTypes, StackInv, stack # <<>>, ~IsOvt(Top),
         NEW g \in AllFrames, Kind(Top, g), SmFrameOK(g, queue, current, re, LiveTimers),
         Locked(Top) => Locked(g) /\ g.level = Top.level /\ masked' = masked,
         ~Locked(Top) => IF Locked(g) THEN g.level = masked /\ masked' = TRUE
                                      ELSE masked' = masked,
         stack' = <<g>> \o Tail(stack)
  PROVE  Rests(stack', masked', queue, re)
<1>1. Top \in AllFrames /\ Tail(stack) \in Seq(AllFrames) /\ stack = <<Top>> \o Tail(stack)
  BY StackSplit DEF SmTypes
<1>2. StackOK(Tail(stack), queue, current, re, LiveTimers, NodeTimers)
  BY <1>1, StackPush DEF StackInv
<1> QED BY <1>1, <1>2, Replaced

\* What else happens on the stack when the first frame changes.
LEMMA ReplacedPlaces ==
  ASSUME SmTypes, stack # <<>>, NEW fs \in Seq(AllFrames), NEW g \in AllFrames,
         \A A : Moving(fs, A) <=> Moving(Tail(stack), A),
         \A t : Busy(fs, t) <=> Busy(Tail(stack), t),
         stack' = <<g>> \o fs
  PROVE  /\ \A A : Moving(stack', A) <=> (IsTrans(g) /\ g.at \in A) \/ Moving(Tail(stack), A)
         /\ \A A : Moving(stack, A) <=> (IsTrans(Top) /\ Top.at \in A) \/ Moving(Tail(stack), A)
         /\ \A t : Busy(stack', t) <=> Calls(g, t) \/ Busy(Tail(stack), t)
         /\ \A t : Busy(stack, t) <=> Calls(Top, t) \/ Busy(Tail(stack), t)
<1>1. Top \in AllFrames /\ Tail(stack) \in Seq(AllFrames) /\ stack = <<Top>> \o Tail(stack)
  BY StackSplit DEF SmTypes
<1> DEFINE S == <<g>> \o fs
<1>2. /\ \A A : Moving(S, A) <=> (IsTrans(g) /\ g.at \in A) \/ Moving(fs, A)
      /\ \A t : Busy(S, t) <=> Calls(g, t) \/ Busy(fs, t)
  BY StackPush
<1>3. /\ \A A : Moving(stack, A) <=> (IsTrans(Top) /\ Top.at \in A) \/ Moving(Tail(stack), A)
      /\ \A t : Busy(stack, t) <=> Calls(Top, t) \/ Busy(Tail(stack), t)
  BY <1>1, StackPush
<1>4. stack' = S
  OBVIOUS
<1> HIDE DEF S
<1> QED BY <1>2, <1>3, <1>4

\* A function returns.
LEMMA Popped ==
  ASSUME SmTypes, StackInv, stack # <<>>, stack' = Tail(stack),
         masked' = IF Locked(Top) THEN Top.level ELSE masked
  PROVE  /\ Rests(stack', masked', queue, re)
         /\ \A A : Moving(stack, A) <=> (IsTrans(Top) /\ Top.at \in A) \/ Moving(stack', A)
         /\ \A t : Busy(stack, t) <=> Calls(Top, t) \/ Busy(stack', t)
<1> DEFINE t == Tail(stack)
           N == NodeTimers
           L == LiveTimers
<1>1. Top \in AllFrames /\ t \in Seq(AllFrames) /\ stack = <<Top>> \o t
  BY StackSplit DEF SmTypes
<1>2. /\ StackOK(stack, queue, current, re, L, N) /\ (masked <=> AnyLocked(stack))
      /\ masked \in BOOLEAN
  BY DEF StackInv, SmTypes
<1>3. stack' = t
  OBVIOUS
<1> HIDE DEF t, N, L
<1>4. /\ StackOK(t, queue, current, re, L, N) /\ MayTop(Top, t, N)
      /\ AnyLocked(stack) <=> Locked(Top) \/ AnyLocked(t)
      /\ \A A : Moving(stack, A) <=> (IsTrans(Top) /\ Top.at \in A) \/ Moving(t, A)
      /\ \A u : Busy(stack, u) <=> Calls(Top, u) \/ Busy(t, u)
  BY <1>1, <1>2, StackPush
<1>5. masked' \in BOOLEAN /\ (masked' <=> AnyLocked(t))
  BY <1>1, <1>2, <1>4, SmFrameKinds DEF MayTop
<1> QED BY <1>1, <1>3, <1>4, <1>5 DEF Rests, N, L

\* A function is entered with interrupts as they are.
LEMMA Pushes ==
  ASSUME SmTypes, StackInv, NEW g \in AllFrames, ~Locked(g), MayTop(g, stack, NodeTimers),
         SmFrameOK(g, queue, current, re, LiveTimers),
         stack' = <<g>> \o stack, masked' = masked
  PROVE  /\ Rests(stack', masked', queue, re)
         /\ \A A : Moving(stack', A) <=> (IsTrans(g) /\ g.at \in A) \/ Moving(stack, A)
         /\ \A t : Busy(stack', t) <=> Calls(g, t) \/ Busy(stack, t)
<1> DEFINE N == NodeTimers
           L == LiveTimers
           S == <<g>> \o stack
<1>1. /\ StackOK(stack, queue, current, re, L, N) /\ (masked <=> AnyLocked(stack))
      /\ masked \in BOOLEAN /\ stack \in Seq(AllFrames)
  BY DEF StackInv, SmTypes
<1>2. MayTop(g, stack, N) /\ SmFrameOK(g, queue, current, re, L)
  OBVIOUS
<1> HIDE DEF N, L
<1>3. S \in Seq(AllFrames)
  BY <1>1, PushPlaces
<1>4. /\ StackOK(S, queue, current, re, L, N)
      /\ AnyLocked(S) <=> Locked(g) \/ AnyLocked(stack)
      /\ \A A : Moving(S, A) <=> (IsTrans(g) /\ g.at \in A) \/ Moving(stack, A)
      /\ \A u : Busy(S, u) <=> Calls(g, u) \/ Busy(stack, u)
  BY <1>1, <1>2, StackPush
<1>5. stack' = S
  OBVIOUS
<1> HIDE DEF S
<1>6. masked' \in BOOLEAN /\ (masked' <=> AnyLocked(S))
  BY <1>1, <1>4
<1> QED BY <1>3, <1>4, <1>5, <1>6 DEF Rests, N, L

-----------------------------------------------------------------------------
(***************************************************************************)
(* The steps of the event bus.                                             *)
(***************************************************************************)
\* Transitions, and callbacks of timers, are where they were.
SamePlaces ==
  /\ \A A : Moving(stack', A) <=> Moving(stack, A)
  /\ \A t : Busy(stack', t) <=> Busy(stack, t)

\* What such a step does for the state machine: only a started server is given
\* a message.
BusStep ==
  /\ StackInv' /\ stack' \in Seq(AllFrames) /\ masked' \in BOOLEAN /\ SamePlaces
  /\ UNCHANGED <<server, mode>> /\ queue' \in [Servers -> Seq(Msgs)]
  /\ \A s \in Servers : queue[s] = <<>> => queue'[s] = <<>> \/ server[s] = "started"

LEMMA SmOnTop ==
  ASSUME SmTypes, StackInv
  PROVE  OnTop
<1>1. masked \in BOOLEAN /\ queue \in [Servers -> Seq(Msgs)]
  BY DEF SmTypes
<1>2. ASSUME stack # <<>>, IsPub(Top) \/ IsExec(Top)
      PROVE  /\ Top \in Frames /\ FrameOK(Top, queue)
             /\ \A x \in Frames : [stack EXCEPT ![1] = x] = <<x>> \o Tail(stack)
  <2>1. /\ Top \in AllFrames /\ 1 \in DOMAIN stack
        /\ \A x \in AllFrames : [stack EXCEPT ![1] = x] = <<x>> \o Tail(stack)
    BY <1>2, StackSplit DEF SmTypes
  <2>2. Frames \subseteq AllFrames
    BY DEF Frames, AllFrames
  <2>3. Top \in Frames
    BY <1>2, <2>1, SmFrameKinds DEF Frames
  <2>4. FrameOK(Top, queue)
    BY <1>2, <2>1 DEF StackInv, StackOK, SmFrameOK, Top
  <2> QED BY <2>1, <2>2, <2>3, <2>4
<1> QED BY <1>1, <1>2 DEF OnTop

\* Publications and drains are neither of the other kinds.
LEMMA BusFrames ==
  ASSUME NEW f \in Frames
  PROVE  /\ f \in AllFrames /\ ~IsTrans(f) /\ ~IsTmr(f) /\ ~IsSm(f) /\ ~IsOvt(f)
         /\ \A A : ~(IsTrans(f) /\ f.at \in A)
         /\ \A t : ~Calls(f, t)
         /\ \A q, c, r, L : SmFrameOK(f, q, c, r, L) <=> FrameOK(f, q) /\ (IsPub(f) => f.pc # "cb")
         /\ \A g \in Frames : (IsPub(f) <=> IsPub(g)) => Kind(f, g)
<1>1. ASSUME NEW g \in Frames
      PROVE  /\ g \in AllFrames /\ ~IsTrans(g) /\ ~IsTmr(g) /\ ~IsSm(g) /\ ~IsOvt(g)
             /\ IsPub(g) <=> ~IsExec(g)
  BY DEF Frames, AllFrames, PubFrames, ExecFrames, IsTrans, IsTmr, IsSm, IsOvt, IsPub, IsExec
<1> QED BY <1>1 DEF Calls, Kind, SmFrameOK

\* The function on top goes on at g.
LEMMA BusGoes ==
  ASSUME SmTypes, StackInv, UNCHANGED <<current, re, timer, node, server, mode>>,
         stack # <<>>, Top \in Frames, NEW g \in Frames, IsPub(Top) <=> IsPub(g),
         FrameOK(g, queue), IsPub(g) => g.pc # "cb",
         Locked(Top) => Locked(g) /\ g.level = Top.level /\ masked' = masked,
         ~Locked(Top) => Locked(g) /\ g.level = masked /\ masked' = TRUE,
         stack' = <<g>> \o Tail(stack),
         queue' \in [Servers -> Seq(Msgs)],
         \A s \in Servers : queue[s] # <<>> => queue'[s] # <<>>,
         \A s \in Servers : queue[s] = <<>> => queue'[s] = <<>> \/ server[s] = "started"
  PROVE  BusStep
<1>1. /\ g \in AllFrames /\ Kind(Top, g) /\ SmFrameOK(g, queue, current, re, LiveTimers)
      /\ ~IsOvt(Top)
  BY BusFrames
<1>2. Rests(stack', masked', queue, re)
  BY <1>1, Replaces
<1>3. StackInv' /\ stack' \in Seq(AllFrames) /\ masked' \in BOOLEAN
  BY <1>2, RestsStays
<1>4. Tail(stack) \in Seq(AllFrames)
  BY StackSplit DEF SmTypes
<1>5. /\ \A A : Moving(stack', A) <=> (IsTrans(g) /\ g.at \in A) \/ Moving(Tail(stack), A)
      /\ \A A : Moving(stack, A) <=> (IsTrans(Top) /\ Top.at \in A) \/ Moving(Tail(stack), A)
      /\ \A t : Busy(stack', t) <=> Calls(g, t) \/ Busy(Tail(stack), t)
      /\ \A t : Busy(stack, t) <=> Calls(Top, t) \/ Busy(Tail(stack), t)
  BY <1>1, <1>4, ReplacedPlaces
<1>6. SamePlaces
  BY <1>5, BusFrames DEF SamePlaces
<1> QED BY <1>3, <1>6 DEF BusStep

\* It returns.
LEMMA BusReturns ==
  ASSUME SmTypes, StackInv, UNCHANGED <<current, re, timer, node, server, mode, queue>>,
         stack # <<>>, Top \in Frames, stack' = Tail(stack),
         masked' = IF Locked(Top) THEN Top.level ELSE masked
  PROVE  BusStep
<1>1. /\ Rests(stack', masked', queue, re)
      /\ \A A : Moving(stack, A) <=> (IsTrans(Top) /\ Top.at \in A) \/ Moving(stack', A)
      /\ \A t : Busy(stack, t) <=> Calls(Top, t) \/ Busy(stack', t)
  BY Popped
<1>2. StackInv' /\ stack' \in Seq(AllFrames) /\ masked' \in BOOLEAN
  BY <1>1, RestsStays
<1>3. SamePlaces
  BY <1>1, BusFrames DEF SamePlaces
<1>4. queue' \in [Servers -> Seq(Msgs)]
  BY DEF SmTypes
<1> QED BY <1>2, <1>3, <1>4 DEF BusStep

LEMMA BusPublishes ==
  ASSUME SmTypes, StackInv, UNCHANGED <<current, re, timer, node>>,
         \/ PublishLock
         \/ \E s \in Servers : PublishSkip(s) \/ PublishSync(s) \/ PublishSave(s)
  PROVE  BusStep
<1>1. OnTop
  BY SmOnTop
<1>2. CASE PublishLock
  <2>1. PICK m \in Msgs, g \in PubFrames :
           /\ stack # <<>> /\ Top \in PubFrames /\ Top.pc = "check"
           /\ g.pc = "loop" /\ g.msg = m /\ g.level = masked
           /\ stack' = <<g>> \o Tail(stack) /\ masked' = TRUE
           /\ UNCHANGED <<map, server, subs, mode, queue>>
    BY <1>1, <1>2, PublishLockForm
  <2>2. /\ Top \in Frames /\ g \in Frames /\ IsPub(Top) /\ IsPub(g)
        /\ ~Locked(Top) /\ Locked(g)
    BY <2>1 DEF Frames, PubFrames, IsPub, Locked
  <2>3. FrameOK(g, queue)
    BY <2>1, <2>2, EventAssumption, FrameKinds DEF FrameOK
  <2>4. queue' \in [Servers -> Seq(Msgs)]
    BY <2>1 DEF SmTypes
  <2> QED BY <2>1, <2>2, <2>3, <2>4, BusGoes
<1>3. ASSUME NEW s \in Servers, Reaches(s), NEW g \in PubFrames, PubGoesTo(g, s), g.pc = "loop",
             UNCHANGED <<server, mode>>,
             queue' \in [Servers -> Seq(Msgs)],
             \A t \in Servers : queue[t] # <<>> => queue'[t] # <<>>,
             \A t \in Servers : queue[t] = <<>> => queue'[t] = <<>> \/ server[t] = "started"
      PROVE  BusStep
  <2>1. /\ stack # <<>> /\ Top \in PubFrames /\ IsPub(Top) /\ Locked(Top) /\ Top.msg \in Msgs
    BY <1>1, <1>3, ReachesForm
  <2>2. /\ Locked(g) /\ g.level = Top.level /\ g.msg = Top.msg
        /\ stack' = <<g>> \o Tail(stack) /\ masked' = masked
    BY <1>3 DEF PubGoesTo
  <2>3. Top \in Frames /\ g \in Frames /\ IsPub(g)
    BY <1>3, <2>1 DEF Frames, PubFrames, IsPub
  <2>4. FrameOK(g, queue)
    BY <1>3, <2>1, <2>2, <2>3, EventAssumption, FrameKinds DEF FrameOK
  <2> QED BY <1>3, <2>1, <2>2, <2>3, <2>4, BusGoes
<1>4. ASSUME NEW s \in Servers, PublishSkip(s) PROVE BusStep
  <2>1. Reaches(s) /\ Goto([Top EXCEPT !.cur = s]) /\ UNCHANGED eventVars
    BY <1>4 DEF PublishSkip
  <2>2. PICK g \in PubFrames : PubGoesTo(g, s) /\ g.pc = "loop"
    BY <1>1, <2>1, GoesToForm
  <2>3. UNCHANGED <<server, mode, queue>> /\ queue \in [Servers -> Seq(Msgs)]
    BY <2>1 DEF eventVars, SmTypes
  <2> QED BY <1>3, <2>1, <2>2, <2>3
<1>5. ASSUME NEW s \in Servers, PublishSync(s) PROVE BusStep
  <2>1. Reaches(s) /\ mode[s][Top.ev] = "sync"
    BY <1>5 DEF PublishSync
  <2>2. Top.ev \in Events
    BY <1>1, <2>1, ReachesForm
  <2>3. mode[s][Top.ev] \in {"none", "async"}
    BY <2>2 DEF SmTypes
  <2> QED BY <2>1, <2>3
<1>6. ASSUME NEW s \in Servers, PublishSave(s) PROVE BusStep
  <2>1. /\ Reaches(s) /\ server[s] = "started" /\ Goto([Top EXCEPT !.cur = s])
        /\ queue' = [queue EXCEPT ![s] = Append(queue[s], Top.msg)]
        /\ UNCHANGED <<server, mode>>
    BY <1>6 DEF PublishSave
  <2>2. PICK g \in PubFrames : PubGoesTo(g, s) /\ g.pc = "loop"
    BY <1>1, <2>1, GoesToForm
  <2>3. Top.msg \in Msgs
    BY <1>1, <2>1, ReachesForm
  <2>4. queue \in [Servers -> Seq(Msgs)]
    BY DEF SmTypes
  <2>5. Append(queue[s], Top.msg) \in Seq(Msgs) /\ Append(queue[s], Top.msg) # <<>>
    <3>1. /\ Append(queue[s], Top.msg) \in Seq(Msgs)
          /\ Len(Append(queue[s], Top.msg)) = Len(queue[s]) + 1 /\ Len(queue[s]) \in Nat
      BY <2>3, <2>4, AppendProperties, LenProperties
    <3> QED BY <3>1, EmptySeq
  <2> HIDE DEF Top
  <2>6. /\ queue' \in [Servers -> Seq(Msgs)]
        /\ \A t \in Servers : queue[t] # <<>> => queue'[t] # <<>>
        /\ \A t \in Servers : queue[t] = <<>> => queue'[t] = <<>> \/ server[t] = "started"
    BY <2>1, <2>4, <2>5
  <2> QED BY <1>3, <2>1, <2>2, <2>6
<1> QED BY <1>2, <1>4, <1>5, <1>6

LEMMA BusPops ==
  ASSUME SmTypes, StackInv, UNCHANGED <<current, re, timer, node>>,
         \/ PublishNoMemory \/ PublishDone \/ ExecDone
         \/ \E s \in Servers : PublishSaveFails(s)
  PROVE  BusStep
<1>1. OnTop
  BY SmOnTop
<1>2. /\ stack # <<>> /\ stack' = Tail(stack) /\ Top \in Frames
      /\ masked' = IF Locked(Top) THEN Top.level ELSE masked
      /\ UNCHANGED <<server, mode, queue>>
  <2>1. CASE PublishNoMemory
    <3>1. Pops /\ Leave /\ IsPub(Top) /\ ~Locked(Top) /\ UNCHANGED <<server, mode, queue>>
      BY <1>1, <2>1, PopForms DEF PublishNoMemory
    <3> QED BY <1>1, <3>1, OnTopOf DEF Pops, Leave
  <2>2. CASE PublishDone
    <3>1. Pops /\ sh_isr_enable /\ IsPub(Top) /\ Locked(Top) /\ UNCHANGED <<server, mode, queue>>
      BY <1>1, <2>2, PopForms DEF PublishDone
    <3> QED BY <1>1, <3>1, OnTopOf DEF Pops, sh_isr_enable
  <2>3. CASE ExecDone
    <3>1. Pops /\ sh_isr_enable /\ IsExec(Top) /\ Locked(Top) /\ UNCHANGED <<server, mode, queue>>
      BY <1>1, <2>3, PopForms DEF ExecDone, eventVars
    <3> QED BY <1>1, <3>1, OnTopOf DEF Pops, sh_isr_enable
  <2>4. ASSUME NEW s \in Servers, PublishSaveFails(s)
        PROVE  /\ stack # <<>> /\ stack' = Tail(stack) /\ Top \in Frames
               /\ masked' = IF Locked(Top) THEN Top.level ELSE masked
               /\ UNCHANGED <<server, mode, queue>>
    <3>1. Pops /\ sh_isr_enable /\ IsPub(Top) /\ Locked(Top) /\ UNCHANGED <<server, mode, queue>>
      BY <1>1, <2>4, PopForms DEF PublishSaveFails, eventVars
    <3> QED BY <1>1, <3>1, OnTopOf DEF Pops, sh_isr_enable
  <2> QED BY <2>1, <2>2, <2>3, <2>4
<1> QED BY <1>2, BusReturns

LEMMA BusDrains ==
  ASSUME SmTypes, StackInv, UNCHANGED <<current, re, timer, node>>, ExecLock \/ CbReturn
  PROVE  BusStep
<1>1. OnTop /\ queue \in [Servers -> Seq(Msgs)]
  BY SmOnTop DEF SmTypes
<1>2. CASE ExecLock
  <2>1. PICK g \in ExecFrames :
           /\ stack # <<>> /\ Top \in ExecFrames /\ IsExec(Top) /\ Top.pc = "check"
           /\ g.pc = "loop" /\ g.srv = Top.srv /\ g.msg = "none"
           /\ g.more <=> queue[Top.srv] # <<>>
           /\ g.level = masked
           /\ stack' = <<g>> \o Tail(stack) /\ masked' = TRUE /\ UNCHANGED eventVars
    BY <1>1, <1>2, ExecLockForm
  <2>2. /\ Top \in Frames /\ g \in Frames /\ ~IsPub(Top) /\ ~IsPub(g)
        /\ ~Locked(Top) /\ Locked(g)
    BY <2>1 DEF Frames, ExecFrames, IsPub, Locked
  <2>3. FrameOK(g, queue)
    BY <2>1, <2>2 DEF FrameOK
  <2>4. UNCHANGED <<server, mode, queue>>
    BY <2>1 DEF eventVars
  <2> QED BY <1>1, <2>1, <2>2, <2>3, <2>4, BusGoes
<1>3. CASE CbReturn
  <2>1. /\ stack # <<>> /\ masked' = masked /\ UNCHANGED <<server, mode, queue>>
        /\ \/ IsPub(Top) /\ Top.pc = "cb"
           \/ \E g \in ExecFrames :
                 /\ Top \in ExecFrames /\ IsExec(Top) /\ Top.pc = "cb"
                 /\ g.pc = "loop" /\ g.srv = Top.srv /\ g.msg = "none" /\ g.more = Top.more
                 /\ g.level = Top.level /\ g.ok = Top.ok
                 /\ stack' = <<g>> \o Tail(stack)
    BY <1>1, <1>3, CbReturnForm
  <2>2. ~(IsPub(Top) /\ Top.pc = "cb")
    <3>1. 1 \in DOMAIN stack
      BY <2>1, StackSplit DEF SmTypes
    <3> QED BY <3>1 DEF StackInv, StackOK, SmFrameOK, Top
  <2>3. PICK g \in ExecFrames :
                 /\ Top \in ExecFrames /\ IsExec(Top) /\ Top.pc = "cb"
                 /\ g.pc = "loop" /\ g.srv = Top.srv /\ g.msg = "none" /\ g.more = Top.more
                 /\ g.level = Top.level /\ g.ok = Top.ok
                 /\ stack' = <<g>> \o Tail(stack)
    BY <2>1, <2>2
  <2>4. /\ Top \in Frames /\ g \in Frames /\ ~IsPub(Top) /\ ~IsPub(g)
        /\ Locked(Top) /\ Locked(g)
    BY <2>3 DEF Frames, ExecFrames, IsPub, Locked
  <2>5. FrameOK(Top, queue)
    BY <1>1, <2>1, <2>3, OnTopOf
  <2>6. FrameOK(g, queue)
    BY <2>3, <2>4, <2>5 DEF FrameOK
  <2> QED BY <1>1, <2>1, <2>3, <2>4, <2>6, BusGoes
<1> QED BY <1>2, <1>3

LEMMA BusTakes ==
  ASSUME SmTypes, StackInv, UNCHANGED <<current, re, timer, node>>, ExecTake
  PROVE  BusStep
<1>1. OnTop /\ queue \in [Servers -> Seq(Msgs)]
  BY SmOnTop DEF SmTypes
<1>2. PICK s \in Servers, m \in Msgs, g \in ExecFrames : TakeForm(s, m, g)
  BY <1>1, ExecTakeForm
<1> DEFINE t == Tail(stack)
           I == DrainBreaks(t, s)
           fs == Break(t, I)
<1>3. /\ stack # <<>> /\ Top \in ExecFrames /\ IsExec(Top) /\ Top.pc = "loop"
      /\ Tail(queue[s]) \in Seq(Msgs) /\ queue[s] = <<m>> \o Tail(queue[s])
      /\ queue' = [queue EXCEPT ![s] = Tail(queue[s])]
      /\ Locked(g) /\ g.srv = s /\ g.level = Top.level
      /\ g.more => Tail(queue[s]) # <<>>
      /\ stack' = <<g>> \o fs
      /\ masked' = masked /\ UNCHANGED <<server, mode>>
      /\ (g.pc = "cb" /\ g.msg = m) \/ (g.pc = "loop" /\ g.msg = "none")
  BY <1>2, Zenon DEF TakeForm
<1>4. Top \in AllFrames /\ t \in Seq(AllFrames) /\ stack = <<Top>> \o t
  BY <1>3, StackSplit DEF SmTypes
<1>5. StackOK(t, queue, current, re, LiveTimers, NodeTimers)
  BY <1>4, StackPush DEF StackInv
<1>6. /\ Top \in Frames /\ g \in Frames /\ ~IsPub(Top) /\ ~IsPub(g) /\ Locked(Top)
  BY <1>3 DEF Frames, ExecFrames, IsPub, Locked
<1>7. queue' \in [Servers -> Seq(Msgs)] /\ queue'[s] = Tail(queue[s])
  BY <1>1, <1>3
<1>8. FrameOK(g, queue')
  BY <1>3, <1>6, <1>7, EventAssumption DEF FrameOK
<1>9. ASSUME NEW i \in DOMAIN t, IsExec(t[i]), Locked(t[i]), t[i].more, i \notin I,
             queue[t[i].srv] # <<>>
      PROVE  queue'[t[i].srv] # <<>>
  <2>1. t[i].srv # s
    BY <1>9 DEF DrainBreaks
  <2>2. t[i] \in AllFrames
    BY <1>4, LenProperties, ElementOfSeq
  <2>3. t[i].srv \in Servers
    BY <1>9, <2>2, SmFrameKinds DEF ExecFrames
  <2> QED BY <1>1, <1>3, <1>9, <2>1, <2>3
<1> HIDE DEF t, I
<1> DEFINE q == queue'
<1>10. /\ fs \in Seq(AllFrames) /\ StackOK(fs, q, current, re, LiveTimers, NodeTimers)
       /\ AnyLocked(fs) <=> AnyLocked(t)
       /\ \A A : Moving(fs, A) <=> Moving(t, A)
       /\ \A u : Busy(fs, u) <=> Busy(t, u)
       /\ \A f : MayTop(f, fs, NodeTimers) <=> MayTop(f, t, NodeTimers)
  <2> HIDE DEF q
  <2>1. \A i \in DOMAIN t :
           /\ IsExec(t[i]) /\ Locked(t[i]) /\ t[i].more /\ i \notin I
           /\ queue[t[i].srv] # <<>>
           => q[t[i].srv] # <<>>
    BY <1>9 DEF q
  <2>2. fs = Break(t, I)
    OBVIOUS
  <2> HIDE DEF fs
  <2>3. t \in Seq(AllFrames)
    BY <1>4
  <2> QED BY <1>5, <2>1, <2>2, <2>3, StackBroken
<1> HIDE DEF fs
<1>11. g \in AllFrames /\ Kind(Top, g) /\ SmFrameOK(g, q, current, re, LiveTimers) /\ ~IsOvt(Top)
  BY <1>6, <1>8, BusFrames
<1> HIDE DEF q
<1>12. Rests(stack', masked', q, re)
  BY <1>3, <1>6, <1>10, <1>11, Replaced DEF t
<1>13. StackInv' /\ stack' \in Seq(AllFrames) /\ masked' \in BOOLEAN
  BY <1>12, RestsStays DEF q
<1>14. SamePlaces
  <2>1. /\ \A A : Moving(stack', A) <=> (IsTrans(g) /\ g.at \in A) \/ Moving(Tail(stack), A)
        /\ \A A : Moving(stack, A) <=> (IsTrans(Top) /\ Top.at \in A) \/ Moving(Tail(stack), A)
        /\ \A u : Busy(stack', u) <=> Calls(g, u) \/ Busy(Tail(stack), u)
        /\ \A u : Busy(stack, u) <=> Calls(Top, u) \/ Busy(Tail(stack), u)
    BY <1>3, <1>10, <1>11, ReplacedPlaces DEF t
  <2> QED BY <1>6, <2>1, BusFrames DEF SamePlaces
<1>15. \A u \in Servers : queue[u] = <<>> => queue'[u] = <<>>
  <2>1. queue[s] # <<>>
    <3>1. Len(queue[s]) = Len(Tail(queue[s])) + 1 /\ Len(Tail(queue[s])) \in Nat
      BY <1>3, PushSeq
    <3> QED BY <3>1, EmptySeq
  <2> QED BY <1>1, <1>3, <2>1
<1> QED BY <1>3, <1>7, <1>13, <1>14, <1>15 DEF BusStep

LEMMA BusSteps ==
  ASSUME SmTypes, StackInv, UNCHANGED <<current, re, timer, node>>, EventSteps
  PROVE  BusStep
BY BusPublishes, BusPops, BusDrains, BusTakes DEF EventSteps

-----------------------------------------------------------------------------
(***************************************************************************)
(* What holds when an operation is called, and what keeps the parts of the *)
(* invariant.                                                              *)
(***************************************************************************)
\* No timer of the machine is running out; a transition is on its way only
\* where an interrupt may call.
LEMMA Quiet ==
  ASSUME SmTypes, StackInv, NEW op, SmCanCall(op)
  PROVE  /\ \A i \in DOMAIN stack : ~IsOvt(stack[i]) /\ ~Overticks(stack[i], NodeTimers)
         /\ op \notin IsrOps => \A i \in DOMAIN stack : ~IsTrans(stack[i])
<1> DEFINE N == NodeTimers
<1>1. /\ CanCall(op) /\ ~InOvertick
      /\ \A i \in DOMAIN stack : SmFrameOK(stack[i], queue, current, re, LiveTimers)
      /\ \A i \in DOMAIN stack : PlaceOK(stack, i, N)
      /\ masked <=> AnyLocked(stack)
      /\ \A i \in DOMAIN stack : i \in Nat /\ 1 <= i /\ stack[i] \in AllFrames
  <2>1. DOMAIN stack = 1 .. Len(stack) /\ Len(stack) \in Nat
    BY LenProperties DEF SmTypes
  <2>2. \A i \in DOMAIN stack : stack[i] \in AllFrames
    BY <2>1, ElementOfSeq DEF SmTypes
  <2> QED BY <2>1, <2>2 DEF SmCanCall, StackInv, StackOK
<1>2. CASE stack = <<>>
  <2>1. DOMAIN stack = {}
    BY <1>2
  <2> QED BY <2>1
<1>3. CASE stack # <<>> /\ Top.pc = "cb"
  <2>1. 1 \in DOMAIN stack
    BY <1>3, StackSplit DEF SmTypes
  <2>2. ~IsPub(stack[1]) /\ ~IsTrans(stack[1]) /\ ~IsOvt(stack[1])
    BY <1>1, <1>3, <2>1, SmFrameKinds DEF SmFrameOK, Top
  <2>3. ASSUME NEW i \in DOMAIN stack PROVE ~IsTrans(stack[i]) /\ ~IsOvt(stack[i])
    <3>1. i = 1 \/ i > 1
      BY <1>1
    <3> QED BY <1>1, <2>1, <2>2, <3>1 DEF PlaceOK
  <2>4. ASSUME NEW i \in DOMAIN stack, Overticks(stack[i], N) PROVE FALSE
    <3>1. i # 1
      BY <1>1, <1>3, <2>4 DEF InOvertick, Overticks, NodeTimers, Top
    <3>2. i - 1 \in DOMAIN stack /\ (i - 1) + 1 = i
      BY <1>1, <3>1, LenProperties DEF SmTypes
    <3>3. IsOvt(stack[i - 1])
      BY <1>1, <2>4, <3>2 DEF PlaceOK
    <3> QED BY <2>3, <3>2, <3>3
  <2> QED BY <2>3, <2>4
<1>4. CASE ~masked /\ op \in IsrOps
  <2>1. \A i \in DOMAIN stack : ~Locked(stack[i])
    BY <1>1, <1>4 DEF AnyLocked
  <2>2. ASSUME NEW i \in DOMAIN stack
        PROVE  ~IsOvt(stack[i]) /\ ~Overticks(stack[i], N)
    BY <1>1, <2>1, SmFrameKinds DEF Overticks, Locked
  <2> QED BY <1>4, <2>2
<1> QED BY <1>1, <1>2, <1>3, <1>4 DEF CanCall

\* Only the main loop and callbacks call such an operation.
LEMMA CallQuiet ==
  ASSUME SmTypes, StackInv, NEW op, SmCanCall(op), op \notin IsrOps
  PROVE  /\ \A A : ~Moving(stack, A)
         /\ \A g \in AllFrames :
              /\ ~IsOvt(g) /\ ~Locked(g) /\ (MainOnly /\ IsSm(g) => DOMAIN stack = {})
              => MayTop(g, stack, NodeTimers)
<1>1. \A i \in DOMAIN stack : /\ ~IsOvt(stack[i]) /\ ~Overticks(stack[i], NodeTimers)
                              /\ ~IsTrans(stack[i])
  BY Quiet
<1> QED BY <1>1 DEF Moving, MayTop

\* The states keep what is said of them.
LEMMA ServersKept ==
  ASSUME ServersInv, UNCHANGED current,
         sm' \/ (stack' = <<>> /\ current = "none"),
         \A A : Moving(stack', A) <=> Moving(stack, A),
         \A s \in Servers :
           /\ server'[s] = "started" => server[s] = "started"
           /\ server[s] = "freed" \/ queue[s] = <<>> =>
                server'[s] = "freed" \/ queue'[s] = <<>> \/ server[s] = "started"
           /\ bitmap[s] = {} /\ list[s] = <<>> =>
                \/ bitmap'[s] = {} /\ list'[s] = <<>>
                \/ s = current /\ ~Moving(stack, {"start"})
  PROVE  ServersInv'
<1>1. Moving(stack, {"timers", "start"}) => Moving(stack, Anywhere)
  BY DEF Moving, Anywhere
<1>2. ASSUME NEW s \in Servers
      PROVE  /\ server'[s] = "started" => s = current' /\ ~Moving(stack', Anywhere)
             /\ s # current' \/ Moving(stack', {"timers", "start"}) =>
                  server'[s] = "freed" \/ queue'[s] = <<>>
             /\ s # current' \/ Moving(stack', {"start"}) => bitmap'[s] = {} /\ list'[s] = <<>>
  BY <1>1 DEF ServersInv
<1> DEFINE fs == stack'
<1>3. ~sm' => current' = "none" /\ fs = <<>>
  OBVIOUS
<1>4. \A s \in Servers :
             /\ server'[s] = "started" => s = current' /\ ~Moving(fs, Anywhere)
             /\ s # current' \/ Moving(fs, {"timers", "start"}) =>
                  server'[s] = "freed" \/ queue'[s] = <<>>
             /\ s # current' \/ Moving(fs, {"start"}) => bitmap'[s] = {} /\ list'[s] = <<>>
  BY <1>2
<1> HIDE DEF fs
<1> QED BY <1>3, <1>4 DEF ServersInv, Anywhere, fs

\* The machine exists when something runs.
LEMMA SmExists ==
  ASSUME ServersInv, stack # <<>> \/ current # "none"
  PROVE  sm
BY DEF ServersInv

\* Timers, their nodes and ids do not change.
LEMMA NodesStay ==
  ASSUME NodesOK, RunOK, UNCHANGED <<timer, list, node, bitmap>>,
         \A t \in NodeTimers : Busy(stack, t) => Busy(stack', t)
  PROVE  NodesOK' /\ RunOK'
<1>1. NodesOK'
  BY DEF NodesOK, IsNode, NoNode
<1>2. RunOK'
  BY DEF RunOK, IsNode, NoNode, NodeTimers
<1> QED BY <1>1, <1>2

\* A stack that does not change.
LEMMA StackStays ==
  ASSUME SmTypes, StackInv, UNCHANGED <<stack, masked, current, re>>,
         \A s \in Servers : queue[s] # <<>> => queue'[s] # <<>>,
         \A i \in DOMAIN stack : IsTmr(stack[i]) /\ stack[i].pc = "cb" =>
           /\ stack[i].cur \in LiveTimers => stack[i].cur \in LiveTimers'
           /\ stack[i].cur \in NodeTimers <=> stack[i].cur \in NodeTimers'
  PROVE  /\ StackInv' /\ stack' \in Seq(AllFrames) /\ masked' \in BOOLEAN
         /\ \A A : Moving(stack', A) <=> Moving(stack, A)
         /\ \A t : Busy(stack', t) <=> Busy(stack, t)
<1>1. stack' = stack /\ masked' = masked /\ current' = current /\ re' = re
  OBVIOUS
<1>2. Rests(stack', masked', queue, re)
  BY <1>1, StackRests
<1>3. \A i \in DOMAIN stack' : IsTmr(stack'[i]) /\ stack'[i].pc = "cb" =>
           /\ stack'[i].cur \in LiveTimers => stack'[i].cur \in LiveTimers'
           /\ stack'[i].cur \in NodeTimers <=> stack'[i].cur \in NodeTimers'
  BY <1>1
<1>4. StackInv' /\ stack' \in Seq(AllFrames) /\ masked' \in BOOLEAN
  BY <1>1, <1>2, <1>3, RestsKept
<1> QED BY <1>1, <1>4

-----------------------------------------------------------------------------
(***************************************************************************)
(* Timers of the machine come and go.                                      *)
(***************************************************************************)
LEMMA NoneOnList ==
  ASSUME NEW S, NEW l \in Seq(S)
  PROVE  l = <<>> <=> \A y : ~OnList(l, y)
<1>1. DOMAIN l = 1 .. Len(l) /\ Len(l) \in Nat /\ (l = <<>> <=> Len(l) = 0)
  BY LenProperties, EmptySeq
<1>2. ASSUME \A y : ~OnList(l, y) PROVE Len(l) = 0
  <2>1. 1 \notin DOMAIN l
    BY <1>2 DEF OnList
  <2> QED BY <1>1, <2>1
<1>3. ASSUME Len(l) = 0, NEW y, OnList(l, y) PROVE FALSE
  BY <1>1, <1>3 DEF OnList
<1> QED BY <1>1, <1>2, <1>3

\* A timer has a node exactly when its node names a timer_ctrl.
LEMMA NodeNamed ==
  ASSUME SmTypes, NodesOK, NEW t \in Timers
  PROVE  /\ IsNode(t) <=> node[t].ctrl \in Heads
         /\ ~IsNode(t) => node[t].ctrl = "none"
         /\ IsNode(t) <=> t \in NodeTimers
         /\ NodeTimers \subseteq LiveTimers
         /\ node[t].id \in 0 .. MaxIds - 1
BY SmAssumption DEF SmTypes, NodeRecords, NodesOK, IsNode, NoNode, NodeTimers, LiveTimers

\* What stays when the nodes in T are removed.
Removed(T) ==
  /\ timer' \in [Timers -> TimerRecords] /\ node' \in [Timers -> NodeRecords]
  /\ list' \in Lists
  /\ \A h \in Heads : \A y : OnList(list'[h], y) <=> y \notin T /\ OnList(list[h], y)
  /\ LiveTimers' = LiveTimers \ T /\ NodeTimers' = NodeTimers \ T
  /\ NodesOK' /\ RunOK'

LEMMA RemoveNodes ==
  ASSUME SmTypes, NodesOK, RunOK, NEW T \in SUBSET NodeTimers,
         timer' = [t \in Timers |-> IF t \in T THEN Absent ELSE timer[t]],
         list' = [g \in Heads |-> Without(list[g], T)],
         node' = [t \in Timers |-> IF t \in T THEN NoNode ELSE node[t]],
         \A h \in Heads, k \in 0 .. MaxIds - 1 :
           k \in bitmap'[h] <=>
             /\ k \in bitmap[h]
             /\ ~ \E t \in T : node[t].ctrl = h /\ node[t].id = k,
         \A t \in NodeTimers \ T : Busy(stack, t) => Busy(stack', t)
  PROVE  Removed(T)
<1>1. /\ timer \in [Timers -> TimerRecords] /\ node \in [Timers -> NodeRecords]
      /\ \A h \in Heads : list[h] \in Seq(Timers)
      /\ T \subseteq Timers /\ \A t \in T : IsNode(t)
  BY DEF SmTypes, Lists, NodeTimers
<1>2. timer' \in [Timers -> TimerRecords] /\ ~Absent.live
  <2>1. Absent \in TimerRecords
    BY TimerAssumption DEF Absent, TimerRecords, Ticks, Modulus
  <2> QED BY <1>1, <2>1 DEF Absent
<1>3. node' \in [Timers -> NodeRecords]
  <2>1. NoNode \in NodeRecords
    BY SmAssumption DEF NoNode, NodeRecords
  <2> QED BY <1>1, <2>1
<1>4. /\ list' \in Lists
      /\ \A h \in Heads : \A y : OnList(list'[h], y) <=> y \notin T /\ OnList(list[h], y)
      /\ \A h \in Heads : Once(list[h]) => Once(list'[h])
  <2>1. \A h \in Heads : /\ Without(list[h], T) \in Seq(Timers)
                         /\ \A y : OnList(Without(list[h], T), y) <=> y \notin T /\ OnList(list[h], y)
                         /\ Once(list[h]) => Once(Without(list[h], T))
    BY <1>1, WithoutProperties
  <2> QED BY <2>1 DEF Lists
<1>5. \A t \in Timers : /\ t \in T => ~timer'[t].live /\ node'[t] = NoNode
                        /\ t \notin T => timer'[t] = timer[t] /\ node'[t] = node[t]
  BY <1>2
<1>6. LiveTimers' = LiveTimers \ T /\ NodeTimers' = NodeTimers \ T
  BY <1>5 DEF LiveTimers, NodeTimers, IsNode
<1>7. NodesOK'
  <2> DEFINE tm == timer'
             nd == node'
             ls == list'
             bm == bitmap'
  <2>0. NoNode.ctrl = "none" /\ \A h \in Heads : h # "none"
    BY SmAssumption DEF NoNode
  <2>1. ASSUME NEW t \in Timers
        PROVE  /\ tm[t].live => tm[t].cb
               /\ nd[t] # NoNode => /\ tm[t].live /\ tm[t].mode = "single"
                                    /\ nd[t].ctrl \in Heads /\ nd[t].ev \in Events
    BY <1>5 DEF NodesOK, IsNode
  <2>2. ASSUME NEW h \in Heads, NEW k \in 0 .. MaxIds - 1
        PROVE  k \in bm[h] <=> \E u \in Timers : nd[u].ctrl = h /\ nd[u].id = k
    <3>1. k \in bitmap[h] <=> \E u \in Timers : node[u].ctrl = h /\ node[u].id = k
      BY DEF NodesOK
    <3>2. k \in bm[h] <=> /\ k \in bitmap[h]
                          /\ ~ \E t \in T : node[t].ctrl = h /\ node[t].id = k
      OBVIOUS
    <3>3. ASSUME k \in bm[h] PROVE \E u \in Timers : nd[u].ctrl = h /\ nd[u].id = k
      BY <1>5, <3>1, <3>2, <3>3
    <3>4. ASSUME NEW u \in Timers, nd[u].ctrl = h, nd[u].id = k PROVE k \in bm[h]
      <4>1. u \notin T /\ node[u].ctrl = h /\ node[u].id = k
        BY <1>5, <2>0, <3>4
      <4>2. ASSUME NEW t \in T, node[t].ctrl = h, node[t].id = k PROVE FALSE
        <5>1. t = u
          BY <1>1, <4>1, <4>2 DEF NodesOK
        <5> QED BY <4>1, <5>1
      <4> QED BY <3>1, <3>2, <4>1, <4>2
    <3> QED BY <3>3, <3>4
  <2>3. \A t, u \in Timers :
          nd[t] # NoNode /\ nd[u].ctrl = nd[t].ctrl /\ nd[u].id = nd[t].id => t = u
    <3>1. ASSUME NEW t \in Timers, NEW u \in Timers,
                 nd[t] # NoNode, nd[u].ctrl = nd[t].ctrl, nd[u].id = nd[t].id
          PROVE  t = u
      <4>1. t \notin T /\ nd[t] = node[t] /\ IsNode(t)
        BY <1>5, <3>1 DEF IsNode
      <4>2. nd[u].ctrl \in Heads
        BY <2>1, <3>1
      <4>3. u \notin T /\ nd[u] = node[u]
        BY <1>5, <2>0, <4>2
      <4> QED BY <3>1, <4>1, <4>3 DEF NodesOK
    <3> QED BY <3>1
  <2>4. \A h \in Heads : Once(ls[h])
    BY <1>4 DEF NodesOK
  <2>5. \A h \in Heads, t \in Timers :
          OnList(ls[h], t) => tm[t].live /\ ((h = Global /\ nd[t] = NoNode) \/ nd[t].ctrl = h)
    <3>1. \A h \in Heads, t \in Timers :
            OnList(list[h], t) => timer[t].live /\ ((h = Global /\ node[t] = NoNode) \/ node[t].ctrl = h)
      BY DEF NodesOK, IsNode
    <3> QED BY <1>4, <1>5, <3>1
  <2> HIDE DEF tm, nd, ls, bm
  <2>6. (\A t \in Timers :
          /\ tm[t].live => tm[t].cb
          /\ nd[t] # NoNode => /\ tm[t].live /\ tm[t].mode = "single"
                               /\ nd[t].ctrl \in Heads /\ nd[t].ev \in Events)
        /\ \A h \in Heads, k \in 0 .. MaxIds - 1 :
             k \in bm[h] <=> \E u \in Timers : nd[u].ctrl = h /\ nd[u].id = k
    BY <2>1, <2>2
  <2> QED BY <2>3, <2>4, <2>5, <2>6 DEF NodesOK, IsNode, NoNode, tm, nd, ls, bm
<1>8. RunOK'
  <2>1. ASSUME NEW t \in Timers, node'[t] # NoNode
        PROVE  OnList(list'[node'[t].ctrl], t) \/ Busy(stack', t)
    <3>1. t \notin T /\ node'[t] = node[t] /\ IsNode(t) /\ t \in NodeTimers
      BY <1>5, <2>1 DEF IsNode, NodeTimers
    <3>2. OnList(list[node[t].ctrl], t) \/ Busy(stack, t)
      BY <3>1 DEF RunOK
    <3>3. node[t].ctrl \in Heads
      BY <3>1 DEF NodesOK
    <3> QED BY <1>4, <3>1, <3>2, <3>3
  <2> QED BY <2>1 DEF RunOK, IsNode, NoNode
<1> QED BY <1>2, <1>3, <1>4, <1>6, <1>7, <1>8 DEF Removed

\* sh_sm_remove_timer for the ids in I.
LEMMA RemoveTimersForm ==
  ASSUME SmTypes, NodesOK, RunOK, NEW h \in Heads, NEW I, RemoveTimers(h, I),
         \A t \in Timers :
           t \in NodeTimers \ Nodes(h, I \cap bitmap[h]) /\ Busy(stack, t) => Busy(stack', t)
  PROVE  /\ Removed(Nodes(h, I \cap bitmap[h]))
         /\ Nodes(h, I \cap bitmap[h]) \subseteq NodeTimers
         /\ bitmap' \in [Heads -> SUBSET (0 .. MaxIds - 1)]
         /\ \A g \in Heads : bitmap'[g] \subseteq bitmap[g]
         /\ UNCHANGED tick
<1> DEFINE T == Nodes(h, I \cap bitmap[h])
<1>1. /\ timer' = [t \in Timers |-> IF t \in T THEN Absent ELSE timer[t]]
      /\ list' = [g \in Heads |-> Without(list[g], T)]
      /\ node' = [t \in Timers |-> IF t \in T THEN NoNode ELSE node[t]]
      /\ bitmap' = [bitmap EXCEPT ![h] = bitmap[h] \ {node[t].id : t \in T}]
      /\ UNCHANGED tick
  BY DEF RemoveTimers
<1>2. T \in SUBSET NodeTimers /\ \A t \in T : node[t].ctrl = h
  BY NodeNamed DEF Nodes
<1>3. \A t \in NodeTimers \ T : Busy(stack, t) => Busy(stack', t)
  BY DEF NodeTimers
<1> HIDE DEF T
<1>4. bitmap \in [Heads -> SUBSET (0 .. MaxIds - 1)]
  BY DEF SmTypes
<1>5. bitmap' \in [Heads -> SUBSET (0 .. MaxIds - 1)] /\ \A g \in Heads : bitmap'[g] \subseteq bitmap[g]
  BY <1>1, <1>4
<1>6. \A g \in Heads, k \in 0 .. MaxIds - 1 :
        k \in bitmap'[g] <=> /\ k \in bitmap[g]
                             /\ ~ \E t \in T : node[t].ctrl = g /\ node[t].id = k
  BY <1>1, <1>2, <1>4
<1>7. Removed(T)
  BY <1>1, <1>2, <1>3, <1>6, RemoveNodes
<1> QED BY <1>1, <1>2, <1>5, <1>7 DEF T

\* Nothing is left in a state whose timers are all among those removed.
LEMMA RemovedAll ==
  ASSUME SmTypes, NodesOK, NEW s \in Servers, NEW T, Removed(T),
         Nodes(s, bitmap[s]) \subseteq T
  PROVE  /\ list'[s] = <<>>
         /\ \A k \in bitmap[s] : \E t \in T : node[t].ctrl = s /\ node[t].id = k
<1>1. s \in Heads /\ s # Global
  BY SmAssumption
<1>2. ASSUME NEW y, OnList(list'[s], y) PROVE FALSE
  <2>1. OnList(list[s], y) /\ y \notin T /\ list[s] \in Seq(Timers)
    BY <1>1, <1>2 DEF Removed, SmTypes, Lists
  <2>2. y \in Timers
    BY <2>1, ElementOfSeq, LenProperties DEF OnList
  <2>3. node[y].ctrl = s /\ node[y].id \in 0 .. MaxIds - 1
    BY <1>1, <2>1, <2>2, NodeNamed DEF NodesOK
  <2>4. node[y].id \in bitmap[s]
    BY <1>1, <2>2, <2>3 DEF NodesOK
  <2>5. y \in Nodes(s, bitmap[s])
    BY <2>2, <2>3, <2>4 DEF Nodes
  <2> QED BY <2>1, <2>5
<1>3. list'[s] \in Seq(Timers)
  BY <1>1 DEF Removed, Lists
<1>4. ASSUME NEW k \in bitmap[s] PROVE \E t \in T : node[t].ctrl = s /\ node[t].id = k
  <2>1. k \in 0 .. MaxIds - 1
    BY <1>1 DEF SmTypes
  <2>2. PICK u \in Timers : node[u].ctrl = s /\ node[u].id = k
    BY <1>1, <2>1 DEF NodesOK
  <2>3. u \in T
    BY <2>2 DEF Nodes
  <2> QED BY <2>2, <2>3
<1> QED BY <1>2, <1>3, <1>4, NoneOnList

\* What stays when timer t starts on the list of h.
Started(t, h) ==
  /\ timer' \in [Timers -> TimerRecords] /\ node' \in [Timers -> NodeRecords]
  /\ bitmap' \in [Heads -> SUBSET (0 .. MaxIds - 1)] /\ list' \in Lists
  /\ \A g \in Heads : g # h => bitmap'[g] = bitmap[g] /\ list'[g] = list[g]
  /\ LiveTimers' = LiveTimers \cup {t}
  /\ t \notin LiveTimers /\ \A u \in Timers : u # t => (u \in NodeTimers' <=> u \in NodeTimers)
  /\ NodesOK' /\ RunOK'

LEMMA StartNode ==
  ASSUME SmTypes, NodesOK, RunOK, NEW t \in Timers, ~timer[t].live, NEW h \in Heads,
         NEW md \in {"single", "loop"}, NEW ivl \in Ticks, NewTimer(t, h, md, ivl),
         \/ h = Global /\ UNCHANGED <<node, bitmap>>
         \/ /\ md = "single"
            /\ \E e \in Events, k \in FreeIds(h) :
                 /\ node' = [node EXCEPT ![t] = [ctrl |-> h, ev |-> e, id |-> k]]
                 /\ bitmap' = [bitmap EXCEPT ![h] = bitmap[h] \cup {k}],
         \A u : Busy(stack, u) => Busy(stack', u)
  PROVE  Started(t, h) /\ UNCHANGED tick
<1> DEFINE over == Plus(tick, ivl)
           r == [live |-> TRUE, mode |-> md, cb |-> TRUE, ivl |-> ivl, over |-> over]
           l == Sorted(list[h], t, over)
<1>1. /\ timer' = [timer EXCEPT ![t] = r] /\ list' = [list EXCEPT ![h] = l]
      /\ UNCHANGED tick
  BY DEF NewTimer
<1>2. /\ timer \in [Timers -> TimerRecords] /\ node \in [Timers -> NodeRecords]
      /\ bitmap \in [Heads -> SUBSET (0 .. MaxIds - 1)]
      /\ list \in Lists /\ \A g \in Heads : list[g] \in Seq(Timers)
  BY DEF SmTypes, Lists
<1>3. r \in TimerRecords /\ r.live /\ r.cb /\ r.mode = md
  <2>1. over \in Ticks
    BY TickArithmetic DEF SmTypes
  <2> HIDE DEF over
  <2> QED BY <2>1 DEF TimerRecords
<1>4. /\ l \in Seq(Timers) /\ \A y : OnList(l, y) <=> y = t \/ OnList(list[h], y)
      /\ Once(list[h]) /\ ~OnList(list[h], t) => Once(l)
  BY <1>2, SortedProperties
<1> HIDE DEF r, l
<1>5. timer' \in [Timers -> TimerRecords] /\ list' \in Lists
  BY <1>1, <1>2, <1>3, <1>4 DEF Lists
<1>6. \A g \in Heads : list'[g] = IF g = h THEN l ELSE list[g]
  BY <1>1, <1>2 DEF Lists
<1>7. /\ \A u \in Timers : u # t => timer'[u] = timer[u]
      /\ timer'[t].live /\ timer'[t].cb /\ timer'[t].mode = md
  BY <1>1, <1>2, <1>3
<1>8. /\ ~IsNode(t) /\ node[t] = NoNode /\ node[t].ctrl = "none"
      /\ \A g \in Heads : ~OnList(list[g], t)
  BY NodeNamed DEF NodesOK, IsNode
<1>9. /\ node' \in [Timers -> NodeRecords] /\ bitmap' \in [Heads -> SUBSET (0 .. MaxIds - 1)]
      /\ \A u \in Timers : u # t => node'[u] = node[u]
      /\ \A g \in Heads : g # h => bitmap'[g] = bitmap[g]
      /\ \/ h = Global /\ node'[t] = NoNode /\ node' = node /\ bitmap' = bitmap
         \/ \E k \in FreeIds(h) :
              /\ md = "single" /\ bitmap'[h] = bitmap[h] \cup {k} /\ k \in 0 .. MaxIds - 1
              /\ node'[t].ctrl = h /\ node'[t].ev \in Events /\ node'[t].id = k
              /\ k \notin bitmap[h]
  <2>1. CASE h = Global /\ UNCHANGED <<node, bitmap>>
    BY <1>2, <1>8, <2>1
  <2>2. CASE /\ md = "single"
             /\ \E e \in Events, k \in FreeIds(h) :
                  /\ node' = [node EXCEPT ![t] = [ctrl |-> h, ev |-> e, id |-> k]]
                  /\ bitmap' = [bitmap EXCEPT ![h] = bitmap[h] \cup {k}]
    <3>1. PICK e \in Events, k \in FreeIds(h) :
                  /\ node' = [node EXCEPT ![t] = [ctrl |-> h, ev |-> e, id |-> k]]
                  /\ bitmap' = [bitmap EXCEPT ![h] = bitmap[h] \cup {k}]
      BY <2>2
    <3> DEFINE n == [ctrl |-> h, ev |-> e, id |-> k]
    <3>2. k \in 0 .. MaxIds - 1 /\ k \notin bitmap[h]
      BY DEF FreeIds
    <3>3. n \in NodeRecords /\ n.ctrl = h /\ n.ev = e /\ n.id = k
      BY <3>2 DEF NodeRecords
    <3>4. node' = [node EXCEPT ![t] = n]
      BY <3>1
    <3> HIDE DEF n
    <3>5. node' \in [Timers -> NodeRecords] /\ node'[t] = n
      BY <1>2, <3>3, <3>4
    <3>6. bitmap' \in [Heads -> SUBSET (0 .. MaxIds - 1)] /\ bitmap'[h] = bitmap[h] \cup {k}
      BY <1>2, <3>1, <3>2
    <3> QED BY <1>2, <2>2, <3>1, <3>2, <3>3, <3>4, <3>5, <3>6
  <2> QED BY <2>1, <2>2
<1> DEFINE tm == timer'
           nd == node'
           ls == list'
           bm == bitmap'
<1>10. /\ \A u \in Timers : u # t => tm[u] = timer[u] /\ nd[u] = node[u]
       /\ tm[t].live /\ tm[t].cb /\ tm[t].mode = md
       /\ \A g \in Heads : g # h => bm[g] = bitmap[g]
       /\ \A g \in Heads : ls[g] = IF g = h THEN l ELSE list[g]
       /\ \/ h = Global /\ nd[t] = NoNode /\ nd = node /\ bm = bitmap
          \/ \E k \in FreeIds(h) :
              /\ md = "single" /\ bm[h] = bitmap[h] \cup {k} /\ k \in 0 .. MaxIds - 1
              /\ nd[t].ctrl = h /\ nd[t].ev \in Events /\ nd[t].id = k
              /\ k \notin bitmap[h]
  BY <1>6, <1>7, <1>9
<1> HIDE DEF tm, nd, ls, bm
<1>11. NoNode.ctrl = "none" /\ \A g \in Heads : g # "none"
  BY SmAssumption DEF NoNode
<1>12. NodesOK'
  <2>1. \A u \in Timers : /\ tm[u].live => tm[u].cb
                          /\ nd[u] # NoNode => /\ tm[u].live /\ tm[u].mode = "single"
                                               /\ nd[u].ctrl \in Heads /\ nd[u].ev \in Events
    BY <1>10 DEF NodesOK, IsNode
  <2>2. ASSUME NEW g \in Heads, NEW k \in 0 .. MaxIds - 1
        PROVE  k \in bm[g] <=> \E u \in Timers : nd[u].ctrl = g /\ nd[u].id = k
    <3>1. k \in bitmap[g] <=> \E u \in Timers : node[u].ctrl = g /\ node[u].id = k
      BY DEF NodesOK
    <3> QED BY <1>8, <1>10, <1>11, <3>1
  <2>3. ASSUME NEW u \in Timers, NEW v \in Timers,
               nd[u] # NoNode, nd[v].ctrl = nd[u].ctrl, nd[v].id = nd[u].id
        PROVE  u = v
    <3>1. \A x, y \in Timers :
            node[x] # NoNode /\ node[y].ctrl = node[x].ctrl /\ node[y].id = node[x].id => x = y
      BY DEF NodesOK, IsNode
    <3>2. \A x \in Timers : node[x].ctrl = h => node[x].id \in bitmap[h]
      BY NodeNamed DEF NodesOK
    <3>3. nd[u].ctrl \in Heads
      BY <2>1, <2>3
    <3> QED BY <1>8, <1>10, <1>11, <2>3, <3>1, <3>2, <3>3
  <2>4. ASSUME NEW g \in Heads PROVE Once(ls[g])
    BY <1>4, <1>8, <1>10 DEF NodesOK
  <2>5. ASSUME NEW g \in Heads, NEW u \in Timers, OnList(ls[g], u)
        PROVE  tm[u].live /\ ((g = Global /\ nd[u] = NoNode) \/ nd[u].ctrl = g)
    <3>1. OnList(list[g], u) => timer[u].live /\ ((g = Global /\ node[u] = NoNode) \/ node[u].ctrl = g)
      BY DEF NodesOK, IsNode
    <3> QED BY <1>4, <1>8, <1>10, <2>5, <3>1
  <2>6. \A g \in Heads, k \in 0 .. MaxIds - 1 :
          k \in bm[g] <=> \E u \in Timers : nd[u].ctrl = g /\ nd[u].id = k
    BY <2>2
  <2>7. \A u, v \in Timers :
          nd[u] # NoNode /\ nd[v].ctrl = nd[u].ctrl /\ nd[v].id = nd[u].id => u = v
    BY <2>3
  <2> QED BY <2>1, <2>4, <2>5, <2>6, <2>7 DEF NodesOK, IsNode, NoNode, tm, nd, ls, bm
<1>13. RunOK'
  <2>1. ASSUME NEW u \in Timers, nd[u] # NoNode
        PROVE  OnList(ls[nd[u].ctrl], u) \/ Busy(stack', u)
    <3>1. CASE u = t
      BY <1>4, <1>10, <2>1, <3>1
    <3>2. CASE u # t
      <4>1. nd[u] = node[u] /\ IsNode(u)
        BY <1>10, <2>1, <3>2 DEF IsNode
      <4>2. node[u].ctrl \in Heads /\ (OnList(list[node[u].ctrl], u) \/ Busy(stack, u))
        BY <4>1 DEF RunOK, NodesOK
      <4> QED BY <1>4, <1>10, <4>1, <4>2
    <3> QED BY <3>1, <3>2
  <2> QED BY <2>1 DEF RunOK, IsNode, NoNode, nd, ls
<1>14. LiveTimers' = LiveTimers \cup {t} /\ t \notin LiveTimers
  BY <1>7 DEF LiveTimers
<1>15. \A u \in Timers : u # t => (u \in NodeTimers' <=> u \in NodeTimers)
  BY <1>10 DEF NodeTimers, IsNode, NoNode, nd
<1>16. \A g \in Heads : g # h => bitmap'[g] = bitmap[g] /\ list'[g] = list[g]
  BY <1>6, <1>9
<1> QED BY <1>1, <1>5, <1>9, <1>12, <1>13, <1>14, <1>15, <1>16 DEF Started

-----------------------------------------------------------------------------
(***************************************************************************)
(* The operations that do not change the stack.                            *)
(***************************************************************************)
LEMMA StackIdle ==
  ASSUME SmTypes, StackInv, stack = <<>>, UNCHANGED <<stack, masked>>
  PROVE  /\ StackInv' /\ stack' \in Seq(AllFrames) /\ masked' \in BOOLEAN
         /\ \A A : Moving(stack', A) <=> Moving(stack, A)
         /\ \A t : Busy(stack', t) <=> Busy(stack, t)
<1>1. stack' = <<>> /\ stack' = stack /\ masked' = masked
  OBVIOUS
<1>2. ~AnyLocked(stack) /\ masked = FALSE
  BY StackEmpty DEF StackInv, SmTypes
<1> DEFINE fs == stack'
<1>3. /\ fs \in Seq(AllFrames) /\ ~AnyLocked(fs)
      /\ \A q, c, r, L, N : StackOK(fs, q, c, r, L, N)
  <2>1. fs = <<>>
    BY <1>1
  <2> HIDE DEF fs
  <2> QED BY <2>1, StackEmpty
<1>4. StackInv'
  <2> DEFINE q2 == queue'
             c2 == current'
             r2 == re'
             L2 == LiveTimers'
             N2 == NodeTimers'
  <2> HIDE DEF fs, q2, c2, r2, L2, N2
  <2>1. StackOK(fs, q2, c2, r2, L2, N2) /\ (masked' <=> AnyLocked(fs))
    BY <1>1, <1>2, <1>3
  <2> QED BY <2>1 DEF StackInv, fs, q2, c2, r2, L2, N2
<1> QED BY <1>1, <1>2, <1>3, <1>4

\* States are created and subscribe: no queue, timer or frame changes.
LEMMA CreateKeeps ==
  ASSUME SmInv,
         \/ sh_sm_create
         \/ \E s \in Servers : \/ sh_sm_state_create(s)
                               \/ \E e \in Events : sh_sm_state_subscribe_event(s, e)
  PROVE  SmInv'
<1>1. SmTypes /\ StackInv /\ ServersInv /\ NodesOK /\ RunOK
  BY DEF SmInv
<1>2. CASE sh_sm_create
  <2>1. /\ stack = <<>> /\ ~sm /\ sm' = TRUE /\ current' = "none" /\ re' \in BOOLEAN
        /\ UNCHANGED <<bitmap, node, server, mode, queue, tick, timer, list, stack, masked>>
    BY <1>2 DEF sh_sm_create, timerVars, isrVars
  <2>2. /\ StackInv' /\ stack' \in Seq(AllFrames) /\ masked' \in BOOLEAN
        /\ \A A : Moving(stack', A) <=> Moving(stack, A)
        /\ \A t : Busy(stack', t) <=> Busy(stack, t)
    BY <1>1, <2>1, StackIdle
  <2>3. current' = current
    BY <1>1, <2>1 DEF ServersInv
  <2>4. ServersInv'
    BY <1>1, <2>1, <2>2, <2>3, ServersKept
  <2>5. NodesOK' /\ RunOK'
    BY <1>1, <2>1, <2>2, NodesStay
  <2>6. SmTypes'
    BY <1>1, <2>1, <2>2 DEF SmTypes
  <2> QED BY <2>2, <2>4, <2>5, <2>6 DEF SmInv
<1>3. ASSUME NEW s \in Servers,
             sh_sm_state_create(s) \/ \E e \in Events : sh_sm_state_subscribe_event(s, e)
      PROVE  SmInv'
  <2>1. /\ sm /\ UNCHANGED <<sm, current, re, bitmap, node, queue, tick, timer, list, stack, masked>>
        /\ \/ server[s] = "absent" /\ server' = [server EXCEPT ![s] = "stopped"] /\ mode' = mode
           \/ server' = server /\ \E e \in Events : mode' = [mode EXCEPT ![s][e] = "async"]
    BY <1>3 DEF sh_sm_state_create, sh_sm_state_subscribe_event, Subscribe, SmCanCall,
                smVars, timerVars, isrVars
  <2>2. /\ StackInv' /\ stack' \in Seq(AllFrames) /\ masked' \in BOOLEAN
        /\ \A A : Moving(stack', A) <=> Moving(stack, A)
        /\ \A t : Busy(stack', t) <=> Busy(stack, t)
    <3>1. LiveTimers' = LiveTimers /\ NodeTimers' = NodeTimers
      BY <2>1 DEF LiveTimers, NodeTimers, IsNode, NoNode
    <3> QED BY <1>1, <2>1, <3>1, StackStays
  <2>3. \A u \in Servers : /\ server'[u] = "started" => server[u] = "started"
                           /\ server[u] = "freed" => server'[u] = "freed"
    BY <1>1, <2>1 DEF SmTypes
  <2>4. ServersInv'
    BY <1>1, <2>1, <2>2, <2>3, ServersKept
  <2>5. NodesOK' /\ RunOK'
    BY <1>1, <2>1, <2>2, NodesStay
  <2>6. /\ server' \in [Servers -> {"absent", "stopped", "started", "freed"}]
        /\ mode' \in [Servers -> [Events -> {"none", "async"}]]
    <3>1. /\ mode \in [Servers -> [Events -> {"none", "async"}]]
          /\ server \in [Servers -> {"absent", "stopped", "started", "freed"}]
      BY <1>1 DEF SmTypes
    <3>2. ASSUME NEW e \in Events, mode' = [mode EXCEPT ![s][e] = "async"]
          PROVE  mode' \in [Servers -> [Events -> {"none", "async"}]]
      <4> DEFINE r == [mode[s] EXCEPT ![e] = "async"]
      <4>1. r \in [Events -> {"none", "async"}]
        BY <3>1
      <4>2. mode' = [mode EXCEPT ![s] = r]
        BY <3>2
      <4> HIDE DEF r
      <4> QED BY <3>1, <4>1, <4>2
    <3> QED BY <2>1, <3>1, <3>2
  <2>7. SmTypes'
    BY <1>1, <2>1, <2>2, <2>6 DEF SmTypes
  <2> QED BY <2>2, <2>4, <2>5, <2>7 DEF SmInv
<1> QED BY <1>2, <1>3

\* A timer starts in a callback, an interrupt or the main loop; one of the
\* current state where no transition is on its way.
LEMMA StartKeeps ==
  ASSUME SmInv, NEW t \in Timers, NEW h \in Heads, Started(t, h),
         h = Global \/ (h = current /\ ~Moving(stack, {"start"})),
         sm, UNCHANGED <<sm, current, re, server, mode, queue, tick, stack, masked>>
  PROVE  SmInv'
<1>1. SmTypes /\ StackInv /\ ServersInv /\ NodesOK /\ RunOK
  BY DEF SmInv
<1>2. ASSUME NEW i \in DOMAIN stack, IsTmr(stack[i]), stack[i].pc = "cb"
      PROVE  /\ stack[i].cur \in LiveTimers'
             /\ stack[i].cur \in NodeTimers <=> stack[i].cur \in NodeTimers'
  <2>1. stack[i].cur \in LiveTimers
    BY <1>1, <1>2 DEF StackInv, StackOK, SmFrameOK
  <2>2. stack[i].cur # t /\ stack[i].cur \in Timers
    BY <2>1 DEF Started, LiveTimers
  <2>3. stack[i].cur \in NodeTimers <=> stack[i].cur \in NodeTimers'
    BY <2>2 DEF Started
  <2> QED BY <2>1, <2>3 DEF Started
<1>3. /\ StackInv' /\ stack' \in Seq(AllFrames) /\ masked' \in BOOLEAN
      /\ \A A : Moving(stack', A) <=> Moving(stack, A)
      /\ \A u : Busy(stack', u) <=> Busy(stack, u)
  BY <1>1, <1>2, StackStays
<1>4. ServersInv'
  <2>1. \A s \in Servers : s \in Heads /\ s # Global
    BY SmAssumption
  <2>2. \A s \in Servers :
          \/ bitmap'[s] = bitmap[s] /\ list'[s] = list[s]
          \/ s = current /\ ~Moving(stack, {"start"})
    BY <2>1 DEF Started
  <2> QED BY <1>1, <1>3, <2>2, ServersKept
<1>5. SmTypes'
  BY <1>1, <1>3 DEF SmTypes, Started
<1> QED BY <1>3, <1>4, <1>5 DEF SmInv, Started

LEMMA StartsKeep ==
  ASSUME IsrOps \cap {"trans_to", "sm_handler", "start_private"} = {}, SmInv,
         NEW t \in Timers, NEW ivl \in Intervals,
         \/ sh_sm_start_normal_timer(t, ivl)
         \/ \E e \in Events : sh_sm_start_global_timer(t, ivl, e) \/ sh_sm_start_timer(t, ivl, e)
  PROVE  SmInv'
<1>1. SmTypes /\ StackInv /\ ServersInv /\ NodesOK /\ RunOK
  BY DEF SmInv
<1>2. ivl \in Ticks /\ Global \in Heads /\ \A s \in Servers : s \in Heads
  BY TimerAssumption, SmAssumption
<1>3. CASE sh_sm_start_normal_timer(t, ivl)
  <2>1. /\ sm /\ ~timer[t].live /\ NewTimer(t, Global, "loop", ivl)
        /\ UNCHANGED <<sm, current, re, bitmap, node, server, mode, queue, stack, masked>>
    BY <1>3 DEF sh_sm_start_normal_timer, SmCanCall, smVars, eventVars, isrVars
  <2>2. \A u : Busy(stack, u) => Busy(stack', u)
    BY <2>1
  <2>3. Started(t, Global) /\ UNCHANGED tick
    BY <1>1, <1>2, <2>1, <2>2, StartNode
  <2> QED BY <1>2, <2>1, <2>3, StartKeeps
<1>4. ASSUME NEW e \in Events, NEW h \in Heads, sm, sh_sm_start_timer_and_get_id(t, h, ivl, e),
             h = Global \/ (h = current /\ ~Moving(stack, {"start"}))
      PROVE  SmInv'
  <2> DEFINE k == Min(FreeIds(h))
  <2>1. k \in FreeIds(h)
    <3>1. FreeIds(h) \in SUBSET Nat
      BY DEF FreeIds
    <3> QED BY <1>4, <3>1, MinProperties DEF sh_sm_start_timer_and_get_id
  <2>2. /\ ~timer[t].live /\ NewTimer(t, h, "single", ivl)
        /\ node' = [node EXCEPT ![t] = [ctrl |-> h, ev |-> e, id |-> k]]
        /\ bitmap' = [bitmap EXCEPT ![h] = bitmap[h] \cup {k}]
        /\ UNCHANGED <<sm, current, re, server, mode, queue, stack, masked>>
    BY <1>4 DEF sh_sm_start_timer_and_get_id, eventVars, isrVars
  <2> HIDE DEF k
  <2>3. \A u : Busy(stack, u) => Busy(stack', u)
    BY <2>2
  <2>4. Started(t, h) /\ UNCHANGED tick
    BY <1>1, <1>2, <2>1, <2>2, <2>3, StartNode
  <2> QED BY <1>4, <2>2, <2>4, StartKeeps
<1>5. ASSUME NEW e \in Events, sh_sm_start_global_timer(t, ivl, e) PROVE SmInv'
  BY <1>2, <1>4, <1>5 DEF sh_sm_start_global_timer, SmCanCall
<1>6. ASSUME NEW e \in Events, sh_sm_start_timer(t, ivl, e) PROVE SmInv'
  <2>1. SmCanCall("start_private") /\ current # "none"
    BY <1>6 DEF sh_sm_start_timer
  <2>2. ~Moving(stack, {"start"})
    BY <1>1, <2>1, CallQuiet
  <2>3. current \in Heads
    BY <1>1, <1>2, <2>1 DEF SmTypes
  <2> QED BY <1>4, <1>6, <2>1, <2>2, <2>3 DEF sh_sm_start_timer, SmCanCall
<1> QED BY <1>3, <1>5, <1>6

\* A stack whose frames lose their place is as right as it was.
LEMMA BreakRests ==
  ASSUME SmTypes, StackInv, NEW I, NEW S, S = Break(stack, I)
  PROVE  /\ Rests(S, masked, queue, re)
         /\ \A A : Moving(S, A) <=> Moving(stack, A)
         /\ \A t : Busy(S, t) <=> Busy(stack, t)
         /\ (\A i \in DOMAIN stack : ~Overticks(stack[i], NodeTimers))
              => \A i \in DOMAIN S : ~Overticks(S[i], NodeTimers)
<1> DEFINE N == NodeTimers
           L == LiveTimers
<1>1. /\ stack \in Seq(AllFrames) /\ StackOK(stack, queue, current, re, L, N)
      /\ (masked <=> AnyLocked(stack)) /\ masked \in BOOLEAN
  BY DEF SmTypes, StackInv
<1>2. Rests(S, masked, queue, re) <=>
        /\ S \in Seq(AllFrames) /\ masked \in BOOLEAN
        /\ StackOK(S, queue, current, re, L, N) /\ (masked <=> AnyLocked(S))
  BY DEF Rests
<1> HIDE DEF N, L
<1>3. /\ S \in Seq(AllFrames) /\ StackOK(S, queue, current, re, L, N)
      /\ AnyLocked(S) <=> AnyLocked(stack)
      /\ \A A : Moving(S, A) <=> Moving(stack, A)
      /\ \A t : Busy(S, t) <=> Busy(stack, t)
  BY <1>1, StackBroken
<1>4. ASSUME NEW i \in DOMAIN S, Overticks(S[i], N)
      PROVE  i \in DOMAIN stack /\ Overticks(stack[i], N)
  <2>1. DOMAIN S = DOMAIN stack /\ \A j \in DOMAIN stack : SmAlike(stack[j], S[j])
    BY <1>1, SmBreakFrames
  <2> QED BY <1>4, <2>1 DEF SmAlike, Kind, Overticks
<1> QED BY <1>1, <1>2, <1>3, <1>4 DEF N

\* Timers are removed where none of the machine is running out; the stack may
\* lose places at the same time.
LEMMA RemovedKeeps ==
  ASSUME SmInv, NEW T \in SUBSET NodeTimers, Removed(T),
         Rests(stack', masked', queue, re),
         \A A : Moving(stack', A) <=> Moving(stack, A),
         \A i \in DOMAIN stack' : ~Overticks(stack'[i], NodeTimers),
         bitmap' \in [Heads -> SUBSET (0 .. MaxIds - 1)],
         \A g \in Heads : bitmap'[g] \subseteq bitmap[g],
         server' \in [Servers -> {"absent", "stopped", "started", "freed"}],
         mode' \in [Servers -> [Events -> {"none", "async"}]],
         \A s \in Servers : /\ server'[s] # "started" \/ server[s] = "started"
                            /\ server[s] = "freed" => server'[s] = "freed" \/ queue[s] = <<>>,
         sm, UNCHANGED <<sm, current, re, queue, tick>>
  PROVE  SmInv'
<1>1. SmTypes /\ StackInv /\ ServersInv /\ NodesOK /\ RunOK
  BY DEF SmInv
<1>2. ASSUME NEW i \in DOMAIN stack', IsTmr(stack'[i]), stack'[i].pc = "cb"
      PROVE  /\ stack'[i].cur \in LiveTimers => stack'[i].cur \in LiveTimers'
             /\ stack'[i].cur \in NodeTimers <=> stack'[i].cur \in NodeTimers'
  <2>1. stack'[i].cur \notin NodeTimers
    BY <1>2 DEF Overticks
  <2> QED BY <2>1 DEF Removed
<1>3. StackInv' /\ stack' \in Seq(AllFrames) /\ masked' \in BOOLEAN
  BY <1>2, RestsKept
<1>4. ServersInv'
  <2>1. ASSUME NEW s \in Servers, bitmap[s] = {}, list[s] = <<>>
        PROVE  bitmap'[s] = {} /\ list'[s] = <<>>
    <3>1. s \in Heads
      BY SmAssumption
    <3>2. list[s] \in Seq(Timers) /\ list'[s] \in Seq(Timers)
      BY <1>1, <3>1 DEF SmTypes, Removed, Lists
    <3>3. \A y : ~OnList(list'[s], y)
      BY <2>1, <3>1, <3>2, NoneOnList DEF Removed
    <3>4. list'[s] = <<>>
      BY <3>2, <3>3, NoneOnList
    <3> QED BY <2>1, <3>1, <3>4
  <2> QED BY <1>1, <1>3, <2>1, ServersKept
<1>5. SmTypes'
  BY <1>1, <1>3 DEF SmTypes, Removed
<1> QED BY <1>3, <1>4, <1>5 DEF SmInv, Removed

LEMMA RemovesKeep ==
  ASSUME SmInv,
         \/ \E private \in BOOLEAN, id \in 0 .. MaxIds - 1 : sh_sm_remove_timer(private, id)
         \/ \E s \in Servers : sh_sm_remove_state_all_timer(s)
         \/ sh_sm_remove_all_global_timer
  PROVE  SmInv'
<1>1. SmTypes /\ StackInv /\ ServersInv /\ NodesOK /\ RunOK
  BY DEF SmInv
<1>2. Global \in Heads /\ (current # "none" => current \in Heads)
  BY <1>1, SmAssumption DEF SmTypes
<1>3. ASSUME NEW h \in Heads, NEW I, RemoveTimers(h, I), NEW op, SmCanCall(op),
             UNCHANGED <<sm, current, re, eventVars, isrVars>>
      PROVE  SmInv'
  <2>1. UNCHANGED <<sm, current, re, server, mode, queue, stack, masked>> /\ sm
    BY <1>3 DEF eventVars, isrVars, SmCanCall
  <2> DEFINE T == Nodes(h, I \cap bitmap[h])
  <2>2. \A u : Busy(stack, u) => Busy(stack', u)
    BY <2>1
  <2>3. /\ Removed(T) /\ T \subseteq NodeTimers
        /\ bitmap' \in [Heads -> SUBSET (0 .. MaxIds - 1)]
        /\ \A g \in Heads : bitmap'[g] \subseteq bitmap[g]
        /\ UNCHANGED tick
    BY <1>1, <1>3, <2>2, RemoveTimersForm
  <2> HIDE DEF T
  <2>4. \A i \in DOMAIN stack : ~Overticks(stack[i], NodeTimers)
    BY <1>1, <1>3, Quiet
  <2>5. /\ Rests(stack', masked', queue, re)
        /\ \A A : Moving(stack', A) <=> Moving(stack, A)
        /\ \A i \in DOMAIN stack' : ~Overticks(stack'[i], NodeTimers)
    BY <1>1, <2>1, <2>4, StackRests
  <2>6. /\ server' \in [Servers -> {"absent", "stopped", "started", "freed"}]
        /\ mode' \in [Servers -> [Events -> {"none", "async"}]]
    BY <1>1, <2>1 DEF SmTypes
  <2> QED BY <2>1, <2>3, <2>5, <2>6, RemovedKeeps
<1>4. ASSUME NEW private \in BOOLEAN, NEW id \in 0 .. MaxIds - 1, sh_sm_remove_timer(private, id)
      PROVE  SmInv'
  <2> DEFINE h == IF private THEN current ELSE Global
  <2>1. h \in Heads /\ RemoveTimers(h, {id}) /\ SmCanCall("remove_timer")
    BY <1>2, <1>4 DEF sh_sm_remove_timer
  <2> HIDE DEF h
  <2> QED BY <1>3, <1>4, <2>1 DEF sh_sm_remove_timer
<1>5. ASSUME NEW s \in Servers, sh_sm_remove_state_all_timer(s) PROVE SmInv'
  BY <1>2, <1>3, <1>5 DEF sh_sm_remove_state_all_timer
<1>6. CASE sh_sm_remove_all_global_timer
  BY <1>2, <1>3, <1>6 DEF sh_sm_remove_all_global_timer
<1> QED BY <1>4, <1>5, <1>6

\* A state is destroyed: its timers are removed where a timer of it is removed.
LEMMA DestroyKeeps ==
  ASSUME SmInv, NEW s \in Servers, sh_sm_state_destroy(s)
  PROVE  SmInv'
<1>1. SmTypes /\ StackInv /\ ServersInv /\ NodesOK /\ RunOK
  BY DEF SmInv
<1> DEFINE B == UnlinkBreaks(stack, s, Events) \cup ExecsOf(stack, s)
<1>2. /\ SmCanCall("state_destroy") /\ sm
      /\ server' = [server EXCEPT ![s] = IF queue[s] = <<>> THEN "absent" ELSE "freed"]
      /\ mode' = [mode EXCEPT ![s] = [e \in Events |-> "none"]]
      /\ stack' = Break(stack, B)
      /\ UNCHANGED <<sm, current, re, queue, masked>>
  BY DEF sh_sm_state_destroy, SmCanCall
<1> HIDE DEF B
<1>3. /\ server' \in [Servers -> {"absent", "stopped", "started", "freed"}]
      /\ mode' \in [Servers -> [Events -> {"none", "async"}]]
      /\ \A u \in Servers : /\ server'[u] # "started" \/ server[u] = "started"
                            /\ server[u] = "freed" => server'[u] = "freed" \/ queue[u] = <<>>
  BY <1>1, <1>2 DEF SmTypes
<1>4. /\ Rests(stack', masked', queue, re)
      /\ \A A : Moving(stack', A) <=> Moving(stack, A)
      /\ \A i \in DOMAIN stack' : ~Overticks(stack'[i], NodeTimers)
      /\ \A u : Busy(stack', u) <=> Busy(stack, u)
  <2> DEFINE S == stack'
  <2>1. S = Break(stack, B) /\ masked' = masked
    BY <1>2
  <2> HIDE DEF S
  <2>2. \A i \in DOMAIN stack : ~Overticks(stack[i], NodeTimers)
    BY <1>1, <1>2, Quiet
  <2>3. /\ Rests(S, masked, queue, re)
        /\ \A A : Moving(S, A) <=> Moving(stack, A)
        /\ \A i \in DOMAIN S : ~Overticks(S[i], NodeTimers)
        /\ \A u : Busy(S, u) <=> Busy(stack, u)
    BY <1>1, <2>1, <2>2, BreakRests
  <2> QED BY <2>1, <2>3 DEF S
<1>5. \A u : Busy(stack, u) => Busy(stack', u)
  BY <1>4
<1>6. PICK T \in SUBSET NodeTimers :
        /\ Removed(T) /\ bitmap' \in [Heads -> SUBSET (0 .. MaxIds - 1)]
        /\ \A g \in Heads : bitmap'[g] \subseteq bitmap[g]
        /\ UNCHANGED tick
  <2>1. CASE current = "none"
    <3>1. UNCHANGED <<tick, timer, list, node, bitmap>>
      BY <2>1 DEF sh_sm_state_destroy, timerVars
    <3>2. NodesOK' /\ RunOK'
      BY <1>1, <1>5, <3>1, NodesStay
    <3>3. Removed({})
      <4>1. LiveTimers' = LiveTimers /\ NodeTimers' = NodeTimers
        BY <3>1 DEF LiveTimers, NodeTimers, IsNode, NoNode
      <4>2. /\ timer \in [Timers -> TimerRecords] /\ node \in [Timers -> NodeRecords]
            /\ list \in Lists
        BY <1>1 DEF SmTypes
      <4> QED BY <3>1, <3>2, <4>1, <4>2 DEF Removed
    <3>4. bitmap' \in [Heads -> SUBSET (0 .. MaxIds - 1)]
      BY <1>1, <3>1 DEF SmTypes
    <3>5. \A g \in Heads : bitmap'[g] \subseteq bitmap[g]
      BY <3>1
    <3> QED BY <3>1, <3>3, <3>4, <3>5
  <2>2. CASE current # "none"
    <3>1. RemoveTimers(current, bitmap[s]) /\ current \in Heads
      BY <1>1, <2>2, SmAssumption DEF sh_sm_state_destroy, SmTypes
    <3> DEFINE h == current
               I == bitmap[s]
    <3>2. RemoveTimers(h, I) /\ h \in Heads
      BY <3>1
    <3> HIDE DEF h, I
    <3> QED BY <1>1, <1>5, <3>2, RemoveTimersForm
  <2> QED BY <2>1, <2>2
<1> QED BY <1>2, <1>3, <1>4, <1>6, RemovedKeeps

\* A normal timer is destroyed.
LEMMA NormalKeeps ==
  ASSUME SmInv, NEW t \in Timers, DestroyNormalTimer(t)
  PROVE  SmInv'
<1>1. SmTypes /\ StackInv /\ ServersInv /\ NodesOK /\ RunOK
  BY DEF SmInv
<1>2. /\ stack = <<>> /\ timer[t].live /\ ~IsNode(t)
      /\ timer' = [timer EXCEPT ![t] = Absent] /\ list' = Unlinked(list, t)
      /\ UNCHANGED <<sm, current, re, bitmap, node, server, mode, queue, tick, stack, masked>>
  BY DEF DestroyNormalTimer, smVars, eventVars, isrVars
<1>3. /\ StackInv' /\ stack' \in Seq(AllFrames) /\ masked' \in BOOLEAN
      /\ \A A : Moving(stack', A) <=> Moving(stack, A)
      /\ \A u : Busy(stack', u) <=> Busy(stack, u)
  BY <1>1, <1>2, StackIdle
<1>4. list \in Lists /\ timer \in [Timers -> TimerRecords]
  BY <1>1 DEF SmTypes
<1>5. /\ list' \in Lists
      /\ \A h \in Heads, y \in Timers : y # t => (OnList(list'[h], y) <=> OnList(list[h], y))
      /\ \A h \in Heads : ~OnList(list'[h], t) /\ Once(list'[h])
  BY <1>1, <1>2, <1>4, UnlinkedProperties DEF NodesOK
<1>6. timer' \in [Timers -> TimerRecords] /\ ~timer'[t].live
  <2>1. Absent \in TimerRecords /\ ~Absent.live
    BY TimerAssumption DEF Absent, TimerRecords, Ticks, Modulus
  <2> QED BY <1>2, <1>4, <2>1
<1>7. NodesOK'
  <2> DEFINE tm == timer'
             ls == list'
  <2>1. \A u \in Timers : u # t => tm[u] = timer[u]
    BY <1>2, <1>4
  <2>2. /\ \A u \in Timers : /\ tm[u].live => tm[u].cb
                             /\ node[u] # NoNode => /\ tm[u].live /\ tm[u].mode = "single"
                                                    /\ node[u].ctrl \in Heads /\ node[u].ev \in Events
        /\ \A h \in Heads, u \in Timers :
             OnList(ls[h], u) => tm[u].live /\ ((h = Global /\ node[u] = NoNode) \/ node[u].ctrl = h)
        /\ \A h \in Heads : Once(ls[h])
    BY <1>1, <1>2, <1>5, <1>6, <2>1 DEF NodesOK, IsNode
  <2>3. node' = node /\ bitmap' = bitmap
    BY <1>2
  <2>4. /\ \A h \in Heads, k \in 0 .. MaxIds - 1 :
             k \in bitmap[h] <=> \E u \in Timers : node[u].ctrl = h /\ node[u].id = k
        /\ \A u, v \in Timers :
             node[u] # NoNode /\ node[v].ctrl = node[u].ctrl /\ node[v].id = node[u].id => u = v
    BY <1>1 DEF NodesOK, IsNode
  <2> HIDE DEF tm, ls
  <2> QED BY <2>2, <2>3, <2>4 DEF NodesOK, IsNode, NoNode, tm, ls
<1>8. RunOK'
  <2>1. ASSUME NEW u \in Timers, node[u] # NoNode
        PROVE  OnList(list'[node[u].ctrl], u) \/ Busy(stack', u)
    <3>1. IsNode(u) /\ u # t
      BY <1>2, <2>1 DEF IsNode
    <3>2. node[u].ctrl \in Heads /\ (OnList(list[node[u].ctrl], u) \/ Busy(stack, u))
      BY <1>1, <3>1 DEF RunOK, NodesOK
    <3> QED BY <1>3, <1>5, <3>1, <3>2
  <2> QED BY <1>2, <2>1 DEF RunOK, IsNode, NoNode
<1>9. ServersInv'
  <2>1. ASSUME NEW s \in Servers, list[s] = <<>> PROVE list'[s] = <<>>
    <3>1. s \in Heads /\ list[s] \in Seq(Timers) /\ list'[s] \in Seq(Timers)
      BY <1>4, <1>5, SmAssumption DEF Lists
    <3>2. \A y \in Timers : ~OnList(list'[s], y)
      BY <1>5, <2>1, <3>1, NoneOnList
    <3>3. \A y : OnList(list'[s], y) => y \in Timers
      BY <3>1, ElementOfSeq, LenProperties DEF OnList
    <3> QED BY <3>1, <3>2, <3>3, NoneOnList
  <2>2. sm' \/ (stack' = <<>> /\ current = "none")
    BY <1>1, <1>2 DEF ServersInv
  <2> QED BY <1>1, <1>2, <1>3, <2>1, <2>2, ServersKept
<1>10. SmTypes'
  BY <1>1, <1>2, <1>3, <1>5, <1>6 DEF SmTypes
<1> QED BY <1>3, <1>7, <1>8, <1>9, <1>10 DEF SmInv

\* The machine is destroyed: no state keeps a timer, an id or a started server.
LEMMA MachineGoes ==
  ASSUME SmInv, sh_sm_destroy
  PROVE  SmInv'
<1>1. SmTypes /\ StackInv /\ ServersInv /\ NodesOK /\ RunOK
  BY DEF SmInv
<1> DEFINE T == Nodes(Global, bitmap[Global])
                  \cup (IF current = "none" THEN {}
                        ELSE UNION {Nodes(current, bitmap[s]) : s \in Servers})
<1>2. /\ stack = <<>> /\ sm' = FALSE /\ current' = "none"
      /\ server' = [s \in Servers |-> IF queue[s] = <<>> THEN "absent" ELSE "freed"]
      /\ mode' = [s \in Servers |-> [e \in Events |-> "none"]]
      /\ UNCHANGED <<re, queue, tick, stack, masked>>
  BY DEF sh_sm_destroy, isrVars
<1>3. /\ timer' = [t \in Timers |-> IF t \in T THEN Absent ELSE timer[t]]
      /\ list' = [g \in Heads |-> Without(list[g], T)]
      /\ node' = [t \in Timers |-> IF t \in T THEN NoNode ELSE node[t]]
      /\ bitmap' = [h \in Heads |->
                      bitmap[h] \ {node[t].id : t \in {u \in T : node[u].ctrl = h}}]
  BY DEF sh_sm_destroy
<1>4. Global \in Heads /\ (\A s \in Servers : s \in Heads) /\ "none" \notin Servers
  BY SmAssumption
<1>5. T \in SUBSET NodeTimers
  <2>1. \A h \in Heads : \A I : Nodes(h, I) \subseteq NodeTimers
    BY <1>1, NodeNamed DEF Nodes
  <2>2. current # "none" => current \in Heads
    BY <1>1, <1>4 DEF SmTypes
  <2> QED BY <1>4, <2>1, <2>2
<1>6. ASSUME NEW s \in Servers, s = current PROVE Nodes(s, bitmap[s]) \subseteq T
  BY <1>4, <1>6
<1> HIDE DEF T
<1>7. /\ StackInv' /\ stack' \in Seq(AllFrames) /\ masked' \in BOOLEAN
      /\ \A A : Moving(stack', A) <=> Moving(stack, A)
      /\ \A u : Busy(stack', u) <=> Busy(stack, u)
  BY <1>1, <1>2, StackIdle
<1>8. /\ \A h \in Heads, k \in 0 .. MaxIds - 1 :
           k \in bitmap'[h] <=>
             /\ k \in bitmap[h]
             /\ ~ \E t \in T : node[t].ctrl = h /\ node[t].id = k
      /\ \A h \in Heads : bitmap'[h] \subseteq bitmap[h]
      /\ bitmap' \in [Heads -> SUBSET (0 .. MaxIds - 1)]
  BY <1>1, <1>3 DEF SmTypes
<1>9. Removed(T)
  BY <1>1, <1>3, <1>5, <1>7, <1>8, RemoveNodes
<1>10. ASSUME NEW s \in Servers PROVE bitmap'[s] = {} /\ list'[s] = <<>>
  <2>1. CASE s = current
    <3>1. /\ list'[s] = <<>>
          /\ \A k \in bitmap[s] : \E t \in T : node[t].ctrl = s /\ node[t].id = k
      BY <1>1, <1>6, <1>9, <2>1, RemovedAll
    <3> QED BY <1>4, <1>8, <3>1
  <2>2. CASE s # current
    <3>1. bitmap[s] = {} /\ list[s] = <<>>
      BY <1>1, <2>2 DEF ServersInv
    <3>2. list[s] \in Seq(Timers) /\ list'[s] \in Seq(Timers)
      BY <1>1, <1>4, <1>9 DEF SmTypes, Removed, Lists
    <3>3. \A y : ~OnList(list'[s], y)
      BY <1>4, <1>9, <3>1, <3>2, NoneOnList DEF Removed
    <3>4. list'[s] = <<>>
      BY <3>2, <3>3, NoneOnList
    <3> QED BY <1>4, <1>8, <3>1, <3>4
  <2> QED BY <2>1, <2>2
<1>11. /\ server' \in [Servers -> {"absent", "stopped", "started", "freed"}]
       /\ mode' \in [Servers -> [Events -> {"none", "async"}]]
       /\ \A s \in Servers : /\ server'[s] # "started"
                             /\ server'[s] = "freed" \/ queue'[s] = <<>>
  BY <1>2
<1>12. ServersInv'
  <2> DEFINE fs == stack'
  <2>1. fs = <<>>
    BY <1>2
  <2> HIDE DEF fs
  <2> QED BY <1>2, <1>10, <1>11, <2>1 DEF ServersInv, fs
<1>13. SmTypes'
  BY <1>1, <1>2, <1>7, <1>8, <1>9, <1>11 DEF SmTypes, Removed
<1> QED BY <1>7, <1>9, <1>12, <1>13 DEF SmInv, Removed

\* Time goes on.
LEMMA TickKeeps ==
  ASSUME SmInv, Tick, UNCHANGED <<smVars, eventVars>>
  PROVE  SmInv'
<1>1. SmTypes /\ StackInv /\ ServersInv /\ NodesOK /\ RunOK
  BY DEF SmInv
<1>2. /\ tick' = Plus(tick, 1)
      /\ UNCHANGED <<sm, current, re, bitmap, node, server, mode, queue, timer, list, stack, masked>>
  BY DEF Tick, smVars, eventVars, isrVars
<1>3. tick' \in Ticks
  <2>1. 1 \in Ticks
    BY TimerAssumption DEF Ticks, Modulus
  <2> QED BY <1>1, <1>2, <2>1, TickArithmetic DEF SmTypes
<1>4. LiveTimers' = LiveTimers /\ NodeTimers' = NodeTimers
  BY <1>2 DEF LiveTimers, NodeTimers, IsNode, NoNode
<1>5. /\ StackInv' /\ stack' \in Seq(AllFrames) /\ masked' \in BOOLEAN
      /\ \A A : Moving(stack', A) <=> Moving(stack, A)
      /\ \A u : Busy(stack', u) <=> Busy(stack, u)
  BY <1>1, <1>2, <1>4, StackStays
<1>6. ServersInv'
  <2>1. sm' \/ (stack' = <<>> /\ current = "none")
    BY <1>1, <1>2 DEF ServersInv
  <2> QED BY <1>1, <1>2, <1>5, <2>1, ServersKept
<1>7. NodesOK' /\ RunOK'
  BY <1>1, <1>2, <1>5, NodesStay
<1>8. SmTypes'
  BY <1>1, <1>2, <1>3, <1>5 DEF SmTypes
<1> QED BY <1>5, <1>6, <1>7, <1>8 DEF SmInv

\* A state unsubscribes: publications lose their place.
LEMMA UnsubscribeKeeps ==
  ASSUME SmInv, NEW s \in Servers, NEW e \in Events, sh_sm_state_unsubscribe_event(s, e)
  PROVE  SmInv'
<1>1. SmTypes /\ StackInv /\ ServersInv /\ NodesOK /\ RunOK
  BY DEF SmInv
<1> DEFINE I == UnlinkBreaks(stack, s, {e})
<1>2. /\ sm /\ mode' = [mode EXCEPT ![s] = [x \in Events |-> IF x \in {e} THEN "none" ELSE mode[s][x]]]
      /\ stack' = Break(stack, I)
      /\ UNCHANGED <<sm, current, re, bitmap, node, server, queue, tick, timer, list, masked>>
  BY DEF sh_sm_state_unsubscribe_event, Unlink, SmCanCall, smVars, timerVars
<1> HIDE DEF I
<1>5. /\ Rests(stack', masked', queue, re)
      /\ \A A : Moving(stack', A) <=> Moving(stack, A)
      /\ \A t : Busy(stack', t) <=> Busy(stack, t)
  <2> DEFINE S == stack'
  <2>1. S = Break(stack, I) /\ masked' = masked
    BY <1>2
  <2> HIDE DEF S
  <2>2. /\ Rests(S, masked, queue, re)
        /\ \A A : Moving(S, A) <=> Moving(stack, A)
        /\ \A t : Busy(S, t) <=> Busy(stack, t)
    BY <1>1, <2>1, BreakRests
  <2> QED BY <2>1, <2>2 DEF S
<1>6. StackInv' /\ stack' \in Seq(AllFrames) /\ masked' \in BOOLEAN
  BY <1>2, <1>5, RestsStays
<1>8. ServersInv'
  BY <1>1, <1>2, <1>5, ServersKept
<1>9. NodesOK' /\ RunOK'
  BY <1>1, <1>2, <1>5, NodesStay
<1>10. mode' \in [Servers -> [Events -> {"none", "async"}]]
  BY <1>1, <1>2 DEF SmTypes
<1>11. SmTypes'
  BY <1>1, <1>2, <1>6, <1>10 DEF SmTypes
<1> QED BY <1>6, <1>8, <1>9, <1>11 DEF SmInv

-----------------------------------------------------------------------------
(***************************************************************************)
(* The operations that enter a function.                                   *)
(***************************************************************************)
\* Nothing changes but the stack.
LEMMA OnlyStack ==
  ASSUME SmInv, sm, Rests(stack', masked', queue, re),
         \A A : Moving(stack', A) <=> Moving(stack, A),
         \A t \in NodeTimers : Busy(stack, t) => Busy(stack', t),
         UNCHANGED <<sm, current, re, bitmap, node, server, mode, queue, tick, timer, list>>
  PROVE  SmInv'
<1>1. SmTypes /\ StackInv /\ ServersInv /\ NodesOK /\ RunOK
  BY DEF SmInv
<1>2. StackInv' /\ stack' \in Seq(AllFrames) /\ masked' \in BOOLEAN
  BY RestsStays
<1>3. ServersInv'
  BY <1>1, ServersKept
<1>4. NodesOK' /\ RunOK'
  BY <1>1, NodesStay
<1>5. SmTypes'
  BY <1>1, <1>2 DEF SmTypes
<1> QED BY <1>2, <1>3, <1>4, <1>5 DEF SmInv

LEMMA PublishKeeps ==
  ASSUME SmInv, NEW e \in Events, sh_sm_publish_event(e)
  PROVE  SmInv'
<1>1. SmTypes /\ StackInv /\ ServersInv /\ NodesOK /\ RunOK
  BY DEF SmInv
<1> DEFINE g == PubFrame(e)
<1>2. /\ SmCanCall("publish") /\ sm /\ stack' = <<g>> \o stack
      /\ UNCHANGED <<sm, current, re, bitmap, node, server, mode, queue, tick, timer, list, masked>>
  BY DEF sh_sm_publish_event, PublishEnter, Enter, SmCanCall, smVars, eventVars, timerVars
<1>3. g \in PubFrames /\ g.pc = "check" /\ g.msg = "none" /\ g.cur = "head"
  BY DEF PubFrame, PubFrames
<1> HIDE DEF g
<1>4. /\ g \in Frames /\ g \in AllFrames /\ IsPub(g) /\ ~IsExec(g) /\ ~IsOvt(g) /\ ~IsSm(g)
      /\ ~Locked(g)
  BY <1>3, BusFrames DEF Frames, PubFrames, IsPub, IsExec, Locked
<1>5. SmFrameOK(g, queue, current, re, LiveTimers)
  <2>1. FrameOK(g, queue)
    BY <1>3, <1>4 DEF FrameOK
  <2> QED BY <1>3, <1>4, <2>1, BusFrames
<1>6. MayTop(g, stack, NodeTimers)
  <2>1. 1 \in DOMAIN stack => ~Overticks(stack[1], NodeTimers)
    BY <1>1, <1>2, Quiet
  <2> QED BY <1>4, <2>1 DEF MayTop
<1>7. /\ Rests(stack', masked', queue, re)
      /\ \A A : Moving(stack', A) <=> (IsTrans(g) /\ g.at \in A) \/ Moving(stack, A)
      /\ \A t : Busy(stack', t) <=> Calls(g, t) \/ Busy(stack, t)
  BY <1>1, <1>2, <1>4, <1>5, <1>6, Pushes
<1>8. \A A : Moving(stack', A) <=> Moving(stack, A)
  BY <1>4, <1>7, BusFrames
<1> QED BY <1>2, <1>7, <1>8, OnlyStack

\* The main loop, or a callback, runs the handler.
LEMMA HandlerKeeps ==
  ASSUME IsrOps \cap {"trans_to", "sm_handler", "start_private"} = {}, SmInv, sh_sm_handler
  PROVE  SmInv'
<1>1. SmTypes /\ StackInv /\ ServersInv /\ NodesOK /\ RunOK
  BY DEF SmInv
<1> DEFINE g == [op |-> "sm", pc |-> "check", at |-> "global", srv |-> "none",
                 level |-> FALSE, ok |-> TRUE]
<1>2. /\ SmCanCall("sm_handler") /\ sm /\ current # "none" /\ stack' = <<g>> \o stack
      /\ UNCHANGED <<sm, current, re, bitmap, node, server, mode, queue, tick, timer, list, masked>>
  BY DEF sh_sm_handler, Enter, SmCanCall, smVars, eventVars, timerVars
<1>3. /\ g \in SmFrames /\ g.pc = "check" /\ g.at = "global" /\ IsSm(g)
      /\ ~IsPub(g) /\ ~IsExec(g) /\ ~IsOvt(g) /\ ~IsTmr(g) /\ ~IsTrans(g) /\ ~Locked(g)
  BY DEF SmFrames, IsSm, IsPub, IsExec, IsOvt, IsTmr, IsTrans, Locked
<1> HIDE DEF g
<1>4. g \in AllFrames /\ SmFrameOK(g, queue, current, re, LiveTimers) /\ \A t : ~Calls(g, t)
  BY <1>2, <1>3 DEF AllFrames, SmFrameOK, Calls
<1>5. MayTop(g, stack, NodeTimers)
  <2>1. MainOnly => DOMAIN stack = {}
    BY <1>2 DEF SmCanCall, CanCall, MainOnly
  <2> QED BY <1>1, <1>2, <1>3, <1>4, <2>1, CallQuiet
<1>7. /\ Rests(stack', masked', queue, re)
      /\ \A A : Moving(stack', A) <=> (IsTrans(g) /\ g.at \in A) \/ Moving(stack, A)
      /\ \A t : Busy(stack', t) <=> Calls(g, t) \/ Busy(stack, t)
  BY <1>1, <1>2, <1>3, <1>4, <1>5, Pushes
<1>8. \A A : Moving(stack', A) <=> Moving(stack, A)
  BY <1>3, <1>7
<1> QED BY <1>2, <1>7, <1>8, OnlyStack

\* A transition starts: the old state stops listening.
LEMMA TransKeeps ==
  ASSUME IsrOps \cap {"trans_to", "sm_handler", "start_private"} = {}, SmInv,
         NEW s \in Servers, sh_sm_trans_to(s)
  PROVE  SmInv'
<1>1. SmTypes /\ StackInv /\ ServersInv /\ NodesOK /\ RunOK
  BY DEF SmInv
<1> DEFINE a == IF current = "none" THEN "start" ELSE "clear"
           g == [op |-> "trans", pc |-> "check", to |-> s, level |-> FALSE, ok |-> TRUE, at |-> a]
<1>2. /\ SmCanCall("trans_to") /\ sm /\ stack' = <<g>> \o stack
      /\ server' = IF current = "none" THEN server ELSE [server EXCEPT ![current] = "stopped"]
      /\ UNCHANGED <<sm, current, re, bitmap, node, mode, queue, tick, timer, list, masked>>
  BY DEF sh_sm_trans_to, Enter, SmCanCall, smVars, timerVars
<1>3. /\ g \in TransFrames /\ g.pc = "check" /\ g.at = a /\ IsTrans(g)
      /\ ~IsPub(g) /\ ~IsExec(g) /\ ~IsOvt(g) /\ ~IsTmr(g) /\ ~IsSm(g) /\ ~Locked(g)
  BY DEF TransFrames, IsSm, IsPub, IsExec, IsOvt, IsTmr, IsTrans, Locked
<1> HIDE DEF g
<1>4. g \in AllFrames /\ SmFrameOK(g, queue, current, re, LiveTimers) /\ \A t : ~Calls(g, t)
  BY <1>2, <1>3 DEF AllFrames, SmFrameOK, Calls
<1>5. MayTop(g, stack, NodeTimers) /\ \A A : ~Moving(stack, A)
  BY <1>1, <1>2, <1>3, <1>4, CallQuiet
<1>7. /\ Rests(stack', masked', queue, re)
      /\ \A A : Moving(stack', A) <=> (IsTrans(g) /\ g.at \in A) \/ Moving(stack, A)
      /\ \A t : Busy(stack', t) <=> Calls(g, t) \/ Busy(stack, t)
  BY <1>1, <1>2, <1>3, <1>4, <1>5, Pushes
<1>8. StackInv' /\ stack' \in Seq(AllFrames) /\ masked' \in BOOLEAN
  BY <1>2, <1>7, RestsStays
<1>9. \A A : Moving(stack', A) <=> a \in A
  BY <1>3, <1>5, <1>7
<1>10. /\ server' \in [Servers -> {"absent", "stopped", "started", "freed"}]
       /\ \A u \in Servers : /\ server'[u] # "started"
                             /\ server[u] = "freed" => server'[u] = "freed" \/ u = current
  <2>1. current = "none" \/ current \in Servers
    BY <1>1 DEF SmTypes
  <2>2. "none" \notin Servers
    BY SmAssumption
  <2>3. \A u \in Servers : server[u] = "started" => u = current
    BY <1>1 DEF ServersInv
  <2> QED BY <1>1, <1>2, <2>1, <2>2, <2>3 DEF SmTypes
<1>11. ServersInv'
  <2>1. \A u \in Servers : u # current => /\ server[u] = "freed" \/ queue[u] = <<>>
                                          /\ bitmap[u] = {} /\ list[u] = <<>>
    BY <1>1 DEF ServersInv
  <2>2. (a \in {"timers", "start"} \/ a \in {"start"}) => \A u \in Servers : u # current
    BY SmAssumption
  <2> HIDE DEF a
  <2> DEFINE fs == stack'
  <2>3. \A A : Moving(fs, A) <=> a \in A
    BY <1>9
  <2> HIDE DEF fs
  <2> QED BY <1>2, <1>10, <2>1, <2>2, <2>3 DEF ServersInv, fs
<1>12. NodesOK' /\ RunOK'
  BY <1>1, <1>2, <1>7, NodesStay
<1>13. SmTypes'
  BY <1>1, <1>2, <1>8, <1>10 DEF SmTypes
<1> QED BY <1>8, <1>11, <1>12, <1>13 DEF SmInv

-----------------------------------------------------------------------------
(***************************************************************************)
(* The steps of sh_sm_handler.                                             *)
(***************************************************************************)
\* The handler goes on at g and calls h.
LEMMA CallsOn ==
  ASSUME SmTypes, StackInv, stack # <<>>, IsSm(Top),
         NEW g \in AllFrames, IsSm(g), SmFrameOK(g, queue, current, re, LiveTimers),
         NEW h \in AllFrames, ~Locked(h), ~IsOvt(h), ~IsSm(h), ~IsTrans(h),
         SmFrameOK(h, queue, current, re, LiveTimers),
         stack' = <<h>> \o (<<g>> \o Tail(stack)), masked' = masked
  PROVE  /\ Rests(stack', masked', queue, re)
         /\ \A A : Moving(stack', A) <=> Moving(stack, A)
         /\ \A t : Busy(stack, t) => Busy(stack', t)
<1> DEFINE t == Tail(stack)
           N == NodeTimers
           L == LiveTimers
           S == <<g>> \o t
           R == <<h>> \o S
<1>1. Top \in AllFrames /\ t \in Seq(AllFrames) /\ stack = <<Top>> \o t
  BY StackSplit DEF SmTypes
<1>2. /\ StackOK(stack, queue, current, re, L, N) /\ (masked <=> AnyLocked(stack))
      /\ masked \in BOOLEAN
  BY DEF StackInv, SmTypes
<1>3. SmFrameOK(g, queue, current, re, L) /\ SmFrameOK(h, queue, current, re, L)
  OBVIOUS
<1>4. /\ ~IsPub(Top) /\ ~IsOvt(Top) /\ ~Locked(Top) /\ ~IsTrans(Top)
      /\ ~IsPub(g) /\ ~IsOvt(g) /\ ~Locked(g) /\ ~IsTrans(g) /\ ~IsTmr(g)
      /\ \A u : ~Calls(Top, u)
  BY <1>1, SmFrameKinds DEF IsSm, IsPub, IsOvt, IsTrans, IsTmr, Calls
<1>5. stack' = R /\ S = <<g>> \o t /\ R = <<h>> \o S
  OBVIOUS
<1> HIDE DEF t, N, L, S, R
<1>6. /\ StackOK(t, queue, current, re, L, N) /\ MayTop(Top, t, N)
      /\ AnyLocked(stack) <=> Locked(Top) \/ AnyLocked(t)
      /\ \A A : Moving(stack, A) <=> (IsTrans(Top) /\ Top.at \in A) \/ Moving(t, A)
      /\ \A u : Busy(stack, u) <=> Calls(Top, u) \/ Busy(t, u)
  BY <1>1, <1>2, StackPush
<1>7. MayTop(g, t, N)
  BY <1>4, <1>6 DEF MayTop
<1>8. S \in Seq(AllFrames) /\ Shifted(S, g, t)
  BY <1>1, <1>5, PushPlaces
<1>9. /\ StackOK(S, queue, current, re, L, N)
      /\ AnyLocked(S) <=> Locked(g) \/ AnyLocked(t)
      /\ \A A : Moving(S, A) <=> (IsTrans(g) /\ g.at \in A) \/ Moving(t, A)
      /\ \A u : Busy(S, u) <=> Calls(g, u) \/ Busy(t, u)
  BY <1>1, <1>3, <1>5, <1>6, <1>7, StackPush
<1>10. MayTop(h, S, N)
  <2>1. \A j \in DOMAIN S : ~IsTrans(S[j]) /\ ~IsOvt(S[j])
    BY <1>4, <1>6, <1>8 DEF MayTop, Shifted
  <2>2. ~Overticks(S[1], N)
    BY <1>4, <1>8 DEF Overticks, Shifted
  <2> QED BY <2>1, <2>2 DEF MayTop
<1>11. /\ StackOK(R, queue, current, re, L, N) /\ R \in Seq(AllFrames)
       /\ AnyLocked(R) <=> Locked(h) \/ AnyLocked(S)
       /\ \A A : Moving(R, A) <=> (IsTrans(h) /\ h.at \in A) \/ Moving(S, A)
       /\ \A u : Busy(R, u) <=> Calls(h, u) \/ Busy(S, u)
  <2>1. R \in Seq(AllFrames)
    BY <1>5, <1>8, PushPlaces
  <2> QED BY <1>3, <1>5, <1>8, <1>9, <1>10, <2>1, StackPush
<1>12. masked' \in BOOLEAN /\ (masked' <=> AnyLocked(R))
  BY <1>2, <1>4, <1>6, <1>9, <1>11
<1>13. Rests(R, masked', queue, re)
  BY <1>11, <1>12 DEF Rests, N, L
<1> QED BY <1>4, <1>5, <1>6, <1>9, <1>11, <1>13

\* What a step of the handler finds on top of the stack.
LEMMA HandlerTop ==
  ASSUME SmInv, NEW a, HandlerAt(a)
  PROVE  /\ SmTypes /\ StackInv /\ stack # <<>> /\ sm /\ IsSm(Top) /\ Top.at = a
         /\ Top \in SmFrames /\ current # "none" /\ current \in Servers
         /\ SmFrameOK(Top, queue, current, re, LiveTimers)
<1>1. SmTypes /\ StackInv /\ stack # <<>> /\ sm /\ IsSm(Top) /\ Top.at = a
  BY DEF SmInv, ServersInv, HandlerAt
<1>2. Top \in SmFrames /\ 1 \in DOMAIN stack
  BY <1>1, StackSplit, SmFrameKinds DEF SmTypes
<1>3. SmFrameOK(Top, queue, current, re, LiveTimers)
  BY <1>1, <1>2 DEF StackInv, StackOK, Top
<1>4. current # "none" /\ current \in Servers
  BY <1>1, <1>3 DEF SmFrameOK, SmTypes
<1> QED BY <1>1, <1>2, <1>3, <1>4

\* The same function, at another place.
LEMMA SmGoes ==
  ASSUME NEW f \in SmFrames, IsSm(f), NEW g \in SmFrames
  PROVE  g \in AllFrames /\ IsSm(g) /\ Kind(f, g) /\ ~Locked(f) /\ ~Locked(g)
         /\ ~IsOvt(f) /\ ~IsPub(g) /\ ~IsExec(g) /\ ~IsTrans(g) /\ ~IsTmr(g)
         /\ ~IsTrans(f) /\ ~IsTmr(f)
BY DEF SmFrames, AllFrames, Kind, IsSm, IsPub, IsExec, IsTmr, IsTrans, IsOvt, Locked

LEMMA HandlerCalls ==
  ASSUME SmInv, HandlerGlobal \/ HandlerPrivate
  PROVE  SmInv'
<1> DEFINE a == IF HandlerGlobal THEN "global" ELSE "private"
           g == IF HandlerGlobal THEN [Top EXCEPT !.at = "private", !.srv = current]
                                 ELSE [Top EXCEPT !.at = "event"]
           l == IF HandlerGlobal THEN Global ELSE current
           h == TimerFrame(l)
<1>1. /\ HandlerAt(a) /\ stack' = <<h>> \o <<g>> \o Tail(stack) /\ masked' = masked
      /\ UNCHANGED <<sm, current, re, bitmap, node, server, mode, queue, tick, timer, list>>
  BY DEF HandlerGlobal, HandlerPrivate, Call, smVars, eventVars, timerVars
<1>2. /\ SmTypes /\ StackInv /\ stack # <<>> /\ sm /\ IsSm(Top) /\ Top.at = a
      /\ Top \in SmFrames /\ current # "none" /\ current \in Servers
      /\ SmFrameOK(Top, queue, current, re, LiveTimers)
  BY <1>1, HandlerTop
<1>3. /\ g \in SmFrames /\ g.at = (IF HandlerGlobal THEN "private" ELSE "event")
      /\ g.srv = IF HandlerGlobal THEN current ELSE Top.srv
  BY <1>2 DEF SmFrames
<1>4. l \in Heads
  BY <1>2, SmAssumption
<1> HIDE DEF l
<1>5. /\ h \in AllFrames /\ ~Locked(h) /\ ~IsOvt(h) /\ ~IsSm(h) /\ ~IsTrans(h)
      /\ SmFrameOK(h, queue, current, re, LiveTimers)
  <2>1. h \in TimerFrames /\ h.pc = "check" /\ h.cur = "head" /\ h.op = "tmr"
    BY <1>2, <1>4 DEF TimerFrame, TimerFrames, SmTypes
  <2> HIDE DEF h
  <2>2. /\ h \in AllFrames /\ ~Locked(h) /\ ~IsOvt(h) /\ ~IsSm(h) /\ ~IsTrans(h)
        /\ ~IsPub(h) /\ ~IsExec(h)
    BY <2>1 DEF AllFrames, Locked, IsOvt, IsSm, IsTrans, IsPub, IsExec
  <2> QED BY <2>1, <2>2 DEF SmFrameOK
<1> HIDE DEF h
<1>6. g \in AllFrames /\ IsSm(g) /\ SmFrameOK(g, queue, current, re, LiveTimers)
  <2>1. /\ g \in AllFrames /\ IsSm(g) /\ ~IsPub(g) /\ ~IsExec(g) /\ ~IsTrans(g) /\ ~IsTmr(g)
    BY <1>2, <1>3, SmGoes
  <2>2. CASE HandlerGlobal
    BY <1>2, <1>3, <2>1, <2>2 DEF SmFrameOK
  <2>3. CASE ~HandlerGlobal
    BY <1>2, <1>3, <2>1, <2>3 DEF SmFrameOK
  <2> QED BY <2>2, <2>3
<1> HIDE DEF g
<1>7. Tail(stack) \in Seq(AllFrames)
  BY <1>2, StackSplit DEF SmTypes
<1>8. stack' = <<h>> \o (<<g>> \o Tail(stack))
  <2>1. <<h>> \in Seq(AllFrames) /\ <<g>> \in Seq(AllFrames)
    BY <1>5, <1>6
  <2> QED BY <1>1, <1>7, <2>1, ConcatAssociative
<1>9. /\ Rests(stack', masked', queue, re)
      /\ \A A : Moving(stack', A) <=> Moving(stack, A)
      /\ \A t : Busy(stack, t) => Busy(stack', t)
  BY <1>1, <1>2, <1>5, <1>6, <1>8, CallsOn
<1> QED BY <1>1, <1>2, <1>9, OnlyStack

LEMMA HandlerEvents ==
  ASSUME SmInv, HandlerEvent
  PROVE  SmInv'
<1> DEFINE g == [Top EXCEPT !.at = "again"]
           h == ExecFrame(Top.srv)
           cs == IF queue[Top.srv] = <<>> THEN <<>> ELSE <<h>>
<1>1. /\ HandlerAt("event") /\ stack' = cs \o <<g>> \o Tail(stack) /\ masked' = masked
      /\ UNCHANGED <<sm, current, re, bitmap, node, server, mode, queue, tick, timer, list>>
  BY DEF HandlerEvent, Call, smVars, eventVars, timerVars
<1>2. /\ SmTypes /\ StackInv /\ stack # <<>> /\ sm /\ IsSm(Top) /\ Top.at = "event"
      /\ Top \in SmFrames /\ current # "none" /\ current \in Servers
      /\ SmFrameOK(Top, queue, current, re, LiveTimers)
  BY <1>1, HandlerTop
<1>3. g \in SmFrames /\ g.at = "again" /\ g.srv = Top.srv
  BY <1>2 DEF SmFrames
<1>4. /\ g \in AllFrames /\ IsSm(g) /\ Kind(Top, g) /\ ~Locked(Top) /\ ~Locked(g)
      /\ ~IsOvt(Top) /\ ~IsPub(g) /\ ~IsExec(g) /\ ~IsTrans(g) /\ ~IsTmr(g)
      /\ ~IsTrans(Top) /\ ~IsTmr(Top)
  BY <1>2, <1>3, SmGoes
<1>5. SmFrameOK(g, queue, current, re, LiveTimers)
  BY <1>2, <1>3, <1>4 DEF SmFrameOK
<1>6. Tail(stack) \in Seq(AllFrames)
  BY <1>2, StackSplit DEF SmTypes
<1>7. Top.srv \in Servers
  BY <1>2 DEF SmFrameOK, SmFrames
<1> HIDE DEF g
<1>8. CASE queue[Top.srv] = <<>>
  <2> DEFINE t == Tail(stack)
             S == <<g>> \o t
  <2>1. stack' = <<g>> \o Tail(stack)
    <3>1. cs = <<>> /\ <<g>> \in Seq(AllFrames)
      BY <1>4, <1>8
    <3>2. cs \o <<g>> = <<g>>
      BY <3>1, ConcatEmptySeq
    <3>3. stack' = (cs \o <<g>>) \o Tail(stack)
      BY <1>1, <1>6, <3>1, ConcatAssociative
    <3> QED BY <3>2, <3>3
  <2>2. Rests(stack', masked', queue, re)
    BY <1>1, <1>2, <1>4, <1>5, <2>1, Replaces
  <2>3. /\ \A A : Moving(stack', A) <=> (IsTrans(g) /\ g.at \in A) \/ Moving(Tail(stack), A)
        /\ \A A : Moving(stack, A) <=> (IsTrans(Top) /\ Top.at \in A) \/ Moving(Tail(stack), A)
        /\ \A u : Busy(stack', u) <=> Calls(g, u) \/ Busy(Tail(stack), u)
        /\ \A u : Busy(stack, u) <=> Calls(Top, u) \/ Busy(Tail(stack), u)
    BY <1>2, <1>4, <1>6, <2>1, ReplacedPlaces
  <2>4. /\ \A A : Moving(stack', A) <=> Moving(stack, A)
        /\ \A u : Busy(stack, u) => Busy(stack', u)
    BY <1>4, <2>3 DEF Calls
  <2> QED BY <1>1, <1>2, <2>2, <2>4, OnlyStack
<1>9. CASE queue[Top.srv] # <<>>
  <2>1. /\ h \in Frames /\ h \in AllFrames /\ ~Locked(h) /\ ~IsOvt(h) /\ ~IsSm(h) /\ ~IsTrans(h)
        /\ SmFrameOK(h, queue, current, re, LiveTimers)
    <3>1. /\ h \in ExecFrames /\ h.pc = "check" /\ h.op = "exec" /\ h.msg = "none"
          /\ h.more = FALSE
      BY <1>7 DEF ExecFrame, ExecFrames
    <3> HIDE DEF h
    <3>2. /\ h \in Frames /\ ~Locked(h) /\ ~IsPub(h) /\ IsExec(h)
      BY <3>1 DEF Frames, Locked, IsPub, IsExec
    <3>3. FrameOK(h, queue)
      BY <3>1, <3>2 DEF FrameOK
    <3> QED BY <3>2, <3>3, BusFrames
  <2>2. stack' = <<h>> \o (<<g>> \o Tail(stack))
    <3> HIDE DEF h
    <3>1. cs = <<h>> /\ <<h>> \in Seq(AllFrames) /\ <<g>> \in Seq(AllFrames)
      BY <1>4, <1>9, <2>1
    <3> QED BY <1>1, <1>6, <3>1, ConcatAssociative
  <2> HIDE DEF h
  <2>3. /\ Rests(stack', masked', queue, re)
        /\ \A A : Moving(stack', A) <=> Moving(stack, A)
        /\ \A t : Busy(stack, t) => Busy(stack', t)
    BY <1>1, <1>2, <1>4, <1>5, <2>1, <2>2, CallsOn
  <2> QED BY <1>1, <1>2, <2>3, OnlyStack
<1> QED BY <1>8, <1>9

\* Below a handler that only the main loop calls there is no other.
LEMMA HandlerAlone ==
  ASSUME SmTypes, StackInv, stack # <<>>, IsSm(Top), MainOnly
  PROVE  \A i \in DOMAIN Tail(stack) : FALSE
<1> DEFINE t == Tail(stack)
<1>1. Top \in AllFrames /\ t \in Seq(AllFrames) /\ stack = <<Top>> \o t
  BY StackSplit DEF SmTypes
<1>2. StackOK(stack, queue, current, re, LiveTimers, NodeTimers)
  BY DEF StackInv
<1> HIDE DEF t
<1>3. MayTop(Top, t, NodeTimers)
  BY <1>1, <1>2, StackPush
<1> QED BY <1>3 DEF MayTop, t

LEMMA HandlerGoesRound ==
  ASSUME SmInv, HandlerAgain
  PROVE  SmInv'
<1>1. /\ HandlerAt("again") /\ re' = FALSE /\ masked' = masked
      /\ IF re THEN stack' = [stack EXCEPT ![1] = [Top EXCEPT !.at = "global"]]
               ELSE stack' = Tail(stack)
      /\ UNCHANGED <<sm, current, bitmap, node, server, mode, queue, tick, timer, list>>
  BY DEF HandlerAgain, Goto, Leave, smVars, eventVars, timerVars
<1>2. /\ SmTypes /\ StackInv /\ stack # <<>> /\ sm /\ IsSm(Top) /\ Top.at = "again"
      /\ Top \in SmFrames /\ current # "none" /\ current \in Servers
      /\ SmFrameOK(Top, queue, current, re, LiveTimers)
  BY <1>1, HandlerTop
<1>3. /\ SmTypes /\ StackInv /\ ServersInv /\ NodesOK /\ RunOK /\ re \in BOOLEAN
  BY DEF SmInv, SmTypes
<1> DEFINE t == Tail(stack)
           L == LiveTimers
           N == NodeTimers
<1>4. CASE re
  <2> DEFINE g == [Top EXCEPT !.at = "global"]
  <2>1. g \in SmFrames /\ g.at = "global"
    BY <1>2 DEF SmFrames
  <2>2. /\ g \in AllFrames /\ IsSm(g) /\ Kind(Top, g) /\ ~Locked(Top) /\ ~Locked(g)
        /\ ~IsOvt(Top) /\ ~IsPub(g) /\ ~IsExec(g) /\ ~IsTrans(g) /\ ~IsTmr(g)
        /\ ~IsTrans(Top) /\ ~IsTmr(Top)
    BY <1>2, <2>1, SmGoes
  <2> HIDE DEF g
  <2>3. /\ t \in Seq(AllFrames) /\ Top \in AllFrames /\ stack = <<Top>> \o t
        /\ stack' = <<g>> \o t
    BY <1>1, <1>2, <1>4, <2>2, StackSplit DEF g, SmTypes
  <2>4. MainOnly => \A i \in DOMAIN t : FALSE
    BY <1>2, HandlerAlone
  <2>5. StackOK(stack, queue, current, re, L, N)
    BY <1>2 DEF StackInv
  <2>6. SmFrameOK(g, queue, current, FALSE, L)
    BY <1>2, <2>1, <2>2 DEF SmFrameOK
  <2> HIDE DEF t, L, N
  <2>7. StackOK(t, queue, current, re, L, N)
    BY <2>3, <2>5, StackPush
  <2>8. StackOK(t, queue, current, FALSE, L, N)
    <3>1. \/ FALSE \/ (current = current /\ FALSE = re)
          \/ \A i \in DOMAIN t : ~IsSm(t[i]) \/ ~MainOnly
      BY <2>4
    <3>2. \A i \in DOMAIN t : IsTmr(t[i]) /\ t[i].pc = "cb" =>
            /\ t[i].cur \in L => t[i].cur \in L
            /\ t[i].cur \in N <=> t[i].cur \in N
      OBVIOUS
    <3> QED BY <2>3, <2>7, <3>1, <3>2, StackChanged
  <2>9. Rests(stack', masked', queue, FALSE)
    BY <1>1, <1>2, <2>2, <2>3, <2>6, <2>8, Replaced DEF t, L, N
  <2>10. /\ \A A : Moving(stack', A) <=> (IsTrans(g) /\ g.at \in A) \/ Moving(Tail(stack), A)
         /\ \A A : Moving(stack, A) <=> (IsTrans(Top) /\ Top.at \in A) \/ Moving(Tail(stack), A)
         /\ \A u : Busy(stack', u) <=> Calls(g, u) \/ Busy(Tail(stack), u)
         /\ \A u : Busy(stack, u) <=> Calls(Top, u) \/ Busy(Tail(stack), u)
    BY <1>2, <2>2, <2>3, ReplacedPlaces DEF t
  <2>11. /\ \A A : Moving(stack', A) <=> Moving(stack, A)
         /\ \A u : Busy(stack, u) => Busy(stack', u)
    BY <2>2, <2>10 DEF Calls
  <2>12. StackInv' /\ stack' \in Seq(AllFrames) /\ masked' \in BOOLEAN
    BY <1>1, <2>9, RestsStays
  <2>13. ServersInv'
    BY <1>1, <1>2, <1>3, <2>11, ServersKept
  <2>14. NodesOK' /\ RunOK'
    BY <1>1, <1>3, <2>11, NodesStay
  <2>15. SmTypes'
    BY <1>1, <1>3, <2>12 DEF SmTypes
  <2> QED BY <2>12, <2>13, <2>14, <2>15 DEF SmInv
<1>5. CASE ~re
  <2>1. ~Locked(Top) /\ ~IsTrans(Top) /\ ~IsTmr(Top)
    BY <1>2, SmGoes
  <2>2. stack' = Tail(stack) /\ re' = re
    BY <1>1, <1>3, <1>5
  <2>3. /\ Rests(stack', masked', queue, re)
        /\ \A A : Moving(stack, A) <=> (IsTrans(Top) /\ Top.at \in A) \/ Moving(stack', A)
        /\ \A u : Busy(stack, u) <=> Calls(Top, u) \/ Busy(stack', u)
    BY <1>1, <1>2, <2>1, <2>2, Popped
  <2>4. /\ \A A : Moving(stack', A) <=> Moving(stack, A)
        /\ \A u : Busy(stack, u) => Busy(stack', u)
    BY <2>1, <2>3 DEF Calls
  <2> QED BY <1>1, <1>2, <2>2, <2>3, <2>4, OnlyStack
<1> QED BY <1>4, <1>5

-----------------------------------------------------------------------------
(***************************************************************************)
(* The steps of sh_sm_trans_to.                                            *)
(***************************************************************************)
LEMMA TransGoes ==
  ASSUME NEW f \in TransFrames, NEW g \in TransFrames
  PROVE  /\ g \in AllFrames /\ IsTrans(g) /\ Kind(f, g) /\ ~Locked(f) /\ ~Locked(g)
         /\ ~IsOvt(f) /\ ~IsPub(f) /\ ~IsTmr(f)
         /\ ~IsOvt(g) /\ ~IsPub(g) /\ ~IsExec(g) /\ ~IsSm(g) /\ ~IsTmr(g)
         /\ f.to \in Servers
BY DEF TransFrames, AllFrames, Kind, IsSm, IsPub, IsExec, IsTmr, IsTrans, IsOvt, Locked

\* Whatever a frame other than a publication and sh_sm_timer_overtick_cb's is
\* on top of, it is not a transition, nor a timer of the machine running out.
LEMMA Beneath ==
  ASSUME NEW t \in Seq(AllFrames), NEW f, NEW q, NEW c, NEW r, NEW L, NEW N,
         StackOK(t, q, c, r, L, N), MayTop(f, t, N), ~IsPub(f), ~IsOvt(f)
  PROVE  \A i \in DOMAIN t : ~IsTrans(t[i]) /\ ~IsOvt(t[i]) /\ ~Overticks(t[i], N)
<1>1. DOMAIN t = 1 .. Len(t) /\ Len(t) \in Nat
  BY LenProperties
<1>2. ASSUME NEW i \in DOMAIN t PROVE ~IsTrans(t[i]) /\ ~IsOvt(t[i])
  BY DEF MayTop
<1>3. ASSUME NEW i \in DOMAIN t, Overticks(t[i], N) PROVE FALSE
  <2>1. i # 1
    BY <1>3 DEF MayTop
  <2>2. i - 1 \in DOMAIN t /\ (i - 1) + 1 = i
    BY <1>1, <2>1
  <2>3. IsOvt(t[i - 1])
    BY <1>3, <2>2 DEF StackOK, PlaceOK
  <2> QED BY <1>2, <2>2, <2>3
<1> QED BY <1>2, <1>3

LEMMA BelowTop ==
  ASSUME SmTypes, StackInv, stack # <<>>, ~IsPub(Top), ~IsOvt(Top)
  PROVE  \A i \in DOMAIN Tail(stack) :
           /\ ~IsTrans(Tail(stack)[i]) /\ ~IsOvt(Tail(stack)[i])
           /\ ~Overticks(Tail(stack)[i], NodeTimers)
<1> DEFINE t == Tail(stack)
           N == NodeTimers
<1>1. Top \in AllFrames /\ t \in Seq(AllFrames) /\ stack = <<Top>> \o t
  BY StackSplit DEF SmTypes
<1>2. StackOK(stack, queue, current, re, LiveTimers, N)
  BY DEF StackInv
<1> HIDE DEF t, N
<1>3. MayTop(Top, t, N) /\ StackOK(t, queue, current, re, LiveTimers, N)
  BY <1>1, <1>2, StackPush
<1>4. \A i \in DOMAIN t : ~IsTrans(t[i]) /\ ~IsOvt(t[i]) /\ ~Overticks(t[i], N)
  BY <1>1, <1>3, Beneath
<1> QED BY <1>4 DEF t, N

\* The list of a state that has no timers gets none when timers are removed.
LEMMA StaysEmpty ==
  ASSUME SmTypes, NEW T, Removed(T), NEW s \in Servers, list[s] = <<>>
  PROVE  list'[s] = <<>>
<1>1. s \in Heads
  BY SmAssumption
<1>2. list[s] \in Seq(Timers) /\ list'[s] \in Seq(Timers)
  BY <1>1 DEF SmTypes, Removed, Lists
<1>3. \A y : ~OnList(list'[s], y)
  BY <1>1, <1>2, NoneOnList DEF Removed
<1> QED BY <1>2, <1>3, NoneOnList

\* What a step of a transition finds.
LEMMA TransTop ==
  ASSUME SmInv, NEW a, TransAt(a)
  PROVE  /\ SmTypes /\ StackInv /\ ServersInv /\ NodesOK /\ RunOK
         /\ stack # <<>> /\ sm /\ IsTrans(Top) /\ Top.at = a /\ Top \in TransFrames
         /\ a # "start" => current \in Servers
         /\ \A s \in Servers : server[s] # "started"
         /\ a \in {"timers", "start"} =>
              \A s \in Servers : server[s] = "freed" \/ queue[s] = <<>>
         /\ a = "start" => \A s \in Servers : bitmap[s] = {} /\ list[s] = <<>>
         /\ \A A : Moving(stack, A) <=> a \in A
         /\ \A i \in DOMAIN Tail(stack) : ~Overticks(Tail(stack)[i], NodeTimers)
         /\ \A A : ~Moving(Tail(stack), A)
<1>1. SmTypes /\ StackInv /\ ServersInv /\ NodesOK /\ RunOK /\ stack # <<>> /\ IsTrans(Top) /\ Top.at = a
  BY DEF SmInv, TransAt
<1>2. Top \in TransFrames /\ 1 \in DOMAIN stack /\ Top \in AllFrames
  BY <1>1, StackSplit, SmFrameKinds DEF SmTypes
<1>3. SmFrameOK(Top, queue, current, re, LiveTimers)
  BY <1>1, <1>2 DEF StackInv, StackOK, Top
<1>4. a # "start" => current \in Servers
  BY <1>1, <1>3 DEF SmFrameOK, SmTypes
<1>5. ~IsPub(Top) /\ ~IsOvt(Top)
  BY <1>2, TransGoes
<1>6. \A i \in DOMAIN Tail(stack) : /\ ~IsTrans(Tail(stack)[i])
                                    /\ ~Overticks(Tail(stack)[i], NodeTimers)
  BY <1>1, <1>5, BelowTop
<1>7. \A A : ~Moving(Tail(stack), A)
  BY <1>6 DEF Moving
<1>8. \A A : Moving(stack, A) <=> a \in A
  <2> DEFINE t == Tail(stack)
  <2>1. t \in Seq(AllFrames) /\ stack = <<Top>> \o t
    BY <1>1, StackSplit DEF SmTypes
  <2> HIDE DEF t
  <2>2. \A A : Moving(stack, A) <=> (IsTrans(Top) /\ Top.at \in A) \/ Moving(t, A)
    BY <1>2, <2>1, StackPush
  <2> QED BY <1>1, <1>7, <2>2 DEF t
<1>9. a \in Anywhere
  BY <1>1, <1>2 DEF TransFrames, Anywhere
<1> QED BY <1>1, <1>2, <1>4, <1>6, <1>7, <1>8, <1>9 DEF ServersInv

\* Whoever saved a place in the queue of server s, whose messages are taken,
\* loses it.
LEMMA StackDrained ==
  ASSUME NEW t \in Seq(AllFrames), NEW s \in Servers, NEW p, NEW q, NEW c, NEW r, NEW L, NEW N,
         StackOK(t, p, c, r, L, N), \A u \in Servers : u # s => q[u] = p[u],
         NEW fs, fs = Break(t, DrainBreaks(t, s))
  PROVE  /\ fs \in Seq(AllFrames) /\ StackOK(fs, q, c, r, L, N)
         /\ AnyLocked(fs) <=> AnyLocked(t)
         /\ \A A : Moving(fs, A) <=> Moving(t, A)
         /\ \A u : Busy(fs, u) <=> Busy(t, u)
         /\ \A f : MayTop(f, fs, N) <=> MayTop(f, t, N)
<1> DEFINE I == DrainBreaks(t, s)
<1>1. ASSUME NEW i \in DOMAIN t, IsExec(t[i]), Locked(t[i]), t[i].more, i \notin I,
             p[t[i].srv] # <<>>
      PROVE  q[t[i].srv] # <<>>
  <2>1. t[i].srv # s
    BY <1>1 DEF DrainBreaks
  <2>2. t[i] \in AllFrames
    BY LenProperties, ElementOfSeq
  <2>3. t[i].srv \in Servers
    BY <1>1, <2>2, SmFrameKinds DEF ExecFrames
  <2> QED BY <1>1, <2>1, <2>3
<1>2. fs = Break(t, I)
  OBVIOUS
<1> HIDE DEF I
<1> QED BY <1>1, <1>2, StackBroken

LEMMA TransClears ==
  ASSUME SmInv, TransClear
  PROVE  SmInv'
<1> DEFINE t == Tail(stack)
           g == [Top EXCEPT !.at = "timers"]
           fs == IF queue[current] = <<>> THEN t ELSE Break(t, DrainBreaks(t, current))
<1>1. /\ TransAt("clear") /\ queue' = [queue EXCEPT ![current] = <<>>]
      /\ stack' = <<g>> \o fs
      /\ UNCHANGED <<sm, current, re, bitmap, node, server, mode, tick, timer, list, masked>>
  BY DEF TransClear, smVars, timerVars
<1>2. /\ SmTypes /\ StackInv /\ ServersInv /\ NodesOK /\ RunOK
      /\ stack # <<>> /\ sm /\ IsTrans(Top) /\ Top.at = "clear" /\ Top \in TransFrames
      /\ current \in Servers /\ \A s \in Servers : server[s] # "started"
      /\ \A A : ~Moving(t, A)
  BY <1>1, TransTop
<1>3. g \in TransFrames /\ g.at = "timers"
  BY <1>2 DEF TransFrames
<1>4. /\ g \in AllFrames /\ IsTrans(g) /\ Kind(Top, g) /\ ~Locked(Top) /\ ~Locked(g)
      /\ ~IsOvt(Top) /\ ~IsPub(g) /\ ~IsExec(g) /\ ~IsSm(g) /\ ~IsTmr(g) /\ ~IsTmr(Top)
  BY <1>2, <1>3, TransGoes
<1>5. /\ queue \in [Servers -> Seq(Msgs)] /\ queue' \in [Servers -> Seq(Msgs)]
      /\ queue'[current] = <<>>
      /\ \A s \in Servers : s # current => queue'[s] = queue[s]
  BY <1>1, <1>2 DEF SmTypes
<1>6. SmFrameOK(g, queue', current, re, LiveTimers)
  <2>1. current # "none"
    BY <1>2, SmAssumption
  <2> QED BY <1>4, <2>1 DEF SmFrameOK
<1>7. Top \in AllFrames /\ t \in Seq(AllFrames) /\ stack = <<Top>> \o t
  BY <1>2, StackSplit DEF SmTypes
<1>8. StackOK(t, queue, current, re, LiveTimers, NodeTimers)
  BY <1>2, <1>7, StackPush DEF StackInv
<1> HIDE DEF t, g
<1> DEFINE q == queue'
<1>10. /\ fs \in Seq(AllFrames) /\ StackOK(fs, q, current, re, LiveTimers, NodeTimers)
       /\ AnyLocked(fs) <=> AnyLocked(t)
       /\ \A A : Moving(fs, A) <=> Moving(t, A)
       /\ \A u : Busy(fs, u) <=> Busy(t, u)
       /\ \A f : MayTop(f, fs, NodeTimers) <=> MayTop(f, t, NodeTimers)
  <2>1. CASE queue[current] = <<>>
    <3>1. fs = t /\ q = queue
      BY <1>1, <1>5, <2>1
    <3> HIDE DEF q, fs
    <3>2. StackOK(fs, q, current, re, LiveTimers, NodeTimers)
      BY <1>8, <3>1
    <3> QED BY <1>7, <3>1, <3>2
  <2>2. CASE queue[current] # <<>>
    <3>1. fs = Break(t, DrainBreaks(t, current))
      BY <2>2
    <3>2. \A u \in Servers : u # current => q[u] = queue[u]
      BY <1>5
    <3> HIDE DEF q, fs
    <3>3. current \in Servers /\ t \in Seq(AllFrames)
      BY <1>2, <1>7
    <3>4. fs \in Seq(AllFrames) /\ StackOK(fs, q, current, re, LiveTimers, NodeTimers)
      BY <1>8, <3>1, <3>2, <3>3, StackDrained
    <3>5. AnyLocked(fs) <=> AnyLocked(t)
      BY <1>8, <3>1, <3>2, <3>3, StackDrained
    <3>6. ASSUME NEW A PROVE Moving(fs, A) <=> Moving(t, A)
      BY <1>8, <3>1, <3>2, <3>3, StackDrained
    <3>7. ASSUME NEW u PROVE Busy(fs, u) <=> Busy(t, u)
      BY <1>8, <3>1, <3>2, <3>3, StackDrained
    <3>8. ASSUME NEW f PROVE MayTop(f, fs, NodeTimers) <=> MayTop(f, t, NodeTimers)
      BY <1>8, <3>1, <3>2, <3>3, StackDrained
    <3> QED BY <3>4, <3>5, <3>6, <3>7, <3>8
  <2> QED BY <2>1, <2>2
<1> HIDE DEF fs
<1>11. SmFrameOK(g, q, current, re, LiveTimers)
  BY <1>6
<1> HIDE DEF q
<1>12. Rests(stack', masked', q, re)
  BY <1>1, <1>2, <1>4, <1>10, <1>11, Replaced DEF t
<1>13. StackInv' /\ stack' \in Seq(AllFrames) /\ masked' \in BOOLEAN
  BY <1>1, <1>12, RestsStays DEF q
<1>14. /\ \A A : Moving(stack', A) <=> "timers" \in A
       /\ \A u : Busy(stack, u) => Busy(stack', u)
  <2>1. /\ \A A : Moving(stack', A) <=> (IsTrans(g) /\ g.at \in A) \/ Moving(Tail(stack), A)
        /\ \A A : Moving(stack, A) <=> (IsTrans(Top) /\ Top.at \in A) \/ Moving(Tail(stack), A)
        /\ \A u : Busy(stack', u) <=> Calls(g, u) \/ Busy(Tail(stack), u)
        /\ \A u : Busy(stack, u) <=> Calls(Top, u) \/ Busy(Tail(stack), u)
    BY <1>1, <1>2, <1>4, <1>10, ReplacedPlaces DEF t
  <2> QED BY <1>2, <1>3, <1>4, <2>1 DEF Calls, t, g
<1>15. ServersInv'
  <2>1. \A s \in Servers : s # current => /\ server[s] = "freed" \/ queue[s] = <<>>
                                          /\ bitmap[s] = {} /\ list[s] = <<>>
    BY <1>2 DEF ServersInv
  <2> DEFINE S == stack'
  <2>2. ~Moving(S, {"start"})
    BY <1>14
  <2> HIDE DEF S
  <2> QED BY <1>1, <1>2, <1>5, <2>1, <2>2 DEF ServersInv, S
<1>16. NodesOK' /\ RunOK'
  BY <1>1, <1>2, <1>14, NodesStay
<1>17. SmTypes'
  BY <1>1, <1>2, <1>5, <1>13 DEF SmTypes
<1> QED BY <1>13, <1>15, <1>16, <1>17 DEF SmInv

LEMMA TransRemoves ==
  ASSUME SmInv, TransTimers
  PROVE  SmInv'
<1> DEFINE t == Tail(stack)
           g == [Top EXCEPT !.at = "start"]
           T == Nodes(current, bitmap[current] \cap bitmap[current])
<1>1. /\ TransAt("timers") /\ RemoveTimers(current, bitmap[current])
      /\ stack' = [stack EXCEPT ![1] = g] /\ masked' = masked
      /\ UNCHANGED <<sm, current, re, server, mode, queue>>
  BY DEF TransTimers, Goto, eventVars
<1>2. /\ SmTypes /\ StackInv /\ ServersInv /\ NodesOK /\ RunOK
      /\ stack # <<>> /\ sm /\ IsTrans(Top) /\ Top.at = "timers" /\ Top \in TransFrames
      /\ current \in Servers /\ \A s \in Servers : server[s] # "started"
      /\ \A s \in Servers : server[s] = "freed" \/ queue[s] = <<>>
      /\ \A i \in DOMAIN t : ~Overticks(t[i], NodeTimers)
  BY <1>1, TransTop
<1>3. g \in TransFrames /\ g.at = "start"
  BY <1>2 DEF TransFrames
<1>4. /\ g \in AllFrames /\ IsTrans(g) /\ Kind(Top, g) /\ ~Locked(Top) /\ ~Locked(g)
      /\ ~IsOvt(Top) /\ ~IsPub(g) /\ ~IsExec(g) /\ ~IsSm(g) /\ ~IsTmr(g) /\ ~IsTmr(Top)
  BY <1>2, <1>3, TransGoes
<1>5. SmFrameOK(g, queue, current, re, LiveTimers)
  BY <1>3, <1>4 DEF SmFrameOK
<1>6. stack' = <<g>> \o t /\ t \in Seq(AllFrames)
  BY <1>1, <1>2, <1>4, StackSplit DEF SmTypes
<1> HIDE DEF g
<1>7. Rests(stack', masked', queue, re)
  BY <1>1, <1>2, <1>4, <1>5, <1>6, Replaces
<1>8. \A u : Busy(stack, u) => Busy(stack', u)
  <2>1. /\ \A u : Busy(stack', u) <=> Calls(g, u) \/ Busy(Tail(stack), u)
        /\ \A u : Busy(stack, u) <=> Calls(Top, u) \/ Busy(Tail(stack), u)
    BY <1>2, <1>4, <1>6, ReplacedPlaces
  <2> QED BY <1>4, <2>1 DEF Calls
<1>9. current \in Heads
  BY <1>2, SmAssumption
<1>10. /\ Removed(T) /\ T \subseteq NodeTimers
       /\ bitmap' \in [Heads -> SUBSET (0 .. MaxIds - 1)]
       /\ \A h \in Heads : bitmap'[h] \subseteq bitmap[h]
       /\ UNCHANGED tick
  BY <1>1, <1>2, <1>8, <1>9, RemoveTimersForm
<1>11. bitmap'[current] = {} /\ list'[current] = <<>>
  <2>1. Nodes(current, bitmap[current]) \subseteq T
    BY DEF Nodes
  <2>2. bitmap' = [bitmap EXCEPT ![current] = bitmap[current] \ {node[u].id : u \in T}]
    BY <1>1 DEF RemoveTimers
  <2> HIDE DEF T
  <2>3. /\ list'[current] = <<>>
        /\ \A k \in bitmap[current] : \E u \in T : node[u].ctrl = current /\ node[u].id = k
    BY <1>2, <1>10, <2>1, RemovedAll
  <2>4. bitmap'[current] = bitmap[current] \ {node[u].id : u \in T}
    BY <1>2, <1>9, <2>2 DEF SmTypes
  <2> QED BY <2>3, <2>4
<1> HIDE DEF T
<1>12. \A s \in Servers : bitmap'[s] = {} /\ list'[s] = <<>>
  <2>1. ASSUME NEW s \in Servers, s # current PROVE bitmap'[s] = {} /\ list'[s] = <<>>
    <3>1. s \in Heads /\ bitmap[s] = {} /\ list[s] = <<>>
      BY <1>2, <2>1, SmAssumption DEF ServersInv
    <3> QED BY <1>2, <1>10, <3>1, StaysEmpty
  <2> QED BY <1>11, <2>1
<1>13. /\ StackInv' /\ stack' \in Seq(AllFrames) /\ masked' \in BOOLEAN
  <2> DEFINE S == stack'
  <2>1. S \in Seq(AllFrames) /\ Shifted(S, g, t)
    BY <1>4, <1>6, PushPlaces
  <2>2. \A i \in DOMAIN S : ~Overticks(S[i], NodeTimers)
    <3>1. \A i \in DOMAIN S : S[i] = g \/ \E j \in DOMAIN t : S[i] = t[j]
      BY <2>1 DEF Shifted
    <3> HIDE DEF S, t
    <3> QED BY <1>2, <1>4, <3>1 DEF Overticks
  <2>3. \A i \in DOMAIN S : IsTmr(S[i]) /\ S[i].pc = "cb" =>
           /\ S[i].cur \in LiveTimers => S[i].cur \in LiveTimers'
           /\ S[i].cur \in NodeTimers <=> S[i].cur \in NodeTimers'
    <3> HIDE DEF S
    <3> QED BY <1>10, <2>2 DEF Overticks, Removed
  <2> QED BY <1>1, <1>7, <2>3, RestsKept
<1>14. ServersInv'
  BY <1>1, <1>2, <1>12 DEF ServersInv
<1>15. SmTypes'
  BY <1>1, <1>2, <1>10, <1>13 DEF SmTypes, Removed
<1> QED BY <1>10, <1>13, <1>14, <1>15 DEF SmInv, Removed

\* The new state starts listening.
LEMMA TransStarts ==
  ASSUME SmInv, TransStart
  PROVE  SmInv'
<1>1. /\ TransAt("start") /\ current' = Top.to /\ re' = TRUE
      /\ server' = [server EXCEPT ![Top.to] = "started"]
      /\ stack' = Tail(stack) /\ masked' = masked
      /\ UNCHANGED <<sm, bitmap, node, mode, queue, tick, timer, list>>
  BY DEF TransStart, Leave, timerVars
<1>2. /\ SmTypes /\ StackInv /\ ServersInv /\ NodesOK /\ RunOK
      /\ stack # <<>> /\ sm /\ IsTrans(Top) /\ Top.at = "start" /\ Top \in TransFrames
      /\ \A s \in Servers : server[s] # "started"
      /\ \A s \in Servers : server[s] = "freed" \/ queue[s] = <<>>
      /\ \A s \in Servers : bitmap[s] = {} /\ list[s] = <<>>
      /\ \A A : ~Moving(stack', A)
  BY <1>1, TransTop
<1>3. ~Locked(Top) /\ ~IsTmr(Top) /\ Top.to \in Servers
  BY <1>2, TransGoes
<1>4. /\ Rests(stack', masked', queue, re)
      /\ \A u : Busy(stack, u) <=> Calls(Top, u) \/ Busy(stack', u)
  BY <1>1, <1>2, <1>3, Popped
<1>5. current' # "none" /\ current' \in Servers
  BY <1>1, <1>3, SmAssumption
<1>6. LiveTimers' = LiveTimers /\ NodeTimers' = NodeTimers
  BY <1>1 DEF LiveTimers, NodeTimers, IsNode, NoNode
<1>7. StackInv' /\ stack' \in Seq(AllFrames) /\ masked' \in BOOLEAN
  BY <1>1, <1>4, <1>5, <1>6, RestsKept
<1>8. /\ server' \in [Servers -> {"absent", "stopped", "started", "freed"}]
      /\ \A s \in Servers : s # Top.to => server'[s] = server[s]
  BY <1>1, <1>2, <1>3 DEF SmTypes
<1>9. ServersInv'
  <2> DEFINE S == stack'
  <2>1. \A A : ~Moving(S, A)
    BY <1>2
  <2> HIDE DEF S
  <2> QED BY <1>1, <1>2, <1>8, <2>1 DEF ServersInv, S
<1>10. NodesOK' /\ RunOK'
  BY <1>1, <1>2, <1>3, <1>4, NodesStay DEF Calls
<1>11. SmTypes'
  BY <1>1, <1>2, <1>5, <1>7, <1>8 DEF SmTypes
<1> QED BY <1>7, <1>9, <1>10, <1>11 DEF SmInv

-----------------------------------------------------------------------------
(***************************************************************************)
(* sh_sm_timer_overtick_cb.                                                *)
(***************************************************************************)
LEMMA OvertickStarts ==
  ASSUME SmInv, SmOvertick
  PROVE  SmInv'
<1> DEFINE e == node[Top.cur].ev
           f == [op |-> "ovt", pc |-> "remove", timer |-> Top.cur,
                 level |-> masked, ok |-> TRUE]
           g == PubFrame(e)
           L == LiveTimers
           N == NodeTimers
           S == <<f>> \o stack
           R == <<g>> \o S
<1>1. /\ stack # <<>> /\ IsTmr(Top) /\ Top.pc = "cb" /\ IsNode(Top.cur) /\ masked' = TRUE
      /\ stack' = (IF subs[e] = <<>> THEN <<f>> ELSE <<g, f>>) \o stack
      /\ UNCHANGED <<sm, current, re, bitmap, node, server, mode, queue, tick, timer, list>>
  BY DEF SmOvertick, InOvertick, smVars, eventVars, timerVars
<1>2. SmTypes /\ StackInv /\ ServersInv /\ NodesOK /\ RunOK /\ sm
  BY <1>1 DEF SmInv, ServersInv
<1>3. /\ Top \in AllFrames /\ Top \in TimerFrames /\ 1 \in DOMAIN stack
      /\ stack = <<Top>> \o Tail(stack) /\ Tail(stack) \in Seq(AllFrames)
  BY <1>1, <1>2, StackSplit, SmFrameKinds DEF SmTypes
<1>4. Top.cur \in Timers /\ Top.cur \in N /\ e \in Events
  <2>1. Top.cur \in L
    BY <1>1, <1>2, <1>3 DEF StackInv, StackOK, SmFrameOK, Top
  <2> QED BY <1>1, <1>2, <2>1 DEF LiveTimers, NodeTimers, NodesOK
<1>5. /\ f \in AllFrames /\ IsOvt(f) /\ Locked(f) /\ f.timer = Top.cur /\ f.level = masked
      /\ ~IsPub(f) /\ ~IsExec(f) /\ ~IsTmr(f) /\ ~IsSm(f) /\ ~IsTrans(f)
  BY <1>2, <1>4 DEF AllFrames, OvertickFrames, IsOvt, Locked, IsPub, IsExec, IsTmr, IsSm,
                    IsTrans, SmTypes
<1>6. /\ g \in Frames /\ g \in AllFrames /\ IsPub(g) /\ ~IsOvt(g) /\ ~Locked(g) /\ ~IsSm(g)
      /\ SmFrameOK(g, queue, current, re, L)
  <2> HIDE DEF e
  <2>1. g \in PubFrames /\ g.pc = "check" /\ g.msg = "none" /\ g.cur = "head" /\ g.op = "pub"
    BY <1>4 DEF PubFrame, PubFrames
  <2> HIDE DEF g
  <2>2. g \in Frames /\ IsPub(g) /\ ~IsExec(g) /\ ~Locked(g)
    BY <2>1 DEF Frames, IsPub, IsExec, Locked
  <2>3. FrameOK(g, queue)
    BY <2>1, <2>2 DEF FrameOK
  <2> QED BY <2>1, <2>2, <2>3, BusFrames
<1>7. ~IsPub(Top) /\ ~IsOvt(Top) /\ ~IsTrans(Top)
  BY <1>1 DEF IsTmr, IsPub, IsOvt, IsTrans
<1>8. /\ StackOK(stack, queue, current, re, L, N) /\ (masked <=> AnyLocked(stack))
      /\ stack \in Seq(AllFrames) /\ masked \in BOOLEAN
  BY <1>2 DEF StackInv, SmTypes
<1>9. \A i \in DOMAIN stack : ~IsTrans(stack[i]) /\ ~IsOvt(stack[i])
  <2>1. \A i \in DOMAIN Tail(stack) : ~IsTrans(Tail(stack)[i]) /\ ~IsOvt(Tail(stack)[i])
    BY <1>1, <1>2, <1>7, BelowTop
  <2> DEFINE t == Tail(stack)
  <2>2. stack = <<Top>> \o t /\ t \in Seq(AllFrames)
    BY <1>3
  <2>3. \A i \in DOMAIN t : ~IsTrans(t[i]) /\ ~IsOvt(t[i])
    BY <2>1
  <2> HIDE DEF t
  <2>4. Shifted(stack, Top, t)
    BY <1>3, <2>2, PushPlaces
  <2> QED BY <1>7, <2>3, <2>4 DEF Shifted
<1>10. stack' = IF subs[e] = <<>> THEN S ELSE R
  <2> HIDE DEF f, g, e
  <2>1. <<f>> \in Seq(AllFrames) /\ <<g>> \in Seq(AllFrames) /\ <<g, f>> = <<g>> \o <<f>>
    BY <1>5, <1>6
  <2>2. (<<g>> \o <<f>>) \o stack = R
    BY <1>8, <2>1, ConcatAssociative
  <2>3. stack' = (IF subs[e] = <<>> THEN <<f>> ELSE <<g>> \o <<f>>) \o stack
    BY <1>1, <2>1
  <2> HIDE DEF R
  <2> QED BY <2>2, <2>3
<1>11. MayTop(f, stack, N)
  <2>1. Overticks(stack[1], N) /\ f.timer = stack[1].cur
    BY <1>1, <1>4, <1>5 DEF Overticks, Top
  <2> QED BY <1>3, <1>5, <1>8, <1>9, <2>1 DEF MayTop
<1>12. SmFrameOK(f, queue, current, re, L)
  BY <1>5 DEF SmFrameOK
<1> HIDE DEF f, g, e, L, N
<1>13. /\ S \in Seq(AllFrames) /\ Shifted(S, f, stack)
       /\ StackOK(S, queue, current, re, L, N)
       /\ AnyLocked(S) <=> Locked(f) \/ AnyLocked(stack)
       /\ \A A : Moving(S, A) <=> (IsTrans(f) /\ f.at \in A) \/ Moving(stack, A)
       /\ \A u : Busy(S, u) <=> Calls(f, u) \/ Busy(stack, u)
  <2>1. S \in Seq(AllFrames) /\ Shifted(S, f, stack)
    BY <1>5, <1>8, PushPlaces
  <2> QED BY <1>5, <1>8, <1>11, <1>12, <2>1, StackPush
<1> HIDE DEF S
<1>14. MayTop(g, S, N)
  <2>1. ~Overticks(S[1], N)
    BY <1>5, <1>13 DEF Overticks, Shifted
  <2> QED BY <1>6, <2>1 DEF MayTop
<1>15. /\ R \in Seq(AllFrames)
       /\ StackOK(R, queue, current, re, L, N)
       /\ AnyLocked(R) <=> Locked(g) \/ AnyLocked(S)
       /\ \A A : Moving(R, A) <=> (IsTrans(g) /\ g.at \in A) \/ Moving(S, A)
       /\ \A u : Busy(R, u) <=> Calls(g, u) \/ Busy(S, u)
  <2>1. R \in Seq(AllFrames)
    BY <1>6, <1>13, PushPlaces
  <2> QED BY <1>6, <1>13, <1>14, <2>1, StackPush
<1> HIDE DEF R
<1>16. /\ Rests(stack', masked', queue, re)
       /\ \A A : Moving(stack', A) <=> Moving(stack, A)
       /\ \A u : Busy(stack, u) => Busy(stack', u)
  <2>1. CASE subs[e] = <<>>
    <3>1. stack' = S
      BY <1>10, <2>1
    <3>2. Rests(S, masked', queue, re)
      BY <1>1, <1>5, <1>13 DEF Rests, L, N
    <3> QED BY <1>5, <1>13, <3>1, <3>2
  <2>2. CASE subs[e] # <<>>
    <3>1. stack' = R
      BY <1>10, <2>2
    <3>2. Rests(R, masked', queue, re)
      BY <1>1, <1>5, <1>13, <1>15 DEF Rests, L, N
    <3> QED BY <1>5, <1>6, <1>13, <1>15, <3>1, <3>2, BusFrames
  <2> QED BY <2>1, <2>2
<1> QED BY <1>1, <1>2, <1>16, OnlyStack DEF SmInv

\* What sh_sm_timer_overtick_cb finds when it has published: the pass that
\* calls it, for a node whose timer_ctrl is the one it removes from.
LEMMA OvertickTop ==
  ASSUME SmInv, stack # <<>>, IsOvt(Top)
  PROVE  \E g \in TimerFrames, rest \in Seq(AllFrames) :
           /\ Tail(stack) = <<g>> \o rest /\ stack[2] = g
           /\ rest = SubSeq(stack, 3, Len(stack))
           /\ IsTmr(g) /\ g.pc = "cb" /\ g.cur \in NodeTimers /\ g.cur = Top.timer
           /\ masked /\ Top.level
           /\ StackOK(rest, queue, current, re, LiveTimers, NodeTimers)
           /\ MayTop(g, rest, NodeTimers)
           /\ \A i \in DOMAIN rest : ~Overticks(rest[i], NodeTimers)
           /\ \A A : Moving(stack, A) <=> Moving(rest, A)
           /\ \A u : Busy(stack, u) <=> u = g.cur \/ Busy(rest, u)
<1> DEFINE t == Tail(stack)
           g == t[1]
           rest == Tail(t)
           N == NodeTimers
           L == LiveTimers
<1>1. SmTypes /\ StackInv
  BY DEF SmInv
<1>2. /\ Top \in AllFrames /\ t \in Seq(AllFrames) /\ stack = <<Top>> \o t /\ Top.level \in BOOLEAN
      /\ Locked(Top) /\ ~IsTrans(Top) /\ ~IsPub(Top) /\ ~IsTmr(Top)
  <2>1. Top \in AllFrames /\ t \in Seq(AllFrames) /\ stack = <<Top>> \o t
    BY <1>1, StackSplit DEF SmTypes
  <2>2. Top \in OvertickFrames
    BY <2>1, SmFrameKinds
  <2> QED BY <2>1, <2>2 DEF OvertickFrames, Locked, IsTrans, IsPub, IsTmr
<1>3. StackOK(stack, queue, current, re, L, N) /\ (masked <=> AnyLocked(stack)) /\ masked \in BOOLEAN
  BY <1>1 DEF StackInv, SmTypes
<1>4. stack \in Seq(AllFrames)
  BY <1>1 DEF SmTypes
<1>5. Shifted(stack, Top, t)
  <2> HIDE DEF t
  <2> QED BY <1>2, PushPlaces
<1> HIDE DEF t, N, L
<1>6. /\ StackOK(t, queue, current, re, L, N) /\ MayTop(Top, t, N)
      /\ AnyLocked(stack) <=> Locked(Top) \/ AnyLocked(t)
      /\ \A A : Moving(stack, A) <=> (IsTrans(Top) /\ Top.at \in A) \/ Moving(t, A)
      /\ \A u : Busy(stack, u) <=> Calls(Top, u) \/ Busy(t, u)
  BY <1>2, <1>3, StackPush
<1>7. 1 \in DOMAIN t /\ Overticks(t[1], N) /\ Top.timer = t[1].cur
  BY <1>6 DEF MayTop
<1>8. t # <<>>
  BY <1>7
<1>9. g \in AllFrames /\ rest \in Seq(AllFrames) /\ t = <<g>> \o rest /\ Len(t) \in Nat \ {0}
  BY <1>2, <1>8, SplitSeq
<1>10. /\ IsTmr(g) /\ g.pc = "cb" /\ g.cur \in N /\ g.cur = Top.timer /\ g \in TimerFrames
       /\ ~IsPub(g) /\ ~IsOvt(g) /\ ~IsTrans(g) /\ Locked(g)
  <2>1. IsTmr(g) /\ g.pc = "cb" /\ g.cur \in N /\ g.cur = Top.timer
    BY <1>7 DEF Overticks
  <2>2. g \in TimerFrames
    BY <1>9, <2>1, SmFrameKinds
  <2> QED BY <2>1, <2>2 DEF IsTmr, IsPub, IsOvt, IsTrans, Locked
<1>11. stack[2] = g
  BY <1>5, <1>7 DEF Shifted
<1>12. rest = SubSeq(stack, 3, Len(stack))
  <2>1. Len(stack) = Len(t) + 1 /\ Len(stack) \in Nat
    BY <1>2, <1>9, PushSeq
  <2>2. t = SubSeq(stack, 2, Len(stack))
    <3>1. stack # <<>>
      OBVIOUS
    <3> QED BY <1>4, <3>1, TailIsSubSeq DEF t
  <2>3. Tail(SubSeq(stack, 2, Len(stack))) = SubSeq(stack, 2 + 1, Len(stack))
    <3>1. 2 \in 1 .. Len(stack) /\ Len(stack) \in 2 .. Len(stack)
      BY <1>9, <2>1
    <3> QED BY <1>4, <3>1, HeadTailOfSubSeq
  <2> QED BY <2>2, <2>3
<1> HIDE DEF g, rest
<1>13. /\ StackOK(rest, queue, current, re, L, N) /\ MayTop(g, rest, N)
       /\ AnyLocked(t) <=> Locked(g) \/ AnyLocked(rest)
       /\ \A A : Moving(t, A) <=> (IsTrans(g) /\ g.at \in A) \/ Moving(rest, A)
       /\ \A u : Busy(t, u) <=> Calls(g, u) \/ Busy(rest, u)
  BY <1>6, <1>9, StackPush
<1>14. masked /\ Top.level
  BY <1>2, <1>3, <1>6, <1>10, <1>13 DEF MayTop
<1>15. \A i \in DOMAIN rest : ~Overticks(rest[i], N)
  BY <1>9, <1>10, <1>13, Beneath
<1>16. \A A : Moving(stack, A) <=> Moving(rest, A)
  BY <1>2, <1>6, <1>10, <1>13
<1>17. \A u : Busy(stack, u) <=> u = g.cur \/ Busy(rest, u)
  BY <1>2, <1>6, <1>10, <1>13 DEF Calls
<1>18. Tail(stack) = <<g>> \o rest
  BY <1>9 DEF t
<1> QED BY <1>9, <1>10, <1>11, <1>12, <1>13, <1>14, <1>15, <1>16, <1>17, <1>18 DEF N, L

LEMMA OvertickRemoves ==
  ASSUME SmInv, SmOvertickDone
  PROVE  SmInv'
<1>1. SmTypes /\ StackInv /\ ServersInv /\ NodesOK /\ RunOK /\ stack # <<>> /\ IsOvt(Top)
  BY DEF SmInv, SmOvertickDone, IsOvt
<1>2. PICK g \in TimerFrames, rest \in Seq(AllFrames) :
           /\ stack[2] = g
           /\ rest = SubSeq(stack, 3, Len(stack))
           /\ IsTmr(g) /\ g.pc = "cb" /\ g.cur \in NodeTimers /\ g.cur = Top.timer
           /\ masked /\ Top.level
           /\ StackOK(rest, queue, current, re, LiveTimers, NodeTimers)
           /\ MayTop(g, rest, NodeTimers)
           /\ \A i \in DOMAIN rest : ~Overticks(rest[i], NodeTimers)
           /\ \A A : Moving(stack, A) <=> Moving(rest, A)
           /\ \A u : Busy(stack, u) <=> u = g.cur \/ Busy(rest, u)
  BY <1>1, OvertickTop
<1> DEFINE t == g.cur
           n == node[t]
           h == [g EXCEPT !.pc = "loop", !.cur = "head"]
           c == IF n.ctrl = Global THEN Global ELSE current
           T == Nodes(c, {n.id} \cap bitmap[c])
<1>3. /\ RemoveTimers(c, {n.id}) /\ masked' = Top.level /\ stack' = <<h>> \o rest
      /\ UNCHANGED <<sm, current, re, server, mode, queue>>
  BY <1>2 DEF SmOvertickDone, eventVars
<1>4. /\ t \in Timers /\ IsNode(t) /\ n.ctrl \in Heads /\ n.id \in 0 .. MaxIds - 1
      /\ n.id \in bitmap[n.ctrl]
  <2>1. t \in Timers /\ IsNode(t)
    BY <1>2 DEF NodeTimers
  <2>2. n.ctrl \in Heads /\ n.id \in 0 .. MaxIds - 1
    BY <1>1, <2>1, NodeNamed
  <2> QED BY <1>1, <2>1, <2>2 DEF NodesOK
<1>5. c = n.ctrl
  <2>1. n.ctrl # Global => n.ctrl \in Servers
    BY <1>4, SmAssumption
  <2>2. n.ctrl # Global => n.ctrl = current
    BY <1>1, <1>4, <2>1 DEF ServersInv
  <2> QED BY <2>2
<1>6. T = {t}
  <2>1. \A u \in Timers : node[u].ctrl = n.ctrl /\ node[u].id = n.id => u = t
    BY <1>1, <1>4 DEF NodesOK
  <2> QED BY <1>4, <1>5, <2>1 DEF Nodes
<1>7. h \in TimerFrames /\ h.pc = "loop" /\ h.cur = "head" /\ h.level = g.level
  BY DEF TimerFrames
<1> HIDE DEF h
<1>8. /\ g \in AllFrames /\ Locked(g) /\ h \in AllFrames /\ IsTmr(h) /\ Locked(h) /\ ~IsOvt(h)
      /\ ~IsPub(h) /\ ~IsExec(h) /\ ~IsSm(h) /\ ~IsTrans(h)
      /\ ~IsOvt(g) /\ ~IsPub(g) /\ ~IsSm(g) /\ h.pc # "cb"
  BY <1>2, <1>7 DEF AllFrames, TimerFrames, IsTmr, Locked, IsOvt, IsPub, IsExec, IsSm, IsTrans
<1>9. SmFrameOK(h, queue, current, re, LiveTimers)
  BY <1>7, <1>8 DEF SmFrameOK
<1>10. MayTop(h, rest, NodeTimers)
  BY <1>2, <1>7, <1>8 DEF MayTop
<1> DEFINE S == <<h>> \o rest
           L == LiveTimers
           N == NodeTimers
<1>11. /\ S \in Seq(AllFrames) /\ Shifted(S, h, rest)
       /\ StackOK(S, queue, current, re, L, N)
       /\ AnyLocked(S) <=> Locked(h) \/ AnyLocked(rest)
       /\ \A A : Moving(S, A) <=> (IsTrans(h) /\ h.at \in A) \/ Moving(rest, A)
       /\ \A u : Busy(S, u) <=> Calls(h, u) \/ Busy(rest, u)
  <2>1. S \in Seq(AllFrames) /\ Shifted(S, h, rest)
    BY <1>8, PushPlaces
  <2>2. StackOK(rest, queue, current, re, L, N) /\ MayTop(h, rest, N) /\ SmFrameOK(h, queue, current, re, L)
    BY <1>2, <1>9, <1>10
  <2> HIDE DEF L, N
  <2> QED BY <1>8, <2>1, <2>2, StackPush
<1>12. stack' = S
  BY <1>3
<1> HIDE DEF S
<1>13. Rests(stack', masked', queue, re)
  <2>1. masked' = TRUE
    BY <1>1, <1>2, <1>3, StackSplit, SmFrameKinds DEF SmTypes
  <2> HIDE DEF L, N
  <2> QED BY <1>8, <1>11, <1>12, <2>1 DEF Rests, L, N
<1>14. \A u \in Timers : u \in NodeTimers \ T /\ Busy(stack, u) => Busy(stack', u)
  BY <1>2, <1>6, <1>11, <1>12
<1>15. /\ Removed(T) /\ T \subseteq NodeTimers
       /\ bitmap' \in [Heads -> SUBSET (0 .. MaxIds - 1)]
       /\ \A k \in Heads : bitmap'[k] \subseteq bitmap[k]
       /\ UNCHANGED tick
  <2>1. c \in Heads
    BY <1>4, <1>5
  <2> HIDE DEF c
  <2> QED BY <1>1, <1>3, <1>14, <2>1, RemoveTimersForm
<1> HIDE DEF T, c
<1>16. StackInv' /\ stack' \in Seq(AllFrames) /\ masked' \in BOOLEAN
  <2>1. \A i \in DOMAIN S : ~Overticks(S[i], N)
    <3>1. \A i \in DOMAIN S : S[i] = h \/ \E j \in DOMAIN rest : S[i] = rest[j]
      BY <1>11 DEF Shifted
    <3> QED BY <1>2, <1>8, <3>1 DEF Overticks
  <2>2. \A i \in DOMAIN S : IsTmr(S[i]) /\ S[i].pc = "cb" =>
           /\ S[i].cur \in LiveTimers => S[i].cur \in LiveTimers'
           /\ S[i].cur \in NodeTimers <=> S[i].cur \in NodeTimers'
    BY <1>15, <2>1 DEF Overticks, Removed
  <2>3. \A i \in DOMAIN stack' : IsTmr(stack'[i]) /\ stack'[i].pc = "cb" =>
           /\ stack'[i].cur \in LiveTimers => stack'[i].cur \in LiveTimers'
           /\ stack'[i].cur \in NodeTimers <=> stack'[i].cur \in NodeTimers'
    BY <1>12, <2>2
  <2> QED BY <1>3, <1>13, <2>3, RestsKept
<1>17. ServersInv'
  <2>1. \A A : Moving(stack', A) <=> Moving(stack, A)
    BY <1>2, <1>8, <1>11, <1>12
  <2>2. ASSUME NEW s \in Servers, bitmap[s] = {}, list[s] = <<>>
        PROVE  bitmap'[s] = {} /\ list'[s] = <<>>
    <3>1. s \in Heads
      BY SmAssumption
    <3> QED BY <1>1, <1>15, <2>2, <3>1, StaysEmpty
  <2>3. sm'
    BY <1>1, <1>3 DEF ServersInv
  <2> QED BY <1>1, <1>3, <2>1, <2>2, <2>3, ServersKept
<1>18. SmTypes'
  BY <1>1, <1>3, <1>15, <1>16 DEF SmTypes, Removed
<1> QED BY <1>15, <1>16, <1>17, <1>18 DEF SmInv, Removed

-----------------------------------------------------------------------------
(***************************************************************************)
(* The steps of the bus and of the timers.                                 *)
(***************************************************************************)
LEMMA BusKeeps ==
  ASSUME SmInv, EventSteps, UNCHANGED <<smVars, timerVars>>
  PROVE  SmInv'
<1>1. SmTypes /\ StackInv /\ ServersInv /\ NodesOK /\ RunOK
  BY DEF SmInv
<1>2. UNCHANGED <<sm, current, re, bitmap, node, tick, timer, list>>
  BY DEF smVars, timerVars
<1>3. BusStep
  BY <1>1, <1>2, BusSteps
<1>4. stack # <<>>
  BY DEF EventSteps, PublishLock, PublishNoMemory, PublishDone, PublishSkip, PublishSync,
         PublishSave, PublishSaveFails, Reaches, InLoop, ExecLock, ExecTake, ExecDone, CbReturn
<1>5. sm'
  BY <1>1, <1>2, <1>4, SmExists
<1>6. /\ StackInv' /\ stack' \in Seq(AllFrames) /\ masked' \in BOOLEAN
      /\ \A A : Moving(stack', A) <=> Moving(stack, A)
      /\ \A t : Busy(stack', t) <=> Busy(stack, t)
      /\ UNCHANGED <<server, mode>> /\ queue' \in [Servers -> Seq(Msgs)]
      /\ \A s \in Servers : queue[s] = <<>> => queue'[s] = <<>> \/ server[s] = "started"
  BY <1>3 DEF BusStep, SamePlaces
<1>7. ServersInv'
  BY <1>1, <1>2, <1>5, <1>6, ServersKept
<1>8. NodesOK' /\ RunOK'
  BY <1>1, <1>2, <1>6, NodesStay
<1>9. SmTypes'
  BY <1>1, <1>2, <1>6 DEF SmTypes
<1> QED BY <1>6, <1>7, <1>8, <1>9 DEF SmInv

\* What a step of a pass finds.
LEMMA PassTop ==
  ASSUME SmInv, stack # <<>>, IsTmr(Top)
  PROVE  /\ SmTypes /\ StackInv /\ ServersInv /\ NodesOK /\ RunOK /\ sm
         /\ Top \in TimerFrames /\ Top \in AllFrames /\ Tail(stack) \in Seq(AllFrames)
         /\ IF Top.pc = "cb" THEN Top.cur \in LiveTimers ELSE Top.cur = "head"
         /\ \A x \in AllFrames : [stack EXCEPT ![1] = x] = <<x>> \o Tail(stack)
<1>1. SmTypes /\ StackInv /\ ServersInv /\ NodesOK /\ RunOK /\ sm
  BY DEF SmInv, ServersInv
<1>2. /\ Top \in AllFrames /\ 1 \in DOMAIN stack /\ Tail(stack) \in Seq(AllFrames)
      /\ \A x \in AllFrames : [stack EXCEPT ![1] = x] = <<x>> \o Tail(stack)
  BY <1>1, StackSplit DEF SmTypes
<1>3. Top \in TimerFrames
  BY <1>2, SmFrameKinds
<1>4. IF Top.pc = "cb" THEN Top.cur \in LiveTimers ELSE Top.cur = "head"
  BY <1>1, <1>2 DEF StackInv, StackOK, SmFrameOK, Top
<1> QED BY <1>1, <1>2, <1>3, <1>4

LEMMA PassGoes ==
  ASSUME SmInv, stack # <<>>, IsTmr(Top), NEW g \in TimerFrames,
         IF g.pc = "cb" THEN g.cur \in LiveTimers ELSE g.cur = "head",
         Locked(Top) => Locked(g) /\ g.level = Top.level /\ masked' = masked,
         ~Locked(Top) => Locked(g) /\ g.level = masked /\ masked' = TRUE,
         stack' = <<g>> \o Tail(stack)
  PROVE  /\ Rests(stack', masked', queue, re)
         /\ \A A : Moving(stack', A) <=> Moving(stack, A)
         /\ \A u : Busy(stack', u) <=> Calls(g, u) \/ Busy(Tail(stack), u)
         /\ \A u : Busy(stack, u) <=> Calls(Top, u) \/ Busy(Tail(stack), u)
<1>1. /\ SmTypes /\ StackInv /\ Top \in TimerFrames /\ Tail(stack) \in Seq(AllFrames)
  BY PassTop
<1>2. /\ g \in AllFrames /\ Kind(Top, g) /\ ~IsOvt(Top) /\ ~IsTrans(Top) /\ ~IsTrans(g)
      /\ ~IsPub(g) /\ ~IsExec(g) /\ ~IsSm(g)
  BY <1>1 DEF TimerFrames, AllFrames, Kind, IsPub, IsExec, IsTmr, IsSm, IsTrans, IsOvt
<1>3. SmFrameOK(g, queue, current, re, LiveTimers)
  BY <1>2 DEF SmFrameOK
<1>4. Rests(stack', masked', queue, re)
  BY <1>1, <1>2, <1>3, Replaces
<1>5. /\ \A A : Moving(stack', A) <=> (IsTrans(g) /\ g.at \in A) \/ Moving(Tail(stack), A)
      /\ \A A : Moving(stack, A) <=> (IsTrans(Top) /\ Top.at \in A) \/ Moving(Tail(stack), A)
      /\ \A u : Busy(stack', u) <=> Calls(g, u) \/ Busy(Tail(stack), u)
      /\ \A u : Busy(stack, u) <=> Calls(Top, u) \/ Busy(Tail(stack), u)
  BY <1>1, <1>2, ReplacedPlaces
<1> QED BY <1>2, <1>4, <1>5

LEMMA PassKeeps ==
  ASSUME SmInv, TimerLock \/ TimerDone \/ TimerCbReturn, ~InOvertick,
         UNCHANGED <<smVars, eventVars>>
  PROVE  SmInv'
<1>1. stack # <<>> /\ IsTmr(Top)
  BY DEF TimerLock, TimerDone, TimerCbReturn, PassEnds, InPass
<1>2. /\ SmTypes /\ StackInv /\ ServersInv /\ NodesOK /\ RunOK /\ sm
      /\ Top \in TimerFrames /\ Top \in AllFrames /\ Tail(stack) \in Seq(AllFrames)
      /\ IF Top.pc = "cb" THEN Top.cur \in LiveTimers ELSE Top.cur = "head"
      /\ \A x \in AllFrames : [stack EXCEPT ![1] = x] = <<x>> \o Tail(stack)
  BY <1>1, PassTop
<1>3. UNCHANGED <<sm, current, re, bitmap, node, server, mode, queue, tick, timer, list>>
  BY DEF TimerLock, TimerDone, TimerCbReturn, smVars, eventVars, timerVars
<1>4. CASE TimerLock
  <2> DEFINE g == [[Top EXCEPT !.pc = "loop"] EXCEPT !.level = masked]
  <2>1. Top.pc = "check" /\ masked' = TRUE /\ stack' = [stack EXCEPT ![1] = g]
    BY <1>4 DEF TimerLock, sh_isr_disable
  <2>2. masked \in BOOLEAN
    BY <1>2 DEF SmTypes
  <2>3. g \in TimerFrames /\ g.pc = "loop" /\ g.level = masked /\ g.cur = Top.cur
    BY <1>2, <2>2 DEF TimerFrames
  <2>4. g \in AllFrames
    BY <2>3 DEF AllFrames
  <2> HIDE DEF g
  <2>5. stack' = <<g>> \o Tail(stack)
    BY <1>2, <2>1, <2>4
  <2>6. ~Locked(Top) /\ Locked(g) /\ g.cur = "head"
    BY <1>2, <2>1, <2>3 DEF Locked
  <2>7. /\ Rests(stack', masked', queue, re)
        /\ \A A : Moving(stack', A) <=> Moving(stack, A)
        /\ \A u : Busy(stack', u) <=> Calls(g, u) \/ Busy(Tail(stack), u)
        /\ \A u : Busy(stack, u) <=> Calls(Top, u) \/ Busy(Tail(stack), u)
    BY <1>1, <2>1, <2>3, <2>5, <2>6, PassGoes
  <2>8. \A u \in NodeTimers : Busy(stack, u) => Busy(stack', u)
    BY <2>1, <2>7 DEF Calls
  <2> QED BY <1>2, <1>3, <2>7, <2>8, OnlyStack
<1>5. CASE TimerDone
  <2>1. Top.pc = "loop" /\ masked' = Top.level /\ stack' = Tail(stack)
    BY <1>5 DEF TimerDone, PassEnds, InPass, sh_isr_enable
  <2>2. Locked(Top) /\ ~IsTrans(Top)
    BY <1>1, <2>1 DEF Locked, IsTmr, IsTrans
  <2>3. /\ Rests(stack', masked', queue, re)
        /\ \A A : Moving(stack, A) <=> (IsTrans(Top) /\ Top.at \in A) \/ Moving(stack', A)
        /\ \A u : Busy(stack, u) <=> Calls(Top, u) \/ Busy(stack', u)
    BY <1>1, <1>2, <2>1, <2>2, Popped
  <2>4. /\ \A A : Moving(stack', A) <=> Moving(stack, A)
        /\ \A u \in NodeTimers : Busy(stack, u) => Busy(stack', u)
    BY <2>1, <2>2, <2>3 DEF Calls
  <2> QED BY <1>2, <1>3, <2>3, <2>4, OnlyStack
<1>6. CASE TimerCbReturn
  <2> DEFINE g == [Top EXCEPT !.pc = "loop", !.cur = "head"]
  <2>1. Top.pc = "cb" /\ masked' = masked /\ stack' = [stack EXCEPT ![1] = g]
    BY <1>6 DEF TimerCbReturn, Goto
  <2>2. g \in TimerFrames /\ g.pc = "loop" /\ g.level = Top.level /\ g.cur = "head"
    BY <1>2 DEF TimerFrames
  <2>3. g \in AllFrames
    BY <2>2 DEF AllFrames
  <2> HIDE DEF g
  <2>4. stack' = <<g>> \o Tail(stack)
    BY <1>2, <2>1, <2>3
  <2>5. Locked(Top) /\ Locked(g)
    BY <2>1, <2>2 DEF Locked
  <2>6. /\ Rests(stack', masked', queue, re)
        /\ \A A : Moving(stack', A) <=> Moving(stack, A)
        /\ \A u : Busy(stack', u) <=> Calls(g, u) \/ Busy(Tail(stack), u)
        /\ \A u : Busy(stack, u) <=> Calls(Top, u) \/ Busy(Tail(stack), u)
    BY <1>1, <2>1, <2>2, <2>4, <2>5, PassGoes
  <2>7. \A u \in NodeTimers : ~Calls(Top, u)
    BY <1>1, <2>1 DEF InOvertick, NodeTimers, Calls
  <2>8. \A u \in NodeTimers : Busy(stack, u) => Busy(stack', u)
    BY <2>6, <2>7
  <2> QED BY <1>2, <1>3, <2>6, <2>8, OnlyStack
<1> QED BY <1>4, <1>5, <1>6

\* A timer that has run out: what the pass does to the lists.
LEMMA FireLists ==
  ASSUME SmInv, NEW t \in Timers, TimerFire(t)
  PROVE  /\ Top \in TimerFrames /\ Top.pc = "loop" /\ stack # <<>> /\ IsTmr(Top) /\ timer[t].live
         /\ timer[t].cb
         /\ timer' \in [Timers -> TimerRecords] /\ list' \in Lists
         /\ \A u \in Timers : /\ timer'[u].live <=> timer[u].live
                              /\ timer'[u].cb <=> timer[u].cb
                              /\ timer'[u].mode = timer[u].mode
         /\ \A h \in Heads : Once(list'[h])
         /\ \A h \in Heads, u \in Timers : u # t => (OnList(list'[h], u) <=> OnList(list[h], u))
         /\ \A h \in Heads : OnList(list'[h], t) => h = Global /\ ~IsNode(t)
<1>1. stack # <<>> /\ IsTmr(Top) /\ Top.pc = "loop" /\ t = NodeAfter(Top) /\ NodeAfter(Top) # "head"
  BY DEF TimerFire, InPass, PassEnds
<1>2. SmTypes /\ NodesOK /\ Top \in TimerFrames /\ Top.cur = "head"
  BY <1>1, PassTop
<1>3. Top.head \in Heads /\ Top.now \in Ticks
  BY <1>2 DEF TimerFrames
<1>4. timer \in [Timers -> TimerRecords] /\ list \in Lists /\ list[Top.head] \in Seq(Timers)
  BY <1>2, <1>3 DEF SmTypes, Lists
<1>5. OnList(list[Top.head], t)
  <2>1. OnList(list[Top.head], t) \/ Top.cur = t
    BY <1>1, <1>4, NodeAfterOnList
  <2> QED BY <1>1, <1>2, <2>1
<1>6. /\ timer[t].live /\ timer[t].cb
      /\ (Top.head = Global /\ ~IsNode(t)) \/ node[t].ctrl = Top.head
  BY <1>2, <1>3, <1>5 DEF NodesOK
<1> DEFINE ls == Unlinked(list, t)
<1>7. /\ ls \in Lists /\ \A h \in Heads : Once(list[h])
      /\ \A h \in Heads, y \in Timers : y # t => (OnList(ls[h], y) <=> OnList(list[h], y))
      /\ \A h \in Heads : ~OnList(ls[h], t) /\ Once(ls[h])
  BY <1>2, <1>4, UnlinkedProperties DEF NodesOK
<1> DEFINE tm == timer'
           l2 == list'
<1>8. CASE timer[t].mode = "loop"
  <2>1. Start(ls, t, Top.head, Top.now, timer[t].ivl)
    BY <1>8 DEF TimerFire
  <2>2. ~IsNode(t) /\ Top.head = Global
    <3>1. ~IsNode(t)
      BY <1>2, <1>8 DEF NodesOK
    <3> QED BY <1>2, <1>3, <1>6, <3>1, NodeNamed
  <2>3. /\ tm \in [Timers -> TimerRecords]
        /\ \A u \in Timers : /\ tm[u].live <=> timer[u].live
                             /\ tm[u].cb <=> timer[u].cb
                             /\ tm[u].mode = timer[u].mode
    <3> DEFINE iv == timer[t].ivl
               ov == Plus(Top.now, iv)
               r == [timer[t] EXCEPT !.ivl = iv, !.over = ov]
    <3>1. tm = [timer EXCEPT ![t] = r]
      BY <2>1 DEF Start
    <3>2. timer[t] \in TimerRecords /\ iv \in Ticks
      BY <1>4 DEF TimerRecords
    <3>3. ov \in Ticks
      BY <1>3, <3>2, TickArithmetic
    <3> HIDE DEF ov, iv
    <3>4. /\ r \in TimerRecords /\ r.live = timer[t].live /\ r.cb = timer[t].cb
          /\ r.mode = timer[t].mode
      BY <3>2, <3>3 DEF TimerRecords
    <3> HIDE DEF r, tm
    <3> QED BY <1>4, <3>1, <3>4
  <2>4. /\ l2 \in Lists
        /\ \A h \in Heads, y \in Timers : y # t => (OnList(l2[h], y) <=> OnList(ls[h], y))
        /\ \A h \in Heads : Once(l2[h]) /\ (OnList(l2[h], t) <=> h = Top.head)
    <3> DEFINE iv == timer[t].ivl
    <3>1. Start(ls, t, Top.head, Top.now, iv)
      BY <2>1
    <3> HIDE DEF iv, ls
    <3>2. /\ list' \in Lists
          /\ \A h \in Heads, y \in Timers : y # t => (OnList(list'[h], y) <=> OnList(ls[h], y))
          /\ (\A h \in Heads : Once(ls[h])) =>
               \A h \in Heads : Once(list'[h]) /\ (OnList(list'[h], t) <=> h = Top.head)
      BY <1>3, <1>7, <3>1, StartProperties
    <3> QED BY <1>7, <3>2
  <2> HIDE DEF tm, l2, ls
  <2>5. /\ \A h \in Heads, u \in Timers : u # t => (OnList(l2[h], u) <=> OnList(list[h], u))
        /\ \A h \in Heads : OnList(l2[h], t) => h = Global /\ ~IsNode(t)
    BY <1>7, <2>2, <2>4
  <2> QED BY <1>1, <1>2, <1>6, <2>3, <2>4, <2>5 DEF tm, l2
<1>9. CASE timer[t].mode # "loop"
  <2>1. list' = ls /\ timer' = timer
    BY <1>9 DEF TimerFire
  <2> HIDE DEF ls
  <2> QED BY <1>1, <1>2, <1>4, <1>6, <1>7, <2>1
<1> QED BY <1>8, <1>9

LEMMA FireKeeps ==
  ASSUME SmInv, NEW t \in Timers, TimerFire(t), UNCHANGED <<smVars, eventVars>>
  PROVE  SmInv'
<1> DEFINE tm == timer'
           l2 == list'
           g == [Top EXCEPT !.cur = t, !.pc = IF timer[t].cb THEN "cb" ELSE "loop"]
<1>1. /\ Top \in TimerFrames /\ Top.pc = "loop" /\ stack # <<>> /\ IsTmr(Top) /\ timer[t].live
      /\ timer[t].cb
      /\ tm \in [Timers -> TimerRecords] /\ l2 \in Lists
      /\ \A u \in Timers : /\ tm[u].live <=> timer[u].live
                           /\ tm[u].cb <=> timer[u].cb
                           /\ tm[u].mode = timer[u].mode
      /\ \A h \in Heads : Once(l2[h])
      /\ \A h \in Heads, u \in Timers : u # t => (OnList(l2[h], u) <=> OnList(list[h], u))
      /\ \A h \in Heads : OnList(l2[h], t) => h = Global /\ ~IsNode(t)
  BY FireLists
<1>2. /\ SmTypes /\ StackInv /\ ServersInv /\ NodesOK /\ RunOK /\ sm
      /\ \A x \in AllFrames : [stack EXCEPT ![1] = x] = <<x>> \o Tail(stack)
  BY <1>1, PassTop
<1>3. /\ stack' = [stack EXCEPT ![1] = g] /\ masked' = masked
      /\ UNCHANGED <<sm, current, re, bitmap, node, server, mode, queue, tick>>
  BY DEF TimerFire, Goto, smVars, eventVars
<1>4. g \in TimerFrames /\ g.pc = "cb" /\ g.cur = t /\ g.level = Top.level
  BY <1>1 DEF TimerFrames
<1>5. g \in AllFrames /\ IsTmr(g) /\ Locked(g) /\ Locked(Top)
  BY <1>1, <1>4 DEF AllFrames, TimerFrames, IsTmr, Locked
<1> HIDE DEF g
<1>6. stack' = <<g>> \o Tail(stack)
  BY <1>2, <1>3, <1>5
<1>7. t \in LiveTimers
  BY <1>1 DEF LiveTimers
<1>8. /\ Rests(stack', masked', queue, re)
      /\ \A A : Moving(stack', A) <=> Moving(stack, A)
      /\ \A u : Busy(stack', u) <=> Calls(g, u) \/ Busy(Tail(stack), u)
      /\ \A u : Busy(stack, u) <=> Calls(Top, u) \/ Busy(Tail(stack), u)
  BY <1>1, <1>3, <1>4, <1>5, <1>6, <1>7, PassGoes
<1>9. /\ \A u : Busy(stack, u) => Busy(stack', u)
      /\ Busy(stack', t)
  BY <1>1, <1>4, <1>5, <1>8 DEF Calls
<1> HIDE DEF tm, l2
<1>10. LiveTimers' = LiveTimers /\ NodeTimers' = NodeTimers
  <2>1. LiveTimers' = {u \in Timers : tm[u].live}
    BY DEF LiveTimers, tm
  <2> QED BY <1>1, <1>3, <2>1 DEF LiveTimers, NodeTimers, IsNode, NoNode
<1>11. StackInv' /\ stack' \in Seq(AllFrames) /\ masked' \in BOOLEAN
  BY <1>3, <1>8, <1>10, RestsKept
<1>12. ServersInv'
  <2>1. ASSUME NEW s \in Servers, bitmap[s] = {}, list[s] = <<>>
        PROVE  bitmap'[s] = {} /\ list'[s] = <<>>
    <3>1. s \in Heads /\ s # Global
      BY SmAssumption
    <3>2. list[s] \in Seq(Timers) /\ l2[s] \in Seq(Timers)
      BY <1>1, <1>2, <3>1 DEF SmTypes, Lists
    <3>3. \A y \in Timers : ~OnList(l2[s], y)
      BY <1>1, <2>1, <3>1, <3>2, NoneOnList
    <3>4. \A y : OnList(l2[s], y) => y \in Timers
      BY <3>2, LenProperties, ElementOfSeq DEF OnList
    <3>5. l2[s] = <<>>
      BY <3>2, <3>3, <3>4, NoneOnList
    <3> QED BY <1>3, <2>1, <3>5 DEF l2
  <2> QED BY <1>2, <1>3, <1>8, <2>1, ServersKept
<1>13. NodesOK'
  <2>1. \A u \in Timers :
          /\ tm[u].live => tm[u].cb
          /\ IsNode(u) => /\ tm[u].live /\ tm[u].mode = "single"
                          /\ node[u].ctrl \in Heads /\ node[u].ev \in Events
    BY <1>1, <1>2 DEF NodesOK
  <2>2. /\ \A h \in Heads, k \in 0 .. MaxIds - 1 :
             k \in bitmap[h] <=> \E u \in Timers : node[u].ctrl = h /\ node[u].id = k
        /\ \A u, v \in Timers :
             IsNode(u) /\ node[v].ctrl = node[u].ctrl /\ node[v].id = node[u].id => u = v
    BY <1>2 DEF NodesOK
  <2>3. \A h \in Heads, u \in Timers :
          OnList(l2[h], u) => /\ tm[u].live
                              /\ (h = Global /\ ~IsNode(u)) \/ node[u].ctrl = h
    BY <1>1, <1>2 DEF NodesOK
  <2> QED BY <1>1, <1>3, <2>1, <2>2, <2>3 DEF NodesOK, IsNode, NoNode, tm, l2
<1>14. RunOK'
  <2>1. ASSUME NEW u \in Timers, IsNode(u)
        PROVE  OnList(l2[node[u].ctrl], u) \/ Busy(stack', u)
    <3>1. node[u].ctrl \in Heads /\ (OnList(list[node[u].ctrl], u) \/ Busy(stack, u))
      BY <1>2, <2>1 DEF RunOK, NodesOK
    <3> QED BY <1>1, <1>9, <3>1
  <2> QED BY <1>3, <2>1 DEF RunOK, IsNode, NoNode, l2
<1>15. SmTypes'
  BY <1>1, <1>2, <1>3, <1>11 DEF SmTypes, tm, l2
<1> QED BY <1>11, <1>12, <1>13, <1>14, <1>15 DEF SmInv

-----------------------------------------------------------------------------
(***************************************************************************)
(* The invariant of the machine: it holds at the start and every step      *)
(* keeps it.                                                               *)
(***************************************************************************)
LEMMA SmStarts == SmInit => SmInv
<1> SUFFICES ASSUME SmInit PROVE SmInv
  OBVIOUS
<1>1. /\ sm = FALSE /\ current = "none" /\ re = FALSE /\ stack = <<>> /\ masked = FALSE
      /\ bitmap = [h \in Heads |-> {}] /\ node = [t \in Timers |-> NoNode]
      /\ server = [s \in Servers |-> "absent"] /\ queue = [s \in Servers |-> <<>>]
      /\ mode = [s \in Servers |-> [e \in Events |-> "none"]]
      /\ tick = 0 /\ timer = [t \in Timers |-> Absent] /\ list = [h \in Heads |-> <<>>]
  BY DEF SmInit, EventInit, TimerInit, IsrInit
<1>2. TimerTypeOK
  BY TypeInit DEF SmInit
<1>3. NoNode \in NodeRecords
  BY SmAssumption DEF NoNode, NodeRecords
<1>4. \A t \in Timers : ~IsNode(t) /\ ~timer[t].live
  BY <1>1 DEF IsNode, Absent
<1>5. \A g \in Heads : list[g] = <<>> /\ bitmap[g] = {}
  BY <1>1
<1>6. SmTypes
  <2>1. tick \in Ticks /\ timer \in [Timers -> TimerRecords] /\ list \in Lists
    BY <1>2 DEF TimerTypeOK, TimerRecords, Lists
  <2>2. node \in [Timers -> NodeRecords] /\ bitmap \in [Heads -> SUBSET (0 .. MaxIds - 1)]
    BY <1>1, <1>3
  <2>3. stack \in Seq(AllFrames)
    BY <1>1, StackEmpty
  <2>4. queue \in [Servers -> Seq(Msgs)]
    BY <1>1, EmptySeq
  <2>5. /\ mode \in [Servers -> [Events -> {"none", "async"}]]
        /\ server \in [Servers -> {"absent", "stopped", "started", "freed"}]
    BY <1>1
  <2>6. sm \in BOOLEAN /\ re \in BOOLEAN /\ masked \in BOOLEAN
    BY <1>1
  <2> QED BY <1>1, <2>1, <2>2, <2>3, <2>4, <2>5, <2>6 DEF SmTypes
<1>7. StackInv
  <2>1. ~AnyLocked(stack) /\ StackOK(stack, queue, current, re, LiveTimers, NodeTimers)
    BY <1>1, StackEmpty
  <2> QED BY <1>1, <2>1 DEF StackInv
<1>8. ServersInv
  BY <1>1, <1>5, SmAssumption DEF ServersInv
<1>9. NodesOK /\ RunOK
  <2>1. \A h \in Heads, t \in Timers : ~OnList(list[h], t)
    BY <1>5, EmptySeq DEF OnList
  <2>2. \A h \in Heads : Once(list[h])
    BY <1>5, EmptySeq DEF Once
  <2>3. \A h \in Heads, u \in Timers : node[u].ctrl # h
    BY <1>1, SmAssumption DEF NoNode
  <2> QED BY <1>4, <1>5, <2>1, <2>2, <2>3 DEF NodesOK, RunOK
<1> QED BY <1>6, <1>7, <1>8, <1>9 DEF SmInv

LEMMA SmKeeps ==
  ASSUME IsrOps \cap {"trans_to", "sm_handler", "start_private"} = {}, SmInv, [SmNext]_allVars
  PROVE  SmInv'
<1>1. CASE UNCHANGED allVars
  BY <1>1 DEF allVars, smVars, eventVars, timerVars, isrVars, SmInv, SmTypes, StackInv,
         ServersInv, NodesOK, RunOK, LiveTimers, NodeTimers, IsNode
<1>2. CASE SmSteps
  <2>1. CASE SmOvertick \/ SmOvertickDone
    BY <2>1, OvertickStarts, OvertickRemoves
  <2>2. CASE TransClear \/ TransTimers \/ TransStart
    BY <2>2, TransClears, TransRemoves, TransStarts
  <2>3. CASE HandlerGlobal \/ HandlerPrivate \/ HandlerEvent \/ HandlerAgain
    BY <2>3, HandlerCalls, HandlerEvents, HandlerGoesRound
  <2>4. CASE EventSteps /\ UNCHANGED <<smVars, timerVars>>
    BY <2>4, BusKeeps
  <2>5. CASE TimerSteps /\ ~InOvertick /\ UNCHANGED <<smVars, eventVars>>
    BY <2>5, PassKeeps, FireKeeps DEF TimerSteps
  <2> QED BY <1>2, <2>1, <2>2, <2>3, <2>4, <2>5 DEF SmSteps
<1>3. CASE Tick /\ UNCHANGED <<smVars, eventVars>>
  BY <1>3, TickKeeps
<1>4. CASE sh_sm_create \/ sh_sm_destroy \/ sh_sm_handler \/ sh_sm_remove_all_global_timer
  BY <1>4, CreateKeeps, MachineGoes, HandlerKeeps, RemovesKeep
<1>5. ASSUME NEW s \in Servers,
             \/ sh_sm_state_create(s) \/ sh_sm_state_destroy(s) \/ sh_sm_trans_to(s)
             \/ sh_sm_remove_state_all_timer(s)
             \/ \E e \in Events : \/ sh_sm_state_subscribe_event(s, e)
                                  \/ sh_sm_state_unsubscribe_event(s, e)
      PROVE  SmInv'
  BY <1>5, CreateKeeps, DestroyKeeps, TransKeeps, RemovesKeep, UnsubscribeKeeps
<1>6. ASSUME NEW e \in Events,
             \/ sh_sm_publish_event(e)
             \/ \E t \in Timers, ivl \in Intervals : \/ sh_sm_start_global_timer(t, ivl, e)
                                                     \/ sh_sm_start_timer(t, ivl, e)
      PROVE  SmInv'
  BY <1>6, PublishKeeps, StartsKeep
<1>7. ASSUME NEW t \in Timers,
             \/ DestroyNormalTimer(t)
             \/ \E ivl \in Intervals : sh_sm_start_normal_timer(t, ivl)
      PROVE  SmInv'
  BY <1>7, NormalKeeps, StartsKeep
<1>8. ASSUME NEW id \in 0 .. MaxIds - 1, NEW private \in BOOLEAN, sh_sm_remove_timer(private, id)
      PROVE  SmInv'
  BY <1>8, RemovesKeep
<1> QED BY <1>1, <1>2, <1>3, <1>4, <1>5, <1>6, <1>7, <1>8 DEF SmNext

LEMMA SmAlways ==
  ASSUME IsrOps \cap {"trans_to", "sm_handler", "start_private"} = {}
  PROVE  SmSpec => []SmInv
<1>1. SmInv /\ [SmNext]_allVars => SmInv'
  BY SmKeeps
<1> QED BY <1>1, SmStarts, PTL DEF SmSpec

-----------------------------------------------------------------------------
(***************************************************************************)
(* What follows, when interrupt handlers do not move the machine, run its  *)
(* handler or start private timers: sh_sm_trans_to and sh_sm_handler run   *)
(* with interrupts enabled, and between two steps of a transition a timer  *)
(* would start for the state that is being left.                           *)
(***************************************************************************)
\* The variables of the machine and the frames of every call keep their types.
THEOREM SmTypeCorrect ==
  ASSUME IsrOps \cap {"trans_to", "sm_handler", "start_private"} = {}
  PROVE  SmSpec => []SmTypeOK
<1>1. SmInv => SmTypeOK
  BY DEF SmInv, SmTypes, SmTypeOK, AllFrames, NodeRecords
<1> QED BY <1>1, SmAlways, PTL

(***************************************************************************)
(* A state that was left is at rest: sh_sm_trans_to empties its queue and  *)
(* removes its timers, and neither the publications of interrupts between  *)
(* its steps nor callbacks refill them.                                    *)
(***************************************************************************)
THEOREM SmLeavesAtRest ==
  ASSUME IsrOps \cap {"trans_to", "sm_handler", "start_private"} = {}
  PROVE  SmSpec => []LeftAtRest
<1>1. SmInv => LeftAtRest
  BY DEF SmInv, ServersInv, LeftAtRest, Live
<1> QED BY <1>1, SmAlways, PTL

(***************************************************************************)
(* The bitmap, the nodes and the lists of the timers of the machine agree, *)
(* whatever callbacks start, remove and leave behind while timers run out  *)
(* (sh_sm_timer_overtick_cb, sh_sm_start_timer_and_get_id,                 *)
(* _sh_sm_remove_timer).                                                   *)
(***************************************************************************)
THEOREM SmNodesCorrect ==
  ASSUME IsrOps \cap {"trans_to", "sm_handler", "start_private"} = {}
  PROVE  SmSpec => []NodesAgree
<1>1. SmInv => NodesAgree
  <2> SUFFICES ASSUME SmInv PROVE NodesAgree
    OBVIOUS
  <2>1. SmTypes /\ NodesOK /\ RunOK
    BY DEF SmInv
  <2>2. ASSUME NEW h \in Heads
        PROVE  bitmap[h] = {node[t].id : t \in {u \in Timers : node[u].ctrl = h}}
    <3>1. bitmap[h] \subseteq 0 .. MaxIds - 1 /\ \A u \in Timers : node[u].id \in 0 .. MaxIds - 1
      BY <2>1 DEF SmTypes, NodeRecords
    <3>2. \A k \in 0 .. MaxIds - 1 :
            k \in bitmap[h] <=> \E u \in Timers : node[u].ctrl = h /\ node[u].id = k
      BY <2>1 DEF NodesOK
    <3> QED BY <3>1, <3>2
  <2>3. \A t, u \in Timers :
          IsNode(t) /\ node[u].ctrl = node[t].ctrl /\ node[u].id = node[t].id => t = u
    BY <2>1 DEF NodesOK
  <2>4. \A t \in Timers :
          IsNode(t) => \/ OnList(list[node[t].ctrl], t)
                       \/ \E i \in DOMAIN stack : /\ IsTmr(stack[i])
                                                  /\ stack[i].pc = "cb" /\ stack[i].cur = t
    BY <2>1 DEF RunOK, Busy, Calls
  <2> QED BY <2>2, <2>3, <2>4 DEF NodesAgree
<1> QED BY <1>1, SmAlways, PTL

(***************************************************************************)
(* sh_sm_handler does not return before it has served the state the        *)
(* machine is in, when it is called by the main loop only: a handler that  *)
(* a callback calls takes re_execute away from the one below it.           *)
(***************************************************************************)
THEOREM SmServesCurrent ==
  ASSUME IsrOps \cap {"trans_to", "sm_handler", "start_private"} = {}, MainOnly
  PROVE  SmSpec => []ServesCurrent
<1>1. SmInv => ServesCurrent
  BY DEF SmInv, StackInv, StackOK, SmFrameOK, ServesCurrent
<1> QED BY <1>1, SmAlways, PTL

-----------------------------------------------------------------------------
(***************************************************************************)
(* The server of the current state is started unless a transition is on    *)
(* its way, when callers are careful not to destroy the current state.     *)
(***************************************************************************)
\* Transitions stay on their way when functions are entered above them.
LEMMA MovingAbove ==
  ASSUME NEW S, NEW fs \in Seq(S), NEW t \in Seq(AllFrames), NEW A, Moving(t, A)
  PROVE  Moving(fs \o t, A)
<1>1. PICK i \in DOMAIN t : IsTrans(t[i]) /\ t[i].at \in A
  BY DEF Moving
<1>2. /\ Len(fs) \in Nat /\ DOMAIN t = 1 .. Len(t) /\ Len(t) \in Nat
      /\ Len(fs) + i \in DOMAIN (fs \o t) /\ (fs \o t)[Len(fs) + i] = t[i]
  BY LenProperties, ConcatProperties
<1> QED BY <1>1, <1>2 DEF Moving

\* The transitions below a frame that is not one.
LEMMA MovingBelow ==
  ASSUME SmTypes, stack # <<>>, ~IsTrans(Top), NEW A, Moving(stack, A)
  PROVE  Tail(stack) \in Seq(AllFrames) /\ Moving(Tail(stack), A)
<1>1. /\ Top \in AllFrames /\ Tail(stack) \in Seq(AllFrames) /\ stack = <<Top>> \o Tail(stack)
  BY StackSplit DEF SmTypes
<1> QED BY <1>1, StackPush

\* A step that leaves the servers and the current state alone.
LEMMA StaysStarted ==
  ASSUME CarefulInv, UNCHANGED <<server, current>>,
         Moving(stack, Anywhere) => Moving(stack', Anywhere)
  PROVE  CarefulInv'
BY DEF CarefulInv

LEMMA BusStaysCareful ==
  ASSUME SmInv, CarefulInv, EventSteps, UNCHANGED <<smVars, timerVars>>
  PROVE  CarefulInv'
<1>1. UNCHANGED <<current, re, node, timer>> /\ SmTypes /\ StackInv
  BY DEF smVars, timerVars, SmInv
<1>2. BusStep
  BY <1>1, BusSteps
<1> QED BY <1>1, <1>2, StaysStarted DEF BusStep, SamePlaces

\* The step changes the frame on top, which is not a transition, leaves
\* it or calls others.
LEMMA TopStaysCareful ==
  ASSUME SmInv, CarefulInv, stack # <<>>, ~IsTrans(Top),
         \/ stack' = Tail(stack)
         \/ \E x : stack' = [stack EXCEPT ![1] = x]
         \/ \E S : \E fs \in Seq(S) : stack' = fs \o Tail(stack),
         UNCHANGED <<server, current>>
  PROVE  CarefulInv'
<1>1. ASSUME Moving(stack, Anywhere) PROVE Moving(stack', Anywhere)
  <2>1. Tail(stack) \in Seq(AllFrames) /\ Moving(Tail(stack), Anywhere) /\ stack \in Seq(AllFrames)
    BY <1>1, MovingBelow DEF SmInv, SmTypes
  <2>2. ASSUME NEW x, stack' = [stack EXCEPT ![1] = x] PROVE Moving(stack', Anywhere)
    <3>1. PICK i \in DOMAIN stack : IsTrans(stack[i]) /\ stack[i].at \in Anywhere
      BY <1>1 DEF Moving
    <3>2. i # 1 /\ i \in DOMAIN stack' /\ stack'[i] = stack[i]
      BY <2>1, <2>2, <3>1 DEF Top
    <3> QED BY <3>1, <3>2 DEF Moving
  <2>3. ASSUME NEW S, NEW fs \in Seq(S), stack' = fs \o Tail(stack) PROVE Moving(stack', Anywhere)
    BY <2>1, <2>3, MovingAbove
  <2> QED BY <2>1, <2>2, <2>3
<1> QED BY <1>1, StaysStarted

LEMMA PassStaysCareful ==
  ASSUME SmInv, CarefulInv, TimerSteps, UNCHANGED <<smVars, eventVars>>
  PROVE  CarefulInv'
<1>1. stack # <<>> /\ IsTmr(Top) /\ ~IsTrans(Top) /\ UNCHANGED <<server, current>>
  BY DEF TimerSteps, TimerLock, TimerDone, TimerCbReturn, TimerFire, PassEnds, InPass, IsTmr,
         IsTrans, smVars, eventVars
<1>2. stack' = Tail(stack) \/ \E x : stack' = [stack EXCEPT ![1] = x]
  BY DEF TimerSteps, TimerLock, TimerDone, TimerCbReturn, TimerFire, sh_isr_disable, sh_isr_enable,
         Goto, Leave
<1> QED BY <1>1, <1>2, TopStaysCareful

LEMMA HandlerStaysCareful ==
  ASSUME SmInv, CarefulInv, HandlerGlobal \/ HandlerPrivate \/ HandlerEvent \/ HandlerAgain
  PROVE  CarefulInv'
<1>1. stack # <<>> /\ IsSm(Top) /\ ~IsTrans(Top) /\ UNCHANGED <<server, current>>
  BY DEF HandlerGlobal, HandlerPrivate, HandlerEvent, HandlerAgain, HandlerAt, IsSm, IsTrans,
         smVars, eventVars
<1>2. ASSUME NEW g, NEW h, NEW fs, fs = <<>> \/ fs = <<h>>, Call(fs, g)
      PROVE  \E S : \E cs \in Seq(S) : stack' = cs \o Tail(stack)
  <2> DEFINE S == {g, h}
  <2>1. fs \o <<g>> \in Seq(S)
    <3>1. g \in S /\ h \in S
      OBVIOUS
    <3> HIDE DEF S
    <3>2. <<g>> \in Seq(S) /\ <<h>> \in Seq(S) /\ <<>> \in Seq(S)
      BY <3>1
    <3>3. fs \in Seq(S)
      BY <1>2, <3>2
    <3> QED BY <3>2, <3>3, ConcatProperties
  <2>2. stack' = fs \o <<g>> \o Tail(stack)
    BY <1>2 DEF Call
  <2> QED BY <2>1, <2>2
<1>3. CASE HandlerGlobal
  <2> DEFINE g == [Top EXCEPT !.at = "private", !.srv = current]
             fs == <<TimerFrame(Global)>>
  <2>1. Call(fs, g)
    BY <1>3 DEF HandlerGlobal
  <2> HIDE DEF g
  <2> QED BY <1>1, <1>2, <2>1, TopStaysCareful
<1>4. CASE HandlerPrivate
  <2> DEFINE g == [Top EXCEPT !.at = "event"]
             fs == <<TimerFrame(current)>>
  <2>1. Call(fs, g)
    BY <1>4 DEF HandlerPrivate
  <2> HIDE DEF g
  <2> QED BY <1>1, <1>2, <2>1, TopStaysCareful
<1>5. CASE HandlerEvent
  <2> DEFINE g == [Top EXCEPT !.at = "again"]
             fs == IF queue[Top.srv] = <<>> THEN <<>> ELSE <<ExecFrame(Top.srv)>>
  <2>1. Call(fs, g) /\ (fs = <<>> \/ fs = <<ExecFrame(Top.srv)>>)
    BY <1>5 DEF HandlerEvent
  <2> HIDE DEF g, fs
  <2> QED BY <1>1, <1>2, <2>1, TopStaysCareful
<1>6. CASE HandlerAgain
  BY <1>1, <1>6, TopStaysCareful DEF HandlerAgain, Goto, Leave
<1> QED BY <1>3, <1>4, <1>5, <1>6

LEMMA OvertickStaysCareful ==
  ASSUME SmInv, CarefulInv, SmOvertick \/ SmOvertickDone
  PROVE  CarefulInv'
<1>1. stack \in Seq(AllFrames)
  BY DEF SmInv, SmTypes
<1>2. CASE SmOvertick
  <2>1. ASSUME NEW f, NEW g, NEW fs, fs = <<f>> \/ fs = <<g, f>>, stack' = fs \o stack,
               Moving(stack, Anywhere)
        PROVE  Moving(stack', Anywhere)
    <3>1. fs \in Seq({f, g})
      BY <2>1
    <3> QED BY <1>1, <2>1, <3>1, MovingAbove
  <2>2. Moving(stack, Anywhere) => Moving(stack', Anywhere)
    BY <1>2, <2>1 DEF SmOvertick
  <2> QED BY <1>2, <2>2, StaysStarted DEF SmOvertick, smVars, eventVars
<1>3. CASE SmOvertickDone
  <2>1. PICK rest \in Seq(AllFrames) : /\ rest = SubSeq(stack, 3, Len(stack))
                                       /\ Moving(stack, Anywhere) <=> Moving(rest, Anywhere)
    BY <1>3, OvertickTop DEF SmOvertickDone, IsOvt
  <2>2. ASSUME NEW g, stack' = <<g>> \o rest, Moving(stack, Anywhere) PROVE Moving(stack', Anywhere)
    <3>1. <<g>> \in Seq({g})
      OBVIOUS
    <3> QED BY <2>1, <2>2, <3>1, MovingAbove
  <2>3. Moving(stack, Anywhere) => Moving(stack', Anywhere)
    BY <1>3, <2>1, <2>2 DEF SmOvertickDone
  <2> QED BY <1>3, <2>3, StaysStarted DEF SmOvertickDone, eventVars
<1> QED BY <1>2, <1>3

LEMMA TransStaysCareful ==
  ASSUME SmInv, CarefulInv, TransClear \/ TransTimers \/ TransStart
  PROVE  CarefulInv'
<1>1. /\ stack # <<>> /\ IsTrans(Top) /\ Top \in TransFrames
      /\ Tail(stack) \in Seq(AllFrames) /\ 1 \in DOMAIN stack /\ stack \in Seq(AllFrames)
      /\ server \in [Servers -> {"absent", "stopped", "started", "freed"}]
  BY TransTop, StackSplit DEF TransClear, TransTimers, TransStart, TransAt, SmTypes, SmInv
<1>2. CASE TransClear
  <2> DEFINE g == [Top EXCEPT !.at = "timers"]
             fs == IF queue[current] = <<>> THEN Tail(stack)
                   ELSE Break(Tail(stack), DrainBreaks(Tail(stack), current))
  <2>1. IsTrans(g) /\ g.at \in Anywhere
    BY <1>1 DEF TransFrames, IsTrans, Anywhere
  <2>2. fs \in Seq(AllFrames)
    <3> DEFINE t == Tail(stack)
               I == DrainBreaks(t, current)
    <3>1. t \in Seq(AllFrames)
      BY <1>1
    <3> HIDE DEF t, I
    <3>2. Break(t, I) \in Seq(AllFrames)
      BY <3>1, SmBreakFrames
    <3> QED BY <3>1, <3>2 DEF t, I
  <2>3. stack' = <<g>> \o fs
    BY <1>2 DEF TransClear
  <2> HIDE DEF g, fs
  <2>4. 1 \in DOMAIN stack' /\ stack'[1] = g
    BY <2>2, <2>3
  <2> QED BY <2>1, <2>4 DEF CarefulInv, Moving
<1>3. CASE TransTimers
  <2>1. stack' = [stack EXCEPT ![1] = [Top EXCEPT !.at = "start"]]
    BY <1>3 DEF TransTimers, Goto
  <2>2. 1 \in DOMAIN stack' /\ IsTrans(stack'[1]) /\ stack'[1].at \in Anywhere
    BY <1>1, <2>1 DEF TransFrames, IsTrans, Anywhere
  <2> QED BY <2>2 DEF CarefulInv, Moving
<1>4. CASE TransStart
  <2>1. Top.to \in Servers /\ current' = Top.to /\ server' = [server EXCEPT ![Top.to] = "started"]
    BY <1>1, <1>4 DEF TransStart, TransFrames
  <2>2. server'[current'] = "started"
    BY <1>1, <2>1
  <2> QED BY <2>2 DEF CarefulInv
<1> QED BY <1>2, <1>3, <1>4

\* Frames that lose their place are still there.
LEMMA BreakStaysCareful ==
  ASSUME SmInv, NEW I, stack' = Break(stack, I)
  PROVE  Moving(stack, Anywhere) => Moving(stack', Anywhere)
<1>1. stack \in Seq(AllFrames)
  BY DEF SmInv, SmTypes
<1>2. /\ DOMAIN stack' = DOMAIN stack
      /\ \A i \in DOMAIN stack : SmAlike(stack[i], stack'[i])
  BY <1>1, SmBreakFrames
<1> QED BY <1>2 DEF Moving, SmAlike, Kind

LEMMA CallsStayCareful ==
  ASSUME SmInv, CarefulInv,
         \/ sh_sm_handler
         \/ \E e \in Events : sh_sm_publish_event(e)
         \/ \E s \in Servers : sh_sm_trans_to(s)
         \/ \E s \in Servers, e \in Events : sh_sm_state_unsubscribe_event(s, e)
  PROVE  CarefulInv'
<1>1. stack \in Seq(AllFrames)
  BY DEF SmInv, SmTypes
<1>2. ASSUME NEW f, Enter(f), Moving(stack, Anywhere) PROVE Moving(stack', Anywhere)
  <2>1. <<f>> \in Seq({f})
    OBVIOUS
  <2> QED BY <1>1, <1>2, <2>1, MovingAbove DEF Enter
<1>3. CASE sh_sm_handler
  BY <1>2, <1>3, StaysStarted DEF sh_sm_handler, smVars, eventVars
<1>4. ASSUME NEW e \in Events, sh_sm_publish_event(e) PROVE CarefulInv'
  BY <1>2, <1>4, StaysStarted DEF sh_sm_publish_event, PublishEnter, smVars, eventVars
<1>5. ASSUME NEW s \in Servers, sh_sm_trans_to(s) PROVE CarefulInv'
  <2> DEFINE g == [op |-> "trans", pc |-> "check", to |-> s, level |-> FALSE, ok |-> TRUE,
                   at |-> IF current = "none" THEN "start" ELSE "clear"]
  <2>1. IsTrans(g) /\ g.at \in Anywhere
    BY DEF IsTrans, Anywhere
  <2>2. stack' = <<g>> \o stack
    BY <1>5 DEF sh_sm_trans_to, Enter
  <2> HIDE DEF g
  <2>3. 1 \in DOMAIN stack' /\ stack'[1] = g
    BY <1>1, <2>2
  <2> QED BY <2>1, <2>3 DEF CarefulInv, Moving
<1>6. ASSUME NEW s \in Servers, NEW e \in Events, sh_sm_state_unsubscribe_event(s, e)
      PROVE  CarefulInv'
  <2> DEFINE I == UnlinkBreaks(stack, s, {e})
  <2>1. stack' = Break(stack, I) /\ UNCHANGED <<server, current>>
    BY <1>6 DEF sh_sm_state_unsubscribe_event, Unlink, smVars
  <2> HIDE DEF I
  <2>2. Moving(stack, Anywhere) => Moving(stack', Anywhere)
    BY <2>1, BreakStaysCareful
  <2> QED BY <2>1, <2>2, StaysStarted
<1> QED BY <1>3, <1>4, <1>5, <1>6

\* The server of state s comes or goes; s is not the current state or not
\* there yet.
LEMMA OthersStayCareful ==
  ASSUME SmInv, CarefulInv, NEW s \in Servers, s # current \/ server[s] = "absent",
         NEW v, server' = [server EXCEPT ![s] = v], UNCHANGED current,
         Moving(stack, Anywhere) => Moving(stack', Anywhere)
  PROVE  CarefulInv'
<1>1. server \in [Servers -> {"absent", "stopped", "started", "freed"}]
      /\ current \in Servers \cup {"none"}
  BY DEF SmInv, SmTypes
<1>3. ASSUME server[current] = "started", current # "none" PROVE server'[current] = "started"
  BY <1>1, <1>3
<1> QED BY <1>3 DEF CarefulInv

LEMMA SmStaysCareful ==
  ASSUME Careful, SmInv, CarefulInv, [SmNext]_allVars
  PROVE  CarefulInv'
<1>1. ASSUME UNCHANGED <<server, current, stack>> PROVE CarefulInv'
  BY <1>1 DEF CarefulInv, Moving
<1>2. CASE UNCHANGED allVars
  BY <1>1, <1>2 DEF allVars, smVars, eventVars, isrVars
<1>3. CASE SmSteps
  BY <1>3, OvertickStaysCareful, TransStaysCareful, HandlerStaysCareful, BusStaysCareful,
     PassStaysCareful DEF SmSteps
<1>4. CASE Tick /\ UNCHANGED <<smVars, eventVars>>
  BY <1>1, <1>4 DEF Tick, smVars, eventVars, isrVars
<1>5. CASE sh_sm_create \/ sh_sm_destroy
  BY <1>5 DEF CarefulInv, sh_sm_create, sh_sm_destroy
<1>6. CASE sh_sm_handler \/ \E e \in Events : sh_sm_publish_event(e)
  BY <1>6, CallsStayCareful
<1>7. CASE sh_sm_remove_all_global_timer
  BY <1>1, <1>7 DEF sh_sm_remove_all_global_timer, eventVars, isrVars
<1>8. ASSUME NEW s \in Servers, sh_sm_state_create(s) PROVE CarefulInv'
  <2>1. server[s] = "absent" /\ server' = [server EXCEPT ![s] = "stopped"] /\ UNCHANGED <<stack, current>>
    BY <1>8 DEF sh_sm_state_create, smVars, isrVars
  <2>2. Moving(stack, Anywhere) => Moving(stack', Anywhere)
    BY <2>1
  <2> QED BY <2>1, <2>2, OthersStayCareful
<1>9. ASSUME NEW s \in Servers, sh_sm_state_destroy(s) PROVE CarefulInv'
  <2> DEFINE v == IF queue[s] = <<>> THEN "absent" ELSE "freed"
             I == UnlinkBreaks(stack, s, Events) \cup ExecsOf(stack, s)
  <2>1. /\ s # current /\ server' = [server EXCEPT ![s] = v] /\ UNCHANGED current
        /\ stack' = Break(stack, I)
    BY <1>9 DEF sh_sm_state_destroy, MayDestroy
  <2> HIDE DEF v, I
  <2>2. Moving(stack, Anywhere) => Moving(stack', Anywhere)
    BY <2>1, BreakStaysCareful
  <2> QED BY <2>1, <2>2, OthersStayCareful
<1>10. ASSUME NEW s \in Servers,
              \/ sh_sm_trans_to(s)
              \/ \E e \in Events : sh_sm_state_unsubscribe_event(s, e)
       PROVE  CarefulInv'
  BY <1>10, CallsStayCareful
<1>11. ASSUME NEW s \in Servers,
              \/ sh_sm_remove_state_all_timer(s)
              \/ \E e \in Events : sh_sm_state_subscribe_event(s, e)
       PROVE  CarefulInv'
  BY <1>1, <1>11 DEF sh_sm_remove_state_all_timer, sh_sm_state_subscribe_event, Subscribe, smVars,
         eventVars, isrVars
<1>12. ASSUME NEW e \in Events, NEW t \in Timers, NEW ivl \in Intervals,
              \/ sh_sm_start_global_timer(t, ivl, e)
              \/ sh_sm_start_timer(t, ivl, e)
       PROVE  CarefulInv'
  BY <1>1, <1>12 DEF sh_sm_start_global_timer, sh_sm_start_timer, sh_sm_start_timer_and_get_id,
         eventVars, isrVars
<1>13. ASSUME NEW t \in Timers,
              \/ DestroyNormalTimer(t)
              \/ \E ivl \in Intervals : sh_sm_start_normal_timer(t, ivl)
       PROVE  CarefulInv'
  BY <1>1, <1>13 DEF DestroyNormalTimer, sh_sm_start_normal_timer, smVars, eventVars, isrVars
<1>14. ASSUME NEW id \in 0 .. MaxIds - 1, NEW private \in BOOLEAN, sh_sm_remove_timer(private, id)
       PROVE  CarefulInv'
  BY <1>1, <1>14 DEF sh_sm_remove_timer, eventVars, isrVars
<1> QED BY <1>2, <1>3, <1>4, <1>5, <1>6, <1>7, <1>8, <1>9, <1>10, <1>11, <1>12, <1>13, <1>14
        DEF SmNext

(***************************************************************************)
(* Only the server of the current state is started, and it is, except      *)
(* while sh_sm_trans_to is between stopping one server and starting the    *)
(* next.                                                                   *)
(***************************************************************************)
THEOREM SmOneStarted ==
  ASSUME IsrOps \cap {"trans_to", "sm_handler", "start_private"} = {}, Careful
  PROVE  SmSpec => []OnlyCurrentStarted
<1>1. SmInit => CarefulInv
  BY DEF SmInit, CarefulInv
<1>2. SmInv /\ CarefulInv /\ [SmNext]_allVars => CarefulInv'
  BY SmStaysCareful
<1>3. SmInv /\ CarefulInv => OnlyCurrentStarted
  BY DEF SmInv, ServersInv, CarefulInv, Moving, OnlyCurrentStarted
<1> QED BY <1>1, <1>2, <1>3, SmAlways, PTL DEF SmSpec
=============================================================================
