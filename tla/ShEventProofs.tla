--------------------------- MODULE ShEventProofs ---------------------------
(***************************************************************************)
(* Theorems about the event bus, for every set of servers, events and      *)
(* messages, every choice of the operations that the main loop, callbacks  *)
(* and interrupts call, and every depth of nesting.                        *)
(***************************************************************************)
EXTENDS ShEvent, ShLemmas, FunctionTheorems

Frames == PubFrames \cup ExecFrames

allEventVars == <<eventVars, isrVars>>

-----------------------------------------------------------------------------
(***************************************************************************)
(* Sequences and positions in them.                                        *)
(***************************************************************************)
\* A sequence with one more element in front.
LEMMA PushSeq ==
  ASSUME NEW S, NEW s \in Seq(S), NEW x \in S
  PROVE  /\ <<x>> \o s \in Seq(S) /\ Len(s) \in Nat /\ DOMAIN s = 1 .. Len(s)
         /\ DOMAIN (<<x>> \o s) = 1 .. Len(s) + 1 /\ Len(<<x>> \o s) = Len(s) + 1
         /\ (<<x>> \o s)[1] = x
         /\ \A i \in 1 .. Len(s) : (<<x>> \o s)[i + 1] = s[i]
         /\ \A i \in 1 .. Len(s) + 1 : i # 1 => i - 1 \in 1 .. Len(s) /\ (<<x>> \o s)[i] = s[i - 1]
<1>1. <<x>> \in Seq(S) /\ Len(<<x>>) = 1 /\ <<x>>[1] = x
  OBVIOUS
<1>2. /\ <<x>> \o s \in Seq(S) /\ Len(<<x>> \o s) = 1 + Len(s)
      /\ \A i \in 1 .. 1 + Len(s) :
           (<<x>> \o s)[i] = IF i <= 1 THEN <<x>>[i] ELSE s[i - 1]
  BY <1>1, ConcatProperties
<1>3. Len(s) \in Nat /\ DOMAIN s = 1 .. Len(s)
  BY LenProperties
<1>4. DOMAIN (<<x>> \o s) = 1 .. Len(s) + 1
  BY <1>2, <1>3, LenProperties
<1>5. (<<x>> \o s)[1] = x
  BY <1>1, <1>2, <1>3
<1>6. ASSUME NEW i \in 1 .. Len(s) + 1, i # 1
      PROVE  i - 1 \in 1 .. Len(s) /\ (<<x>> \o s)[i] = s[i - 1]
  <2>1. i \in 1 .. 1 + Len(s) /\ ~(i <= 1) /\ i - 1 \in 1 .. Len(s)
    BY <1>3, <1>6
  <2> QED BY <1>2, <2>1
<1>7. ASSUME NEW i \in 1 .. Len(s) PROVE (<<x>> \o s)[i + 1] = s[i]
  <2>1. i + 1 \in 1 .. Len(s) + 1 /\ i + 1 # 1 /\ (i + 1) - 1 = i
    BY <1>3
  <2> QED BY <1>6, <2>1
<1> QED BY <1>2, <1>3, <1>4, <1>5, <1>6, <1>7

\* A sequence that is not empty is its head in front of its tail.
LEMMA SplitSeq ==
  ASSUME NEW S, NEW s \in Seq(S), s # <<>>
  PROVE  /\ s[1] \in S /\ Tail(s) \in Seq(S) /\ s = <<s[1]>> \o Tail(s)
         /\ Head(s) = s[1] /\ Len(s) \in Nat \ {0} /\ Len(Tail(s)) = Len(s) - 1
         /\ \A x \in S : [s EXCEPT ![1] = x] = <<x>> \o Tail(s)
<1>1. /\ Len(s) \in Nat \ {0} /\ DOMAIN s = 1 .. Len(s) /\ 1 \in 1 .. Len(s)
  BY LenProperties, EmptySeq
<1>2. s[1] \in S /\ Head(s) = s[1]
  BY <1>1, ElementOfSeq
<1>3. /\ Tail(s) \in Seq(S) /\ Len(Tail(s)) = Len(s) - 1
      /\ \A i \in 1 .. Len(Tail(s)) : Tail(s)[i] = s[i + 1]
  BY HeadTailProperties
<1>4. ASSUME NEW x \in S
      PROVE  /\ <<x>> \o Tail(s) \in Seq(S) /\ Len(<<x>> \o Tail(s)) = Len(s)
             /\ (<<x>> \o Tail(s))[1] = x
             /\ \A i \in 1 .. Len(s) : i # 1 => (<<x>> \o Tail(s))[i] = s[i]
  <2> DEFINE t == Tail(s)
             r == <<x>> \o t
  <2>1. t \in Seq(S) /\ Len(t) = Len(s) - 1 /\ \A i \in 1 .. Len(t) : t[i] = s[i + 1]
    BY <1>3
  <2> HIDE DEF t
  <2>2. /\ r \in Seq(S) /\ Len(r) = Len(t) + 1 /\ r[1] = x
        /\ \A i \in 1 .. Len(t) + 1 : i # 1 => i - 1 \in 1 .. Len(t) /\ r[i] = t[i - 1]
    BY <2>1, PushSeq
  <2> HIDE DEF r
  <2>3. Len(r) = Len(s)
    BY <1>1, <2>1, <2>2
  <2>4. ASSUME NEW i \in 1 .. Len(s), i # 1 PROVE r[i] = s[i]
    <3>1. i \in 1 .. Len(t) + 1 /\ i - 1 \in 1 .. Len(t) /\ (i - 1) + 1 = i
      BY <1>1, <2>1, <2>4
    <3> QED BY <2>1, <2>2, <2>4, <3>1
  <2> QED BY <2>2, <2>3, <2>4 DEF r, t
<1>5. s = <<s[1]>> \o Tail(s)
  BY <1>1, <1>2, <1>4, SeqEqual
<1>6. ASSUME NEW x \in S PROVE [s EXCEPT ![1] = x] = <<x>> \o Tail(s)
  <2> DEFINE e == [s EXCEPT ![1] = x]
             r == <<x>> \o Tail(s)
  <2>1. /\ e \in Seq(S) /\ Len(e) = Len(s)
        /\ \A j \in 1 .. Len(s) : e[j] = IF j = 1 THEN x ELSE s[j]
    BY <1>1, ExceptSeq
  <2>2. /\ r \in Seq(S) /\ Len(r) = Len(s) /\ r[1] = x
        /\ \A i \in 1 .. Len(s) : i # 1 => r[i] = s[i]
    BY <1>4
  <2> HIDE DEF e, r
  <2>3. \A i \in 1 .. Len(e) : e[i] = r[i]
    BY <2>1, <2>2
  <2>4. e = r
    BY <2>1, <2>2, <2>3, SeqEqual
  <2> QED BY <2>4 DEF e, r
<1> QED BY <1>1, <1>2, <1>3, <1>5, <1>6

\* Positions that move up by one, with or without a new first one.
LEMMA ShiftCount ==
  ASSUME NEW A, A \subseteq Nat \ {0}, IsFiniteSet(A), NEW b \in BOOLEAN,
         NEW B, B = {i + 1 : i \in A} \cup (IF b THEN {1} ELSE {})
  PROVE  /\ IsFiniteSet(B) /\ Cardinality(A) \in Nat
         /\ Cardinality(B) = Cardinality(A) + (IF b THEN 1 ELSE 0)
<1> DEFINE C == {i + 1 : i \in A}
           f == [i \in A |-> i + 1]
<1>1. f \in Bijection(A, C)
  <2>1. f \in [A -> C]
    OBVIOUS
  <2>2. \A i, j \in A : f[i] = f[j] => i = j
    OBVIOUS
  <2>3. \A c \in C : \E i \in A : f[i] = c
    OBVIOUS
  <2> QED BY <2>1, <2>2, <2>3, Fun_IsBij
<1>2. IsFiniteSet(C) /\ Cardinality(C) = Cardinality(A) /\ Cardinality(A) \in Nat
  BY <1>1, FS_Bijection, FS_CardinalityType, Fun_ExistsBij
<1>3. 1 \notin C
  OBVIOUS
<1> HIDE DEF C, f
<1>4. CASE b
  <2>1. B = C \cup {1}
    BY <1>4 DEF C
  <2> QED BY <1>2, <1>3, <1>4, <2>1, FS_AddElement
<1>5. CASE ~b
  <2>1. B = C
    BY <1>5 DEF C
  <2> QED BY <1>2, <1>5, <2>1
<1> QED BY <1>4, <1>5

\* The frames of fs that hold message m.
CallersOf(fs, m) == {i \in DOMAIN fs : IsExec(fs[i]) /\ fs[i].msg = m}

LEMMA PushElements ==
  ASSUME NEW S, NEW s \in Seq(S), NEW x \in S
  PROVE  ToSet(<<x>> \o s) = {x} \cup ToSet(s)
<1> DEFINE r == <<x>> \o s
           n == Len(s)
<1>1. /\ n \in Nat /\ DOMAIN s = 1 .. n /\ DOMAIN r = 1 .. n + 1 /\ r[1] = x
      /\ \A i \in 1 .. n : r[i + 1] = s[i]
      /\ \A i \in 1 .. n + 1 : i # 1 => i - 1 \in 1 .. n /\ r[i] = s[i - 1]
  BY PushSeq
<1> HIDE DEF r, n
<1>2. ASSUME NEW y \in ToSet(r) PROVE y \in {x} \cup ToSet(s)
  <2>1. PICK i \in 1 .. n + 1 : r[i] = y
    BY <1>1 DEF ToSet
  <2>2. CASE i = 1
    BY <1>1, <2>1, <2>2
  <2>3. CASE i # 1
    <3>1. i - 1 \in DOMAIN s /\ s[i - 1] = y
      BY <1>1, <2>1, <2>3
    <3> QED BY <3>1 DEF ToSet
  <2> QED BY <2>2, <2>3
<1>3. \A y \in ToSet(s) : y \in ToSet(r)
  BY <1>1 DEF ToSet
<1>4. x \in ToSet(r)
  BY <1>1 DEF ToSet
<1>5. ToSet(r) = {x} \cup ToSet(s)
  BY <1>2, <1>3, <1>4
<1> QED BY <1>5 DEF r

LEMMA CallersFinite ==
  ASSUME NEW fs \in Seq(Frames), NEW m
  PROVE  IsFiniteSet(CallersOf(fs, m)) /\ Cardinality(CallersOf(fs, m)) \in Nat
<1> DEFINE n == Len(fs)
<1>1. n \in Int /\ 1 \in Int /\ DOMAIN fs = 1 .. n
  BY LenProperties
<1>2. IsFiniteSet(1 .. n) /\ CallersOf(fs, m) \in SUBSET (1 .. n)
  BY <1>1, FS_Interval DEF CallersOf
<1>3. IsFiniteSet(CallersOf(fs, m))
  BY <1>2, FS_Subset
<1> QED BY <1>3, FS_CardinalityType

LEMMA PushCallers ==
  ASSUME NEW fs \in Seq(Frames), NEW f \in Frames, NEW m
  PROVE  /\ IsFiniteSet(CallersOf(fs, m)) /\ Cardinality(CallersOf(fs, m)) \in Nat
         /\ Cardinality(CallersOf(<<f>> \o fs, m)) =
              Cardinality(CallersOf(fs, m)) + (IF IsExec(f) /\ f.msg = m THEN 1 ELSE 0)
<1> DEFINE A == CallersOf(fs, m)
           B == CallersOf(<<f>> \o fs, m)
           b == IsExec(f) /\ f.msg = m
           n == Len(fs)
           r == <<f>> \o fs
<1>1. /\ n \in Nat /\ DOMAIN fs = 1 .. n /\ DOMAIN r = 1 .. n + 1 /\ r[1] = f
      /\ \A i \in 1 .. n : r[i + 1] = fs[i]
      /\ \A i \in 1 .. n + 1 : i # 1 => i - 1 \in 1 .. n /\ r[i] = fs[i - 1]
  BY PushSeq
<1> HIDE DEF n, r
<1>2. A \subseteq 1 .. n /\ A \subseteq Nat \ {0}
  BY <1>1 DEF CallersOf
<1>3. IsFiniteSet(A)
  BY CallersFinite
<1>4. B = {i + 1 : i \in A} \cup (IF b THEN {1} ELSE {})
  <2>0. B = CallersOf(r, m)
    BY DEF r
  <2>1. ASSUME NEW i \in B PROVE i \in {k + 1 : k \in A} \cup (IF b THEN {1} ELSE {})
    <3>1. i \in 1 .. n + 1 /\ IsExec(r[i]) /\ r[i].msg = m
      BY <1>1, <2>0 DEF CallersOf
    <3>2. CASE i = 1
      BY <1>1, <3>1, <3>2
    <3>3. CASE i # 1
      <4>1. i - 1 \in A /\ (i - 1) + 1 = i
        BY <1>1, <3>1, <3>3 DEF CallersOf
      <4> QED BY <4>1
    <3> QED BY <3>2, <3>3
  <2>2. ASSUME NEW k \in A PROVE k + 1 \in B
    <3>1. k \in 1 .. n /\ k + 1 \in 1 .. n + 1 /\ IsExec(fs[k]) /\ fs[k].msg = m
      BY <1>1 DEF CallersOf
    <3> QED BY <1>1, <2>0, <3>1 DEF CallersOf
  <2>3. ASSUME b PROVE 1 \in B
    BY <1>1, <2>0, <2>3 DEF CallersOf
  <2> QED BY <2>1, <2>2, <2>3
<1>5. b \in BOOLEAN
  BY Zenon
<1> HIDE DEF A, B, b
<1>6. /\ Cardinality(A) \in Nat /\ Cardinality(B) = Cardinality(A) + (IF b THEN 1 ELSE 0)
  BY <1>2, <1>3, <1>4, <1>5, ShiftCount
<1> QED BY <1>3, <1>6 DEF A, B, b

LEMMA OccursFinite ==
  ASSUME NEW S, NEW l \in Seq(S), NEW m
  PROVE  IsFiniteSet(Occurs(m, l)) /\ Cardinality(Occurs(m, l)) \in Nat
<1> DEFINE n == Len(l)
<1>1. n \in Int /\ 1 \in Int /\ DOMAIN l = 1 .. n
  BY LenProperties
<1>2. IsFiniteSet(1 .. n) /\ Occurs(m, l) \in SUBSET (1 .. n)
  BY <1>1, FS_Interval DEF Occurs
<1>3. IsFiniteSet(Occurs(m, l))
  BY <1>2, FS_Subset
<1> QED BY <1>3, FS_CardinalityType

LEMMA PushOccurs ==
  ASSUME NEW S, NEW l \in Seq(S), NEW x \in S, NEW m
  PROVE  /\ IsFiniteSet(Occurs(m, l)) /\ Cardinality(Occurs(m, l)) \in Nat
         /\ Cardinality(Occurs(m, <<x>> \o l)) =
              Cardinality(Occurs(m, l)) + (IF x = m THEN 1 ELSE 0)
<1> DEFINE A == Occurs(m, l)
           B == Occurs(m, <<x>> \o l)
           b == x = m
           n == Len(l)
           r == <<x>> \o l
<1>1. /\ n \in Nat /\ DOMAIN l = 1 .. n /\ DOMAIN r = 1 .. n + 1 /\ r[1] = x
      /\ \A i \in 1 .. n : r[i + 1] = l[i]
      /\ \A i \in 1 .. n + 1 : i # 1 => i - 1 \in 1 .. n /\ r[i] = l[i - 1]
  BY PushSeq
<1> HIDE DEF n, r
<1>2. A \subseteq 1 .. n /\ A \subseteq Nat \ {0}
  BY <1>1 DEF Occurs
<1>3. IsFiniteSet(A)
  BY OccursFinite
<1>4. B = {i + 1 : i \in A} \cup (IF b THEN {1} ELSE {})
  <2>0. B = Occurs(m, r)
    BY DEF r
  <2>1. ASSUME NEW i \in B PROVE i \in {k + 1 : k \in A} \cup (IF b THEN {1} ELSE {})
    <3>1. i \in 1 .. n + 1 /\ r[i] = m
      BY <1>1, <2>0 DEF Occurs
    <3>2. CASE i = 1
      BY <1>1, <3>1, <3>2
    <3>3. CASE i # 1
      <4>1. i - 1 \in A /\ (i - 1) + 1 = i
        BY <1>1, <3>1, <3>3 DEF Occurs
      <4> QED BY <4>1
    <3> QED BY <3>2, <3>3
  <2>2. ASSUME NEW k \in A PROVE k + 1 \in B
    <3>1. k \in 1 .. n /\ k + 1 \in 1 .. n + 1 /\ l[k] = m
      BY <1>1 DEF Occurs
    <3> QED BY <1>1, <2>0, <3>1 DEF Occurs
  <2>3. ASSUME b PROVE 1 \in B
    BY <1>1, <2>0, <2>3 DEF Occurs
  <2> QED BY <2>1, <2>2, <2>3
<1>5. b \in BOOLEAN
  BY Zenon
<1> HIDE DEF A, B, b
<1>6. /\ Cardinality(A) \in Nat /\ Cardinality(B) = Cardinality(A) + (IF b THEN 1 ELSE 0)
  BY <1>2, <1>3, <1>4, <1>5, ShiftCount
<1> QED BY <1>3, <1>6 DEF A, B, b

LEMMA AppendOccurs ==
  ASSUME NEW S, NEW l \in Seq(S), NEW x \in S, NEW m
  PROVE  Cardinality(Occurs(m, Append(l, x))) =
           Cardinality(Occurs(m, l)) + (IF x = m THEN 1 ELSE 0)
<1> DEFINE r == Append(l, x)
<1>1. /\ Len(l) \in Nat /\ DOMAIN l = 1 .. Len(l) /\ DOMAIN r = 1 .. Len(l) + 1
      /\ r[Len(l) + 1] = x /\ \A i \in 1 .. Len(l) : r[i] = l[i]
  BY LenProperties, AppendProperties
<1> HIDE DEF r
<1>2. IsFiniteSet(Occurs(m, l))
  BY PushOccurs
<1>5. Len(l) + 1 \notin Occurs(m, l)
  BY <1>1 DEF Occurs
<1>3. CASE x = m
  <2>1. Occurs(m, r) = Occurs(m, l) \cup {Len(l) + 1}
    BY <1>1, <1>3 DEF Occurs
  <2> QED BY <1>2, <1>3, <1>5, <2>1, FS_AddElement DEF r
<1>4. CASE x # m
  <2>1. Occurs(m, r) = Occurs(m, l)
    BY <1>1, <1>4 DEF Occurs
  <2> QED BY <1>2, <1>4, <2>1, FS_CardinalityType DEF r
<1> QED BY <1>3, <1>4

-----------------------------------------------------------------------------
(***************************************************************************)
(* Frames.                                                                 *)
(***************************************************************************)
LEMMA FrameKinds ==
  ASSUME NEW f \in Frames
  PROVE  /\ IsPub(f) => f \in PubFrames /\ ~IsExec(f)
         /\ IsExec(f) => f \in ExecFrames /\ ~IsPub(f)
         /\ IsPub(f) \/ IsExec(f)
         /\ f.ok \in BOOLEAN /\ f.level \in BOOLEAN /\ f.msg \in Msgs \cup {"none"}
         /\ f.pc \in {"check", "loop", "cb"}
BY DEF Frames, PubFrames, ExecFrames, IsPub, IsExec

\* f and g differ in `ok` at most.
AlikeExceptOk(f, g) ==
  /\ IsPub(f) <=> IsPub(g)
  /\ IsExec(f) <=> IsExec(g)
  /\ Locked(f) <=> Locked(g)
  /\ f.op = g.op /\ f.pc = g.pc /\ f.msg = g.msg /\ f.level = g.level
  /\ IsPub(f) => f.ev = g.ev /\ f.cur = g.cur
  /\ IsExec(f) => f.srv = g.srv /\ f.more = g.more

LEMMA OkUpdate ==
  ASSUME NEW f \in Frames, NEW b \in BOOLEAN
  PROVE  LET g == [f EXCEPT !.ok = b]
         IN  g \in Frames /\ AlikeExceptOk(f, g) /\ g.ok = b
<1> DEFINE g == [f EXCEPT !.ok = b]
<1>1. CASE f \in PubFrames
  <2>1. g \in PubFrames
    BY <1>1 DEF PubFrames
  <2>2. /\ g.op = f.op /\ g.pc = f.pc /\ g.msg = f.msg /\ g.level = f.level
        /\ g.ev = f.ev /\ g.cur = f.cur /\ g.ok = b /\ f.op = "pub"
    BY <1>1 DEF PubFrames
  <2> HIDE DEF g
  <2>3. AlikeExceptOk(f, g)
    BY <2>2 DEF AlikeExceptOk, IsPub, IsExec, Locked
  <2> QED BY <2>1, <2>2, <2>3 DEF Frames, g
<1>2. CASE f \in ExecFrames
  <2>1. g \in ExecFrames
    BY <1>2 DEF ExecFrames
  <2>2. /\ g.op = f.op /\ g.pc = f.pc /\ g.msg = f.msg /\ g.level = f.level
        /\ g.srv = f.srv /\ g.more = f.more /\ g.ok = b /\ f.op = "exec"
    BY <1>2 DEF ExecFrames
  <2> HIDE DEF g
  <2>3. AlikeExceptOk(f, g)
    BY <2>2 DEF AlikeExceptOk, IsPub, IsExec, Locked
  <2> QED BY <2>1, <2>2, <2>3 DEF Frames, g
<1> QED BY <1>1, <1>2 DEF Frames

\* What Break does to a call stack: nothing but clearing `ok` at I.
LEMMA BreakFrames ==
  ASSUME NEW fs \in Seq(Frames), NEW I
  PROVE  /\ Break(fs, I) \in Seq(Frames) /\ Len(Break(fs, I)) = Len(fs)
         /\ DOMAIN fs = 1 .. Len(fs) /\ DOMAIN Break(fs, I) = DOMAIN fs
         /\ \A i \in DOMAIN fs : /\ fs[i] \in Frames /\ Break(fs, I)[i] \in Frames
                                 /\ AlikeExceptOk(fs[i], Break(fs, I)[i])
                                 /\ Break(fs, I)[i].ok <=> fs[i].ok /\ i \notin I
<1> DEFINE r == Break(fs, I)
<1>1. DOMAIN fs = 1 .. Len(fs) /\ Len(fs) \in Nat /\ \A i \in DOMAIN fs : fs[i] \in Frames
  BY LenProperties, ElementOfSeq
<1>2. /\ DOMAIN r = DOMAIN fs
      /\ \A i \in DOMAIN fs : r[i] = [fs[i] EXCEPT !.ok = fs[i].ok /\ i \notin I]
  BY DEF Break
<1>3. ASSUME NEW i \in DOMAIN fs
      PROVE  /\ r[i] \in Frames /\ AlikeExceptOk(fs[i], r[i])
             /\ r[i].ok <=> fs[i].ok /\ i \notin I
  <2> DEFINE b == fs[i].ok /\ i \notin I
  <2>1. b \in BOOLEAN
    BY Zenon
  <2>2. fs[i] \in Frames /\ r[i] = [fs[i] EXCEPT !.ok = b]
    BY <1>1, <1>2
  <2> HIDE DEF b, r
  <2>3. r[i] \in Frames /\ AlikeExceptOk(fs[i], r[i]) /\ r[i].ok = b
    BY <2>1, <2>2, OkUpdate
  <2> QED BY <2>3 DEF b
<1>4. r \in [1 .. Len(fs) -> Frames]
  <2>1. r = [i \in 1 .. Len(fs) |-> r[i]]
    BY <1>1 DEF Break
  <2> HIDE DEF r
  <2> QED BY <1>1, <1>2, <1>3, <2>1
<1> HIDE DEF r
<1>5. r \in Seq(Frames) /\ Len(r) = Len(fs)
  BY <1>1, <1>4, LenProperties, IsASeq
<1> QED BY <1>1, <1>2, <1>3, <1>5 DEF r

LEMMA BreakTyped ==
  ASSUME NEW fs \in Seq(Frames), NEW I
  PROVE  Break(fs, I) \in Seq(Frames)
BY BreakFrames

LEMMA BreakNobody ==
  ASSUME NEW fs \in Seq(Frames), NEW I, I \cap DOMAIN fs = {}
  PROVE  Break(fs, I) = fs
<1>1. \A i \in DOMAIN fs : fs[i] \in Frames
  BY LenProperties, ElementOfSeq
<1>2. ASSUME NEW i \in DOMAIN fs PROVE [fs[i] EXCEPT !.ok = fs[i].ok /\ i \notin I] = fs[i]
  <2> DEFINE f == fs[i]
             b == f.ok /\ i \notin I
  <2>1. b <=> f.ok
    BY <1>2
  <2>2. f \in Frames /\ f.ok \in BOOLEAN /\ b \in BOOLEAN
    BY <1>1, FrameKinds, Zenon
  <2>3. b = f.ok
    BY <2>1, <2>2
  <2>4. [f EXCEPT !.ok = f.ok] = f
    <3> HIDE DEF f
    <3> QED BY <2>2 DEF Frames, PubFrames, ExecFrames
  <2> QED BY <2>3, <2>4
<1>3. Break(fs, I) = [i \in DOMAIN fs |-> fs[i]]
  BY <1>2 DEF Break
<1> QED BY <1>3, LenProperties

\* The elements of the broken stack are those of the stack.
LEMMA BreakElements ==
  ASSUME NEW fs \in Seq(Frames), NEW I
  PROVE  /\ \A g \in ToSet(Break(fs, I)) :
              \E i \in DOMAIN fs : /\ fs[i] \in ToSet(fs) /\ AlikeExceptOk(fs[i], g)
                                   /\ g \in Frames
                                   /\ g.ok <=> fs[i].ok /\ i \notin I
         /\ \A m : CallersOf(Break(fs, I), m) = CallersOf(fs, m)
<1> DEFINE r == Break(fs, I)
<1>1. /\ DOMAIN r = DOMAIN fs
      /\ \A i \in DOMAIN fs : /\ fs[i] \in Frames /\ r[i] \in Frames
                              /\ AlikeExceptOk(fs[i], r[i])
                              /\ r[i].ok <=> fs[i].ok /\ i \notin I
  BY BreakFrames
<1> HIDE DEF r
<1>2. ASSUME NEW g \in ToSet(r)
      PROVE  \E i \in DOMAIN fs : /\ fs[i] \in ToSet(fs) /\ AlikeExceptOk(fs[i], g)
                                  /\ g \in Frames /\ (g.ok <=> fs[i].ok /\ i \notin I)
  <2>1. PICK i \in DOMAIN fs : g = r[i]
    BY <1>1 DEF ToSet
  <2> QED BY <1>1, <2>1 DEF ToSet
<1>3. ASSUME NEW m PROVE CallersOf(r, m) = CallersOf(fs, m)
  BY <1>1 DEF CallersOf, AlikeExceptOk
<1> QED BY <1>2, <1>3 DEF r

-----------------------------------------------------------------------------
(***************************************************************************)
(* References.                                                             *)
(***************************************************************************)
\* The holders of m when the queues are q.
HoldersOf(q, m) == UNION {{s} \X Occurs(m, q[s]) : s \in Servers}

LEMMA DisjointUnion ==
  ASSUME NEW A, NEW B, IsFiniteSet(A), IsFiniteSet(B), A \cap B = {}
  PROVE  /\ IsFiniteSet(A \cup B)
         /\ Cardinality(A \cup B) = Cardinality(A) + Cardinality(B)
<1>1. /\ IsFiniteSet(A \cup B)
      /\ Cardinality(A \cup B) = Cardinality(A) + Cardinality(B) - Cardinality(A \cap B)
  BY FS_Union
<1>2. Cardinality(A \cap B) = 0 /\ Cardinality(A) \in Nat /\ Cardinality(B) \in Nat
  BY FS_EmptySet, FS_CardinalityType
<1> QED BY <1>1, <1>2

\* When the queue of s alone changes, so does its part of the holders.
LEMMA HoldersChange ==
  ASSUME NEW q1, NEW q2, NEW s \in Servers, NEW m,
         \A t \in Servers : t # s => q2[t] = q1[t],
         IsFiniteSet(HoldersOf(q1, m)),
         IsFiniteSet(Occurs(m, q1[s])), IsFiniteSet(Occurs(m, q2[s]))
  PROVE  /\ IsFiniteSet(HoldersOf(q2, m))
         /\ Cardinality(HoldersOf(q1, m)) \in Nat /\ Cardinality(HoldersOf(q2, m)) \in Nat
         /\ Cardinality(Occurs(m, q1[s])) \in Nat /\ Cardinality(Occurs(m, q2[s])) \in Nat
         /\ Cardinality(HoldersOf(q2, m)) + Cardinality(Occurs(m, q1[s])) =
              Cardinality(HoldersOf(q1, m)) + Cardinality(Occurs(m, q2[s]))
<1> DEFINE O1 == Occurs(m, q1[s])
           O2 == Occurs(m, q2[s])
           H1 == HoldersOf(q1, m)
           H2 == HoldersOf(q2, m)
           R == UNION {{t} \X Occurs(m, q1[t]) : t \in Servers \ {s}}
<1>1. /\ H1 = R \cup ({s} \X O1) /\ H2 = R \cup ({s} \X O2)
      /\ R \cap ({s} \X O1) = {} /\ R \cap ({s} \X O2) = {}
  <2>1. R = UNION {{t} \X Occurs(m, q2[t]) : t \in Servers \ {s}}
    OBVIOUS
  <2>2. H1 = R \cup ({s} \X O1)
    BY DEF HoldersOf
  <2>3. H2 = R \cup ({s} \X O2)
    BY <2>1 DEF HoldersOf
  <2>4. \A p \in R : p[1] # s
    OBVIOUS
  <2>5. \A O : \A p \in {s} \X O : p[1] = s
    OBVIOUS
  <2> QED BY <2>2, <2>3, <2>4, <2>5
<1>2. /\ IsFiniteSet(O1) /\ IsFiniteSet(O2) /\ IsFiniteSet(H1)
      /\ Cardinality(O1) \in Nat /\ Cardinality(O2) \in Nat /\ Cardinality(H1) \in Nat
  BY FS_CardinalityType
<1> HIDE DEF O1, O2, H1, H2, R
<1>3. /\ IsFiniteSet({s} \X O1) /\ IsFiniteSet({s} \X O2)
      /\ Cardinality({s} \X O1) = Cardinality(O1)
      /\ Cardinality({s} \X O2) = Cardinality(O2)
  <2>1. IsFiniteSet({s}) /\ Cardinality({s}) = 1
    BY FS_Singleton
  <2>2. /\ IsFiniteSet({s} \X O1) /\ IsFiniteSet({s} \X O2)
        /\ Cardinality({s} \X O1) = 1 * Cardinality(O1)
        /\ Cardinality({s} \X O2) = 1 * Cardinality(O2)
    BY <1>2, <2>1, FS_Product
  <2> QED BY <1>2, <2>2
<1>4. IsFiniteSet(R) /\ Cardinality(R) \in Nat
  <2>1. R \in SUBSET H1
    BY <1>1
  <2> QED BY <1>2, <2>1, FS_Subset, FS_CardinalityType
<1>6. Cardinality(H1) = Cardinality(R) + Cardinality(O1)
  <2>1. Cardinality(R \cup ({s} \X O1)) = Cardinality(R) + Cardinality({s} \X O1)
    BY <1>1, <1>3, <1>4, DisjointUnion
  <2> QED BY <1>1, <1>3, <2>1, Zenon
<1>7. IsFiniteSet(H2) /\ Cardinality(H2) = Cardinality(R) + Cardinality(O2)
  <2>1. /\ IsFiniteSet(R \cup ({s} \X O2))
        /\ Cardinality(R \cup ({s} \X O2)) = Cardinality(R) + Cardinality({s} \X O2)
    BY <1>1, <1>3, <1>4, DisjointUnion
  <2> QED BY <1>1, <1>3, <2>1, Zenon
<1>8. /\ Cardinality(H2) \in Nat
      /\ Cardinality(H2) + Cardinality(O1) = Cardinality(H1) + Cardinality(O2)
  BY <1>2, <1>4, <1>6, <1>7
<1> QED BY <1>2, <1>7, <1>8 DEF O1, O2, H1, H2

Records == [ev : Events \cup {"none"}, ref : Int]

\* Dropping n references lowers the count by n.
LEMMA ReleaseProperties ==
  ASSUME NEW m \in Msgs, msg \in [Msgs -> Records]
  PROVE  /\ \A n \in Int : Release(m, n) \in Records /\ Release(m, n).ref = msg[m].ref - n
         /\ Release(m, 1) \in Records /\ Release(m, 1).ref = msg[m].ref - 1
<1> SUFFICES ASSUME NEW n \in Int
             PROVE  Release(m, n) \in Records /\ Release(m, n).ref = msg[m].ref - n
  OBVIOUS
<1>1. msg[m] \in Records
  OBVIOUS
<1>2. Free \in Records /\ Free.ref = 0
  BY DEF Free, Records
<1>3. CASE msg[m].ref = n
  BY <1>2, <1>3 DEF Release
<1>4. CASE msg[m].ref # n
  BY <1>1, <1>4 DEF Release, Records
<1> QED BY <1>3, <1>4

-----------------------------------------------------------------------------
(***************************************************************************)
(* The call stack as its first frame on top of the others.                 *)
(***************************************************************************)
LEMMA TopSplit ==
  ASSUME stack \in Seq(Frames), stack # <<>>
  PROVE  /\ Top \in Frames /\ Tail(stack) \in Seq(Frames)
         /\ stack = <<Top>> \o Tail(stack)
         /\ \A x \in Frames : [stack EXCEPT ![1] = x] = <<x>> \o Tail(stack)
BY SplitSeq DEF Top

\* The parts of the stack when it starts with f.
LEMMA StackParts ==
  ASSUME NEW fs \in Seq(Frames), NEW f \in Frames
  PROVE  /\ <<f>> \o fs \in Seq(Frames)
         /\ ToSet(<<f>> \o fs) = {f} \cup ToSet(fs)
         /\ ToSet(fs) \subseteq Frames
         /\ <<f>> \o fs # <<>>
<1>1. <<f>> \o fs \in Seq(Frames) /\ Len(<<f>> \o fs) = Len(fs) + 1 /\ Len(fs) \in Nat
  BY PushSeq
<1>2. \A i \in DOMAIN fs : fs[i] \in Frames
  BY LenProperties, ElementOfSeq
<1>3. <<f>> \o fs # <<>>
  <2>1. Len(<<>>) = 0
    BY EmptySeq
  <2>2. Len(<<f>> \o fs) # 0
    BY <1>1
  <2> QED BY <2>1, <2>2, Zenon
<1>4. ToSet(<<f>> \o fs) = {f} \cup ToSet(fs)
  BY PushElements
<1>5. ToSet(fs) \subseteq Frames
  BY <1>2 DEF ToSet
<1> QED BY <1>1, <1>3, <1>4, <1>5

-----------------------------------------------------------------------------
(***************************************************************************)
(* The types of the variables; what a frame's fields say about each other  *)
(* and about the queue it drains; a server that does not exist holds       *)
(* nothing.                                                                *)
(***************************************************************************)
EventTypes ==
  /\ map \in BOOLEAN /\ masked \in BOOLEAN
  /\ server \in [Servers -> {"absent", "stopped", "started", "freed"}]
  /\ subs \in [Events -> Seq(Servers)]
  /\ mode \in [Servers -> [Events -> {"none", "async", "sync"}]]
  /\ queue \in [Servers -> Seq(Msgs)]
  /\ msg \in [Msgs -> Records]
  /\ stack \in Seq(Frames)

FrameOK(f, q) ==
  /\ IsPub(f) => IF f.pc = "check" THEN f.msg = "none" /\ f.cur = "head"
                                   ELSE f.msg # "none"
  /\ IsExec(f) => (f.pc = "cb" <=> f.msg # "none")
  /\ IsExec(f) /\ Locked(f) /\ f.ok /\ f.more => q[f.srv] # <<>>

FrameInv == \A f \in ToSet(stack) : FrameOK(f, queue)

AbsentEmpty == \A s \in Servers : server[s] = "absent" => queue[s] = <<>>

Base == EventTypes /\ FrameInv /\ AbsentEmpty

-----------------------------------------------------------------------------
(***************************************************************************)
(* What each step of the library makes of the stack.                       *)
(***************************************************************************)
\* A function starts.
LEMMA PublishEnterForm ==
  ASSUME Base, NEW e \in Events, PublishEnter(e)
  PROVE  \E g \in PubFrames :
           /\ g.pc = "check" /\ g.ev = e /\ g.msg = "none" /\ g.cur = "head" /\ g.ok
           /\ stack' = <<g>> \o stack /\ masked' = masked
           /\ UNCHANGED eventVars
<1>1. PubFrame(e) \in PubFrames
  BY DEF PubFrame, PubFrames
<1> QED BY <1>1 DEF PublishEnter, Enter, PubFrame

LEMMA HandlerForm ==
  ASSUME Base, NEW s \in Servers, sh_event_handler(s)
  PROVE  \E g \in ExecFrames :
           /\ g.pc = "check" /\ g.srv = s /\ g.msg = "none" /\ ~g.more /\ g.ok
           /\ stack' = <<g>> \o stack /\ masked' = masked
           /\ UNCHANGED eventVars
<1>1. ExecFrame(s) \in ExecFrames
  BY DEF ExecFrame, ExecFrames
<1> QED BY <1>1 DEF sh_event_handler, Enter, ExecFrame

\* The frame on top of the stack, and the frames that may take its place.
LEMMA TopOf ==
  ASSUME Base, stack # <<>>
  PROVE  /\ Top \in Frames /\ Tail(stack) \in Seq(Frames)
         /\ stack = <<Top>> \o Tail(stack) /\ Top \in ToSet(stack)
         /\ ToSet(stack) = {Top} \cup ToSet(Tail(stack))
         /\ IsPub(Top) => Top \in PubFrames
         /\ IsExec(Top) => Top \in ExecFrames
         /\ FrameOK(Top, queue)
         /\ \A x \in Frames : [stack EXCEPT ![1] = x] = <<x>> \o Tail(stack)
<1>1. /\ Top \in Frames /\ Tail(stack) \in Seq(Frames) /\ stack = <<Top>> \o Tail(stack)
      /\ \A x \in Frames : [stack EXCEPT ![1] = x] = <<x>> \o Tail(stack)
  BY TopSplit DEF Base, EventTypes
<1>2. ToSet(<<Top>> \o Tail(stack)) = {Top} \cup ToSet(Tail(stack))
  BY <1>1, StackParts
<1>3. ToSet(stack) = {Top} \cup ToSet(Tail(stack))
  BY <1>1, <1>2, Zenon
<1>4. /\ IsPub(Top) => Top \in PubFrames
      /\ IsExec(Top) => Top \in ExecFrames
  BY <1>1, FrameKinds
<1> QED BY <1>1, <1>3, <1>4 DEF Base, FrameInv

\* What is needed to know of the state when the function on top of the stack
\* goes on; those below it may be of any component.
OnTop ==
  /\ masked \in BOOLEAN /\ queue \in [Servers -> Seq(Msgs)]
  /\ stack # <<>> /\ (IsPub(Top) \/ IsExec(Top)) =>
       /\ Top \in Frames /\ FrameOK(Top, queue)
       /\ \A x \in Frames : [stack EXCEPT ![1] = x] = <<x>> \o Tail(stack)

LEMMA BaseOnTop == Base => OnTop
<1> SUFFICES ASSUME Base PROVE OnTop
  OBVIOUS
<1>1. masked \in BOOLEAN /\ queue \in [Servers -> Seq(Msgs)]
  BY DEF Base, EventTypes
<1>2. ASSUME stack # <<>>
      PROVE  /\ Top \in Frames /\ FrameOK(Top, queue)
             /\ \A x \in Frames : [stack EXCEPT ![1] = x] = <<x>> \o Tail(stack)
  BY <1>2, TopOf
<1> QED BY <1>1, <1>2 DEF OnTop

LEMMA OnTopOf ==
  ASSUME OnTop, stack # <<>>, IsPub(Top) \/ IsExec(Top)
  PROVE  /\ Top \in Frames /\ FrameOK(Top, queue)
         /\ IsPub(Top) => Top \in PubFrames
         /\ IsExec(Top) => Top \in ExecFrames
         /\ \A x \in Frames : [stack EXCEPT ![1] = x] = <<x>> \o Tail(stack)
<1>1. /\ Top \in Frames /\ FrameOK(Top, queue)
      /\ \A x \in Frames : [stack EXCEPT ![1] = x] = <<x>> \o Tail(stack)
  BY DEF OnTop
<1> QED BY <1>1, FrameKinds

LEMMA PublishLockForm ==
  ASSUME OnTop, PublishLock
  PROVE  \E m \in Msgs, g \in PubFrames :
           /\ stack # <<>> /\ Top \in PubFrames /\ Top.pc = "check"
           /\ msg[m] = Free /\ msg' = [msg EXCEPT ![m] = [ev |-> Top.ev, ref |-> 0]]
           /\ g.pc = "loop" /\ g.ev = Top.ev /\ g.msg = m /\ g.cur = "head"
           /\ g.level = masked /\ g.ok = Top.ok
           /\ stack' = <<g>> \o Tail(stack) /\ masked' = TRUE
           /\ UNCHANGED <<map, server, subs, mode, queue>>
<1>1. stack # <<>> /\ IsPub(Top) /\ Top.pc = "check"
  BY DEF PublishLock
<1>2. /\ Top \in PubFrames /\ Top.cur = "head"
      /\ \A x \in Frames : [stack EXCEPT ![1] = x] = <<x>> \o Tail(stack)
  BY <1>1, OnTopOf DEF FrameOK
<1>3. PICK m \in Msgs :
        /\ msg[m] = Free /\ msg' = [msg EXCEPT ![m] = [ev |-> Top.ev, ref |-> 0]]
        /\ masked' = TRUE
        /\ stack' = [stack EXCEPT ![1] = [[Top EXCEPT !.pc = "loop", !.msg = m] EXCEPT !.level = masked]]
  BY DEF PublishLock, sh_isr_disable
<1> DEFINE g == [[Top EXCEPT !.pc = "loop", !.msg = m] EXCEPT !.level = masked]
<1>4. masked \in BOOLEAN
  BY DEF OnTop
<1>5. /\ g \in PubFrames /\ g.pc = "loop" /\ g.ev = Top.ev /\ g.msg = m
      /\ g.cur = Top.cur /\ g.level = masked /\ g.ok = Top.ok
  BY <1>2, <1>4 DEF PubFrames
<1>6. stack' = [stack EXCEPT ![1] = g]
  BY <1>3
<1> HIDE DEF g
<1>7. stack' = <<g>> \o Tail(stack)
  BY <1>2, <1>5, <1>6 DEF Frames
<1>8. UNCHANGED <<map, server, subs, mode, queue>>
  BY DEF PublishLock
<1> QED BY <1>1, <1>2, <1>3, <1>5, <1>7, <1>8

\* A publication at its next node.
LEMMA ReachesForm ==
  ASSUME OnTop, NEW s \in Servers, Reaches(s)
  PROVE  /\ stack # <<>> /\ Top \in PubFrames /\ IsPub(Top) /\ Top.pc = "loop" /\ Top.ok
         /\ Top.msg \in Msgs /\ Top.ev \in Events /\ Locked(Top)
         /\ \A x \in Frames : [stack EXCEPT ![1] = x] = <<x>> \o Tail(stack)
<1>1. stack # <<>> /\ IsPub(Top) /\ Top.pc = "loop" /\ Top.ok
  BY DEF Reaches, InLoop
<1>2. /\ Top \in PubFrames /\ FrameOK(Top, queue)
      /\ \A x \in Frames : [stack EXCEPT ![1] = x] = <<x>> \o Tail(stack)
  BY <1>1, OnTopOf
<1>3. Top.msg \in Msgs /\ Top.ev \in Events /\ Locked(Top)
  BY <1>1, <1>2 DEF FrameOK, PubFrames, Locked
<1> QED BY <1>1, <1>2, <1>3

\* The publication goes on to s; g is its frame afterwards.
PubGoesTo(g, s) ==
  /\ g \in PubFrames /\ Locked(g) /\ g.pc \in {"loop", "cb"} /\ g.ev = Top.ev /\ g.msg = Top.msg
  /\ g.cur = s /\ g.level = Top.level /\ g.ok = Top.ok
  /\ stack' = <<g>> \o Tail(stack) /\ masked' = masked

LEMMA GoesToForm ==
  ASSUME OnTop, NEW s \in Servers, Reaches(s)
  PROVE  /\ Goto([Top EXCEPT !.cur = s]) =>
              \E g \in PubFrames : PubGoesTo(g, s) /\ g.pc = "loop"
         /\ Goto([Top EXCEPT !.cur = s, !.pc = "cb"]) => \E g \in PubFrames : PubGoesTo(g, s)
<1>1. /\ Top \in PubFrames /\ Top.pc = "loop"
      /\ \A x \in Frames : [stack EXCEPT ![1] = x] = <<x>> \o Tail(stack)
  BY ReachesForm
<1>2. ASSUME Goto([Top EXCEPT !.cur = s])
      PROVE  \E g \in PubFrames : PubGoesTo(g, s) /\ g.pc = "loop"
  <2> DEFINE g == [Top EXCEPT !.cur = s]
  <2>0. Top \in PubFrames
    BY <1>1
  <2>1. /\ g \in PubFrames /\ g.pc = Top.pc /\ g.ev = Top.ev /\ g.msg = Top.msg
        /\ g.cur = s /\ g.level = Top.level /\ g.ok = Top.ok
    BY <2>0 DEF PubFrames
  <2>2. stack' = [stack EXCEPT ![1] = g] /\ masked' = masked
    BY <1>2 DEF Goto
  <2> HIDE DEF g
  <2>3. PubGoesTo(g, s)
    BY <1>1, <2>1, <2>2 DEF PubGoesTo, Frames, Locked
  <2> QED BY <1>1, <2>1, <2>3
<1>3. ASSUME Goto([Top EXCEPT !.cur = s, !.pc = "cb"])
      PROVE  \E g \in PubFrames : PubGoesTo(g, s)
  <2> DEFINE g == [Top EXCEPT !.cur = s, !.pc = "cb"]
  <2>0. Top \in PubFrames
    BY <1>1
  <2>1. /\ g \in PubFrames /\ g.pc = "cb" /\ g.ev = Top.ev /\ g.msg = Top.msg
        /\ g.cur = s /\ g.level = Top.level /\ g.ok = Top.ok
    BY <2>0 DEF PubFrames
  <2>2. stack' = [stack EXCEPT ![1] = g] /\ masked' = masked
    BY <1>3 DEF Goto
  <2> HIDE DEF g
  <2>3. PubGoesTo(g, s)
    BY <1>1, <2>1, <2>2 DEF PubGoesTo, Frames, Locked
  <2> QED BY <2>1, <2>3
<1> QED BY <1>2, <1>3

\* A function returns.  Only publications and drains whose queue is empty do,
\* so that no reference is lost with the frame.
Pops == stack # <<>> /\ stack' = Tail(stack) /\ ~(IsExec(Top) /\ Top.msg # "none")

LEMMA PopForms ==
  ASSUME OnTop
  PROVE  /\ PublishNoMemory => Pops /\ Leave /\ IsPub(Top) /\ Top.msg = "none" /\ ~Locked(Top)
         /\ \A s \in Servers : PublishSaveFails(s) => Pops /\ IsPub(Top) /\ Locked(Top)
         /\ PublishDone => Pops /\ IsPub(Top) /\ Locked(Top) /\ Top \in PubFrames /\ Top.msg \in Msgs
         /\ ExecDone => Pops /\ IsExec(Top) /\ Locked(Top)
<1>1. ASSUME PublishNoMemory
      PROVE  Pops /\ Leave /\ IsPub(Top) /\ Top.msg = "none" /\ ~Locked(Top)
  <2>1. stack # <<>> /\ IsPub(Top) /\ Top.pc = "check" /\ Leave
    BY <1>1 DEF PublishNoMemory
  <2>2. ~IsExec(Top) /\ Top.msg = "none"
    BY <2>1, OnTopOf, FrameKinds DEF FrameOK
  <2> QED BY <2>1, <2>2 DEF Pops, Leave, Locked
<1>2. ASSUME NEW s \in Servers, PublishSaveFails(s) PROVE Pops /\ IsPub(Top) /\ Locked(Top)
  <2>1. Reaches(s) /\ sh_isr_enable
    BY <1>2 DEF PublishSaveFails
  <2>2. stack # <<>> /\ Top \in PubFrames /\ IsPub(Top) /\ Locked(Top)
    BY <2>1, ReachesForm
  <2> QED BY <2>1, <2>2, FrameKinds DEF Pops, sh_isr_enable, Frames
<1>3. ASSUME PublishDone
      PROVE  Pops /\ IsPub(Top) /\ Locked(Top) /\ Top \in PubFrames /\ Top.msg \in Msgs
  <2>1. stack # <<>> /\ IsPub(Top) /\ Top.pc = "loop" /\ sh_isr_enable
    BY <1>3 DEF PublishDone, InLoop
  <2>2. Top \in PubFrames /\ FrameOK(Top, queue) /\ ~IsExec(Top)
    BY <2>1, OnTopOf, FrameKinds
  <2>3. Top.msg \in Msgs
    BY <2>1, <2>2 DEF FrameOK, PubFrames
  <2> QED BY <2>1, <2>2, <2>3 DEF Pops, sh_isr_enable, Locked
<1>4. ASSUME ExecDone PROVE Pops /\ IsExec(Top) /\ Locked(Top)
  <2>1. stack # <<>> /\ IsExec(Top) /\ Top.pc = "loop" /\ sh_isr_enable
    BY <1>4 DEF ExecDone
  <2>2. Top.msg = "none"
    BY <2>1, OnTopOf DEF FrameOK
  <2> QED BY <2>1, <2>2 DEF Pops, sh_isr_enable, Locked
<1> QED BY <1>1, <1>2, <1>3, <1>4

LEMMA ExecLockForm ==
  ASSUME OnTop, ExecLock
  PROVE  \E g \in ExecFrames :
           /\ stack # <<>> /\ Top \in ExecFrames /\ IsExec(Top) /\ Top.pc = "check" /\ Top.ok
           /\ g.pc = "loop" /\ g.srv = Top.srv /\ g.msg = "none"
           /\ g.more <=> queue[Top.srv] # <<>>
           /\ g.level = masked /\ g.ok = Top.ok
           /\ stack' = <<g>> \o Tail(stack) /\ masked' = TRUE /\ UNCHANGED eventVars
<1> DEFINE a == queue[Top.srv] # <<>>
           g == [[Top EXCEPT !.pc = "loop", !.more = a] EXCEPT !.level = masked]
<1>1. /\ stack # <<>> /\ IsExec(Top) /\ Top.pc = "check" /\ Top.ok /\ UNCHANGED eventVars
      /\ masked' = TRUE /\ stack' = [stack EXCEPT ![1] = g]
  BY DEF ExecLock, sh_isr_disable
<1>2. /\ Top \in ExecFrames /\ Top.msg = "none"
      /\ \A x \in Frames : [stack EXCEPT ![1] = x] = <<x>> \o Tail(stack)
  BY <1>1, OnTopOf DEF FrameOK
<1>3. a \in BOOLEAN
  BY Zenon
<1>4. masked \in BOOLEAN
  BY DEF OnTop
<1> HIDE DEF a
<1>5. /\ g \in ExecFrames /\ g.pc = "loop" /\ g.srv = Top.srv /\ g.msg = Top.msg
      /\ g.more = a /\ g.level = masked /\ g.ok = Top.ok
  BY <1>2, <1>3, <1>4 DEF ExecFrames
<1> HIDE DEF g
<1>6. stack' = <<g>> \o Tail(stack)
  BY <1>1, <1>2, <1>5 DEF Frames
<1> QED BY <1>1, <1>2, <1>5, <1>6 DEF a

\* What the drain on top of the stack makes of its queue and its frame g.
TakeForm(s, m, g) ==
  /\ stack # <<>> /\ Top \in ExecFrames /\ IsExec(Top) /\ Top.pc = "loop" /\ Top.ok
  /\ Top.msg = "none" /\ Top.srv = s /\ Top.more
  /\ m \in Msgs /\ Tail(queue[s]) \in Seq(Msgs) /\ queue[s] = <<m>> \o Tail(queue[s])
  /\ queue' = [queue EXCEPT ![s] = Tail(queue[s])]
  /\ g \in ExecFrames /\ Locked(g) /\ g.srv = s /\ g.level = Top.level /\ g.ok = Top.ok
  /\ g.more => Tail(queue[s]) # <<>>
  /\ stack' = <<g>> \o Break(Tail(stack), DrainBreaks(Tail(stack), s))
  /\ masked' = masked /\ UNCHANGED <<map, server, subs, mode>>
  /\ \/ g.pc = "cb" /\ g.msg = m /\ msg' = msg
     \/ g.pc = "loop" /\ g.msg = "none" /\ msg' = [msg EXCEPT ![m] = Release(m, 1)]

LEMMA ExecTakeForm ==
  ASSUME OnTop, ExecTake
  PROVE  \E s \in Servers, m \in Msgs, g \in ExecFrames : TakeForm(s, m, g)
<1> DEFINE s == Top.srv
           l == queue[s]
           m == Head(l)
           a == Len(l) > 1
           f == [Top EXCEPT !.more = a]
           calls == server[s] = "started" /\ mode[s][msg[m].ev] # "none"
           g == IF calls THEN [f EXCEPT !.pc = "cb", !.msg = m] ELSE f
<1>1. stack # <<>> /\ IsExec(Top) /\ Top.pc = "loop" /\ Top.ok /\ Top.more
  BY DEF ExecTake
<1>2. Top \in ExecFrames /\ Top.msg = "none" /\ l # <<>> /\ s \in Servers
  <2>1. Top \in ExecFrames /\ FrameOK(Top, queue)
    BY <1>1, OnTopOf
  <2>2. Top.msg = "none" /\ l # <<>>
    BY <1>1, <2>1 DEF FrameOK, Locked
  <2>3. s \in Servers
    BY <2>1 DEF ExecFrames
  <2> QED BY <2>1, <2>2, <2>3
<1>3. l \in Seq(Msgs)
  BY <1>2 DEF OnTop
<1>4. /\ queue' = [queue EXCEPT ![s] = Tail(l)]
      /\ msg' = IF calls THEN msg ELSE [msg EXCEPT ![m] = Release(m, 1)]
      /\ stack' = <<g>> \o Break(Tail(stack), DrainBreaks(Tail(stack), s))
      /\ masked' = masked /\ UNCHANGED <<map, server, subs, mode>>
  BY DEF ExecTake
<1> HIDE DEF l, calls
<1>5. /\ m \in Msgs /\ Tail(l) \in Seq(Msgs) /\ l = <<m>> \o Tail(l)
      /\ Len(Tail(l)) = Len(l) - 1 /\ Len(l) \in Nat
  BY <1>2, <1>3, SplitSeq
<1>6. a => Tail(l) # <<>>
  <2>1. Len(<<>>) = 0
    BY EmptySeq
  <2>2. a => Len(Tail(l)) # 0
    BY <1>5
  <2> QED BY <2>1, <2>2, Zenon
<1>7. a \in BOOLEAN
  BY <1>5
<1> HIDE DEF a, m, s
<1>8. /\ f \in ExecFrames /\ f.pc = "loop" /\ f.srv = s /\ f.msg = "none"
      /\ f.more = a /\ f.level = Top.level /\ f.ok = Top.ok
  BY <1>1, <1>2, <1>7 DEF ExecFrames, s
<1> DEFINE c == [f EXCEPT !.pc = "cb", !.msg = m]
<1> HIDE DEF f
<1>9. /\ c \in ExecFrames /\ c.pc = "cb" /\ c.srv = s /\ c.msg = m
      /\ c.more = a /\ c.level = Top.level /\ c.ok = Top.ok
  BY <1>5, <1>8 DEF ExecFrames
<1> HIDE DEF c
<1>10. g = IF calls THEN c ELSE f
  BY DEF c, f
<1> HIDE DEF g
<1>11. CASE calls
  <2>1. g = c /\ msg' = msg
    BY <1>4, <1>10, <1>11
  <2>2. TakeForm(s, m, g)
    BY <1>1, <1>2, <1>4, <1>5, <1>6, <1>9, <2>1 DEF TakeForm, Locked, s, l
  <2> QED BY <1>2, <1>5, <1>9, <2>1, <2>2
<1>12. CASE ~calls
  <2>1. g = f /\ msg' = [msg EXCEPT ![m] = Release(m, 1)]
    BY <1>4, <1>10, <1>12
  <2>2. TakeForm(s, m, g)
    BY <1>1, <1>2, <1>4, <1>5, <1>6, <1>8, <2>1 DEF TakeForm, Locked, s, l
  <2> QED BY <1>2, <1>5, <1>8, <2>1, <2>2
<1> QED BY <1>11, <1>12

LEMMA CbReturnForm ==
  ASSUME OnTop, CbReturn
  PROVE  /\ stack # <<>> /\ masked' = masked /\ UNCHANGED <<map, server, subs, mode, queue>>
         /\ \/ \E g \in PubFrames :
                 /\ Top \in PubFrames /\ IsPub(Top) /\ Top.pc = "cb"
                 /\ g.pc = "loop" /\ g.ev = Top.ev /\ g.msg = Top.msg /\ g.cur = Top.cur
                 /\ g.level = Top.level /\ g.ok = Top.ok
                 /\ stack' = <<g>> \o Tail(stack) /\ msg' = msg
            \/ \E g \in ExecFrames :
                 /\ Top \in ExecFrames /\ IsExec(Top) /\ Top.pc = "cb" /\ Top.msg \in Msgs
                 /\ g.pc = "loop" /\ g.srv = Top.srv /\ g.msg = "none" /\ g.more = Top.more
                 /\ g.level = Top.level /\ g.ok = Top.ok
                 /\ stack' = <<g>> \o Tail(stack)
                 /\ msg' = [msg EXCEPT ![Top.msg] = Release(Top.msg, 1)]
<1>1. /\ stack # <<>> /\ Top.pc = "cb" /\ UNCHANGED <<map, server, subs, mode, queue>>
      /\ IsPub(Top) \/ IsExec(Top)
  BY DEF CbReturn, IsPub, IsExec
<1>2. /\ \A x \in Frames : [stack EXCEPT ![1] = x] = <<x>> \o Tail(stack)
      /\ FrameOK(Top, queue) /\ Top \in Frames
      /\ IsPub(Top) => Top \in PubFrames
      /\ IsExec(Top) => Top \in ExecFrames
  BY <1>1, OnTopOf
<1>3. CASE IsPub(Top)
  <2> DEFINE g == [Top EXCEPT !.pc = "loop"]
  <2>1. /\ g \in PubFrames /\ g.pc = "loop" /\ g.ev = Top.ev /\ g.msg = Top.msg
        /\ g.cur = Top.cur /\ g.level = Top.level /\ g.ok = Top.ok
    BY <1>2, <1>3 DEF PubFrames
  <2>2. stack' = [stack EXCEPT ![1] = g] /\ masked' = masked /\ msg' = msg
    BY <1>3 DEF CbReturn, Goto
  <2> HIDE DEF g
  <2>3. stack' = <<g>> \o Tail(stack)
    BY <1>2, <2>1, <2>2 DEF Frames
  <2> QED BY <1>1, <1>2, <1>3, <2>1, <2>2, <2>3
<1>4. CASE ~IsPub(Top)
  <2> DEFINE g == [Top EXCEPT !.pc = "loop", !.msg = "none"]
  <2>1. Top \in ExecFrames /\ IsExec(Top) /\ Top.msg \in Msgs
    BY <1>1, <1>2, <1>4, FrameKinds DEF FrameOK
  <2>2. /\ g \in ExecFrames /\ g.pc = "loop" /\ g.srv = Top.srv /\ g.msg = "none"
        /\ g.more = Top.more /\ g.level = Top.level /\ g.ok = Top.ok
    BY <2>1 DEF ExecFrames
  <2>3. /\ stack' = [stack EXCEPT ![1] = g] /\ masked' = masked
        /\ msg' = [msg EXCEPT ![Top.msg] = Release(Top.msg, 1)]
    BY <1>4 DEF CbReturn, Goto
  <2> HIDE DEF g
  <2>4. stack' = <<g>> \o Tail(stack)
    BY <1>2, <2>2, <2>3 DEF Frames
  <2> QED BY <1>1, <2>1, <2>2, <2>3, <2>4
<1> QED BY <1>3, <1>4

-----------------------------------------------------------------------------
(***************************************************************************)
(* Base is inductive.                                                      *)
(***************************************************************************)
\* A frame does not mind a change that empties no queue.
LEMMA FrameKept ==
  ASSUME NEW f \in Frames, NEW q1, NEW q2, FrameOK(f, q1),
         \A s \in Servers : q1[s] # <<>> => q2[s] # <<>>
  PROVE  FrameOK(f, q2)
<1>1. IsExec(f) => f.srv \in Servers
  BY FrameKinds DEF ExecFrames
<1> QED BY <1>1 DEF FrameOK

LEMMA FramesAfter ==
  ASSUME NEW fs \in Seq(Frames), NEW g \in Frames, stack' = <<g>> \o fs,
         FrameOK(g, queue'), \A f \in ToSet(fs) : FrameOK(f, queue')
  PROVE  stack' \in Seq(Frames) /\ FrameInv'
<1>1. <<g>> \o fs \in Seq(Frames) /\ ToSet(<<g>> \o fs) = {g} \cup ToSet(fs)
  BY StackParts
<1>2. stack' \in Seq(Frames) /\ ToSet(stack') = {g} \cup ToSet(fs)
  BY <1>1, Zenon
<1> QED BY <1>2 DEF FrameInv

\* The same with fs and g where some frames lost their place and q is what
\* the queues have become.
LEMMA FramesBroken ==
  ASSUME NEW fs \in Seq(Frames), NEW I, NEW q,
         \A i \in DOMAIN fs : /\ fs[i] \in Frames /\ FrameOK(fs[i], queue)
                              /\ i \in I \/ FrameOK(fs[i], q)
  PROVE  \A f \in ToSet(Break(fs, I)) : FrameOK(f, q)
<1> SUFFICES ASSUME NEW g \in ToSet(Break(fs, I)) PROVE FrameOK(g, q)
  OBVIOUS
<1>1. PICK i \in DOMAIN fs : /\ AlikeExceptOk(fs[i], g) /\ g \in Frames
                             /\ g.ok <=> fs[i].ok /\ i \notin I
  BY BreakElements
<1>2. CASE i \in I
  <2>1. ~g.ok
    BY <1>1, <1>2
  <2> QED BY <1>1, <2>1, FrameKinds DEF FrameOK, AlikeExceptOk
<1>3. CASE FrameOK(fs[i], q)
  BY <1>1, <1>3, FrameKinds DEF FrameOK, AlikeExceptOk
<1> QED BY <1>2, <1>3

LEMMA StackElements ==
  ASSUME Base
  PROVE  /\ \A i \in DOMAIN stack : stack[i] \in Frames /\ FrameOK(stack[i], queue)
         /\ \A f \in ToSet(stack) : f \in Frames /\ FrameOK(f, queue)
         /\ stack # <<>> => /\ \A i \in DOMAIN Tail(stack) :
                                 /\ Tail(stack)[i] \in Frames
                                 /\ FrameOK(Tail(stack)[i], queue)
                            /\ \A f \in ToSet(Tail(stack)) : f \in Frames /\ FrameOK(f, queue)
<1>1. \A i \in DOMAIN stack : stack[i] \in Frames /\ stack[i] \in ToSet(stack)
  BY LenProperties, ElementOfSeq DEF Base, EventTypes, ToSet
<1>2. \A f \in ToSet(stack) : f \in Frames /\ FrameOK(f, queue)
  BY <1>1 DEF Base, FrameInv, ToSet
<1>3. ASSUME stack # <<>>
      PROVE  \A f \in ToSet(Tail(stack)) : f \in Frames /\ FrameOK(f, queue)
  BY <1>2, <1>3, TopOf
<1>4. ASSUME stack # <<>>, NEW i \in DOMAIN Tail(stack)
      PROVE  Tail(stack)[i] \in ToSet(Tail(stack))
  BY DEF ToSet
<1> QED BY <1>1, <1>2, <1>3, <1>4

\* A server that comes to be has an empty queue already.
LEMMA CreateKeepsQueues ==
  ASSUME Base, NEW s \in Servers, sh_event_server_create(s)
  PROVE  queue' = queue
<1>1. queue[s] = <<>> /\ queue' = [queue EXCEPT ![s] = <<>>] /\ queue \in [Servers -> Seq(Msgs)]
  BY DEF Base, AbsentEmpty, EventTypes, sh_event_server_create
<1> QED BY <1>1

LEMMA UnlinkTypes ==
  ASSUME EventTypes, NEW s \in Servers, NEW E
  PROVE  /\ [e \in Events |-> IF e \in E THEN sh_list_remove(subs[e], s) ELSE subs[e]]
              \in [Events -> Seq(Servers)]
         /\ [e \in Events |-> sh_list_remove(subs[e], s)] \in [Events -> Seq(Servers)]
<1>1. ASSUME NEW e \in Events
      PROVE  subs[e] \in Seq(Servers) /\ sh_list_remove(subs[e], s) \in Seq(Servers)
  <2>1. subs[e] \in Seq(Servers)
    BY DEF EventTypes
  <2> QED BY <2>1, RemoveProperties
<1> QED BY <1>1

LEMMA BaseInit == EventInit => Base
<1> SUFFICES ASSUME EventInit PROVE Base
  OBVIOUS
<1> USE DEF EventInit, IsrInit
<1>1. \A S : <<>> \in Seq(S)
  BY EmptySeq
<1>2. Free \in Records
  BY DEF Free, Records
<1>3. /\ server \in [Servers -> {"absent", "stopped", "started", "freed"}]
      /\ mode \in [Servers -> [Events -> {"none", "async", "sync"}]]
  OBVIOUS
<1>4. /\ subs \in [Events -> Seq(Servers)] /\ queue \in [Servers -> Seq(Msgs)]
      /\ msg \in [Msgs -> Records] /\ stack \in Seq(Frames)
      /\ map \in BOOLEAN /\ masked \in BOOLEAN
  BY <1>1, <1>2
<1>5. ToSet(stack) = {}
  <2>1. DOMAIN <<>> = {}
    OBVIOUS
  <2> QED BY <2>1 DEF ToSet
<1> QED BY <1>3, <1>4, <1>5 DEF Base, EventTypes, FrameInv, AbsentEmpty

\* The operations that touch neither the stack nor the queues nor messages.
LEMMA BaseQuiet ==
  ASSUME Base,
         \/ sh_event_map_create \/ sh_event_map_destroy
         \/ \E s \in Servers :
              \/ sh_event_server_create(s)
              \/ sh_event_server_start(s) \/ sh_event_server_stop(s)
              \/ \E e \in Events, m \in {"async", "sync"} : Subscribe(s, e, m)
  PROVE  /\ Base' /\ queue' = queue /\ msg' = msg /\ stack' = stack /\ masked' = masked
<1>1. queue' = queue /\ msg' = msg /\ stack' = stack /\ masked' = masked
  BY CreateKeepsQueues DEF sh_event_map_create, sh_event_map_destroy, sh_event_server_create,
     sh_event_server_start, sh_event_server_stop, Subscribe, isrVars
<1>2. FrameInv'
  BY <1>1 DEF Base, FrameInv
<1>3. map' \in BOOLEAN
  BY DEF Base, EventTypes, sh_event_map_create, sh_event_map_destroy, sh_event_server_create,
     sh_event_server_start, sh_event_server_stop, Subscribe
<1>4. server' \in [Servers -> {"absent", "stopped", "started", "freed"}]
  BY DEF Base, EventTypes, sh_event_map_create, sh_event_map_destroy, sh_event_server_create,
     sh_event_server_start, sh_event_server_stop, Subscribe
<1>5. AbsentEmpty'
  BY <1>1, <1>4 DEF Base, EventTypes, AbsentEmpty, sh_event_map_create, sh_event_map_destroy,
     sh_event_server_create, sh_event_server_start, sh_event_server_stop, Subscribe
<1>6. subs' \in [Events -> Seq(Servers)]
  <2>1. subs \in [Events -> Seq(Servers)] /\ <<>> \in Seq(Servers)
    BY EmptySeq DEF Base, EventTypes
  <2>2. \A s \in Servers, e \in Events : Append(subs[e], s) \in Seq(Servers)
    BY <2>1, AppendProperties
  <2>3. \/ subs' = [x \in Events |-> <<>>] \/ subs' = subs
        \/ \E s \in Servers, e \in Events : subs' = [subs EXCEPT ![e] = Append(subs[e], s)]
    BY DEF sh_event_map_create, sh_event_map_destroy, sh_event_server_create,
       sh_event_server_start, sh_event_server_stop, Subscribe
  <2> QED BY <2>1, <2>2, <2>3
<1>7. mode' \in [Servers -> [Events -> {"none", "async", "sync"}]]
  <2>1. mode \in [Servers -> [Events -> {"none", "async", "sync"}]]
    BY DEF Base, EventTypes
  <2>2. \/ mode' = mode
        \/ \E s \in Servers :
             \/ mode' = [mode EXCEPT ![s] = [x \in Events |-> "none"]]
             \/ \E e \in Events, m \in {"async", "sync"} : mode' = [mode EXCEPT ![s][e] = m]
    BY DEF sh_event_map_create, sh_event_map_destroy, sh_event_server_create,
       sh_event_server_start, sh_event_server_stop, Subscribe
  <2> QED BY <2>1, <2>2
<1> QED BY <1>1, <1>2, <1>3, <1>4, <1>5, <1>6, <1>7 DEF Base, EventTypes

\* The operations that take a server off lists of subscribers.
LEMMA BaseUnlink ==
  ASSUME Base, NEW s \in Servers, NEW E \in SUBSET Events,
         sh_event_server_destroy(s) \/ Unlink(s, E)
  PROVE  Base'
<1>1. PICK I : stack' = Break(stack, I)
  BY DEF sh_event_server_destroy, Unlink
<1>2. queue' = queue /\ msg' = msg /\ map' = map /\ masked' = masked
  BY DEF sh_event_server_destroy, Unlink
<1>3. stack' \in Seq(Frames) /\ FrameInv'
  <2>1. stack \in Seq(Frames)
    BY DEF Base, EventTypes
  <2>2. Break(stack, I) \in Seq(Frames)
    BY <2>1, BreakFrames
  <2>3. \A f \in ToSet(Break(stack, I)) : FrameOK(f, queue)
    BY <2>1, StackElements, FramesBroken
  <2> QED BY <1>1, <1>2, <2>2, <2>3 DEF FrameInv
<1>4. server' \in [Servers -> {"absent", "stopped", "started", "freed"}] /\ AbsentEmpty'
  <2>1. CASE server' = server
    BY <1>2, <2>1 DEF Base, EventTypes, AbsentEmpty
  <2>2. CASE server' = [server EXCEPT ![s] = IF queue[s] = <<>> THEN "absent" ELSE "freed"]
    BY <1>2, <2>2 DEF Base, EventTypes, AbsentEmpty
  <2> QED BY <2>1, <2>2 DEF sh_event_server_destroy, Unlink
<1>5. subs' \in [Events -> Seq(Servers)]
  <2>1. EventTypes
    BY DEF Base
  <2> QED BY <2>1, UnlinkTypes DEF sh_event_server_destroy, Unlink
<1>6. mode' \in [Servers -> [Events -> {"none", "async", "sync"}]]
  <2>1. mode \in [Servers -> [Events -> {"none", "async", "sync"}]]
    BY DEF Base, EventTypes
  <2>2. \/ mode' = [mode EXCEPT ![s] = [e \in Events |-> "none"]]
        \/ mode' = [mode EXCEPT ![s] = [e \in Events |-> IF e \in E THEN "none" ELSE @[e]]]
    BY DEF sh_event_server_destroy, Unlink
  <2> QED BY <2>1, <2>2
<1> QED BY <1>2, <1>3, <1>4, <1>5, <1>6 DEF Base, EventTypes

\* A function starts: nothing but the stack changes.
LEMMA BaseEnter ==
  ASSUME Base, \/ \E e \in Events : PublishEnter(e)
               \/ \E s \in Servers : sh_event_handler(s)
  PROVE  Base'
<1>1. PICK g \in Frames : /\ stack' = <<g>> \o stack /\ masked' = masked /\ UNCHANGED eventVars
                          /\ g.pc = "check" /\ g.msg = "none" /\ (IsPub(g) => g.cur = "head")
  <2>1. CASE \E e \in Events : PublishEnter(e)
    BY <2>1, PublishEnterForm DEF Frames
  <2>2. CASE \E s \in Servers : sh_event_handler(s)
    BY <2>2, HandlerForm, FrameKinds DEF Frames, IsPub, ExecFrames
  <2> QED BY <2>1, <2>2
<1>2. FrameOK(g, queue)
  BY <1>1 DEF FrameOK, Locked
<1>3. stack' \in Seq(Frames) /\ FrameInv'
  <2>1. stack \in Seq(Frames) /\ queue' = queue
    BY <1>1 DEF Base, EventTypes, eventVars
  <2>2. \A f \in ToSet(stack) : FrameOK(f, queue')
    BY <2>1, StackElements
  <2> QED BY <1>1, <1>2, <2>1, <2>2, FramesAfter
<1> QED BY <1>1, <1>3 DEF Base, EventTypes, AbsentEmpty, eventVars

\* A function returns.
LEMMA BasePop ==
  ASSUME Base, \/ PublishNoMemory \/ PublishDone \/ ExecDone
               \/ \E s \in Servers : PublishSaveFails(s)
  PROVE  Base'
<1>1. Pops
  BY BaseOnTop, PopForms
<1>2. /\ UNCHANGED <<map, server, subs, mode, queue>>
  BY DEF PublishNoMemory, PublishSaveFails, PublishDone, ExecDone, eventVars
<1>3. stack' \in Seq(Frames) /\ FrameInv'
  <2>1. stack # <<>> /\ stack' = Tail(stack) /\ Tail(stack) \in Seq(Frames)
    BY <1>1, TopOf DEF Pops
  <2>2. \A f \in ToSet(Tail(stack)) : FrameOK(f, queue)
    BY <2>1, StackElements
  <2> QED BY <1>2, <2>1, <2>2 DEF FrameInv
<1>4. masked' \in BOOLEAN
  <2>1. masked \in BOOLEAN
    BY DEF Base, EventTypes
  <2>2. Top.level \in BOOLEAN
    BY <1>1, TopOf, FrameKinds DEF Pops
  <2>3. masked' = masked \/ masked' = Top.level
    BY DEF PublishNoMemory, PublishSaveFails, PublishDone, ExecDone, sh_isr_enable, Leave
  <2> QED BY <2>1, <2>2, <2>3
<1>5. msg' \in [Msgs -> Records]
  <2>1. msg \in [Msgs -> Records] /\ Free \in Records
    BY DEF Base, EventTypes, Free, Records
  <2>2. CASE msg' = msg
    BY <2>1, <2>2
  <2>3. CASE PublishNoMemory
    <3>1. IsPub(Top) /\ stack # <<>>
      BY <2>3 DEF PublishNoMemory
    <3>2. Top.ev \in Events
      BY <3>1, TopOf DEF PubFrames
    <3>3. [ev |-> Top.ev, ref |-> 0] \in Records
      BY <3>2 DEF Records
    <3> QED BY <2>1, <2>3, <3>3 DEF PublishNoMemory
  <2>4. CASE PublishDone
    <3>1. Top.msg \in Msgs
      BY <2>4, BaseOnTop, PopForms
    <3>2. msg[Top.msg] \in Records
      BY <2>1, <3>1
    <3>3. (IF msg[Top.msg].ref = 0 THEN Free ELSE msg[Top.msg]) \in Records
      BY <2>1, <3>2
    <3>4. msg' = [msg EXCEPT ![Top.msg] = IF msg[Top.msg].ref = 0 THEN Free ELSE msg[Top.msg]]
      BY <2>1, <2>4, <3>1 DEF PublishDone
    <3> QED BY <2>1, <3>3, <3>4
  <2> QED BY <2>2, <2>3, <2>4 DEF PublishSaveFails, ExecDone, eventVars
<1> QED BY <1>2, <1>3, <1>4, <1>5 DEF Base, EventTypes, AbsentEmpty

\* The first frame is replaced by g, and no queue is emptied.
LEMMA BaseReplace ==
  ASSUME Base, stack # <<>>, NEW g \in Frames, stack' = <<g>> \o Tail(stack),
         FrameOK(g, queue'), \A s \in Servers : queue[s] # <<>> => queue'[s] # <<>>
  PROVE  stack' \in Seq(Frames) /\ FrameInv'
<1>1. Tail(stack) \in Seq(Frames)
  BY TopOf
<1>2. \A f \in ToSet(Tail(stack)) : FrameOK(f, queue')
  BY StackElements, FrameKept
<1> QED BY <1>1, <1>2, FramesAfter

\* A publication locks, or goes on to its next node.
LEMMA BasePublish ==
  ASSUME Base, \/ PublishLock
               \/ \E s \in Servers : PublishSkip(s) \/ PublishSync(s) \/ PublishSave(s)
  PROVE  Base'
<1>1. CASE PublishLock
  <2>1. PICK m \in Msgs, g \in PubFrames :
           /\ stack # <<>> /\ Top \in PubFrames
           /\ msg' = [msg EXCEPT ![m] = [ev |-> Top.ev, ref |-> 0]]
           /\ g.pc = "loop" /\ g.msg = m
           /\ stack' = <<g>> \o Tail(stack) /\ masked' = TRUE
           /\ UNCHANGED <<map, server, subs, mode, queue>>
    BY <1>1, BaseOnTop, PublishLockForm
  <2>2. g \in Frames /\ ~IsExec(g) /\ m # "none"
    BY EventAssumption DEF Frames, PubFrames, IsExec
  <2>3. FrameOK(g, queue')
    BY <2>1, <2>2 DEF FrameOK
  <2>4. stack' \in Seq(Frames) /\ FrameInv'
    BY <2>1, <2>2, <2>3, BaseReplace
  <2>5. [ev |-> Top.ev, ref |-> 0] \in Records
    BY <2>1 DEF PubFrames, Records
  <2> QED BY <2>1, <2>4, <2>5 DEF Base, EventTypes, AbsentEmpty
<1>2. ASSUME NEW s \in Servers, PublishSkip(s) \/ PublishSync(s) PROVE Base'
  <2>1. Reaches(s) /\ UNCHANGED eventVars
    BY <1>2 DEF PublishSkip, PublishSync
  <2>2. PICK g \in PubFrames : PubGoesTo(g, s)
    BY <1>2, <2>1, BaseOnTop, GoesToForm DEF PublishSkip, PublishSync
  <2>3. g \in Frames /\ ~IsExec(g) /\ g.msg # "none" /\ g.pc # "check" /\ stack # <<>>
    BY <2>1, <2>2, BaseOnTop, ReachesForm, EventAssumption
       DEF Frames, PubFrames, IsExec, PubGoesTo
  <2>4. FrameOK(g, queue')
    BY <2>3 DEF FrameOK
  <2>5. stack' \in Seq(Frames) /\ FrameInv'
    BY <2>1, <2>2, <2>3, <2>4, BaseReplace DEF PubGoesTo, eventVars
  <2> QED BY <2>1, <2>2, <2>5 DEF Base, EventTypes, AbsentEmpty, eventVars, PubGoesTo
<1>3. ASSUME NEW s \in Servers, PublishSave(s) PROVE Base'
  <2>1. /\ Reaches(s) /\ server[s] = "started" /\ UNCHANGED <<map, server, subs, mode>>
        /\ queue' = [queue EXCEPT ![s] = Append(queue[s], Top.msg)]
        /\ msg' = [msg EXCEPT ![Top.msg].ref = msg[Top.msg].ref + 1]
    BY <1>3 DEF PublishSave
  <2>2. PICK g \in PubFrames : PubGoesTo(g, s)
    BY <1>3, <2>1, BaseOnTop, GoesToForm DEF PublishSave
  <2>3. /\ g \in Frames /\ ~IsExec(g) /\ g.msg # "none" /\ g.pc # "check" /\ stack # <<>>
        /\ Top.msg \in Msgs
    BY <2>1, <2>2, BaseOnTop, ReachesForm, EventAssumption
       DEF Frames, PubFrames, IsExec, PubGoesTo
  <2>4. FrameOK(g, queue')
    BY <2>3 DEF FrameOK
  <2>5. queue \in [Servers -> Seq(Msgs)] /\ msg \in [Msgs -> Records]
    BY DEF Base, EventTypes
  <2>6. Append(queue[s], Top.msg) \in Seq(Msgs) /\ Append(queue[s], Top.msg) # <<>>
    BY <2>3, <2>5, AppendProperties
  <2>7. \A t \in Servers : queue[t] # <<>> => queue'[t] # <<>>
    BY <2>1, <2>5, <2>6
  <2>8. stack' \in Seq(Frames) /\ FrameInv'
    BY <2>2, <2>3, <2>4, <2>7, BaseReplace DEF PubGoesTo
  <2>9. queue' \in [Servers -> Seq(Msgs)] /\ AbsentEmpty'
    BY <2>1, <2>5, <2>6 DEF Base, EventTypes, AbsentEmpty
  <2>10. msg' \in [Msgs -> Records]
    <3> DEFINE r == [msg[Top.msg] EXCEPT !.ref = msg[Top.msg].ref + 1]
    <3>1. msg' = [msg EXCEPT ![Top.msg] = r]
      BY <2>1
    <3>2. msg[Top.msg] \in Records
      BY <2>3, <2>5
    <3>3. r \in Records
      BY <3>2 DEF Records
    <3> HIDE DEF r
    <3> QED BY <2>5, <3>1, <3>3
  <2> QED BY <2>1, <2>2, <2>8, <2>9, <2>10 DEF Base, EventTypes, PubGoesTo
<1> QED BY <1>1, <1>2, <1>3

\* A drain locks; a callback returns.
LEMMA BaseExec ==
  ASSUME Base, ExecLock \/ CbReturn
  PROVE  Base'
<1>1. CASE ExecLock
  <2>1. PICK g \in ExecFrames :
           /\ stack # <<>> /\ Top \in ExecFrames
           /\ g.pc = "loop" /\ g.srv = Top.srv /\ g.msg = "none"
           /\ g.more <=> queue[Top.srv] # <<>>
           /\ stack' = <<g>> \o Tail(stack) /\ masked' = TRUE /\ UNCHANGED eventVars
    BY <1>1, BaseOnTop, ExecLockForm
  <2>2. g \in Frames /\ ~IsPub(g) /\ queue' = queue
    BY <2>1, FrameKinds DEF Frames, ExecFrames, IsPub, eventVars
  <2>3. FrameOK(g, queue')
    BY <2>1, <2>2 DEF FrameOK
  <2>4. stack' \in Seq(Frames) /\ FrameInv'
    BY <2>1, <2>2, <2>3, BaseReplace
  <2> QED BY <2>1, <2>4 DEF Base, EventTypes, AbsentEmpty, eventVars
<1>2. CASE CbReturn
  <2>1. stack # <<>> /\ masked' = masked /\ UNCHANGED <<map, server, subs, mode, queue>>
    BY <1>2, BaseOnTop, CbReturnForm
  <2>2. CASE \E g \in PubFrames :
                 /\ Top \in PubFrames /\ IsPub(Top) /\ Top.pc = "cb"
                 /\ g.pc = "loop" /\ g.msg = Top.msg
                 /\ stack' = <<g>> \o Tail(stack) /\ msg' = msg
    <3>1. PICK g \in PubFrames :
                 /\ Top \in PubFrames /\ IsPub(Top) /\ Top.pc = "cb"
                 /\ g.pc = "loop" /\ g.msg = Top.msg
                 /\ stack' = <<g>> \o Tail(stack) /\ msg' = msg
      BY <2>2
    <3>2. g \in Frames /\ ~IsExec(g)
      BY DEF Frames, PubFrames, IsExec
    <3>3. FrameOK(Top, queue)
      BY <2>1, TopOf
    <3>4. FrameOK(g, queue')
      BY <3>1, <3>2, <3>3 DEF FrameOK
    <3>5. stack' \in Seq(Frames) /\ FrameInv'
      BY <2>1, <3>1, <3>2, <3>4, BaseReplace
    <3> QED BY <2>1, <3>1, <3>5 DEF Base, EventTypes, AbsentEmpty
  <2>3. CASE \E g \in ExecFrames :
                 /\ Top \in ExecFrames /\ IsExec(Top) /\ Top.pc = "cb" /\ Top.msg \in Msgs
                 /\ g.pc = "loop" /\ g.srv = Top.srv /\ g.msg = "none" /\ g.more = Top.more
                 /\ g.ok = Top.ok
                 /\ stack' = <<g>> \o Tail(stack)
                 /\ msg' = [msg EXCEPT ![Top.msg] = Release(Top.msg, 1)]
    <3>1. PICK g \in ExecFrames :
                 /\ Top \in ExecFrames /\ IsExec(Top) /\ Top.pc = "cb" /\ Top.msg \in Msgs
                 /\ g.pc = "loop" /\ g.srv = Top.srv /\ g.msg = "none" /\ g.more = Top.more
                 /\ g.ok = Top.ok
                 /\ stack' = <<g>> \o Tail(stack)
                 /\ msg' = [msg EXCEPT ![Top.msg] = Release(Top.msg, 1)]
      BY <2>3
    <3>2. g \in Frames /\ ~IsPub(g)
      BY DEF Frames, ExecFrames, IsPub
    <3>3. FrameOK(Top, queue)
      BY <2>1, TopOf
    <3>4. FrameOK(g, queue')
      BY <2>1, <3>1, <3>2, <3>3 DEF FrameOK, Locked
    <3>5. stack' \in Seq(Frames) /\ FrameInv'
      BY <2>1, <3>1, <3>2, <3>4, BaseReplace
    <3>6. msg \in [Msgs -> Records] /\ Top.msg \in Msgs
      BY <3>1 DEF Base, EventTypes
    <3>7. Release(Top.msg, 1) \in Records
      BY <3>6, ReleaseProperties
    <3> QED BY <2>1, <3>1, <3>5, <3>6, <3>7 DEF Base, EventTypes, AbsentEmpty
  <2> QED BY <1>2, <2>2, <2>3, BaseOnTop, CbReturnForm
<1> QED BY <1>1, <1>2

\* A message is taken, or all of them are.  The drains of the same server
\* that are below have lost their place: FrameOK asks nothing of them.
LEMMA BaseTake ==
  ASSUME Base, ExecTake
  PROVE  Base'
<1>1. PICK s \in Servers, m \in Msgs, g \in ExecFrames : TakeForm(s, m, g)
  BY BaseOnTop, ExecTakeForm
<1> DEFINE fs == Tail(stack)
           I == DrainBreaks(fs, s)
<1>2. /\ stack # <<>> /\ fs \in Seq(Frames) /\ g \in Frames /\ ~IsPub(g)
      /\ \A i \in DOMAIN fs : fs[i] \in Frames /\ FrameOK(fs[i], queue)
  BY <1>1, TopOf, StackElements DEF TakeForm, Frames, ExecFrames, IsPub
<1>3. queue \in [Servers -> Seq(Msgs)] /\ msg \in [Msgs -> Records]
  BY DEF Base, EventTypes
<1>4. queue' = [queue EXCEPT ![s] = Tail(queue[s])] /\ Tail(queue[s]) \in Seq(Msgs)
  BY <1>1 DEF TakeForm
<1>5. ASSUME NEW i \in DOMAIN fs PROVE i \in I \/ FrameOK(fs[i], queue')
  <2>1. CASE i \in I
    BY <2>1
  <2>2. CASE i \notin I
    <3>1. ~(IsExec(fs[i]) /\ Locked(fs[i]) /\ fs[i].srv = s /\ fs[i].more)
      BY <2>2 DEF DrainBreaks
    <3>2. IsExec(fs[i]) => fs[i].srv \in Servers
      BY <1>2, FrameKinds DEF ExecFrames
    <3>3. FrameOK(fs[i], queue)
      BY <1>2
    <3> HIDE DEF fs
    <3> QED BY <1>3, <1>4, <3>1, <3>2, <3>3 DEF FrameOK
  <2> QED BY <2>1, <2>2
<1>6. \A f \in ToSet(Break(fs, I)) : FrameOK(f, queue')
  BY <1>2, <1>5, FramesBroken
<1>7. FrameOK(g, queue')
  <2>1. (g.pc = "cb" <=> g.msg # "none") /\ (g.more => queue'[g.srv] # <<>>)
    BY <1>1, <1>3, <1>4, EventAssumption DEF TakeForm
  <2> QED BY <1>2, <2>1 DEF FrameOK
<1>8. stack' \in Seq(Frames) /\ FrameInv'
  <2>1. Break(fs, I) \in Seq(Frames) /\ stack' = <<g>> \o Break(fs, I)
    <3>1. stack' = <<g>> \o Break(fs, I)
      BY <1>1 DEF TakeForm
    <3>2. Break(fs, I) \in Seq(Frames)
      BY <1>2, BreakTyped
    <3> QED BY <3>1, <3>2
  <2> QED BY <1>2, <1>6, <1>7, <2>1, FramesAfter
<1>9. msg' \in [Msgs -> Records]
  <2>1. Release(m, 1) \in Records
    BY <1>3, ReleaseProperties
  <2> QED BY <1>1, <1>3, <2>1 DEF TakeForm
<1>10. queue' \in [Servers -> Seq(Msgs)] /\ AbsentEmpty'
  <2>1. queue[s] # <<>>
    BY <1>1, <1>2, TopOf DEF TakeForm, FrameOK, Locked
  <2> QED BY <1>1, <1>3, <1>4, <2>1 DEF Base, AbsentEmpty, TakeForm
<1> QED BY <1>1, <1>8, <1>9, <1>10 DEF Base, EventTypes, TakeForm

LEMMA BaseClear ==
  ASSUME Base, NEW s \in Servers, sh_event_server_clear_msg(s)
  PROVE  Base'
<1> DEFINE I == DrainBreaks(stack, s)
<1>1. /\ queue' = [queue EXCEPT ![s] = <<>>] /\ msg' = Cleared(s) /\ stack' = Break(stack, I)
      /\ UNCHANGED <<map, server, subs, mode, masked>>
  BY DEF sh_event_server_clear_msg
<1>2. /\ queue \in [Servers -> Seq(Msgs)] /\ msg \in [Msgs -> Records]
      /\ stack \in Seq(Frames)
  BY DEF Base, EventTypes
<1>3. ASSUME NEW i \in DOMAIN stack
      PROVE  /\ stack[i] \in Frames /\ FrameOK(stack[i], queue)
             /\ i \in I \/ FrameOK(stack[i], queue')
  <2>1. stack[i] \in Frames /\ FrameOK(stack[i], queue)
    BY StackElements
  <2>2. CASE i \notin I
    <3>1. ~(IsExec(stack[i]) /\ Locked(stack[i]) /\ stack[i].srv = s /\ stack[i].more)
      BY <2>2 DEF DrainBreaks
    <3>2. IsExec(stack[i]) => stack[i].srv \in Servers
      BY <2>1, FrameKinds DEF ExecFrames
    <3> QED BY <1>1, <1>2, <2>1, <3>1, <3>2 DEF FrameOK
  <2> QED BY <2>1, <2>2
<1>4. \A f \in ToSet(Break(stack, I)) : FrameOK(f, queue')
  BY <1>2, <1>3, FramesBroken
<1>5. stack' \in Seq(Frames) /\ FrameInv'
  <2>1. Break(stack, I) \in Seq(Frames)
    BY <1>2, BreakTyped
  <2> HIDE DEF I
  <2> QED BY <1>1, <1>4, <2>1 DEF FrameInv
<1>6. queue' \in [Servers -> Seq(Msgs)] /\ AbsentEmpty'
  <2>1. <<>> \in Seq(Msgs)
    BY EmptySeq
  <2> QED BY <1>1, <1>2, <2>1 DEF Base, AbsentEmpty
<1>7. ASSUME NEW m \in Msgs PROVE Cleared(s)[m] \in Records
  <2> DEFINE n == Cardinality(Occurs(m, queue[s]))
  <2>1. n \in Int
    <3>1. queue[s] \in Seq(Msgs)
      BY <1>2
    <3> QED BY <3>1, OccursFinite
  <2>2. Cleared(s)[m] = IF n = 0 THEN msg[m] ELSE Release(m, n)
    BY DEF Cleared
  <2> HIDE DEF n
  <2> QED BY <1>2, <2>1, <2>2, ReleaseProperties
<1>8. msg' \in [Msgs -> Records]
  BY <1>1, <1>7 DEF Cleared
<1> QED BY <1>1, <1>5, <1>6, <1>8 DEF Base, EventTypes

LEMMA BaseStep == Base /\ [EventNext]_allEventVars => Base'
<1> SUFFICES ASSUME Base, [EventNext]_allEventVars PROVE Base'
  OBVIOUS
<1>1. CASE UNCHANGED allEventVars
  BY <1>1 DEF Base, EventTypes, FrameInv, AbsentEmpty, allEventVars, eventVars, isrVars
<1>2. CASE EventSteps
  BY <1>2, BasePublish, BaseExec, BaseTake, BasePop DEF EventSteps
<1>3. CASE sh_event_map_create \/ sh_event_map_destroy
  BY <1>3, BaseQuiet
<1>4. ASSUME NEW s \in Servers,
             \/ sh_event_server_create(s) \/ sh_event_server_destroy(s)
             \/ sh_event_server_start(s)  \/ sh_event_server_stop(s)
             \/ sh_event_unsubscribe_all(s)
             \/ sh_event_handler(s)       \/ sh_event_server_clear_msg(s)
      PROVE  Base'
  <2>1. CASE sh_event_server_create(s) \/ sh_event_server_start(s) \/ sh_event_server_stop(s)
    BY <2>1, BaseQuiet
  <2>2. CASE sh_event_server_destroy(s)
    BY <2>2, BaseUnlink
  <2>3. CASE sh_event_unsubscribe_all(s)
    <3>1. Unlink(s, {e \in Events : Subscribed(s, e)})
      BY <2>3 DEF sh_event_unsubscribe_all
    <3> QED BY <3>1, BaseUnlink
  <2>4. CASE sh_event_handler(s)
    BY <2>4, BaseEnter
  <2>5. CASE sh_event_server_clear_msg(s)
    BY <2>5, BaseClear
  <2> QED BY <1>4, <2>1, <2>2, <2>3, <2>4, <2>5
<1>5. ASSUME NEW s \in Servers, NEW e \in Events,
             \/ sh_event_subscribe(s, e) \/ sh_event_subscribe_sync(s, e)
             \/ sh_event_unsubscribe(s, e)
      PROVE  Base'
  <2>1. CASE sh_event_subscribe(s, e) \/ sh_event_subscribe_sync(s, e)
    BY <2>1, BaseQuiet DEF sh_event_subscribe, sh_event_subscribe_sync
  <2>2. CASE sh_event_unsubscribe(s, e)
    BY <2>2, BaseUnlink DEF sh_event_unsubscribe
  <2> QED BY <1>5, <2>1, <2>2
<1>6. ASSUME NEW e \in Events, sh_event_publish(e) PROVE Base'
  BY <1>6, BaseEnter DEF sh_event_publish
<1> QED BY <1>1, <1>2, <1>3, <1>4, <1>5, <1>6 DEF EventNext

-----------------------------------------------------------------------------
(***************************************************************************)
(* The reference counts are exact.                                         *)
(***************************************************************************)
CountInv ==
  \A m \in Msgs :
    /\ IsFiniteSet(HoldersOf(queue, m))
    /\ msg[m].ref = Cardinality(HoldersOf(queue, m)) + Cardinality(CallersOf(stack, m))

\* 1 if f is a drain inside the callback of m.
Calling(f, m) == IF IsExec(f) /\ f.msg = m THEN 1 ELSE 0

\* The callers before and after the first frame of the stack changes.
LEMMA CallersReplaced ==
  ASSUME Base, stack # <<>>, NEW g \in Frames, NEW fs \in Seq(Frames), NEW m,
         stack' = <<g>> \o fs, CallersOf(fs, m) = CallersOf(Tail(stack), m)
  PROVE  /\ Cardinality(CallersOf(stack, m)) \in Nat
         /\ Cardinality(CallersOf(stack', m)) + Calling(Top, m)
              = Cardinality(CallersOf(stack, m)) + Calling(g, m)
<1> DEFINE t == Tail(stack)
<1>1. Top \in Frames /\ t \in Seq(Frames) /\ stack = <<Top>> \o t
  BY TopOf
<1>2. /\ Cardinality(CallersOf(t, m)) \in Nat
      /\ Cardinality(CallersOf(<<Top>> \o t, m)) = Cardinality(CallersOf(t, m)) + Calling(Top, m)
      /\ Cardinality(CallersOf(<<g>> \o fs, m)) = Cardinality(CallersOf(fs, m)) + Calling(g, m)
  BY <1>1, PushCallers DEF Calling
<1>3. Calling(Top, m) \in {0, 1} /\ Calling(g, m) \in {0, 1}
  BY DEF Calling
<1>4. /\ Cardinality(CallersOf(stack, m)) = Cardinality(CallersOf(t, m)) + Calling(Top, m)
      /\ Cardinality(CallersOf(stack', m)) = Cardinality(CallersOf(t, m)) + Calling(g, m)
  BY <1>1, <1>2, Zenon
<1> HIDE DEF t
<1> QED BY <1>2, <1>3, <1>4

\* A step that changes no queue, no count and no number of callers.
LEMMA CountSame ==
  ASSUME CountInv, queue' = queue,
         \A m \in Msgs : /\ msg'[m].ref = msg[m].ref
                         /\ Cardinality(CallersOf(stack', m)) = Cardinality(CallersOf(stack, m))
  PROVE  CountInv'
BY DEF CountInv

LEMMA CountReplaced ==
  ASSUME Base, CountInv, stack # <<>>, NEW g \in Frames, stack' = <<g>> \o Tail(stack),
         queue' = queue,
         \A m \in Msgs : msg'[m].ref = msg[m].ref /\ Calling(g, m) = Calling(Top, m)
  PROVE  CountInv'
<1>1. Tail(stack) \in Seq(Frames)
  BY TopOf
<1>2. ASSUME NEW m \in Msgs
      PROVE  Cardinality(CallersOf(stack', m)) = Cardinality(CallersOf(stack, m))
  <2>1. /\ Cardinality(CallersOf(stack, m)) \in Nat
        /\ Cardinality(CallersOf(stack', m)) + Calling(Top, m)
              = Cardinality(CallersOf(stack, m)) + Calling(g, m)
    BY <1>1, CallersReplaced
  <2>2. Cardinality(CallersOf(stack', m)) \in Nat
    <3>1. Cardinality(CallersOf(<<g>> \o Tail(stack), m)) \in Nat
      <4>1. <<g>> \o Tail(stack) \in Seq(Frames)
        BY <1>1, StackParts
      <4> QED BY <4>1, PushCallers
    <3> QED BY <3>1
  <2>3. Calling(g, m) = Calling(Top, m) /\ Calling(g, m) \in {0, 1}
    BY DEF Calling
  <2> QED BY <2>1, <2>2, <2>3
<1> QED BY <1>2, CountSame

LEMMA CountPushed ==
  ASSUME Base, CountInv, NEW g \in Frames, stack' = <<g>> \o stack, g.msg = "none",
         queue' = queue, msg' = msg
  PROVE  CountInv'
<1>1. stack \in Seq(Frames)
  BY DEF Base, EventTypes
<1>2. ASSUME NEW m \in Msgs
      PROVE  Cardinality(CallersOf(stack', m)) = Cardinality(CallersOf(stack, m))
  <2>1. ~(IsExec(g) /\ g.msg = m)
    BY EventAssumption
  <2>2. /\ Cardinality(CallersOf(stack, m)) \in Nat
        /\ Cardinality(CallersOf(<<g>> \o stack, m)) = Cardinality(CallersOf(stack, m)) + 0
    BY <1>1, <2>1, PushCallers
  <2> QED BY <2>2
<1> QED BY <1>2, CountSame

LEMMA CountPopped ==
  ASSUME Base, CountInv, Pops, queue' = queue, \A m \in Msgs : msg'[m].ref = msg[m].ref
  PROVE  CountInv'
<1>1. /\ Top \in Frames /\ Tail(stack) \in Seq(Frames) /\ stack = <<Top>> \o Tail(stack)
      /\ stack' = Tail(stack)
  BY TopOf DEF Pops
<1>2. ASSUME NEW m \in Msgs
      PROVE  Cardinality(CallersOf(stack', m)) = Cardinality(CallersOf(stack, m))
  <2>1. ~(IsExec(Top) /\ Top.msg = m)
    BY EventAssumption DEF Pops
  <2>2. /\ Cardinality(CallersOf(Tail(stack), m)) \in Nat
        /\ Cardinality(CallersOf(<<Top>> \o Tail(stack), m)) = Cardinality(CallersOf(Tail(stack), m)) + 0
    BY <1>1, <2>1, PushCallers
  <2>3. Cardinality(CallersOf(stack, m)) = Cardinality(CallersOf(Tail(stack), m)) + 0
    BY <1>1, <2>2, Zenon
  <2> QED BY <1>1, <2>2, <2>3
<1> QED BY <1>2, CountSame

LEMMA CountBroken ==
  ASSUME Base, CountInv, NEW I, stack' = Break(stack, I), queue' = queue, msg' = msg
  PROVE  CountInv'
<1>1. stack \in Seq(Frames)
  BY DEF Base, EventTypes
<1>2. \A m : CallersOf(Break(stack, I), m) = CallersOf(stack, m)
  BY <1>1, BreakElements
<1> QED BY <1>2, CountSame

LEMMA CountEnter ==
  ASSUME Base, CountInv, \/ \E e \in Events : PublishEnter(e)
                         \/ \E s \in Servers : sh_event_handler(s)
  PROVE  CountInv'
<1>1. PICK g \in Frames : stack' = <<g>> \o stack /\ UNCHANGED eventVars /\ g.msg = "none"
  <2>1. CASE \E e \in Events : PublishEnter(e)
    BY <2>1, PublishEnterForm DEF Frames
  <2>2. CASE \E s \in Servers : sh_event_handler(s)
    BY <2>2, HandlerForm DEF Frames
  <2> QED BY <2>1, <2>2
<1> QED BY <1>1, CountPushed DEF eventVars

LEMMA CountPop ==
  ASSUME Base, CountInv, \/ PublishNoMemory \/ PublishDone \/ ExecDone
                         \/ \E s \in Servers : PublishSaveFails(s)
  PROVE  CountInv'
<1>1. Pops /\ queue' = queue
  BY BaseOnTop, PopForms DEF PublishNoMemory, PublishSaveFails, PublishDone, ExecDone, eventVars
<1>2. msg \in [Msgs -> Records] /\ Free.ref = 0
  BY DEF Base, EventTypes, Free
<1>3. \A m \in Msgs : msg'[m].ref = msg[m].ref
  <2>1. CASE PublishNoMemory
    <3>1. \/ msg' = msg
          \/ \E m \in Msgs : msg[m] = Free /\ msg' = [msg EXCEPT ![m] = [ev |-> Top.ev, ref |-> 0]]
      BY <2>1 DEF PublishNoMemory
    <3> QED BY <1>2, <3>1
  <2>2. CASE PublishDone
    <3>1. Top.msg \in Msgs
      BY <2>2, BaseOnTop, PopForms
    <3>2. msg' = [msg EXCEPT ![Top.msg] = IF msg[Top.msg].ref = 0 THEN Free ELSE msg[Top.msg]]
      BY <1>2, <2>2, <3>1 DEF PublishDone
    <3> QED BY <1>2, <3>1, <3>2
  <2>3. CASE ExecDone \/ \E s \in Servers : PublishSaveFails(s)
    BY <2>3 DEF ExecDone, PublishSaveFails, eventVars
  <2> QED BY <2>1, <2>2, <2>3
<1> QED BY <1>1, <1>3, CountPopped

LEMMA CountPublish ==
  ASSUME Base, CountInv, \/ PublishLock
                         \/ \E s \in Servers : PublishSkip(s) \/ PublishSync(s)
  PROVE  CountInv'
<1>0. msg \in [Msgs -> Records] /\ Free.ref = 0
  BY DEF Base, EventTypes, Free
<1>1. CASE PublishLock
  <2>1. PICK m \in Msgs, g \in PubFrames :
           /\ stack # <<>> /\ Top \in PubFrames /\ msg[m] = Free
           /\ msg' = [msg EXCEPT ![m] = [ev |-> Top.ev, ref |-> 0]]
           /\ stack' = <<g>> \o Tail(stack) /\ queue' = queue
    BY <1>1, BaseOnTop, PublishLockForm
  <2>2. g \in Frames /\ ~IsExec(g) /\ ~IsExec(Top)
    BY <2>1 DEF Frames, PubFrames, IsExec
  <2>3. \A n \in Msgs : msg'[n].ref = msg[n].ref
    BY <1>0, <2>1
  <2> QED BY <2>1, <2>2, <2>3, CountReplaced DEF Calling
<1>2. ASSUME NEW s \in Servers, PublishSkip(s) \/ PublishSync(s) PROVE CountInv'
  <2>1. Reaches(s) /\ UNCHANGED eventVars
    BY <1>2 DEF PublishSkip, PublishSync
  <2>2. PICK g \in PubFrames : PubGoesTo(g, s)
    BY <1>2, <2>1, BaseOnTop, GoesToForm DEF PublishSkip, PublishSync
  <2>3. g \in Frames /\ ~IsExec(g) /\ ~IsExec(Top) /\ stack # <<>>
    BY <2>1, <2>2, BaseOnTop, ReachesForm DEF Frames, PubFrames, IsExec
  <2> QED BY <2>1, <2>2, <2>3, CountReplaced DEF Calling, PubGoesTo, eventVars
<1> QED BY <1>1, <1>2

\* A message that goes into a queue has one holder and one reference more.
LEMMA CountSave ==
  ASSUME Base, CountInv, NEW s \in Servers, PublishSave(s)
  PROVE  CountInv'
<1>1. /\ Reaches(s) /\ queue' = [queue EXCEPT ![s] = Append(queue[s], Top.msg)]
      /\ msg' = [msg EXCEPT ![Top.msg].ref = msg[Top.msg].ref + 1]
  BY DEF PublishSave
<1>2. PICK g \in PubFrames : PubGoesTo(g, s)
  BY <1>1, BaseOnTop, GoesToForm DEF PublishSave
<1>3. /\ g \in Frames /\ ~IsExec(g) /\ ~IsExec(Top) /\ stack # <<>>
      /\ stack' = <<g>> \o Tail(stack) /\ Tail(stack) \in Seq(Frames) /\ Top.msg \in Msgs
  BY <1>1, <1>2, BaseOnTop, ReachesForm, TopOf DEF Frames, PubFrames, IsExec, PubGoesTo
<1>4. queue \in [Servers -> Seq(Msgs)] /\ msg \in [Msgs -> Records]
  BY DEF Base, EventTypes
<1> SUFFICES ASSUME NEW m \in Msgs
             PROVE  /\ IsFiniteSet(HoldersOf(queue', m))
                    /\ msg'[m].ref = Cardinality(HoldersOf(queue', m))
                                       + Cardinality(CallersOf(stack', m))
  BY DEF CountInv
<1> DEFINE one == IF Top.msg = m THEN 1 ELSE 0
           l == queue[s]
           r == Append(l, Top.msg)
<1>5. msg'[m].ref = msg[m].ref + one /\ msg[m].ref \in Int
  BY <1>1, <1>3, <1>4 DEF Records
<1>6. /\ l \in Seq(Msgs) /\ r \in Seq(Msgs) /\ queue'[s] = r
      /\ \A t \in Servers : t # s => queue'[t] = queue[t]
  <2>1. l \in Seq(Msgs)
    BY <1>4
  <2> QED BY <1>1, <1>3, <1>4, <2>1, AppendProperties
<1> HIDE DEF r
<1>7. /\ Cardinality(Occurs(m, r)) = Cardinality(Occurs(m, l)) + one
      /\ IsFiniteSet(Occurs(m, l)) /\ IsFiniteSet(Occurs(m, r))
      /\ Cardinality(Occurs(m, l)) \in Nat
  <2>1. Cardinality(Occurs(m, Append(l, Top.msg))) = Cardinality(Occurs(m, l)) + one
    BY <1>3, <1>6, AppendOccurs
  <2>2. /\ IsFiniteSet(Occurs(m, l)) /\ Cardinality(Occurs(m, l)) \in Nat
        /\ IsFiniteSet(Occurs(m, r))
    BY <1>6, OccursFinite
  <2> QED BY <2>1, <2>2 DEF r
<1>8. /\ IsFiniteSet(HoldersOf(queue, m))
      /\ msg[m].ref = Cardinality(HoldersOf(queue, m)) + Cardinality(CallersOf(stack, m))
  BY DEF CountInv
<1>9. /\ IsFiniteSet(HoldersOf(queue', m))
      /\ Cardinality(HoldersOf(queue, m)) \in Nat /\ Cardinality(HoldersOf(queue', m)) \in Nat
      /\ Cardinality(HoldersOf(queue', m)) + Cardinality(Occurs(m, l)) =
           Cardinality(HoldersOf(queue, m)) + Cardinality(Occurs(m, r))
  <2>1. IsFiniteSet(Occurs(m, queue[s])) /\ IsFiniteSet(Occurs(m, queue'[s]))
    BY <1>6, <1>7
  <2>2. /\ IsFiniteSet(HoldersOf(queue', m))
        /\ Cardinality(HoldersOf(queue, m)) \in Nat /\ Cardinality(HoldersOf(queue', m)) \in Nat
        /\ Cardinality(HoldersOf(queue', m)) + Cardinality(Occurs(m, queue[s])) =
             Cardinality(HoldersOf(queue, m)) + Cardinality(Occurs(m, queue'[s]))
    BY <1>6, <1>8, <2>1, HoldersChange
  <2> QED BY <1>6, <2>2
<1>10. /\ Cardinality(CallersOf(stack, m)) \in Nat
       /\ Cardinality(CallersOf(stack', m)) = Cardinality(CallersOf(stack, m))
  <2>1. /\ Cardinality(CallersOf(stack, m)) \in Nat
        /\ Cardinality(CallersOf(stack', m)) + Calling(Top, m)
             = Cardinality(CallersOf(stack, m)) + Calling(g, m)
    BY <1>3, CallersReplaced
  <2>2. Calling(Top, m) = 0 /\ Calling(g, m) = 0
    BY <1>3 DEF Calling
  <2>3. stack' \in Seq(Frames)
    BY <1>3, StackParts
  <2>4. Cardinality(CallersOf(stack', m)) \in Nat
    BY <1>3, <2>3, PushCallers
  <2> QED BY <2>1, <2>2, <2>4
<1>11. one \in Nat
  OBVIOUS
<1> HIDE DEF one, l
<1> QED BY <1>5, <1>7, <1>8, <1>9, <1>10, <1>11

\* A step that makes r of the queue of s keeps the count of m when the change
\* of the count is that of the places in the queue and of the callers.
LEMMA CountMoved ==
  ASSUME Base, CountInv, NEW s \in Servers, NEW r \in Seq(Msgs),
         queue' = [queue EXCEPT ![s] = r], NEW m \in Msgs,
         Cardinality(CallersOf(stack, m)) \in Nat, Cardinality(CallersOf(stack', m)) \in Nat,
         msg'[m].ref \in Int,
         msg'[m].ref + Cardinality(Occurs(m, queue[s])) + Cardinality(CallersOf(stack, m))
           = msg[m].ref + Cardinality(Occurs(m, r)) + Cardinality(CallersOf(stack', m))
  PROVE  /\ IsFiniteSet(HoldersOf(queue', m))
         /\ msg'[m].ref = Cardinality(HoldersOf(queue', m)) + Cardinality(CallersOf(stack', m))
<1>1. /\ queue[s] \in Seq(Msgs) /\ queue'[s] = r /\ msg[m].ref \in Int
      /\ \A t \in Servers : t # s => queue'[t] = queue[t]
  BY DEF Base, EventTypes, Records
<1> DEFINE q2 == queue'
<1> HIDE DEF q2
<1>2. /\ IsFiniteSet(Occurs(m, queue[s])) /\ IsFiniteSet(Occurs(m, q2[s]))
      /\ Cardinality(Occurs(m, q2[s])) = Cardinality(Occurs(m, r))
  BY <1>1, OccursFinite DEF q2
<1>3. /\ IsFiniteSet(HoldersOf(queue, m))
      /\ msg[m].ref = Cardinality(HoldersOf(queue, m)) + Cardinality(CallersOf(stack, m))
  BY DEF CountInv
<1>4. \A t \in Servers : t # s => q2[t] = queue[t]
  BY <1>1 DEF q2
<1>5. /\ IsFiniteSet(HoldersOf(q2, m))
      /\ Cardinality(HoldersOf(queue, m)) \in Nat /\ Cardinality(HoldersOf(q2, m)) \in Nat
      /\ Cardinality(Occurs(m, queue[s])) \in Nat /\ Cardinality(Occurs(m, q2[s])) \in Nat
      /\ Cardinality(HoldersOf(q2, m)) + Cardinality(Occurs(m, queue[s])) =
           Cardinality(HoldersOf(queue, m)) + Cardinality(Occurs(m, q2[s]))
  BY <1>2, <1>3, <1>4, HoldersChange, Zenon
<1>6. msg'[m].ref = Cardinality(HoldersOf(q2, m)) + Cardinality(CallersOf(stack', m))
  <2> DEFINE x == msg'[m].ref
             y == msg[m].ref
             o1 == Cardinality(Occurs(m, queue[s]))
             o2 == Cardinality(Occurs(m, r))
             c1 == Cardinality(CallersOf(stack, m))
             c2 == Cardinality(CallersOf(stack', m))
             h1 == Cardinality(HoldersOf(queue, m))
             h2 == Cardinality(HoldersOf(q2, m))
  <2>1. /\ x \in Int /\ y \in Int /\ o1 \in Nat /\ o2 \in Nat /\ c1 \in Nat /\ c2 \in Nat
        /\ h1 \in Nat /\ h2 \in Nat
    BY <1>1, <1>2, <1>5
  <2>2. x + o1 + c1 = y + o2 + c2 /\ y = h1 + c1 /\ h2 + o1 = h1 + o2
    BY <1>2, <1>3, <1>5
  <2> HIDE DEF x, y, o1, o2, c1, c2, h1, h2
  <2>3. x + o1 + c1 = h1 + c1 + o2 + c2
    BY <2>2
  <2>4. x + o1 = h1 + o2 + c2
    BY <2>1, <2>3
  <2>5. x + o1 = (h2 + o1) + c2
    BY <2>2, <2>4
  <2>6. x = h2 + c2
    BY <2>1, <2>5
  <2> QED BY <2>6 DEF x, h2, c2
<1> QED BY <1>5, <1>6 DEF q2

\* A drain that takes m out of its queue calls its callback or drops the
\* reference.
LEMMA CountTake ==
  ASSUME Base, CountInv, ExecTake
  PROVE  CountInv'
<1>1. PICK s \in Servers, m \in Msgs, g \in ExecFrames : TakeForm(s, m, g)
  BY BaseOnTop, ExecTakeForm
<1> DEFINE r == Tail(queue[s])
           fs == Break(Tail(stack), DrainBreaks(Tail(stack), s))
<1>2. /\ stack # <<>> /\ IsExec(Top) /\ Top.msg = "none" /\ g \in Frames /\ IsExec(g)
      /\ r \in Seq(Msgs) /\ queue[s] = <<m>> \o r /\ queue' = [queue EXCEPT ![s] = r]
      /\ stack' = <<g>> \o fs
      /\ \/ g.msg = m /\ msg' = msg
         \/ g.msg = "none" /\ msg' = [msg EXCEPT ![m] = Release(m, 1)]
  BY <1>1 DEF TakeForm, Frames, ExecFrames, IsExec
<1>3. fs \in Seq(Frames) /\ \A n : CallersOf(fs, n) = CallersOf(Tail(stack), n)
  <2>1. Tail(stack) \in Seq(Frames)
    BY <1>2, TopOf
  <2> QED BY <2>1, BreakFrames, BreakElements
<1>4. msg \in [Msgs -> Records] /\ Base'
  BY BaseTake DEF Base, EventTypes
<1> HIDE DEF fs
<1> SUFFICES ASSUME NEW n \in Msgs
             PROVE  /\ IsFiniteSet(HoldersOf(queue', n))
                    /\ msg'[n].ref = Cardinality(HoldersOf(queue', n))
                                       + Cardinality(CallersOf(stack', n))
  BY DEF CountInv
<1> DEFINE one == IF m = n THEN 1 ELSE 0
<1>5. /\ Cardinality(CallersOf(stack, n)) \in Nat
      /\ Cardinality(CallersOf(stack', n)) \in Nat
      /\ Cardinality(CallersOf(stack', n)) + Calling(Top, n)
           = Cardinality(CallersOf(stack, n)) + Calling(g, n)
  <2>1. stack' \in Seq(Frames)
    BY <1>4 DEF Base, EventTypes
  <2>2. Cardinality(CallersOf(stack', n)) \in Nat
    BY <1>2, <2>1, PushCallers
  <2> QED BY <1>2, <1>3, <2>2, CallersReplaced
<1>6. /\ Cardinality(Occurs(n, r)) \in Nat
      /\ Cardinality(Occurs(n, queue[s])) = Cardinality(Occurs(n, r)) + one
  <2>1. Cardinality(Occurs(n, <<m>> \o r)) = Cardinality(Occurs(n, r)) + one
    BY <1>2, PushOccurs
  <2>2. Cardinality(Occurs(n, r)) \in Nat
    BY <1>2, OccursFinite
  <2> QED BY <1>2, <2>1, <2>2, Zenon
<1>7. Calling(Top, n) = 0
  BY <1>2, EventAssumption DEF Calling
<1>8. msg'[n].ref \in Int /\ msg[n].ref \in Int /\ msg'[n].ref + one = msg[n].ref + Calling(g, n)
  <2>1. CASE g.msg = m /\ msg' = msg
    BY <1>2, <1>4, <2>1 DEF Calling, Records
  <2>2. CASE g.msg = "none" /\ msg' = [msg EXCEPT ![m] = Release(m, 1)]
    <3>1. Calling(g, n) = 0
      BY <2>2, EventAssumption DEF Calling
    <3>2. Release(m, 1) \in Records /\ Release(m, 1).ref = msg[m].ref - 1
      BY <1>4, ReleaseProperties
    <3> QED BY <1>4, <2>2, <3>1, <3>2 DEF Records
  <2> QED BY <1>2, <2>1, <2>2
<1>9. one \in Nat /\ Calling(g, n) \in Nat
  BY DEF Calling
<1> HIDE DEF one
<1>10. msg'[n].ref + Cardinality(Occurs(n, queue[s])) + Cardinality(CallersOf(stack, n))
         = msg[n].ref + Cardinality(Occurs(n, r)) + Cardinality(CallersOf(stack', n))
  BY <1>5, <1>6, <1>7, <1>8, <1>9
<1> QED BY <1>2, <1>5, <1>8, <1>10, CountMoved

\* Clearing a queue drops as many references as a message has places in it.
LEMMA CountClear ==
  ASSUME Base, CountInv, NEW s \in Servers, sh_event_server_clear_msg(s)
  PROVE  CountInv'
<1>1. /\ queue' = [queue EXCEPT ![s] = <<>>] /\ msg' = Cleared(s)
      /\ \E I : stack' = Break(stack, I)
  BY DEF sh_event_server_clear_msg
<1>2. /\ queue[s] \in Seq(Msgs) /\ <<>> \in Seq(Msgs) /\ msg \in [Msgs -> Records]
      /\ stack \in Seq(Frames)
  BY EmptySeq DEF Base, EventTypes
<1> SUFFICES ASSUME NEW m \in Msgs
             PROVE  /\ IsFiniteSet(HoldersOf(queue', m))
                    /\ msg'[m].ref = Cardinality(HoldersOf(queue', m))
                                       + Cardinality(CallersOf(stack', m))
  BY DEF CountInv
<1> DEFINE n == Cardinality(Occurs(m, queue[s]))
<1>3. n \in Nat
  BY <1>2, OccursFinite
<1>4. Cardinality(Occurs(m, <<>>)) = 0
  <2>1. Occurs(m, <<>>) = {}
    BY DEF Occurs
  <2> QED BY <2>1, FS_EmptySet
<1>5. msg'[m] = IF n = 0 THEN msg[m] ELSE Release(m, n)
  BY <1>1 DEF Cleared
<1>6. msg'[m].ref = msg[m].ref - n /\ msg[m].ref \in Int
  <2> HIDE DEF n
  <2>1. msg[m].ref \in Int
    BY <1>2 DEF Records
  <2>2. n \in Int
    BY <1>3
  <2>3. Release(m, n).ref = msg[m].ref - n
    BY <1>2, <2>2, ReleaseProperties
  <2> QED BY <1>3, <1>5, <2>1, <2>3
<1>7. /\ Cardinality(CallersOf(stack', m)) = Cardinality(CallersOf(stack, m))
      /\ Cardinality(CallersOf(stack, m)) \in Nat
  <2>1. \A I : CallersOf(Break(stack, I), m) = CallersOf(stack, m)
    BY <1>2, BreakElements
  <2>2. Cardinality(CallersOf(stack, m)) \in Nat
    BY <1>2, CallersFinite
  <2> QED BY <1>1, <2>1, <2>2
<1>8. msg'[m].ref + n + Cardinality(CallersOf(stack, m))
        = msg[m].ref + Cardinality(Occurs(m, <<>>)) + Cardinality(CallersOf(stack', m))
  <2> HIDE DEF n
  <2> QED BY <1>3, <1>4, <1>6, <1>7
<1>9. msg'[m].ref \in Int
  <2> HIDE DEF n
  <2> QED BY <1>3, <1>6
<1> QED BY <1>1, <1>2, <1>7, <1>8, <1>9, CountMoved

\* A callback returns: a drain's reference goes with it.
LEMMA CountExec ==
  ASSUME Base, CountInv, ExecLock \/ CbReturn
  PROVE  CountInv'
<1>1. CASE ExecLock
  <2>1. PICK g \in ExecFrames :
           /\ stack # <<>> /\ Top \in ExecFrames /\ IsExec(Top) /\ Top.pc = "check"
           /\ g.msg = "none" /\ stack' = <<g>> \o Tail(stack) /\ UNCHANGED eventVars
    BY <1>1, BaseOnTop, ExecLockForm
  <2>2. g \in Frames /\ Top.msg = "none"
    BY <2>1, TopOf DEF Frames, FrameOK
  <2>3. \A m \in Msgs : Calling(g, m) = 0 /\ Calling(Top, m) = 0
    BY <2>1, <2>2, EventAssumption DEF Calling
  <2> QED BY <2>1, <2>2, <2>3, CountReplaced DEF eventVars
<1>2. CASE CbReturn
  <2>1. stack # <<>> /\ queue' = queue
    BY <1>2, BaseOnTop, CbReturnForm
  <2>2. CASE \E g \in PubFrames :
               /\ Top \in PubFrames
               /\ stack' = <<g>> \o Tail(stack) /\ msg' = msg
    <3>1. PICK g \in PubFrames : Top \in PubFrames /\ stack' = <<g>> \o Tail(stack) /\ msg' = msg
      BY <2>2
    <3>2. g \in Frames /\ ~IsExec(g) /\ ~IsExec(Top)
      BY <3>1 DEF Frames, PubFrames, IsExec
    <3> QED BY <2>1, <3>1, <3>2, CountReplaced DEF Calling
  <2>3. CASE \E g \in ExecFrames :
               /\ IsExec(Top) /\ Top.msg \in Msgs /\ g.msg = "none"
               /\ stack' = <<g>> \o Tail(stack)
               /\ msg' = [msg EXCEPT ![Top.msg] = Release(Top.msg, 1)]
    <3>1. PICK g \in ExecFrames :
               /\ IsExec(Top) /\ Top.msg \in Msgs /\ g.msg = "none"
               /\ stack' = <<g>> \o Tail(stack)
               /\ msg' = [msg EXCEPT ![Top.msg] = Release(Top.msg, 1)]
      BY <2>3
    <3>2. g \in Frames /\ Tail(stack) \in Seq(Frames) /\ msg \in [Msgs -> Records]
      BY <2>1, TopOf DEF Frames, Base, EventTypes
    <3>3. Release(Top.msg, 1) \in Records /\ Release(Top.msg, 1).ref = msg[Top.msg].ref - 1
      BY <3>1, <3>2, ReleaseProperties
    <3> SUFFICES ASSUME NEW m \in Msgs
                 PROVE  /\ IsFiniteSet(HoldersOf(queue, m))
                        /\ msg'[m].ref = Cardinality(HoldersOf(queue, m))
                                           + Cardinality(CallersOf(stack', m))
      BY <2>1 DEF CountInv
    <3> DEFINE h  == Cardinality(HoldersOf(queue, m))
               c1 == Cardinality(CallersOf(stack, m))
               c2 == Cardinality(CallersOf(stack', m))
               one == Calling(Top, m)
               x == msg'[m].ref
               y == msg[m].ref
    <3>4. IsFiniteSet(HoldersOf(queue, m)) /\ h \in Nat /\ y = h + c1
      BY FS_CardinalityType DEF CountInv
    <3>5. c1 \in Nat /\ c2 + one = c1 + Calling(g, m)
      BY <2>1, <3>1, <3>2, CallersReplaced
    <3>6. stack' \in Seq(Frames)
      BY <3>1, <3>2, StackParts
    <3>7. c2 \in Nat
      BY <3>6, CallersFinite
    <3>8. Calling(g, m) = 0
      BY <3>1, EventAssumption DEF Calling
    <3>9. y \in Int /\ x = y - one /\ one \in Nat
      BY <3>1, <3>2, <3>3 DEF Calling, Records
    <3> HIDE DEF h, c1, c2, one, x, y
    <3>10. x = h + c2
      BY <3>4, <3>5, <3>7, <3>8, <3>9
    <3> QED BY <3>4, <3>10 DEF h, c2, x
  <2> QED BY <1>2, <2>2, <2>3, BaseOnTop, CbReturnForm
<1> QED BY <1>1, <1>2

LEMMA CountInit == EventInit => CountInv
<1> SUFFICES ASSUME EventInit, NEW m \in Msgs
             PROVE  /\ IsFiniteSet(HoldersOf(queue, m))
                    /\ msg[m].ref = Cardinality(HoldersOf(queue, m))
                                      + Cardinality(CallersOf(stack, m))
  BY DEF CountInv
<1>1. HoldersOf(queue, m) = {} /\ CallersOf(stack, m) = {}
  <2>1. DOMAIN <<>> = {}
    OBVIOUS
  <2> QED BY <2>1 DEF HoldersOf, CallersOf, Occurs, EventInit, IsrInit
<1>2. msg[m].ref = 0
  BY DEF EventInit, Free
<1>3. IsFiniteSet({}) /\ Cardinality({}) = 0
  BY FS_EmptySet
<1> QED BY <1>1, <1>2, <1>3

LEMMA CountStep == Base /\ CountInv /\ [EventNext]_allEventVars => CountInv'
<1> SUFFICES ASSUME Base, CountInv, [EventNext]_allEventVars PROVE CountInv'
  OBVIOUS
<1>0. ASSUME queue' = queue, msg' = msg, stack' = stack PROVE CountInv'
  BY <1>0 DEF CountInv
<1>1. CASE UNCHANGED allEventVars
  BY <1>0, <1>1 DEF allEventVars, eventVars, isrVars
<1>2. CASE EventSteps
  BY <1>2, CountPublish, CountSave, CountExec, CountTake, CountPop DEF EventSteps
<1>3. CASE sh_event_map_create \/ sh_event_map_destroy
  BY <1>0, <1>3, BaseQuiet
<1>4. ASSUME NEW s \in Servers,
             \/ sh_event_server_create(s) \/ sh_event_server_destroy(s)
             \/ sh_event_server_start(s)  \/ sh_event_server_stop(s)
             \/ sh_event_unsubscribe_all(s)
             \/ sh_event_handler(s)       \/ sh_event_server_clear_msg(s)
      PROVE  CountInv'
  <2>1. CASE sh_event_server_create(s) \/ sh_event_server_start(s) \/ sh_event_server_stop(s)
    BY <1>0, <2>1, BaseQuiet
  <2>2. CASE sh_event_server_destroy(s)
    BY <2>2, CountBroken DEF sh_event_server_destroy
  <2>3. CASE sh_event_unsubscribe_all(s)
    BY <2>3, CountBroken DEF sh_event_unsubscribe_all, Unlink
  <2>4. CASE sh_event_handler(s)
    BY <2>4, CountEnter
  <2>5. CASE sh_event_server_clear_msg(s)
    BY <2>5, CountClear
  <2> QED BY <1>4, <2>1, <2>2, <2>3, <2>4, <2>5
<1>5. ASSUME NEW s \in Servers, NEW e \in Events,
             \/ sh_event_subscribe(s, e) \/ sh_event_subscribe_sync(s, e)
             \/ sh_event_unsubscribe(s, e)
      PROVE  CountInv'
  <2>1. CASE sh_event_subscribe(s, e) \/ sh_event_subscribe_sync(s, e)
    BY <1>0, <2>1, BaseQuiet DEF sh_event_subscribe, sh_event_subscribe_sync
  <2>2. CASE sh_event_unsubscribe(s, e)
    BY <2>2, CountBroken DEF sh_event_unsubscribe, Unlink
  <2> QED BY <1>5, <2>1, <2>2
<1>6. ASSUME NEW e \in Events, sh_event_publish(e) PROVE CountInv'
  BY <1>6, CountEnter DEF sh_event_publish
<1> QED BY <1>1, <1>2, <1>3, <1>4, <1>5, <1>6 DEF EventNext

LEMMA BaseAlways == EventSpec => [](Base /\ CountInv)
<1>1. EventInit => Base /\ CountInv
  BY BaseInit, CountInit
<1>2. Base /\ CountInv /\ [EventNext]_allEventVars => (Base /\ CountInv)'
  BY BaseStep, CountStep
<1> QED BY <1>1, <1>2, PTL DEF EventSpec, allEventVars

(***************************************************************************)
(* The reference count of every message is the number of queue nodes that  *)
(* point to it and of drains inside its callback, whatever callbacks and   *)
(* interrupts do (sh_event_server_save_msg, _sh_event_execute,             *)
(* sh_event_server_clear_msg).                                             *)
(***************************************************************************)
THEOREM EventRefCountCorrect == EventSpec => []RefCounted
<1>1. CountInv => RefCounted
  BY DEF CountInv, RefCounted, HoldersOf, Holders, CallersOf, Callers
<1> QED BY <1>1, BaseAlways, PTL

(***************************************************************************)
(* The variables have their types.  A count is never negative because it   *)
(* counts something: Base alone says that it is an integer.                *)
(***************************************************************************)
THEOREM EventTypeCorrect == EventSpec => []TypeOK
<1>1. Base /\ CountInv => TypeOK
  <2> SUFFICES ASSUME Base, CountInv PROVE TypeOK
    OBVIOUS
  <2>1. stack \in Seq(Frames) /\ msg \in [Msgs -> Records]
    BY DEF Base, EventTypes
  <2>2. ASSUME NEW m \in Msgs PROVE msg[m] \in [ev : Events \cup {"none"}, ref : Nat]
    <3>1. Cardinality(HoldersOf(queue, m)) \in Nat /\ Cardinality(CallersOf(stack, m)) \in Nat
      BY <2>1, FS_CardinalityType, CallersFinite DEF CountInv
    <3>2. msg[m].ref \in Nat
      BY <3>1 DEF CountInv
    <3> QED BY <2>1, <3>2 DEF Records
  <2>3. msg \in [Msgs -> [ev : Events \cup {"none"}, ref : Nat]]
    BY <2>1, <2>2
  <2> QED BY <2>1, <2>3 DEF TypeOK, Base, EventTypes, Frames
<1> QED BY <1>1, BaseAlways, PTL

-----------------------------------------------------------------------------
(***************************************************************************)
(* Interrupts are off exactly while some frame has them disabled.          *)
(***************************************************************************)
\* Frames keep their places, their levels and whether they are locked.
LEMMA AlikeKeepsMask ==
  ASSUME MaskDiscipline, masked' = masked, DOMAIN stack' = DOMAIN stack,
         \A i \in DOMAIN stack : /\ Locked(stack'[i]) <=> Locked(stack[i])
                                 /\ stack'[i].level = stack[i].level
  PROVE  MaskDiscipline'
BY DEF MaskDiscipline, Locked

LEMMA BreakKeepsMask ==
  ASSUME Base, MaskDiscipline, NEW I, stack' = Break(stack, I), masked' = masked
  PROVE  MaskDiscipline'
<1>1. stack \in Seq(Frames)
  BY DEF Base, EventTypes
<1>2. /\ DOMAIN Break(stack, I) = DOMAIN stack
      /\ \A i \in DOMAIN stack : AlikeExceptOk(stack[i], Break(stack, I)[i])
  BY <1>1, BreakFrames
<1>3. \A i \in DOMAIN stack : /\ Locked(stack'[i]) <=> Locked(stack[i])
                              /\ stack'[i].level = stack[i].level
  BY <1>2 DEF AlikeExceptOk
<1> QED BY <1>2, <1>3, AlikeKeepsMask

LEMMA TopKeepsMask ==
  ASSUME Base, MaskDiscipline, stack # <<>>, NEW g \in Frames, stack' = <<g>> \o Tail(stack),
         \/ Locked(Top) /\ Locked(g) /\ g.level = Top.level /\ masked' = masked
         \/ ~Locked(Top) /\ Locked(g) /\ g.level = masked /\ masked' = TRUE
  PROVE  MaskDiscipline'
<1>1. stack \in Seq(Frames) /\ stack' = [stack EXCEPT ![1] = g]
  BY TopOf DEF Base, EventTypes
<1>2. CASE Locked(Top) /\ Locked(g) /\ g.level = Top.level /\ masked' = masked
  <2>1. Goto(g)
    BY <1>1, <1>2 DEF Goto
  <2> QED BY <1>1, <1>2, <2>1, GotoKeepsMask
<1>3. CASE ~Locked(Top) /\ Locked(g) /\ g.level = masked /\ masked' = TRUE
  <2>1. [g EXCEPT !.level = masked] = g
    BY <1>3 DEF Frames, PubFrames, ExecFrames
  <2>2. sh_isr_disable(g)
    BY <1>1, <1>3, <2>1 DEF sh_isr_disable
  <2> QED BY <1>1, <1>3, <2>1, <2>2, DisableKeepsMask
<1> QED BY <1>2, <1>3

LEMMA TakeKeepsMask ==
  ASSUME Base, MaskDiscipline, ExecTake
  PROVE  MaskDiscipline'
<1>1. PICK s \in Servers, m \in Msgs, g \in ExecFrames : TakeForm(s, m, g)
  BY BaseOnTop, ExecTakeForm
<1> DEFINE t == Tail(stack)
           r == Break(t, DrainBreaks(t, s))
<1>2. /\ stack # <<>> /\ Top.pc = "loop" /\ g \in Frames /\ Locked(g) /\ g.level = Top.level
      /\ stack' = <<g>> \o r /\ masked' = masked
  BY <1>1 DEF TakeForm, Frames
<1>3. Top \in Frames /\ t \in Seq(Frames) /\ stack = <<Top>> \o t /\ Locked(Top)
  BY <1>2, TopOf DEF Locked
<1> HIDE DEF t
<1>4. /\ r \in Seq(Frames) /\ Len(r) = Len(t)
      /\ \A i \in DOMAIN t : AlikeExceptOk(t[i], r[i])
  BY <1>3, BreakFrames
<1> HIDE DEF r
<1>5. /\ DOMAIN stack = 1 .. Len(t) + 1 /\ stack[1] = Top
      /\ \A i \in 1 .. Len(t) + 1 : i # 1 => i - 1 \in 1 .. Len(t) /\ stack[i] = t[i - 1]
  <2>1. /\ DOMAIN (<<Top>> \o t) = 1 .. Len(t) + 1 /\ (<<Top>> \o t)[1] = Top
        /\ \A i \in 1 .. Len(t) + 1 : i # 1 => i - 1 \in 1 .. Len(t) /\ (<<Top>> \o t)[i] = t[i - 1]
    BY <1>3, PushSeq
  <2> QED BY <1>3, <2>1, Zenon
<1>6. /\ DOMAIN stack' = 1 .. Len(t) + 1 /\ stack'[1] = g
      /\ \A i \in 1 .. Len(t) + 1 : i # 1 => i - 1 \in 1 .. Len(t) /\ stack'[i] = r[i - 1]
  <2>1. /\ DOMAIN (<<g>> \o r) = 1 .. Len(r) + 1 /\ (<<g>> \o r)[1] = g
        /\ \A i \in 1 .. Len(r) + 1 : i # 1 => i - 1 \in 1 .. Len(r) /\ (<<g>> \o r)[i] = r[i - 1]
    BY <1>2, <1>4, PushSeq
  <2> QED BY <1>2, <1>4, <2>1
<1>7. DOMAIN t = 1 .. Len(t)
  BY <1>3, LenProperties
<1>8. ASSUME NEW i \in DOMAIN stack
      PROVE  /\ Locked(stack'[i]) <=> Locked(stack[i])
             /\ stack'[i].level = stack[i].level
  <2>1. CASE i = 1
    BY <1>2, <1>3, <1>5, <1>6, <2>1
  <2>2. CASE i # 1
    <3>1. stack[i] = t[i - 1] /\ stack'[i] = r[i - 1] /\ i - 1 \in DOMAIN t
      BY <1>5, <1>6, <1>7, <2>2
    <3> QED BY <1>4, <3>1 DEF AlikeExceptOk
  <2> QED BY <2>1, <2>2
<1> QED BY <1>2, <1>5, <1>6, <1>8, AlikeKeepsMask

LEMMA MaskLibraryStep ==
  ASSUME Base, MaskDiscipline, EventSteps
  PROVE  MaskDiscipline'
<1>0. stack \in Seq(Frames)
  BY DEF Base, EventTypes
<1>1. CASE PublishLock
  <2>1. PICK g \in PubFrames : /\ stack # <<>> /\ Top.pc = "check" /\ g.pc = "loop"
                               /\ g.level = masked /\ stack' = <<g>> \o Tail(stack)
                               /\ masked' = TRUE
    BY <1>1, BaseOnTop, PublishLockForm
  <2> QED BY <2>1, TopKeepsMask DEF Locked, Frames
<1>2. CASE PublishNoMemory
  BY <1>0, <1>2, BaseOnTop, PopForms, LeaveKeepsMask DEF Pops
<1>3. CASE PublishDone
  BY <1>0, <1>3, BaseOnTop, PopForms, EnableKeepsMask DEF Pops, PublishDone
<1>4. ASSUME NEW s \in Servers, PublishSkip(s) \/ PublishSync(s) \/ PublishSave(s)
      PROVE  MaskDiscipline'
  <2>1. Reaches(s)
    BY <1>4 DEF PublishSkip, PublishSync, PublishSave
  <2>2. PICK g \in PubFrames : PubGoesTo(g, s)
    BY <1>4, <2>1, BaseOnTop, GoesToForm DEF PublishSkip, PublishSync, PublishSave
  <2>3. stack # <<>> /\ Locked(Top)
    BY <2>1, BaseOnTop, ReachesForm
  <2> QED BY <2>2, <2>3, TopKeepsMask DEF PubGoesTo, Frames
<1>5. ASSUME NEW s \in Servers, PublishSaveFails(s) PROVE MaskDiscipline'
  <2>1. Pops /\ Locked(Top)
    BY <1>5, BaseOnTop, PopForms
  <2> QED BY <1>0, <1>5, <2>1, EnableKeepsMask DEF Pops, PublishSaveFails
<1>6. CASE ExecLock
  <2>1. PICK g \in ExecFrames : /\ stack # <<>> /\ Top.pc = "check" /\ g.pc = "loop"
                                /\ g.level = masked /\ stack' = <<g>> \o Tail(stack)
                                /\ masked' = TRUE
    BY <1>6, BaseOnTop, ExecLockForm
  <2> QED BY <2>1, TopKeepsMask DEF Locked, Frames
<1>7. CASE ExecTake
  BY <1>7, TakeKeepsMask
<1>8. CASE ExecDone
  BY <1>0, <1>8, BaseOnTop, PopForms, EnableKeepsMask DEF Pops, ExecDone
<1>9. CASE CbReturn
  <2>1. stack # <<>> /\ masked' = masked /\ Top.pc = "cb"
    BY <1>9, BaseOnTop, CbReturnForm DEF CbReturn
  <2>2. PICK g \in Frames : /\ g.pc = "loop" /\ g.level = Top.level
                            /\ stack' = <<g>> \o Tail(stack)
    BY <1>9, BaseOnTop, CbReturnForm DEF Frames
  <2> QED BY <2>1, <2>2, TopKeepsMask DEF Locked
<1> QED BY <1>1, <1>2, <1>3, <1>4, <1>5, <1>6, <1>7, <1>8, <1>9 DEF EventSteps

LEMMA MaskEventStep ==
  Base /\ MaskDiscipline /\ [EventNext]_allEventVars => MaskDiscipline'
<1> SUFFICES ASSUME Base, MaskDiscipline, [EventNext]_allEventVars PROVE MaskDiscipline'
  OBVIOUS
<1>0. ASSUME stack' = stack, masked' = masked PROVE MaskDiscipline'
  BY <1>0 DEF MaskDiscipline
<1>1. CASE UNCHANGED allEventVars
  BY <1>0, <1>1 DEF allEventVars, isrVars
<1>2. CASE EventSteps
  BY <1>2, MaskLibraryStep
<1>3. CASE sh_event_map_create \/ sh_event_map_destroy
  BY <1>0, <1>3, BaseQuiet
<1>7. ASSUME \/ \E e \in Events : PublishEnter(e)
             \/ \E s \in Servers : sh_event_handler(s)
      PROVE  MaskDiscipline'
  <2>1. PICK g \in Frames : stack' = <<g>> \o stack /\ masked' = masked /\ g.pc = "check"
    <3>1. CASE \E e \in Events : PublishEnter(e)
      BY <3>1, PublishEnterForm DEF Frames
    <3>2. CASE \E s \in Servers : sh_event_handler(s)
      BY <3>2, HandlerForm DEF Frames
    <3> QED BY <1>7, <3>1, <3>2
  <2>2. Enter(g) /\ ~Locked(g) /\ stack \in Seq(Frames)
    BY <2>1 DEF Enter, Locked, Base, EventTypes
  <2> QED BY <2>2, EnterKeepsMask
<1>4. ASSUME NEW s \in Servers,
             \/ sh_event_server_create(s) \/ sh_event_server_destroy(s)
             \/ sh_event_server_start(s)  \/ sh_event_server_stop(s)
             \/ sh_event_unsubscribe_all(s)
             \/ sh_event_handler(s)       \/ sh_event_server_clear_msg(s)
      PROVE  MaskDiscipline'
  <2>1. CASE sh_event_server_create(s) \/ sh_event_server_start(s) \/ sh_event_server_stop(s)
    BY <1>0, <2>1, BaseQuiet
  <2>2. CASE sh_event_server_destroy(s)
    BY <2>2, BreakKeepsMask DEF sh_event_server_destroy
  <2>3. CASE sh_event_unsubscribe_all(s)
    BY <2>3, BreakKeepsMask DEF sh_event_unsubscribe_all, Unlink
  <2>4. CASE sh_event_handler(s)
    BY <1>7, <2>4
  <2>5. CASE sh_event_server_clear_msg(s)
    BY <2>5, BreakKeepsMask DEF sh_event_server_clear_msg
  <2> QED BY <1>4, <2>1, <2>2, <2>3, <2>4, <2>5
<1>5. ASSUME NEW s \in Servers, NEW e \in Events,
             \/ sh_event_subscribe(s, e) \/ sh_event_subscribe_sync(s, e)
             \/ sh_event_unsubscribe(s, e)
      PROVE  MaskDiscipline'
  <2>1. CASE sh_event_subscribe(s, e) \/ sh_event_subscribe_sync(s, e)
    BY <1>0, <2>1, BaseQuiet DEF sh_event_subscribe, sh_event_subscribe_sync
  <2>2. CASE sh_event_unsubscribe(s, e)
    BY <2>2, BreakKeepsMask DEF sh_event_unsubscribe, Unlink
  <2> QED BY <1>5, <2>1, <2>2
<1>6. ASSUME NEW e \in Events, sh_event_publish(e) PROVE MaskDiscipline'
  BY <1>6, <1>7 DEF sh_event_publish
<1> QED BY <1>1, <1>2, <1>3, <1>4, <1>5, <1>6 DEF EventNext

(***************************************************************************)
(* The event bus keeps the discipline of sh_isr.c: however publications,   *)
(* drains and callbacks nest, interrupts are off exactly while one of them *)
(* needs them off, and come back when the outermost returns.               *)
(***************************************************************************)
THEOREM EventMaskCorrect == EventSpec => []MaskDiscipline
<1>1. EventInit => Base /\ MaskDiscipline
  <2>1. DOMAIN <<>> = {}
    OBVIOUS
  <2>2. EventInit => MaskDiscipline
    BY <2>1 DEF EventInit, IsrInit, MaskDiscipline
  <2> QED BY <2>2, BaseInit
<1>2. Base /\ MaskDiscipline /\ [EventNext]_allEventVars => (Base /\ MaskDiscipline)'
  BY BaseStep, MaskEventStep
<1> QED BY <1>1, <1>2, PTL DEF EventSpec, allEventVars

-----------------------------------------------------------------------------
(***************************************************************************)
(* The two records of a subscription agree.                                *)
(***************************************************************************)
\* Without a map there is no server: this is what makes an empty list of
\* subscribers right for a new map.
SubsInv ==
  /\ \A s \in Servers, e \in Events :
       /\ OnList(subs[e], s) <=> mode[s][e] # "none"
       /\ OnList(subs[e], s) => Live(s)
  /\ \A e \in Events : Once(subs[e])
  /\ ~map => \A s \in Servers : ~Live(s)

LEMMA SubsLibraryStep ==
  ASSUME EventSteps
  PROVE  UNCHANGED <<map, server, subs, mode>>
BY DEF EventSteps, PublishLock, PublishNoMemory, PublishDone, PublishSkip, PublishSync,
   PublishSave, PublishSaveFails, ExecLock, ExecTake, ExecDone, CbReturn, eventVars

LEMMA SubsRemoved ==
  ASSUME Base, SubsInv, NEW s \in Servers, NEW E \in SUBSET Events,
         NEW ns, ns = [e \in Events |-> IF e \in E THEN sh_list_remove(subs[e], s) ELSE subs[e]]
  PROVE  \A e \in Events :
           /\ Once(ns[e])
           /\ \A t \in Servers : OnList(ns[e], t) <=> OnList(subs[e], t) /\ ~(t = s /\ e \in E)
<1> SUFFICES ASSUME NEW e \in Events
             PROVE  /\ Once(ns[e])
                    /\ \A t \in Servers :
                         OnList(ns[e], t) <=> OnList(subs[e], t) /\ ~(t = s /\ e \in E)
  OBVIOUS
<1>1. subs[e] \in Seq(Servers) /\ Once(subs[e])
  BY DEF Base, EventTypes, SubsInv
<1>2. CASE e \in E
  <2>1. ns[e] = sh_list_remove(subs[e], s)
    BY <1>2
  <2>2. /\ \A y : y # s => (OnList(sh_list_remove(subs[e], s), y) <=> OnList(subs[e], y))
        /\ ~OnList(sh_list_remove(subs[e], s), s) /\ Once(sh_list_remove(subs[e], s))
    BY <1>1, RemoveProperties
  <2> QED BY <1>2, <2>1, <2>2
<1>3. CASE e \notin E
  BY <1>1, <1>3
<1> QED BY <1>2, <1>3

LEMMA SubsUnlink ==
  ASSUME Base, SubsInv, NEW s \in Servers, NEW E \in SUBSET Events, Unlink(s, E)
  PROVE  SubsInv'
<1>1. /\ subs' = [e \in Events |-> IF e \in E THEN sh_list_remove(subs[e], s) ELSE subs[e]]
      /\ mode' = [mode EXCEPT ![s] = [e \in Events |-> IF e \in E THEN "none" ELSE mode[s][e]]]
      /\ server' = server /\ map' = map
  BY DEF Unlink, Base, EventTypes
<1>2. \A e \in Events :
        /\ Once(subs'[e])
        /\ \A t \in Servers : OnList(subs'[e], t) <=> OnList(subs[e], t) /\ ~(t = s /\ e \in E)
  BY <1>1, SubsRemoved
<1>3. \A t \in Servers, e \in Events :
        mode'[t][e] = IF t = s /\ e \in E THEN "none" ELSE mode[t][e]
  BY <1>1 DEF Base, EventTypes
<1> QED BY <1>1, <1>2, <1>3 DEF SubsInv, Live

LEMMA SubsDestroy ==
  ASSUME Base, SubsInv, NEW s \in Servers, sh_event_server_destroy(s)
  PROVE  SubsInv'
<1>1. /\ subs' = [e \in Events |-> sh_list_remove(subs[e], s)]
      /\ mode' = [mode EXCEPT ![s] = [e \in Events |-> "none"]]
      /\ server' = [server EXCEPT ![s] = IF queue[s] = <<>> THEN "absent" ELSE "freed"]
      /\ map' = map
  BY DEF sh_event_server_destroy
<1>2. subs' = [e \in Events |-> IF e \in Events THEN sh_list_remove(subs[e], s) ELSE subs[e]]
  BY <1>1
<1>3. \A e \in Events :
        /\ Once(subs'[e])
        /\ \A t \in Servers : OnList(subs'[e], t) <=> OnList(subs[e], t) /\ ~(t = s /\ e \in Events)
  BY <1>2, SubsRemoved
<1>4. \A t \in Servers, e \in Events : mode'[t][e] = IF t = s THEN "none" ELSE mode[t][e]
  BY <1>1 DEF Base, EventTypes
<1>5. \A t \in Servers : /\ t # s => server'[t] = server[t]
                         /\ t = s => server'[t] \notin {"stopped", "started"}
  BY <1>1 DEF Base, EventTypes
<1> QED BY <1>1, <1>3, <1>4, <1>5 DEF SubsInv, Live

LEMMA SubsSubscribe ==
  ASSUME Base, SubsInv, NEW s \in Servers, NEW e \in Events, NEW m \in {"async", "sync"},
         Subscribe(s, e, m)
  PROVE  SubsInv'
<1>1. /\ Live(s) /\ ~OnList(subs[e], s)
      /\ subs' = [subs EXCEPT ![e] = Append(subs[e], s)]
      /\ mode' = [mode EXCEPT ![s][e] = m] /\ server' = server /\ map' = map
  BY DEF Subscribe, Subscribed
<1>2. subs \in [Events -> Seq(Servers)] /\ subs[e] \in Seq(Servers) /\ Once(subs[e])
  BY DEF Base, EventTypes, SubsInv
<1>3. /\ \A y : OnList(Append(subs[e], s), y) <=> y = s \/ OnList(subs[e], y)
      /\ Once(Append(subs[e], s))
  BY <1>1, <1>2, AppendOnceProperties
<1>4. \A x \in Events : subs'[x] = IF x = e THEN Append(subs[e], s) ELSE subs[x]
  BY <1>1, <1>2
<1>5. \A t \in Servers, x \in Events :
        mode'[t][x] = IF t = s /\ x = e THEN m ELSE mode[t][x]
  BY <1>1 DEF Base, EventTypes
<1>6. \A x \in Events : Once(subs'[x])
  BY <1>3, <1>4 DEF SubsInv
<1>7. \A t \in Servers, x \in Events :
        OnList(subs'[x], t) <=> OnList(subs[x], t) \/ (t = s /\ x = e)
  BY <1>3, <1>4
<1> QED BY <1>1, <1>5, <1>6, <1>7 DEF SubsInv, Live

LEMMA SubsServers ==
  ASSUME Base, SubsInv, NEW s \in Servers,
         sh_event_server_create(s) \/ sh_event_server_start(s) \/ sh_event_server_stop(s)
  PROVE  SubsInv'
<1>1. CASE sh_event_server_create(s)
  <2>1. /\ map' = map /\ map /\ subs' = subs /\ server[s] = "absent"
        /\ server' = [server EXCEPT ![s] = "stopped"]
        /\ mode' = [mode EXCEPT ![s] = [e \in Events |-> "none"]]
    BY <1>1 DEF sh_event_server_create
  <2>2. \A e \in Events : ~OnList(subs[e], s)
    BY <2>1 DEF SubsInv, Live
  <2>3. \A t \in Servers, e \in Events : mode'[t][e] = IF t = s THEN "none" ELSE mode[t][e]
    BY <2>1 DEF Base, EventTypes
  <2>4. \A t \in Servers : t # s => server'[t] = server[t]
    BY <2>1 DEF Base, EventTypes
  <2> QED BY <2>1, <2>2, <2>3, <2>4 DEF SubsInv, Live
<1>2. CASE sh_event_server_start(s) \/ sh_event_server_stop(s)
  <2>1. map' = map /\ subs' = subs /\ mode' = mode
    BY <1>2 DEF sh_event_server_start, sh_event_server_stop
  <2>2. \A t \in Servers : Live(t)' <=> Live(t)
    BY <1>2 DEF sh_event_server_start, sh_event_server_stop, Base, EventTypes, Live
  <2> QED BY <2>1, <2>2 DEF SubsInv
<1> QED BY <1>1, <1>2

LEMMA SubsMap ==
  ASSUME SubsInv, sh_event_map_create \/ sh_event_map_destroy
  PROVE  SubsInv'
<1>1. CASE sh_event_map_create
  <2>1. /\ ~map /\ map' /\ subs' = [e \in Events |-> <<>>] /\ server' = server /\ mode' = mode
    BY <1>1 DEF sh_event_map_create
  <2>2. \A s : ~OnList(<<>>, s)
    BY DEF OnList
  <2>3. Once(<<>>)
    BY DEF Once
  <2>4. \A s \in Servers, e \in Events : mode[s][e] = "none"
    BY <2>1 DEF SubsInv
  <2> QED BY <2>1, <2>2, <2>3, <2>4 DEF SubsInv, Live
<1>2. CASE sh_event_map_destroy
  BY <1>2 DEF sh_event_map_destroy, SubsInv, Live
<1> QED BY <1>1, <1>2

LEMMA SubsStep == Base /\ SubsInv /\ [EventNext]_allEventVars => SubsInv'
<1> SUFFICES ASSUME Base, SubsInv, [EventNext]_allEventVars PROVE SubsInv'
  OBVIOUS
<1>0. ASSUME UNCHANGED <<map, server, subs, mode>> PROVE SubsInv'
  BY <1>0 DEF SubsInv, Live
<1>1. CASE UNCHANGED allEventVars
  BY <1>0, <1>1 DEF allEventVars, eventVars
<1>2. CASE EventSteps
  BY <1>0, <1>2, SubsLibraryStep
<1>3. CASE sh_event_map_create \/ sh_event_map_destroy
  BY <1>3, SubsMap
<1>4. ASSUME NEW s \in Servers,
             \/ sh_event_server_create(s) \/ sh_event_server_destroy(s)
             \/ sh_event_server_start(s)  \/ sh_event_server_stop(s)
             \/ sh_event_unsubscribe_all(s)
             \/ sh_event_handler(s)       \/ sh_event_server_clear_msg(s)
      PROVE  SubsInv'
  <2>1. CASE sh_event_server_create(s) \/ sh_event_server_start(s) \/ sh_event_server_stop(s)
    BY <2>1, SubsServers
  <2>2. CASE sh_event_server_destroy(s)
    BY <2>2, SubsDestroy
  <2>3. CASE sh_event_unsubscribe_all(s)
    BY <2>3, SubsUnlink DEF sh_event_unsubscribe_all
  <2>4. CASE sh_event_handler(s) \/ sh_event_server_clear_msg(s)
    BY <1>0, <2>4 DEF sh_event_handler, sh_event_server_clear_msg, eventVars
  <2> QED BY <1>4, <2>1, <2>2, <2>3, <2>4
<1>5. ASSUME NEW s \in Servers, NEW e \in Events,
             \/ sh_event_subscribe(s, e) \/ sh_event_subscribe_sync(s, e)
             \/ sh_event_unsubscribe(s, e)
      PROVE  SubsInv'
  <2>1. CASE sh_event_subscribe(s, e) \/ sh_event_subscribe_sync(s, e)
    BY <2>1, SubsSubscribe DEF sh_event_subscribe, sh_event_subscribe_sync
  <2>2. CASE sh_event_unsubscribe(s, e)
    BY <2>2, SubsUnlink DEF sh_event_unsubscribe
  <2> QED BY <1>5, <2>1, <2>2
<1>6. ASSUME NEW e \in Events, sh_event_publish(e) PROVE SubsInv'
  BY <1>0, <1>6 DEF sh_event_publish, PublishEnter, eventVars
<1> QED BY <1>1, <1>2, <1>3, <1>4, <1>5, <1>6 DEF EventNext

LEMMA SubsInit == EventInit => SubsInv
<1>1. \A s : ~OnList(<<>>, s)
  BY DEF OnList
<1>2. Once(<<>>)
  BY DEF Once
<1> QED BY <1>1, <1>2 DEF EventInit, SubsInv, Live

LEMMA SubsAlways == EventSpec => [](Base /\ SubsInv)
<1>1. EventInit => Base /\ SubsInv
  BY BaseInit, SubsInit
<1>2. Base /\ SubsInv /\ [EventNext]_allEventVars => (Base /\ SubsInv)'
  BY BaseStep, SubsStep
<1> QED BY <1>1, <1>2, PTL DEF EventSpec, allEventVars

(***************************************************************************)
(* A server is in the list of subscribers of an event exactly when its     *)
(* cb[] entry is set, it is there once, and it exists (_sh_event_subscribe,*)
(* sh_event_unsubscribe, sh_event_server_destroy), even when callbacks and *)
(* interrupts change subscriptions while they are used.                    *)
(***************************************************************************)
THEOREM EventSubscriptionsCorrect == EventSpec => []SubscriptionsAgree
<1>1. Base /\ SubsInv => SubscriptionsAgree
  <2> SUFFICES ASSUME Base, SubsInv, NEW s \in Servers, NEW e \in Events
               PROVE  /\ Subscribed(s, e) <=> mode[s][e] # "none"
                      /\ Subscribed(s, e) => Live(s)
                      /\ Cardinality(Occurs(s, subs[e])) <= 1
    BY DEF SubscriptionsAgree
  <2>1. subs[e] \in Seq(Servers) /\ Once(subs[e])
    BY DEF Base, EventTypes, SubsInv
  <2>2. CASE OnList(subs[e], s)
    <3>1. Cardinality(Occurs(s, subs[e])) = 1
      BY <2>1, <2>2, OnceOccurs
    <3> QED BY <3>1 DEF SubsInv, Subscribed
  <2>3. CASE ~OnList(subs[e], s)
    <3>1. Occurs(s, subs[e]) = {}
      BY <2>3 DEF OnList, Occurs
    <3>2. Cardinality({}) = 0
      BY FS_EmptySet
    <3>3. Cardinality(Occurs(s, subs[e])) <= 1
      BY <3>1, <3>2
    <3> QED BY <3>3 DEF SubsInv, Subscribed
  <2> QED BY <2>2, <2>3
<1> QED BY <1>1, SubsAlways, PTL

-----------------------------------------------------------------------------
(***************************************************************************)
(* Nobody keeps a message that nobody needs.                               *)
(***************************************************************************)
\* The frames fs publish m.
PubOf(fs, m) == \E f \in ToSet(fs) : IsPub(f) /\ f.msg = m

\* A message without references is being published; a server that holds
\* messages exists.
ZeroRef ==
  \A m \in Msgs : msg[m] # Free /\ msg[m].ref = 0 => PubOf(stack, m)

HeldLive == \A s \in Servers : queue[s] # <<>> => Live(s)

LEMMA PushPubOf ==
  ASSUME NEW fs \in Seq(Frames), NEW f \in Frames, NEW m
  PROVE  PubOf(<<f>> \o fs, m) <=> (IsPub(f) /\ f.msg = m) \/ PubOf(fs, m)
<1>1. ToSet(<<f>> \o fs) = {f} \cup ToSet(fs)
  BY StackParts
<1> QED BY <1>1 DEF PubOf

LEMMA BreakPubOf ==
  ASSUME NEW fs \in Seq(Frames), NEW I, NEW m
  PROVE  PubOf(Break(fs, I), m) <=> PubOf(fs, m)
<1> DEFINE r == Break(fs, I)
<1>1. DOMAIN r = DOMAIN fs /\ \A i \in DOMAIN fs : AlikeExceptOk(fs[i], r[i])
  BY BreakFrames
<1> HIDE DEF r
<1>2. PubOf(r, m) <=> PubOf(fs, m)
  BY <1>1 DEF PubOf, ToSet, AlikeExceptOk
<1> QED BY <1>2 DEF r

\* What becomes of a message in a step that keeps ZeroRef.
LEMMA ZeroKept ==
  ASSUME ZeroRef,
         \A m \in Msgs :
           \/ PubOf(stack', m) \/ msg'[m] = Free \/ msg'[m].ref # 0
           \/ msg'[m] = msg[m] /\ (PubOf(stack, m) => PubOf(stack', m))
  PROVE  ZeroRef'
<1>1. ASSUME NEW m \in Msgs, msg'[m] # Free, msg'[m].ref = 0 PROVE PubOf(stack', m)
  BY <1>1 DEF ZeroRef
<1> QED BY <1>1 DEF ZeroRef, PubOf

\* A reference that is dropped leaves a message that has others, or none.
LEMMA ReleaseLeaves ==
  ASSUME NEW m \in Msgs, msg \in [Msgs -> Records], NEW n \in Int
  PROVE  Release(m, n) = Free \/ Release(m, n).ref # 0
<1>1. msg[m] \in Records
  OBVIOUS
<1> QED BY <1>1 DEF Release, Records

\* The publications after the first frame of the stack is replaced by g.
LEMMA ReplacedPubOf ==
  ASSUME Base, stack # <<>>, NEW g \in Frames, NEW fs \in Seq(Frames), NEW m,
         PubOf(fs, m) <=> PubOf(Tail(stack), m), stack' = <<g>> \o fs
  PROVE  /\ PubOf(stack', m) <=> (IsPub(g) /\ g.msg = m) \/ PubOf(Tail(stack), m)
         /\ PubOf(stack, m) <=> (IsPub(Top) /\ Top.msg = m) \/ PubOf(Tail(stack), m)
<1>1. Top \in Frames /\ Tail(stack) \in Seq(Frames) /\ stack = <<Top>> \o Tail(stack)
  BY TopOf
<1>2. PubOf(<<g>> \o fs, m) <=> (IsPub(g) /\ g.msg = m) \/ PubOf(Tail(stack), m)
  BY PushPubOf
<1>3. PubOf(<<Top>> \o Tail(stack), m)
        <=> (IsPub(Top) /\ Top.msg = m) \/ PubOf(Tail(stack), m)
  BY <1>1, PushPubOf
<1>4. PubOf(stack, m) <=> (IsPub(Top) /\ Top.msg = m) \/ PubOf(Tail(stack), m)
  BY <1>1, <1>3, Zenon
<1> QED BY <1>2, <1>4

\* The first frame is replaced by one that publishes the same message or the
\* only one the step has changed, if it publishes at all.
LEMMA ZeroReplaced ==
  ASSUME Base, ZeroRef, stack # <<>>, NEW g \in Frames, NEW fs \in Seq(Frames),
         stack' = <<g>> \o fs, \A m \in Msgs : PubOf(fs, m) <=> PubOf(Tail(stack), m),
         IsPub(Top) => IsPub(g) /\ (Top.msg # "none" => g.msg = Top.msg),
         \A m \in Msgs : \/ IsPub(g) /\ g.msg = m
                         \/ msg'[m] = Free \/ msg'[m].ref # 0 \/ msg'[m] = msg[m]
  PROVE  ZeroRef'
<1>1. ASSUME NEW m \in Msgs
      PROVE  \/ PubOf(stack', m) \/ msg'[m] = Free \/ msg'[m].ref # 0
             \/ msg'[m] = msg[m] /\ (PubOf(stack, m) => PubOf(stack', m))
  <2>1. /\ PubOf(stack', m) <=> (IsPub(g) /\ g.msg = m) \/ PubOf(Tail(stack), m)
        /\ PubOf(stack, m) <=> (IsPub(Top) /\ Top.msg = m) \/ PubOf(Tail(stack), m)
    BY ReplacedPubOf
  <2> QED BY <2>1, EventAssumption
<1> QED BY <1>1, ZeroKept

LEMMA ZeroPublish ==
  ASSUME Base, ZeroRef, \/ PublishLock
                        \/ \E s \in Servers : PublishSkip(s) \/ PublishSync(s) \/ PublishSave(s)
  PROVE  ZeroRef'
<1>0. msg \in [Msgs -> Records]
  BY DEF Base, EventTypes
<1>1. CASE PublishLock
  <2>1. PICK m \in Msgs, g \in PubFrames :
           /\ stack # <<>> /\ Top \in PubFrames /\ Top.pc = "check"
           /\ msg' = [msg EXCEPT ![m] = [ev |-> Top.ev, ref |-> 0]]
           /\ g.msg = m /\ stack' = <<g>> \o Tail(stack)
    BY <1>1, BaseOnTop, PublishLockForm
  <2>2. g \in Frames /\ IsPub(g) /\ Tail(stack) \in Seq(Frames)
    BY <2>1, TopOf DEF Frames, PubFrames, IsPub
  <2>3. Top.msg = "none"
    BY <2>1, TopOf DEF FrameOK, PubFrames, IsPub
  <2>4. \A n \in Msgs : n # m => msg'[n] = msg[n]
    BY <1>0, <2>1
  <2> QED BY <2>1, <2>2, <2>3, <2>4, ZeroReplaced
<1>2. ASSUME NEW s \in Servers, PublishSkip(s) \/ PublishSync(s) \/ PublishSave(s)
      PROVE  ZeroRef'
  <2>1. Reaches(s)
    BY <1>2 DEF PublishSkip, PublishSync, PublishSave
  <2>2. PICK g \in PubFrames : PubGoesTo(g, s)
    BY <1>2, <2>1, BaseOnTop, GoesToForm DEF PublishSkip, PublishSync, PublishSave
  <2>3. /\ g \in Frames /\ IsPub(g) /\ g.msg = Top.msg /\ stack # <<>>
        /\ Tail(stack) \in Seq(Frames) /\ stack' = <<g>> \o Tail(stack) /\ Top.msg \in Msgs
    BY <2>1, <2>2, BaseOnTop, ReachesForm, TopOf DEF Frames, PubFrames, IsPub, PubGoesTo
  <2>4. \A n \in Msgs : n # Top.msg => msg'[n] = msg[n]
    BY <1>0, <1>2, <2>3 DEF PublishSkip, PublishSync, PublishSave, eventVars
  <2> QED BY <2>3, <2>4, ZeroReplaced
<1> QED BY <1>1, <1>2

LEMMA ZeroExec ==
  ASSUME Base, ZeroRef, ExecLock \/ ExecTake \/ CbReturn
  PROVE  ZeroRef'
<1>0. msg \in [Msgs -> Records]
  BY DEF Base, EventTypes
<1>1. CASE ExecLock
  <2>1. PICK g \in ExecFrames : /\ stack # <<>> /\ Top \in ExecFrames
                                /\ stack' = <<g>> \o Tail(stack) /\ msg' = msg
    BY <1>1, BaseOnTop, ExecLockForm DEF eventVars
  <2>2. g \in Frames /\ ~IsPub(Top) /\ Tail(stack) \in Seq(Frames)
    BY <2>1, TopOf DEF Frames, ExecFrames, IsPub
  <2> QED BY <2>1, <2>2, ZeroReplaced
<1>2. CASE ExecTake
  <2>1. PICK s \in Servers, m \in Msgs, g \in ExecFrames : TakeForm(s, m, g)
    BY <1>2, BaseOnTop, ExecTakeForm
  <2> DEFINE fs == Break(Tail(stack), DrainBreaks(Tail(stack), s))
  <2>2. /\ stack # <<>> /\ Top \in ExecFrames /\ stack' = <<g>> \o fs
        /\ msg' = msg \/ msg' = [msg EXCEPT ![m] = Release(m, 1)]
    BY <2>1 DEF TakeForm
  <2>3. g \in Frames /\ ~IsPub(Top) /\ Tail(stack) \in Seq(Frames)
    BY <2>2, TopOf DEF Frames, ExecFrames, IsPub
  <2>4. fs \in Seq(Frames) /\ \A n \in Msgs : PubOf(fs, n) <=> PubOf(Tail(stack), n)
    <3>1. fs \in Seq(Frames)
      BY <2>3, BreakTyped
    <3>2. \A n : PubOf(fs, n) <=> PubOf(Tail(stack), n)
      BY <2>3, BreakPubOf
    <3> QED BY <3>1, <3>2
  <2>5. \A n \in Msgs : msg'[n] = Free \/ msg'[n].ref # 0 \/ msg'[n] = msg[n]
    <3>1. Release(m, 1) = Free \/ Release(m, 1).ref # 0
      BY <1>0, ReleaseLeaves
    <3> QED BY <1>0, <2>2, <3>1
  <2> HIDE DEF fs
  <2> QED BY <2>2, <2>3, <2>4, <2>5, ZeroReplaced
<1>3. CASE CbReturn
  <2>1. stack # <<>>
    BY <1>3, BaseOnTop, CbReturnForm
  <2>2. Tail(stack) \in Seq(Frames)
    BY <2>1, TopOf
  <2>3. CASE \E g \in PubFrames : /\ g.msg = Top.msg /\ msg' = msg
                                  /\ stack' = <<g>> \o Tail(stack)
    <3>1. PICK g \in PubFrames : g.msg = Top.msg /\ msg' = msg /\ stack' = <<g>> \o Tail(stack)
      BY <2>3
    <3>2. g \in Frames /\ IsPub(g)
      BY DEF Frames, PubFrames, IsPub
    <3> QED BY <2>1, <2>2, <3>1, <3>2, ZeroReplaced
  <2>4. CASE \E g \in ExecFrames :
               /\ IsExec(Top) /\ Top.msg \in Msgs /\ stack' = <<g>> \o Tail(stack)
               /\ msg' = [msg EXCEPT ![Top.msg] = Release(Top.msg, 1)]
    <3>1. PICK g \in ExecFrames :
               /\ IsExec(Top) /\ Top.msg \in Msgs /\ stack' = <<g>> \o Tail(stack)
               /\ msg' = [msg EXCEPT ![Top.msg] = Release(Top.msg, 1)]
      BY <2>4
    <3>2. g \in Frames /\ ~IsPub(Top)
      BY <3>1 DEF Frames, IsExec, IsPub
    <3>3. Release(Top.msg, 1) = Free \/ Release(Top.msg, 1).ref # 0
      BY <1>0, <3>1, ReleaseLeaves
    <3>4. \A n \in Msgs : msg'[n] = Free \/ msg'[n].ref # 0 \/ msg'[n] = msg[n]
      BY <1>0, <3>1, <3>3
    <3> QED BY <2>1, <2>2, <3>1, <3>2, <3>4, ZeroReplaced
  <2> QED BY <1>3, <2>3, <2>4, BaseOnTop, CbReturnForm
<1> QED BY <1>1, <1>2, <1>3

\* A function returns.  A failed allocation would leave a message behind.
LEMMA ZeroPop ==
  ASSUME Base, ZeroRef, ~AllocFails,
         \/ PublishNoMemory \/ PublishDone \/ ExecDone
         \/ \E s \in Servers : PublishSaveFails(s)
  PROVE  ZeroRef'
<1>0. msg \in [Msgs -> Records]
  BY DEF Base, EventTypes
<1>1. stack # <<>> /\ stack' = Tail(stack)
  BY BaseOnTop, PopForms DEF Pops
<1>2. \A m : PubOf(stack, m) <=> (IsPub(Top) /\ Top.msg = m) \/ PubOf(stack', m)
  <2>1. Top \in Frames /\ Tail(stack) \in Seq(Frames) /\ stack = <<Top>> \o Tail(stack)
    BY <1>1, TopOf
  <2>2. \A m : PubOf(<<Top>> \o Tail(stack), m)
                 <=> (IsPub(Top) /\ Top.msg = m) \/ PubOf(Tail(stack), m)
    BY <2>1, PushPubOf
  <2> QED BY <1>1, <2>1, <2>2
<1>3. ASSUME NEW m \in Msgs
      PROVE  \/ PubOf(stack', m) \/ msg'[m] = Free \/ msg'[m].ref # 0
             \/ msg'[m] = msg[m] /\ (PubOf(stack, m) => PubOf(stack', m))
  <2>1. CASE PublishNoMemory
    <3>1. msg' = msg /\ Top.msg = "none"
      BY <2>1, BaseOnTop, PopForms DEF PublishNoMemory
    <3> QED BY <1>2, <3>1, EventAssumption
  <2>2. CASE PublishDone
    <3>1. Top.msg \in Msgs
      BY <2>2, BaseOnTop, PopForms
    <3>2. msg' = [msg EXCEPT ![Top.msg] = IF msg[Top.msg].ref = 0 THEN Free ELSE msg[Top.msg]]
      BY <1>0, <2>2, <3>1 DEF PublishDone
    <3>3. CASE m = Top.msg
      BY <1>0, <3>1, <3>2, <3>3
    <3>4. CASE m # Top.msg
      BY <1>0, <1>2, <3>1, <3>2, <3>4
    <3> QED BY <3>3, <3>4
  <2>3. CASE ExecDone
    <3>1. ~IsPub(Top) /\ msg' = msg
      BY <2>3, BaseOnTop, PopForms DEF ExecDone, eventVars, IsPub, IsExec
    <3> QED BY <1>2, <3>1
  <2>4. CASE \E s \in Servers : PublishSaveFails(s)
    BY <2>4 DEF PublishSaveFails
  <2> QED BY <2>1, <2>2, <2>3, <2>4
<1> QED BY <1>3, ZeroKept

LEMMA ZeroClear ==
  ASSUME Base, ZeroRef, NEW s \in Servers, sh_event_server_clear_msg(s)
  PROVE  ZeroRef'
<1>1. /\ queue[s] \in Seq(Msgs) /\ msg \in [Msgs -> Records] /\ stack \in Seq(Frames)
      /\ msg' = Cleared(s) /\ \E I : stack' = Break(stack, I)
  BY DEF Base, EventTypes, sh_event_server_clear_msg
<1>2. ASSUME NEW m \in Msgs
      PROVE  \/ PubOf(stack', m) \/ msg'[m] = Free \/ msg'[m].ref # 0
             \/ msg'[m] = msg[m] /\ (PubOf(stack, m) => PubOf(stack', m))
  <2> DEFINE n == Cardinality(Occurs(m, queue[s]))
  <2>1. n \in Int
    BY <1>1, OccursFinite
  <2>2. msg'[m] = IF n = 0 THEN msg[m] ELSE Release(m, n)
    BY <1>1 DEF Cleared
  <2> HIDE DEF n
  <2>3. Release(m, n) = Free \/ Release(m, n).ref # 0
    BY <1>1, <2>1, ReleaseLeaves
  <2>4. PubOf(stack, m) => PubOf(stack', m)
    BY <1>1, BreakPubOf
  <2> QED BY <2>2, <2>3, <2>4
<1> QED BY <1>2, ZeroKept

\* The stack changes, no message does, and no publication goes.
LEMMA ZeroStack ==
  ASSUME Base, ZeroRef, msg' = msg,
         \/ stack' = stack
         \/ \E I : stack' = Break(stack, I)
         \/ \E g \in Frames : stack' = <<g>> \o stack
  PROVE  ZeroRef'
<1>1. stack \in Seq(Frames)
  BY DEF Base, EventTypes
<1>2. ASSUME NEW m \in Msgs PROVE PubOf(stack, m) => PubOf(stack', m)
  <2>1. CASE stack' = stack
    BY <2>1
  <2>2. CASE \E I : stack' = Break(stack, I)
    BY <1>1, <2>2, BreakPubOf
  <2>3. CASE \E g \in Frames : stack' = <<g>> \o stack
    BY <1>1, <2>3, PushPubOf
  <2> QED BY <2>1, <2>2, <2>3
<1> QED BY <1>2, ZeroKept

LEMMA ZeroStep ==
  ASSUME ~AllocFails
  PROVE  Base /\ ZeroRef /\ [EventNext]_allEventVars => ZeroRef'
<1> SUFFICES ASSUME Base, ZeroRef, [EventNext]_allEventVars PROVE ZeroRef'
  OBVIOUS
<1>1. CASE UNCHANGED allEventVars
  BY <1>1, ZeroStack DEF allEventVars, eventVars, isrVars
<1>2. CASE EventSteps
  BY <1>2, ZeroPublish, ZeroExec, ZeroPop DEF EventSteps
<1>3. CASE sh_event_map_create \/ sh_event_map_destroy
  BY <1>3, BaseQuiet, ZeroStack
<1>7. ASSUME \/ \E e \in Events : PublishEnter(e)
             \/ \E s \in Servers : sh_event_handler(s)
      PROVE  ZeroRef'
  <2>1. PICK g \in Frames : stack' = <<g>> \o stack /\ UNCHANGED eventVars
    <3>1. CASE \E e \in Events : PublishEnter(e)
      BY <3>1, PublishEnterForm DEF Frames
    <3>2. CASE \E s \in Servers : sh_event_handler(s)
      BY <3>2, HandlerForm DEF Frames
    <3> QED BY <1>7, <3>1, <3>2
  <2> QED BY <2>1, ZeroStack DEF eventVars
<1>4. ASSUME NEW s \in Servers,
             \/ sh_event_server_create(s) \/ sh_event_server_destroy(s)
             \/ sh_event_server_start(s)  \/ sh_event_server_stop(s)
             \/ sh_event_unsubscribe_all(s)
             \/ sh_event_handler(s)       \/ sh_event_server_clear_msg(s)
      PROVE  ZeroRef'
  <2>1. CASE sh_event_server_create(s) \/ sh_event_server_start(s) \/ sh_event_server_stop(s)
    BY <2>1, BaseQuiet, ZeroStack
  <2>2. CASE sh_event_server_destroy(s)
    BY <2>2, ZeroStack DEF sh_event_server_destroy
  <2>3. CASE sh_event_unsubscribe_all(s)
    BY <2>3, ZeroStack DEF sh_event_unsubscribe_all, Unlink
  <2>4. CASE sh_event_handler(s)
    BY <1>7, <2>4
  <2>5. CASE sh_event_server_clear_msg(s)
    BY <2>5, ZeroClear
  <2> QED BY <1>4, <2>1, <2>2, <2>3, <2>4, <2>5
<1>5. ASSUME NEW s \in Servers, NEW e \in Events,
             \/ sh_event_subscribe(s, e) \/ sh_event_subscribe_sync(s, e)
             \/ sh_event_unsubscribe(s, e)
      PROVE  ZeroRef'
  <2>1. CASE sh_event_subscribe(s, e) \/ sh_event_subscribe_sync(s, e)
    BY <2>1, BaseQuiet, ZeroStack DEF sh_event_subscribe, sh_event_subscribe_sync
  <2>2. CASE sh_event_unsubscribe(s, e)
    BY <2>2, ZeroStack DEF sh_event_unsubscribe, Unlink
  <2> QED BY <1>5, <2>1, <2>2
<1>6. ASSUME NEW e \in Events, sh_event_publish(e) PROVE ZeroRef'
  BY <1>6, <1>7 DEF sh_event_publish
<1> QED BY <1>1, <1>2, <1>3, <1>4, <1>5, <1>6 DEF EventNext

\* Only a started server gets a message, and only one that was drained goes.
LEMMA HeldStep ==
  ASSUME ClearFirst
  PROVE  Base /\ HeldLive /\ [EventNext]_allEventVars => HeldLive'
<1> SUFFICES ASSUME Base, HeldLive, [EventNext]_allEventVars PROVE HeldLive'
  OBVIOUS
<1>0. ASSUME queue' = queue, server' = server PROVE HeldLive'
  BY <1>0 DEF HeldLive, Live
<1>q. queue \in [Servers -> Seq(Msgs)]
       /\ server \in [Servers -> {"absent", "stopped", "started", "freed"}]
  BY DEF Base, EventTypes
<1>1. CASE UNCHANGED allEventVars
  BY <1>0, <1>1 DEF allEventVars, eventVars
<1>2. CASE EventSteps
  <2>1. ASSUME NEW s \in Servers, PublishSave(s) PROVE HeldLive'
    <3>1. /\ server[s] = "started" /\ server' = server
          /\ queue' = [queue EXCEPT ![s] = Append(queue[s], Top.msg)]
      BY <2>1 DEF PublishSave
    <3> QED BY <1>q, <3>1 DEF HeldLive, Live
  <2>2. CASE ExecTake
    <3>1. PICK s \in Servers, m \in Msgs, g \in ExecFrames : TakeForm(s, m, g)
      BY <2>2, BaseOnTop, ExecTakeForm
    <3>2. queue[s] # <<>>
      <4>1. stack # <<>> /\ Top.srv = s /\ IsExec(Top) /\ Locked(Top) /\ Top.ok /\ Top.more
        BY <3>1 DEF TakeForm, Locked
      <4> QED BY <4>1, TopOf DEF FrameOK
    <3>3. queue' = [queue EXCEPT ![s] = Tail(queue[s])] /\ server' = server
      BY <3>1 DEF TakeForm
    <3> QED BY <1>q, <3>2, <3>3 DEF HeldLive, Live
  <2>3. CASE \/ PublishLock \/ PublishNoMemory \/ PublishDone \/ ExecLock \/ ExecDone \/ CbReturn
             \/ \E s \in Servers : PublishSkip(s) \/ PublishSync(s) \/ PublishSaveFails(s)
    BY <1>0, <2>3 DEF PublishLock, PublishNoMemory, PublishDone, ExecLock, ExecDone, CbReturn,
       PublishSkip, PublishSync, PublishSaveFails, eventVars
  <2> QED BY <1>2, <2>1, <2>2, <2>3 DEF EventSteps
<1>3. CASE sh_event_map_create \/ sh_event_map_destroy
  BY <1>0, <1>3 DEF sh_event_map_create, sh_event_map_destroy
<1>4. ASSUME NEW s \in Servers,
             \/ sh_event_server_create(s) \/ sh_event_server_destroy(s)
             \/ sh_event_server_start(s)  \/ sh_event_server_stop(s)
             \/ sh_event_unsubscribe_all(s)
             \/ sh_event_handler(s)       \/ sh_event_server_clear_msg(s)
      PROVE  HeldLive'
  <2>1. CASE sh_event_server_create(s) \/ sh_event_server_start(s) \/ sh_event_server_stop(s)
    <3>1. queue' = queue /\ \A t \in Servers : Live(t) => Live(t)'
      BY <1>q, <2>1, CreateKeepsQueues DEF sh_event_server_create, sh_event_server_start,
         sh_event_server_stop, Live
    <3> QED BY <3>1 DEF HeldLive
  <2>2. CASE sh_event_server_destroy(s)
    <3>1. queue' = queue /\ queue[s] = <<>> /\ \A t \in Servers : t # s => server'[t] = server[t]
      BY <1>q, <2>2 DEF sh_event_server_destroy
    <3> QED BY <3>1 DEF HeldLive, Live
  <2>3. CASE sh_event_unsubscribe_all(s) \/ sh_event_handler(s)
    BY <1>0, <2>3 DEF sh_event_unsubscribe_all, Unlink, sh_event_handler, eventVars
  <2>4. CASE sh_event_server_clear_msg(s)
    <3>1. queue' = [queue EXCEPT ![s] = <<>>] /\ server' = server
      BY <2>4 DEF sh_event_server_clear_msg
    <3> QED BY <1>q, <3>1 DEF HeldLive, Live
  <2> QED BY <1>4, <2>1, <2>2, <2>3, <2>4
<1>5. ASSUME NEW s \in Servers, NEW e \in Events,
             \/ sh_event_subscribe(s, e) \/ sh_event_subscribe_sync(s, e)
             \/ sh_event_unsubscribe(s, e)
      PROVE  HeldLive'
  BY <1>0, <1>5 DEF sh_event_subscribe, sh_event_subscribe_sync, sh_event_unsubscribe,
     Subscribe, Unlink
<1>6. ASSUME NEW e \in Events, sh_event_publish(e) PROVE HeldLive'
  BY <1>0, <1>6 DEF sh_event_publish, PublishEnter, eventVars
<1> QED BY <1>1, <1>2, <1>3, <1>4, <1>5, <1>6 DEF EventNext

(***************************************************************************)
(* If no allocation fails and servers are drained before they are          *)
(* destroyed, every allocated message waits in the queue of a server that  *)
(* exists, is being published or is being handled: none is lost            *)
(* (sh_event_check_if_msg_needs_to_free, the last release of               *)
(* sh_event_publish_with_param).  Callbacks need not be careful for it.    *)
(***************************************************************************)
THEOREM EventReclaimsCorrect ==
  ASSUME ~AllocFails, ClearFirst
  PROVE  EventSpec => []Reclaimed
<1> DEFINE Inv == Base /\ CountInv /\ ZeroRef /\ HeldLive
<1>1. EventInit => Inv
  <2> SUFFICES ASSUME EventInit PROVE ZeroRef /\ HeldLive
    BY BaseInit, CountInit
  <2> QED BY DEF EventInit, ZeroRef, HeldLive
<1>2. Inv /\ [EventNext]_allEventVars => Inv'
  BY BaseStep, CountStep, ZeroStep, HeldStep
<1>3. Inv => Reclaimed
  <2> SUFFICES ASSUME Inv, NEW m \in Msgs, msg[m] # Free
               PROVE  \/ \E s \in Servers : Live(s) /\ m \in ToSet(queue[s])
                      \/ \E i \in DOMAIN stack : stack[i].msg = m
    BY DEF Reclaimed
  <2>1. CASE msg[m].ref = 0
    <3>1. PubOf(stack, m)
      BY <2>1 DEF ZeroRef
    <3> QED BY <3>1 DEF PubOf, ToSet
  <2>2. CASE CallersOf(stack, m) # {}
    BY <2>2 DEF CallersOf
  <2>3. CASE HoldersOf(queue, m) # {}
    <3>1. PICK s \in Servers : Occurs(m, queue[s]) # {}
      BY <2>3 DEF HoldersOf
    <3>2. m \in ToSet(queue[s])
      BY <3>1 DEF Occurs, ToSet
    <3>3. queue[s] # <<>>
      <4>1. DOMAIN <<>> = {}
        OBVIOUS
      <4> QED BY <3>1, <4>1 DEF Occurs
    <3> QED BY <3>2, <3>3 DEF HeldLive
  <2>4. CASE CallersOf(stack, m) = {} /\ HoldersOf(queue, m) = {}
    <3>1. Cardinality({}) = 0
      BY FS_EmptySet
    <3>2. msg[m].ref = 0
      BY <2>4, <3>1 DEF CountInv
    <3> QED BY <2>1, <3>2
  <2> QED BY <2>2, <2>3, <2>4
<1> HIDE DEF Inv
<1> QED BY <1>1, <1>2, <1>3, PTL DEF EventSpec, allEventVars

-----------------------------------------------------------------------------
(***************************************************************************)
(* With careful callbacks nobody loses its place and no message is freed   *)
(* too early.                                                              *)
(***************************************************************************)
\* On list l, x is y or before it.
NotAfter(l, x, y) == \E i, j \in DOMAIN l : i <= j /\ l[i] = x /\ l[j] = y

\* Callbacks add no server to a list of subscribers, or take none off it.
NoJoin == {"subscribe", "subscribe_sync"} \cap CbOps = {}
NoLeave == {"unsubscribe", "unsubscribe_all", "destroy"} \cap CbOps = {}
JoinOrLeave == NoJoin \/ NoLeave

\* A publication that stands on y comes no more to x.
Passed(l, x, y) == NotAfter(l, x, y) \/ (NoJoin /\ ~OnList(l, x))

\* f runs on top of g: they publish different messages, and f does not drain
\* what g publishes or what g is about to drain.
Apart(f, g, q) ==
  /\ IsPub(f) \/ IsPub(g) => f.msg # g.msg \/ f.msg = "none"
  /\ IsExec(f) /\ IsPub(g) => g.msg \notin ToSet(q[f.srv])
  /\ IsExec(f) /\ IsExec(g) /\ Locked(g) /\ f.srv = g.srv => ~g.more

\* A publication has its own message, stands on a subscriber, and, unless
\* callbacks may take a server off the list and put it back, has given the
\* message to no server that comes later.
PubOK(f, q, sb, ms) ==
  IsPub(f) /\ Locked(f) =>
    /\ ms[f.msg].ev = f.ev
    /\ f.cur # "head" => OnList(sb[f.ev], f.cur)
    /\ JoinOrLeave => \A s \in Servers :
         f.msg \in ToSet(q[s]) => f.cur # "head" /\ Passed(sb[f.ev], s, f.cur)

CareOf(fs, q, sb, ms) ==
  /\ \A i, j \in DOMAIN fs : i < j => Apart(fs[i], fs[j], q)
  /\ \A f \in ToSet(fs) : f.ok /\ PubOK(f, q, sb, ms)

CareInv ==
  /\ CareOf(stack, queue, subs, msg)
  /\ JoinOrLeave => \A s \in Servers : Once(queue[s])

\* All that is known of a state.
Known == Base /\ CountInv /\ MaskDiscipline /\ SubsInv /\ CareInv

LEMMA CarePush ==
  ASSUME NEW fs \in Seq(Frames), NEW g \in Frames, NEW q, NEW sb, NEW ms
  PROVE  CareOf(<<g>> \o fs, q, sb, ms)
           <=> /\ CareOf(fs, q, sb, ms) /\ g.ok /\ PubOK(g, q, sb, ms)
               /\ \A f \in ToSet(fs) : Apart(g, f, q)
<1> DEFINE r == <<g>> \o fs
           n == Len(fs)
<1>1. /\ n \in Nat /\ DOMAIN fs = 1 .. n /\ DOMAIN r = 1 .. n + 1 /\ r[1] = g
      /\ \A i \in 1 .. n : r[i + 1] = fs[i]
      /\ \A i \in 1 .. n + 1 : i # 1 => i - 1 \in 1 .. n /\ r[i] = fs[i - 1]
  BY PushSeq
<1>2. ToSet(r) = {g} \cup ToSet(fs)
  BY StackParts
<1> HIDE DEF r, n
<1>3. (\A i, j \in DOMAIN r : i < j => Apart(r[i], r[j], q))
        <=> /\ \A i, j \in DOMAIN fs : i < j => Apart(fs[i], fs[j], q)
            /\ \A f \in ToSet(fs) : Apart(g, f, q)
  <2>1. ASSUME \A i, j \in DOMAIN r : i < j => Apart(r[i], r[j], q)
        PROVE  /\ \A i, j \in DOMAIN fs : i < j => Apart(fs[i], fs[j], q)
               /\ \A f \in ToSet(fs) : Apart(g, f, q)
    <3>1. ASSUME NEW i \in 1 .. n, NEW j \in 1 .. n, i < j PROVE Apart(fs[i], fs[j], q)
      <4>1. i + 1 \in 1 .. n + 1 /\ j + 1 \in 1 .. n + 1 /\ i + 1 < j + 1
        BY <1>1, <3>1
      <4>2. Apart(r[i + 1], r[j + 1], q)
        BY <1>1, <2>1, <4>1
      <4> QED BY <1>1, <4>2
    <3>2. ASSUME NEW j \in 1 .. n PROVE Apart(g, fs[j], q)
      <4>1. 1 \in 1 .. n + 1 /\ j + 1 \in 1 .. n + 1 /\ 1 < j + 1
        BY <1>1
      <4>2. Apart(r[1], r[j + 1], q)
        BY <1>1, <2>1, <4>1
      <4> QED BY <1>1, <4>2
    <3> QED BY <1>1, <3>1, <3>2 DEF ToSet
  <2>2. ASSUME \A i, j \in DOMAIN fs : i < j => Apart(fs[i], fs[j], q),
               \A f \in ToSet(fs) : Apart(g, f, q)
        PROVE  \A i, j \in DOMAIN r : i < j => Apart(r[i], r[j], q)
    <3> SUFFICES ASSUME NEW i \in 1 .. n + 1, NEW j \in 1 .. n + 1, i < j
                 PROVE  Apart(r[i], r[j], q)
      BY <1>1
    <3>1. j # 1 /\ j - 1 \in 1 .. n /\ r[j] = fs[j - 1]
      BY <1>1
    <3>2. CASE i = 1
      BY <1>1, <2>2, <3>1, <3>2 DEF ToSet
    <3>3. CASE i # 1
      <4>1. i - 1 \in 1 .. n /\ r[i] = fs[i - 1] /\ i - 1 < j - 1
        BY <1>1, <3>3
      <4> QED BY <1>1, <2>2, <3>1, <4>1
    <3> QED BY <3>2, <3>3
  <2> QED BY <2>1, <2>2
<1>4. CareOf(r, q, sb, ms)
        <=> /\ CareOf(fs, q, sb, ms) /\ g.ok /\ PubOK(g, q, sb, ms)
            /\ \A f \in ToSet(fs) : Apart(g, f, q)
  BY <1>2, <1>3 DEF CareOf
<1> QED BY <1>4 DEF r

\* What every pair of frames and every frame keeps, the stack keeps.
LEMMA CareKept ==
  ASSUME NEW fs, NEW q, NEW sb, NEW ms, NEW q2, NEW sb2, NEW ms2,
         CareOf(fs, q, sb, ms),
         \A f, g \in ToSet(fs) : Apart(f, g, q) => Apart(f, g, q2),
         \A f \in ToSet(fs) : PubOK(f, q, sb, ms) => PubOK(f, q2, sb2, ms2)
  PROVE  CareOf(fs, q2, sb2, ms2)
<1>1. \A i \in DOMAIN fs : fs[i] \in ToSet(fs)
  BY DEF ToSet
<1> QED BY <1>1 DEF CareOf

\* Queues that only lose messages.
LEMMA ApartShrinks ==
  ASSUME NEW f \in Frames, NEW g, NEW q, NEW q2, Apart(f, g, q),
         \A s \in Servers : ToSet(q2[s]) \subseteq ToSet(q[s])
  PROVE  Apart(f, g, q2)
<1>1. IsExec(f) => f.srv \in Servers
  BY FrameKinds DEF ExecFrames
<1> QED BY <1>1 DEF Apart

LEMMA PubShrinks ==
  ASSUME NEW f, NEW q, NEW sb, NEW ms, NEW q2, NEW ms2, PubOK(f, q, sb, ms),
         \A s \in Servers : ToSet(q2[s]) \subseteq ToSet(q[s]),
         IsPub(f) /\ Locked(f) => ms2[f.msg].ev = ms[f.msg].ev
  PROVE  PubOK(f, q2, sb, ms2)
BY DEF PubOK

\* A message that is held is allocated.
LEMMA HeldNotFree ==
  ASSUME Base, CountInv, NEW m \in Msgs,
         \/ \E s \in Servers : m \in ToSet(queue[s])
         \/ \E f \in ToSet(stack) : IsExec(f) /\ f.msg = m
  PROVE  msg[m] # Free
<1>1. /\ IsFiniteSet(HoldersOf(queue, m)) /\ Cardinality(HoldersOf(queue, m)) \in Nat
      /\ msg[m].ref = Cardinality(HoldersOf(queue, m)) + Cardinality(CallersOf(stack, m))
  BY FS_CardinalityType DEF CountInv
<1>2. IsFiniteSet(CallersOf(stack, m)) /\ Cardinality(CallersOf(stack, m)) \in Nat
  <2>1. stack \in Seq(Frames)
    BY DEF Base, EventTypes
  <2> QED BY <2>1, CallersFinite
<1>3. HoldersOf(queue, m) # {} \/ CallersOf(stack, m) # {}
  <2>1. ASSUME NEW s \in Servers, m \in ToSet(queue[s]) PROVE HoldersOf(queue, m) # {}
    <3>1. PICK i \in DOMAIN queue[s] : queue[s][i] = m
      BY <2>1 DEF ToSet
    <3>2. i \in Occurs(m, queue[s])
      BY <3>1 DEF Occurs
    <3>3. <<s, i>> \in {s} \X Occurs(m, queue[s])
      BY <3>2
    <3>4. <<s, i>> \in HoldersOf(queue, m)
      BY <3>3 DEF HoldersOf
    <3> QED BY <3>4
  <2>2. ASSUME NEW f \in ToSet(stack), IsExec(f), f.msg = m PROVE CallersOf(stack, m) # {}
    BY <2>2 DEF CallersOf, ToSet
  <2> QED BY <2>1, <2>2
<1>4. Cardinality(HoldersOf(queue, m)) # 0 \/ Cardinality(CallersOf(stack, m)) # 0
  BY <1>1, <1>2, <1>3, FS_EmptySet
<1>5. msg[m].ref # 0
  BY <1>1, <1>2, <1>4
<1> QED BY <1>5 DEF Free

LEMMA FrameKnown ==
  ASSUME Known, NEW f \in ToSet(stack)
  PROVE  /\ f \in Frames /\ FrameOK(f, queue) /\ f.ok /\ PubOK(f, queue, subs, msg)
         /\ f.msg # "none" => f.msg \in Msgs /\ msg[f.msg] # Free
         /\ IsPub(f) => f.ev \in Events /\ (Locked(f) <=> f.msg # "none")
         /\ IsExec(f) => f.srv \in Servers
<1>1. f \in Frames /\ FrameOK(f, queue)
  BY StackElements DEF Known
<1>2. f.ok /\ PubOK(f, queue, subs, msg)
  BY DEF Known, CareInv, CareOf
<1>3. /\ IsPub(f) => f.ev \in Events /\ (Locked(f) <=> f.msg # "none")
      /\ IsExec(f) => f.srv \in Servers
  BY <1>1, FrameKinds DEF PubFrames, ExecFrames, FrameOK, Locked
<1>4. ASSUME f.msg # "none" PROVE f.msg \in Msgs /\ msg[f.msg] # Free
  <2>1. f.msg \in Msgs
    BY <1>1, <1>4, FrameKinds
  <2>2. CASE IsPub(f)
    <3>1. msg[f.msg].ev \in Events
      BY <1>2, <1>3, <1>4, <2>2 DEF PubOK
    <3> QED BY <2>1, <3>1, EventAssumption DEF Free
  <2>3. CASE IsExec(f)
    BY <2>1, <2>3, HeldNotFree DEF Known
  <2> QED BY <1>1, <2>1, <2>2, <2>3, FrameKinds
<1> QED BY <1>1, <1>2, <1>3, <1>4

\* The first frame and the others.
LEMMA CareTop ==
  ASSUME Known, stack # <<>>
  PROVE  /\ Top \in ToSet(stack) /\ Tail(stack) \in Seq(Frames)
         /\ ToSet(Tail(stack)) \subseteq ToSet(stack)
         /\ CareOf(Tail(stack), queue, subs, msg)
         /\ \A f \in ToSet(Tail(stack)) : Apart(Top, f, queue)
<1>1. /\ Top \in Frames /\ Tail(stack) \in Seq(Frames) /\ stack = <<Top>> \o Tail(stack)
      /\ Top \in ToSet(stack) /\ ToSet(stack) = {Top} \cup ToSet(Tail(stack))
  BY TopOf DEF Known
<1>2. CareOf(<<Top>> \o Tail(stack), queue, subs, msg)
  BY <1>1 DEF Known, CareInv
<1>3. /\ CareOf(Tail(stack), queue, subs, msg)
      /\ \A f \in ToSet(Tail(stack)) : Apart(Top, f, queue)
  BY <1>1, <1>2, CarePush
<1> QED BY <1>1, <1>3

\* A locked frame means that interrupts are off.
LEMMA LockedMasked ==
  ASSUME MaskDiscipline, NEW f \in ToSet(stack), Locked(f)
  PROVE  masked
BY DEF MaskDiscipline, ToSet

\* Only messages that no frame of fs publishes change.
LEMMA CareMessages ==
  ASSUME NEW fs \in Seq(Frames), NEW q, NEW sb, NEW ms, NEW ms2, CareOf(fs, q, sb, ms),
         \A f \in ToSet(fs) : IsPub(f) /\ Locked(f) => ms2[f.msg].ev = ms[f.msg].ev
  PROVE  CareOf(fs, q, sb, ms2)
<1>1. \A f \in ToSet(fs) : PubOK(f, q, sb, ms) => PubOK(f, q, sb, ms2)
  BY DEF PubOK
<1>2. \A f, g \in ToSet(fs) : Apart(f, g, q) => Apart(f, g, q)
  OBVIOUS
<1> QED BY <1>1, <1>2, CareKept

LEMMA CareShrinks ==
  ASSUME NEW fs \in Seq(Frames), NEW q, NEW sb, NEW ms, NEW q2, NEW ms2,
         CareOf(fs, q, sb, ms),
         \A s \in Servers : ToSet(q2[s]) \subseteq ToSet(q[s]),
         \A f \in ToSet(fs) : IsPub(f) /\ Locked(f) => ms2[f.msg].ev = ms[f.msg].ev
  PROVE  CareOf(fs, q2, sb, ms2)
<1>1. ToSet(fs) \subseteq Frames
  BY LenProperties, ElementOfSeq DEF ToSet
<1>2. ASSUME NEW f \in ToSet(fs), PubOK(f, q, sb, ms) PROVE PubOK(f, q2, sb, ms2)
  BY <1>2, PubShrinks
<1>3. ASSUME NEW f \in ToSet(fs), NEW g \in ToSet(fs), Apart(f, g, q) PROVE Apart(f, g, q2)
  BY <1>1, <1>3, ApartShrinks
<1> QED BY <1>2, <1>3, CareKept

\* A function returns.
LEMMA CarePop ==
  ASSUME Known, \/ PublishNoMemory \/ PublishDone \/ ExecDone
                \/ \E s \in Servers : PublishSaveFails(s)
  PROVE  CareInv'
<1>1. Pops /\ UNCHANGED <<subs, queue>>
  BY BaseOnTop, PopForms
     DEF Known, PublishNoMemory, PublishSaveFails, PublishDone, ExecDone, eventVars
<1>2. stack # <<>> /\ stack' = Tail(stack) /\ msg \in [Msgs -> Records]
  BY <1>1 DEF Pops, Known, Base, EventTypes
<1>3. ASSUME NEW f \in ToSet(Tail(stack)), IsPub(f), Locked(f)
      PROVE  msg'[f.msg] = msg[f.msg]
  <2>1. f \in ToSet(stack) /\ Apart(Top, f, queue)
    BY <1>2, CareTop
  <2>2. f.msg \in Msgs /\ f.msg # "none" /\ msg[f.msg] # Free
    BY <1>3, <2>1, FrameKnown
  <2>3. CASE PublishNoMemory
    <3>1. \/ msg' = msg
          \/ \E m \in Msgs : msg[m] = Free /\ msg' = [msg EXCEPT ![m] = [ev |-> Top.ev, ref |-> 0]]
      BY <2>3 DEF PublishNoMemory
    <3> QED BY <1>2, <2>2, <3>1
  <2>4. CASE PublishDone
    <3>1. Top.msg \in Msgs /\ IsPub(Top)
      BY <2>4, BaseOnTop, PopForms DEF Known
    <3>2. msg' = [msg EXCEPT ![Top.msg] = IF msg[Top.msg].ref = 0 THEN Free ELSE msg[Top.msg]]
      BY <1>2, <2>4, <3>1 DEF PublishDone
    <3>3. Top.msg # f.msg
      BY <1>3, <2>1, <2>2, <3>1 DEF Apart
    <3> QED BY <1>2, <2>2, <3>1, <3>2, <3>3
  <2>5. CASE ExecDone \/ \E s \in Servers : PublishSaveFails(s)
    BY <2>5 DEF ExecDone, PublishSaveFails, eventVars
  <2> QED BY <2>3, <2>4, <2>5
<1>4. CareOf(Tail(stack), queue, subs, msg')
  <2>1. CareOf(Tail(stack), queue, subs, msg) /\ Tail(stack) \in Seq(Frames)
    BY <1>2, CareTop
  <2> QED BY <1>3, <2>1, CareMessages
<1> QED BY <1>1, <1>2, <1>4 DEF Known, CareInv

\* The publication that takes a free message.
LEMMA CareLock ==
  ASSUME Known, PublishLock
  PROVE  CareInv'
<1>1. PICK m \in Msgs, g \in PubFrames :
           /\ stack # <<>> /\ Top \in PubFrames
           /\ msg[m] = Free /\ msg' = [msg EXCEPT ![m] = [ev |-> Top.ev, ref |-> 0]]
           /\ g.ev = Top.ev /\ g.msg = m /\ g.cur = "head" /\ g.ok = Top.ok
           /\ stack' = <<g>> \o Tail(stack) /\ UNCHANGED <<subs, queue>>
  BY BaseOnTop, PublishLockForm DEF Known
<1>2. g \in Frames /\ IsPub(g) /\ ~IsExec(g) /\ msg \in [Msgs -> Records] /\ g.ok
  <2>1. Top.ok
    BY <1>1, CareTop, FrameKnown
  <2> QED BY <1>1, <2>1 DEF Frames, PubFrames, IsPub, IsExec, Known, Base, EventTypes
<1>3. \A f \in ToSet(Tail(stack)) : f.msg # m
  BY <1>1, CareTop, FrameKnown, EventAssumption
<1>4. \A f \in ToSet(Tail(stack)) : Apart(g, f, queue)
  BY <1>1, <1>2, <1>3 DEF Apart
<1>5. PubOK(g, queue, subs, msg')
  <2>1. \A s \in Servers : m \notin ToSet(queue[s])
    BY <1>1, HeldNotFree DEF Known
  <2>2. msg'[m].ev = Top.ev
    BY <1>1, <1>2
  <2> QED BY <1>1, <2>1, <2>2 DEF PubOK
<1>6. CareOf(Tail(stack), queue, subs, msg')
  <2>1. CareOf(Tail(stack), queue, subs, msg) /\ Tail(stack) \in Seq(Frames)
    BY <1>1, CareTop
  <2>2. ASSUME NEW f \in ToSet(Tail(stack)), IsPub(f), Locked(f)
        PROVE  msg'[f.msg] = msg[f.msg]
    <3>1. f.msg \in Msgs
      BY <1>1, <2>2, CareTop, FrameKnown
    <3> QED BY <1>1, <1>2, <1>3, <3>1
  <2> QED BY <2>1, <2>2, CareMessages
<1>7. CareOf(<<g>> \o Tail(stack), queue, subs, msg')
  <2>1. Tail(stack) \in Seq(Frames)
    BY <1>1, CareTop
  <2> QED BY <1>2, <1>4, <1>5, <1>6, <2>1, CarePush
<1> QED BY <1>1, <1>7 DEF Known, CareInv

\* The next node of a publication is one that it has not reached before.
LEMMA ReachesNew ==
  ASSUME Known, NEW s \in Servers, Reaches(s)
  PROVE  /\ OnList(subs[Top.ev], s)
         /\ JoinOrLeave => \A t \in Servers :
              Top.msg \in ToSet(queue[t]) => t # s /\ Passed(subs[Top.ev], t, s)
<1> DEFINE l == subs[Top.ev]
           k == NextNode(Top)
<1>1. stack # <<>> /\ IsPub(Top) /\ Locked(Top) /\ Top.ev \in Events
  BY BaseOnTop, ReachesForm DEF Known
<1>2. /\ l \in Seq(Servers) /\ Once(l) /\ DOMAIN l = 1 .. Len(l) /\ Len(l) \in Nat
  BY <1>1, LenProperties DEF Known, Base, EventTypes, SubsInv
<1>3. k <= Len(l) /\ s = l[k] /\ PubOK(Top, queue, subs, msg)
  BY <1>1, CareTop, FrameKnown DEF Reaches
<1>4. CASE Top.cur = "head"
  <2>1. k = 1 /\ 1 \in DOMAIN l
    BY <1>2, <1>3, <1>4 DEF NextNode
  <2>2. JoinOrLeave => \A t \in Servers : Top.msg \notin ToSet(queue[t])
    BY <1>1, <1>3, <1>4 DEF PubOK
  <2>3. OnList(l, s)
    BY <1>3, <2>1 DEF OnList
  <2> QED BY <2>2, <2>3
<1>5. CASE Top.cur # "head"
  <2> DEFINE p == Position(l, Top.cur)
  <2>1. OnList(l, Top.cur)
    BY <1>1, <1>3, <1>5 DEF PubOK
  <2>2. p \in DOMAIN l /\ l[p] = Top.cur
    BY <2>1 DEF OnList, Position
  <2>3. k = p + 1
    BY <1>5 DEF NextNode
  <2> HIDE DEF p, k
  <2>4. k \in DOMAIN l /\ s = l[k] /\ p < k
    BY <1>2, <1>3, <2>2, <2>3
  <2>5. OnList(l, s)
    BY <2>4 DEF OnList
  <2>6. ASSUME JoinOrLeave, NEW t \in Servers, Top.msg \in ToSet(queue[t])
        PROVE  t # s /\ Passed(l, t, s)
    <3>1. CASE NotAfter(l, t, Top.cur)
      <4>1. PICK i \in DOMAIN l, j \in DOMAIN l : i <= j /\ l[i] = t /\ l[j] = Top.cur
        BY <3>1 DEF NotAfter
      <4>2. j = p
        BY <1>2, <2>2, <4>1 DEF Once
      <4>3. i <= k /\ i # k
        BY <1>2, <2>2, <2>4, <4>1, <4>2
      <4>4. t # s
        BY <1>2, <2>4, <4>1, <4>3 DEF Once
      <4> QED BY <2>4, <4>1, <4>3, <4>4 DEF NotAfter, Passed
    <3>2. CASE NoJoin /\ ~OnList(l, t)
      BY <2>5, <3>2 DEF Passed
    <3> QED BY <1>1, <1>3, <2>6, <3>1, <3>2 DEF PubOK, Passed
  <2> QED BY <2>5, <2>6
<1> QED BY <1>4, <1>5

\* The publication that goes on to s: g is its frame afterwards.
LEMMA CareGoes ==
  ASSUME Known, NEW s \in Servers, Reaches(s), NEW g \in PubFrames, PubGoesTo(g, s)
  PROVE  /\ stack # <<>> /\ g \in Frames /\ IsPub(g) /\ Locked(g) /\ g.ok
         /\ g.msg \in Msgs /\ g.ev = Top.ev /\ g.cur = s /\ g.msg = Top.msg
         /\ Tail(stack) \in Seq(Frames) /\ stack' = <<g>> \o Tail(stack)
         /\ \A f \in ToSet(Tail(stack)) : f.msg # g.msg
         /\ \A q : \A f \in ToSet(Tail(stack)) : Apart(g, f, q)
         /\ s # "head" /\ msg[g.msg].ev = g.ev
<1>1. stack # <<>> /\ IsPub(Top) /\ Locked(Top) /\ Top.msg \in Msgs
  BY BaseOnTop, ReachesForm DEF Known
<1>2. Top.ok /\ PubOK(Top, queue, subs, msg) /\ Tail(stack) \in Seq(Frames)
  BY <1>1, CareTop, FrameKnown
<1>3. /\ g \in Frames /\ IsPub(g) /\ ~IsExec(g) /\ Locked(g) /\ g.ok
      /\ g.msg = Top.msg /\ g.ev = Top.ev /\ g.cur = s /\ stack' = <<g>> \o Tail(stack)
  BY <1>2 DEF PubGoesTo, Frames, PubFrames, IsPub, IsExec
<1>4. \A f \in ToSet(Tail(stack)) : f.msg # g.msg
  <2>1. \A f \in ToSet(Tail(stack)) : Apart(Top, f, queue)
    BY <1>1, CareTop
  <2> QED BY <1>1, <1>3, <2>1, EventAssumption DEF Apart
<1>5. \A q : \A f \in ToSet(Tail(stack)) : Apart(g, f, q)
  BY <1>3, <1>4 DEF Apart
<1>6. s # "head"
  BY EventAssumption
<1>7. msg[g.msg].ev = g.ev
  BY <1>1, <1>2, <1>3 DEF PubOK
<1> QED BY <1>1, <1>2, <1>3, <1>4, <1>5, <1>6, <1>7

LEMMA CareSkip ==
  ASSUME Known, NEW s \in Servers, PublishSkip(s) \/ PublishSync(s)
  PROVE  CareInv'
<1>1. Reaches(s) /\ UNCHANGED <<subs, queue, msg>>
  BY DEF PublishSkip, PublishSync, eventVars
<1>2. PICK g \in PubFrames : PubGoesTo(g, s)
  BY <1>1, BaseOnTop, GoesToForm DEF PublishSkip, PublishSync, Known
<1>3. /\ stack # <<>> /\ g \in Frames /\ g.ok /\ g.ev = Top.ev /\ g.cur = s /\ g.msg = Top.msg
      /\ Tail(stack) \in Seq(Frames) /\ stack' = <<g>> \o Tail(stack)
      /\ \A f \in ToSet(Tail(stack)) : Apart(g, f, queue)
      /\ s # "head" /\ msg[g.msg].ev = g.ev
  BY <1>1, <1>2, CareGoes
<1>4. PubOK(g, queue, subs, msg)
  BY <1>1, <1>3, ReachesNew DEF PubOK
<1>5. CareOf(<<g>> \o Tail(stack), queue, subs, msg)
  BY <1>3, <1>4, CareTop, CarePush
<1> QED BY <1>1, <1>3, <1>5 DEF Known, CareInv

LEMMA AppendElements ==
  ASSUME NEW S, NEW l \in Seq(S), NEW x \in S
  PROVE  ToSet(Append(l, x)) = ToSet(l) \cup {x}
<1> DEFINE r == Append(l, x)
<1>1. /\ Len(l) \in Nat /\ DOMAIN l = 1 .. Len(l) /\ DOMAIN r = 1 .. Len(l) + 1
      /\ r[Len(l) + 1] = x /\ \A i \in 1 .. Len(l) : r[i] = l[i]
  BY LenProperties, AppendProperties
<1> HIDE DEF r
<1>2. ASSUME NEW y \in ToSet(r) PROVE y \in ToSet(l) \cup {x}
  <2>1. PICK i \in 1 .. Len(l) + 1 : r[i] = y
    BY <1>1 DEF ToSet
  <2>2. i \in 1 .. Len(l) \/ i = Len(l) + 1
    BY <1>1
  <2> QED BY <1>1, <2>1, <2>2 DEF ToSet
<1>3. ASSUME NEW y \in ToSet(l) PROVE y \in ToSet(r)
  BY <1>1 DEF ToSet
<1>4. x \in ToSet(r)
  BY <1>1 DEF ToSet
<1>5. ToSet(r) = ToSet(l) \cup {x}
  BY <1>2, <1>3, <1>4
<1> QED BY <1>5 DEF r

LEMMA CareSave ==
  ASSUME Known, NEW s \in Servers, PublishSave(s)
  PROVE  CareInv'
<1>1. /\ Reaches(s) /\ subs' = subs
      /\ queue' = [queue EXCEPT ![s] = Append(queue[s], Top.msg)]
      /\ msg' = [msg EXCEPT ![Top.msg].ref = msg[Top.msg].ref + 1]
  BY DEF PublishSave
<1>2. PICK g \in PubFrames : PubGoesTo(g, s)
  BY <1>1, BaseOnTop, GoesToForm DEF PublishSave, Known
<1>3. /\ stack # <<>> /\ g \in Frames /\ g.ok /\ g.ev = Top.ev /\ g.cur = s /\ g.msg = Top.msg
      /\ g.msg \in Msgs
      /\ Tail(stack) \in Seq(Frames) /\ stack' = <<g>> \o Tail(stack)
      /\ \A f \in ToSet(Tail(stack)) : f.msg # g.msg
      /\ \A q : \A f \in ToSet(Tail(stack)) : Apart(g, f, q)
      /\ s # "head" /\ msg[g.msg].ev = g.ev
  BY <1>1, <1>2, CareGoes
<1>4. queue \in [Servers -> Seq(Msgs)] /\ msg \in [Msgs -> Records] /\ queue[s] \in Seq(Msgs)
  BY DEF Known, Base, EventTypes
<1>5. /\ ToSet(Append(queue[s], g.msg)) = ToSet(queue[s]) \cup {g.msg}
      /\ JoinOrLeave => g.msg \notin ToSet(queue[s])
  BY <1>1, <1>3, <1>4, AppendElements, ReachesNew
<1>6. /\ queue'[s] = Append(queue[s], g.msg) /\ ToSet(queue'[s]) = ToSet(queue[s]) \cup {g.msg}
      /\ \A t \in Servers : t # s => queue'[t] = queue[t]
  BY <1>1, <1>3, <1>4, <1>5
<1>7. \A m \in Msgs : msg'[m].ev = msg[m].ev /\ (m # g.msg => msg'[m] = msg[m])
  BY <1>1, <1>3, <1>4 DEF Records
<1>8. PubOK(g, queue', subs, msg')
  <2>1. JoinOrLeave =>
          \A t \in Servers : Top.msg \in ToSet(queue[t]) => Passed(subs[Top.ev], t, s)
    BY <1>1, ReachesNew
  <2>2. OnList(subs[Top.ev], s)
    BY <1>1, ReachesNew
  <2>3. NotAfter(subs[Top.ev], s, s)
    <3>1. PICK i \in DOMAIN subs[Top.ev] : subs[Top.ev][i] = s
      BY <2>2 DEF OnList
    <3>2. i \in Nat
      <4>1. Top.ev \in Events
        BY <1>1, BaseOnTop, ReachesForm DEF Known
      <4>2. subs[Top.ev] \in Seq(Servers)
        BY <4>1 DEF Known, Base, EventTypes
      <4>3. DOMAIN subs[Top.ev] = 1 .. Len(subs[Top.ev]) /\ Len(subs[Top.ev]) \in Nat
        BY <4>2, LenProperties
      <4> QED BY <4>3
    <3>3. i <= i
      BY <3>2
    <3> QED BY <3>1, <3>3 DEF NotAfter
  <2>4. JoinOrLeave =>
          \A t \in Servers : g.msg \in ToSet(queue'[t]) => Passed(subs[g.ev], t, g.cur)
    BY <1>3, <1>6, <2>1, <2>3 DEF Passed
  <2>5. msg'[g.msg].ev = g.ev
    BY <1>3, <1>7
  <2> QED BY <1>3, <2>2, <2>4, <2>5 DEF PubOK
<1>9. CareOf(Tail(stack), queue', subs, msg')
  <2>1. CareOf(Tail(stack), queue, subs, msg) /\ ToSet(Tail(stack)) \subseteq ToSet(stack)
    BY <1>3, CareTop
  <2>2. ASSUME NEW f \in ToSet(Tail(stack)), NEW h \in ToSet(Tail(stack)), Apart(f, h, queue)
        PROVE  Apart(f, h, queue')
    <3>1. IsExec(f) => f.srv \in Servers
      BY <2>1, FrameKnown
    <3>2. h.msg # g.msg
      BY <1>3
    <3> QED BY <1>6, <2>2, <3>1, <3>2 DEF Apart
  <2>3. ASSUME NEW f \in ToSet(Tail(stack)), PubOK(f, queue, subs, msg)
        PROVE  PubOK(f, queue', subs, msg')
    <3>1. IsPub(f) /\ Locked(f) => f.msg \in Msgs
      BY <2>1, FrameKnown
    <3>2. f.msg # g.msg
      BY <1>3
    <3> QED BY <1>6, <1>7, <2>3, <3>1, <3>2 DEF PubOK
  <2> QED BY <2>1, <2>2, <2>3, CareKept
<1>10. CareOf(<<g>> \o Tail(stack), queue', subs, msg')
  BY <1>3, <1>8, <1>9, CarePush
<1>11. ASSUME JoinOrLeave PROVE \A t \in Servers : Once(queue'[t])
  <2>1. \A t \in Servers : Once(queue[t])
    BY <1>11 DEF Known, CareInv
  <2>2. ~OnList(queue[s], g.msg)
    BY <1>5, <1>11 DEF OnList, ToSet
  <2>3. Once(Append(queue[s], g.msg))
    BY <1>3, <1>4, <2>1, <2>2, AppendOnceProperties
  <2> QED BY <1>6, <2>1, <2>3
<1> QED BY <1>1, <1>3, <1>10, <1>11 DEF CareInv

\* A drain locks.
LEMMA CareExecLock ==
  ASSUME Known, ExecLock
  PROVE  CareInv'
<1>1. PICK g \in ExecFrames :
           /\ stack # <<>> /\ Top \in ExecFrames /\ IsExec(Top)
           /\ g.srv = Top.srv /\ g.msg = "none" /\ g.ok = Top.ok
           /\ stack' = <<g>> \o Tail(stack) /\ UNCHANGED eventVars
  BY BaseOnTop, ExecLockForm DEF Known
<1>2. g \in Frames /\ IsExec(g) /\ ~IsPub(g)
  BY DEF Frames, ExecFrames, IsExec, IsPub
<1>3. Top.ok /\ \A f \in ToSet(Tail(stack)) : Apart(Top, f, queue)
  BY <1>1, CareTop, FrameKnown
<1>4. \A f \in ToSet(Tail(stack)) : Apart(g, f, queue)
  BY <1>1, <1>2, <1>3 DEF Apart
<1>5. PubOK(g, queue, subs, msg)
  BY <1>2 DEF PubOK
<1>6. CareOf(<<g>> \o Tail(stack), queue, subs, msg)
  BY <1>1, <1>2, <1>3, <1>4, <1>5, CareTop, CarePush
<1> QED BY <1>1, <1>6 DEF Known, CareInv, eventVars

\* What a queue is after its first element m is taken.
LEMMA TailElements ==
  ASSUME NEW S, NEW l \in Seq(S), NEW m \in S, NEW t \in Seq(S), l = <<m>> \o t
  PROVE  ToSet(t) \subseteq ToSet(l) /\ m \in ToSet(l) /\ (Once(l) => Once(t))
<1> DEFINE r == <<m>> \o t
           n == Len(t)
<1>1. /\ n \in Nat /\ DOMAIN t = 1 .. n /\ DOMAIN r = 1 .. n + 1 /\ r[1] = m
      /\ \A i \in 1 .. n : r[i + 1] = t[i]
  BY PushSeq
<1> HIDE DEF r, n
<1>2. 1 \in DOMAIN r /\ \A i \in DOMAIN t : i + 1 \in DOMAIN r
  BY <1>1
<1>3. ToSet(t) \subseteq ToSet(r) /\ m \in ToSet(r)
  BY <1>1, <1>2 DEF ToSet
<1>4. ASSUME Once(r), NEW i \in DOMAIN t, NEW j \in DOMAIN t, t[i] = t[j] PROVE i = j
  <2>1. r[i + 1] = r[j + 1] /\ i + 1 \in DOMAIN r /\ j + 1 \in DOMAIN r
    BY <1>1, <1>2, <1>4
  <2>2. i + 1 = j + 1
    BY <1>4, <2>1 DEF Once
  <2> QED BY <1>1, <2>2
<1>5. Once(r) => Once(t)
  BY <1>4 DEF Once
<1> QED BY <1>3, <1>5 DEF r

\* A drain takes a message: no drain below is waiting for it, and no
\* publication is giving it away.
LEMMA CareTake ==
  ASSUME Known, ExecTake
  PROVE  CareInv'
<1>1. PICK s \in Servers, m \in Msgs, g \in ExecFrames : TakeForm(s, m, g)
  BY BaseOnTop, ExecTakeForm DEF Known
<1> DEFINE fs == Tail(stack)
           I == DrainBreaks(fs, s)
<1>2. /\ stack # <<>> /\ Top \in ExecFrames /\ IsExec(Top) /\ Top.srv = s
      /\ queue' = [queue EXCEPT ![s] = Tail(queue[s])] /\ queue[s] = <<m>> \o Tail(queue[s])
      /\ Tail(queue[s]) \in Seq(Msgs) /\ g.srv = s /\ g.ok = Top.ok
      /\ stack' = <<g>> \o Break(fs, I) /\ subs' = subs
      /\ g.msg \in {m, "none"}
      /\ msg' = msg \/ msg' = [msg EXCEPT ![m] = Release(m, 1)]
  BY <1>1 DEF TakeForm
<1>3. g \in Frames /\ IsExec(g) /\ ~IsPub(g)
  BY DEF Frames, ExecFrames, IsExec, IsPub
<1>4. /\ queue \in [Servers -> Seq(Msgs)] /\ msg \in [Msgs -> Records]
      /\ queue[s] \in Seq(Msgs) /\ (JoinOrLeave => \A t \in Servers : Once(queue[t]))
  BY DEF Known, Base, EventTypes, CareInv
<1>5. /\ ToSet(Tail(queue[s])) \subseteq ToSet(queue[s]) /\ m \in ToSet(queue[s])
      /\ JoinOrLeave => Once(Tail(queue[s]))
  <2> DEFINE l == queue[s]
             r == Tail(queue[s])
  <2>1. l \in Seq(Msgs) /\ r \in Seq(Msgs) /\ l = <<m>> \o r /\ (JoinOrLeave => Once(l))
    BY <1>2, <1>4
  <2> HIDE DEF l, r
  <2>2. ToSet(r) \subseteq ToSet(l) /\ m \in ToSet(l) /\ (JoinOrLeave => Once(r))
    BY <2>1, TailElements
  <2> QED BY <2>2 DEF l, r
<1>6. /\ Top.ok /\ fs \in Seq(Frames) /\ CareOf(fs, queue, subs, msg)
      /\ ToSet(fs) \subseteq ToSet(stack)
      /\ \A f \in ToSet(fs) : Apart(Top, f, queue)
  BY <1>2, CareTop, FrameKnown
<1>7. Break(fs, I) = fs
  <2>1. ASSUME NEW i \in DOMAIN fs PROVE i \notin I
    <3>1. Apart(Top, fs[i], queue)
      BY <1>6 DEF ToSet
    <3> QED BY <1>2, <3>1 DEF Apart, DrainBreaks
  <2>2. I \cap DOMAIN fs = {}
    BY <2>1
  <2> QED BY <1>6, <2>2, BreakNobody
<1>8. \A t \in Servers : /\ ToSet(queue'[t]) \subseteq ToSet(queue[t])
                         /\ JoinOrLeave => Once(queue'[t])
  BY <1>2, <1>4, <1>5
<1>9. \A f \in ToSet(fs) : IsPub(f) => f.msg # m
  BY <1>2, <1>5, <1>6 DEF Apart
<1>10. \A f \in ToSet(fs) : Apart(g, f, queue')
  BY <1>2, <1>3, <1>6, <1>8, <1>9 DEF Apart
<1>11. CareOf(fs, queue', subs, msg')
  <2>1. ASSUME NEW f \in ToSet(fs), IsPub(f), Locked(f) PROVE msg'[f.msg] = msg[f.msg]
    <3>1. f.msg \in Msgs
      BY <1>6, <2>1, FrameKnown
    <3> QED BY <1>2, <1>4, <1>9, <2>1, <3>1
  <2> QED BY <1>6, <1>8, <2>1, CareShrinks
<1>12. PubOK(g, queue', subs, msg')
  BY <1>3 DEF PubOK
<1>13. CareOf(<<g>> \o fs, queue', subs, msg')
  BY <1>2, <1>3, <1>6, <1>10, <1>11, <1>12, CarePush
<1> QED BY <1>2, <1>7, <1>8, <1>13 DEF CareInv

LEMMA CareReturn ==
  ASSUME Known, CbReturn
  PROVE  CareInv'
<1>1. stack # <<>> /\ UNCHANGED <<subs, queue>>
  BY BaseOnTop, CbReturnForm DEF Known
<1>2. /\ Top \in ToSet(stack) /\ Tail(stack) \in Seq(Frames)
      /\ ToSet(Tail(stack)) \subseteq ToSet(stack)
      /\ CareOf(Tail(stack), queue, subs, msg)
      /\ \A f \in ToSet(Tail(stack)) : Apart(Top, f, queue)
  BY <1>1, CareTop
<1>3. Top.ok /\ PubOK(Top, queue, subs, msg) /\ msg \in [Msgs -> Records]
  BY <1>2, FrameKnown DEF Known, Base, EventTypes
<1>4. CASE \E g \in PubFrames :
             /\ IsPub(Top) /\ Top.pc = "cb"
             /\ g.ev = Top.ev /\ g.msg = Top.msg /\ g.cur = Top.cur /\ g.ok = Top.ok
             /\ stack' = <<g>> \o Tail(stack) /\ msg' = msg
  <2>1. PICK g \in PubFrames :
             /\ IsPub(Top) /\ Top.pc = "cb"
             /\ g.ev = Top.ev /\ g.msg = Top.msg /\ g.cur = Top.cur /\ g.ok = Top.ok
             /\ stack' = <<g>> \o Tail(stack) /\ msg' = msg
    BY <1>4
  <2>2. g \in Frames /\ IsPub(g) /\ ~IsExec(g) /\ Locked(Top)
    BY <2>1 DEF Frames, PubFrames, IsPub, IsExec, Locked
  <2>3. PubOK(g, queue, subs, msg) /\ \A f \in ToSet(Tail(stack)) : Apart(g, f, queue)
    BY <1>2, <1>3, <2>1, <2>2 DEF PubOK, Apart
  <2>4. CareOf(<<g>> \o Tail(stack), queue, subs, msg)
    BY <1>2, <1>3, <2>1, <2>2, <2>3, CarePush
  <2> QED BY <1>1, <2>1, <2>4 DEF Known, CareInv
<1>5. CASE \E g \in ExecFrames :
             /\ IsExec(Top) /\ Top.msg \in Msgs
             /\ g.srv = Top.srv /\ g.msg = "none" /\ g.ok = Top.ok
             /\ stack' = <<g>> \o Tail(stack)
             /\ msg' = [msg EXCEPT ![Top.msg] = Release(Top.msg, 1)]
  <2>1. PICK g \in ExecFrames :
             /\ IsExec(Top) /\ Top.msg \in Msgs
             /\ g.srv = Top.srv /\ g.msg = "none" /\ g.ok = Top.ok
             /\ stack' = <<g>> \o Tail(stack)
             /\ msg' = [msg EXCEPT ![Top.msg] = Release(Top.msg, 1)]
    BY <1>5
  <2>2. g \in Frames /\ IsExec(g) /\ ~IsPub(g)
    BY DEF Frames, ExecFrames, IsPub, IsExec
  <2>3. \A f \in ToSet(Tail(stack)) : Apart(g, f, queue)
    BY <1>2, <2>1, <2>2 DEF Apart
  <2>4. CareOf(Tail(stack), queue, subs, msg')
    <3>1. ASSUME NEW f \in ToSet(Tail(stack)), IsPub(f), Locked(f)
          PROVE  msg'[f.msg] = msg[f.msg]
      <4>1. f.msg \in Msgs
        BY <1>2, <3>1, FrameKnown
      <4>2. f.msg # Top.msg
        BY <1>2, <2>1, <3>1, EventAssumption DEF Apart
      <4> QED BY <1>3, <2>1, <4>1, <4>2
    <3> QED BY <1>2, <3>1, CareMessages
  <2>5. PubOK(g, queue, subs, msg')
    BY <2>2 DEF PubOK
  <2>6. CareOf(<<g>> \o Tail(stack), queue, subs, msg')
    BY <1>2, <1>3, <2>1, <2>2, <2>3, <2>4, <2>5, CarePush
  <2> QED BY <1>1, <2>1, <2>6 DEF Known, CareInv
<1> QED BY <1>4, <1>5, BaseOnTop, CbReturnForm DEF Known

LEMMA CareClear ==
  ASSUME Careful, Known, NEW s \in Servers, sh_event_server_clear_msg(s)
  PROVE  CareInv'
<1> DEFINE I == DrainBreaks(stack, s)
<1>1. /\ queue' = [queue EXCEPT ![s] = <<>>] /\ msg' = Cleared(s) /\ stack' = Break(stack, I)
      /\ subs' = subs /\ MayDrain(s)
  BY DEF sh_event_server_clear_msg
<1>2. /\ stack \in Seq(Frames) /\ queue \in [Servers -> Seq(Msgs)] /\ msg \in [Msgs -> Records]
      /\ CareOf(stack, queue, subs, msg)
      /\ JoinOrLeave => \A t \in Servers : Once(queue[t])
  BY DEF Known, Base, EventTypes, CareInv
<1>3. Break(stack, I) = stack
  <2>1. ASSUME NEW i \in I PROVE FALSE
    <3>1. stack[i] \in ToSet(stack) /\ Locked(stack[i])
      BY <2>1 DEF DrainBreaks, ToSet
    <3>2. masked
      BY <3>1, LockedMasked DEF Known
    <3> QED BY <1>1, <2>1, <3>2 DEF MayDrain
  <2>2. I \cap DOMAIN stack = {}
    BY <2>1
  <2> QED BY <1>2, <2>2, BreakNobody
<1>4. ASSUME NEW f \in ToSet(stack), IsPub(f), Locked(f)
      PROVE  msg'[f.msg] = msg[f.msg]
  <2>1. masked /\ f.msg \in Msgs
    BY <1>4, LockedMasked, FrameKnown DEF Known
  <2>2. f.msg \notin ToSet(queue[s])
    BY <1>1, <1>4, <2>1 DEF MayDrain, ToSet
  <2>3. Occurs(f.msg, queue[s]) = {}
    BY <2>2 DEF Occurs, ToSet
  <2>4. Cardinality({}) = 0
    BY FS_EmptySet
  <2> QED BY <1>1, <2>1, <2>3, <2>4 DEF Cleared
<1>5. \A t \in Servers : /\ ToSet(queue'[t]) \subseteq ToSet(queue[t])
                         /\ JoinOrLeave => Once(queue'[t])
  <2>1. ToSet(<<>>) = {} /\ Once(<<>>)
    BY DEF ToSet, Once
  <2> QED BY <1>1, <1>2, <2>1
<1>6. CareOf(stack, queue', subs, msg')
  BY <1>2, <1>4, <1>5, CareShrinks
<1> QED BY <1>1, <1>3, <1>5, <1>6 DEF CareInv

\* Removal keeps the order of the others.
LEMMA RemoveKeepsOrder ==
  ASSUME NEW S, NEW l \in Seq(S), NEW x, NEW y, NEW z, y # x, z # x, NotAfter(l, y, z)
  PROVE  NotAfter(sh_list_remove(l, x), y, z)
<1>1. CASE ~OnList(l, x)
  BY <1>1 DEF sh_list_remove
<1>2. CASE OnList(l, x)
  <2> DEFINE k == Position(l, x)
             r == RemoveAt(l, k)
  <2>1. k \in DOMAIN l /\ l[k] = x
    BY <1>2 DEF OnList, Position
  <2> HIDE DEF k
  <2>2. sh_list_remove(l, x) = r
    BY <1>2 DEF sh_list_remove, k
  <2>3. /\ r \in Seq(S) /\ Len(r) = Len(l) - 1
        /\ \A i \in 1 .. Len(l) - 1 : r[i] = IF i < k THEN l[i] ELSE l[i + 1]
    BY <2>1, RemoveAtProperties
  <2> HIDE DEF r
  <2>4. /\ Len(l) \in Nat /\ DOMAIN l = 1 .. Len(l) /\ k \in 1 .. Len(l)
        /\ DOMAIN r = 1 .. Len(l) - 1
    BY <2>1, <2>3, LenProperties
  <2>5. PICK i \in 1 .. Len(l), j \in 1 .. Len(l) : i <= j /\ l[i] = y /\ l[j] = z
    BY <2>4 DEF NotAfter
  <2>6. ASSUME NEW m \in 1 .. Len(l), m # k
        PROVE  \E n \in 1 .. Len(l) - 1 : r[n] = l[m] /\ n = IF m < k THEN m ELSE m - 1
    <3>1. CASE m < k
      <4>1. m \in 1 .. Len(l) - 1
        BY <2>4, <3>1
      <4> QED BY <2>3, <3>1, <4>1
    <3>2. CASE m > k
      <4>1. m - 1 \in 1 .. Len(l) - 1 /\ ~(m - 1 < k) /\ (m - 1) + 1 = m /\ ~(m < k)
        BY <2>4, <3>2
      <4> QED BY <2>3, <4>1
    <3> QED BY <2>4, <2>6, <3>1, <3>2
  <2>7. i # k /\ j # k
    BY <2>1, <2>5
  <2>8. PICK a \in 1 .. Len(l) - 1 : r[a] = y /\ a = IF i < k THEN i ELSE i - 1
    BY <2>5, <2>6, <2>7
  <2>9. PICK b \in 1 .. Len(l) - 1 : r[b] = z /\ b = IF j < k THEN j ELSE j - 1
    BY <2>5, <2>6, <2>7
  <2>10. a <= b
    BY <2>4, <2>5, <2>7, <2>8, <2>9
  <2> QED BY <2>2, <2>4, <2>8, <2>9, <2>10 DEF NotAfter
<1> QED BY <1>1, <1>2

\* A server leaves lists of subscribers: no publication that walks one of
\* them stands on it.
LEMMA CareUnlink ==
  ASSUME Careful, Known, NEW s \in Servers, NEW E \in SUBSET Events,
         \/ Unlink(s, E)
         \/ sh_event_server_destroy(s) /\ E = Events,
         stack # <<>> /\ masked => ~NoLeave
  PROVE  CareInv'
<1>1. /\ UnlinkBreaks(stack, s, E) = {} /\ UNCHANGED <<queue, msg>>
      /\ \A e \in Events : subs'[e] = IF e \in E THEN sh_list_remove(subs[e], s) ELSE subs[e]
  BY DEF Unlink, sh_event_server_destroy, MayUnlink
<1>2. stack \in Seq(Frames) /\ CareOf(stack, queue, subs, msg)
  BY DEF Known, Base, EventTypes, CareInv
<1>3. stack' = stack
  <2>1. PICK I : stack' = Break(stack, I) /\ I = {}
    <3>1. CASE Unlink(s, E)
      BY <1>1, <3>1 DEF Unlink
    <3>2. CASE sh_event_server_destroy(s) /\ E = Events
      <4>1. ExecsOf(stack, s) = {}
        BY <3>2 DEF sh_event_server_destroy
      <4> QED BY <1>1, <3>2, <4>1 DEF sh_event_server_destroy
    <3> QED BY <3>1, <3>2
  <2>2. I \cap DOMAIN stack = {}
    BY <2>1
  <2> QED BY <1>2, <2>1, <2>2, BreakNobody
<1>4. ASSUME NEW f \in ToSet(stack), PubOK(f, queue, subs, msg)
      PROVE  PubOK(f, queue, subs', msg)
  <2> SUFFICES ASSUME IsPub(f), Locked(f) PROVE PubOK(f, queue, subs', msg)
    BY DEF PubOK
  <2>1. masked /\ f.ev \in Events /\ stack # <<>>
    BY LockedMasked, FrameKnown DEF Known, ToSet
  <2>2. CASE f.ev \notin E
    BY <1>1, <1>4, <2>1, <2>2 DEF PubOK
  <2>3. CASE f.ev \in E
    <3> DEFINE l == subs[f.ev]
               r == sh_list_remove(l, s)
    <3>1. f.cur # s
      BY <1>1, <2>3 DEF UnlinkBreaks, ToSet
    <3>2. l \in Seq(Servers) /\ Once(l) /\ subs'[f.ev] = r
      BY <1>1, <2>1, <2>3 DEF Known, Base, EventTypes, SubsInv
    <3>3. /\ \A y : y # s => (OnList(r, y) <=> OnList(l, y))
          /\ ~OnList(r, s)
      BY <3>2, RemoveProperties
    <3>4. \A y : y # s /\ NotAfter(l, y, f.cur) => NotAfter(r, y, f.cur)
      BY <3>1, <3>2, RemoveKeepsOrder
    <3> HIDE DEF l, r
    <3>5. /\ msg[f.msg].ev = f.ev
          /\ f.cur # "head" => OnList(l, f.cur)
          /\ JoinOrLeave => \A t \in Servers :
               f.msg \in ToSet(queue[t]) => f.cur # "head" /\ Passed(l, t, f.cur)
      BY <1>4 DEF PubOK, l
    <3>6. ASSUME JoinOrLeave, NEW t \in Servers, Passed(l, t, f.cur) PROVE Passed(r, t, f.cur)
      <4>1. NoJoin
        BY <2>1, <3>6 DEF JoinOrLeave
      <4> QED BY <3>3, <3>4, <3>6, <4>1 DEF Passed
    <3> QED BY <3>1, <3>2, <3>3, <3>5, <3>6 DEF PubOK
  <2> QED BY <2>2, <2>3
<1>5. CareOf(stack, queue, subs', msg)
  BY <1>2, <1>4, CareKept
<1> QED BY <1>1, <1>3, <1>5 DEF Known, CareInv

\* A server joins a list of subscribers, or a new map is empty: no
\* publication is at a server then.
LEMMA CareSubscribers ==
  ASSUME Known, UNCHANGED <<queue, msg, stack>>,
         \/ /\ \E s \in Servers, e \in Events : subs' = [subs EXCEPT ![e] = Append(subs[e], s)]
            /\ stack # <<>> /\ masked => ~NoJoin
         \/ sh_event_map_create
         \/ subs' = subs
  PROVE  CareInv'
<1>1. stack \in Seq(Frames) /\ CareOf(stack, queue, subs, msg)
  BY DEF Known, Base, EventTypes, CareInv
<1>2. ASSUME NEW f \in ToSet(stack), PubOK(f, queue, subs, msg)
      PROVE  PubOK(f, queue, subs', msg)
  <2>1. CASE /\ \E s \in Servers, e \in Events : subs' = [subs EXCEPT ![e] = Append(subs[e], s)]
             /\ stack # <<>> /\ masked => ~NoJoin
    <3>1. PICK s \in Servers, e \in Events : subs' = [subs EXCEPT ![e] = Append(subs[e], s)]
      BY <2>1
    <3>2. subs \in [Events -> Seq(Servers)] /\ subs[e] \in Seq(Servers)
      BY DEF Known, Base, EventTypes
    <3> DEFINE l == subs[e]
               r == Append(l, s)
    <3>3. /\ Len(l) \in Nat /\ DOMAIN l = 1 .. Len(l) /\ DOMAIN r = 1 .. Len(l) + 1
          /\ \A i \in 1 .. Len(l) : r[i] = l[i]
      BY <3>2, LenProperties, AppendProperties
    <3>4. subs'[e] = r /\ \A x \in Events : x # e => subs'[x] = subs[x]
      BY <3>1, <3>2
    <3> HIDE DEF r
    <3>5. /\ \A y : OnList(l, y) => OnList(r, y)
          /\ \A x, y : NotAfter(l, x, y) => NotAfter(r, x, y)
      BY <3>3 DEF OnList, NotAfter
    <3>6. IsPub(f) => f.ev \in Events
      BY FrameKnown
    <3>7. Locked(f) => ~NoJoin
      BY <2>1, LockedMasked DEF Known, ToSet
    <3> QED BY <1>2, <3>4, <3>5, <3>6, <3>7 DEF PubOK, Passed
  <2>2. CASE sh_event_map_create
    <3>1. \A s \in Servers, e \in Events : ~OnList(subs[e], s)
      BY <2>2 DEF sh_event_map_create, Known, SubsInv
    <3>2. IsPub(f) /\ Locked(f) => f.cur = "head"
      <4>1. IsPub(f) => f.ev \in Events /\ f.cur \in Servers \cup {"head"}
        BY FrameKnown, FrameKinds DEF PubFrames
      <4> QED BY <1>2, <3>1, <4>1 DEF PubOK
    <3> QED BY <1>2, <3>2 DEF PubOK
  <2>3. CASE subs' = subs
    BY <1>2, <2>3
  <2> QED BY <2>1, <2>2, <2>3
<1>3. CareOf(stack, queue, subs', msg)
  BY <1>1, <1>2, CareKept
<1> QED BY <1>3 DEF Known, CareInv

\* A function starts: what it may do was asked of its caller.
LEMMA CareEnter ==
  ASSUME Careful, Known, \/ \E e \in Events : PublishEnter(e)
                         \/ \E s \in Servers : sh_event_handler(s)
  PROVE  CareInv'
<1>0. stack \in Seq(Frames) /\ CareOf(stack, queue, subs, msg)
  BY DEF Known, Base, EventTypes, CareInv
<1>1. CASE \E e \in Events : PublishEnter(e)
  <2>1. PICK g \in PubFrames : /\ g.pc = "check" /\ g.msg = "none" /\ g.ok
                               /\ stack' = <<g>> \o stack /\ UNCHANGED eventVars
    BY <1>1, PublishEnterForm DEF Known
  <2>2. g \in Frames /\ ~IsExec(g) /\ ~Locked(g)
    BY <2>1 DEF Frames, PubFrames, IsExec, Locked
  <2>3. PubOK(g, queue, subs, msg) /\ \A f \in ToSet(stack) : Apart(g, f, queue)
    BY <2>1, <2>2 DEF PubOK, Apart
  <2>4. CareOf(<<g>> \o stack, queue, subs, msg)
    BY <1>0, <2>1, <2>2, <2>3, CarePush
  <2> QED BY <2>1, <2>4 DEF Known, CareInv, eventVars
<1>2. CASE \E s \in Servers : sh_event_handler(s)
  <2>1. PICK s \in Servers : sh_event_handler(s)
    BY <1>2
  <2>2. PICK g \in ExecFrames : /\ g.srv = s /\ g.msg = "none" /\ g.ok
                                /\ stack' = <<g>> \o stack /\ UNCHANGED eventVars
    BY <2>1, HandlerForm DEF Known
  <2>3. g \in Frames /\ ~IsPub(g) /\ MayDrain(s)
    BY <2>1 DEF Frames, ExecFrames, IsPub, sh_event_handler
  <2>4. ASSUME NEW f \in ToSet(stack) PROVE Apart(g, f, queue)
    <3>1. PICK i \in DOMAIN stack : f = stack[i]
      BY DEF ToSet
    <3>2. ASSUME IsPub(f) PROVE f.msg \notin ToSet(queue[s])
      <4>1. CASE Locked(f)
        <5>1. masked
          BY <4>1, LockedMasked DEF Known
        <5> QED BY <2>3, <3>1, <3>2, <5>1 DEF MayDrain
      <4>2. CASE ~Locked(f)
        <5>1. f.msg = "none"
          BY <3>2, <4>2, FrameKnown
        <5>2. queue[s] \in Seq(Msgs)
          BY DEF Known, Base, EventTypes
        <5>3. \A j \in DOMAIN queue[s] : queue[s][j] \in Msgs
          BY <5>2, LenProperties, ElementOfSeq
        <5> QED BY <5>1, <5>3, EventAssumption DEF ToSet
      <4> QED BY <4>1, <4>2
    <3>3. ASSUME IsExec(f), Locked(f), f.srv = s PROVE ~f.more
      <4>1. masked
        BY <3>3, LockedMasked DEF Known
      <4>2. DrainBreaks(stack, s) = {}
        BY <2>3, <4>1 DEF MayDrain
      <4> QED BY <3>1, <3>3, <4>2 DEF DrainBreaks
    <3> QED BY <2>2, <3>2, <3>3 DEF Apart
  <2>5. PubOK(g, queue, subs, msg)
    BY <2>3 DEF PubOK
  <2>6. CareOf(<<g>> \o stack, queue, subs, msg)
    BY <1>0, <2>2, <2>3, <2>4, <2>5, CarePush
  <2> QED BY <2>2, <2>6 DEF Known, CareInv, eventVars
<1> QED BY <1>1, <1>2

LEMMA CareStep ==
  ASSUME Careful
  PROVE  Known /\ [EventNext]_allEventVars => CareInv'
<1> SUFFICES ASSUME Known, [EventNext]_allEventVars PROVE CareInv'
  OBVIOUS
<1>0. \A op : CanCall(op) /\ stack # <<>> /\ masked => op \in CbOps
  BY DEF CanCall
<1>1. CASE UNCHANGED allEventVars
  BY <1>1, CareSubscribers DEF allEventVars, eventVars, isrVars
<1>2. CASE EventSteps
  BY <1>2, CareLock, CarePop, CareSkip, CareSave, CareExecLock, CareTake, CareReturn
     DEF EventSteps
<1>3. CASE sh_event_map_create \/ sh_event_map_destroy
  BY <1>3, BaseQuiet, CareSubscribers DEF Known, sh_event_map_destroy
<1>4. ASSUME NEW s \in Servers,
             \/ sh_event_server_create(s) \/ sh_event_server_destroy(s)
             \/ sh_event_server_start(s)  \/ sh_event_server_stop(s)
             \/ sh_event_unsubscribe_all(s)
             \/ sh_event_handler(s)       \/ sh_event_server_clear_msg(s)
      PROVE  CareInv'
  <2>1. CASE sh_event_server_create(s) \/ sh_event_server_start(s) \/ sh_event_server_stop(s)
    <3>1. subs' = subs
      BY <2>1 DEF sh_event_server_create, sh_event_server_start, sh_event_server_stop
    <3> QED BY <2>1, <3>1, BaseQuiet, CareSubscribers DEF Known
  <2>2. CASE sh_event_server_destroy(s)
    <3>1. stack # <<>> /\ masked => ~NoLeave
      BY <1>0, <2>2 DEF sh_event_server_destroy, NoLeave
    <3>2. Events \in SUBSET Events
      OBVIOUS
    <3> QED BY <2>2, <3>1, <3>2, CareUnlink
  <2>3. CASE sh_event_unsubscribe_all(s)
    <3>1. stack # <<>> /\ masked => ~NoLeave
      BY <1>0, <2>3 DEF sh_event_unsubscribe_all, NoLeave
    <3> QED BY <2>3, <3>1, CareUnlink DEF sh_event_unsubscribe_all
  <2>4. CASE sh_event_handler(s)
    BY <2>4, CareEnter
  <2>5. CASE sh_event_server_clear_msg(s)
    BY <2>5, CareClear
  <2> QED BY <1>4, <2>1, <2>2, <2>3, <2>4, <2>5
<1>5. ASSUME NEW s \in Servers, NEW e \in Events,
             \/ sh_event_subscribe(s, e) \/ sh_event_subscribe_sync(s, e)
             \/ sh_event_unsubscribe(s, e)
      PROVE  CareInv'
  <2>1. ASSUME NEW m \in {"async", "sync"}, Subscribe(s, e, m),
               stack # <<>> /\ masked => ~NoJoin
        PROVE  CareInv'
    BY <2>1, CareSubscribers DEF Subscribe, isrVars
  <2>2. CASE sh_event_subscribe(s, e) \/ sh_event_subscribe_sync(s, e)
    <3>1. stack # <<>> /\ masked => ~NoJoin
      BY <1>0, <2>2 DEF sh_event_subscribe, sh_event_subscribe_sync, NoJoin
    <3> QED BY <2>1, <2>2, <3>1 DEF sh_event_subscribe, sh_event_subscribe_sync
  <2>3. CASE sh_event_unsubscribe(s, e)
    <3>1. stack # <<>> /\ masked => ~NoLeave
      BY <1>0, <2>3 DEF sh_event_unsubscribe, NoLeave
    <3> QED BY <2>3, <3>1, CareUnlink DEF sh_event_unsubscribe
  <2> QED BY <1>5, <2>2, <2>3
<1>6. ASSUME NEW e \in Events, sh_event_publish(e) PROVE CareInv'
  BY <1>6, CareEnter DEF sh_event_publish
<1> QED BY <1>1, <1>2, <1>3, <1>4, <1>5, <1>6 DEF EventNext

LEMMA KnownAlways ==
  ASSUME Careful
  PROVE  EventSpec => []Known
<1>1. EventInit => Known
  <2> SUFFICES ASSUME EventInit PROVE Known
    OBVIOUS
  <2>1. DOMAIN <<>> = {}
    OBVIOUS
  <2>2. CareInv
    BY <2>1 DEF EventInit, IsrInit, CareInv, CareOf, Once, ToSet
  <2>3. MaskDiscipline
    BY <2>1 DEF EventInit, IsrInit, MaskDiscipline
  <2> QED BY <2>2, <2>3, BaseInit, CountInit, SubsInit DEF Known
<1>2. Known /\ [EventNext]_allEventVars => Known'
  <2>1. Known /\ [EventNext]_allEventVars => CareInv'
    BY CareStep
  <2> QED BY <2>1, BaseStep, CountStep, MaskEventStep, SubsStep DEF Known
<1> QED BY <1>1, <1>2, PTL DEF EventSpec, allEventVars

(***************************************************************************)
(* Careful callbacks are enough for the list walks of sh_event.c: however  *)
(* publications, drains, callbacks and interrupts nest, the node that a    *)
(* loop keeps across a callback is still there when it is followed         *)
(* (sh_list_for_each in sh_event_publish_with_param,                       *)
(* sh_list_for_each_safe in _sh_event_execute).                            *)
(***************************************************************************)
THEOREM EventNodesCorrect ==
  ASSUME Careful
  PROVE  EventSpec => []NoStaleNode
<1>1. Known => NoStaleNode
  <2> SUFFICES ASSUME Known, NEW i \in DOMAIN stack PROVE stack[i].ok
    BY DEF NoStaleNode
  <2>1. stack[i] \in ToSet(stack)
    BY DEF ToSet
  <2> QED BY <2>1, FrameKnown
<1> QED BY <1>1, KnownAlways, PTL

(***************************************************************************)
(* Whoever still needs a message finds it: queues, publications and drains *)
(* never point to a message that was freed, or to one that was allocated   *)
(* again for another event (sh_event_check_if_msg_needs_to_free).          *)
(***************************************************************************)
THEOREM EventMessagesCorrect ==
  ASSUME Careful
  PROVE  EventSpec => []NoFreedMsg
<1>1. Known => NoFreedMsg
  <2> SUFFICES ASSUME Known PROVE NoFreedMsg
    OBVIOUS
  <2>1. ASSUME NEW s \in Servers, NEW m \in ToSet(queue[s]) PROVE msg[m] # Free
    <3>1. queue[s] \in Seq(Msgs)
      BY DEF Known, Base, EventTypes
    <3>2. \A i \in DOMAIN queue[s] : queue[s][i] \in Msgs
      BY <3>1, LenProperties, ElementOfSeq
    <3>3. m \in Msgs
      BY <3>2 DEF ToSet
    <3> QED BY <3>3, HeldNotFree DEF Known
  <2>2. ASSUME NEW i \in DOMAIN stack, stack[i].msg # "none"
        PROVE  /\ msg[stack[i].msg] # Free
               /\ IsPub(stack[i]) => msg[stack[i].msg].ev = stack[i].ev
    <3>1. stack[i] \in ToSet(stack)
      BY DEF ToSet
    <3> QED BY <2>2, <3>1, FrameKnown DEF PubOK
  <2> QED BY <2>1, <2>2 DEF NoFreedMsg
<1> QED BY <1>1, KnownAlways, PTL

(***************************************************************************)
(* A publication reaches a server once (sh_event_server_save_msg), while   *)
(* the callbacks of synchronous subscribers add servers to the list that   *)
(* is being walked, or take servers off it.  Callbacks that do both can    *)
(* bring a server back to the list behind the node the loop is at, where   *)
(* it gets the message again.                                              *)
(***************************************************************************)
THEOREM EventDeliversOnce ==
  ASSUME Careful, JoinOrLeave
  PROVE  EventSpec => []QueuedOnce
<1>1. Known => QueuedOnce
  <2> SUFFICES ASSUME Known, NEW s \in Servers, NEW m \in Msgs
               PROVE  Cardinality(Occurs(m, queue[s])) <= 1
    BY DEF QueuedOnce
  <2>1. queue[s] \in Seq(Msgs) /\ Once(queue[s])
    BY DEF Known, Base, EventTypes, CareInv
  <2>2. CASE OnList(queue[s], m)
    BY <2>1, <2>2, OnceOccurs
  <2>3. CASE ~OnList(queue[s], m)
    <3>1. Occurs(m, queue[s]) = {}
      BY <2>3 DEF OnList, Occurs
    <3>2. Cardinality({}) = 0
      BY FS_EmptySet
    <3> QED BY <3>1, <3>2
  <2> QED BY <2>2, <2>3
<1> QED BY <1>1, KnownAlways, PTL
=============================================================================
