--------------------------- MODULE ShConfigProofs ---------------------------
(***************************************************************************)
(* Theorems about the persistent configuration, for any variables of any   *)
(* sizes, any slot size and base address, and any number of restarts and   *)
(* failures of the storage.                                                *)
(***************************************************************************)
EXTENDS ShConfig, TLAPS

Places == 1 .. Len(Settable)

LEMMA SettableProperties ==
  /\ Len(Settable) \in Nat /\ DOMAIN Settable = Places
  /\ \A n \in Places : Settable[n] \in Vars
  /\ \A x \in Vars : SizeOf[x] \in 1 .. AddrSize /\ Factory[x] \in Patterns[x]
  /\ \A m, n \in Places : Settable[m] = Settable[n] => m = n
BY ConfigAssumption DEF Places, IsInjective, Range, Vars

\* Slots lie one behind the other, inside the storage.
LEMMA SlotBounds ==
  ASSUME NEW n \in Places
  PROVE  /\ Slot(n) \in Nat /\ Slot(n + 1) = Slot(n) + AddrSize
         /\ Base <= Slot(n) /\ Slot(n) + AddrSize <= Slot(Len(Settable) + 1)
<1>1. /\ AddrSize \in Nat \ {0} /\ Base \in Nat
      /\ n \in Nat \ {0} /\ Len(Settable) \in Nat /\ n <= Len(Settable)
  BY ConfigAssumption, SettableProperties DEF Places
<1> DEFINE k == n - 1
           d == Len(Settable) - n
<1>2. k \in Nat
  BY <1>1
<1>3. d \in Nat
  BY <1>1
<1>4. /\ n - 1 = k /\ (n + 1) - 1 = k + 1
      /\ (Len(Settable) + 1) - 1 = k + 1 + d
  BY <1>1
<1> HIDE DEF k, d
<1>5. AddrSize * k \in Nat /\ AddrSize * d \in Nat
  BY <1>1, <1>2, <1>3
<1>6. AddrSize * (k + 1) = AddrSize * k + AddrSize
  BY <1>1, <1>2
<1>7. AddrSize * (k + 1 + d) = AddrSize * k + AddrSize + AddrSize * d
  BY <1>1, <1>2, <1>3
<1>8. /\ Slot(n) = Base + AddrSize * k
      /\ Slot(n + 1) = Base + AddrSize * (k + 1)
      /\ Slot(Len(Settable) + 1) = Base + AddrSize * (k + 1 + d)
  BY <1>4, Zenon DEF Slot
<1> QED BY <1>1, <1>5, <1>6, <1>7, <1>8

LEMMA SlotOne == Slot(1) = Base
<1>1. AddrSize * (1 - 1) = 0 /\ Base + 0 = Base
  BY ConfigAssumption
<1> QED BY <1>1 DEF Slot
-----------------------------------------------------------------------------
(***************************************************************************)
(* The bytes of a registered variable lie in the storage; that follows     *)
(* from its place, so types and places are kept together.                  *)
(***************************************************************************)
ConfigInv == ConfigTypeOK /\ InPlace

\* A slot holds any variable: nothing is read or written outside the storage.
LEMMA SlotInStorage ==
  ASSUME NEW n \in Places, NEW size \in 1 .. AddrSize, NEW i \in 1 .. size
  PROVE  Slot(n) + i - 1 \in Addresses
<1>1. /\ Slot(n) \in Nat /\ Base <= Slot(n)
      /\ Slot(n) + AddrSize <= Slot(Len(Settable) + 1)
  BY SlotBounds
<1>2. AddrSize \in Nat /\ Base \in Nat /\ size \in Nat /\ i \in Nat
      /\ 1 <= i /\ i <= size /\ size <= AddrSize
  BY ConfigAssumption
<1>3. Slot(Len(Settable) + 1) \in Int
  BY ConfigAssumption, SettableProperties DEF Slot
<1> HIDE DEF Slot
<1> QED BY <1>1, <1>2, <1>3 DEF Addresses

LEMMA StoredBytes ==
  ASSUME storage \in [Addresses -> Bytes], NEW n \in Places, NEW size \in 1 .. AddrSize
  PROVE  Stored(Slot(n), size) \in [1 .. size -> Bytes]
BY SlotInStorage DEF Stored

LEMMA WrittenBytes ==
  ASSUME storage \in [Addresses -> Bytes], NEW addr \in Nat, NEW size \in Nat,
         NEW bytes \in [1 .. size -> Bytes], NEW n \in 0 .. size
  PROVE  Written(addr, bytes, n) \in [Addresses -> Bytes]
<1>1. DOMAIN storage = Addresses
  OBVIOUS
<1>2. ASSUME NEW a \in Addresses, a \in addr .. addr + n - 1
      PROVE  bytes[a - addr + 1] \in Bytes
  BY <1>2
<1> QED BY <1>1, <1>2 DEF Written
-----------------------------------------------------------------------------
LEMMA ConfigInitInv == ConfigInit => ConfigInv
<1> SUFFICES ASSUME ConfigInit PROVE ConfigInv
  OBVIOUS
<1>1. \A x \in Vars : ErasedVars[x] \in Patterns[x]
  BY ConfigAssumption DEF ErasedVars, Patterns
<1>2. storage \in [Addresses -> Bytes]
  BY ConfigAssumption DEF ConfigInit
<1>3. /\ up = FALSE /\ node = <<>> /\ counted = 0 /\ current_addr = 0 /\ ram = ErasedVars
      /\ status = [call |-> "none", of |-> {}, ok |-> TRUE]
  BY DEF ConfigInit
<1>4. node \in Seq(ConfigNode) /\ Len(node) >= counted
  BY <1>3
<1>5. ConfigTypeOK
  <2>1. status \in [call : Calls, of : SUBSET Vars, ok : BOOLEAN]
    BY <1>3 DEF Calls
  <2>2. counted \in 0 .. Len(Settable) /\ current_addr \in Nat
    BY <1>3, SettableProperties
  <2>3. up \in BOOLEAN
    BY <1>3, Zenon
  <2>4. DOMAIN ErasedVars = Vars
    BY DEF ErasedVars
  <2> QED BY <1>1, <1>2, <1>3, <1>4, <2>1, <2>2, <2>3, <2>4 DEF ConfigTypeOK
<1>6. InPlace
  BY <1>3 DEF InPlace
<1> QED BY <1>5, <1>6 DEF ConfigInv

\* A start, with memory lost or not, claims the first slot next.
LEMMA StartInv ==
  ASSUME ConfigInv, node' = <<>>, counted' = 0, UNCHANGED storage,
         \/ up' = TRUE /\ current_addr' = Base
         \/ up' = FALSE /\ current_addr' = 0,
         ram' = ram \/ ram' = ErasedVars,
         status' \in [call : Calls, of : SUBSET Vars, ok : BOOLEAN]
  PROVE  ConfigInv'
<1>1. Len(node') = 0 /\ node' \in Seq(ConfigNode)
  OBVIOUS
<1>2. DOMAIN ErasedVars = Vars /\ \A x \in Vars : ErasedVars[x] \in Patterns[x]
  BY ConfigAssumption DEF ErasedVars, Patterns
<1>3. DOMAIN ram' = Vars /\ \A x \in Vars : ram'[x] \in Patterns[x]
  BY <1>2 DEF ConfigInv, ConfigTypeOK
<1>4. current_addr' \in Nat /\ up' \in BOOLEAN /\ counted' \in 0 .. Len(Settable)
  <2>1. Base \in Nat /\ Len(Settable) \in Nat
    BY ConfigAssumption, SettableProperties
  <2>2. current_addr' \in Nat
    BY <2>1
  <2>3. counted' \in 0 .. Len(Settable)
    BY <2>1
  <2>4. up' \in BOOLEAN
    BY Zenon
  <2> QED BY <2>2, <2>3, <2>4
<1>5. ConfigTypeOK'
  BY <1>1, <1>3, <1>4 DEF ConfigInv, ConfigTypeOK
<1>6. InPlace'
  <2>1. up' => current_addr' = Slot(counted' + 1)
    BY SlotOne
  <2>2. 1 .. counted' = {}
    OBVIOUS
  <2> QED BY <2>1, <2>2 DEF InPlace
<1> QED BY <1>5, <1>6 DEF ConfigInv

\* The node of a registration stands at its place, and the others stay.
LEMMA ClaimedProperties ==
  ASSUME ConfigInv, NEW x \in Vars, RegisterNext(x)
  PROVE  /\ counted + 1 \in Places /\ x = Settable[counted + 1]
         /\ current_addr = Slot(counted + 1)
         /\ Claimed(x) \in Seq(ConfigNode) /\ Len(Claimed(x)) = counted + 1
         /\ \A n \in 1 .. counted : Claimed(x)[n] = node[n]
         /\ Claimed(x)[counted + 1] =
              [data |-> x, addr |-> current_addr, size |-> SizeOf[x]]
<1> DEFINE new == [data |-> x, addr |-> current_addr, size |-> SizeOf[x]]
<1>1. /\ counted \in 0 .. Len(Settable) /\ node \in Seq(ConfigNode)
      /\ Len(node) >= counted /\ current_addr \in Nat
  BY DEF ConfigInv, ConfigTypeOK
<1>2. counted + 1 \in Places /\ x = Settable[counted + 1]
  BY <1>1, SettableProperties DEF RegisterNext, Places
<1>3. current_addr = Slot(counted + 1)
  BY DEF ConfigInv, InPlace, RegisterNext
<1>4. new \in ConfigNode
  BY <1>1, SettableProperties DEF ConfigNode
<1>5. /\ SubSeq(node, 1, counted) \in Seq(ConfigNode)
      /\ Len(SubSeq(node, 1, counted)) = counted
      /\ \A n \in 1 .. counted : SubSeq(node, 1, counted)[n] = node[n]
  <2>1. counted \in 0 .. Len(node)
    BY <1>1, SettableProperties
  <2>2. \A n \in 1 .. counted : node[n] \in ConfigNode
    BY <1>1, <2>1
  <2> QED BY <1>1, <2>1, <2>2
<1> HIDE DEF new
<1>6. /\ Claimed(x) = Append(SubSeq(node, 1, counted), new)
      /\ counted \in Nat
  BY <1>1, SettableProperties DEF Claimed, new
<1>7. /\ Claimed(x) \in Seq(ConfigNode) /\ Len(Claimed(x)) = counted + 1
      /\ \A n \in 1 .. counted : Claimed(x)[n] = node[n]
      /\ Claimed(x)[counted + 1] = new
  BY <1>4, <1>5, <1>6
<1> QED BY <1>2, <1>3, <1>7 DEF new

LEMMA RegisterFailsInv ==
  ASSUME ConfigInv, NEW x \in Vars, RegisterFails(x)
  PROVE  ConfigInv'
<1>1. RegisterNext(x) /\ node' = Claimed(x)
      /\ UNCHANGED <<up, counted, current_addr, ram, storage>>
      /\ status' = [call |-> "register", of |-> {x}, ok |-> FALSE]
  BY DEF RegisterFails, Returned, Calls
<1>2. status' \in [call : Calls, of : SUBSET Vars, ok : BOOLEAN]
  BY <1>1 DEF Calls
<1>3. /\ node' \in Seq(ConfigNode) /\ Len(node') = counted + 1
      /\ \A n \in 1 .. counted : node'[n] = node[n]
  BY <1>1, ClaimedProperties
<1>4. ConfigTypeOK'
  <2>1. Len(node') >= counted
    BY <1>3, SettableProperties DEF ConfigInv, ConfigTypeOK
  <2> QED BY <1>1, <1>2, <1>3, <2>1 DEF ConfigInv, ConfigTypeOK
<1>5. InPlace'
  BY <1>1, <1>3 DEF ConfigInv, InPlace
<1> QED BY <1>4, <1>5 DEF ConfigInv

LEMMA RegisterInv ==
  ASSUME ConfigInv, NEW x \in Vars, sh_config_register(x)
  PROVE  ConfigInv'
<1> DEFINE temp == Stored(current_addr, SizeOf[x])
           default_flag == \A i \in DOMAIN temp : temp[i] = Erased
<1>1. /\ RegisterNext(x) /\ node' = Claimed(x)
      /\ counted' = counted + 1 /\ current_addr' = current_addr + AddrSize
      /\ ram' = [ram EXCEPT ![x] = IF default_flag THEN Factory[x] ELSE temp]
      /\ UNCHANGED <<up, storage>>
      /\ status' = [call |-> "register", of |-> {x}, ok |-> TRUE]
  BY DEF sh_config_register, Returned, Calls
<1>2. /\ counted + 1 \in Places /\ x = Settable[counted + 1]
      /\ current_addr = Slot(counted + 1)
      /\ node' \in Seq(ConfigNode) /\ Len(node') = counted + 1
      /\ \A n \in 1 .. counted : node'[n] = node[n]
      /\ node'[counted + 1] = [data |-> x, addr |-> current_addr, size |-> SizeOf[x]]
  BY <1>1, ClaimedProperties
<1>3. counted \in Nat /\ storage \in [Addresses -> Bytes]
  BY SettableProperties DEF ConfigInv, ConfigTypeOK
<1>4. current_addr' = Slot(counted' + 1) /\ current_addr' \in Nat
  <2>1. /\ Slot(counted + 1) \in Nat
        /\ Slot(counted + 1 + 1) = Slot(counted + 1) + AddrSize
    BY <1>2, SlotBounds
  <2> QED BY <1>1, <1>2, <2>1, ConfigAssumption
<1>5. temp \in Patterns[x] /\ Factory[x] \in Patterns[x]
  BY <1>2, <1>3, SettableProperties, StoredBytes DEF Patterns
<1>6. DOMAIN ram' = Vars /\ \A y \in Vars : ram'[y] \in Patterns[y]
  <2> HIDE DEF temp, default_flag
  <2> QED BY <1>1, <1>5 DEF ConfigInv, ConfigTypeOK
<1>7. ConfigTypeOK'
  <2>1. status' \in [call : Calls, of : SUBSET Vars, ok : BOOLEAN]
    BY <1>1 DEF Calls
  <2>2. counted' \in 0 .. Len(Settable) /\ Len(node') >= counted'
    BY <1>1, <1>2, <1>3, SettableProperties DEF Places
  <2> QED BY <1>1, <1>2, <1>4, <1>6, <2>1, <2>2 DEF ConfigInv, ConfigTypeOK
<1>8. InPlace'
  <2> SUFFICES ASSUME NEW n \in 1 .. counted + 1
               PROVE  node'[n] = [data |-> Settable[n], addr |-> Slot(n),
                                  size |-> SizeOf[Settable[n]]]
    BY <1>1, <1>4 DEF InPlace
  <2>1. CASE n = counted + 1
    BY <1>2, <2>1
  <2>2. CASE n \in 1 .. counted
    BY <1>2, <2>2 DEF ConfigInv, InPlace
  <2> QED BY <1>3, <2>1, <2>2
<1> QED BY <1>7, <1>8 DEF ConfigInv

\* A write, whole or torn, only changes bytes of the storage.
LEMMA StoreInv ==
  ASSUME ConfigInv, storage' \in [Addresses -> Bytes],
         UNCHANGED <<up, node, counted, current_addr, ram>>,
         status' \in [call : Calls, of : SUBSET Vars, ok : BOOLEAN]
  PROVE  ConfigInv'
BY DEF ConfigInv, ConfigTypeOK, InPlace

\* The node of a variable has its size.
LEMMA FoundSize ==
  ASSUME ConfigInv, NEW x \in Vars, NEW i \in 1 .. counted, sh_config_find(x, i),
         NEW n \in 0 .. SizeOf[x]
  PROVE  /\ node[i].size = SizeOf[x]
         /\ Written(node[i].addr, ram[x], n) \in [Addresses -> Bytes]
<1>1. /\ node[i] = [data |-> Settable[i], addr |-> Slot(i), size |-> SizeOf[Settable[i]]]
      /\ node[i].data = x /\ i \in Places
  BY SettableProperties DEF ConfigInv, ConfigTypeOK, InPlace, sh_config_find, Places
<1>2. node[i].size = SizeOf[x] /\ node[i].addr \in Nat
  BY <1>1, SlotBounds
<1>3. SizeOf[x] \in Nat /\ ram[x] \in [1 .. SizeOf[x] -> Bytes]
      /\ storage \in [Addresses -> Bytes]
  BY ConfigAssumption DEF ConfigInv, ConfigTypeOK, Patterns
<1> QED BY <1>2, <1>3, WrittenBytes

LEMMA WriteInv ==
  ASSUME ConfigInv, NEW x \in Vars, sh_config_write(x) \/ WriteFails(x)
  PROVE  ConfigInv'
<1>1. status' \in [call : Calls, of : SUBSET Vars, ok : BOOLEAN]
  <2>1. \E ok \in BOOLEAN : status' = [call |-> "write", of |-> {x}, ok |-> ok]
    BY DEF sh_config_write, WriteFails, Returned
  <2> QED BY <2>1 DEF Calls
<1>2. UNCHANGED <<up, node, counted, current_addr, ram>>
  BY DEF sh_config_write, WriteFails
<1>3. SizeOf[x] \in 0 .. SizeOf[x]
  BY ConfigAssumption
<1>4. CASE sh_config_write(x)
  BY <1>1, <1>2, <1>3, <1>4, FoundSize, StoreInv DEF sh_config_write
<1>5. CASE WriteFails(x)
  <2>1. CASE UNCHANGED storage
    BY <1>1, <1>2, <2>1, StoreInv DEF ConfigInv, ConfigTypeOK
  <2>2. CASE \E i \in 1 .. counted, n \in 0 .. SizeOf[x] :
               sh_config_find(x, i) /\ storage' = Written(node[i].addr, ram[x], n)
    BY <1>1, <1>2, <2>2, FoundSize, StoreInv
  <2> QED BY <1>5, <2>1, <2>2 DEF WriteFails
<1> QED BY <1>4, <1>5

LEMMA ConfigStep == ConfigInv /\ [ConfigNext]_configVars => ConfigInv'
<1> SUFFICES ASSUME ConfigInv, [ConfigNext]_configVars PROVE ConfigInv'
  OBVIOUS
<1>1. CASE sh_config_init
  <2>1. status' \in [call : Calls, of : SUBSET Vars, ok : BOOLEAN]
    BY <1>1 DEF sh_config_init, Returned, Calls
  <2>2. /\ node' = <<>> /\ counted' = 0 /\ UNCHANGED storage
        /\ up' = TRUE /\ current_addr' = Base /\ ram' = ram
    BY <1>1, Zenon DEF sh_config_init
  <2> QED BY <2>1, <2>2, StartInv, Zenon
<1>2. CASE InitRefused
  BY <1>2 DEF InitRefused, Returned, Calls, ConfigInv, ConfigTypeOK, InPlace
<1>3. CASE PowerLoss
  BY <1>3, StartInv DEF PowerLoss, ConfigInv, ConfigTypeOK
<1>4. ASSUME NEW x \in Vars, sh_config_register(x) PROVE ConfigInv'
  BY <1>4, RegisterInv
<1>5. ASSUME NEW x \in Vars, RegisterFails(x) PROVE ConfigInv'
  BY <1>5, RegisterFailsInv
<1>6. ASSUME NEW x \in Vars, sh_config_write(x) \/ WriteFails(x) PROVE ConfigInv'
  BY <1>6, WriteInv
<1>7. ASSUME NEW x \in Vars, Assign(x) PROVE ConfigInv'
  BY <1>7 DEF Assign, ConfigInv, ConfigTypeOK, InPlace
<1>8. CASE UNCHANGED configVars
  BY <1>8 DEF configVars, ConfigInv, ConfigTypeOK, InPlace
<1> QED BY <1>1, <1>2, <1>3, <1>4, <1>5, <1>6, <1>7, <1>8 DEF ConfigNext
-----------------------------------------------------------------------------
(***************************************************************************)
(* Registered variables have their types and stay in the storage that the  *)
(* program has reserved for them, whatever fails and whenever it restarts  *)
(* (sh_config_register, sh_config_write).                                  *)
(***************************************************************************)
THEOREM ConfigTypeCorrect == ConfigSpec => []ConfigTypeOK
<1>1. ConfigInv => ConfigTypeOK
  BY DEF ConfigInv
<1> QED BY <1>1, ConfigInitInv, ConfigStep, PTL DEF ConfigSpec

(***************************************************************************)
(* A variable has the slot of its place in the order of registration after *)
(* any restarts and failures (sh_config_init, sh_config_register).         *)
(***************************************************************************)
THEOREM ConfigPlacesCorrect == ConfigSpec => []InPlace
<1>1. ConfigInv => InPlace
  BY DEF ConfigInv
<1> QED BY <1>1, ConfigInitInv, ConfigStep, PTL DEF ConfigSpec
-----------------------------------------------------------------------------
(***************************************************************************)
(* The refinement of Settings.                                             *)
(***************************************************************************)
Ready  == {x \in Vars : Registered(x)}
Values == [x \in Vars |-> IF Registered(x) THEN ram[x] ELSE ErasedVars[x]]
Kept   == [x \in Vars |-> Stored(Slot(PlaceOf(x)), SizeOf[x])]

LEMMA PlaceOfProperties ==
  /\ \A x \in Vars : PlaceOf(x) \in Places /\ Settable[PlaceOf(x)] = x
  /\ \A n \in Places : PlaceOf(Settable[n]) = n
<1>1. ASSUME NEW x \in Vars PROVE PlaceOf(x) \in Places /\ Settable[PlaceOf(x)] = x
  <2>1. \E n \in DOMAIN Settable : Settable[n] = x
    BY DEF Vars, Range
  <2> QED BY <2>1, SettableProperties DEF PlaceOf
<1> QED BY <1>1, SettableProperties

\* The registered variables are the first ones; each has one node, at its place.
InOrder ==
  /\ \A x \in Vars : Registered(x) <=> PlaceOf(x) <= counted
  /\ \A x \in Vars : \A i \in 1 .. counted :
       sh_config_find(x, i) => i = PlaceOf(x) /\ node[i].addr = Slot(i) /\ node[i].size = SizeOf[x]

LEMMA RegisteredInOrder == ConfigInv => InOrder
<1> SUFFICES ASSUME ConfigInv PROVE InOrder
  OBVIOUS
<1>1. counted \in 0 .. Len(Settable) /\ Len(Settable) \in Nat
  BY SettableProperties DEF ConfigInv, ConfigTypeOK
<1>2. ASSUME NEW i \in 1 .. counted
      PROVE  /\ i \in Places /\ node[i].data = Settable[i]
             /\ node[i].addr = Slot(i) /\ node[i].size = SizeOf[Settable[i]]
  <2>1. node[i] = [data |-> Settable[i], addr |-> Slot(i), size |-> SizeOf[Settable[i]]]
    BY DEF ConfigInv, InPlace
  <2> QED BY <1>1, <2>1 DEF Places
<1>3. ASSUME NEW x \in Vars, NEW i \in 1 .. counted, sh_config_find(x, i)
      PROVE  i = PlaceOf(x) /\ node[i].addr = Slot(i) /\ node[i].size = SizeOf[x]
  <2>1. node[i].data = x /\ Settable[i] = x
    BY <1>2, <1>3 DEF sh_config_find
  <2> QED BY <1>2, <2>1, PlaceOfProperties
<1>4. ASSUME NEW x \in Vars, PlaceOf(x) <= counted PROVE Registered(x)
  <2> DEFINE p == PlaceOf(x)
  <2>1. p \in Places /\ Settable[p] = x
    BY PlaceOfProperties
  <2>2. p \in 1 .. counted
    BY <1>1, <1>4, <2>1 DEF Places
  <2>3. ASSUME NEW j \in 1 .. p - 1 PROVE node[j].data # x
    <3>1. j \in 1 .. counted /\ j # p
      BY <1>1, <2>2
    <3>2. node[j].data = Settable[j] /\ j \in Places
      BY <1>2, <3>1
    <3> QED BY <2>1, <3>1, <3>2, SettableProperties
  <2>4. node[p].data = x
    BY <1>2, <2>1, <2>2
  <2> QED BY <2>2, <2>3, <2>4 DEF Registered, sh_config_find
<1>5. ASSUME NEW x \in Vars, Registered(x) PROVE PlaceOf(x) <= counted
  BY <1>1, <1>3, <1>5 DEF Registered
<1> QED BY <1>3, <1>4, <1>5 DEF InOrder

\* The slots of two variables do not overlap.
LEMMA SlotsApart ==
  ASSUME NEW m \in Places, NEW n \in Places, m < n
  PROVE  Slot(m) + AddrSize <= Slot(n)
<1>1. /\ AddrSize \in Nat \ {0} /\ Base \in Nat /\ m \in Nat \ {0} /\ n \in Nat \ {0}
  BY ConfigAssumption, SettableProperties DEF Places
<1> DEFINE k == m - 1
           d == (n - m) - 1
<1>2. k \in Nat /\ d \in Nat /\ m - 1 = k /\ n - 1 = k + 1 + d
  BY <1>1
<1> HIDE DEF k, d
<1>3. AddrSize * k \in Nat /\ AddrSize * d \in Nat
  BY <1>1, <1>2
<1>4. AddrSize * (k + 1 + d) = AddrSize * k + AddrSize + AddrSize * d
  BY <1>1, <1>2
<1>5. Slot(m) = Base + AddrSize * k /\ Slot(n) = Base + AddrSize * (k + 1 + d)
  BY <1>2, Zenon DEF Slot
<1> QED BY <1>1, <1>3, <1>4, <1>5

\* A byte of x is no byte of y.
LEMMA BytesApart ==
  ASSUME NEW x \in Vars, NEW y \in Vars, x # y,
         NEW i \in 1 .. SizeOf[x], NEW n \in 0 .. SizeOf[y]
  PROVE  Slot(PlaceOf(x)) + i - 1 \notin Slot(PlaceOf(y)) .. Slot(PlaceOf(y)) + n - 1
<1> DEFINE p == PlaceOf(x)
           q == PlaceOf(y)
           a == Slot(p)
           b == Slot(q)
<1>1. p \in Places /\ q \in Places /\ p # q
  BY PlaceOfProperties
<1>2. p \in Int /\ q \in Int /\ a \in Nat /\ b \in Nat
  BY <1>1, SlotBounds DEF Places
<1>3. SizeOf[x] \in 1 .. AddrSize /\ SizeOf[y] \in 1 .. AddrSize /\ AddrSize \in Nat
  BY ConfigAssumption
<1>4. p < q => a + AddrSize <= b
  BY <1>1, SlotsApart
<1>5. q < p => b + AddrSize <= a
  BY <1>1, SlotsApart
<1>6. p < q \/ q < p
  BY <1>1, <1>2
<1> HIDE DEF p, q, a, b
<1>7. a + i - 1 \notin b .. b + n - 1
  BY <1>2, <1>3, <1>4, <1>5, <1>6
<1> QED BY <1>7 DEF p, q, a, b

\* What the first n bytes of a write leave for a restart.
LEMMA KeptWritten ==
  ASSUME ConfigInv, NEW x \in Vars, NEW n \in 0 .. SizeOf[x],
         storage' = Written(Slot(PlaceOf(x)), ram[x], n)
  PROVE  /\ \E v \in Patterns[x] : Kept' = [Kept EXCEPT ![x] = v]
         /\ n = SizeOf[x] => Kept' = [Kept EXCEPT ![x] = ram[x]]
<1> DEFINE a == Slot(PlaceOf(x))
           w == [i \in 1 .. SizeOf[x] |-> IF i <= n THEN ram[x][i] ELSE storage[a + i - 1]]
<1>1. /\ storage \in [Addresses -> Bytes] /\ ram[x] \in [1 .. SizeOf[x] -> Bytes]
  BY DEF ConfigInv, ConfigTypeOK, Patterns
<1>2. /\ PlaceOf(x) \in Places /\ a \in Nat /\ SizeOf[x] \in 1 .. AddrSize /\ SizeOf[x] \in Nat
      /\ AddrSize \in Nat
  BY PlaceOfProperties, SlotBounds, ConfigAssumption
<1>3. \A i \in 1 .. SizeOf[x] : a + i - 1 \in Addresses
  BY <1>2, SlotInStorage
<1>4. \A b \in Addresses :
        storage'[b] = IF b \in a .. a + n - 1 THEN ram[x][b - a + 1] ELSE storage[b]
  BY <1>1 DEF Written
<1> HIDE DEF a
<1>5. ASSUME NEW i \in 1 .. SizeOf[x] PROVE storage'[a + i - 1] = w[i]
  <2>1. a + i - 1 \in a .. a + n - 1 <=> i <= n
    BY <1>2
  <2>2. (a + i - 1) - a + 1 = i
    BY <1>2
  <2> QED BY <1>3, <1>4, <2>1, <2>2
<1>6. w \in Patterns[x]
  BY <1>1, <1>3 DEF Patterns
<1>7. Stored(a, SizeOf[x])' = w
  <2>1. Stored(a, SizeOf[x])' = [i \in 1 .. SizeOf[x] |-> storage'[a + i - 1]]
    BY DEF Stored, a
  <2> QED BY <1>5, <2>1
<1>8. ASSUME NEW y \in Vars, y # x
      PROVE  Stored(Slot(PlaceOf(y)), SizeOf[y])' = Stored(Slot(PlaceOf(y)), SizeOf[y])
  <2> DEFINE b == Slot(PlaceOf(y))
  <2>1. PlaceOf(y) \in Places /\ SizeOf[y] \in 1 .. AddrSize
    BY PlaceOfProperties, ConfigAssumption
  <2>2. \A i \in 1 .. SizeOf[y] : b + i - 1 \in Addresses
    BY <2>1, SlotInStorage
  <2>3. \A i \in 1 .. SizeOf[y] : b + i - 1 \notin a .. a + n - 1
    BY <1>8, BytesApart DEF a
  <2>4. \A i \in 1 .. SizeOf[y] : storage'[b + i - 1] = storage[b + i - 1]
    BY <1>4, <2>2, <2>3
  <2>5. Stored(b, SizeOf[y])' = [i \in 1 .. SizeOf[y] |-> storage'[b + i - 1]]
    BY DEF Stored
  <2> QED BY <2>4, <2>5 DEF Stored
<1> HIDE DEF w
<1>9. Kept' = [Kept EXCEPT ![x] = w]
  <2>1. Kept' = [y \in Vars |-> Stored(Slot(PlaceOf(y)), SizeOf[y])']
    BY DEF Kept
  <2> QED BY <1>7, <1>8, <2>1 DEF Kept, a
<1>10. ASSUME n = SizeOf[x] PROVE w = ram[x]
  BY <1>1, <1>2, <1>10 DEF w
<1> QED BY <1>6, <1>9, <1>10

LEMMA StoreState ==
  InOrder => /\ Ready = {x \in Vars : PlaceOf(x) <= counted}
             /\ Values = [x \in Vars |->
                            IF PlaceOf(x) <= counted THEN ram[x] ELSE ErasedVars[x]]
BY DEF InOrder, Ready, Values

\* What a step leaves alone is left alone in the store of settings.
LEMMA StoreKept ==
  /\ InOrder /\ InOrder' /\ UNCHANGED <<counted, ram>> => Ready' = Ready /\ Values' = Values
  /\ UNCHANGED storage => Kept' = Kept
<1>1. ASSUME InOrder, InOrder', UNCHANGED <<counted, ram>>
      PROVE  Ready' = Ready /\ Values' = Values
  <2>1. /\ Ready' = {x \in Vars : PlaceOf(x) <= counted'}
        /\ Values' = [x \in Vars |->
                        IF PlaceOf(x) <= counted' THEN ram'[x] ELSE ErasedVars[x]]
    BY <1>1 DEF InOrder, Ready, Values
  <2> QED BY <1>1, <2>1, StoreState
<1>2. ASSUME UNCHANGED storage PROVE Kept' = Kept
  BY <1>2 DEF Kept, Stored
<1> QED BY <1>1, <1>2

LEMMA StartRestarts ==
  ASSUME ConfigInv, InOrder', counted' = 0, UNCHANGED storage,
         UNCHANGED status \/ Returned("init", {}, TRUE)
  PROVE  Store!Restart
<1>1. \A x \in Vars : ~ PlaceOf(x) <= counted'
  BY PlaceOfProperties DEF Places
<1>2. Ready' = {} /\ Values' = ErasedVars
  <2>1. \A x \in Vars : ~ Registered(x)'
    BY <1>1 DEF InOrder
  <2>2. ErasedVars = [x \in Vars |-> ErasedVars[x]]
    BY DEF ErasedVars
  <2> QED BY <2>1, <2>2 DEF Ready, Values
<1>3. Kept' = Kept
  BY StoreKept
<1> QED BY <1>2, <1>3 DEF Ready, Values, Kept, Store!Restart, Store!Result, Returned

\* A registration reads what the last start would have read, in the slot of x.
LEMMA RegisterRestores ==
  ASSUME ConfigInv, InOrder, InOrder', NEW x \in Vars, sh_config_register(x)
  PROVE  Store!Restore(x)
<1> DEFINE temp == Stored(current_addr, SizeOf[x])
           default_flag == \A i \in DOMAIN temp : temp[i] = Erased
<1>1. /\ RegisterNext(x) /\ counted' = counted + 1 /\ UNCHANGED storage
      /\ ram' = [ram EXCEPT ![x] = IF default_flag THEN Factory[x] ELSE temp]
      /\ status' = [call |-> "register", of |-> {x}, ok |-> TRUE]
  BY DEF sh_config_register, Returned
<1>2. counted + 1 \in Places /\ x = Settable[counted + 1] /\ current_addr = Slot(counted + 1)
  BY <1>1, ClaimedProperties
<1>3. /\ counted \in Nat /\ PlaceOf(x) = counted + 1
      /\ \A y \in Vars : PlaceOf(y) \in Nat /\ (PlaceOf(y) = counted + 1 => y = x)
  BY <1>2, PlaceOfProperties, SettableProperties DEF Places, ConfigInv, ConfigTypeOK
<1>4. \A y \in Vars : PlaceOf(y) <= counted' <=> y = x \/ PlaceOf(y) <= counted
  BY <1>1, <1>3
<1>5. x \notin Ready /\ Ready' = Ready \cup {x}
  <2>1. Ready = {y \in Vars : PlaceOf(y) <= counted}
    BY StoreState
  <2>2. Ready' = {y \in Vars : PlaceOf(y) <= counted'}
    BY DEF InOrder, Ready
  <2>3. ~ PlaceOf(x) <= counted
    BY <1>3
  <2> QED BY <1>4, <2>1, <2>2, <2>3
<1>6. Kept' = Kept /\ Kept[x] = temp
  BY <1>1, <1>2, <1>3, StoreKept DEF Kept
<1>7. default_flag <=> temp = ErasedVars[x]
  <2>1. temp = [i \in 1 .. SizeOf[x] |-> temp[i]] /\ DOMAIN temp = 1 .. SizeOf[x]
    BY DEF Stored
  <2>2. ErasedVars[x] = [i \in 1 .. SizeOf[x] |-> Erased]
    BY DEF ErasedVars
  <2> HIDE DEF temp
  <2> QED BY <2>1, <2>2
<1> HIDE DEF temp, default_flag
<1>8. Values' = [Values EXCEPT ![x] = IF default_flag THEN Factory[x] ELSE temp]
  <2> DEFINE v == IF default_flag THEN Factory[x] ELSE temp
  <2> HIDE DEF v
  <2>1. Values = [y \in Vars |-> IF PlaceOf(y) <= counted THEN ram[y] ELSE ErasedVars[y]]
    BY StoreState
  <2>2. Values' = [y \in Vars |-> IF PlaceOf(y) <= counted' THEN ram'[y] ELSE ErasedVars[y]]
    BY DEF InOrder, Values
  <2>3. \A y \in Vars : ram'[y] = IF y = x THEN v ELSE ram[y]
    BY <1>1 DEF v, ConfigInv, ConfigTypeOK
  <2>4. Values' = [Values EXCEPT ![x] = v]
    BY <1>4, <2>1, <2>2, <2>3
  <2> QED BY <2>4 DEF v
<1>9. /\ \/ Kept[x] = ErasedVars[x] /\ Values' = [Values EXCEPT ![x] = Factory[x]]
         \/ Kept[x] # ErasedVars[x] /\ Values' = [Values EXCEPT ![x] = Kept[x]]
  BY <1>6, <1>7, <1>8
<1> QED BY <1>1, <1>5, <1>6, <1>9 DEF Ready, Values, Kept, Store!Restore, Store!Result

LEMMA WriteSaves ==
  ASSUME ConfigInv, InOrder, InOrder', NEW x \in Vars
  PROVE  /\ sh_config_write(x) => Store!Save(x)
         /\ WriteFails(x) => Store!SaveFails(x)
<1>1. ASSUME sh_config_write(x) \/ WriteFails(x)
      PROVE  Ready' = Ready /\ Values' = Values
  BY <1>1, StoreKept DEF sh_config_write, WriteFails
<1>2. ASSUME NEW i \in 1 .. counted, sh_config_find(x, i)
      PROVE  /\ node[i].addr = Slot(PlaceOf(x)) /\ node[i].size = SizeOf[x]
             /\ x \in Ready /\ Values[x] = ram[x]
  BY <1>2 DEF InOrder, Ready, Values, Registered
<1>3. ASSUME sh_config_write(x) PROVE Store!Save(x)
  <2>1. PICK i \in 1 .. counted : /\ sh_config_find(x, i)
                                  /\ storage' = Written(node[i].addr, ram[x], node[i].size)
    BY <1>3 DEF sh_config_write
  <2>2. /\ storage' = Written(Slot(PlaceOf(x)), ram[x], SizeOf[x])
        /\ x \in Ready /\ Values[x] = ram[x]
    BY <1>2, <2>1
  <2>3. SizeOf[x] \in 0 .. SizeOf[x]
    BY ConfigAssumption
  <2>4. Kept' = [Kept EXCEPT ![x] = Values[x]]
    BY <2>2, <2>3, KeptWritten
  <2>5. status' = [call |-> "write", of |-> {x}, ok |-> TRUE]
    BY <1>3 DEF sh_config_write, Returned
  <2> QED BY <1>1, <1>3, <2>2, <2>4, <2>5 DEF Ready, Values, Kept, Store!Save, Store!Result
<1>4. ASSUME WriteFails(x) PROVE Store!SaveFails(x)
  <2>1. status' = [call |-> "write", of |-> {x}, ok |-> FALSE]
    BY <1>4 DEF WriteFails, Returned
  <2>2. \/ Kept' = Kept
        \/ x \in Ready /\ \E v \in Patterns[x] : Kept' = [Kept EXCEPT ![x] = v]
    <3>1. CASE UNCHANGED storage
      BY <3>1, StoreKept
    <3>2. ASSUME NEW i \in 1 .. counted, NEW n \in 0 .. SizeOf[x], sh_config_find(x, i),
                 storage' = Written(node[i].addr, ram[x], n)
          PROVE  x \in Ready /\ \E v \in Patterns[x] : Kept' = [Kept EXCEPT ![x] = v]
      BY <1>2, <3>2, KeptWritten
    <3> QED BY <1>4, <3>1, <3>2 DEF WriteFails
  <2> QED BY <1>1, <1>4, <2>1, <2>2 DEF Ready, Values, Kept, Store!SaveFails, Store!Result
<1> QED BY <1>3, <1>4

LEMMA AssignChanges ==
  ASSUME ConfigInv, InOrder, InOrder', NEW x \in Vars, Assign(x)
  PROVE  Store!Change(x)
<1>1. PICK v \in Patterns[x] : ram' = [ram EXCEPT ![x] = v]
  BY DEF Assign
<1>2. Registered(x) /\ UNCHANGED <<counted, storage, status>>
  BY DEF Assign
<1>3. x \in Ready /\ Ready' = Ready /\ PlaceOf(x) <= counted
  BY <1>2 DEF InOrder, Ready
<1>4. Values' = [Values EXCEPT ![x] = v]
  <2>1. Values = [y \in Vars |-> IF PlaceOf(y) <= counted THEN ram[y] ELSE ErasedVars[y]]
    BY StoreState
  <2>2. Values' = [y \in Vars |-> IF PlaceOf(y) <= counted' THEN ram'[y] ELSE ErasedVars[y]]
    BY DEF InOrder, Values
  <2>3. \A y \in Vars : ram'[y] = IF y = x THEN v ELSE ram[y]
    BY <1>1 DEF ConfigInv, ConfigTypeOK
  <2> QED BY <1>2, <1>3, <2>1, <2>2, <2>3
<1>5. Kept' = Kept
  BY <1>2, StoreKept
<1> QED BY <1>2, <1>3, <1>4, <1>5 DEF Ready, Values, Kept, Store!Change

LEMMA SettingsInitially == ConfigInit => Store!SettingsInit
<1> SUFFICES ASSUME ConfigInit PROVE Store!SettingsInit
  OBVIOUS
<1>1. /\ counted = 0 /\ storage = [a \in Addresses |-> Erased]
      /\ status = [call |-> "none", of |-> {}, ok |-> TRUE]
  BY DEF ConfigInit
<1>2. \A x \in Vars : ~ Registered(x)
  BY <1>1 DEF Registered
<1>3. Ready = {} /\ Values = ErasedVars
  <2>1. ErasedVars = [x \in Vars |-> ErasedVars[x]]
    BY DEF ErasedVars
  <2> QED BY <1>2, <2>1 DEF Ready, Values
<1>4. ASSUME NEW x \in Vars
      PROVE  Stored(Slot(PlaceOf(x)), SizeOf[x]) = [i \in 1 .. SizeOf[x] |-> Erased]
  <2>1. PlaceOf(x) \in Places /\ SizeOf[x] \in 1 .. AddrSize
    BY PlaceOfProperties, SettableProperties
  <2> QED BY <1>1, <2>1, SlotInStorage DEF Stored
<1>5. Kept = ErasedVars
  BY <1>4 DEF Kept, ErasedVars
<1> QED BY <1>1, <1>3, <1>5 DEF Ready, Values, Kept, Store!SettingsInit

LEMMA SettingsStep ==
  ASSUME ConfigInv, InOrder, InOrder', [ConfigNext]_configVars
  PROVE  [Store!SettingsNext]_(Store!settingsVars)
<1>1. CASE sh_config_init \/ PowerLoss
  BY <1>1, StartRestarts DEF sh_config_init, PowerLoss, Store!SettingsNext
<1>2. ASSUME UNCHANGED <<counted, ram, storage>>,
             \/ Returned("init", {}, FALSE)
             \/ \E x \in Vars : Returned("register", {x}, FALSE)
      PROVE  Store!SettingsNext
  <2>1. Ready' = Ready /\ Values' = Values /\ Kept' = Kept
    BY <1>2, StoreKept
  <2>2. Store!OtherFailure
    BY <1>2, <2>1
    DEF Ready, Values, Kept, Returned, Store!OtherFailure, Store!Result
  <2> QED BY <2>2 DEF Store!SettingsNext
<1>3. CASE InitRefused
  BY <1>2, <1>3 DEF InitRefused
<1>4. ASSUME NEW x \in Vars, RegisterFails(x) PROVE Store!SettingsNext
  BY <1>2, <1>4 DEF RegisterFails
<1>5. ASSUME NEW x \in Vars, sh_config_register(x) PROVE Store!SettingsNext
  BY <1>5, RegisterRestores DEF Store!SettingsNext
<1>6. ASSUME NEW x \in Vars, sh_config_write(x) \/ WriteFails(x) PROVE Store!SettingsNext
  BY <1>6, WriteSaves DEF Store!SettingsNext
<1>7. ASSUME NEW x \in Vars, Assign(x) PROVE Store!SettingsNext
  BY <1>7, AssignChanges DEF Store!SettingsNext
<1>8. ASSUME UNCHANGED configVars PROVE UNCHANGED Store!settingsVars
  <2>1. Ready' = Ready /\ Values' = Values /\ Kept' = Kept /\ status' = status
    BY <1>8, StoreKept DEF configVars
  <2> QED BY <2>1 DEF Ready, Values, Kept, Store!settingsVars
<1> QED BY <1>1, <1>3, <1>4, <1>5, <1>6, <1>7, <1>8 DEF ConfigNext

(***************************************************************************)
(* The configuration implements the store of settings, for any variables,  *)
(* sizes, addresses and values: through restarts, failed reads, refused    *)
(* calls and writes torn at any byte, a variable that is registered has    *)
(* the value last written for it or its default, and a failure never       *)
(* touches what was kept for another one (sh_config_register,              *)
(* sh_config_write).                                                       *)
(***************************************************************************)
THEOREM ConfigIsSettings == ConfigSpec => IsSettings
<1>1. ConfigInv' => InOrder'
  BY RegisteredInOrder, PTL
<1>2. ConfigInv /\ ConfigInv' /\ [ConfigNext]_configVars
        => [Store!SettingsNext]_(Store!settingsVars)
  BY <1>1, RegisteredInOrder, SettingsStep
<1> QED BY <1>2, SettingsInitially, ConfigInitInv, ConfigStep, PTL
        DEF ConfigSpec, IsSettings, Store!SettingsSpec
=============================================================================
