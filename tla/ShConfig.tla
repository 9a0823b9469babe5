------------------------------ MODULE ShConfig ------------------------------
(***************************************************************************)
(* The persistent configuration of sh_lib, Src/sh_config.c: every variable *)
(* that is registered gets the next slot of a storage that outlives a      *)
(* restart.  Which slot depends only on how many registrations succeeded   *)
(* before, so the program registers its variables in the same order after  *)
(* every start, and tries again when the storage cannot be read.           *)
(***************************************************************************)
EXTENDS Naturals, SequencesExt

CONSTANTS Settable, \* the variables, in the order of their registration
          SizeOf,   \* how many bytes each has
          AddrSize, \* SH_CONFIG_NODE_ADDR_SIZE, 8 in the code
          Base,     \* base_addr
          Bytes,    \* the values of a byte,
          Erased,   \* SH_CONFIG_DEFAULT_VALUE, 0xff in the code
          Factory   \* the default value of each variable

Vars == Range(Settable)
Patterns == [x \in Vars |-> [1 .. SizeOf[x] -> Bytes]]

\* Where the variable that is registered as the n-th belongs.
Slot(n) == Base + AddrSize * (n - 1)

\* The part of the storage that they take.
Addresses == Base .. Slot(Len(Settable) + 1) - 1

ASSUME ConfigAssumption ==
  /\ Settable \in Seq(Vars) /\ IsInjective(Settable)
  /\ AddrSize \in Nat \ {0} /\ Base \in Nat /\ Erased \in Bytes
  /\ \A x \in Vars : SizeOf[x] \in 1 .. AddrSize /\ Factory[x] \in Patterns[x]

VARIABLES up,           \* FALSE until config->node, write and read are set
          node,         \* config->node
          counted,      \* config->used
          current_addr, \* config->current_addr
          ram,          \* the variables themselves
          storage,      \* the bytes that config->write and config->read reach
          status        \* the last call, its variable, and TRUE if it returned 0

configVars == <<up, node, counted, current_addr, ram, storage, status>>

ConfigNode == [data : Vars, addr : Nat, size : 1 .. AddrSize]

ErasedVars == [x \in Vars |-> [i \in 1 .. SizeOf[x] |-> Erased]]

ConfigInit ==
  /\ up = FALSE /\ node = <<>> /\ counted = 0 /\ current_addr = 0
  /\ ram = ErasedVars
  /\ storage = [a \in Addresses |-> Erased]
  /\ status = [call |-> "none", of |-> {}, ok |-> TRUE]
-----------------------------------------------------------------------------
Returned(call, of, ok) == status' = [call |-> call, of |-> of, ok |-> ok]

\* What config->read copies: the bytes from addr on.
Stored(addr, size) == [i \in 1 .. size |-> storage[addr + i - 1]]

\* storage after config->write has copied the first n bytes to addr.
Written(addr, bytes, n) ==
  [a \in DOMAIN storage |->
     IF a \in addr .. addr + n - 1 THEN bytes[a - addr + 1] ELSE storage[a]]

\* Only the first `used` nodes are searched.
sh_config_find(x, i) ==
  /\ i \in 1 .. counted /\ node[i].data = x
  /\ \A j \in 1 .. i - 1 : node[j].data # x

Registered(x) == \E i \in 1 .. counted : sh_config_find(x, i)
-----------------------------------------------------------------------------
\* Mutant: a second call goes on behind the slots of the first.
init_continues ==
  /\ up' = TRUE /\ node' = <<>> /\ counted' = 0
  /\ current_addr' = IF up THEN current_addr ELSE Base
  /\ Returned("init", {}, TRUE)
  /\ UNCHANGED <<ram, storage>>

\* Mutant: the nodes of the first call still count.
init_keeps_used ==
  /\ up' = TRUE /\ node' = <<>> /\ current_addr' = Base
  /\ Returned("init", {}, TRUE)
  /\ UNCHANGED <<counted, ram, storage>>

sh_config_init ==
  /\ up' = TRUE /\ node' = <<>> /\ counted' = 0 /\ current_addr' = Base
  /\ Returned("init", {}, TRUE)
  /\ UNCHANGED <<ram, storage>>

InitRefused ==
  /\ Returned("init", {}, FALSE)
  /\ UNCHANGED <<up, node, counted, current_addr, ram, storage>>

\* The node that a registration of x fills in before it reads the storage.
Claimed(x) ==
  Append(SubSeq(node, 1, counted),
         [data |-> x, addr |-> current_addr, size |-> SizeOf[x]])

RegisterNext(x) == up /\ counted < Len(Settable) /\ x = Settable[counted + 1]

RegisterFails(x) ==
  /\ RegisterNext(x)
  /\ node' = Claimed(x)
  /\ Returned("register", {x}, FALSE)
  /\ UNCHANGED <<up, counted, current_addr, ram, storage>>

sh_config_register(x) ==
  /\ RegisterNext(x)
  /\ node' = Claimed(x)
  /\ counted' = counted + 1 /\ current_addr' = current_addr + AddrSize
  /\ LET temp == Stored(current_addr, SizeOf[x])
         default_flag == \A i \in DOMAIN temp : temp[i] = Erased
     IN  ram' = [ram EXCEPT ![x] = IF default_flag THEN Factory[x] ELSE temp]
  /\ Returned("register", {x}, TRUE)
  /\ UNCHANGED <<up, storage>>

\* Mutant: the address that the next registration gets is written.
write_next(x) ==
  /\ Registered(x)
  /\ storage' = Written(current_addr, ram[x], SizeOf[x])
  /\ Returned("write", {x}, TRUE)
  /\ UNCHANGED <<up, node, counted, current_addr, ram>>

sh_config_write(x) ==
  /\ \E i \in 1 .. counted :
       /\ sh_config_find(x, i)
       /\ storage' = Written(node[i].addr, ram[x], node[i].size)
  /\ Returned("write", {x}, TRUE)
  /\ UNCHANGED <<up, node, counted, current_addr, ram>>

\* The storage fails, or power does, when some of the bytes are written.
WriteFails(x) ==
  /\ \/ ~Registered(x) /\ UNCHANGED storage
     \/ \E i \in 1 .. counted, n \in 0 .. SizeOf[x] :
          /\ sh_config_find(x, i)
          /\ storage' = Written(node[i].addr, ram[x], n)
  /\ Returned("write", {x}, FALSE)
  /\ UNCHANGED <<up, node, counted, current_addr, ram>>

\* The program assigns to a variable that it has registered.
Assign(x) ==
  /\ Registered(x)
  /\ \E v \in Patterns[x] : ram' = [ram EXCEPT ![x] = v]
  /\ UNCHANGED <<up, node, counted, current_addr, storage, status>>

\* Memory is lost, the storage is not.
PowerLoss ==
  /\ up' = FALSE /\ node' = <<>> /\ counted' = 0 /\ current_addr' = 0
  /\ ram' = ErasedVars
  /\ UNCHANGED <<storage, status>>
-----------------------------------------------------------------------------
ConfigNext ==
  \/ sh_config_init \/ InitRefused \/ PowerLoss
  \/ \E x \in Vars : \/ sh_config_register(x) \/ RegisterFails(x)
                     \/ sh_config_write(x) \/ WriteFails(x) \/ Assign(x)

ConfigSpec == ConfigInit /\ [][ConfigNext]_configVars
-----------------------------------------------------------------------------
Calls == {"none", "init", "register", "write"}

\* Types of the configuration, its memory and its storage.
ConfigTypeOK ==
  /\ up \in BOOLEAN /\ counted \in 0 .. Len(Settable)
  /\ status \in [call : Calls, of : SUBSET Vars, ok : BOOLEAN]
  /\ node \in Seq(ConfigNode) /\ Len(node) >= counted
  /\ current_addr \in Nat
  /\ DOMAIN ram = Vars /\ \A x \in Vars : ram[x] \in Patterns[x]
  /\ storage \in [Addresses -> Bytes]

(***************************************************************************)
(* A variable has the slot of its place in the order of registration, the  *)
(* same one after every start, after failed registrations and when         *)
(* sh_config_init is called again; so a write never reaches the bytes of   *)
(* another variable, nor a restart another one's value (sh_config_init,    *)
(* sh_config_register).                                                    *)
(***************************************************************************)
InPlace ==
  /\ up => current_addr = Slot(counted + 1)
  /\ \A n \in 1 .. counted :
       node[n] = [data |-> Settable[n], addr |-> Slot(n), size |-> SizeOf[Settable[n]]]

PlaceOf(x) == CHOOSE n \in DOMAIN Settable : Settable[n] = x

Store == INSTANCE Settings WITH
           Names <- Vars, Default <- Factory, Blank <- ErasedVars,
           ready <- {x \in Vars : Registered(x)}, result <- status,
           value <- [x \in Vars |-> IF Registered(x) THEN ram[x] ELSE ErasedVars[x]],
           saved <- [x \in Vars |-> Stored(Slot(PlaceOf(x)), SizeOf[x])]

(***************************************************************************)
(* Across restarts, failed reads, failed and torn writes, every registered *)
(* variable has the value that was last written for it, or its default; a  *)
(* value whose bytes are all 0xff is taken for one never written           *)
(* (sh_config_register, sh_config_write).                                  *)
(***************************************************************************)
IsSettings == Store!SettingsSpec
=============================================================================
