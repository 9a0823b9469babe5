------------------------------- MODULE ShIsr -------------------------------
(***************************************************************************)
(* The execution context of sh_lib (Src/sh_isr.c and the way every other   *)
(* component uses it): one core, one call stack.  The main loop calls the  *)
(* library, the library calls the user's callbacks, callbacks call the     *)
(* library again, and while interrupts are enabled an interrupt may call   *)
(* it too, on top of whatever was running.                                 *)
(*                                                                         *)
(* A frame of `stack` is one library function in progress, the innermost   *)
(* first.  All frames have at least the fields                             *)
(*   op     the function,                                                  *)
(*   pc     "check" while it has not disabled interrupts itself, "cb"      *)
(*          inside a user callback, another label while it runs with       *)
(*          interrupts off,                                                *)
(*   level  what its sh_isr_disable returned,                              *)
(*   ok     FALSE once memory it will read next has been freed under it.   *)
(***************************************************************************)
EXTENDS Naturals, Sequences

CONSTANTS MaxDepth, \* bound on the length of the call stack
          MainOps,  \* the operations the main loop calls,
          CbOps,    \* those that callbacks call,
          IsrOps,   \* and those that interrupt handlers call
          AllocFails \* TRUE: SH_MALLOC may return NULL at any time

ASSUME IsrAssumption == MaxDepth \in Nat \ {0} /\ AllocFails \in BOOLEAN

VARIABLES stack,    \* the functions in progress, innermost first
          masked    \* TRUE while interrupts are disabled

isrVars == <<stack, masked>>

IsrInit == stack = <<>> /\ masked = FALSE

Top == stack[1]

\* An operation starts: from the main loop, from a callback, or from an
\* interrupt that preempts code running with interrupts enabled.
CanCall(op) ==
  /\ Len(stack) < MaxDepth
  /\ \/ stack = <<>> /\ op \in MainOps
     \/ stack # <<>> /\ Top.pc = "cb" /\ op \in CbOps
     \/ ~masked /\ op \in IsrOps

Enter(f) == stack' = <<f>> \o stack /\ UNCHANGED masked

Goto(f) == stack' = [stack EXCEPT ![1] = f] /\ UNCHANGED masked

\* A call that returns without having disabled interrupts.
Leave == stack' = Tail(stack) /\ UNCHANGED masked

\* Mutant: interrupts stay enabled.
disable_nothing(f) ==
  /\ UNCHANGED masked
  /\ stack' = [stack EXCEPT ![1] = [f EXCEPT !.level = masked]]

\* The current function (now at frame f) disables interrupts and remembers
\* whether they were disabled already.
sh_isr_disable(f) ==
  /\ masked' = TRUE
  /\ stack'  = [stack EXCEPT ![1] = [f EXCEPT !.level = masked]]

\* Mutant: interrupts are enabled whatever the level was.
enable_always == masked' = FALSE /\ stack' = Tail(stack)

\* The current function restores the level it found and returns.
sh_isr_enable ==
  /\ masked' = Top.level
  /\ stack'  = Tail(stack)

Locked(f) == f.pc # "check"

(***************************************************************************)
(* The discipline of sh_isr_disable/sh_isr_enable: interrupts are off      *)
(* exactly while some function on the stack has disabled them, and every   *)
(* such function will restore what held before it, so that they come back  *)
(* on when, and only when, the outermost one returns.                      *)
(***************************************************************************)
MaskDiscipline ==
  /\ masked = \E i \in DOMAIN stack : Locked(stack[i])
  /\ \A i \in DOMAIN stack :
       Locked(stack[i]) =>
         stack[i].level = \E j \in DOMAIN stack : j > i /\ Locked(stack[j])

(***************************************************************************)
(* No function on the stack is about to follow a list node that was freed  *)
(* while it was inside a callback (the sh_list_for_each loops of           *)
(* sh_event.c keep such a node across the call).                           *)
(***************************************************************************)
NoStaleNode == \A i \in DOMAIN stack : stack[i].ok
=============================================================================
