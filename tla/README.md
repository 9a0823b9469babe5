# sh_lib in TLA+

A verification development for sh_lib, a C library of components for
microcontrollers: event bus, software timers, state machine, ring buffer, hash
table, persistent settings, buttons.
The modules are translated from the sources (`Src/`, `Inc/`); file and line of
every definition are in `PROJECT.json` under `map`.

## The system

sh_lib runs on one core. There are no threads: the main loop calls the library,
the library calls user callbacks, callbacks call the library again, and as long
as interrupts are enabled an interrupt handler may call it too, on top of
whatever was running. The library protects its data by disabling interrupts, and
it calls most callbacks *inside* these critical sections.

| component | state | operations | talks to |
|---|---|---|---|
| `sh_isr` interrupt control | two registered functions, the level each critical section remembers | disable, enable, register | everything |
| `sh_list` intrusive list | `prev`/`next` in the nodes | insert before/after, remove, traverse | event, timer, sm |
| `sh_event` event bus | map with a subscriber list per event; servers with callbacks, modes, a queue; messages with a reference count | create, destroy, start, stop, (un)subscribe sync and async, publish, handler, clear | list, isr, memory, callbacks |
| `sh_timer` timers | timers with mode, callback, interval, overtick; lists sorted by overtick | create, destroy, set_mode, start, restart, stop, handler | list, isr, tick source, callbacks |
| `sh_sm` state machine | current state, `re_execute`; per state an event server, a timer list, a bitmap of ids | create, destroy, (un)subscribe, trans_to, publish, timers, handler | event, timer |
| `sh_fifo` ring buffer | `in`, `out` modulo the size, the elements; one place stays free | create, destroy, in, out, peek, used and unused size | isr, memory |
| `sh_hash` hash table | an array of nodes, open addressing with linear probing; the number in use | create, destroy, add, find, is_key_exist, clear, remove | memory |
| `sh_config` persistent settings | registered variables with their addresses, the next address | init, register (8 types), write | the program's storage functions |
| `sh_button` buttons | limits and a list of buttons; per button the debounced level, a 4-bit count, state, ticks, presses | init, attach and detach callbacks, add, handler | list, pin function, callbacks |
| `sh_bits`, macros | none | pure functions | - |
| `sh_mem` + `tlsf` | memory pool (third-party allocator) | malloc, free | everything |

What makes the code hard:

- **Re-entrance.** A callback may drain, clear, unsubscribe or destroy the very
  list that is being walked around it. `sh_list_for_each_safe` keeps the next
  node across the callback; `sh_list_for_each` reads the current node after it.
- **Interrupts** come in wherever interrupts are enabled: between the lookup of
  subscribers and the delivery, between the empty test of a queue and its drain,
  between the steps of `sh_sm_trans_to`.
- **Nesting** of critical sections: the outermost must enable interrupts again,
  the others must not.
- **Reference counts** raised and dropped by publications, drains, nested drains
  and clears in any order.
- **Memory** that runs out after half of a publication is done.
- **Ticks** that wrap, and lists sorted by raw tick values.
- **Holes** that removal leaves in the probe chains of the hash table.
- **Restarts** at any point of a write, and a storage that cannot be read, while
  addresses follow from the order of registration alone.
- **Bounces** of a button right after an accepted edge, on a counter of four bits.
- **Two records of one fact**: subscription node and `cb[]`, timer id in the
  bitmap and in the node, current state and started server.

What makes each component correct, and where it is stated:

| component | correctness | property |
|---|---|---|
| isr | interrupts off exactly inside critical sections, restored by the outermost | `MaskDiscipline`, `InterruptsReturn`, `PassReturns` |
| event | counted messages, no use after free, no leak, one delivery per server | `RefCounted`, `NoFreedMsg`, `NoStaleNode`, `Reclaimed`, `QueuedOnce` |
| event | subscription records agree | `SubscriptionsAgree` |
| event | a publication is an atomic broadcast, in order | `IsAtomicBroadcast` (refinement of `EventBus`) |
| event | messages leave the queue | `EventuallyTaken` |
| timer | sound links, sorted well enough, not early, not late, not after stop | `LinkedOnce`, `PassComplete`, `NeverEarly`, `OnTime`, `OnlyRunningFires`, `TimeGoesOn` |
| fifo | a bounded queue, also across the end of the buffer; a peek that is preempted copies a prefix | `IsBoundedQueue` (refinement of `BoundedQueue`), `PeekIsPrefix`, `FifoTypeOK` |
| hash | a dictionary of at most `node_count` entries while removal leaves no gap, and never anything made up | `IsDictionary` (refinement of `Dictionary`), `UsedCounts` |
| config | a variable has its last written value after a restart, and its own slot | `IsSettings` (refinement of `Settings`), `InPlace`, `ConfigTypeOK` |
| button | a steady level is accepted, an edge has a cause | `Settles`, `EdgesDebounced` |
| button | callbacks tell what the debounced button did, in time and once | `IsGestures` (refinement of `Gestures`), `ButtonTypeOK` |
| sm | only the current state is active, states left are at rest, ids agree, the handler serves the current state | `OnlyCurrentStarted`, `LeftAtRest`, `NodesAgree`, `ServesCurrent`, `EventServed` |

## The modules

`ShIsr` is the execution context that all others extend: `stack` is the stack of
library functions in progress (a frame says where a function is and what level
its `sh_isr_disable` returned) and `masked` whether interrupts are off.
`CanCall(op)` says who may start an operation: the main loop when nothing runs,
a callback when the top frame is in one (`pc = "cb"`), an interrupt whenever
`~masked`. The sets `MainOps`, `CbOps`, `IsrOps` choose what each of the three
calls, `MaxDepth` bounds the stack. **Atomicity:** one action is one stretch of
code that nothing can come between. A function that runs with interrupts off and
calls no callback is one action; otherwise it is cut at every callback and at
every point where it runs with interrupts enabled and its outcome depends on it
(`pc = "check"`: what is read before `sh_isr_disable`). Set-up functions
(`sh_event_server_create` and the like) are called with their lists not yet
shared, and are one action although they allocate with interrupts enabled.

`ShList` has lists as sequences of nodes without the head. A removed node points
to itself, so removing it again does nothing.

`ShEvent` models `Src/sh_event.c`. `map`, `server`, `subs`, `mode`, `queue` and
`msg` are the allocated map, the servers' states, the subscriber lists, the
`cb`/`sub_mode` arrays, the event queues and the message control blocks with
their reference counts. A publication is `sh_event_publish`, `PublishLock`, then
one step per subscriber (`PublishSkip`, `PublishSync`, `PublishSave`,
`PublishSaveFails`) and `PublishDone`; a drain is `sh_event_handler`,
`ExecLock`, `ExecTake` per message with `CbReturn`, and `ExecDone`. When a
callback frees the node that a function below it will follow, `Break` marks that
frame (`ok = FALSE`), and `NoStaleNode` says it never happens. The payload of a
message is left out: it is copied once and handed over with the message.

`EventBus` is the abstract specification: listeners, active servers and one
inbox of events per server, with an atomic broadcast. `ShEvent!Bus` maps to it:
messages of a publication under way are not in the inboxes yet.

`ShTimer` models `Src/sh_timer.c`, with ticks in `0 .. Modulus-1`, unsigned
addition and the signed comparison of `sh_timer_is_time_out`. A pass of
`sh_timer_handler` reads the tick (`pc = "check"`), disables interrupts
(`TimerLock`), fires timers (`TimerFire`, `TimerCbReturn` for `goto restart`)
and ends (`TimerDone`). `age` is not in the code; it counts ticks since a timer
was started, and saturates at `Modulus`.

`ShSm` models `Src/sh_sm.c` on top of both; it EXTENDS them and calls their
operators. The handler and the transition are frames of their own, so that
interrupts publish between their steps. The removal of all timers of a state in
a transition is one step, since interrupts do not touch the timers of a machine
in these runs.

`ShFifo` models `Src/sh_fifo.c` with unsigned arithmetic modulo `Word`.
`sh_fifo_in` and `sh_fifo_out` run with interrupts off and are one action each;
the two memcpys of each are `Copied` and `At`. `sh_fifo_out_peek` does not
disable interrupts: it reads `in` and `out` in either order (`PeekReads`; C does
not fix it), limits the size (`PeekSize`) and copies element by element
(`PeekCopy`), and interrupts may come before each of these steps. The size
functions called by the user alone change nothing and have no action.

`BoundedQueue` is the abstract specification: a sequence of at most `Capacity`
items, how many the last `In` accepted and what the last `Out` handed over.
`ShFifo!Queue` maps the places from `out` up to `in` to the sequence, the return
value of `sh_fifo_in` to the former, and `Size - 1` to `Capacity`.

`ShHash` models `Src/sh_hash.c`. `jenkins_hash` is chosen once, any function from
the keys to `Hashes`, so that every pattern of collisions occurs; `Probed(k, i)` is
the bucket that `sh_hash_get_next_index` reaches after `i` steps from the home of
`k`, a node that was zeroed is `Zeroed`. `answer` records what the last call
returned, with its key. Calls that change nothing when memory is short, and
`sh_hash_get_used_amount`, which returns a variable, have no action.

`Dictionary` is the abstract specification: per key the values in the order in
which they were added, of which the first is found and removed; while it is
`intact` every key is found, and an add keeps it so; a removal may end that, and
then a key may be overlooked. `ShHash!Dict` maps the nodes of a key in the order
of probing to its values, and to `intact` that no free node lies between the
home of a key and a node that holds it. What the abstract specification forbids
even then is to find a key that was not added, a wrong value, or to refuse an
add before the table is full.

`ShConfig` models `Src/sh_config.c` byte by byte: a variable is a sequence of bytes,
`storage` a function from addresses to bytes that `PowerLoss` does not change, and a
write that fails, or is cut off by a power loss, has written any number of its
bytes. `sh_config_register` stands for the eight functions that the macro
`SH_CONFIG_FN_DEF` makes; `RegisterFails` leaves the node it has filled in behind,
uncounted. The program (`RegisterNext`) registers its variables in one order
after every start and tries again when it fails.

`Settings` is the abstract specification: the settings restored since the restart,
their values, the saved ones. A failed save leaves that one setting in doubt. A
blank value (all bytes 0xff, as in erased storage; -1 for an integer) counts as
never saved: `Restore` then gives the default. `ShConfig!Store` maps to `saved` the
bytes at the place of a variable in the order of registration.

`ShButton` models `Src/sh_button.c`. A scan is one action, `sh_button_handler(levels)`,
with any levels read; `Scanned` is `sh_button_debounce` followed by
`sh_button_state_machine_process`, whose two `if`s per state are `ProcessEdge` and
`ProcessTimeout`. `debounce_cnt` is modulo `CntMod`. `told` (the callbacks of the
last scan) and `seen` (the level last read, for how many scans, and whether the
last scan accepted an edge) are not in the code. Callbacks are set between scans.

`Gestures` is the abstract specification: whether the debounced button is down,
for how long it has been so, how many presses its series has, and which event a
scan tells of it. `ShButton!Told` maps the ticks of the four states to one age since
the last edge, and `repeat` to the series outside IDLE.

`MCEvent`, `MCTimer`, `MCSm` declare the model values and symmetry sets.
`MCStandalone` puts `ShFifo`, `ShHash`, `ShConfig` and `ShButton`, which share no
state and never call each other, into one specification: `inUse` is chosen in the
initial state, and a behaviour uses that part only, so that its states are the
sum and not the product of theirs.
`ShTimerProofs`, `ShEventProofs`, `ShSmProofs`, `ShFifoProofs`, `ShHashProofs`,
`ShConfigProofs` and `ShButtonProofs` hold theorems, and `ShLemmas` the lemmas
about lists, sequences and stacks that they share.

## Assumptions on the environment

- `Careful`: callbacks leave the nodes alone that the functions below them will
  follow. They do not unsubscribe the server that a publication is calling from
  the event it delivers, nor drain or clear a queue whose drain has saved its next
  node, or destroy a server or state in use; other servers may be subscribed,
  unsubscribed and destroyed while the list is being walked. They also do not
  drain or clear a queue that holds a message still being published: the drain
  would free it, and `sh_event_publish_with_param` goes on with it. The
  code does not check this, and no document states it; `SmTransInCallback` shows
  what happens without it.
- `ClearFirst`: a server's queue is cleared before the server is destroyed;
  `EventDestroyLeak` shows what happens without it.
- The state machine: interrupts publish, and do not move the machine, run its
  handler or start private timers; `sh_sm_handler` is called by the main loop
  only (as in `example/sh_sm_example.c`). Timers are started and removed one at
  a time with interrupts off, but `sh_sm_trans_to` and `sh_sm_handler` run with
  interrupts on: between two steps of a transition a timer would start for the
  state that is being left. That a loop over all timers of a state is one action
  is right for interrupts that do not start or remove timers of the machine.
- Time: `Tick` advances the tick at any moment, interrupts off or on, but the
  handler serves the first timer of a list within `MaxLag` ticks and a pass does
  not take longer than that. `MaxLag` is an assumption on the program's main
  loop. Where a run says `MaxTick < Modulus - 1` the counter stops before it
  wraps, otherwise it wraps for ever.
- A ring buffer has one reader: nobody takes elements out of it, or destroys it,
  while a peek is copying. Its size is at most half the range of its indices.
- The hash table, the configuration and the buttons do not disable interrupts and
  are used from one context; `Standalone` calls them from nowhere else.
- A hash table has at least one node; keys are not changed while they are in it.
- The program registers its variables in the same order after every start, a
  variable once, and again if the storage could not be read; the array it gives
  to `sh_config_init` holds them all, and the base address does not change.
- `debounce_ticks` is below 16, the range of its counter, the pin function returns
  0 or 1, and a button is initialised and added once.
- `sh_isr_register` is called before anything else; `SH_ASSERT` conditions are
  preconditions of the actions.
- Memory: `Msgs` message blocks can be allocated. With `AllocFails`, any
  allocation in a publication and in `sh_timer_create` may fail. The other
  functions that allocate return before they have changed anything.

## Runs

Passing runs:

| run | bounds | shows |
|---|---|---|
| `EventSafety` | 2 servers, 2 events, 2 messages, depth 4; callbacks call everything but create and subscribe, interrupts publish and clear; allocation may fail | `TypeOK`, `MaskDiscipline`, `NoStaleNode`, `RefCounted`, `NoFreedMsg`, `SubscriptionsAgree`, `QueuedOnce` |
| `EventRefines` | as `EventSafety`, with depth 3, asynchronous subscribers only, enough memory; callbacks create and subscribe servers too, interrupts publish only | `IsAtomicBroadcast`: the bus implements `EventBus`; `Reclaimed`: no message is kept that nobody needs |
| `EventLiveness` | 2 servers, 1 event, 2 messages, depth 3; callbacks create, start, stop and subscribe servers, drain and clear, but neither publish nor take a server off a list; interrupts publish | `EventuallyTaken`, `InterruptsReturn`, `QueuedOnce` |
| `TimerSafety` | 2 timers, 2 lists, `Half` 8, ticks 0..5, lag 2, depth 3; allocation may fail | `LinkedOnce`, `PassComplete`, `OnTime`, `OnlyRunningFires` |
| `TimerWrap` | 2 timers, 1 list, `Half` 3, the counter wraps, lag 1, depth 2 | `TimerTypeOK`, `MaskDiscipline`, `NeverEarly`, `PassReturns`, `TimeGoesOn` |
| `SmSafety` | 2 states, 1 event, 2 messages, 2 timers, 2 ids, depth 3 | `SmTypeOK`, `OnlyCurrentStarted`, `LeftAtRest`, `NodesAgree`, `ServesCurrent`, `RefCounted` |
| `SmLiveness` | 2 states, 1 event, 1 message, 1 timer; event callbacks and the callbacks of normal timers switch states, the latter between the moment the handler reads the server and the moment it drains it | `EventServed` |
| `Standalone`, ring buffer | buffer of 3, indices modulo 8, 2 elements, batches up to 3, depth 2 | `IsBoundedQueue`: the buffer implements `BoundedQueue`; `PeekIsPrefix`, `FifoTypeOK` |
| `Standalone`, hash table | 3 nodes, 3 keys, 2 values, homes 0 and 2 in every way | `IsDictionary`: the table implements `Dictionary`; `UsedCounts` |
| `Standalone`, settings | 3 variables of 1, 2 and 1 bytes, slots of 2, bytes 0 and 255; failures, torn writes and power losses without bound | `IsSettings`: the configuration implements `Settings`; `InPlace`, `ConfigTypeOK` |
| `Standalone`, button | 1 button, active high or low, debounce 3 and 1, release 4 and 2, long press 5 and 3, repetition 2 and 1 scans; a 4-bit counter and up to 7 presses as in the code | `IsGestures`: the driver implements `Gestures`; `Settles`, `EdgesDebounced`, `ButtonTypeOK` |

Why these bounds are enough to be interesting: two messages and two servers give
a shared reference, a queue of two and a saved next node; depth 3 is a callback
inside a drain inside a publication, depth 4 adds an interrupt or a second drain
in the innermost; two timers give an order on a list and a neighbour to stop,
two lists a timer that changes lists; intervals include a refused one (`Half`).
In `TimerWrap` the range is so small that timers are started before and run out
after a wrap. `NeverEarly` holds for intervals up to `Half - MaxLag`: a pass
works with the tick it read before it disabled interrupts, and a longer interval
started by an interrupt after that moment would count as run out at once; the
run's accepted interval is 1. `OnTime` and `PassComplete` are claimed only before
the counter wraps (see `TimerLost`). In the ring buffer a batch is as long as the
buffer and longer than the queue it holds, so that batches are cut, and every
copy is split somewhere. In the hash table chains of three wrap around the end of
the array, and keys that were added twice are removed in the middle of the chain
of another; the keys are interchangeable, so their hashes are taken in ascending
order. Of the variables one fills its slot and two do not, the default of one is
partly 0xff, and storage is small enough for all of its contents to occur. A
button can bounce until its counter wraps; buttons do not influence each other,
so one is enough, and only the times are smaller than in the code.

`QueuedOnce` is claimed for callbacks that only take servers off the lists of
subscribers (`EventSafety`) or only add servers to them (`EventLiveness`);
`EventDeliversOnce` proves it for both kinds. It is not true of callbacks that do
both: with `subscribe` added to the `CbOps` of `EventSafety` TLC finds that a
synchronous callback unsubscribes a server which has already queued the message
and subscribes it again, so that it stands behind the node the publication is at
and queues the message a second time. No node is stale and the count is right:
the other invariants hold for callbacks that do both too, which the theorems
below prove.

Symmetry (servers, messages, events, timers, lists) is used only in runs without
temporal properties, apart from the action property of `TimerSafety`.

Runs that end in a violation, each a disagreement of the code with its tests,
example or documentation:

| run | property | what happens |
|---|---|---|
| `EventDestroyLeak` | `Reclaimed` | `sh_event_server_destroy` does not free the queue nodes of the server nor drop its references: messages that wait for it stay allocated. The tests' TearDown expects all memory back. |
| `TimerLost` | `NotLost` | Lists are sorted by raw overticks, passes stop by wrapped comparison: around a wrap a due timer stands behind one that is not due, is passed over, and half a range later no longer counts as due. |
| `HashLost` | `RemovesOneKey` | `sh_hash_remove` zeroes the node, and a find stops at the first free one: a key displaced by the removed key is lost, while it still counts. In the table of `test/test_sh_hash.cpp` removing "222" loses "11". |
| `SmTransInCallback` | `NoStaleNode` | `sh_sm_trans_to` in an event callback, as in `example/sh_sm_example.c`, frees the queue node that the drain around the callback follows next. |

### Fairness

Liveness runs assume strong fairness of the library's own steps at every depth
of the stack (`Len(stack) = d /\ Steps`): the processor goes on executing, and
interrupts end and do not starve what they preempted. Strong, because an
interrupt that comes again and again disables the step below it in between. The
main loop calls every handler again and again (`stack = <<>> /\ handler`), as
the loop of `example/sh_sm_example.c` does. In `TimerWrap` the tick source is
fair. Nothing is assumed about user operations, interrupts or callbacks.
`InterruptsReturn` is checked for callbacks that do not publish: the drain takes
what they publish too, with interrupts off, and two callbacks that publish to
each other never let it end.

## Proofs

`ShTimerProofs` proves, for every set of timers and lists, every width of the
tick counter and every depth of nesting:

- `TimerTypeCorrect`: `TimerSpec => []TimerTypeOK`. The invariant is inductive;
  the work is in the list operations (`StartTypes`, `UnlinkedProperties`) and the
  modular arithmetic (`TickArithmetic`).
- `TimerMaskCorrect`: `TimerSpec => []MaskDiscipline` if `~AllocFails` (with
  failing allocations it does not hold: `sh_timer_create` without memory returns
  between disable and enable, `Src/sh_timer.c:47`, and interrupts stay off; this
  is the action `sh_timer_create_fails`). `MaskDiscipline` is inductive
  on typed stacks. `ShLemmas` shows once, for stacks of any frames, that
  entering, going on, disabling, enabling and returning keep it; `MaskStep` says
  which of these each action is.
- `TimerLinksCorrect`: `TimerSpec => []LinkedOnce`, failing allocations included.
  `LinkedOnce` alone is not inductive: a pass that has just fired a timer without
  callback stands at a node that is on no list, and may start it again. The
  invariant `LinkInv` adds `Passing` (the timer a pass stands at is allocated and
  has an interval; only the top frame can be between two callbacks) and `Covered`
  (inside a critical section interrupts are off, also after nested ones end),
  from which `CallOutsidePass` follows: nothing is called between two steps of a
  pass. It also needs every interval, also of timers on no list, to be below
  `Half`, because `sh_timer_restart` does not check it again.
- `TimerNeverEarly`: `TimerSpec => NeverEarly`, across every wrap of the counter, if
  accepted intervals leave room for the lag of a pass (`Headroom`: at most `Half -
  MaxLag`). `TimeInv` relates the overtick of a running timer to its age
  (`Clocked`) and the tick a pass works with to the counter (`Recent`); `NotYet` is
  the modular arithmetic that says what cannot have run out.
- `TimerServesOnTime`: `TimerSpec => []OnTime`, as long as no overtick wraps
  (`BeforeWrap`). `OnTime` looks at every timer, the assumption on the handler only
  at the first of each list: `ListsOrdered` (`StartOrder`: the insertion of
  `sh_timer_start` finds the place, wherever the list is) and `InTime` close the gap.
- `TimerPassComplete`: `[]PassComplete` under `BeforeWrap` and `Headroom`, if no LOOP timer
  is without callback. A pass may then stand only at the head of a list or at a
  SINGLE timer that it has taken off it (`AtSingle`), so that the first timer that
  has not run out is followed by none that has.
- `TimerOnlyRunningFires`: `TimerSpec => OnlyRunningFires` if every timer has a callback,
  wraps included: after `goto restart` a pass is back at the head (`AtHead`) and
  trusts no pointer from before the callback.

  The hypotheses of the last four cannot be dropped: on small instances TLC finds
  `NeverEarly` and `PassComplete` violated without `Headroom`, `OnTime` and
  `PassComplete` after a wrap, and `PassComplete` with LOOP timers without callback. The
  runs satisfy them, and `IntervalsOK`, `Clocked`, `Recent`, `FiredInTime`, `ListsOrdered`,
  `InTime`, `Nows`, `AtSingle` and `AtHead` were checked with TLC before they were proved.

`ShEventProofs` proves all invariants of the event bus, for every set of servers,
events and messages, every choice of the operations that the main loop,
callbacks and interrupts call, and every depth of nesting:

- `EventTypeCorrect`: `EventSpec => []TypeOK`. `Base` is the inductive part: the
  types with a count that is only an integer, which frames have a message
  (`FrameInv`), and that an absent server has an empty queue. That a count is
  not negative follows only from what it counts.
- `EventRefCountCorrect`: `EventSpec => []RefCounted`, with careless callbacks and
  failing allocations too. `CountInv` counts the holders of a message as a set of
  places, pairs of a server and a position in its queue (`HoldersOf`) and frames
  of drains (`CallersOf`), so that each step adds or takes out one place; the
  work is how appending, taking, clearing and breaking frames change these sets.
- `EventMaskCorrect`: `EventSpec => []MaskDiscipline`, with the lemmas of
  `ShLemmas`. No assumption is needed: the out-of-memory paths of
  `sh_event_publish_with_param` enable interrupts again.
- `EventSubscriptionsCorrect`: `EventSpec => []SubscriptionsAgree`. `SubsInv` adds
  that without a map no server lives: `sh_event_server_destroy` unlinks servers
  from the lists of the map.
- `EventReclaimsCorrect`: `[]Reclaimed` if `~AllocFails` and `ClearFirst` (without
  the first `sh_event_server_get_msg` leaks, without the second
  `EventDestroyLeak` is the counterexample), for callbacks that need not be
  careful. `ZeroRef`: a message that nobody counts is being published; `HeldLive`:
  only servers that exist have messages waiting.
- `EventNodesCorrect`, `EventMessagesCorrect`, `EventDeliversOnce`: `NoStaleNode`,
  `NoFreedMsg` and `QueuedOnce` if callbacks are `Careful`
  (`SmTransInCallback` is the counterexample without), the last if in addition
  they only add servers to the lists or only take them off (`JoinOrLeave`). None of the three is
  inductive, nor are they together. `CareInv` adds what every pair of frames on
  the stack owes each other (`Apart`: they publish different messages, and the
  inner one does not drain what the outer publishes or is about to drain) and
  where a publication is (`PubOK`: it stands on a subscriber, and under
  `JoinOrLeave` it comes no more to a server that has its message, which is a
  server it has passed or one that left for good, `Passed`). Hence the next node
  of a publication is then a server that does not have the message (`ReachesNew`);
  and no operation of a careful callback breaks a frame (`BreakNobody`).

The attempt to prove `EventTypeCorrect` found that the failing allocation in
`PublishNoMemory` left `msg'` open when no message block exists; the model was
corrected.

`ShFifoProofs` proves, for every size, index width, set of elements and length of
batches:

- `FifoTypeCorrect`: `FifoSpec => []FifoTypeOK`. A peek reads inside the buffer
  only because it has limited what it was asked for, so the invariant `FifoInv`
  adds that to the types.
- `FifoIsQueue`: `FifoSpec => IsBoundedQueue`, the refinement. `Wraps` removes
  the two moduli, `InCount` and `OutCount` say how many elements a call moves and
  where it leaves the indices, `CopiedElements` what the two memcpys leave in the
  buffer, and `AtAt` that places add up around its end; `InAppends` and
  `OutTakes` compare the sequences element by element.
- `FifoPeekCorrect`: `FifoSpec => []PeekIsPrefix`, for any nesting of peeks and
  interrupts that put elements in. `PeekInv` says of every peek on the stack what
  it knows at its place: that the indices it has read are not ahead of the
  buffer's, and that what it has limited itself to was there and still is, since
  elements are only appended (`InAppends`). It needs the one-reader assumption:
  `Unpeeked` guards `sh_fifo_out` and `sh_fifo_destroy`.

`ShHashProofs` proves, for any keys, values, sizes of the table and hash function:

- `HashUsedCounts`: `HashSpec => []UsedCounts`. `HashInv` adds to it the type of the
  hash function. Probing visits every bucket once (`ProbedOnce`), so that with
  `used < node_count` the loop of `sh_hash_add` ends at a free one (`FreeBucket`).
- `HashIsDictionary`: `HashSpec => IsDictionary`, the refinement. `Places(k)` are the
  probe steps at which `k` is stored, and its entries the values there in ascending
  order; `AscendingInsert` says what one more or one less place does to that order.
  So an add inserts an entry, at the end while no chain has a hole, and makes no
  hole (`AddEntries`), and a removal takes out the first and leaves those of other
  keys alone (`RemoveEntries`). `FoundUnlessHole` says when a key can be overlooked,
  `TotalIsUsed` that an add is refused only when there are `node_count` entries.

`ShConfigProofs` proves, for any variables of any sizes, any slot size and base
address:

- `ConfigTypeCorrect` and `ConfigPlacesCorrect`: `ConfigSpec => []ConfigTypeOK`
  and `ConfigSpec => []InPlace`, whatever fails and whenever the program starts
  again. Neither is inductive alone: that the bytes of a write are inside the
  storage follows from the slot and the size in its node (`FoundSize`,
  `SlotInStorage`), so `ConfigInv` is both. `ClaimedProperties` says that a failed
  registration leaves a node behind that the next one overwrites.
- `ConfigIsSettings`: `ConfigSpec => IsSettings`, the refinement. `InOrder`, which
  follows from `ConfigInv`, says that the registered variables are the first ones
  in order and that a search finds each at its place; `BytesApart` that slots do not overlap.
  So a write torn at any byte changes what is kept for its own variable only
  (`KeptWritten`), and a registration reads what was kept for its own variable
  (`RegisterRestores`).

`ShButtonProofs` proves, for any buttons, limits, width of the debouncing counter
and levels read:

- `ButtonTypeCorrect`, `ButtonSettles`, `ButtonEdgesCorrect`: `[]ButtonTypeOK`,
  `[]Settles` and `EdgesDebounced`. `debounce_cnt` is not reset by an edge, goes on
  until a level read agrees with the current one, and wraps; `CountOK` says what
  it is still worth: without an edge in the last scan it is at most the number of
  equal levels read, and while the level read disagrees, that number is at most
  one ahead of it. One ahead is the scan in which it wrapped, and the reason why
  `Settles` asks for one scan more than `debounce_ticks`. `StateOK` says that the
  automaton follows the level, `Fresh` that nothing happens to a button before
  `sh_button_ctrl_init`, which is when the limits become positive (`LimitsOK`).

- `ButtonIsGestures`: `ButtonSpec => IsGestures`, the refinement. `ProcessCases` unfolds
  a step of the automaton into its eleven outcomes; `ScanGesture` shows that each is
  one of the four things that can happen to a button of `Gestures` (`WentDown`,
  `WentUp`, `StaysUp`, `StaysDown`), with one call at most, of the right event. It needs
  that a button that is not idle has counted a press (`Counted`) and, for the limits
  that `sh_button_ctrl_init` replaces, that every button is at rest then.

  The attempt to prove it found that `AgeOf`, in the refinement mapping, chose
  between overlapping cases, which TLC resolves by their order and the language
  does not; they are disjoint now.

`ShSmProofs` proves all invariants of the state machine, for every set of states,
events, messages and timers, every number of ids, every choice of the operations
that callbacks call and every depth of nesting, if interrupts do not move the
machine, run its handler or start private timers (`IsrOps`):

- `SmTypeCorrect`, `SmLeavesAtRest`, `SmNodesCorrect`: `[]SmTypeOK`, `[]LeftAtRest`
  and `[]NodesAgree`.
- `SmServesCurrent`: `[]ServesCurrent` if callbacks do not call `sh_sm_handler`
  either (`MainOnly`).
- `SmOneStarted`: `[]OnlyCurrentStarted` if callers are `Careful`.

None of these assumptions can be dropped: on small instances TLC finds `LeftAtRest`
violated when interrupts call `sh_sm_trans_to` or `sh_sm_start_timer`,
`ServesCurrent` when interrupts or callbacks call `sh_sm_handler`, and
`OnlyCurrentStarted` when the current state may be destroyed.

None of the five is inductive; all but the last follow from one invariant,
`SmInv`, which says in its parts:

- `StackInv`: what runs on top of what. Only a publication can run above a
  transition, because nothing else is called by interrupts and a transition calls
  no callback; an overtick callback is directly on top of the pass that serves its
  timer; below the frame that `sh_sm_timer_overtick_cb` leaves interrupts are off.
  Of every handler it says that it holds the server of the current state unless
  `re_execute` is set.
- `ServersInv`: no server but that of the current state is started, and how far a
  transition has come: which of the queue and the timers of the state being left
  are already empty. A publication gives messages to started servers only
  (`BusSteps`, from the lemmas of `ShEventProofs` about frames that agree with
  their queues), so that what was emptied stays empty.
- `NodesOK` and `RunOK`: the nodes, ids and lists agree timer by timer; a timer of
  the machine that is on no list is being called by a pass (`Busy`). Hence
  `SmOvertickDone` removes the timer it was called for, and removing a set of
  timers leaves exactly the others (`WithoutProperties`).

`CarefulInv` adds for `SmOneStarted` that the current state's server is started or
a transition is on the stack.

`ShLemmas` proves what removal and insertion do to a list that holds no node
twice, and what removing a set of nodes one by one leaves. `WithoutProperties` is
about a function that is recursive in the length of the list; the induction is an
argument about the least position where it would fail (`Least`). The only assumptions are the named
ASSUMEs on the constants (`IsrAssumption`, `EventAssumption`,
`TimerAssumption`, `SmAssumption`, `FifoAssumption`, `HashAssumption`,
`ConfigAssumption`, `ButtonAssumption`) and, where stated, `~AllocFails`, `Careful`, `ClearFirst`,
`JoinOrLeave`, `Headroom`, `BeforeWrap`, which timers have callbacks, and what interrupts and
callbacks do not call.

Only model-checked: the refinement of `EventBus` (its queues are filtered with
`SelectSeq`, which is not unfolded as `Without` is), and liveness, which is out of
the prover's reach.

## Not modelled

- `sh_bits`: two pure functions of a word.
- Timers without callback: they are in the model, but `NullCbModes` leaves them out
  of the runs. `sh_timer_handler` takes a SINGLE one off its list and then follows
  it, to itself, for ever; a LOOP one it puts back and goes on behind it, past
  timers that are due. With `NullCbModes = {"single"}` TLC finds `PassReturns`
  violated, with `{"loop"}` `PassComplete` (a hazard without property).
- Callbacks of a button that add buttons or change callbacks during the scan.
- A program that ignores a failed registration, and so moves all later variables
  to other slots; variables registered twice.
- `sh_mem` and `tlsf`: a third-party allocator; here allocation succeeds, or may
  fail. That it runs with interrupts enabled in the create functions, while an
  interrupt may allocate too, is listed as a hazard.
- `sh_isr_register`/`unregister` after start-up.
- Macros and headers without state, tests and examples (read for what callers
  do).

## Plan

Done, in this order: `ShIsr`, `ShList`, `ShEvent` with `EventBus`, `ShTimer`,
`ShSm`, `ShFifo` with `BoundedQueue`, the proofs about the ring buffer, `ShHash`
with `Dictionary`, `ShConfig` with `Settings`, `ShButton` with `Gestures`, the
proofs about the configuration, the event bus, the peek of the ring buffer, the
debouncing of buttons, the state machine, the timers and their time, and the hash
table.

Next: a proof of the refinement of `EventBus`.
