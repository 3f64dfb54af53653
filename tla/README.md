# TLA+ models of signal-hook

This directory holds a formal model of `signal-hook` and of its back end
`signal-hook-registry`: TLA+ modules translated from the Rust source, TLC
configurations that check them on small instances, and TLAPS proofs about all eight
components: the half-lock, the registry over it, its `VecMap`, the channel, the delivery of
signals, the life of an iterator, the ready-made actions and the origins. `PROJECT.json` is the index: components,
runs, the lines every definition stands for, hazards, findings and theorems.

```
tlc -config MCHalfLock.cfg MCHalfLock.tla      # one run
tlapm HalfLockProofs.tla                       # the proofs of one module
```

## 1. The system

A signal handler may interrupt any thread at any instruction, so it must not
lock, allocate or free. The library lets a program attach any number of hooks
to a signal all the same. Its parts:

| Part (source) | State | Operations | Interacts with |
|---|---|---|---|
| Half-lock (`signal-hook-registry/src/half_lock.rs`) | `data` pointer, `generation`, two reader counters, the writers' mutex | `read`, drop of `ReadGuard`, `write`, `store`, `write_barrier` | twice in the registry: the hooks, the race fallback |
| Registry (`signal-hook-registry/src/lib.rs`) | `SignalData` (a slot per signal: previous handler, actions by id), the fallback `Prev`, the kernel's dispositions | `register*`, `unregister`, `unregister_signal`, `handler` | the kernel, other libraries' handlers, the half-locks, `VecMap` |
| `VecMap` (`vec_map.rs`) | vector of pairs | `insert`, `remove`, `get`, `clear`, iteration | the registry |
| Channel (`src/low_level/channel.rs`) | two words that pack queues of slot indices, the storage | `send` in a handler, `recv` outside | exfiltrators with information |
| Delivery (`src/iterator/backend.rs`, `mod.rs`) | a slot per signal, a self-pipe, the `closed` flag, ids of the hooks | `add_signal`, `pending`, `wait`, `forever`, `poll_signal`, `Handle::close`, drop | the registry, the pipe, the exfiltrator |
| Exfiltrators (`src/iterator/exfiltrator/`) | `AtomicBool`, or a pointer to a channel | `supports_signal`, `store`, `load`, `init` | delivery, channel |
| Self-pipe (`src/low_level/pipe.rs`) | a file descriptor | `wake`, `register`, `register_raw` | delivery, the registry |
| Flags (`src/flag.rs`) | an atomic of the caller | `register`, `register_usize`, `register_conditional_shutdown`, `register_conditional_default` | the registry, default handlers |
| Default handlers (`src/low_level/signal_details.rs`, `mod.rs`) | dispositions, the mask | `emulate_default_handler`, `raise`, `abort`, `exit` | the kernel |
| Origin (`src/low_level/siginfo.rs`, `extract.c`, `exfiltrator/origin.rs`, `raw.rs`) | the `siginfo_t` values in the channels | `si_code` to cause, the process behind a signal | the channels, the kernel |
| Adapters (`signal-hook-tokio`, `-async-std`, `-mio`) | a stream over a socket pair, or a source of a `Poll` | `poll_next`; `register`, `reregister`, `deregister`, `pending` | `poll_signal`, the reactors |

A signal takes this way: kernel → `handler` → (fallback and data half-locks) →
previous handler, then the hooks in order of registration → a hook of the
iterator marks a slot (or sends into a channel) and writes a byte to the
self-pipe → the reading thread drains the pipe and looks at all the slots.

What is hard here, and what makes each part correct:

* **Half-lock.** A reader may stop between any two of its atomic operations
  while whole stores pass. Correct: a guard never refers to freed memory; the
  counters do not wrap; however many signals keep coming, the counter that readers took
  when a barrier began drains; and a store ends once signals stop. (It waits on both
  counters, so signals that never stop may keep it waiting.)
* **Registry.** Registration takes over a signal while it is being delivered;
  hooks are removed while handlers run them. Correct: a delivery runs one
  consistent list of hooks in order; a hook is quiet once its removal returned;
  the earlier handler of the program is called by every delivery, also in the
  window between `sigaction` and the store of the new slot; a registration that
  fails does no harm; every call returns once signals stop.
* **Channel.** Handlers nest in each other and race with the receiver.
  Correct: order kept, no slot lost or shared, the `expect`s never fail, and a
  value is only dropped while another one is still there to wake the program.
* **Life of an iterator.** Signals may be added from any thread, and an addition
  may fail or panic at several points with a mutex locked. Correct: the ids of
  all hooks are known, so that the drop leaves none; a handler never meets a slot
  that is not ready, nor is a slot initialised twice; every call returns once signals stop.
* **Actions.** The order of hooks decides whether the first Ctrl-C ends the
  process; a default action is emulated inside the very handler of the signal.
  Correct: the first signal is spared, the second is not, and the process ends by the signal itself.
* **Delivery.** Marks and bytes are separate, the pipe may be full, closing
  races with a blocking read, and a reactor tells edges only. Correct: the reader never
  sleeps on a mark or on a close; what came is reported; `close` ends every blocking call.
* **Origins.** A `siginfo_t` is a union that is read a long time after the signal, the
  same `si_code` means different things for different signals, and values are dropped when a
  channel is full. Correct: what the program gets describes what happened; a signal is reported
  after each arrival although its value may be lost, and although it keeps coming.

## 2. Modules

```
 RcuCell ◄── HalfLock ◄── HalfLockProofs     LossyFifo ◄── Channel ◄── ChannelProofs
    ▲                                            ▲
    └─ Registry ◄── RegistryProofs               └─ Origins ◄── OriginsProofs
          └─ implements ─► Dispatch          OrderedMap ◄── VecMap ◄── VecMapProofs
                            ▲   ▲            Delivery ◄── DeliveryProofs
 LifecycleProofs ──► Lifecycle  Actions ◄── ActionsProofs
```

`◄──` leads from a specification to what implements, extends or uses it. `MC*.tla`
name the model values and the symmetry of the runs of each module.

**RcuCell** (abstract). A cell that readers look at without waiting: `Read`,
`Release`, `Publish` a fresh value, `Reclaim` the old one, only when nobody
holds it. It is what the rest of the registry needs from a half-lock.

**HalfLock.** One action per atomic operation of `half_lock.rs`; all of them are
`SeqCst` in the code, so interleaving them is exact. `Readers` are activations of
`read()` (nested or in other threads makes no difference: a reader never
waits). `rpc`/`wpc` say where a reader and the owner of the mutex are;
`rslot`, `rdata`, `wdata`, `old`, `seen`, `pos` are the locals of the code.
`heap` is the set of live allocations; an address is reused as soon as it is
free, which makes the ABA case part of the model. `usize` has `W` values and its
arithmetic wraps. `Abort` is the abort of a reader that finds more than
`isize::MAX` guards.

**Registry.** Two instances of `RcuCell` (`data` and `race_fallback`) with the
contents of their addresses in `hooks` and `prevs`. The mutex of `data` is held
from the first to the last step of a call, so there is one call in progress:
`BeginRegister` → (`StoreFallback`, `ReclaimFallback`, `Install` when the signal
has no slot) → `StoreData` → `ReclaimData`; `DetectFails` and `InstallFails` are
the two error returns. A delivery takes the steps `Deliver`, `ReadFallback`,
`ReadData`, `Chain`, `RunAction`…, `ReleaseData`, `ReleaseFallback`.
`ForeignInstall` is another library that takes the signal before us. (After us
it would be outside what the registry promises.) A call builds its copy of the
`SignalData` with `TakeId`, `WithSlot`, `WithAction`, `WithoutAction` and `Cleared`.
`Register` panics on the `Forbidden` signals before it has done anything, and
`RegisterUnchecked` does not. On `Windows` the C runtime resets the
disposition when it calls the handler (`Forgets`), and the handler begins with
`Rearm`, which installs it again; `SIGFPE` is an exception to both. `detected` and `replaced` are
history variables.

**Dispatch** (abstract). Lists of hooks per signal, changed in one step (`Add` at the
end, `Remove` with `Without`); a delivery takes the list of one instant. `Registry` refines it: the swap of
`data` is the change, the load of `data` is the delivery.

**VecMap** / **OrderedMap** (abstract). The vector of pairs against a map with the
relation `before` between its keys, the order in which they came, and with the results of the
operations. A key twice in the vector would come before itself.
`Registry` uses its map of actions as a sequence of ids on the strength of this.

**LossyFifo** (abstract). A queue with a bounded number of slots: a sender takes a slot for its value
(`Reserve`) and puts it into the queue (`Send`), a receiver takes the first value (`Recv`) and
gives the slot back (`Return`). It is what `Channel` implements and what `Origins` has for each signal.

**Channel.** The words are numbers; `Get` and `Set`
are the shifts and masks of the code, over the weights of the places. A load, a successful
exchange and an exchange that fails because the word changed are separate steps; an exchange
that fails for no reason is a stuttering step. The storage of a slot is touched
in steps of its own. `Queue` is the sequence of indices a word stands for; `Fifo` maps
the word of full slots with the storage to a queue of values, and the slots of
processes to the values that go with them (`Carrying`).

**Delivery.** Slots with the `SignalOnly` exfiltrator, the pipe as a number of
bytes, handlers that `Store` and then `Wake`, a thread that closes, and the one
reader of a `SignalsInfo` (its methods take `&mut self`). `front` is the way the
program uses the instance, one of `Fronts`. A *thread* calls `pending`, `wait` and `forever`
and advances the live iterator in any order, and may drop a batch half-read. A *stream* of the
tokio or async-std adapter: `PollNext` is the executor's poll, which
may also come without a reason, `ReadNothing` is a `poll_read` that registers the
waker (atomically with finding the pipe empty, which is what the reactors
promise), `Notify` is the reactor at the arrival of a byte. A source of *mio*:
`SourceRegister`, `SourceReregister` and `SourceDeregister` set what is watched,
`ready` is an edge not yet reported, and `HandleEvent` is the documented loop, that calls
`pending` on an event; `pending` drains the pipe first, so an edge that comes
during the batch is an event of its own.

**Lifecycle.** One instance of the iterator, from `with_pipe` in the thread `Main`
to the drop of its last `Handle`, over the abstract `Dispatch` (its own hooks
only) and the two mutexes: `locker` and `poisoned` for the ids, `writer` for the
registry. `host` is the thread that a delivery interrupts, which stands still meanwhile.
`ahead` is what a store waits for at least: the handlers that ran when it published its value
(`Register` and `Unregister` set it, `Record` and `Unregistered` need it empty).
`add_signal` is `AddSignal` → `LockIds` → `InitSlot` → `Register` →
`Record`, with the ways out `AlreadyRegistered`, `LockPanics`, `InitPanics`,
`RegisterPanics`, `RegisterFails`; the drop is `CloseRead` (of the instance, whose read end of the
pipe is its first field) → `DropHandle` → `DropState` →
(`Unregister` → `Unregistered`)… → `Dropped`, or `DropPanics`. A panic may be
caught (`CatchPanic`) or drop the Handle of its thread. Slots are flags
(`SignalOnly`) or pointers to a channel (`WithRawSiginfo`, `WithOrigin`). A write to the
pipe when its read end is closed raises a `SIGPIPE` in the same thread (`raised`), delivered
next (`Reraised`), which is of interest when `SIGPIPE` is watched. That the
memory of the slots lives as long as a Handle or a hook is what `Arc` is for,
and not modelled.

**Actions.** The actions of `flag.rs` and `pipe.rs` as hooks of `Dispatch`,
registered in any order from a set of `Offers` while deliveries run. Each load or
store of an atomic is a step; `RunShutdown` and `Exit` are two. The emulation is
`RestoreDefault` → `Unblock` → `Raise` → `Abort` for what terminates, with the
disposition of the signal and the mask of the thread; `raise` ends the process
only if the signal is unblocked and its disposition the default. `Method` and
`BlockingLeft` are what `register_raw` does to a file descriptor. Who set the flag
(`flag`) and what began with the flag set (`armed`) is history.

**Origins.** The values themselves: handlers that get a `siginfo_t` (`Arrive`), send it through
the channel of its signal (`Send`, `Push`) and write a byte (`Wake`), and a reader that drains
(`Flush` is one `recv` that gets bytes, `Flushed` the one that gets none),
looks at each signal and makes an `Origin` of each value (`Recv`, `Report`). A channel is
the number of its empty slots and the queue of its full ones, with a slot on its way in the hands of the
handler or of the reader: a `LossyFifo` (`SendsThrough`), which `Channel` has in detail. `Filled` is what the kernel
writes about an event: on linux a code of its own for each way, and in the place of the process
another member of the union where there is none; on macOS no more than a process. `consts` is the
table of `extract.c`, `Cause` and `Extract` are the functions over it. `os` is chosen
in `Init`; `Mixes` says which events the activations are about.

## 3. Runs

| Run | Instance | Question and answer |
|---|---|---|
| `MCHalfLock` | 3 readers, 1 writer, 2 addresses, `W` = 4, fairness | No use of freed memory, guards bounded, `IInv` (see 5), refinement of `RcuCell`; the counter that readers took when a barrier began is seen at zero even if signals never stop and the generation wraps; `store` ends if they do. The process may abort, so deadlock is not checked. |
| `MCVecMap` | 4 keys, 2 values | Refinement of `OrderedMap`, which implies unique keys. |
| `MCRegistry` | unix, 2 signals, 2 deliveries, 2 addresses per cell, 3 ids, 1 foreign handler | Removed hooks are quiet, the previous handler is chained, refinement of `Dispatch`, `IInv` of the proof. |
| `MCRegistryLive` | Windows, 2 signals of which one may be refused and one is forbidden and `SIGFPE`, 2 deliveries, 1 id, fairness | Failed registrations leave a stale fallback that hides nothing; a signal stays hooked but for the gap in its own handler; every call returns once signals stop. |
| `MCChannel` | 2 senders, 2 receivers, 3 slots of 2 bits | Slots conserved, no panic, no empty slot only if something is pending, refinement of `LossyFifo`, `IInv` of the proof. |
| `MCDelivery` | 3 handlers, 3 signals, a pipe of 2 bytes, three fronts, fairness | No reader sleeps on a mark, no thread on a close; what came is reported; `close` interrupts; `IInv` of the proof. |
| `MCDeliveryStream` | 1 handler, 2 signals, a stream | Shows a lost close, see 6. |
| `MCLifecycle` | 2 threads, 2 good signals, one out of range, one forbidden, one refused by the kernel, 2 deliveries, fairness | No handler meets an uninitialised slot, none but the refused one is initialised twice, nothing is left after the last drop, once signals stop calls return and the drop unregisters, `IInv` of the proof. The instance ends, so deadlock is not checked. |
| `MCLifecyclePanic` | 2 threads, 1 good and 1 forbidden signal | Shows an abort instead of a panic, see 6. |
| `MCLifecycleStorm` | 2 threads, 1 good signal and `SIGPIPE`, fairness | Shows a drop that never ends, see 6. |
| `MCActions` | 2 deliveries, 8 actions of which 2 are registered, a socket and a pipe of 1 byte | The double Ctrl-C, emulated defaults, a self-pipe that never blocks and is never silent, `IInv` of the proof. The process ends, so deadlock is not checked. |
| `MCOrigins` | 2 handlers, one for any event and one for an exited child, `SIGCHLD` and `SIGIO`, 2 slots, a pipe of 2 bytes, linux and macOS, fairness | An `Origin` says what happened, no value is left where nothing announces it, slots are conserved (`TypeOK`), each channel is a `LossyFifo`, every arrival is followed by a report unless `flush` has no end. |

**Bounds.** Reads, stores, signals and calls are not bounded anywhere except
for `MaxId` (ids of hooks) in the registry, the life of an iterator and the actions: the
other state spaces are finite because addresses, slots and activations are reused. In the
half-lock three readers are enough to hold both counters and to be in the way once more, and
`W` = 4 makes the third guard in a slot the one that aborts (`MAX_GUARDS` is
`isize::MAX`, here 1); it also lets the generation wrap every four stores. One writer is
as good as several, as its locals are set afresh under the mutex. Two addresses
per cell are enough because a store is not over before the old value is dropped. One id
is enough for `MCRegistryLive`: hooks come and go in `MCRegistry`, while here the
question is what the failed calls and the reset dispositions do. Three slots in the channel
are more than the receivers can hold and few enough to be filled by two senders; the code has
five of three bits, and nothing depends on the numbers but `SLOTS < 2^BITS` and `SLOTS` >
number of receivers for `DropsOnlyIfPending`. A pipe of two bytes is
full after two handlers, the third one loses its byte. An instance registers
each good signal once, so two ids are all it ever takes for two of them; of two deliveries one
is in the way of a removal and the other interrupts the thread that drops, or comes when the store is
already waiting. The
properties of the actions are about an action and one registered before it, hence two ids.
An activation of `Origins` comes back, so two of them with two slots per channel fill a channel and drop
values, and a pipe that is full loses bytes; the exited child has the same `si_code`
as the input that `SIGIO` is about, the one pair that only the signal tells apart.

**Fairness.** (`FairSpec` of each module.) In the half-lock a handler that started runs to its end and the
writer keeps spinning (weak fairness of the steps inside `read` and the guard's
drop, and of the barrier); nobody is obliged to start. That is what the program
gets from a scheduler, provided that handlers return, which the crate asks of
hooks anyway. In the registry a call and a delivery go on when they can, but the end of a
`store` is only fair while no handler is in that half-lock at all: `write_barrier` waits until
each counter was seen at zero, readers of the new value included, which is `StoreEnds`
of the half-lock and no more. In the
delivery, handlers and `close` run to their ends, so do the reader's methods,
and the program goes on reading. The last is strong fairness, as the
program may call other methods in between. In the life of an iterator a thread
in a call goes on when no handler interrupts it, and gets the mutex of the
ids some time (strong fairness: the mutex is not fair by itself, but no caller
holds it for ever); what waits in a store goes on only while no handler runs (`Wait`), for the reason
given for the registry. Handlers of other hooks in the process hold a store back likewise, and end likewise. In the origins the reader goes on, and a
handler once its signal has arrived; that a signal arrives is never fair, here or elsewhere.
`EventuallyReported` and
`CloseInterrupts` except behaviours in which signals never stop: `flush` loops
for as long as it finds bytes, and `Pending::next` does not move past a signal that
comes back, so both really may go on for ever. `CallReturns` and `CallsReturn` except them too, as
signals that never stop may keep a counter of the half-lock above zero. `SystemYieldsSignal` lets its own signal
keep coming; it supposes that the *others* stop, which may hold the batch before their slots, and that
`flush` comes to an end again and again.

## 4. Properties worth pointing at

* `HalfLock!NoUseAfterFree` and `ImplementsCell`: the reason for the crate.
* `HalfLock!PreviousGenerationDrains`: why there are two counters, and why their choice must go
  on alternating when the generation wraps: with a wrap after an odd value it fails.
* `Registry!PreviousHandlerCalled`: relates what a delivery chains to what
  `sigaction` really replaced, over the two half-locks, the failed
  registrations and the foreign handler. Only a delivery too early to see the
  slot may call what had been detected instead.
* `Registry!GoneNeverRuns`: also for the second of two threads that unregister
  the same hook; it gets `false`, and the hook is quiet by then since it had to wait for
  the mutex.
* `Registry!StaysHooked`: on Windows any delivery takes the handler away, and another one
  or a registration may come before it is back.
* `Channel!DropsOnlyIfPending`: the promise in the module's header that the
  program is woken in spite of a dropped value. It is about the states in which a `send` finds
  no slot, at its first look or after a failed exchange.
* `Channel!ImplementsFifo` and `Origins!SendsThrough`: two loads, two exchanges and an access of the storage
  in `send`, as many in `recv`, and each value still comes out once and in order; and what the
  exfiltrators are modelled on is no more than that.
* `Lifecycle!QuietWhenOver` and `HooksRecorded` (of `IInv`): two threads that add the same
  signal, an addition that fails, a constructor that gives up half-way, all end with a
  vector that knows the hooks, and a drop that leaves nothing that runs.
* `Lifecycle!InitOnce`: of all the ways to add a signal, from two threads, after errors and after panics
  that were caught, only one meets a slot that has been initialised, see 6.
* `Lifecycle!CallsReturn`: threads wait for each other's mutexes, for handlers inside a store and for handlers
  on top of themselves, with panics in the middle; a mutex that a panic leaves locked breaks it.
* `Lifecycle!DropUnregisters`: the drop comes to its end, although its own thread may be
  interrupted by hooks that write to the pipe it has just closed.
* `Actions!FirstSpares`, `SecondEnds`: the double Ctrl-C with overlapping deliveries,
  other hooks before the shutdown and a program that disarms.
* `Actions!AbortIsLastResort`: the process ends by the signal and not by `SIGABRT`,
  which takes both the disposition and the mask.
* `Delivery!NoLostWakeup`: the order of mark and byte, of drain and scan, of
  flag and byte, for a blocking read, a waker and an edge.
* `Origins!Attributed`: relates what the program gets to the event long gone, through a union, a
  table with overlapping codes, and two systems.
* `Origins!NothingLeftBehind` and `SystemYieldsSignal`: values may be dropped in a full channel and
  bytes in a full pipe, signals are not.

## 5. Proofs

Each `*Proofs` module proves that `IInv` of its component holds initially, is kept by
every action (one lemma or step per action) and implies the properties named, for all values of the
constants that satisfy the named assumptions of the component. `TLC` checks the
same assumptions, and the same `IInv`, in the runs.

| Module | Theorems |
|---|---|
| `HalfLockProofs` | `TypeCorrect`, `Inductive` (`IInv`), `Safe` (`NoUseAfterFree`), `Bounded` (`GuardsBounded`), `Implements` (`ImplementsCell`) |
| `RegistryProofs` | `Invariance` (`IInv`), `Safe` (`GoneNeverRuns`), `Chains` (`PreviousHandlerCalled`), `Hooked` (`StaysHooked`), `Implements` (`ImplementsDispatch`) |
| `VecMapProofs` | `Invariance` (`Distinct`), `Unique` (`KeysUnique`), `Implements` (`ImplementsOrderedMap`) |
| `ChannelProofs` | `Invariance` (`IInv`), `Conservation` (`SlotsConserved`), `PanicFreedom` (`NoPanic`), `DropsArePending` (`DropsOnlyIfPending`), `Implements` (`ImplementsFifo`) |
| `DeliveryProofs` | `Inductive` (`IInv`), `TypeCorrect` (`TypeOK`), `Safe` (`NoLostWakeup`) |
| `LifecycleProofs` | `Invariance` (`IInv`), `Ready` (`NoneLost`), `Initialised` (`InitOnce`), `Quiet` (`QuietWhenOver`) |
| `ActionsProofs` | `Invariance` (`IInv`), `Spares` (`FirstSpares`), `Ends` (`SecondEnds`), `Aborts` (`AbortIsLastResort`), `Unstuck` (`NeverBlocks`), `Woken` (`ByteThere`) |
| `OriginsProofs` | `Invariance` (`IInv`), `Meant` (`Attributed`), `Awake` (`NothingLeftBehind`), `TypeCorrect` (`TypeOK`), `Implements` (`SendsThrough`) |

**Half-lock.** For all numbers of readers, writers and addresses and every even `W`; above
all from `FewReaders`: fewer activations than an `usize` has values, the code's own
argument in `read`. `TypeOK` and `NoUseAfterFree` are not inductive. `IInv` adds:
the counters count exactly the readers between their increment and their
decrement (`CountersExact`, by cardinality of the holders); only the current and
the replaced value are allocated (`HeapExact`); a reader that still has the
replaced value is counted in a slot which the barrier has *not* seen at zero
(`ReadersCovered`). The last one is kept because a reader loads the pointer after
its increment: once the pointer is swapped no reader gets the old value any
more, so a slot seen at zero after the swap holds no reader of it, whoever
counts himself there later. The generation does not occur in the invariant: the
choice of the counter matters for progress only, so a reader that uses a stale
generation is harmless. Frees happen when both slots were seen, so no reader has
the old value then, which is also the enabling condition of `RcuCell!Reclaim`.

**Registry.** `GoneNeverRuns` alone is not inductive: that a hook is gone when a call returns
depends on what that call took out of its copy, who still holds the replaced value, and
that the id is nowhere else. Hence
`GuardsHeld` and `HeapKnown` (a guard refers to the current value, or to the one
that waits to be dropped, which exists only inside a store), `IdsUnique` (an id has one
place in one slot, is below `next_id`, and a gone one is in no list a delivery may hold), and
`CallKnown` (what a call is about to store is the current
list plus or minus the ids of the call). For the chaining, `SlotsKnown` and `DeliveriesKnow`: until the new slot
is visible the fallback names the signal with the handler that was detected, and a delivery
that misses the slot has read its fallback before, when it knew the signal. The comment of
`register_unchecked_impl` argues in the same order: the handler reads the fallback first,
the registration stores it first. For the
refinement the swap of `data` is `Add` or `Remove`, the end of the wait is `Issue` or
`Retire`, the load is `Start`, an action `Run`, all else stutters; the
lemma `WithoutIs` identifies the two ways to take an id out of a list, by the
cardinality of what stays.

**VecMap.** The one operation that could duplicate a key is `insert`; the position it
overwrites is the first one with the key, if any, a least element of a set of naturals. With
unique keys a lookup is the value at *the* place of the key (`Reads`), and one key is before
another exactly when its place is. Then `insert` changes one value or adds a last
place, and `remove` closes a gap, which keeps the order of the places around it (`RemovedIs`, `Behind`).

**Channel.** First the words. The provers have no arithmetic for a product of variables, let
alone for a power of two with a variable exponent, so `DivUnique`, `DivDiv`, `WeightSum` and
`SetIs` derive what shifts and masks do from the definition of a quotient: `set` changes one place and no
other, and a shift moves each place down by one. The library's induction takes an operator as a parameter,
out of reach here; instead, the least number of which a claim is false is
shown not to exist (`Least`, from the library's `WFMin`); the recursive functions `Weight` and
`NewWord` are shown to exist that way too. The result is `EnqueuedIs` and `DequeuedIs`: a word
with different slots in its first places (`Packed`) stands for a queue, `enqueue` is `Append` and `dequeue`
takes the `Head` and leaves the `Tail`.

From there on no proof looks into a word. Each slot is in one word or with one process
(`Parted`), what a process has follows from where it is (`AtWork`), and a slot has a value from
its filling to its emptying (`Stored`). `NoPanic` is not inductive: a place
is found because a slot that is outside of a word leaves room in it (`RoomIs`, by cardinality),
and `None` is not met because the slot was filled before its index went into the queue. Where a `send` finds
no empty slot (`NoSlot`), the slots are full, or with senders that have taken one, or with receivers,
of which there are fewer than slots (`DropsArePending`, the only theorem with a hypothesis of its own: the
receivers of a channel are one in the code, as a `SignalsInfo` reads with `&mut self`).
For the refinement, a successful exchange of `empty` in `send` is `Reserve`, that of `full` is `Send`;
in `recv` they are `Return` and `Recv`. All else stutters, `Fill` and `Take` included: they move the value
between a local and a slot that nobody else has.

**Delivery.** For any number of handlers and signals and any capacity of the pipe, and all
three fronts. A mark that the reader's position has passed is accompanied by a byte, or by
a handler that is about to write one, unless the reader is draining the
pipe and will begin at the first slot again (`MarksAnnounced`). A reader about to
read stands behind the last slot or has left a batch (`ReadsAtEnd`), so with an empty pipe and no
handler in between there is no mark but those of that batch. `close` sets its flag before its
byte, and a reader only goes to its blocking read with the flag down, so the byte comes
later and nobody else takes it (`FlagFirst`, `CloseAnnounced`). A registered waker means
an empty pipe (`WakerWaits`): the next byte really is news to the reactor, and
a parked task of an open instance has a waker (`ParkedHasWaker`). A byte in a pipe that is
watched for edges is an event or about to be drained (`EdgeReported`).

**Life of an iterator.** The mutex of the ids covers a call from its look at them to its end
(`IdsLocked`), a thread in a call has a Handle (`CallersOwn`), so no drop is under way meanwhile; a signal
being added is not in the vector, one being unregistered is (`AddingNew`, `RemovingOld`).
So the vector knows exactly the hooks (`HooksRecorded`), handlers run only hooks it knows
(`RunsLive`), and without a Handle there is a thread in the drop or nothing left (`LastDrops`).
A slot that has a channel belongs to a signal that is in the vector, being added, or refused, unless
the mutex is poisoned or the last Handle gone (`ChannelsKnown`); nobody holds a poisoned mutex (`Clean`)
and a drop has no Handles beside it (`DropsLast`), hence `InitOnce`.

**Actions.** Ids are given in order and lists are increasing (`Ordered`), so an action runs
after those registered before it: who has set the flag himself did so by an earlier action
(`FlagBefore`), and who began with the flag set has its shutdown before it (`ShutdownAhead`). What
`register_raw` did to a pipe lasts (`PipesReady`), and nobody raises a signal that is in
his mask (`RaisesUnblocked`).

**Origins.** A `siginfo_t` stays that of its event on its way (`Faithful`), so `Attributed` is a
statement about `Extract(Filled(e))` for each event, by cases over the rows of the table that
match. A value in a channel has a byte in the pipe, a handler that will write one, or a batch that has
not passed it (`Announced`). That the slots of a channel add up (`TypeOK`) needs that the handlers in the
middle of a `send` are finitely many at any time (`Counted`), although their number is
not bounded. `Implements` is by cases over the steps: each one is a step of the channel of one signal
and none of the others'; `EachChannel` says so for one signal, in the words of `LossyFifo`.

**Assumptions.** Besides those named in the components, which say what the constants stand for: `FewReaders` of the
half-lock, `SLOTS < 2^BITS` of the channel, both in the code; fewer receivers than slots in `DropsArePending`.
Composition rests on theorems for the half-lock under the registry (`ImplementsCell`), the registry under the
iterator and the actions (`ImplementsDispatch`), and the channel under the origins (`ImplementsFifo`,
`SendsThrough`); that the registry has sequences of ids for its maps of actions rests on `ImplementsOrderedMap`
and on reading.

Model-checked only: liveness, that is `PreviousGenerationDrains`, `StoreEnds`, `CallReturns`,
`EventuallyReported`, `CloseInterrupts`, `CallsReturn`, `DropUnregisters` and `SystemYieldsSignal` (TLAPS has no rules
for fairness and ENABLED here). Every invariant, action property and refinement of the passing runs is proved.

## 6. Where the code and its words differ

* `MCDeliveryStream`. `poll_signal` checks the flag, and `poll_pending` checks it
  again (`backend.rs:355`). A `close` between the two makes `poll_pending` return
  `None` without reading, so without registering a waker; the stream answers
  `Poll::Pending` and is never polled again, while the doc of `close`
  (`backend.rs:212`) promises that blocking operations terminate. The blocking
  `Forever` goes round its loop once more and is not affected.
* `MCLifecyclePanic`. A panic inside `add_signal` poisons the mutex of the ids. The
  `lock().unwrap()` in the drop of `DeliveryState` then panics too, and when it is the
  first panic that drops it, the process aborts. In `with_pipe` it always is: `Signals::new`
  with a forbidden signal or one out of range does not panic, as
  `backend.rs:185` and `:252` say, but aborts. If the program catches the panic on a
  Handle, later calls panic (`LockPanics`) and the drop leaves the hooks registered
  (`DropPanics`; `QuietWhenOver` excepts it).
* `MCLifecycleStorm`. The fields of a `SignalDelivery` are dropped in their order, so the read end
  of the pipe is closed before the hooks are unregistered (`backend.rs:238`), and `wake` sends without
  `MSG_NOSIGNAL` (`pipe.rs:143`). A signal in between raises `SIGPIPE` in its handler. If the
  instance watches `SIGPIPE` too, the hook of that one writes again, and so on for
  ever in the thread it interrupts; the drop does not unregister, as `iterator/mod.rs:75` says
  it does, and the comment at `pipe.rs:135` counts two conceivable errors of the write, not this one.

Seen on the way, without a run of their own: `wait` blocks on the pipe before it looks at any
slot, and the batch before it has drained the pipe, so a program that drops a batch
half-read and calls `wait` sleeps although marks are set, where
`iterator/mod.rs:200` says that it waits if there are no signals available (the exception
in `NoLostWakeup`); two calls of `add_signal` with
a signal that the kernel refuses run `init` twice, and the second one panics in
`WithRawSiginfo` (`InitPanics`, the one exception in `InitOnce`), where `exfiltrator/mod.rs:101` has "at most once
for each slot"; the assertions on the range of a signal (`backend.rs:126`) are behind
an index by the same number that panics first; at the first look of
`write_barrier` both counters may be above zero in spite of the comment at
`half_lock.rs:170`, when a reader was slow to count itself (the barrier spins a
little longer); hooks stay registered after the drop of a `SignalsInfo` (`iterator/mod.rs:75`)
as long as another Handle lives.

## 7. Not modelled, and the plan

Modelled so far, most important first: half-lock, registry over abstract cells on unix and
Windows, `VecMap`, channel, delivery with its three fronts, life of an iterator, actions, origins, each
with proofs. What could be added, in this order:

1. An action of the program that owns the last `Handle` of an iterator: when it is
   unregistered it is dropped with the registry locked (`half_lock.rs:90`), and the drop of
   the `Handle` locks it again. `Lifecycle` excludes it, no property covers it.
2. Handlers nested in one thread in `Lifecycle` (there is one at a time in each thread), and
   hooks on `SIGABRT` that run while `emulate_default_handler` aborts.

Left out for good. *Ways out that are not taken:* `flush` ends at an error of `recv` too, which on a socket that is
not to wait is `EAGAIN`, as a call that does not sleep is not interrupted; `restore_default` fails for
no signal that terminates and can be caught, so the fallback of `emulate_default_handler` for its error
(`signal_details.rs:204`) is only reached after `raise`. *The registry:* the abort on a null `siginfo` and on Windows that of an
installation which fails inside the handler (they end the process in one step), saving
`errno`, `Drop` of `HalfLock` (the two are global and never dropped). *Memory:* the drop of a
`Slot` and of a `DeliveryState` with the last `Arc`, which is what the type system of the language
ensures. *The system:* a kernel that is out of space for queued signals and then says
`SI_USER` with a pid of zero, the codes a macOS without `SI_*` may fill in, descriptors
whose signal was changed by `F_SETSIG` to one that has codes of its own. *Code without
state:* re-exported constants, build script, examples, the vendored `serial_test`. The
`Relaxed`/`AcqRel` orderings of the channel are not modelled beyond the argument in
`Channel.tla`: every write of the words is a read-modify-write, so the accesses of one
holder of a slot happen before those of the next.
