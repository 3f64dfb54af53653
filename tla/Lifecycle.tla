----------------------------- MODULE Lifecycle ------------------------------
(***************************************************************************)
(* src/iterator/backend.rs: the life of one instance of the iterator, from *)
(* with_pipe() through Handle::add_signal() on any thread to the drop of   *)
(* its last Handle, with the errors and panics on the way.  The registry   *)
(* is the abstract Dispatch; its write mutex, and the mutex of the ids of  *)
(* the instance with its poisoning, are part of the state.  So is the      *)
(* thread a signal handler interrupts: it goes on when the handler is over *)
(* and with it the SIGPIPE that a write to a closed pipe raises.           *)
(*                                                                         *)
(* The instance itself counts as the Handle of the thread Main.  No hook   *)
(* of the program owns a Handle: it would be dropped with the registry     *)
(* locked, and would lock it again.                                        *)
(***************************************************************************)
EXTENDS Naturals, Sequences, FiniteSets

CONSTANTS
    Signals,        \* what add_signal is called with
    OutOfRange,     \* those that are negative, or MAX_SIGNUM and more
    Forbidden,      \* those that the registry refuses with a panic
    Refused,        \* those that the kernel refuses
    SIGPIPE,        \* may be one of Signals
    Threads, Main,  \* Main creates the instance, others may get a Handle
    Deliveries,     \* activations of the signal handler
    MaxId,          \* a bound for TLC: ids of hooks
    None            \* Option::None, an unlocked mutex

ASSUME SignalsAssumption ==
    OutOfRange \subseteq Signals /\ Forbidden \subseteq Signals /\ Refused \subseteq Signals
ASSUME MainAssumption == Main \in Threads
ASSUME NoneAssumption == None \notin Threads \cup Signals \cup Nat
ASSUME MaxIdAssumption == MaxId \in Nat

VARIABLES
    hooks, todo, issued, gone,  \* the registry, of which the instance sees its own hooks
    writer,         \* who holds the write mutex of the registry ...
    ahead,          \* ... and the deliveries it waits for
    ids,            \* DeliveryState.registered_signal_ids ...
    locker,         \* ... who holds its mutex ...
    poisoned,       \* ... and whether that is poisoned
    slot,           \* PendingSignals.slots: an atomic flag, or a pointer to a channel
    readEnd,        \* is the instance's read end of the pipe open?
    owners,         \* the threads that have a Handle
    list,           \* what with_pipe has still to add
    building,       \* Main is in with_pipe
    pc, adding,     \* where each thread is, and with which signal
    panicking,      \* the threads that unwind
    host,           \* the thread of Threads that each delivery interrupts
    raised,         \* the deliveries whose write raised a SIGPIPE
    aborted         \* a second panic during the first one ended the process

registryVars == << hooks, todo, issued, gone >>
storeVars == << writer, ahead >>
idsVars == << ids, locker, poisoned >>
callVars == << list, building, panicking, aborted >>
osVars == << readEnd, host, raised >>
vars == << registryVars, storeVars, idsVars, slot, owners, pc, adding, callVars, osVars >>

Ids == 1 .. MaxId
Registered == INSTANCE Dispatch

(* Mutant: ids begin with zero. *)
NextFromZero == Cardinality(issued)

(* The id the registry gives next. *)
NextId == 1 + Cardinality(issued)

Init ==
    /\ Registered!Init
    /\ writer = None
    /\ ahead = {}
    /\ ids = [s \in Signals |-> None]
    /\ locker = None
    /\ poisoned = FALSE
    /\ \E empty \in {"flag", "null"} : slot = [s \in Signals |-> empty]
    /\ readEnd = TRUE
    /\ owners = {Main}
    /\ list \in SUBSET Signals
    /\ building = TRUE
    /\ pc = [t \in Threads |-> "idle"]
    /\ adding = [t \in Threads |-> None]
    /\ panicking = {}
    /\ host = [d \in Deliveries |-> None]
    /\ raised = {}
    /\ aborted = FALSE

(* Activations of the handler that are not over. *)
Busy(d) == todo[d] # << >> \/ d \in raised

(* A thread runs unless a handler has interrupted it. *)
Interrupted(t) == t # None /\ \E d \in Deliveries : host[d] = t /\ Busy(d)

(* A thread goes on, with a signal s or the one it has, or returns. *)
At(t, where, s) ==
    /\ pc' = [pc EXCEPT ![t] = where]
    /\ adding' = [adding EXCEPT ![t] = s]
Goto(t, where) == At(t, where, adding[t])
Return(t) == At(t, "idle", None)

-----------------------------------------------------------------------------
(* Handle::add_signal. *)

(* The program calls it on any Handle; with_pipe calls it for the signals  *)
(* it was given, before there is anything else to call it on.              *)
AddSignal(t, s) ==
    /\ pc[t] = "idle"
    /\ t \in owners \ panicking
    /\ building => s \in list
    /\ list' = list \ {s}
    /\ At(t, "lock", s)
    /\ UNCHANGED << registryVars, storeVars, idsVars, slot, owners, building, panicking, aborted,
                    osVars >>

(* Mutant: what is registered already is registered again. *)
KnownNever(s) == FALSE

(* lock[signal].is_some() *)
Known(s) == ids[s] # None

CanLock(t) == pc[t] = "lock" /\ locker = None /\ ~poisoned /\ adding[t] \notin OutOfRange

(* "Already registered, ignoring". *)
AlreadyRegistered(t) ==
    /\ CanLock(t)
    /\ Known(adding[t])
    /\ Return(t)
    /\ UNCHANGED << registryVars, storeVars, idsVars, slot, owners, callVars, osVars >>

LockIds(t) ==
    /\ CanLock(t)
    /\ ~Known(adding[t])
    /\ locker' = t
    /\ Goto(t, "init")
    /\ UNCHANGED << registryVars, storeVars, ids, poisoned, slot, owners,
                    callVars, osVars >>

(* Mutant: a lock that is unlocked by hand, which a panic skips. *)
UnwindLocked(t) == locker' = t /\ UNCHANGED poisoned

(* The guard of the mutex of the ids is dropped by a panic. *)
Unwind(t) == locker' = None /\ poisoned' = TRUE

(* A panic with the mutex of the ids locked. *)
Panic(t) ==
    /\ Unwind(t)
    /\ panicking' = panicking \cup {t}
    /\ Return(t)
    /\ UNCHANGED << registryVars, storeVars, ids, slot, owners, list, building,
                    aborted, osVars >>

(* The unwrap() of a poisoned lock, or an index out of the bounds of ids   *)
(* (before any of the assertions that are there for such signals).         *)
LockPanics(t) ==
    /\ pc[t] = "lock"
    /\ locker = None
    /\ poisoned \/ adding[t] \in OutOfRange
    /\ Panic(t)

(* Mutant: the slot is left as it is. *)
SlotUninitialised(s) == slot

(* Exfiltrator::init: nothing for a flag, a first channel for a pointer. *)
SlotInitialised(s) == [slot EXCEPT ![s] = IF @ = "null" THEN "channel" ELSE @]

InitSlot(t) ==
    /\ pc[t] = "init"
    /\ slot[adding[t]] # "channel"
    /\ slot' = SlotInitialised(adding[t])
    /\ Goto(t, "register")
    /\ UNCHANGED << registryVars, storeVars, idsVars, owners, callVars, osVars >>

(* There is a channel already.  A new one has taken its place, the old one *)
(* is leaked, and the assertion fails: "Init called multiple times".       *)
InitPanics(t) ==
    /\ pc[t] = "init"
    /\ slot[adding[t]] = "channel"
    /\ Panic(t)

RegisterPanics(t) ==
    /\ pc[t] = "register"
    /\ adding[t] \in Forbidden
    /\ Panic(t)

(* with_pipe returns the error of add_signal, which drops the instance,    *)
(* first its read end.                                                     *)
RegisterFails(t) ==
    /\ pc[t] = "register"
    /\ writer = None
    /\ adding[t] \in Refused \ Forbidden
    /\ locker' = None
    /\ IF building THEN readEnd' = FALSE /\ building' = FALSE /\ Goto(t, "closing")
       ELSE UNCHANGED << readEnd, building >> /\ Return(t)
    /\ UNCHANGED << registryVars, storeVars, ids, poisoned, slot, owners, list,
                    panicking, aborted, host, raised >>

(* What a store of the half-lock will wait for at least, the handlers that *)
(* run as it publishes the new value.                                      *)
Running == {d \in Deliveries : Busy(d)}

(* register_sigaction: the new list of hooks is published ... *)
Register(t) ==
    /\ pc[t] = "register"
    /\ writer = None
    /\ adding[t] \notin Forbidden \cup Refused
    /\ NextId <= MaxId
    /\ Registered!Add(adding[t], NextId)
    /\ writer' = t
    /\ ahead' = Running
    /\ Goto(t, "record")
    /\ UNCHANGED << idsVars, slot, owners, callVars, osVars >>

(* ... and the id recorded that register_sigaction returned, no sooner     *)
(* than those handlers are over.                                           *)
Record(t) ==
    /\ pc[t] = "record"
    /\ ahead = {}
    /\ Registered!Issue(NextId)
    /\ ids' = [ids EXCEPT ![adding[t]] = NextId]
    /\ writer' = None
    /\ locker' = None
    /\ Return(t)
    /\ UNCHANGED << ahead, poisoned, slot, owners, callVars, osVars >>

(* with_pipe returns. *)
Built ==
    /\ building
    /\ pc[Main] = "idle" /\ Main \notin panicking
    /\ list = {}
    /\ building' = FALSE
    /\ UNCHANGED << registryVars, storeVars, idsVars, slot, owners, pc, adding,
                    list, panicking, aborted, osVars >>

-----------------------------------------------------------------------------
(* Handles. *)

CloneHandle(t) ==
    /\ ~building
    /\ pc[t] = "idle"
    /\ t \notin owners
    /\ \E u \in owners : pc[u] = "idle"
    /\ owners' = owners \cup {t}
    /\ UNCHANGED << registryVars, storeVars, idsVars, slot, pc, adding, callVars, osVars >>

(* The program catches a panic and keeps its Handle.  It cannot do so in   *)
(* with_pipe, where the instance is not yet its own.                       *)
CatchPanic(t) ==
    /\ pc[t] = "idle"
    /\ t \in panicking
    /\ ~building
    /\ panicking' = panicking \ {t}
    /\ UNCHANGED << registryVars, storeVars, idsVars, slot, owners, pc, adding,
                    list, building, aborted, osVars >>

(* Drop of the instance, also by a panic that unwinds.  Its fields go in   *)
(* the order of their declaration: first the read end of the pipe is       *)
(* closed ...                                                              *)
CloseRead ==
    /\ pc[Main] = "idle"
    /\ Main \in owners
    /\ Main \in panicking \/ ~building
    /\ readEnd' = FALSE
    /\ building' = FALSE
    /\ Goto(Main, "closing")
    /\ UNCHANGED << registryVars, storeVars, idsVars, slot, owners, list, panicking,
                    aborted, host, raised >>

(* ... and then its Handle goes, as others do; the last one drops the      *)
(* DeliveryState, which locks the ids.                                     *)
DropHandle(t) ==
    /\ t \in owners
    /\ pc[t] = IF t = Main THEN "closing" ELSE "idle"
    /\ owners' = owners \ {t}
    /\ Goto(t, IF owners = {t} THEN "drop" ELSE "idle")
    /\ UNCHANGED << registryVars, storeVars, idsVars, slot, callVars, osVars >>

(* lock().unwrap() in the drop of a DeliveryState whose mutex is poisoned: *)
(* a panic, and the end of the process if there is one already.            *)
DropPanics(t) ==
    /\ pc[t] = "drop"
    /\ poisoned
    /\ aborted' = (t \in panicking)
    /\ Return(t)
    /\ UNCHANGED << registryVars, storeVars, idsVars, slot, owners, list,
                    building, panicking, osVars >>

DropState(t) ==
    /\ pc[t] = "drop"
    /\ locker = None
    /\ ~poisoned
    /\ locker' = t
    /\ Goto(t, "unregister")
    /\ UNCHANGED << registryVars, storeVars, ids, poisoned, slot, owners,
                    callVars, osVars >>

(* Mutant: a DeliveryState without a Drop. *)
NothingLeft == {}

(* The signals whose hooks are still to be unregistered. *)
Left == {s \in Signals : ids[s] # None}

(* unregister(id): the hook is taken out of the registry ... *)
Unregister(t, s) ==
    /\ pc[t] = "unregister"
    /\ s \in Left
    /\ writer = None
    /\ Registered!Remove(s, {ids[s]})
    /\ writer' = t
    /\ ahead' = Running
    /\ At(t, "wait", s)
    /\ UNCHANGED << idsVars, slot, owners, list, building, panicking, aborted,
                    osVars >>

(* ... and no handler runs it any more. *)
Removed(id) == ahead = {} /\ Registered!Retire({id})

(* The ids are in their vector still; here they are forgotten one by one,  *)
(* as the position of the loop.                                            *)
Unregistered(t) ==
    /\ pc[t] = "wait"
    /\ Removed(ids[adding[t]])
    /\ ids' = [ids EXCEPT ![adding[t]] = None]
    /\ writer' = None
    /\ Goto(t, "unregister")
    /\ UNCHANGED << ahead, locker, poisoned, slot, owners, callVars, osVars >>

Dropped(t) ==
    /\ pc[t] = "unregister"
    /\ Left = {}
    /\ locker' = None
    /\ Return(t)
    /\ UNCHANGED << registryVars, storeVars, ids, poisoned, slot, owners,
                    callVars, osVars >>

-----------------------------------------------------------------------------
(* A signal arrives, on top of one of the threads (one handler at a time   *)
(* in each, here) or of another one.                                       *)
Deliver(d, s) ==
    /\ hooks[s] # << >>
    /\ ~Busy(d)
    /\ Registered!Start(d, s)
    /\ \E t \in Threads \cup {None} :
          ~Interrupted(t) /\ host' = [host EXCEPT ![d] = t]
    /\ UNCHANGED << storeVars, idsVars, slot, owners, pc, adding, callVars,
                    readEnd, raised >>

(* A handler is over: its thread goes on, and a store that waits for it. *)
Leave(d) ==
    /\ host' = [host EXCEPT ![d] = None]
    /\ ahead' = ahead \ {d}

(* The hook of the instance stores the signal in its slot and wakes the    *)
(* reader: send() without MSG_NOSIGNAL, so there is a SIGPIPE for this     *)
(* thread when the read end is closed.  What it does is of interest when   *)
(* it may be the instance's own.                                           *)
Store(d) ==
    /\ Registered!Run(d)
    /\ raised' = IF ~readEnd /\ SIGPIPE \in Signals THEN raised \cup {d} ELSE raised
    /\ IF d \in raised' THEN UNCHANGED << host, ahead >> ELSE Leave(d)
    /\ UNCHANGED << writer, idsVars, slot, owners, pc, adding, callVars, readEnd >>

(* SIGPIPE is delivered, in the same thread, before that does anything     *)
(* else; an ignored one does nothing.                                      *)
Reraised(d) ==
    /\ d \in raised
    /\ Registered!Start(d, SIGPIPE)
    /\ raised' = raised \ {d}
    /\ IF hooks[SIGPIPE] # << >> THEN UNCHANGED << host, ahead >> ELSE Leave(d)
    /\ UNCHANGED << writer, idsVars, slot, owners, pc, adding, callVars, readEnd >>

(* What a thread does once it is in a call of the library. *)
Lock(t) == AlreadyRegistered(t) \/ LockIds(t) \/ LockPanics(t)

Continue(t) ==
    \/ InitSlot(t) \/ InitPanics(t) \/ RegisterPanics(t)
    \/ pc[t] = "closing" /\ DropHandle(t)
    \/ DropPanics(t) \/ DropState(t) \/ Dropped(t)
    \/ \E s \in Signals : Unregister(t, s)

(* What waits in a store of one of the half-locks: a first registration of *)
(* a signal stores the fallback before it fails or publishes the hooks.    *)
Wait(t) == RegisterFails(t) \/ Register(t) \/ Record(t) \/ Unregistered(t)

(* What the program does with the instance and its Handles. *)
Use(t) ==
    \/ \E s \in Signals : AddSignal(t, s)
    \/ CloneHandle(t) \/ CatchPanic(t) \/ DropHandle(t)
    \/ t = Main /\ (Built \/ CloseRead)

Thread(t) == ~Interrupted(t) /\ (Use(t) \/ Lock(t) \/ Continue(t) \/ Wait(t))
Handler(d) == Store(d) \/ Reraised(d)

Next ==
    /\ ~aborted
    /\ \/ \E t \in Threads : Thread(t)
       \/ \E d \in Deliveries : Handler(d) \/ \E s \in Signals : Deliver(d, s)

Spec == Init /\ [][Next]_vars

(* A handler runs to its end.  A call goes on when no handlers interrupt   *)
(* it, and gets the mutex of the ids some time, whatever other threads do. *)
(* A store that waits is sure to end only when no handlers run, those that *)
(* began after it included (HalfLock!StoreEnds).                           *)
Fairness ==
    /\ \A t \in Threads :
          /\ WF_vars(~aborted /\ ~Interrupted(t) /\ Continue(t))
          /\ WF_vars(~aborted /\ Running = {} /\ Wait(t))
          /\ SF_vars(~aborted /\ ~Interrupted(t) /\ Lock(t))
    /\ \A d \in Deliveries : WF_vars(~aborted /\ Handler(d))

FairSpec == Spec /\ Fairness

-----------------------------------------------------------------------------
(* The type invariant of the life of an instance. *)
TypeOK ==
    /\ hooks \in [Signals -> Seq(Ids)] /\ todo \in [Deliveries -> Seq(Ids)]
    /\ issued \subseteq Ids /\ gone \subseteq Ids
    /\ writer \in Threads \cup {None} /\ ahead \subseteq Deliveries
    /\ ids \in [Signals -> Ids \cup {None}]
    /\ locker \in Threads \cup {None}
    /\ slot \in [Signals -> {"flag", "null", "channel"}]
    /\ owners \subseteq Threads /\ list \subseteq Signals
    /\ pc \in [Threads -> {"idle", "lock", "init", "register", "record", "closing",
                           "drop", "unregister", "wait"}]
    /\ adding \in [Threads -> Signals \cup {None}]
    /\ host \in [Deliveries -> Threads \cup {None}] /\ raised \subseteq Deliveries
    /\ raised # {} => SIGPIPE \in Signals
    /\ panicking \subseteq Threads
    /\ poisoned \in BOOLEAN /\ building \in BOOLEAN
    /\ readEnd \in BOOLEAN /\ aborted \in BOOLEAN

(* Whatever threads add the same signal, and however calls end, the vector *)
(* of ids knows exactly the hooks of the instance, one for each signal, or *)
(* the drop would leave some behind (Handle::add_signal).                  *)
Changing(s, where) == \E t \in Threads : pc[t] = where /\ adding[t] = s

HooksRecorded ==
    \A s \in Signals :
        hooks[s] = IF Changing(s, "record") THEN << NextId >>
                   ELSE IF ids[s] = None \/ Changing(s, "wait") THEN << >>
                   ELSE << ids[s] >>

(* A handler finds a slot that is ready to take its signal: init comes     *)
(* before the registration, even one that fails, and nobody undoes it      *)
(* ("called before the first use", exfiltrator/mod.rs).                    *)
NoneLost ==
    \A s \in Signals :
        (\/ hooks[s] # << >>
         \/ \E d \in Deliveries : ids[s] \in Registered!Elems(todo[d])) => slot[s] # "null"

(* A second init of a slot panics ("must not happen", exfiltrator/raw.rs): *)
(* whatever threads add a signal, that can meet only one that the kernel   *)
(* refused before, as nothing takes the first init back.                   *)
InitOnce ==
    \A t \in Threads :
        pc[t] = "init" /\ slot[adding[t]] = "channel" => adding[t] \in Refused

(* When the last Handle is gone, and no panic came in between, no hook of  *)
(* the instance is left, nor a handler that runs one ("unregisters them on *)
(* drop", SignalsInfo).  Also when with_pipe gave up half-way.             *)
Over ==
    /\ owners = {}
    /\ \A t \in Threads : pc[t] = "idle"

QuietWhenOver ==
    Over /\ ~poisoned =>
        /\ \A s \in Signals : hooks[s] = << >>
        /\ \A d \in Deliveries : todo[d] = << >>

(* The inductive invariant.  The mutex of the ids covers a call from its   *)
(* look at them to its end; a thread in a call has a Handle; the signal it *)
(* adds is not registered, the one it unregisters is; handlers run hooks   *)
(* whose ids are in the vector or about to be; and when no Handle is left  *)
(* there is a thread in the drop, or nothing to unregister.                *)
IdsLocked ==
    \A t \in Threads :
        pc[t] \in {"init", "register", "record", "unregister", "wait"} => locker = t
CallersOwn ==
    \A t \in Threads : pc[t] \in {"lock", "init", "register", "record", "closing"} => t \in owners
AddingNew ==
    \A t \in Threads :
        /\ pc[t] \in {"lock", "init", "register", "record"} => adding[t] \in Signals
        /\ pc[t] \in {"init", "register", "record"} => ids[adding[t]] = None
        /\ pc[t] \in {"register", "record"} => slot[adding[t]] # "null"
RemovingOld ==
    \A t \in Threads : pc[t] = "wait" => adding[t] \in Signals /\ ids[adding[t]] # None
SlotsReady == \A s \in Signals : ids[s] # None => slot[s] # "null"
Live ==
    {ids[s] : s \in Left} \cup (IF \E t \in Threads : pc[t] = "record" THEN {NextId} ELSE {})
RunsLive == \A d \in Deliveries : Registered!Elems(todo[d]) \subseteq Live
LastDrops ==
    owners = {} /\ ~poisoned =>
        Left = {} \/ \E t \in Threads : pc[t] \in {"drop", "unregister", "wait"}

Clean == locker # None => ~poisoned
DropsLast == \A t \in Threads : pc[t] \in {"drop", "unregister", "wait"} => owners = {}
ChannelsKnown ==
    \A s \in Signals : slot[s] = "channel" =>
        \/ ids[s] # None \/ s \in Refused \/ poisoned \/ owners = {}
        \/ Changing(s, "register") \/ Changing(s, "record")

IInv ==
    /\ TypeOK
    /\ IdsLocked /\ CallersOwn /\ AddingNew /\ RemovingOld
    /\ Clean /\ DropsLast /\ ChannelsKnown
    /\ SlotsReady /\ HooksRecorded /\ RunsLive /\ LastDrops

(* Every add_signal, and every drop, comes to an end once signals stop     *)
(* coming, although it may have been interrupted anywhere, other threads   *)
(* go on adding, and a panic may have poisoned the mutex meanwhile.        *)
SignalsKeepComing == []<><< \E d \in Deliveries, s \in Signals : Deliver(d, s) >>_vars

CallsReturn ==
    \/ SignalsKeepComing
    \/ \A t \in Threads : pc[t] # "idle" ~> (pc[t] = "idle" \/ aborted)

(* When signals stop coming, the drop of an instance without other Handles *)
(* gets rid of its hooks ("registers the signals when created and          *)
(* unregisters them on drop", iterator/mod.rs).  Refuted when SIGPIPE is   *)
(* one of the signals.                                                     *)
DropUnregisters ==
    \/ SignalsKeepComing
    \/ pc[Main] = "closing" /\ owners = {Main} ~>
          \/ \A s \in Signals : hooks[s] = << >>
          \/ owners \ {Main} # {} \/ poisoned \/ aborted

(* Refuted: the panics of add_signal are panics ("# Panics", backend.rs).  *)
PanicsUnwind == ~aborted
=============================================================================
