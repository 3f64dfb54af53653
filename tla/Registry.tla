------------------------------ MODULE Registry ------------------------------
(***************************************************************************)
(* signal-hook-registry/src/lib.rs: registering and unregistering hooks    *)
(* while the signal handler runs them, on unix and on Windows.             *)
(*                                                                         *)
(* Two half-locks are composed here, GlobalData.data and                   *)
(* GlobalData.race_fallback.  Each is the abstract cell of RcuCell.tla,    *)
(* which HalfLock.tla implements: this module's steps are steps of the     *)
(* cells together with what the registry does around them.  A cell refers  *)
(* to an address; hooks and prevs say what is stored there.                *)
(*                                                                         *)
(* register, unregister and unregister_signal hold the mutex of data from  *)
(* their first step to their return, so at most one call is in progress    *)
(* and its locals exist once.  Any number of threads may be waiting.       *)
(***************************************************************************)
EXTENDS Naturals, Sequences, FiniteSets

CONSTANTS
    Signals,        \* the signals of interest
    Refused,        \* signals for which sigaction() or signal() may fail
    Forbidden,      \* FORBIDDEN: register refuses them
    Windows,        \* the handlers are those of the C runtime of Windows
    SIGFPE,         \* the signal that runtime treats differently
    Foreign,        \* handlers other libraries install
    DFL,            \* SIG_DFL or SIG_IGN: nothing to call
    Ours,           \* our handler function
    Deliveries,     \* activations of our handler, in any thread, nested or not
    Addrs,          \* addresses of the values of the two half-locks
    Null,           \* no address, no slot, no previous handler, no signal
    MaxId           \* bound: next_id does not get past it

ASSUME OursAssumption == Ours \notin Foreign \cup {DFL}
ASSUME RefusedAssumption == Refused \subseteq Signals
ASSUME ForbiddenAssumption == SIGFPE \in Signals => SIGFPE \in Forbidden
ASSUME MaxIdAssumption == Windows \in BOOLEAN /\ MaxId \in Nat

VARIABLES
    data, dataRetired, dataHeld,                \* the half-lock data
    fallback, fallbackRetired, fallbackHeld,    \* the half-lock race_fallback
    hooks,          \* the SignalData stored at each address
    prevs,          \* the Option<Prev> stored at each address
    disposition,    \* what the kernel calls for each signal
    wpc, call, new, \* the call in progress: where it is, what it does, its
                    \* local copy of the SignalData
    hpc, hsig,      \* where each delivery is, and its signal
    chained,        \* the previous handler a delivery called
    pos,            \* the action a delivery runs next
    issued, gone,   \* ids returned by register; ids whose removal returned
    detected,       \* history: the handler Prev::detect found
    replaced        \* history: the handler our sigaction replaced

dataVars == << data, dataRetired, dataHeld, hooks >>
fallbackVars == << fallback, fallbackRetired, fallbackHeld, prevs >>
callVars == << wpc, call, new, issued, gone >>
deliveryVars == << hpc, hsig, chained, pos >>
osVars == << disposition, detected, replaced >>
vars == << dataVars, fallbackVars, callVars, deliveryVars, osVars >>

Data == INSTANCE RcuCell WITH
    Readers <- Deliveries, Values <- Addrs, NoValue <- Null,
    cell <- data, retired <- dataRetired, held <- dataHeld
Fallback == INSTANCE RcuCell WITH
    Readers <- Deliveries, Values <- Addrs, NoValue <- Null,
    cell <- fallback, retired <- fallbackRetired, held <- fallbackHeld

Handlers == Foreign \cup {DFL, Ours}
Ids == 1 .. MaxId

(* The structures of the same names. *)
Slot == [prev : Handlers, actions : Seq(Ids)]
SignalData == [signals : [Signals -> Slot \cup {Null}], next_id : 1 .. MaxId + 1]
Prev == [signal : Signals, handler : Handlers]

ASSUME NullAssumption == Null \notin Addrs \cup Signals \cup Handlers \cup Slot \cup Prev

(* What GlobalData::ensure puts into the half-lock. *)
EmptyData == [signals |-> [s \in Signals |-> Null], next_id |-> 1]
NoCall == [op |-> "none", signal |-> Null, ids |-> {}]
Elems(s) == {s[i] : i \in DOMAIN s}

(* Mutant: the newest action goes first. *)
InsertFirst(actions, id) == << id >> \o actions

(* VecMap<ActionId, _>, as VecMap.tla checks it: a fresh key goes last,    *)
(* the rest move up when one is removed.                                   *)
Insert(actions, id) == Append(actions, id)
Find(actions, id) == CHOOSE i \in DOMAIN actions : actions[i] = id
Without(actions, id) ==
    [i \in 1 .. Len(actions) - 1 |->
        IF i < Find(actions, id) THEN actions[i] ELSE actions[i + 1]]

Current == hooks[data]
ActionsOf(sigdata, s) ==
    IF sigdata.signals[s] = Null THEN << >> ELSE sigdata.signals[s].actions

-----------------------------------------------------------------------------
(* GlobalData::ensure has run; other libraries may have handlers already. *)
Init ==
    /\ Data!Init
    /\ Fallback!Init
    /\ hooks = [a \in Addrs |-> EmptyData]
    /\ prevs = [a \in Addrs |-> Null]
    /\ disposition \in [Signals -> Foreign \cup {DFL}]
    /\ wpc = "idle"
    /\ call = NoCall
    /\ new = EmptyData
    /\ hpc = [d \in Deliveries |-> "idle"]
    /\ hsig = [d \in Deliveries |-> Null]
    /\ chained = [d \in Deliveries |-> Null]
    /\ pos = [d \in Deliveries |-> 1]
    /\ issued = {}
    /\ gone = {}
    /\ detected = [s \in Signals |-> Null]
    /\ replaced = [s \in Signals |-> Null]

-----------------------------------------------------------------------------
(* The calls. *)

(* The locals of a call that is over. *)
Return == wpc' = "idle" /\ call' = NoCall /\ new' = EmptyData

(* Mutant: the id is not counted, the next action gets it again. *)
IdNotCounted(sigdata) == sigdata

(* The copy counts the id of the new action. *)
TakeId(sigdata) == [sigdata EXCEPT !.next_id = @ + 1]

(* The signal s gets a slot. *)
WithSlot(sigdata, s, slot) == [sigdata EXCEPT !.signals[s] = slot]

(* The slot of s gets the action id. *)
WithAction(sigdata, s, id) ==
    [sigdata EXCEPT !.signals[s].actions = Insert(@, id)]

(* The slot of s loses the action id. *)
WithoutAction(sigdata, s, id) ==
    [sigdata EXCEPT !.signals[s].actions = Without(@, id)]

(* The slot of s loses all its actions. *)
Cleared(sigdata, s) == [sigdata EXCEPT !.signals[s].actions = << >>]

(* register_unchecked_impl: data.write(), the copy, the new id, and the    *)
(* action goes into the slot if there is one.                              *)
BeginRegister(s) ==
    /\ wpc = "idle"
    /\ Current.next_id <= MaxId
    /\ call' = [op |-> "register", signal |-> s, ids |-> {Current.next_id}]
    /\ IF Current.signals[s] # Null
       THEN /\ new' = WithAction(TakeId(Current), s, Current.next_id)
            /\ wpc' = "store"
       ELSE /\ new' = TakeId(Current)
            /\ wpc' = "detect"
    /\ UNCHANGED << dataVars, fallbackVars, deliveryVars, osVars, issued, gone >>

(* register, register_sigaction: a forbidden signal panics, with no lock   *)
(* held and nothing changed.                                               *)
Register(s) == s \notin Forbidden /\ BeginRegister(s)

(* register_signal_unchecked, register_unchecked: any signal will do. *)
RegisterUnchecked(s) == BeginRegister(s)

(* Prev::detect fails: register returns the error. *)
DetectFails ==
    /\ wpc = "detect"
    /\ call.signal \in Refused
    /\ Return
    /\ UNCHANGED << dataVars, fallbackVars, deliveryVars, osVars, issued, gone >>

(* Mutant: nothing is kept for the deliveries that come too early. *)
NoFallback(s) == Null

(* Prev::detect: the handler the signal has now. *)
Detect(s) == [signal |-> s, handler |-> disposition[s]]

(* race_fallback.write().store(Some(Prev::detect(signal)?)), its first half. *)
StoreFallback(a) ==
    /\ wpc = "detect"
    /\ Fallback!Publish(a)
    /\ prevs' = [prevs EXCEPT ![a] = Detect(call.signal)]
    /\ detected' = [detected EXCEPT ![call.signal] = disposition[call.signal]]
    /\ wpc' = "drainFallback"
    /\ UNCHANGED << dataVars, deliveryVars, call, new, issued, gone,
                    disposition, replaced >>

(* race_fallback.store(), its second half. *)
ReclaimFallback ==
    /\ wpc = "drainFallback"
    /\ Fallback!Reclaim
    /\ prevs' = [a \in Addrs |-> IF a \in fallbackRetired THEN Null ELSE prevs[a]]
    /\ wpc' = "install"
    /\ UNCHANGED << dataVars, deliveryVars, call, new, issued, gone, osVars >>

(* Slot::new fails: register returns the error, the fallback stays. *)
InstallFails ==
    /\ wpc = "install"
    /\ call.signal \in Refused
    /\ Return
    /\ UNCHANGED << dataVars, fallbackVars, deliveryVars, osVars, issued, gone >>

(* Slot::new: sigaction() swaps the handlers; the new slot gets the action *)
(* and goes into the copy.                                                 *)
Install ==
    /\ wpc = "install"
    /\ disposition' = [disposition EXCEPT ![call.signal] = Ours]
    /\ replaced' = [replaced EXCEPT ![call.signal] = disposition[call.signal]]
    /\ new' = WithSlot(new, call.signal,
                  [prev |-> disposition[call.signal],
                   actions |-> Insert(<< >>, new.next_id - 1)])
    /\ wpc' = "store"
    /\ UNCHANGED << dataVars, fallbackVars, deliveryVars, call, issued, gone,
                    detected >>

(* unregister(id): an action that is not there ends the call, with false.  *)
BeginUnregister(s, id) ==
    /\ wpc = "idle"
    /\ id \in issued
    /\ IF id \in Elems(ActionsOf(Current, s))
       THEN /\ call' = [op |-> "unregister", signal |-> s, ids |-> {id}]
            /\ new' = WithoutAction(Current, s, id)
            /\ wpc' = "store"
            /\ UNCHANGED gone
       ELSE /\ \A t \in Signals : id \notin Elems(ActionsOf(Current, t))
            /\ gone' = gone \cup {id}
            /\ UNCHANGED << call, new, wpc >>
    /\ UNCHANGED << dataVars, fallbackVars, deliveryVars, osVars, issued >>

(* unregister_signal(s): only a slot that has actions is replaced. *)
BeginUnregisterSignal(s) ==
    /\ wpc = "idle"
    /\ ActionsOf(Current, s) # << >>
    /\ call' = [op |-> "unregister", signal |-> s, ids |-> Elems(ActionsOf(Current, s))]
    /\ new' = Cleared(Current, s)
    /\ wpc' = "store"
    /\ UNCHANGED << dataVars, fallbackVars, deliveryVars, osVars, issued, gone >>

(* lock.store(sigdata), its first half. *)
StoreData(a) ==
    /\ wpc = "store"
    /\ Data!Publish(a)
    /\ hooks' = [hooks EXCEPT ![a] = new]
    /\ wpc' = "drainData"
    /\ UNCHANGED << fallbackVars, deliveryVars, call, new, issued, gone, osVars >>

(* The drop of the replaced SignalData; a freed address holds nothing. *)
Dropped == [a \in Addrs |-> IF a \in dataRetired THEN EmptyData ELSE hooks[a]]

(* Mutant: the wait is forgotten. *)
DataReclaimEarly == dataRetired' = {} /\ UNCHANGED << data, dataHeld, hooks >>

(* write_barrier() may take longer than this says, as it waits for both    *)
(* counters, which count the readers of the new value too: see Fairness.   *)
DataReclaim == Data!Reclaim /\ hooks' = Dropped

(* lock.store(sigdata), its second half; the guard goes and the call       *)
(* returns.                                                                *)
ReclaimData ==
    /\ wpc = "drainData"
    /\ DataReclaim
    /\ IF call.op = "register"
       THEN issued' = issued \cup call.ids /\ UNCHANGED gone
       ELSE gone' = gone \cup call.ids /\ UNCHANGED issued
    /\ Return
    /\ UNCHANGED << fallbackVars, deliveryVars, osVars >>

(* The steps of a call that wait for nobody. *)
Straight ==
    \/ DetectFails
    \/ \E a \in Addrs : StoreFallback(a) \/ StoreData(a)
    \/ InstallFails \/ Install

Call == Straight \/ ReclaimFallback \/ ReclaimData

-----------------------------------------------------------------------------
(* The signal handler. *)

(* The C runtime of Windows forgets a handler when it calls it, except     *)
(* for SIGFPE.                                                             *)
Forgets(s) == Windows /\ s # SIGFPE

(* s is delivered to our handler. *)
Deliver(d, s) ==
    /\ hpc[d] = "idle"
    /\ disposition[s] = Ours
    /\ disposition' = IF Forgets(s) THEN [disposition EXCEPT ![s] = DFL] ELSE disposition
    /\ hpc' = [hpc EXCEPT ![d] = IF Windows THEN "rearm" ELSE "entered"]
    /\ hsig' = [hsig EXCEPT ![d] = s]
    /\ UNCHANGED << dataVars, fallbackVars, callVars, chained, pos,
                    detected, replaced >>

(* Mutant: the test is the wrong way round. *)
RearmsOnly(s) == s = SIGFPE

Rearms(s) == s # SIGFPE

(* handler() of Windows installs itself again, over whatever is there. *)
Rearm(d) ==
    /\ hpc[d] = "rearm"
    /\ hpc' = [hpc EXCEPT ![d] = "entered"]
    /\ disposition' =
          IF Rearms(hsig[d]) THEN [disposition EXCEPT ![hsig[d]] = Ours] ELSE disposition
    /\ UNCHANGED << dataVars, fallbackVars, callVars, hsig, chained, pos,
                    detected, replaced >>

(* handler(): race_fallback.read() ... *)
ReadFallback(d) ==
    /\ hpc[d] = "entered"
    /\ Fallback!Read(d)
    /\ hpc' = [hpc EXCEPT ![d] = "fallback"]
    /\ UNCHANGED << dataVars, prevs, callVars, hsig, chained, pos, osVars >>

(* ... and then data.read(). *)
ReadData(d) ==
    /\ hpc[d] = "fallback"
    /\ Data!Read(d)
    /\ hpc' = [hpc EXCEPT ![d] = "chain"]
    /\ UNCHANGED << fallbackVars, hooks, callVars, hsig, chained, pos, osVars >>

HasSlot(d) == hooks[dataHeld[d]].signals[hsig[d]] # Null

(* The previous handler a delivery calls: the slot's, or else the fallback *)
(* if it is for this signal.                                               *)
PrevOf(d) ==
    IF HasSlot(d) THEN hooks[dataHeld[d]].signals[hsig[d]].prev
    ELSE LET prev == prevs[fallbackHeld[d]]
         IN  IF prev # Null /\ prev.signal = hsig[d] THEN prev.handler ELSE Null

(* handler(): prev.execute(). *)
Chain(d) ==
    /\ hpc[d] = "chain"
    /\ chained' = [chained EXCEPT ![d] = PrevOf(d)]
    /\ pos' = [pos EXCEPT ![d] = 1]
    /\ hpc' = [hpc EXCEPT ![d] = "actions"]
    /\ UNCHANGED << dataVars, fallbackVars, callVars, hsig, osVars >>

Snapshot(d) == ActionsOf(hooks[dataHeld[d]], hsig[d])

(* handler(): the next action of the loop over slot.actions. *)
RunAction(d) ==
    /\ hpc[d] = "actions"
    /\ pos[d] <= Len(Snapshot(d))
    /\ pos' = [pos EXCEPT ![d] = @ + 1]
    /\ UNCHANGED << dataVars, fallbackVars, callVars, hpc, hsig, chained, osVars >>

(* handler(): the guards go in reverse order, first the one of data ... *)
ReleaseData(d) ==
    /\ hpc[d] = "actions"
    /\ pos[d] > Len(Snapshot(d))
    /\ Data!Release(d)
    /\ hpc' = [hpc EXCEPT ![d] = "leaving"]
    /\ UNCHANGED << fallbackVars, hooks, callVars, hsig, chained, pos, osVars >>

(* ... and then the one of the fallback, and the handler returns. *)
ReleaseFallback(d) ==
    /\ hpc[d] = "leaving"
    /\ Fallback!Release(d)
    /\ hpc' = [hpc EXCEPT ![d] = "idle"]
    /\ hsig' = [hsig EXCEPT ![d] = Null]
    /\ chained' = [chained EXCEPT ![d] = Null]
    /\ pos' = [pos EXCEPT ![d] = 1]
    /\ UNCHANGED << dataVars, prevs, callVars, osVars >>

Handle(d) ==
    \/ Rearm(d) \/ ReadFallback(d) \/ ReadData(d) \/ Chain(d) \/ RunAction(d)
    \/ ReleaseData(d) \/ ReleaseFallback(d)

-----------------------------------------------------------------------------
(* Another library installs its handler, before we have hooked the signal  *)
(* or, on Windows, while our handler is forgotten.                         *)
ForeignInstall(s, f) ==
    /\ disposition[s] \notin {Ours, f}
    /\ disposition' = [disposition EXCEPT ![s] = f]
    /\ UNCHANGED << dataVars, fallbackVars, callVars, deliveryVars,
                    detected, replaced >>

Next ==
    \/ \E s \in Signals :
          \/ Register(s) \/ RegisterUnchecked(s)
          \/ \E id \in Ids : BeginUnregister(s, id)
          \/ BeginUnregisterSignal(s)
          \/ \E d \in Deliveries : Deliver(d, s)
          \/ \E f \in Foreign : ForeignInstall(s, f)
    \/ Call
    \/ \E d \in Deliveries : Handle(d)

Spec == Init /\ [][Next]_vars

(* A call goes on until it returns, and so does a handler.  A store that   *)
(* waits is sure to end only when handlers stay out of its half-lock, the  *)
(* readers of the new value included (HalfLock!StoreEnds).                 *)
Fairness ==
    /\ WF_vars(Straight)
    /\ WF_vars(ReclaimFallback /\ \A d \in Deliveries : fallbackHeld[d] = Null)
    /\ WF_vars(ReclaimData /\ \A d \in Deliveries : dataHeld[d] = Null)
    /\ \A d \in Deliveries : WF_vars(Handle(d))

FairSpec == Spec /\ Fairness

-----------------------------------------------------------------------------
(* The type invariant of the registry. *)
TypeOK ==
    /\ data \in Addrs /\ dataRetired \in SUBSET Addrs
    /\ dataHeld \in [Deliveries -> Addrs \cup {Null}]
    /\ fallback \in Addrs /\ fallbackRetired \in SUBSET Addrs
    /\ fallbackHeld \in [Deliveries -> Addrs \cup {Null}]
    /\ hooks \in [Addrs -> SignalData]
    /\ prevs \in [Addrs -> Prev \cup {Null}]
    /\ disposition \in [Signals -> Handlers]
    /\ wpc \in {"idle", "detect", "drainFallback", "install", "store", "drainData"}
    /\ call \in [op : {"none", "register", "unregister"},
                 signal : Signals \cup {Null}, ids : SUBSET Ids]
    /\ new \in SignalData
    /\ hpc \in [Deliveries ->
          {"idle", "rearm", "entered", "fallback", "chain", "actions", "leaving"}]
    /\ hsig \in [Deliveries -> Signals \cup {Null}]
    /\ chained \in [Deliveries -> Handlers \cup {Null}]
    /\ pos \in [Deliveries -> Nat \ {0}]
    /\ issued \in SUBSET Ids /\ gone \in SUBSET Ids
    /\ detected \in [Signals -> Handlers \cup {Null}]
    /\ replaced \in [Signals -> Handlers \cup {Null}]

(* The hooks a delivery still has to run. *)
Todo(d) ==
    IF hpc[d] = "chain" THEN Snapshot(d)
    ELSE IF hpc[d] = "actions" THEN SubSeq(Snapshot(d), pos[d], Len(Snapshot(d)))
    ELSE << >>

(* A hook never runs after its removal returned, whether unregister said   *)
(* true or false, and not even in a handler that started long before: the  *)
(* owner of what the hook uses may free it.                                *)
GoneNeverRuns == \A d \in Deliveries : Elems(Todo(d)) \cap gone = {}

(* No signal is lost to the program's earlier handler while we take it     *)
(* over, on any thread (the comment of register_unchecked_impl): every     *)
(* delivery calls the handler that we replaced; only a delivery that came  *)
(* before our slot was visible may call the one we had detected instead.   *)
PreviousHandlerCalled ==
    \A d \in Deliveries : hpc[d] = "actions" =>
        \/ chained[d] = replaced[hsig[d]]
        \/ ~HasSlot(d) /\ chained[d] = detected[hsig[d]]

(* Once we have hooked a signal it stays hooked: whenever the system would *)
(* not call our handler for it, a handler is running that is about to      *)
(* install itself again (the comment of the Windows handler), so only a    *)
(* signal in that gap can be missed.                                       *)
StaysHooked ==
    \A s \in Signals : replaced[s] # Null /\ disposition[s] # Ours =>
        \E d \in Deliveries : hpc[d] = "rearm" /\ hsig[d] = s

(* A call returns once signals stop arriving ("signals are rare", as the   *)
(* half-lock says): either they arrive for ever or each call ends, with    *)
(* success or at an error, whatever handlers were running meanwhile.       *)
CallReturns ==
    \/ []<><< \E d \in Deliveries, s \in Signals : Deliver(d, s) >>_vars
    \/ wpc # "idle" ~> wpc = "idle"

(* The registry implements the dispatch: the swap of the pointer is the    *)
(* instant of a change, the load of the pointer that of a delivery.        *)
Dispatcher == INSTANCE Dispatch WITH
    hooks <- [s \in Signals |-> ActionsOf(Current, s)],
    todo  <- [d \in Deliveries |-> Todo(d)]

ImplementsDispatch == Dispatcher!Spec

-----------------------------------------------------------------------------
(* The inductive invariant of RegistryProofs.tla. *)

(* A guard is held exactly between the read and the drop of a handler, and *)
(* refers to the current value or to the one that waits to be dropped.     *)
GuardsHeld ==
    \A d \in Deliveries :
       /\ dataHeld[d] # Null <=> hpc[d] \in {"chain", "actions"}
       /\ dataHeld[d] \in {data, Null} \cup dataRetired
       /\ fallbackHeld[d] # Null <=> hpc[d] \in {"fallback", "chain", "actions", "leaving"}
       /\ fallbackHeld[d] \in {fallback, Null} \cup fallbackRetired

(* A value waits to be dropped only inside a store; the rest is free. *)
HeapKnown ==
    /\ dataRetired # {} => wpc = "drainData"
    /\ fallbackRetired # {} => wpc = "drainFallback"
    /\ data \notin dataRetired
    /\ fallback \notin fallbackRetired
    /\ \A a \in Addrs \ ({data} \cup dataRetired) : hooks[a] = EmptyData

(* An id has one place, in one slot, and was given out before next_id. *)
OnePlace(sigdata) ==
    \A s, t \in Signals :
       \A i \in DOMAIN ActionsOf(sigdata, s), j \in DOMAIN ActionsOf(sigdata, t) :
          ActionsOf(sigdata, s)[i] = ActionsOf(sigdata, t)[j] => s = t /\ i = j
IdsBelow(sigdata) ==
    \A s \in Signals : \A id \in Elems(ActionsOf(sigdata, s)) : id < sigdata.next_id
HasNone(sigdata, ids) ==
    \A s \in Signals : Elems(ActionsOf(sigdata, s)) \cap ids = {}

IdsUnique ==
    /\ \A sigdata \in {Current, new} :
          OnePlace(sigdata) /\ IdsBelow(sigdata) /\ HasNone(sigdata, gone)
    /\ \A a \in dataRetired : HasNone(hooks[a], gone)
    /\ \A id \in issued \cup gone : id < Current.next_id

(* What a call is about to store, step by step. *)
Adding == wpc \in {"detect", "drainFallback", "install"}
OneSlotNew ==
    /\ new.signals[call.signal] # Null
    /\ \A s \in Signals \ {call.signal} : new.signals[s] = Current.signals[s]
Added ==
    /\ new.next_id = Current.next_id + 1
    /\ ActionsOf(new, call.signal) = Append(ActionsOf(Current, call.signal), Current.next_id)
Removed ==
    /\ Current.signals[call.signal] # Null
    /\ new.next_id = Current.next_id
    /\ ActionsOf(new, call.signal) =
           Dispatcher!Without(ActionsOf(Current, call.signal), call.ids)

CallKnown ==
    /\ wpc = "idle" => new = EmptyData /\ call = NoCall
    /\ wpc # "idle" => call.op \in {"register", "unregister"} /\ call.signal \in Signals
    /\ Adding => /\ call.op = "register"
                 /\ Current.signals[call.signal] = Null
                 /\ new = TakeId(Current)
    /\ wpc = "store" => OneSlotNew
    /\ wpc = "store" /\ call.op = "register" => Added
    /\ wpc = "store" /\ call.op = "unregister" => Removed
    /\ wpc = "drainData" => new = Current
    /\ call.op = "register" =>
          call.ids = {new.next_id - 1} /\ \A id \in issued : id < new.next_id - 1
    /\ call.op = "unregister" =>
          HasNone(new, call.ids) /\ \A id \in call.ids : id < Current.next_id

(* A signal we took over has a slot, visible or about to be, that knows    *)
(* what was replaced; until it is visible the fallback knows the signal.   *)
Detected(prev, s) == prev # Null /\ prev.signal = s /\ prev.handler = detected[s]
SlotsKnown ==
    /\ \A s \in Signals :
          /\ replaced[s] # Null <=>
                \/ Current.signals[s] # Null
                \/ wpc = "store" /\ new.signals[s] # Null
          /\ disposition[s] = Ours => replaced[s] # Null
          /\ \A sigdata \in {Current, new} :
                sigdata.signals[s] # Null => sigdata.signals[s].prev = replaced[s]
          /\ \A a \in dataRetired :
                hooks[a].signals[s] # Null => hooks[a].signals[s].prev = replaced[s]
    /\ \/ wpc \in {"drainFallback", "install"}
       \/ wpc = "store" /\ Current.signals[call.signal] = Null
       => Detected(prevs[fallback], call.signal)

(* What a delivery has found so far is enough for what it calls. *)
DeliveriesKnow ==
    \A d \in Deliveries :
       /\ hpc[d] # "idle" => hsig[d] \in Signals /\ replaced[hsig[d]] # Null
       /\ hpc[d] = "fallback" => 
             Current.signals[hsig[d]] # Null \/ Detected(prevs[fallbackHeld[d]], hsig[d])
       /\ hpc[d] = "chain" => HasSlot(d) \/ Detected(prevs[fallbackHeld[d]], hsig[d])

Rehooks ==
    \A s \in Signals : replaced[s] # Null /\ disposition[s] # Ours =>
        Rearms(s) /\ \E d \in Deliveries : hpc[d] = "rearm" /\ hsig[d] = s

IInv ==
    /\ TypeOK
    /\ GuardsHeld
    /\ HeapKnown
    /\ IdsUnique
    /\ CallKnown
    /\ SlotsKnown
    /\ DeliveriesKnow
    /\ PreviousHandlerCalled
    /\ Rehooks
=============================================================================
