------------------------------ MODULE HalfLock ------------------------------
(***************************************************************************)
(* signal-hook-registry/src/half_lock.rs: the lock that lets a signal      *)
(* handler read the registered hooks while another thread replaces them.   *)
(* A reader announces itself in one of two counters; a writer swaps the    *)
(* pointer, flips the generation (which tells new readers which counter to *)
(* use) and spins until it has seen each counter at zero once.             *)
(*                                                                         *)
(* Every atomic operation of the code is SeqCst, so a behaviour of the     *)
(* program is an interleaving of them: one action per atomic operation.    *)
(* Addresses are reused after they are freed, so the state space is finite *)
(* without a bound on the number of reads and stores.                      *)
(***************************************************************************)
EXTENDS Integers, FiniteSets

CONSTANTS
    Readers,    \* activations of read(): signal handlers, in any thread
    Writers,    \* threads that may call write()
    Addrs,      \* the addresses the allocator hands out
    NoAddr,     \* "no pointer"
    NoWriter,   \* "the mutex is not locked"
    W           \* number of values of an usize (2^64 in the program)

ASSUME ReadersAssumption == IsFiniteSet(Readers)
ASSUME WritersAssumption == NoWriter \notin Writers
ASSUME AddrsAssumption == NoAddr \notin Addrs
ASSUME WAssumption == W \in Nat /\ W >= 2 /\ W % 2 = 0
(* A guard takes some memory (the comment of read), so there are fewer     *)
(* activations than values of an usize.                                    *)
ASSUME FewReaders == Cardinality(Readers) < W

VARIABLES
    data,       \* HalfLock.data, the pointer
    generation, \* HalfLock.generation
    lock,       \* HalfLock.lock, the two counters
    mutex,      \* owner of HalfLock.write_mutex
    heap,       \* the addresses that hold a live value
    rpc,        \* where each reader is in read() / ReadGuard
    rslot,      \* the counter it chose
    rdata,      \* ReadGuard.data
    wpc,        \* where the owner of the mutex is in write() / WriteGuard
    wdata,      \* WriteGuard.data
    old,        \* local of store(): the pointer swapped out
    seen,       \* local of write_barrier(): seen_zero
    pos,        \* the slot update_seen() looks at next
    aborted     \* the process called abort()

readerVars == << rpc, rslot, rdata >>
writerVars == << mutex, wpc, wdata, old, seen, pos >>
vars == << data, generation, lock, heap, readerVars, writerVars, aborted >>

Slots == {0, 1}
MAX_GUARDS == (W \div 2) - 1            \* isize::MAX

(* fetch_add and fetch_sub wrap around. *)
Inc(n) == IF n = W - 1 THEN 0 ELSE n + 1

(* Mutant: the drop of a guard forgets its counter. *)
DecForgotten(n) == n

Dec(n) == IF n = 0 THEN W - 1 ELSE n - 1

RPC == {"idle", "picked", "counted", "aborting", "reading"}
WPC == {"unlocked", "locked", "guard", "first", "flip", "spin", "reclaim"}

Counted(r) == rpc[r] \in {"counted", "aborting", "reading"}
Holders(s) == {r \in Readers : Counted(r) /\ rslot[r] = s}
Storing == wpc \in {"first", "flip", "spin", "reclaim"}

-----------------------------------------------------------------------------
(* HalfLock::new *)
Init ==
    /\ data \in Addrs
    /\ heap = {data}
    /\ generation = 0
    /\ lock = [s \in Slots |-> 0]
    /\ mutex = NoWriter
    /\ rpc = [r \in Readers |-> "idle"]
    /\ rslot = [r \in Readers |-> 0]
    /\ rdata = [r \in Readers |-> NoAddr]
    /\ wpc = "unlocked"
    /\ wdata = NoAddr
    /\ old = NoAddr
    /\ seen = [s \in Slots |-> FALSE]
    /\ pos = 0
    /\ aborted = FALSE

-----------------------------------------------------------------------------
(* The reader. *)

(* read(): self.generation.load(), which picks the counter. *)
LoadGeneration(r) ==
    /\ rpc[r] = "idle"
    /\ rpc' = [rpc EXCEPT ![r] = "picked"]
    /\ rslot' = [rslot EXCEPT ![r] = generation % 2]
    /\ UNCHANGED << data, generation, lock, heap, rdata, writerVars, aborted >>

(* Mutant: the test is forgotten. *)
AfterCountUnchecked(guard_cnt) == "counted"

(* The test that keeps the counter from wrapping, on the value it had. *)
AfterCount(guard_cnt) == IF guard_cnt > MAX_GUARDS THEN "aborting" ELSE "counted"

(* read(): lock.fetch_add(1), and the test of the value it returns. *)
Count(r) ==
    /\ rpc[r] = "picked"
    /\ lock' = [lock EXCEPT ![rslot[r]] = Inc(@)]
    /\ rpc' = [rpc EXCEPT ![r] = AfterCount(lock[rslot[r]])]
    /\ UNCHANGED << data, generation, heap, rslot, rdata, writerVars, aborted >>

(* read(): libc::abort().  Nothing runs after it. *)
Abort(r) ==
    /\ rpc[r] = "aborting"
    /\ aborted' = TRUE
    /\ UNCHANGED << data, generation, lock, heap, readerVars, writerVars >>

(* read(): self.data.load(); the guard is returned. *)
LoadData(r) ==
    /\ rpc[r] = "counted"
    /\ rdata' = [rdata EXCEPT ![r] = data]
    /\ rpc' = [rpc EXCEPT ![r] = "reading"]
    /\ UNCHANGED << data, generation, lock, heap, rslot, writerVars, aborted >>

(* Drop of ReadGuard: lock.fetch_sub(1) on the counter the guard came from. *)
Release(r) ==
    /\ rpc[r] = "reading"
    /\ lock' = [lock EXCEPT ![rslot[r]] = Dec(@)]
    /\ rpc' = [rpc EXCEPT ![r] = "idle"]
    /\ rdata' = [rdata EXCEPT ![r] = NoAddr]
    /\ UNCHANGED << data, generation, heap, rslot, writerVars, aborted >>

Reader(r) == LoadGeneration(r) \/ Count(r) \/ Abort(r) \/ LoadData(r) \/ Release(r)

-----------------------------------------------------------------------------
(* The writer.  Only the owner of the mutex has a WriteGuard, so its locals *)
(* exist once.                                                             *)

(* write(): write_mutex.lock(); a poisoned mutex is as good as any. *)
Lock(w) ==
    /\ mutex = NoWriter
    /\ mutex' = w
    /\ wpc' = "locked"
    /\ UNCHANGED << data, generation, lock, heap, readerVars,
                    wdata, old, seen, pos, aborted >>

(* write(): self.data.load(); the guard is returned. *)
LoadCurrent ==
    /\ wpc = "locked"
    /\ wdata' = data
    /\ wpc' = "guard"
    /\ UNCHANGED << data, generation, lock, heap, readerVars,
                    mutex, old, seen, pos, aborted >>

(* Mutant: seen_zero outlives its barrier. *)
SeenBefore == seen

(* seen_zero, as write_barrier() begins. *)
SeenAtFirst == [s \in Slots |-> FALSE]

(* store(): Box::new, data.swap(), and the locals of write_barrier(). *)
Swap(new) ==
    /\ wpc = "guard"
    /\ new \in Addrs \ heap
    /\ heap' = heap \cup {new}
    /\ wdata' = new
    /\ data' = new
    /\ old' = data
    /\ seen' = SeenAtFirst
    /\ pos' = 0
    /\ wpc' = "first"
    /\ UNCHANGED << generation, lock, readerVars, mutex, aborted >>

AllSeen(sn) == \A s \in Slots : sn[s]

(* Mutant: one zero counter stands for both. *)
SeenOneForBoth == [s \in Slots |-> seen[s] \/ lock[pos] = 0]

(* What one load of update_seen() adds to seen_zero. *)
SeenAfterLoad == [seen EXCEPT ![pos] = @ \/ lock[pos] = 0]

(* Mutant: the loop ends when any counter was seen at zero. *)
AfterUpdateAny(sn) ==
    IF wpc = "first" THEN "flip"
    ELSE IF \E s \in Slots : sn[s] THEN "reclaim" ELSE "spin"

(* Where the writer goes when update_seen() has looked at both slots. *)
AfterUpdate(sn) ==
    IF wpc = "first" THEN "flip" ELSE IF AllSeen(sn) THEN "reclaim" ELSE "spin"

(* update_seen(): one load per slot, in order; write_barrier() calls it    *)
(* once before the generation changes and then in its loop.                *)
UpdateSeen ==
    /\ wpc \in {"first", "spin"}
    /\ seen' = SeenAfterLoad
    /\ pos' = 1 - pos
    /\ wpc' = IF pos = 0 THEN wpc ELSE AfterUpdate(SeenAfterLoad)
    /\ UNCHANGED << data, generation, lock, heap, readerVars,
                    mutex, wdata, old, aborted >>

(* Mutant: the generation wraps at the last usize and not after it. *)
NextGenerationOdd == (generation + 1) % (W - 1)

NextGeneration == Inc(generation)

(* write_barrier(): generation.fetch_add(1), and the test of the loop. *)
FlipGeneration ==
    /\ wpc = "flip"
    /\ generation' = NextGeneration
    /\ wpc' = IF AllSeen(seen) THEN "reclaim" ELSE "spin"
    /\ UNCHANGED << data, lock, heap, readerVars,
                    mutex, wdata, old, seen, pos, aborted >>

(* store(): drop of the old value; the guard may store again. *)
Reclaim ==
    /\ wpc = "reclaim"
    /\ heap' = heap \ {old}
    /\ old' = NoAddr
    /\ wpc' = "guard"
    /\ UNCHANGED << data, generation, lock, readerVars,
                    mutex, wdata, seen, pos, aborted >>

(* The WriteGuard goes away, at the end of its scope or in a panic of the  *)
(* caller: the mutex is released either way.                               *)
Unlock ==
    /\ wpc = "guard"
    /\ mutex' = NoWriter
    /\ wpc' = "unlocked"
    /\ wdata' = NoAddr
    /\ UNCHANGED << data, generation, lock, heap, readerVars,
                    old, seen, pos, aborted >>

Writer ==
    \/ LoadCurrent
    \/ \E new \in Addrs : Swap(new)
    \/ UpdateSeen
    \/ FlipGeneration
    \/ Reclaim
    \/ Unlock

Next ==
    /\ ~aborted
    /\ \/ \E r \in Readers : Reader(r)
       \/ \E w \in Writers : Lock(w)
       \/ Writer

Spec == Init /\ [][Next]_vars

(* A handler that has started runs to its end, and the writer spins for as *)
(* long as it must.  Nobody is obliged to start reading or writing.        *)
Fairness ==
    /\ \A r \in Readers : WF_vars(~aborted /\ (Count(r) \/ Abort(r) \/ LoadData(r) \/ Release(r)))
    /\ WF_vars(~aborted /\ (UpdateSeen \/ FlipGeneration \/ Reclaim))

FairSpec == Spec /\ Fairness

-----------------------------------------------------------------------------
(* The type invariant of the lock. *)
TypeOK ==
    /\ data \in Addrs
    /\ generation \in 0 .. W - 1
    /\ lock \in [Slots -> 0 .. W - 1]
    /\ mutex \in Writers \cup {NoWriter}
    /\ heap \in SUBSET Addrs
    /\ rpc \in [Readers -> RPC]
    /\ rslot \in [Readers -> Slots]
    /\ rdata \in [Readers -> Addrs \cup {NoAddr}]
    /\ wpc \in WPC
    /\ wdata \in Addrs \cup {NoAddr}
    /\ old \in Addrs \cup {NoAddr}
    /\ seen \in [Slots -> BOOLEAN]
    /\ pos \in Slots
    /\ aborted \in BOOLEAN

(* A signal handler never looks at freed hooks, and neither does the       *)
(* writer: ReadGuard and WriteGuard dereference live values only           *)
(* (half_lock.rs "Safe:" comments of read, write and store).               *)
NoUseAfterFree ==
    /\ \A r \in Readers : rpc[r] = "reading" => rdata[r] \in heap
    /\ wpc = "guard" \/ Storing => wdata \in heap

(* The counter of guards never gets past isize::MAX + 1 guards that are    *)
(* out at the same time in one slot: the abort of read() stops them while  *)
(* half of the counter's range is left.                                    *)
Guards(s) == {r \in Readers : rpc[r] \in {"counted", "reading"} /\ rslot[r] = s}
GuardsBounded == \A s \in Slots : Cardinality(Guards(s)) <= MAX_GUARDS + 1

(* The inductive invariant behind NoUseAfterFree.  The counters are exact; *)
(* only the current value and the one being replaced are allocated; a      *)
(* reader that still has the replaced value is counted in a slot that the  *)
(* writer has not seen at zero.  The generation plays no part in it.       *)
CountersExact == \A s \in Slots : lock[s] = Cardinality(Holders(s))

HeapExact ==
    /\ heap = {data} \cup (IF Storing THEN {old} ELSE {})
    /\ Storing => old \in Addrs /\ old # data
    /\ wpc = "guard" \/ Storing => wdata = data

(* The locals of a writer are those of the owner of the mutex. *)
MutexExact == mutex = NoWriter <=> wpc = "unlocked"

ReadersCovered ==
    \A r \in Readers :
        IF rpc[r] = "reading"
        THEN \/ rdata[r] = data
             \/ Storing /\ rdata[r] = old /\ ~seen[rslot[r]]
        ELSE rdata[r] = NoAddr

IInv ==
    /\ TypeOK
    /\ CountersExact
    /\ MutexExact
    /\ HeapExact
    /\ ReadersCovered
    /\ wpc = "reclaim" => AllSeen(seen)

(* The half-lock implements the cell: the value swapped out is the retired *)
(* one until it is freed, and a reader holds the value it loaded.  In      *)
(* particular store() frees the old hooks only when no handler runs them.  *)
Cell == INSTANCE RcuCell WITH
    Values  <- Addrs,
    NoValue <- NoAddr,
    cell    <- data,
    retired <- IF Storing THEN {old} ELSE {},
    held    <- rdata

ImplementsCell == Cell!Spec

(* The point of the two counters: however many new signals keep arriving,  *)
(* a barrier sees at zero the counter that readers took when it began, as  *)
(* they take the other one from then on, also when the generation wraps.   *)
PreviousGenerationDrains ==
    \A s \in Slots : (wpc = "flip" /\ generation % 2 = s) ~> (seen[s] \/ aborted)

(* store() ends if signals stop arriving ("signals are rare", half_lock.rs *)
(* header): either handlers start for ever or the writer leaves the        *)
(* barrier each time it enters it.                                         *)
StoreEnds ==
    \/ []<><< \E r \in Readers : LoadGeneration(r) >>_vars
    \/ Storing ~> (wpc = "guard" \/ aborted)
=============================================================================
