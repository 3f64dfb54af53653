------------------------------ MODULE Channel -------------------------------
(***************************************************************************)
(* src/low_level/channel.rs: the channel that carries values out of signal *)
(* handlers.  The two queues of slot indices are packed into one atomic    *)
(* word each, so a compare-and-exchange of the word is a step on the whole *)
(* queue.  Loads are separate from the exchanges; between them any other   *)
(* process may run, nested handlers included.                              *)
(*                                                                         *)
(* An exchange that fails spuriously (it is the weak one) reads the value  *)
(* it expected and tries again, a stuttering step.  Storage is accessed    *)
(* between an acquiring dequeue and a releasing enqueue of its index, and  *)
(* every write of the words is a read-modify-write, so the accesses of one *)
(* holder happen before those of the next.                                 *)
(***************************************************************************)
EXTENDS Integers, Sequences, FiniteSets

CONSTANTS
    Senders,        \* activations of send(), in handlers
    Receivers,      \* threads that call recv()
    Values,         \* what is sent
    None,           \* Option::None
    SLOTS, BITS     \* 5 and 3 in the code

ASSUME DisjointAssumption == Senders \cap Receivers = {}
ASSUME NoneAssumption == None \notin Values
(* An index and the mark of an empty place fit into the bits of a place. *)
ASSUME SlotsAssumption ==
    SLOTS \in Nat \ {0} /\ BITS \in Nat \ {0} /\ SLOTS < 2 ^ BITS

VARIABLES
    empty, full,    \* the two words
    storage,        \* the slots
    pc,             \* where each process is
    current,        \* its local of enqueue() or dequeue(), 0 outside of them
    idx,            \* the slot it holds
    val             \* what it sends, or what it took

vars == << empty, full, storage, pc, current, idx, val >>

Procs == Senders \cup Receivers
SlotIds == 1 .. SLOTS
BASE == 2 ^ BITS                    \* MASK + 1

-----------------------------------------------------------------------------
(* The words. *)

(* A shift by BITS * i multiplies or divides by this. *)
Weight[i \in 0 .. SLOTS] == IF i = 0 THEN 1 ELSE BASE * Weight[i - 1]

(* get(): one place of the word. *)
Get(n, i) == (n \div Weight[i]) % BASE

(* set(): the place is cleared and then written. *)
Set(n, i, v) == n - Get(n, i) * Weight[i] + v * Weight[i]

Places == 0 .. SLOTS - 1
Vacant(n) == {i \in Places : Get(n, i) = 0}
FirstVacant(n) == CHOOSE i \in Vacant(n) : \A j \in Vacant(n) : i <= j

(* Mutant: the new index goes first. *)
EnqueuedFirst(n, v) == n * BASE + v

(* enqueue(): the word with v at the first place that holds nothing. *)
Enqueued(n, v) == Set(n, FirstVacant(n), v)

(* Mutant: the word is left as it was. *)
DequeuedNothing(n) == n

(* Mutant: the word is shifted the wrong way. *)
DequeuedLeft(n) == n * BASE

(* dequeue(): the first index, and the word without it. *)
Front(n) == n % BASE
Dequeued(n) == n \div BASE

(* The queue a word stands for: its places up to the first vacant one. *)
Words == 0 .. Weight[SLOTS] - 1
Used(n) == IF Vacant(n) = {} THEN SLOTS ELSE FirstVacant(n)
Queue == [n \in Words |-> [i \in 1 .. Used(n) |-> Get(n, i - 1)]]

(* Channel::new() enqueues the indices one by one. *)
NewWord[i \in 0 .. SLOTS] == IF i = 0 THEN 0 ELSE Enqueued(NewWord[i - 1], i)

Init ==
    /\ empty = NewWord[SLOTS]
    /\ full = 0
    /\ storage = [s \in SlotIds |-> None]
    /\ pc = [p \in Procs |-> "idle"]
    /\ current = [p \in Procs |-> 0]
    /\ idx = [p \in Procs |-> 0]
    /\ val = [p \in Procs |-> None]

-----------------------------------------------------------------------------
(* What a process knows next. *)
Goto(p, where) == pc' = [pc EXCEPT ![p] = where]
Sees(p, word) == current' = [current EXCEPT ![p] = word]
Finish(p) ==
    /\ Goto(p, "idle")
    /\ Sees(p, 0)
    /\ idx' = [idx EXCEPT ![p] = 0]
    /\ val' = [val EXCEPT ![p] = None]

(* dequeue(&self.empty) would find no slot. *)
NoSlot == Front(empty) = 0

(* send() begins: dequeue() loads the word of empty slots. *)
SendLoads(p, v) ==
    /\ pc[p] = "idle"
    /\ ~NoSlot
    /\ val' = [val EXCEPT ![p] = v]
    /\ Sees(p, empty)
    /\ Goto(p, "popEmpty")
    /\ UNCHANGED << empty, full, storage, idx >>

(* send() finds no empty slot, at its first look or at a later one, and    *)
(* drops the value.  At the first look nothing changes but the caller,     *)
(* which goes on without having sent anything.                             *)
SendDrops(p) ==
    /\ pc[p] = "idle" \/ (pc[p] = "popEmpty" /\ empty # current[p])
    /\ NoSlot
    /\ Finish(p)
    /\ UNCHANGED << empty, full, storage >>

(* dequeue(&self.empty): the exchange fails, there is another slot to try. *)
PopEmptyRetries(p) ==
    /\ pc[p] = "popEmpty"
    /\ empty # current[p]
    /\ ~NoSlot
    /\ Sees(p, empty)
    /\ UNCHANGED << empty, full, storage, pc, idx, val >>

PopEmpty(p) ==
    /\ pc[p] = "popEmpty"
    /\ empty = current[p]
    /\ empty' = Dequeued(empty)
    /\ idx' = [idx EXCEPT ![p] = Front(empty)]
    /\ Sees(p, 0)
    /\ Goto(p, "fill")
    /\ UNCHANGED << full, storage, val >>

(* send(): the value moves into the slot. *)
Fill(p) ==
    /\ pc[p] = "fill"
    /\ storage' = [storage EXCEPT ![idx[p]] = val[p]]
    /\ val' = [val EXCEPT ![p] = None]
    /\ Goto(p, "loadFull")
    /\ UNCHANGED << empty, full, current, idx >>

(* enqueue() has seen the word: "No empty slot available" is a panic. *)
PushOrPanic(p, word, where) ==
    /\ Sees(p, word)
    /\ Goto(p, IF Vacant(word) = {} THEN "panic" ELSE where)
    /\ UNCHANGED << empty, full, storage, idx, val >>

(* enqueue(&self.full): the load, and the exchanges that fail. *)
LoadFull(p) ==
    /\ pc[p] = "loadFull" \/ (pc[p] = "pushFull" /\ full # current[p])
    /\ PushOrPanic(p, full, "pushFull")

PushFull(p) ==
    /\ pc[p] = "pushFull"
    /\ full = current[p]
    /\ full' = Enqueued(full, idx[p])
    /\ Finish(p)
    /\ UNCHANGED << empty, storage >>

Send(p) ==
    \/ \E v \in Values : SendLoads(p, v)
    \/ SendDrops(p) \/ PopEmptyRetries(p) \/ PopEmpty(p)
    \/ Fill(p) \/ LoadFull(p) \/ PushFull(p)

-----------------------------------------------------------------------------
(* recv() begins: dequeue() loads the word of full slots.  It returns None *)
(* when it sees nothing, at its first look or at a later one.              *)
RecvLoads(p) ==
    /\ pc[p] = "idle" \/ (pc[p] = "popFull" /\ full # current[p])
    /\ IF Front(full) = 0 THEN Finish(p)
       ELSE Sees(p, full) /\ Goto(p, "popFull") /\ UNCHANGED << idx, val >>
    /\ UNCHANGED << empty, full, storage >>

PopFull(p) ==
    /\ pc[p] = "popFull"
    /\ full = current[p]
    /\ full' = Dequeued(full)
    /\ idx' = [idx EXCEPT ![p] = Front(full)]
    /\ Sees(p, 0)
    /\ Goto(p, "take")
    /\ UNCHANGED << empty, storage, val >>

(* recv(): Option::take; "Full slot with nothing in it" is a panic. *)
Take(p) ==
    /\ pc[p] = "take"
    /\ val' = [val EXCEPT ![p] = storage[idx[p]]]
    /\ storage' = [storage EXCEPT ![idx[p]] = None]
    /\ Goto(p, IF storage[idx[p]] = None THEN "panic" ELSE "loadEmpty")
    /\ UNCHANGED << empty, full, current, idx >>

(* enqueue(&self.empty): the load, and the exchanges that fail. *)
LoadEmpty(p) ==
    /\ pc[p] = "loadEmpty" \/ (pc[p] = "pushEmpty" /\ empty # current[p])
    /\ PushOrPanic(p, empty, "pushEmpty")

(* Mutant: recv() keeps the slot. *)
SlotKept(n, s) == n

(* The slot is given back. *)
SlotReturned(n, s) == Enqueued(n, s)

(* The exchange succeeds and recv() returns the value. *)
PushEmpty(p) ==
    /\ pc[p] = "pushEmpty"
    /\ empty = current[p]
    /\ empty' = SlotReturned(empty, idx[p])
    /\ Finish(p)
    /\ UNCHANGED << full, storage >>

Recv(p) ==
    \/ RecvLoads(p) \/ PopFull(p) \/ Take(p) \/ LoadEmpty(p) \/ PushEmpty(p)

Next ==
    \/ \E p \in Senders : Send(p)
    \/ \E p \in Receivers : Recv(p)

Spec == Init /\ [][Next]_vars

-----------------------------------------------------------------------------
(* The type invariant of the channel. *)
TypeOK ==
    /\ empty \in Words /\ full \in Words
    /\ storage \in [SlotIds -> Values \cup {None}]
    /\ pc \in [Procs -> {"idle", "popEmpty", "fill", "loadFull", "pushFull",
                         "popFull", "take", "loadEmpty", "pushEmpty", "panic"}]
    /\ current \in [Procs -> Words]
    /\ idx \in [Procs -> 0 .. SLOTS]
    /\ val \in [Procs -> Values \cup {None}]

(* Each slot is in exactly one place: in one of the queues, once, or in    *)
(* the hands of one process.  So no two processes touch the storage of a   *)
(* slot at the same time (the unsafe accesses of send and recv), and no    *)
(* slot is ever lost.                                                      *)
Times(s, q) == Cardinality({i \in DOMAIN q : q[i] = s})

SlotsConserved ==
    \A s \in SlotIds :
        Times(s, Queue[empty]) + Times(s, Queue[full])
            + Cardinality({p \in Procs : idx[p] = s}) = 1

(* The two expect() of the code, in a signal handler in one case, do not   *)
(* fail.                                                                   *)
NoPanic == \A p \in Procs : pc[p] # "panic"

(* With fewer receivers than slots (the code is made for one), whenever a  *)
(* send would find no slot and drop its value, at its first look or after  *)
(* a failed exchange, another value is still to be received or is being    *)
(* taken ("the whole system will yield a signal", "there's only one        *)
(* reader", the module's header).                                          *)
Pending ==
    \/ Queue[full] # << >>
    \/ \E p \in Procs : pc[p] \in {"fill", "loadFull", "pushFull", "take"}

DropsOnlyIfPending == NoSlot => Pending

(* The channel is a first-in first-out queue of the values sent (the doc   *)
(* of Channel: "a MPMC queue which preserves order"), with a bounded       *)
(* number of slots.                                                        *)
Carried(n, slots) == [i \in DOMAIN Queue[n] |-> slots[Queue[n][i]]]
Sent == Carried(full, storage)

(* The value that goes with the slot of a process, if it has one. *)
Carrying(p) ==
    IF idx[p] = 0 THEN None
    ELSE IF pc[p] \in {"loadFull", "pushFull", "take"} THEN storage[idx[p]] ELSE val[p]
Hands(procs) == [p \in procs |-> Carrying(p)]

Fifo == INSTANCE LossyFifo WITH
            Capacity <- SLOTS, free <- Used(empty), sending <- Hands(Senders),
            queue <- Sent, got <- Hands(Receivers)

ImplementsFifo == Fifo!Spec

-----------------------------------------------------------------------------
(* The inductive invariant of ChannelProofs.tla. *)

(* A word holds different slots, in its first places. *)
In(n) == {Get(n, i) : i \in Places} \ {0}
Packed(n) ==
    /\ n \in Words
    /\ \A i \in Places : Get(n, i) \in 0 .. SLOTS
    /\ \A i, j \in Places : i < j /\ Get(n, i) = 0 => Get(n, j) = 0
    /\ \A i, j \in Places : Get(n, i) = Get(n, j) /\ Get(n, i) # 0 => i = j

(* Each slot is in one word or in the hands of one process. *)
Parted ==
    /\ In(empty) \cap In(full) = {}
    /\ \A p \in Procs : idx[p] \notin In(empty) \cup In(full)
    /\ \A p, q \in Procs : idx[p] = idx[q] /\ idx[p] # 0 => p = q
    /\ \A s \in SlotIds : s \in In(empty) \cup In(full) \/ \E p \in Procs : idx[p] = s

(* What a process holds, and what it has seen, is known from where it is.  *)
AtWork ==
    /\ \A p \in Senders : pc[p] \in {"idle", "popEmpty", "fill", "loadFull", "pushFull"}
    /\ \A p \in Receivers : pc[p] \in {"idle", "popFull", "take", "loadEmpty", "pushEmpty"}
    /\ \A p \in Procs :
          /\ idx[p] # 0 <=> pc[p] \notin {"idle", "popEmpty", "popFull"}
          /\ val[p] # None <=> pc[p] \in {"popEmpty", "fill", "loadEmpty", "pushEmpty"}
          /\ pc[p] \in {"popEmpty", "popFull"} => Front(current[p]) # 0
          /\ pc[p] \in {"pushFull", "pushEmpty"} => Vacant(current[p]) # {}

(* A slot has a value from its filling to its emptying. *)
Stored ==
    /\ \A s \in In(full) : storage[s] # None
    /\ \A p \in Procs : pc[p] \in {"loadFull", "pushFull", "take"} => storage[idx[p]] # None

IInv ==
    /\ TypeOK
    /\ Packed(empty) /\ Packed(full)
    /\ Parted
    /\ AtWork
    /\ Stored
=============================================================================
