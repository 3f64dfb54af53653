--------------------------- MODULE HalfLockProofs ---------------------------
(***************************************************************************)
(* The half-lock never lets a reader see freed hooks and implements the    *)
(* abstract cell, for any number of readers, writers and addresses.        *)
(***************************************************************************)
EXTENDS HalfLock, FiniteSetTheorems, TLAPS

(* Incrementing and decrementing stay within an usize. *)
LEMMA IncDecType ==
    ASSUME NEW n \in 0 .. W - 1
    PROVE  Inc(n) \in 0 .. W - 1 /\ Dec(n) \in 0 .. W - 1
  BY WAssumption DEF Inc, Dec

(* There are finitely many holders of a slot, fewer than W. *)
LEMMA HoldersFinite ==
    ASSUME NEW s \in Slots
    PROVE  /\ IsFiniteSet(Holders(s))
           /\ Cardinality(Holders(s)) \in 0 .. W - 1
  <1>1. Holders(s) \subseteq Readers
    BY DEF Holders
  <1>2. /\ IsFiniteSet(Holders(s))
        /\ Cardinality(Holders(s)) <= Cardinality(Readers)
    BY <1>1, ReadersAssumption, FS_Subset
  <1>3. Cardinality(Holders(s)) \in Nat /\ Cardinality(Readers) \in Nat
    BY <1>2, ReadersAssumption, FS_CardinalityType
  <1> QED
    BY <1>2, <1>3, FewReaders, WAssumption

(* A slot that a reader holds does not count zero. *)
LEMMA HeldSlotNotZero ==
    ASSUME CountersExact, NEW s \in Slots, NEW r \in Holders(s)
    PROVE  lock[s] # 0
  <1>1. Holders(s) # {}
    OBVIOUS
  <1>2. IsFiniteSet(Holders(s))
    BY HoldersFinite
  <1>3. Cardinality(Holders(s)) # 0
    BY <1>1, <1>2, FS_EmptySet
  <1> QED
    BY <1>3 DEF CountersExact

-----------------------------------------------------------------------------
(* The counters stay exact when nobody enters or leaves a slot, when a     *)
(* reader enters one and when it leaves.                                   *)
LEMMA CountersUnchanged ==
    ASSUME CountersExact, lock' = lock,
           \A s \in Slots : Holders(s)' = Holders(s)
    PROVE  CountersExact'
  BY DEF CountersExact

LEMMA CountersCount ==
    ASSUME TypeOK, CountersExact, NEW r \in Readers, Count(r)
    PROVE  CountersExact'
  <1>0. PICK c \in Slots : c = rslot[r]
    BY DEF TypeOK
  <1>1. r \notin Holders(c)
    BY DEF Count, Holders, Counted
  <1>2. Holders(c)' = Holders(c) \cup {r}
    BY <1>0 DEF TypeOK, Count, Holders, Counted, AfterCount
  <1>3. \A s \in Slots \ {c} : Holders(s)' = Holders(s)
    BY <1>0 DEF TypeOK, Count, Holders, Counted, AfterCount
  <1>4. IsFiniteSet(Holders(c)) /\ Cardinality(Holders(c)) \in 0 .. W - 1
    BY <1>1, HoldersFinite
  <1>5. Cardinality(Holders(c)') = Cardinality(Holders(c)) + 1
    BY <1>1, <1>2, <1>4, FS_AddElement
  <1>6. Cardinality(Holders(c)') \in 0 .. W - 1
    <2>1. Holders(c)' \subseteq Readers
      BY <1>2 DEF Holders
    <2>2. /\ IsFiniteSet(Holders(c)')
          /\ Cardinality(Holders(c)') <= Cardinality(Readers)
      BY <2>1, ReadersAssumption, FS_Subset
    <2>3. Cardinality(Holders(c)') \in Nat /\ Cardinality(Readers) \in Nat
      BY <2>2, ReadersAssumption, FS_CardinalityType
    <2> QED
      BY <2>2, <2>3, FewReaders, WAssumption
  <1>7. lock' = [lock EXCEPT ![c] = Inc(lock[c])] /\ lock[c] = Cardinality(Holders(c))
    BY <1>0 DEF Count, CountersExact
  <1>8. lock'[c] = Cardinality(Holders(c)')
    BY <1>1, <1>4, <1>5, <1>6, <1>7, WAssumption DEF TypeOK, Inc
  <1>9. \A s \in Slots \ {c} : lock'[s] = Cardinality(Holders(s)')
    BY <1>3, <1>7 DEF CountersExact, TypeOK
  <1> QED
    BY <1>1, <1>8, <1>9 DEF CountersExact

LEMMA CountersRelease ==
    ASSUME TypeOK, CountersExact, NEW r \in Readers, Release(r)
    PROVE  CountersExact'
  <1>0. PICK c \in Slots : c = rslot[r]
    BY DEF TypeOK
  <1>1. r \in Holders(c)
    BY <1>0 DEF Release, Holders, Counted
  <1>2. Holders(c)' = Holders(c) \ {r}
    BY <1>0 DEF TypeOK, Release, Holders, Counted
  <1>3. \A s \in Slots \ {c} : Holders(s)' = Holders(s)
    BY <1>0 DEF TypeOK, Release, Holders, Counted
  <1>4. IsFiniteSet(Holders(c)) /\ Cardinality(Holders(c)) \in 0 .. W - 1
    BY <1>1, HoldersFinite
  <1>5. Cardinality(Holders(c)') = Cardinality(Holders(c)) - 1
    BY <1>1, <1>2, <1>4, FS_RemoveElement
  <1>6. lock[c] # 0 /\ lock[c] = Cardinality(Holders(c))
    BY <1>1, HeldSlotNotZero DEF CountersExact
  <1>7. lock' = [lock EXCEPT ![c] = Dec(lock[c])]
    BY <1>0 DEF Release
  <1>8. lock'[c] = Cardinality(Holders(c)')
    BY <1>1, <1>4, <1>5, <1>6, <1>7 DEF TypeOK, Dec
  <1>9. \A s \in Slots \ {c} : lock'[s] = Cardinality(Holders(s)')
    BY <1>3, <1>7 DEF CountersExact, TypeOK
  <1> QED
    BY <1>1, <1>8, <1>9 DEF CountersExact

-----------------------------------------------------------------------------
LEMMA TypeInit == Init => TypeOK
  <1> SUFFICES ASSUME Init PROVE TypeOK
    OBVIOUS
  <1>1. 0 \in 0 .. W - 1
    BY WAssumption
  <1>2. seen \in [Slots -> BOOLEAN] /\ aborted \in BOOLEAN
    BY Zenon DEF Init
  <1> QED
    BY <1>1, <1>2 DEF Init, TypeOK, Slots, RPC, WPC

(* The values of the variables stay in their types: every atomic operation *)
(* of half_lock.rs, wrapping included.                                     *)
THEOREM TypeCorrect == Spec => []TypeOK
  <1>1. TypeOK /\ [Next]_vars => TypeOK'
    <2> SUFFICES ASSUME TypeOK, [Next]_vars PROVE TypeOK'
      OBVIOUS
    <2>1. ASSUME NEW r \in Readers, LoadGeneration(r) PROVE TypeOK'
      BY <2>1 DEF TypeOK, LoadGeneration, RPC, Slots, writerVars
    <2>2. ASSUME NEW r \in Readers, Count(r) PROVE TypeOK'
      <3>1. lock' \in [Slots -> 0 .. W - 1]
        BY <2>2, IncDecType DEF TypeOK, Count
      <3> QED
        BY <2>2, <3>1 DEF TypeOK, Count, AfterCount, RPC, writerVars
    <2>3. ASSUME NEW r \in Readers, Abort(r) PROVE TypeOK'
      BY <2>3 DEF TypeOK, Abort, writerVars, readerVars
    <2>4. ASSUME NEW r \in Readers, LoadData(r) PROVE TypeOK'
      BY <2>4 DEF TypeOK, LoadData, RPC, writerVars
    <2>5. ASSUME NEW r \in Readers, Release(r) PROVE TypeOK'
      <3>1. lock' \in [Slots -> 0 .. W - 1]
        BY <2>5, IncDecType DEF TypeOK, Release
      <3> QED
        BY <2>5, <3>1 DEF TypeOK, Release, RPC, writerVars
    <2>6. ASSUME NEW w \in Writers, Lock(w) PROVE TypeOK'
      BY <2>6 DEF TypeOK, Lock, WPC, readerVars
    <2>7. ASSUME LoadCurrent PROVE TypeOK'
      BY <2>7 DEF TypeOK, LoadCurrent, WPC, readerVars
    <2>8. ASSUME NEW new \in Addrs, Swap(new) PROVE TypeOK'
      BY <2>8 DEF TypeOK, Swap, SeenAtFirst, WPC, Slots, readerVars
    <2>9. ASSUME UpdateSeen PROVE TypeOK'
      <3>1. SeenAfterLoad \in [Slots -> BOOLEAN]
        BY DEF TypeOK, SeenAfterLoad
      <3>2. AfterUpdate(SeenAfterLoad) \in WPC
        BY DEF AfterUpdate, WPC
      <3> QED
        BY <2>9, <3>1, <3>2 DEF TypeOK, UpdateSeen, Slots, WPC, readerVars
    <2>10. ASSUME FlipGeneration PROVE TypeOK'
      <3>1. NextGeneration \in 0 .. W - 1
        BY IncDecType DEF NextGeneration, TypeOK
      <3> QED
        BY <2>10, <3>1 DEF TypeOK, FlipGeneration, WPC, readerVars
    <2>11. ASSUME Reclaim PROVE TypeOK'
      BY <2>11 DEF TypeOK, Reclaim, WPC, readerVars
    <2>12. ASSUME Unlock PROVE TypeOK'
      BY <2>12 DEF TypeOK, Unlock, WPC, readerVars
    <2>13. CASE UNCHANGED vars
      BY <2>13 DEF TypeOK, vars, readerVars, writerVars
    <2> QED
      BY <2>1, <2>2, <2>3, <2>4, <2>5, <2>6, <2>7, <2>8, <2>9, <2>10,
         <2>11, <2>12, <2>13 DEF Next, Reader, Writer
  <1> QED
    BY <1>1, TypeInit, PTL DEF Spec
-----------------------------------------------------------------------------
(* The steps of a reader keep the invariant; the allocator and the writer  *)
(* are untouched, so each step is about the counters and about the reader. *)
LEMMA ReaderStep ==
    ASSUME IInv, TypeOK', NEW r \in Readers, Reader(r)
    PROVE  IInv'
  <1> USE DEF IInv
  <1>1. MutexExact' /\ HeapExact' /\ (wpc = "reclaim" => AllSeen(seen))'
    BY DEF Reader, LoadGeneration, Count, Abort, LoadData, Release, writerVars,
           MutexExact, HeapExact, Storing, AllSeen
  <1>2. CASE LoadGeneration(r)
    <2>1. \A s \in Slots : Holders(s)' = Holders(s)
      BY <1>2 DEF TypeOK, LoadGeneration, Holders, Counted
    <2>2. CountersExact'
      BY <1>2, <2>1, CountersUnchanged DEF LoadGeneration
    <2>3. ReadersCovered'
      BY <1>2 DEF TypeOK, LoadGeneration, ReadersCovered, Storing, writerVars
    <2> QED
      BY <1>1, <2>2, <2>3
  <1>3. CASE Count(r)
    <2>1. CountersExact'
      BY <1>3, CountersCount
    <2>2. ReadersCovered'
      BY <1>3 DEF TypeOK, Count, AfterCount, ReadersCovered, Storing, writerVars
    <2> QED
      BY <1>1, <2>1, <2>2
  <1>4. CASE Abort(r)
    <2>1. \A s \in Slots : Holders(s)' = Holders(s)
      BY <1>4 DEF Abort, Holders, Counted, readerVars
    <2>2. CountersExact'
      BY <1>4, <2>1, CountersUnchanged DEF Abort
    <2>3. ReadersCovered'
      BY <1>4 DEF Abort, ReadersCovered, Storing, readerVars, writerVars
    <2> QED
      BY <1>1, <2>2, <2>3
  <1>5. CASE LoadData(r)
    <2>1. \A s \in Slots : Holders(s)' = Holders(s)
      BY <1>5 DEF TypeOK, LoadData, Holders, Counted
    <2>2. CountersExact'
      BY <1>5, <2>1, CountersUnchanged DEF LoadData
    <2>3. ReadersCovered'
      BY <1>5 DEF TypeOK, LoadData, ReadersCovered, Storing, writerVars
    <2> QED
      BY <1>1, <2>2, <2>3
  <1>6. CASE Release(r)
    <2>1. CountersExact'
      BY <1>6, CountersRelease
    <2>2. ReadersCovered'
      BY <1>6 DEF TypeOK, Release, ReadersCovered, Storing, writerVars
    <2> QED
      BY <1>1, <2>1, <2>2
  <1> QED
    BY <1>2, <1>3, <1>4, <1>5, <1>6 DEF Reader

(* A load of update_seen() that finds a counter at zero proves that no     *)
(* reader of the replaced value is counted there.                          *)
LEMMA UpdateSeenCovers ==
    ASSUME IInv, UpdateSeen
    PROVE  ReadersCovered'
  <1>0. Storing /\ Storing'
    BY DEF UpdateSeen, Storing, AfterUpdate
  <1> SUFFICES ASSUME NEW r \in Readers, rpc[r] = "reading",
                      rdata[r] # data
               PROVE  rdata[r] = old /\ ~seen'[rslot[r]]
    BY <1>0 DEF ReadersCovered, UpdateSeen, readerVars, IInv
  <1>1. Storing /\ rdata[r] = old /\ ~seen[rslot[r]]
    BY DEF IInv, ReadersCovered
  <1>2. rslot[r] \in Slots /\ r \in Holders(rslot[r])
    BY DEF IInv, TypeOK, Holders, Counted
  <1>3. lock[rslot[r]] # 0
    BY <1>2, HeldSlotNotZero DEF IInv
  <1>4. ~SeenAfterLoad[rslot[r]]
    BY <1>1, <1>2, <1>3 DEF SeenAfterLoad, IInv, TypeOK
  <1> QED
    BY <1>1, <1>4 DEF UpdateSeen

(* The steps of a writer keep the invariant. *)
LEMMA WriterStep ==
    ASSUME IInv, TypeOK', Writer \/ \E w \in Writers : Lock(w)
    PROVE  IInv'
  <1>1. CountersExact'
    <2>1. lock' = lock /\ \A s \in Slots : Holders(s)' = Holders(s)
      BY DEF Writer, Lock, LoadCurrent, Swap, UpdateSeen, FlipGeneration,
             Reclaim, Unlock, Holders, Counted, readerVars
    <2> QED
      BY <2>1, CountersUnchanged DEF IInv
  <1> USE DEF IInv
  <1>2. ASSUME NEW w \in Writers, Lock(w) PROVE IInv'
    BY <1>1, <1>2, WritersAssumption DEF Lock, MutexExact, HeapExact,
       ReadersCovered, Storing, AllSeen, readerVars
  <1>3. CASE LoadCurrent
    BY <1>1, <1>3 DEF LoadCurrent, MutexExact, HeapExact,
       ReadersCovered, Storing, AllSeen, readerVars
  <1>4. ASSUME NEW new \in Addrs, Swap(new) PROVE IInv'
    <2>1. MutexExact'
      BY <1>4 DEF Swap, MutexExact
    <2>2. HeapExact'
      BY <1>4 DEF TypeOK, Swap, SeenAtFirst, HeapExact, Storing
    <2>3. ReadersCovered'
      BY <1>4 DEF TypeOK, Swap, SeenAtFirst, ReadersCovered, Storing, readerVars
    <2> QED
      BY <1>1, <1>4, <2>1, <2>2, <2>3 DEF Swap
  <1>5. CASE UpdateSeen
    <2>1. MutexExact' /\ HeapExact'
      BY <1>5 DEF UpdateSeen, AfterUpdate, MutexExact, HeapExact, Storing
    <2>2. ReadersCovered'
      BY <1>5, UpdateSeenCovers
    <2>3. wpc' = "reclaim" => AllSeen(seen')
      BY <1>5 DEF UpdateSeen, AfterUpdate
    <2> QED
      BY <1>1, <2>1, <2>2, <2>3 DEF AllSeen
  <1>6. CASE FlipGeneration
    BY <1>1, <1>6 DEF FlipGeneration, MutexExact, HeapExact, ReadersCovered,
       Storing, AllSeen, readerVars
  <1>7. CASE Reclaim
    <2>1. \A r \in Readers : rpc[r] = "reading" => rdata[r] = data
      BY <1>7 DEF Reclaim, ReadersCovered, TypeOK, AllSeen
    <2> QED
      BY <1>1, <1>7, <2>1 DEF Reclaim, MutexExact, HeapExact, ReadersCovered,
         Storing, AllSeen, readerVars
  <1>8. CASE Unlock
    BY <1>1, <1>8 DEF Unlock, MutexExact, HeapExact, ReadersCovered,
       Storing, AllSeen, readerVars
  <1> QED
    BY <1>2, <1>3, <1>4, <1>5, <1>6, <1>7, <1>8 DEF Writer

LEMMA InitIInv == Init => IInv
  <1> SUFFICES ASSUME Init, TypeOK PROVE IInv
    BY TypeInit
  <1>1. CountersExact
    <2>1. \A s \in Slots : Holders(s) = {}
      BY DEF Init, Holders, Counted
    <2> QED
      BY <2>1, FS_EmptySet DEF Init, CountersExact
  <1> QED
    BY <1>1 DEF Init, IInv, MutexExact, HeapExact, ReadersCovered, Storing

(* The counters are exact, at most two values are allocated, and a reader  *)
(* of the one being replaced holds back a counter the writer still waits   *)
(* for.                                                                    *)
THEOREM Inductive == Spec => []IInv
  <1>1. IInv /\ TypeOK' /\ [Next]_vars => IInv'
    <2>1. ASSUME IInv, UNCHANGED vars PROVE IInv'
      BY <2>1 DEF IInv, TypeOK, CountersExact, MutexExact, HeapExact,
         ReadersCovered, Storing, Holders, Counted, AllSeen, vars,
         readerVars, writerVars
    <2> QED
      BY <2>1, ReaderStep, WriterStep DEF Next
  <1> QED
    BY <1>1, InitIInv, TypeCorrect, PTL DEF Spec

(* No handler and no writer dereferences freed hooks, for any number of    *)
(* handlers, threads and stores.                                           *)
THEOREM Safe == Spec => []NoUseAfterFree
  <1>1. IInv => NoUseAfterFree
    BY DEF IInv, HeapExact, ReadersCovered, NoUseAfterFree, Storing
  <1> QED
    BY <1>1, Inductive, PTL

-----------------------------------------------------------------------------
(* Each step of the half-lock is a step of the cell or leaves it alone.    *)
LEMMA StepImplements ==
    ASSUME IInv, [Next]_vars
    PROVE  [Cell!Next]_(Cell!vars)
  <1> USE DEF IInv
  <1> DEFINE retired == IF Storing THEN {old} ELSE {}
  <1>1. ASSUME NEW r \in Readers, LoadGeneration(r) \/ Count(r) \/ Abort(r)
        PROVE  UNCHANGED Cell!vars
    BY <1>1 DEF LoadGeneration, Count, Abort, Cell!vars, Storing,
       readerVars, writerVars
  <1>2. ASSUME NEW r \in Readers, LoadData(r) PROVE Cell!Read(r)
    BY <1>2 DEF LoadData, ReadersCovered, Cell!Read, Storing, writerVars
  <1>3. ASSUME NEW r \in Readers, Release(r) PROVE Cell!Release(r)
    <2>1. rdata[r] # NoAddr
      BY <1>3, AddrsAssumption DEF Release, ReadersCovered, HeapExact, TypeOK
    <2> QED
      BY <1>3, <2>1 DEF Release, Cell!Release, Storing, writerVars
  <1>4. ASSUME \/ \E w \in Writers : Lock(w)
               \/ LoadCurrent \/ UpdateSeen \/ FlipGeneration \/ Unlock
        PROVE  UNCHANGED Cell!vars
    BY <1>4 DEF Lock, LoadCurrent, UpdateSeen, AfterUpdate, FlipGeneration,
       Unlock, Cell!vars, Storing, readerVars, MutexExact
  <1>5. ASSUME NEW new \in Addrs, Swap(new) PROVE Cell!Publish(new)
    BY <1>5 DEF Swap, Cell!Publish, Storing, HeapExact, readerVars
  <1>6. CASE Reclaim
    <2>1. \A r \in Readers : rdata[r] # old
      BY <1>6, AddrsAssumption DEF Reclaim, ReadersCovered, HeapExact,
         Storing, AllSeen, TypeOK
    <2> QED
      BY <1>6, <2>1 DEF Reclaim, Cell!Next, Cell!Reclaim, Storing, readerVars
  <1>7. CASE UNCHANGED vars
    BY <1>7 DEF vars, readerVars, writerVars, Cell!vars, Storing
  <1> QED
    BY <1>1, <1>2, <1>3, <1>4, <1>5, <1>6, <1>7
    DEF Next, Reader, Writer, Cell!Next

(* The half-lock implements the abstract cell: in particular store() frees *)
(* the value it replaced only when no handler holds it.                    *)
THEOREM Implements == Spec => ImplementsCell
  <1>1. Init => Cell!Init
    BY DEF Init, Cell!Init, Storing
  <1>2. IInv /\ [Next]_vars => [Cell!Next]_(Cell!vars)
    BY StepImplements
  <1> QED
    BY <1>1, <1>2, Inductive, PTL DEF Spec, Cell!Spec, ImplementsCell

-----------------------------------------------------------------------------
LEMMA GuardsFinite ==
    ASSUME NEW s \in Slots
    PROVE  /\ IsFiniteSet(Guards(s))
           /\ Cardinality(Guards(s)) \in Nat
           /\ Cardinality(Guards(s)) <= Cardinality(Holders(s))
  <1>1. Guards(s) \subseteq Holders(s)
    BY DEF Guards, Holders, Counted
  <1>2. IsFiniteSet(Holders(s))
    BY HoldersFinite
  <1> QED
    BY <1>1, <1>2, FS_Subset, FS_CardinalityType

(* A guard is handed out only when at most isize::MAX were counted.        *)
LEMMA CountKeepsBound ==
    ASSUME IInv, GuardsBounded, NEW r \in Readers, Count(r)
    PROVE  GuardsBounded'
  <1> SUFFICES ASSUME NEW s \in Slots
               PROVE  Cardinality(Guards(s)') <= MAX_GUARDS + 1
    BY DEF GuardsBounded, MAX_GUARDS
  <1>1. MAX_GUARDS \in Int
    BY WAssumption DEF MAX_GUARDS
  <1>2. CASE s = rslot[r] /\ lock[s] <= MAX_GUARDS
    <2>1. Guards(s)' = Guards(s) \cup {r} /\ r \notin Guards(s)
      BY <1>1, <1>2 DEF Count, AfterCount, Guards, IInv, TypeOK
    <2>2. Cardinality(Guards(s)') = Cardinality(Guards(s)) + 1
      BY <2>1, GuardsFinite, FS_AddElement
    <2>3. Cardinality(Guards(s)) <= MAX_GUARDS
      BY <1>1, <1>2, GuardsFinite, HoldersFinite DEF IInv, CountersExact
    <2> QED
      BY <1>1, <2>2, <2>3, GuardsFinite
  <1>3. CASE ~(s = rslot[r] /\ lock[s] <= MAX_GUARDS)
    <2>1. Guards(s)' = Guards(s)
      BY <1>1, <1>3 DEF Count, AfterCount, Guards, IInv, TypeOK
    <2> QED
      BY <2>1 DEF GuardsBounded
  <1> QED
    BY <1>2, <1>3

(* At most isize::MAX + 1 guards are out in a slot, so half of the range   *)
(* of the counter is left for the handlers that are about to abort.        *)
THEOREM Bounded == Spec => []GuardsBounded
  <1>1. Init => GuardsBounded
    <2> SUFFICES ASSUME Init, NEW s \in Slots
                 PROVE  Cardinality(Guards(s)) <= MAX_GUARDS + 1
      BY DEF GuardsBounded
    <2>1. Guards(s) = {}
      BY DEF Init, Guards
    <2>2. Cardinality(Guards(s)) = 0
      BY <2>1, FS_EmptySet
    <2> QED
      BY <2>2, WAssumption DEF MAX_GUARDS
  <1>2. IInv /\ GuardsBounded /\ [Next]_vars => GuardsBounded'
    <2> SUFFICES ASSUME IInv, GuardsBounded, [Next]_vars PROVE GuardsBounded'
      OBVIOUS
    <2>1. ASSUME NEW r \in Readers, Count(r) PROVE GuardsBounded'
      BY <2>1, CountKeepsBound
    <2>2. ASSUME NEW r \in Readers, Release(r) PROVE GuardsBounded'
      <3> SUFFICES ASSUME NEW s \in Slots
                   PROVE  Cardinality(Guards(s)') <= MAX_GUARDS + 1
        BY DEF GuardsBounded, MAX_GUARDS
      <3>1. Guards(s)' = Guards(s) \ {r}
        BY <2>2 DEF Release, Guards, IInv, TypeOK
      <3>2. Cardinality(Guards(s)') <= Cardinality(Guards(s))
        BY <3>1, GuardsFinite, FS_Subset
      <3>3. Cardinality(Guards(s)') \in Nat
        BY <3>1, GuardsFinite, FS_Subset, FS_CardinalityType
      <3> QED
        BY <3>2, <3>3, GuardsFinite, WAssumption DEF GuardsBounded, MAX_GUARDS
    <2>3. ASSUME \A s \in Slots : Guards(s)' = Guards(s) PROVE GuardsBounded'
      BY <2>3 DEF GuardsBounded, MAX_GUARDS
    <2>4. ASSUME NEW r \in Readers, LoadGeneration(r) \/ Abort(r) \/ LoadData(r)
          PROVE  GuardsBounded'
      BY <2>3, <2>4 DEF LoadGeneration, Abort, LoadData, Guards, readerVars,
         IInv, TypeOK
    <2>5. ASSUME Writer \/ (\E w \in Writers : Lock(w)) \/ UNCHANGED vars
          PROVE  GuardsBounded'
      BY <2>3, <2>5 DEF Writer, Lock, LoadCurrent, Swap, UpdateSeen,
         FlipGeneration, Reclaim, Unlock, Guards, readerVars, vars
    <2> QED
      BY <2>1, <2>2, <2>4, <2>5 DEF Next, Reader
  <1> QED
    BY <1>1, <1>2, Inductive, PTL DEF Spec
=============================================================================
