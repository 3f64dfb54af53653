--------------------------- MODULE RegistryProofs ---------------------------
(***************************************************************************)
(* Whatever is registered, unregistered and delivered, in any order and    *)
(* with any failures: a removed hook is quiet, the program's own handler   *)
(* is called, a signal stays hooked, and the registry implements the       *)
(* dispatch of Dispatch.tla.  For any signals, hooks, deliveries and       *)
(* addresses, on unix and on Windows.                                      *)
(*                                                                         *)
(* First what the operations do to a list and to a copy of the hooks, then *)
(* the invariant, a lemma per step, then the theorems.                     *)
(***************************************************************************)
EXTENDS Registry, FiniteSetTheorems, SequenceTheorems, TLAPS

(* A SignalData without slots. *)
LEMMA EmptyIs ==
    /\ EmptyData \in SignalData
    /\ \A s \in Signals : EmptyData.signals[s] = Null /\ ActionsOf(EmptyData, s) = << >>
    /\ OnePlace(EmptyData) /\ IdsBelow(EmptyData)
    /\ \A ids : HasNone(EmptyData, ids)
<1>1. EmptyData \in SignalData
  BY MaxIdAssumption DEF EmptyData, SignalData
<1>2. \A s \in Signals : EmptyData.signals[s] = Null /\ ActionsOf(EmptyData, s) = << >>
  BY DEF EmptyData, ActionsOf
<1>3. \A s \in Signals : Elems(ActionsOf(EmptyData, s)) = {}
  BY <1>2 DEF Elems
<1>4. OnePlace(EmptyData)
  BY <1>2 DEF OnePlace
<1> QED
  BY <1>1, <1>2, <1>3, <1>4 DEF IdsBelow, HasNone

(* The actions of a slot are a sequence of ids. *)
LEMMA ActionsType ==
    ASSUME NEW sigdata \in SignalData, NEW s \in Signals
    PROVE  ActionsOf(sigdata, s) \in Seq(Ids)
<1>1. sigdata.signals[s] \in Slot \cup {Null}
  BY DEF SignalData
<1> QED
  BY <1>1 DEF ActionsOf, Slot

(* find() of an id that is there. *)
LEMMA FindIs ==
    ASSUME NEW a \in Seq(Ids), NEW id \in Elems(a)
    PROVE  Find(a, id) \in 1 .. Len(a) /\ a[Find(a, id)] = id
<1>1. \E i \in DOMAIN a : a[i] = id
  BY DEF Elems
<1> QED
  BY <1>1 DEF Find

(* The Cardinality of the abstract module is that of the library. *)
LEMMA SameCardinality ==
    ASSUME NEW S
    PROVE  Dispatcher!Cardinality(S) = Cardinality(S)
BY Zenon DEF Dispatcher!Cardinality, Cardinality

(* Removing an id the list has once. *)
LEMMA WithoutIs ==
    ASSUME NEW a \in Seq(Ids), NEW id \in Elems(a),
           \A i, j \in DOMAIN a : a[i] = a[j] => i = j
    PROVE  /\ Without(a, id) \in Seq(Ids)
           /\ Elems(Without(a, id)) \subseteq Elems(a) \ {id}
           /\ Without(a, id) = Dispatcher!Without(a, {id})
           /\ \A i, j \in DOMAIN Without(a, id) : Without(a, id)[i] = Without(a, id)[j] => i = j
<1> DEFINE f == Find(a, id)
           b == Without(a, id)
           place(n) == IF n < f THEN n ELSE n + 1
           P == Dispatcher!Places(a, {id})
<1>1. f \in 1 .. Len(a) /\ a[f] = id
  BY FindIs
<1>2. b = [n \in 1 .. Len(a) - 1 |-> IF n < f THEN a[n] ELSE a[n + 1]]
  BY DEF Without
<1>3. Len(a) \in Nat /\ DOMAIN a = 1 .. Len(a) /\ \A i \in 1 .. Len(a) : a[i] \in Ids
  OBVIOUS
<1>4. P = 1 .. Len(a) \ {f}
  BY <1>1, <1>3 DEF Dispatcher!Places
<1> HIDE DEF f, b, P
<1>5. \A n \in 1 .. Len(a) - 1 : place(n) \in P /\ b[n] = a[place(n)]
  BY <1>1, <1>2, <1>3, <1>4
<1>6. b \in Seq(Ids) /\ DOMAIN b = 1 .. Len(a) - 1
  <2>1. DOMAIN b = 1 .. Len(a) - 1 /\ Len(a) - 1 \in Nat
    BY <1>1, <1>2, <1>3
  <2>2. b \in [1 .. Len(a) - 1 -> Ids]
    BY <1>1, <1>2, <1>3
  <2> QED
    BY <2>1, <2>2
<1>7. Elems(b) \subseteq Elems(a) \ {id}
  <2>1. \A n \in DOMAIN b : b[n] \in Elems(a) /\ b[n] # id
    BY <1>1, <1>3, <1>4, <1>5, <1>6 DEF Elems
  <2> QED
    BY <2>1 DEF Elems
<1>8. \A i, j \in DOMAIN b : b[i] = b[j] => i = j
  <2>1. \A i, j \in 1 .. Len(a) - 1 : place(i) = place(j) => i = j
    BY <1>1
  <2> QED
    BY <1>3, <1>4, <1>5, <1>6, <2>1
<1>9. b = Dispatcher!Without(a, {id})
  <2> DEFINE upto(i) == {j \in P : j <= i}
             count(i) == Dispatcher!Cardinality(upto(i))
  <2>0. \A i \in 1 .. Len(a) :
            IsFiniteSet(1 .. i) /\ Cardinality(1 .. i) = i
    <3>1. TAKE i \in 1 .. Len(a)
    <3> QED
      BY <1>3, 1 \in Int, i \in Int, 1 <= i, FS_Interval
  <2>1. \A i \in P : count(i) = IF i < f THEN i ELSE i - 1
    <3>1. TAKE i \in P
    <3>2. CASE i < f
      <4>1. upto(i) = 1 .. i
        BY <1>1, <1>3, <1>4, <3>2
      <4>2. count(i) = Cardinality(1 .. i)
        BY <4>1, SameCardinality
      <4> HIDE DEF count
      <4> QED
        BY <1>1, <1>4, <3>2, <4>2, <2>0
    <3>3. CASE i > f
      <4>1. upto(i) = (1 .. i) \ {f}
        BY <1>1, <1>3, <1>4, <3>3
      <4>2. count(i) = Cardinality((1 .. i) \ {f})
        BY <4>1, SameCardinality
      <4> HIDE DEF count
      <4>3. f \in 1 .. i /\ i \in 1 .. Len(a)
        BY <1>1, <1>4, <3>3
      <4>4. Cardinality((1 .. i) \ {f}) = Cardinality(1 .. i) - 1
        BY <2>0, <4>3, FS_RemoveElement
      <4> QED
        BY <2>0, <4>2, <4>3, <4>4, <3>3
    <3> QED
      BY <1>1, <1>4, <3>2, <3>3
  <2>2. Dispatcher!Cardinality(P) = Len(a) - 1
    <3>1. Dispatcher!Cardinality(P) = Cardinality((1 .. Len(a)) \ {f})
      BY <1>4, SameCardinality
    <3>2. IsFiniteSet(1 .. Len(a)) /\ Cardinality(1 .. Len(a)) = Len(a)
      BY <1>1, <1>3, <2>0
    <3> QED
      BY <1>1, <3>1, <3>2, FS_RemoveElement
  <2>3. \A n \in 1 .. Len(a) - 1 : Dispatcher!Place(a, {id}, n) = place(n)
    <3>1. TAKE n \in 1 .. Len(a) - 1
    <3>4. Dispatcher!Place(a, {id}, n) = CHOOSE i \in P : count(i) = n
      BY DEF Dispatcher!Place, P
    <3> HIDE DEF count
    <3>2. place(n) \in P /\ count(place(n)) = n
      BY <1>1, <1>3, <1>5, <2>1
    <3>3. \A i \in P : count(i) = n => i = place(n)
      BY <1>1, <1>3, <1>4, <2>1
    <3> HIDE DEF place
    <3> QED
      BY <3>2, <3>3, <3>4
  <2>4. Dispatcher!Without(a, {id})
           = [n \in 1 .. Dispatcher!Cardinality(P) |-> a[Dispatcher!Place(a, {id}, n)]]
    BY DEF Dispatcher!Without, P
  <2> QED
    BY <1>2, <1>5, <1>6, <2>2, <2>3, <2>4
<1> QED
  BY <1>6, <1>7, <1>8, <1>9 DEF b

(* Removing all. *)
LEMMA ClearIs ==
    ASSUME NEW a \in Seq(Ids)
    PROVE  << >> = Dispatcher!Without(a, Elems(a))
<1>1. Dispatcher!Places(a, Elems(a)) = {}
  BY DEF Dispatcher!Places, Elems
<1>2. Dispatcher!Cardinality({}) = 0
  BY FS_EmptySet, SameCardinality
<1> QED
  BY <1>1, <1>2 DEF Dispatcher!Without

(* The copy differs from sigdata in the slot s only. *)
SlotIs(sigdata, copy, s, slot) ==
    /\ copy \in SignalData
    /\ copy.next_id = sigdata.next_id
    /\ copy.signals[s] # Null
    /\ copy.signals[s].prev = slot.prev
    /\ ActionsOf(copy, s) = slot.actions
    /\ \A t \in Signals \ {s} : copy.signals[t] = sigdata.signals[t]
    /\ \A t \in Signals \ {s} : ActionsOf(copy, t) = ActionsOf(sigdata, t)

(* A new slot. *)
LEMMA SlotWith ==
    ASSUME NEW sigdata \in SignalData, NEW s \in Signals, NEW slot \in Slot
    PROVE  SlotIs(sigdata, WithSlot(sigdata, s, slot), s, slot)
<1> DEFINE copy == WithSlot(sigdata, s, slot)
<1>1. sigdata.signals \in [Signals -> Slot \cup {Null}]
  BY DEF SignalData
<1>2. copy = [sigdata EXCEPT !.signals = [sigdata.signals EXCEPT ![s] = slot]]
  BY <1>1 DEF SignalData, WithSlot
<1>3. slot # Null
  BY NullAssumption
<1>4. /\ copy \in SignalData /\ copy.next_id = sigdata.next_id
      /\ copy.signals = [sigdata.signals EXCEPT ![s] = slot]
  BY <1>1, <1>2 DEF SignalData
<1> HIDE DEF copy
<1>5. SlotIs(sigdata, copy, s, slot)
  BY <1>1, <1>3, <1>4 DEF SlotIs, ActionsOf
<1> QED
  BY <1>5 DEF copy

(* The slot of sigdata with other actions. *)
SlotWithActions(sigdata, s, actions) ==
    [prev |-> sigdata.signals[s].prev, actions |-> actions]

(* Other actions in a slot are another slot. *)
LEMMA ActionsWith ==
    ASSUME NEW sigdata \in SignalData, NEW s \in Signals, sigdata.signals[s] # Null,
           NEW actions \in Seq(Ids)
    PROVE  /\ SlotWithActions(sigdata, s, actions) \in Slot
           /\ [sigdata EXCEPT !.signals[s].actions = actions]
                 = WithSlot(sigdata, s, SlotWithActions(sigdata, s, actions))
<1> DEFINE slot == SlotWithActions(sigdata, s, actions)
<1>1. sigdata.signals \in [Signals -> Slot \cup {Null}] /\ sigdata.signals[s] \in Slot
  BY DEF SignalData
<1>2. slot \in Slot /\ slot = [sigdata.signals[s] EXCEPT !.actions = actions]
  BY <1>1 DEF Slot, SlotWithActions
<1> QED
  BY <1>2 DEF WithSlot

(* What the copies of the calls are. *)
LEMMA TakeIdIs ==
    ASSUME NEW sigdata \in SignalData, sigdata.next_id <= MaxId
    PROVE  /\ TakeId(sigdata) \in SignalData
           /\ TakeId(sigdata).next_id = sigdata.next_id + 1
           /\ TakeId(sigdata).signals = sigdata.signals
           /\ \A s \in Signals : ActionsOf(TakeId(sigdata), s) = ActionsOf(sigdata, s)
           /\ sigdata.next_id \in Ids
BY MaxIdAssumption DEF TakeId, SignalData, ActionsOf, Ids

LEMMA WithActionIs ==
    ASSUME NEW sigdata \in SignalData, NEW s \in Signals, sigdata.signals[s] # Null, NEW id \in Ids
    PROVE  SlotIs(sigdata, WithAction(sigdata, s, id), s,
                  SlotWithActions(sigdata, s, Append(ActionsOf(sigdata, s), id)))
<1>1. Append(ActionsOf(sigdata, s), id) \in Seq(Ids)
  BY ActionsType
<1>2. WithAction(sigdata, s, id)
         = [sigdata EXCEPT !.signals[s].actions = Append(ActionsOf(sigdata, s), id)]
  BY DEF WithAction, ActionsOf, Insert
<1>3. /\ SlotWithActions(sigdata, s, Append(ActionsOf(sigdata, s), id)) \in Slot
      /\ WithAction(sigdata, s, id) = WithSlot(sigdata, s,
            SlotWithActions(sigdata, s, Append(ActionsOf(sigdata, s), id)))
  BY <1>1, <1>2, ActionsWith
<1> QED
  BY <1>3, SlotWith

LEMMA WithoutActionIs ==
    ASSUME NEW sigdata \in SignalData, NEW s \in Signals, sigdata.signals[s] # Null,
           NEW id, Without(ActionsOf(sigdata, s), id) \in Seq(Ids)
    PROVE  SlotIs(sigdata, WithoutAction(sigdata, s, id), s,
                  SlotWithActions(sigdata, s, Without(ActionsOf(sigdata, s), id)))
<1>1. WithoutAction(sigdata, s, id)
         = [sigdata EXCEPT !.signals[s].actions = Without(ActionsOf(sigdata, s), id)]
  BY DEF WithoutAction, ActionsOf
<1>3. /\ SlotWithActions(sigdata, s, Without(ActionsOf(sigdata, s), id)) \in Slot
      /\ WithoutAction(sigdata, s, id) = WithSlot(sigdata, s,
            SlotWithActions(sigdata, s, Without(ActionsOf(sigdata, s), id)))
  BY <1>1, ActionsWith
<1> QED
  BY <1>3, SlotWith

LEMMA ClearedIs ==
    ASSUME NEW sigdata \in SignalData, NEW s \in Signals, sigdata.signals[s] # Null
    PROVE  SlotIs(sigdata, Cleared(sigdata, s), s, SlotWithActions(sigdata, s, << >>))
<1>1. Cleared(sigdata, s) = [sigdata EXCEPT !.signals[s].actions = << >>]
  BY DEF Cleared
<1>2. << >> \in Seq(Ids)
  OBVIOUS
<1>3. /\ SlotWithActions(sigdata, s, << >>) \in Slot
      /\ Cleared(sigdata, s) = WithSlot(sigdata, s,
            SlotWithActions(sigdata, s, << >>))
  BY <1>1, <1>2, ActionsWith
<1> QED
  BY <1>3, SlotWith

(* Lists that only differ in one slot. *)
OthersSame(sigdata, copy, s) ==
    \A t \in Signals \ {s} : ActionsOf(copy, t) = ActionsOf(sigdata, t)

(* The next id goes last. *)
LEMMA GrowKeeps ==
    ASSUME NEW sigdata \in SignalData, NEW copy \in SignalData, NEW s \in Signals,
           OthersSame(sigdata, copy, s),
           ActionsOf(copy, s) = Append(ActionsOf(sigdata, s), sigdata.next_id),
           copy.next_id = sigdata.next_id + 1,
           OnePlace(sigdata), IdsBelow(sigdata)
    PROVE  /\ OnePlace(copy) /\ IdsBelow(copy)
           /\ \A ids : HasNone(sigdata, ids) /\ sigdata.next_id \notin ids => HasNone(copy, ids)
<1> DEFINE old(t) == ActionsOf(sigdata, t)
           now(t) == ActionsOf(copy, t)
           id == sigdata.next_id
<1>1. \A t \in Signals : old(t) \in Seq(Ids) /\ now(t) \in Seq(Ids)
  BY ActionsType
<1>2. id \in Nat /\ \A t \in Signals : \A i \in DOMAIN old(t) : old(t)[i] \in Nat /\ old(t)[i] < id
  <2>1. id \in Nat
    BY MaxIdAssumption DEF SignalData
  <2>2. \A t \in Signals : \A i \in DOMAIN old(t) : old(t)[i] \in Ids /\ old(t)[i] \in Elems(old(t))
    BY <1>1 DEF Elems
  <2>3. Ids \subseteq Nat
    BY MaxIdAssumption DEF Ids
  <2> QED
    BY <2>1, <2>2, <2>3 DEF IdsBelow
<1>3. \A t \in Signals : \A j \in DOMAIN now(t) :
         \/ t = s /\ j = Len(old(s)) + 1 /\ now(t)[j] = id
         \/ j \in DOMAIN old(t) /\ now(t)[j] = old(t)[j]
  BY <1>1 DEF OthersSame
<1>4. \A t, u \in Signals : \A i \in DOMAIN old(t), j \in DOMAIN old(u) :
         old(t)[i] = old(u)[j] => t = u /\ i = j
  BY DEF OnePlace
<1>5. copy.next_id = id + 1
  OBVIOUS
<1>6. \A ids : HasNone(sigdata, ids) =>
         \A t \in Signals : \A i \in DOMAIN old(t) : old(t)[i] \notin ids
  BY DEF HasNone, Elems
<1> HIDE DEF old, now, id
<1>7. \A t, u \in Signals : \A i \in DOMAIN now(t), j \in DOMAIN now(u) :
         now(t)[i] = now(u)[j] => t = u /\ i = j
  BY <1>2, <1>3, <1>4
<1>8. \A t \in Signals : \A i \in DOMAIN now(t) : now(t)[i] < copy.next_id
  BY <1>2, <1>3, <1>5
<1>9. \A ids : HasNone(sigdata, ids) /\ id \notin ids =>
         \A t \in Signals : \A i \in DOMAIN now(t) : now(t)[i] \notin ids
  BY <1>3, <1>6
<1>10. OnePlace(copy)
  BY <1>7 DEF OnePlace, now
<1>11. IdsBelow(copy)
  BY <1>8 DEF IdsBelow, now, Elems
<1>12. \A ids : HasNone(sigdata, ids) /\ id \notin ids => HasNone(copy, ids)
  BY <1>9 DEF HasNone, now, Elems
<1> QED
  BY <1>10, <1>11, <1>12 DEF id

(* A list loses some of its ids. *)
LEMMA ShrinkKeeps ==
    ASSUME NEW sigdata \in SignalData, NEW copy \in SignalData, NEW s \in Signals,
           OthersSame(sigdata, copy, s),
           Elems(ActionsOf(copy, s)) \subseteq Elems(ActionsOf(sigdata, s)),
           \A i, j \in DOMAIN ActionsOf(copy, s) :
               ActionsOf(copy, s)[i] = ActionsOf(copy, s)[j] => i = j,
           copy.next_id = sigdata.next_id,
           OnePlace(sigdata), IdsBelow(sigdata)
    PROVE  /\ OnePlace(copy) /\ IdsBelow(copy)
           /\ \A ids : HasNone(sigdata, ids) => HasNone(copy, ids)
           /\ \A ids \in SUBSET Elems(ActionsOf(sigdata, s)) :
                Elems(ActionsOf(copy, s)) \cap ids = {} => HasNone(copy, ids)
<1> DEFINE old(t) == ActionsOf(sigdata, t)
           now(t) == ActionsOf(copy, t)
<1>1. \A t \in Signals : Elems(now(t)) \subseteq Elems(old(t))
  BY DEF OthersSame
<1>2. \A t, u \in Signals : t # u => Elems(old(t)) \cap Elems(old(u)) = {}
  BY DEF OnePlace, Elems
<1>3. OnePlace(copy)
  <2>1. SUFFICES ASSUME NEW t \in Signals, NEW u \in Signals,
                        NEW i \in DOMAIN now(t), NEW j \in DOMAIN now(u), now(t)[i] = now(u)[j]
                 PROVE  t = u /\ i = j
    BY DEF OnePlace
  <2>2. now(t)[i] \in Elems(now(t)) /\ now(u)[j] \in Elems(now(u))
    BY DEF Elems
  <2>3. t = u
    BY <1>1, <1>2, <2>1, <2>2
  <2>4. CASE t = s
    BY <2>1, <2>3, <2>4
  <2>5. CASE t # s
    BY <2>1, <2>3, <2>5 DEF OthersSame, OnePlace
  <2> QED
    BY <2>3, <2>4, <2>5
<1>4. IdsBelow(copy)
  BY <1>1 DEF IdsBelow
<1>5. \A ids : HasNone(sigdata, ids) => HasNone(copy, ids)
  BY <1>1 DEF HasNone
<1>6. \A ids \in SUBSET Elems(old(s)) : Elems(now(s)) \cap ids = {} => HasNone(copy, ids)
  <2>1. TAKE ids \in SUBSET Elems(old(s))
  <2>2. HAVE Elems(now(s)) \cap ids = {}
  <2>3. \A t \in Signals \ {s} : Elems(now(t)) \cap ids = {}
    BY <1>1, <1>2
  <2> QED
    BY <2>2, <2>3 DEF HasNone
<1> QED
  BY <1>3, <1>4, <1>5, <1>6

(* Where the lists and the call stay as they are, so does what is known of *)
(* them.                                                                   *)
LEMMA SameLists ==
    ASSUME HeapKnown, IdsUnique, CallKnown,
           UNCHANGED << data, dataRetired, hooks, callVars, fallback, fallbackRetired >>
    PROVE  HeapKnown' /\ IdsUnique' /\ CallKnown'
<1>1. Current' = Current /\ Adding' = Adding
  BY DEF Current, callVars, Adding
<1>2. HeapKnown'
  BY DEF HeapKnown, callVars
<1>3. IdsUnique'
  BY <1>1 DEF IdsUnique, callVars
<1>4. CallKnown'
  BY <1>1 DEF CallKnown, callVars, OneSlotNew, Added, Removed
<1> QED
  BY <1>2, <1>3, <1>4

(* And so does what is known of the slots, unless a handler is installed.  *)
LEMMA SameSlots ==
    ASSUME SlotsKnown,
           UNCHANGED << data, dataRetired, hooks, callVars, fallback, prevs, detected, replaced >>,
           \A s \in Signals : disposition'[s] = Ours => disposition[s] = Ours \/ replaced[s] # Null
    PROVE  SlotsKnown'
<1>1. Current' = Current /\ new' = new /\ wpc' = wpc /\ call' = call
  BY DEF Current, callVars
<1>2. Detected(prevs[fallback], call.signal)' = Detected(prevs[fallback], call.signal)
  BY <1>1 DEF Detected
<1>3. \A s \in Signals : disposition'[s] = Ours => replaced'[s] # Null
  BY DEF SlotsKnown
<1> QED
  BY <1>1, <1>2, <1>3 DEF SlotsKnown

-----------------------------------------------------------------------------
(* The steps of a handler. *)
LEMMA DeliverKeeps ==
    ASSUME IInv, NEW d \in Deliveries, NEW s \in Signals, Deliver(d, s)
    PROVE  IInv'
<1> USE NullAssumption DEF IInv, Deliver, TypeOK, dataVars, fallbackVars, deliveryVars
<1>1. TypeOK'
  BY DEF Handlers, callVars
<1>2. GuardsHeld'
  BY DEF GuardsHeld
<1>3. HeapKnown' /\ IdsUnique' /\ CallKnown'
  BY SameLists
<1>4. SlotsKnown'
  <2>1. \A t \in Signals : disposition'[t] = Ours => disposition[t] = Ours
    BY OursAssumption
  <2> QED
    BY <2>1, SameSlots DEF callVars
<1>5. DeliveriesKnow'
  <2>1. replaced[s] # Null
    BY DEF SlotsKnown
  <2>2. hpc'[d] \notin {"fallback", "chain"}
    OBVIOUS
  <2> QED
    BY <2>1, <2>2 DEF DeliveriesKnow, Detected, HasSlot, Current
<1>6. PreviousHandlerCalled'
  BY DEF PreviousHandlerCalled, HasSlot
<1>7. Rehooks'
  BY DEF Rehooks, Rearms, Forgets
<1> QED
  BY <1>1, <1>2, <1>3, <1>4, <1>5, <1>6, <1>7

LEMMA RearmKeeps ==
    ASSUME IInv, NEW d \in Deliveries, Rearm(d)
    PROVE  IInv'
<1> USE NullAssumption DEF IInv, Rearm, TypeOK, dataVars, fallbackVars, deliveryVars
<1>1. TypeOK'
  BY DEF Handlers, callVars
<1>2. GuardsHeld'
  BY DEF GuardsHeld
<1>3. HeapKnown' /\ IdsUnique' /\ CallKnown'
  BY SameLists
<1>4. SlotsKnown'
  <2>1. hsig[d] \in Signals /\ replaced[hsig[d]] # Null
    BY DEF DeliveriesKnow
  <2>2. \A t \in Signals : disposition'[t] = Ours => disposition[t] = Ours \/ replaced[t] # Null
    BY <2>1
  <2> QED
    BY <2>2, SameSlots
<1>5. DeliveriesKnow'
  BY DEF DeliveriesKnow, Detected, HasSlot, Current
<1>6. PreviousHandlerCalled'
  BY DEF PreviousHandlerCalled, HasSlot
<1>7. Rehooks'
  BY DEF Rehooks, Rearms
<1> QED
  BY <1>1, <1>2, <1>3, <1>4, <1>5, <1>6, <1>7

LEMMA ReadFallbackKeeps ==
    ASSUME IInv, NEW d \in Deliveries, ReadFallback(d)
    PROVE  IInv'
<1> USE NullAssumption DEF IInv, ReadFallback, Fallback!Read, TypeOK, dataVars, deliveryVars, osVars
<1>1. TypeOK'
  BY DEF callVars
<1>2. GuardsHeld'
  BY DEF GuardsHeld
<1>3. HeapKnown' /\ IdsUnique' /\ CallKnown'
  BY SameLists
<1>4. SlotsKnown'
  BY SameSlots
<1>5. DeliveriesKnow'
  <2> DEFINE s == hsig[d]
  <2>1. s \in Signals /\ replaced[s] # Null
    BY DEF DeliveriesKnow
  <2>2. Current.signals[s] # Null \/ Detected(prevs[fallback], s)
    <3>1. CASE Current.signals[s] = Null
      <4>1. wpc = "store" /\ new.signals[s] # Null
        BY <2>1, <3>1 DEF SlotsKnown
      <4>2. s = call.signal
        BY <2>1, <3>1, <4>1 DEF CallKnown, OneSlotNew
      <4> QED
        BY <3>1, <4>1, <4>2 DEF SlotsKnown
    <3> QED
      BY <3>1
  <2>3. (Current.signals[hsig[d]] # Null \/ Detected(prevs[fallbackHeld[d]], hsig[d]))'
    BY <2>2 DEF Detected, Current
  <2> QED
    BY <2>3 DEF DeliveriesKnow, Detected, HasSlot, Current
<1>6. PreviousHandlerCalled'
  BY DEF PreviousHandlerCalled, HasSlot
<1>7. Rehooks'
  BY DEF Rehooks, Rearms
<1> QED
  BY <1>1, <1>2, <1>3, <1>4, <1>5, <1>6, <1>7

LEMMA ReadDataKeeps ==
    ASSUME IInv, NEW d \in Deliveries, ReadData(d)
    PROVE  IInv'
<1> USE NullAssumption DEF IInv, ReadData, Data!Read, TypeOK, fallbackVars, deliveryVars, osVars
<1>1. TypeOK'
  BY DEF callVars
<1>2. GuardsHeld'
  BY DEF GuardsHeld
<1>3. HeapKnown' /\ IdsUnique' /\ CallKnown'
  BY SameLists
<1>4. SlotsKnown'
  BY SameSlots
<1>5. DeliveriesKnow'
  BY DEF DeliveriesKnow, Detected, HasSlot, Current
<1>6. PreviousHandlerCalled'
  BY DEF PreviousHandlerCalled, HasSlot
<1>7. Rehooks'
  BY DEF Rehooks, Rearms
<1> QED
  BY <1>1, <1>2, <1>3, <1>4, <1>5, <1>6, <1>7

LEMMA ChainKeeps ==
    ASSUME IInv, NEW d \in Deliveries, Chain(d)
    PROVE  IInv'
<1> USE NullAssumption DEF IInv, Chain, TypeOK, dataVars, fallbackVars, deliveryVars, osVars
<1> DEFINE s == hsig[d]
<1>1. s \in Signals /\ dataHeld[d] \in {data} \cup dataRetired /\ fallbackHeld[d] \in Addrs
  BY DEF DeliveriesKnow, GuardsHeld
<1>2. \/ HasSlot(d) /\ PrevOf(d) = replaced[s]
      \/ ~HasSlot(d) /\ PrevOf(d) = detected[s]
  <2>1. CASE HasSlot(d)
    BY <1>1, <2>1 DEF HasSlot, PrevOf, SlotsKnown, Current
  <2>2. CASE ~HasSlot(d)
    <3>1. Detected(prevs[fallbackHeld[d]], s)
      BY <2>2 DEF DeliveriesKnow
    <3> QED
      BY <2>2, <3>1 DEF PrevOf, Detected
  <2> QED
    BY <2>1, <2>2
<1>3. TypeOK'
  <2>1. PrevOf(d) \in Handlers \cup {Null}
    BY <1>1, <1>2
  <2> QED
    BY <2>1 DEF callVars
<1>4. GuardsHeld'
  BY DEF GuardsHeld
<1>5. HeapKnown' /\ IdsUnique' /\ CallKnown'
  BY SameLists
<1>6. SlotsKnown'
  BY SameSlots
<1>7. DeliveriesKnow'
  BY DEF DeliveriesKnow, Detected, HasSlot, Current
<1>8. PreviousHandlerCalled'
  BY <1>2 DEF PreviousHandlerCalled, HasSlot
<1>9. Rehooks'
  BY DEF Rehooks, Rearms
<1> QED
  BY <1>3, <1>4, <1>5, <1>6, <1>7, <1>8, <1>9

LEMMA RunActionKeeps ==
    ASSUME IInv, NEW d \in Deliveries, RunAction(d)
    PROVE  IInv'
<1> USE NullAssumption DEF IInv, RunAction, TypeOK, dataVars, fallbackVars, deliveryVars, osVars
<1>1. TypeOK'
  BY DEF callVars
<1>2. GuardsHeld'
  BY DEF GuardsHeld
<1>3. HeapKnown' /\ IdsUnique' /\ CallKnown'
  BY SameLists
<1>4. SlotsKnown'
  BY SameSlots
<1>5. DeliveriesKnow'
  BY DEF DeliveriesKnow, Detected, HasSlot, Current
<1>6. PreviousHandlerCalled'
  BY DEF PreviousHandlerCalled, HasSlot
<1>7. Rehooks'
  BY DEF Rehooks, Rearms
<1> QED
  BY <1>1, <1>2, <1>3, <1>4, <1>5, <1>6, <1>7

LEMMA ReleaseDataKeeps ==
    ASSUME IInv, NEW d \in Deliveries, ReleaseData(d)
    PROVE  IInv'
<1> USE NullAssumption DEF IInv, ReleaseData, Data!Release, TypeOK, fallbackVars, deliveryVars, osVars
<1>1. TypeOK'
  BY DEF callVars
<1>2. GuardsHeld'
  BY DEF GuardsHeld
<1>3. HeapKnown' /\ IdsUnique' /\ CallKnown'
  BY SameLists
<1>4. SlotsKnown'
  BY SameSlots
<1>5. DeliveriesKnow'
  BY DEF DeliveriesKnow, Detected, HasSlot, Current
<1>6. PreviousHandlerCalled'
  BY DEF PreviousHandlerCalled, HasSlot
<1>7. Rehooks'
  BY DEF Rehooks, Rearms
<1> QED
  BY <1>1, <1>2, <1>3, <1>4, <1>5, <1>6, <1>7

LEMMA ReleaseFallbackKeeps ==
    ASSUME IInv, NEW d \in Deliveries, ReleaseFallback(d)
    PROVE  IInv'
<1> USE NullAssumption DEF IInv, ReleaseFallback, Fallback!Release, TypeOK, dataVars, deliveryVars, osVars
<1>1. TypeOK'
  BY DEF callVars
<1>2. GuardsHeld'
  BY DEF GuardsHeld
<1>3. HeapKnown' /\ IdsUnique' /\ CallKnown'
  BY SameLists
<1>4. SlotsKnown'
  BY SameSlots
<1>5. DeliveriesKnow'
  BY DEF DeliveriesKnow, Detected, HasSlot, Current
<1>6. PreviousHandlerCalled'
  BY DEF PreviousHandlerCalled, HasSlot
<1>7. Rehooks'
  BY DEF Rehooks, Rearms
<1> QED
  BY <1>1, <1>2, <1>3, <1>4, <1>5, <1>6, <1>7

(* Another library. *)
LEMMA ForeignKeeps ==
    ASSUME IInv, NEW s \in Signals, NEW f \in Foreign, ForeignInstall(s, f)
    PROVE  IInv'
<1> USE NullAssumption DEF IInv, ForeignInstall, TypeOK, dataVars, fallbackVars, deliveryVars
<1>1. TypeOK'
  BY DEF Handlers, callVars
<1>2. GuardsHeld'
  BY DEF GuardsHeld
<1>3. HeapKnown' /\ IdsUnique' /\ CallKnown'
  BY SameLists
<1>4. SlotsKnown'
  <2>1. \A t \in Signals : disposition'[t] = Ours => disposition[t] = Ours
    BY OursAssumption
  <2> QED
    BY <2>1, SameSlots
<1>5. DeliveriesKnow'
  BY DEF DeliveriesKnow, Detected, HasSlot, Current
<1>6. PreviousHandlerCalled'
  BY DEF PreviousHandlerCalled, HasSlot
<1>7. Rehooks'
  BY DEF Rehooks, Rearms
<1> QED
  BY <1>1, <1>2, <1>3, <1>4, <1>5, <1>6, <1>7

(* Where the hooks, the handlers and the deliveries stay as they are, so   *)
(* does what the deliveries know.                                          *)
LEMMA SameDeliveries ==
    ASSUME GuardsHeld, DeliveriesKnow, PreviousHandlerCalled, Rehooks,
           UNCHANGED << dataVars, fallbackVars, deliveryVars, osVars >>
    PROVE  GuardsHeld' /\ DeliveriesKnow' /\ PreviousHandlerCalled' /\ Rehooks'
<1> USE DEF dataVars, fallbackVars, deliveryVars, osVars
<1>1. Current' = Current /\ \A d \in Deliveries : HasSlot(d)' = HasSlot(d)
  BY DEF Current, HasSlot
<1>2. GuardsHeld'
  BY DEF GuardsHeld
<1>3. DeliveriesKnow'
  BY <1>1 DEF DeliveriesKnow, Detected
<1>4. PreviousHandlerCalled'
  BY <1>1 DEF PreviousHandlerCalled
<1>5. Rehooks'
  BY DEF Rehooks, Rearms
<1> QED
  BY <1>2, <1>3, <1>4, <1>5

(* The current value and the copy of a call are of their type. *)
LEMMA CurrentType ==
    ASSUME IInv
    PROVE  Current \in SignalData /\ Current.next_id \in Nat /\ new.next_id \in Nat
<1>1. Current \in SignalData /\ new \in SignalData
  BY DEF IInv, TypeOK, Current
<1> QED
  BY <1>1, MaxIdAssumption DEF SignalData

(* What is known of the lists, of one value. *)
Lists(sigdata, ids) == OnePlace(sigdata) /\ IdsBelow(sigdata) /\ HasNone(sigdata, ids)

(* Counting an id changes no list. *)
LEMMA TakeIdKeeps ==
    ASSUME NEW sigdata \in SignalData, sigdata.next_id <= MaxId, NEW ids, Lists(sigdata, ids)
    PROVE  Lists(TakeId(sigdata), ids)
<1>1. \A s \in Signals : ActionsOf(TakeId(sigdata), s) = ActionsOf(sigdata, s)
  BY TakeIdIs
<1>2. OnePlace(TakeId(sigdata)) /\ HasNone(TakeId(sigdata), ids)
  BY <1>1 DEF Lists, OnePlace, HasNone
<1>3. IdsBelow(TakeId(sigdata))
  <2>1. \A s \in Signals : Elems(ActionsOf(sigdata, s)) \subseteq Nat
    BY ActionsType, MaxIdAssumption DEF Elems, Ids
  <2>2. sigdata.next_id \in Nat /\ TakeId(sigdata).next_id = sigdata.next_id + 1
    BY TakeIdIs, MaxIdAssumption DEF Ids
  <2>3. \A s \in Signals : \A id \in Elems(ActionsOf(sigdata, s)) :
           id < TakeId(sigdata).next_id
    BY <2>1, <2>2 DEF Lists, IdsBelow
  <2> QED
    BY <1>1, <2>3 DEF IdsBelow
<1> QED
  BY <1>2, <1>3 DEF Lists

-----------------------------------------------------------------------------
(* The steps of a call. *)
LEMMA BeginRegisterKeeps ==
    ASSUME IInv, NEW s \in Signals, BeginRegister(s)
    PROVE  IInv'
<1> DEFINE id == Current.next_id
           sigdata == TakeId(Current)
<1> USE NullAssumption DEF IInv
<1>1. /\ Current \in SignalData /\ id \in Nat /\ id \in Ids /\ Current' = Current
      /\ Lists(Current, gone) /\ \A i \in issued \cup gone : i \in Nat /\ i < id
  <2>1. Current \in SignalData /\ id \in Nat /\ Current' = Current
    BY CurrentType DEF Current, dataVars, BeginRegister
  <2>2. id \in Ids
    BY <2>1, TakeIdIs DEF BeginRegister
  <2>3. \A i \in issued \cup gone : i \in Nat
    BY MaxIdAssumption DEF TypeOK, Ids
  <2> QED
    BY <2>1, <2>2, <2>3 DEF IdsUnique, Lists
<1>2. /\ sigdata \in SignalData /\ sigdata.next_id = id + 1 /\ sigdata.signals = Current.signals
      /\ \A t \in Signals : ActionsOf(sigdata, t) = ActionsOf(Current, t)
      /\ Lists(sigdata, gone)
  BY <1>1, TakeIdIs, TakeIdKeeps DEF BeginRegister
<1>3. /\ wpc = "idle" /\ dataRetired = {} /\ fallbackRetired = {}
      /\ call' = [op |-> "register", signal |-> s, ids |-> {id}]
      /\ wpc' = IF Current.signals[s] # Null THEN "store" ELSE "detect"
      /\ new' = IF Current.signals[s] # Null THEN WithAction(sigdata, s, id) ELSE sigdata
  BY DEF BeginRegister, HeapKnown
<1>4. /\ data' = data /\ dataRetired' = dataRetired /\ hooks' = hooks
      /\ fallback' = fallback /\ fallbackRetired' = fallbackRetired
      /\ issued' = issued /\ gone' = gone
      /\ disposition' = disposition /\ detected' = detected /\ replaced' = replaced
  BY DEF BeginRegister, dataVars, fallbackVars, osVars
<1>5. GuardsHeld' /\ DeliveriesKnow' /\ PreviousHandlerCalled' /\ Rehooks'
  BY SameDeliveries DEF BeginRegister
<1>6. HeapKnown'
  BY <1>3, <1>4 DEF HeapKnown
<1>7. /\ new' \in SignalData /\ new'.next_id = id + 1
      /\ Lists(new', gone)
      /\ \A t \in Signals : new'.signals[t] # Null => new'.signals[t].prev = replaced[t]
      /\ \A t \in Signals : new'.signals[t] # Null <=> Current.signals[t] # Null
      /\ wpc' = "store" => (OneSlotNew /\ Added)'
  <2>1. \A t \in Signals : Current.signals[t] # Null => Current.signals[t].prev = replaced[t]
    BY DEF SlotsKnown
  <2>2. CASE Current.signals[s] = Null
    BY <1>2, <1>3, <2>1, <2>2
  <2>3. CASE Current.signals[s] # Null
    <3> DEFINE actions == Append(ActionsOf(Current, s), id)
    <3>1. new' = WithAction(sigdata, s, id)
      BY <1>3, <2>3
    <3> HIDE DEF sigdata
    <3>2. SlotIs(sigdata, new', s, SlotWithActions(sigdata, s, actions))
      BY <1>1, <1>2, <2>3, <3>1, WithActionIs
    <3>3. /\ new' \in SignalData /\ new'.next_id = id + 1
          /\ new'.signals[s] # Null /\ new'.signals[s].prev = Current.signals[s].prev
          /\ ActionsOf(new', s) = actions
          /\ \A t \in Signals \ {s} : new'.signals[t] = Current.signals[t]
          /\ OthersSame(Current, new', s)
      BY <1>2, <3>2 DEF SlotIs, SlotWithActions, OthersSame
    <3>4. Lists(new', gone)
      <4>1. id \notin gone
        BY <1>1
      <4> QED
        BY <1>1, <3>3, <4>1, GrowKeeps DEF Lists
    <3>5. (OneSlotNew /\ Added)'
      BY <1>1, <1>3, <3>3 DEF OneSlotNew, Added
    <3> QED
      BY <2>1, <2>3, <3>3, <3>4, <3>5
  <2> QED
    BY <2>2, <2>3
<1>8. TypeOK'
  BY <1>1, <1>3, <1>7 DEF TypeOK, BeginRegister, dataVars, fallbackVars, osVars, deliveryVars
<1> HIDE DEF sigdata
<1>9. IdsUnique'
  BY <1>1, <1>3, <1>4, <1>7 DEF IdsUnique, Lists
<1>10. CallKnown'
  <2>1. new'.next_id - 1 = id
    BY <1>1, <1>7
  <2> QED
    BY <1>1, <1>3, <1>4, <1>7, <2>1 DEF CallKnown, Adding, sigdata
<1>11. SlotsKnown'
  BY <1>1, <1>3, <1>4, <1>7 DEF SlotsKnown
<1> QED
  BY <1>5, <1>6, <1>8, <1>9, <1>10, <1>11

LEMMA FailsKeeps ==
    ASSUME IInv, DetectFails \/ InstallFails
    PROVE  IInv'
<1> USE NullAssumption DEF IInv, DetectFails, InstallFails, Return
<1>1. /\ wpc \in {"detect", "install"} /\ wpc' = "idle" /\ call' = NoCall /\ new' = EmptyData
      /\ data' = data /\ dataRetired' = dataRetired /\ hooks' = hooks
      /\ fallback' = fallback /\ fallbackRetired' = fallbackRetired
      /\ issued' = issued /\ gone' = gone /\ Current' = Current
      /\ disposition' = disposition /\ replaced' = replaced
  BY DEF dataVars, fallbackVars, osVars, Current
<1>2. GuardsHeld' /\ DeliveriesKnow' /\ PreviousHandlerCalled' /\ Rehooks'
  BY SameDeliveries
<1>3. TypeOK'
  <2>1. NoCall \in [op : {"none", "register", "unregister"},
                    signal : Signals \cup {Null}, ids : SUBSET Ids]
    BY DEF NoCall
  <2> QED
    BY <1>1, <2>1, EmptyIs DEF TypeOK, dataVars, fallbackVars, osVars, deliveryVars
<1>4. HeapKnown'
  BY <1>1 DEF HeapKnown
<1>5. IdsUnique'
  BY <1>1, EmptyIs DEF IdsUnique
<1>6. CallKnown'
  BY <1>1 DEF CallKnown, Adding, NoCall
<1>7. SlotsKnown'
  BY <1>1, EmptyIs DEF SlotsKnown
<1> QED
  BY <1>2, <1>3, <1>4, <1>5, <1>6, <1>7

(* Nobody handles the signal whose registration finds no slot. *)
LEMMA NotYetOurs ==
    ASSUME IInv, Adding
    PROVE  /\ call.signal \in Signals /\ Current.signals[call.signal] = Null
           /\ replaced[call.signal] = Null
           /\ \A d \in Deliveries : hpc[d] # "idle" => hsig[d] # call.signal
           /\ dataRetired = {}
<1>1. call.signal \in Signals /\ Current.signals[call.signal] = Null
  BY DEF IInv, CallKnown, Adding
<1>2. replaced[call.signal] = Null
  BY <1>1 DEF IInv, SlotsKnown, Adding
<1> QED
  BY <1>1, <1>2 DEF IInv, DeliveriesKnow, HeapKnown, Adding

LEMMA StoreFallbackKeeps ==
    ASSUME IInv, NEW a \in Addrs, StoreFallback(a)
    PROVE  IInv'
<1> USE NullAssumption DEF IInv
<1> DEFINE s == call.signal
<1>1. /\ wpc = "detect" /\ wpc' = "drainFallback"
      /\ fallbackRetired = {} /\ fallback' = a /\ fallbackRetired' = {fallback} /\ a # fallback
      /\ fallbackHeld' = fallbackHeld
      /\ prevs' = [prevs EXCEPT ![a] = Detect(s)]
      /\ detected' = [detected EXCEPT ![s] = disposition[s]]
      /\ data' = data /\ dataRetired' = dataRetired /\ dataHeld' = dataHeld /\ hooks' = hooks
      /\ call' = call /\ new' = new /\ issued' = issued /\ gone' = gone
      /\ hpc' = hpc /\ hsig' = hsig /\ chained' = chained /\ pos' = pos
      /\ disposition' = disposition /\ replaced' = replaced
      /\ Current' = Current /\ \A d \in Deliveries : HasSlot(d)' = HasSlot(d)
  BY DEF StoreFallback, Fallback!Publish, dataVars, deliveryVars, Current, HasSlot
<1>2. /\ s \in Signals /\ Current.signals[s] = Null /\ replaced[s] = Null
      /\ \A d \in Deliveries : hpc[d] # "idle" => hsig[d] # s
  BY <1>1, NotYetOurs DEF Adding
<1>3. /\ prevs \in [Addrs -> Prev \cup {Null}] /\ detected \in [Signals -> Handlers \cup {Null}]
      /\ disposition \in [Signals -> Handlers] /\ fallback \in Addrs
      /\ fallbackHeld \in [Deliveries -> Addrs \cup {Null}]
  BY DEF TypeOK
<1>4. Detect(s) \in Prev
  BY <1>2, <1>3 DEF Detect, Prev
<1>5. TypeOK'
  BY <1>1, <1>2, <1>3, <1>4 DEF TypeOK
<1>6. GuardsHeld'
  BY <1>1 DEF GuardsHeld
<1>7. HeapKnown'
  BY <1>1 DEF HeapKnown
<1>8. IdsUnique'
  BY <1>1 DEF IdsUnique
<1>9. CallKnown'
  BY <1>1 DEF CallKnown, Adding
<1>10. SlotsKnown'
  <2>1. Detected(prevs[fallback], call.signal)'
    BY <1>1, <1>2, <1>3, <1>4 DEF Detected, Detect
  <2> QED
    BY <1>1, <2>1 DEF SlotsKnown
<1>11. DeliveriesKnow'
  <2>1. \A d \in Deliveries :
            hpc[d] \in {"fallback", "chain"} /\ Detected(prevs[fallbackHeld[d]], hsig[d])
              => Detected(prevs[fallbackHeld[d]], hsig[d])'
    <3>1. TAKE d \in Deliveries
    <3>2. HAVE hpc[d] \in {"fallback", "chain"} /\ Detected(prevs[fallbackHeld[d]], hsig[d])
    <3>3. fallbackHeld[d] = fallback /\ hsig[d] \in Signals /\ hsig[d] # s
      BY <1>1, <1>2, <3>2 DEF GuardsHeld, DeliveriesKnow
    <3> QED
      BY <1>1, <1>3, <3>2, <3>3 DEF Detected
  <2> QED
    BY <1>1, <2>1 DEF DeliveriesKnow
<1>12. PreviousHandlerCalled'
  <2>1. \A d \in Deliveries : hpc[d] = "actions" => detected'[hsig[d]] = detected[hsig[d]]
    BY <1>1, <1>2, <1>3
  <2> QED
    BY <1>1, <2>1 DEF PreviousHandlerCalled
<1>13. Rehooks'
  BY <1>1 DEF Rehooks, Rearms
<1> QED
  BY <1>5, <1>6, <1>7, <1>8, <1>9, <1>10, <1>11, <1>12, <1>13

LEMMA ReclaimFallbackKeeps ==
    ASSUME IInv, ReclaimFallback
    PROVE  IInv'
<1> USE NullAssumption DEF IInv
<1>1. /\ wpc = "drainFallback" /\ wpc' = "install"
      /\ fallbackRetired' = {} /\ fallback' = fallback /\ fallbackHeld' = fallbackHeld
      /\ \A d \in Deliveries : fallbackHeld[d] \notin fallbackRetired
      /\ prevs' = [a \in Addrs |-> IF a \in fallbackRetired THEN Null ELSE prevs[a]]
      /\ detected' = detected
      /\ data' = data /\ dataRetired' = dataRetired /\ dataHeld' = dataHeld /\ hooks' = hooks
      /\ call' = call /\ new' = new /\ issued' = issued /\ gone' = gone
      /\ hpc' = hpc /\ hsig' = hsig /\ chained' = chained /\ pos' = pos
      /\ disposition' = disposition /\ replaced' = replaced
      /\ Current' = Current /\ \A d \in Deliveries : HasSlot(d)' = HasSlot(d)
  BY DEF ReclaimFallback, Fallback!Reclaim, dataVars, deliveryVars, osVars, Current, HasSlot
<1>2. /\ prevs \in [Addrs -> Prev \cup {Null}] /\ fallback \in Addrs
      /\ fallbackHeld \in [Deliveries -> Addrs \cup {Null}]
  BY DEF TypeOK
<1>3. TypeOK'
  BY <1>1, <1>2 DEF TypeOK
<1>4. GuardsHeld'
  BY <1>1 DEF GuardsHeld
<1>5. HeapKnown'
  BY <1>1 DEF HeapKnown
<1>6. IdsUnique'
  BY <1>1 DEF IdsUnique
<1>7. CallKnown'
  BY <1>1 DEF CallKnown, Adding
<1>8. SlotsKnown'
  <2>1. prevs'[fallback] = prevs[fallback]
    BY <1>1, <1>2 DEF HeapKnown
  <2>2. Detected(prevs[fallback], call.signal)'
    BY <1>1, <2>1 DEF SlotsKnown, Detected
  <2> QED
    BY <1>1, <2>2 DEF SlotsKnown
<1>9. DeliveriesKnow'
  <2>1. \A d \in Deliveries :
            hpc[d] \in {"fallback", "chain"} /\ Detected(prevs[fallbackHeld[d]], hsig[d])
              => Detected(prevs[fallbackHeld[d]], hsig[d])'
    <3>1. TAKE d \in Deliveries
    <3>2. HAVE hpc[d] \in {"fallback", "chain"} /\ Detected(prevs[fallbackHeld[d]], hsig[d])
    <3>3. fallbackHeld[d] \in Addrs \ fallbackRetired
      BY <1>1, <1>2, <3>2 DEF GuardsHeld
    <3> QED
      BY <1>1, <3>2, <3>3 DEF Detected
  <2> QED
    BY <1>1, <2>1 DEF DeliveriesKnow
<1>10. PreviousHandlerCalled'
  BY <1>1 DEF PreviousHandlerCalled
<1>11. Rehooks'
  BY <1>1 DEF Rehooks, Rearms
<1> QED
  BY <1>3, <1>4, <1>5, <1>6, <1>7, <1>8, <1>9, <1>10, <1>11

LEMMA InstallKeeps ==
    ASSUME IInv, Install
    PROVE  IInv'
<1> USE NullAssumption DEF IInv
<1> DEFINE s == call.signal
           id == Current.next_id
           slot == [prev |-> disposition[s], actions |-> Insert(<< >>, new.next_id - 1)]
<1>1. /\ wpc = "install" /\ wpc' = "store"
      /\ disposition' = [disposition EXCEPT ![s] = Ours]
      /\ replaced' = [replaced EXCEPT ![s] = disposition[s]]
      /\ new' = WithSlot(new, s, slot)
      /\ detected' = detected /\ prevs' = prevs
      /\ fallback' = fallback /\ fallbackRetired' = fallbackRetired /\ fallbackHeld' = fallbackHeld
      /\ data' = data /\ dataRetired' = dataRetired /\ dataHeld' = dataHeld /\ hooks' = hooks
      /\ call' = call /\ issued' = issued /\ gone' = gone
      /\ hpc' = hpc /\ hsig' = hsig /\ chained' = chained /\ pos' = pos
      /\ Current' = Current /\ \A d \in Deliveries : HasSlot(d)' = HasSlot(d)
  BY DEF Install, fallbackVars, dataVars, deliveryVars, Current, HasSlot
<1>2. /\ s \in Signals /\ Current.signals[s] = Null /\ replaced[s] = Null /\ dataRetired = {}
      /\ \A d \in Deliveries : hpc[d] # "idle" => hsig[d] # s
  BY <1>1, NotYetOurs DEF Adding
<1>3. /\ Current \in SignalData /\ id \in Nat /\ Lists(Current, gone) /\ id \notin gone
      /\ new = TakeId(Current) /\ call.op = "register"
  <2>1. Current \in SignalData /\ id \in Nat /\ Lists(Current, gone)
    BY CurrentType DEF IdsUnique, Lists
  <2>2. \A i \in gone : i \in Nat /\ i < id
    BY MaxIdAssumption DEF TypeOK, Ids, IdsUnique
  <2> QED
    BY <1>1, <2>1, <2>2 DEF CallKnown, Adding
<1>4. /\ new \in SignalData /\ new.next_id = id + 1 /\ new.next_id - 1 = id /\ id \in Ids
      /\ new.signals = Current.signals
      /\ \A t \in Signals : ActionsOf(new, t) = ActionsOf(Current, t)
  <2>1. new \in SignalData /\ new.next_id = id + 1 /\ new.signals = Current.signals
    BY <1>3 DEF TypeOK, TakeId, SignalData
  <2>2. id \in Ids
    BY <1>3, <2>1, MaxIdAssumption DEF SignalData, Ids
  <2> QED
    BY <1>3, <2>1, <2>2 DEF ActionsOf
<1>5. /\ disposition \in [Signals -> Handlers] /\ replaced \in [Signals -> Handlers \cup {Null}]
      /\ disposition[s] \in Handlers /\ disposition[s] # Null
  BY <1>2 DEF TypeOK
<1>6. slot \in Slot /\ slot.prev = disposition[s] /\ slot.actions = << id >>
  BY <1>4, <1>5 DEF Slot, Insert
<1> HIDE DEF slot
<1>7. SlotIs(new, new', s, slot)
  BY <1>1, <1>2, <1>4, <1>6, SlotWith
<1>8. /\ new' \in SignalData /\ new'.next_id = id + 1
      /\ new'.signals[s] # Null /\ new'.signals[s].prev = disposition[s]
      /\ ActionsOf(new', s) = Append(ActionsOf(Current, s), id)
      /\ \A t \in Signals \ {s} : new'.signals[t] = Current.signals[t]
      /\ OthersSame(Current, new', s)
  <2>1. Append(ActionsOf(Current, s), id) = << id >>
    BY <1>2 DEF ActionsOf
  <2> QED
    BY <1>4, <1>6, <1>7, <2>1 DEF SlotIs, OthersSame
<1>9. Lists(new', gone)
  BY <1>2, <1>3, <1>8, GrowKeeps DEF Lists
<1>10. TypeOK'
  BY <1>1, <1>5, <1>8 DEF TypeOK, Handlers
<1>11. GuardsHeld'
  BY <1>1 DEF GuardsHeld
<1>12. HeapKnown'
  BY <1>1 DEF HeapKnown
<1>13. IdsUnique'
  BY <1>1, <1>9 DEF IdsUnique, Lists
<1>14. CallKnown'
  <2>1. (OneSlotNew /\ Added)'
    BY <1>1, <1>8 DEF OneSlotNew, Added
  <2> QED
    BY <1>1, <1>3, <1>4, <1>8, <2>1 DEF CallKnown, Adding
<1>15. SlotsKnown'
  <2>1. Detected(prevs[fallback], call.signal)'
    BY <1>1 DEF SlotsKnown, Detected
  <2>2. \A t \in Signals :
            /\ replaced'[t] # Null <=> Current.signals[t] # Null \/ new'.signals[t] # Null
            /\ disposition'[t] = Ours => replaced'[t] # Null
            /\ Current.signals[t] # Null => Current.signals[t].prev = replaced'[t]
            /\ new'.signals[t] # Null => new'.signals[t].prev = replaced'[t]
    <3>1. TAKE t \in Signals
    <3>2. CASE t = s
      BY <1>1, <1>2, <1>5, <1>8, <3>2
    <3>3. CASE t # s
      BY <1>1, <1>5, <1>8, <3>3 DEF SlotsKnown
    <3> QED
      BY <3>2, <3>3
  <2> QED
    BY <1>1, <1>2, <2>1, <2>2 DEF SlotsKnown
<1>16. DeliveriesKnow'
  BY <1>1, <1>2, <1>5 DEF DeliveriesKnow, Detected
<1>17. PreviousHandlerCalled'
  BY <1>1, <1>2, <1>5 DEF PreviousHandlerCalled, DeliveriesKnow
<1>18. Rehooks'
  BY <1>1, <1>2, <1>5 DEF Rehooks, Rearms
<1> QED
  BY <1>10, <1>11, <1>12, <1>13, <1>14, <1>15, <1>16, <1>17, <1>18

(* A removal has its copy: the slot of the call lost the ids of the call.  *)
RemovalOf(s, ids) ==
    /\ wpc = "idle" /\ Current.signals[s] # Null
    /\ ids \in SUBSET Elems(ActionsOf(Current, s))
    /\ wpc' = "store" /\ call' = [op |-> "unregister", signal |-> s, ids |-> ids]
    /\ UNCHANGED << dataVars, fallbackVars, deliveryVars, osVars, issued, gone >>

LEMMA RemovalKeeps ==
    ASSUME IInv, NEW s \in Signals, NEW ids, RemovalOf(s, ids), NEW actions \in Seq(Ids),
           SlotIs(Current, new', s, SlotWithActions(Current, s, actions)),
           actions = Dispatcher!Without(ActionsOf(Current, s), ids),
           Elems(actions) \subseteq Elems(ActionsOf(Current, s)) \ ids,
           \A i, j \in DOMAIN actions : actions[i] = actions[j] => i = j
    PROVE  IInv'
<1> USE NullAssumption DEF IInv
<1>1. /\ wpc = "idle" /\ wpc' = "store" /\ Current.signals[s] # Null
      /\ ids \in SUBSET Elems(ActionsOf(Current, s))
      /\ call' = [op |-> "unregister", signal |-> s, ids |-> ids]
      /\ data' = data /\ dataRetired' = dataRetired /\ hooks' = hooks
      /\ fallback' = fallback /\ fallbackRetired' = fallbackRetired
      /\ issued' = issued /\ gone' = gone /\ Current' = Current
      /\ disposition' = disposition /\ replaced' = replaced
      /\ dataRetired = {} /\ fallbackRetired = {}
  BY DEF RemovalOf, dataVars, fallbackVars, osVars, Current, HeapKnown
<1>2. Current \in SignalData /\ Lists(Current, gone) /\ ids \in SUBSET Ids
  <2>1. Current \in SignalData /\ Lists(Current, gone)
    BY CurrentType DEF IdsUnique, Lists
  <2>2. Elems(ActionsOf(Current, s)) \subseteq Ids
    BY <2>1, ActionsType DEF Elems
  <2> QED
    BY <1>1, <2>1, <2>2
<1>3. /\ new' \in SignalData /\ new'.next_id = Current.next_id
      /\ new'.signals[s] # Null /\ new'.signals[s].prev = Current.signals[s].prev
      /\ ActionsOf(new', s) = actions
      /\ \A t \in Signals \ {s} : new'.signals[t] = Current.signals[t]
      /\ OthersSame(Current, new', s)
  BY DEF SlotIs, SlotWithActions, OthersSame
<1>4. Lists(new', gone) /\ HasNone(new', ids)
  BY <1>1, <1>2, <1>3, ShrinkKeeps DEF Lists
<1>5. GuardsHeld' /\ DeliveriesKnow' /\ PreviousHandlerCalled' /\ Rehooks'
  BY SameDeliveries DEF RemovalOf
<1>6. TypeOK'
  BY <1>1, <1>2, <1>3 DEF TypeOK, RemovalOf, dataVars, fallbackVars, osVars, deliveryVars
<1>7. HeapKnown'
  BY <1>1 DEF HeapKnown
<1>8. IdsUnique'
  BY <1>1, <1>4 DEF IdsUnique, Lists
<1>9. CallKnown'
  <2>1. (OneSlotNew /\ Removed)'
    BY <1>1, <1>3 DEF OneSlotNew, Removed
  <2>2. \A id \in ids : id < Current.next_id
    BY <1>1, <1>2 DEF Lists, IdsBelow
  <2> QED
    BY <1>1, <1>4, <2>1, <2>2 DEF CallKnown, Adding
<1>10. SlotsKnown'
  <2>1. \A t \in Signals :
            /\ new'.signals[t] # Null <=> Current.signals[t] # Null
            /\ new'.signals[t] # Null => new'.signals[t].prev = replaced[t]
    BY <1>1, <1>3 DEF SlotsKnown
  <2> QED
    BY <1>1, <2>1 DEF SlotsKnown
<1> QED
  BY <1>5, <1>6, <1>7, <1>8, <1>9, <1>10

LEMMA BeginUnregisterKeeps ==
    ASSUME IInv, NEW s \in Signals, NEW id \in Ids, BeginUnregister(s, id)
    PROVE  IInv'
<1> DEFINE old == ActionsOf(Current, s)
<1>1. Current \in SignalData /\ old \in Seq(Ids) /\ Lists(Current, gone)
  BY CurrentType, ActionsType DEF IInv, IdsUnique, Lists
<1>2. CASE id \in Elems(old)
  <2>1. RemovalOf(s, {id}) /\ new' = WithoutAction(Current, s, id)
    <3>1. Current.signals[s] # Null
      BY <1>2 DEF ActionsOf, Elems
    <3> QED
      BY <1>2, <3>1 DEF BeginUnregister, RemovalOf
  <2>2. \A i, j \in DOMAIN old : old[i] = old[j] => i = j
    BY <1>1 DEF Lists, OnePlace
  <2>3. /\ Without(old, id) \in Seq(Ids)
        /\ Elems(Without(old, id)) \subseteq Elems(old) \ {id}
        /\ Without(old, id) = Dispatcher!Without(old, {id})
        /\ \A i, j \in DOMAIN Without(old, id) : Without(old, id)[i] = Without(old, id)[j] => i = j
    BY <1>1, <1>2, <2>2, WithoutIs
  <2>4. SlotIs(Current, new', s, SlotWithActions(Current, s, Without(old, id)))
    BY <1>1, <2>1, <2>3, WithoutActionIs DEF RemovalOf
  <2> QED
    BY <2>1, <2>3, <2>4, RemovalKeeps
<1>3. CASE id \notin Elems(old)
  <2> USE DEF IInv
  <2>1. /\ wpc = "idle" /\ id \in issued /\ gone' = gone \cup {id}
        /\ \A t \in Signals : id \notin Elems(ActionsOf(Current, t))
        /\ call' = call /\ new' = new /\ wpc' = wpc /\ issued' = issued
        /\ UNCHANGED << dataVars, fallbackVars, deliveryVars, osVars >>
    BY <1>3 DEF BeginUnregister
  <2>2. Current' = Current /\ new = EmptyData /\ dataRetired = {}
    BY <2>1 DEF CallKnown, HeapKnown, Current, dataVars
  <2>3. GuardsHeld' /\ DeliveriesKnow' /\ PreviousHandlerCalled' /\ Rehooks'
    BY <2>1, SameDeliveries
  <2>4. TypeOK'
    BY <2>1 DEF TypeOK, dataVars, fallbackVars, osVars, deliveryVars
  <2>5. HeapKnown'
    BY <2>1 DEF HeapKnown, dataVars, fallbackVars
  <2>6. IdsUnique'
    <3>1. HasNone(Current, gone \cup {id}) /\ HasNone(new, gone \cup {id})
      BY <1>1, <2>1, <2>2, EmptyIs DEF Lists, HasNone
    <3> QED
      BY <2>1, <2>2, <3>1 DEF IdsUnique, dataVars
  <2>7. CallKnown'
    BY <2>1, <2>2 DEF CallKnown, Adding, NoCall
  <2>8. SlotsKnown'
    <3>1. Detected(prevs[fallback], call.signal)' = Detected(prevs[fallback], call.signal)
      BY <2>1 DEF Detected, fallbackVars, osVars
    <3> QED
      BY <2>1, <2>2, <3>1 DEF SlotsKnown, dataVars, fallbackVars, osVars
  <2> QED
    BY <2>3, <2>4, <2>5, <2>6, <2>7, <2>8
<1> QED
  BY <1>2, <1>3

LEMMA BeginUnregisterSignalKeeps ==
    ASSUME IInv, NEW s \in Signals, BeginUnregisterSignal(s)
    PROVE  IInv'
<1> DEFINE old == ActionsOf(Current, s)
           none == << >>
<1>1. Current \in SignalData /\ old \in Seq(Ids)
  BY CurrentType, ActionsType
<1>2. RemovalOf(s, Elems(old)) /\ new' = Cleared(Current, s)
  <2>1. Current.signals[s] # Null
    BY DEF BeginUnregisterSignal, ActionsOf
  <2> QED
    BY <2>1 DEF BeginUnregisterSignal, RemovalOf
<1>3. SlotIs(Current, new', s, SlotWithActions(Current, s, none))
  BY <1>1, <1>2, ClearedIs DEF RemovalOf
<1>4. /\ none \in Seq(Ids) /\ none = Dispatcher!Without(old, Elems(old))
      /\ Elems(none) = {} /\ \A i, j \in DOMAIN none : none[i] = none[j] => i = j
  BY <1>1, ClearIs DEF Elems
<1> HIDE DEF none
<1> QED
  BY <1>2, <1>3, <1>4, RemovalKeeps

LEMMA StoreDataKeeps ==
    ASSUME IInv, NEW a \in Addrs, StoreData(a)
    PROVE  IInv'
<1> USE NullAssumption DEF IInv
<1>1. /\ wpc = "store" /\ wpc' = "drainData"
      /\ dataRetired = {} /\ data' = a /\ dataRetired' = {data} /\ a # data
      /\ dataHeld' = dataHeld /\ hooks' = [hooks EXCEPT ![a] = new]
      /\ fallback' = fallback /\ fallbackRetired' = fallbackRetired /\ fallbackHeld' = fallbackHeld
      /\ prevs' = prevs /\ detected' = detected
      /\ call' = call /\ new' = new /\ issued' = issued /\ gone' = gone
      /\ hpc' = hpc /\ hsig' = hsig /\ chained' = chained /\ pos' = pos
      /\ disposition' = disposition /\ replaced' = replaced
  BY DEF StoreData, Data!Publish, fallbackVars, deliveryVars, osVars
<1>2. hooks \in [Addrs -> SignalData] /\ data \in Addrs /\ new \in SignalData
  BY DEF TypeOK
<1>3. Current' = new /\ hooks'[data] = Current /\ \A b \in Addrs \ {a} : hooks'[b] = hooks[b]
  BY <1>1, <1>2 DEF Current
<1>4. \A d \in Deliveries : hpc[d] \in {"chain", "actions"} => HasSlot(d)' = HasSlot(d)
  BY <1>1, <1>2, <1>3 DEF GuardsHeld, HasSlot, Current
<1>5. /\ \A s \in Signals : Current.signals[s] # Null => new.signals[s] # Null
      /\ new.next_id \in {Current.next_id, Current.next_id + 1}
      /\ Current.next_id \in Nat
  BY <1>1, CurrentType DEF CallKnown, OneSlotNew, Added, Removed
<1>6. TypeOK'
  BY <1>1, <1>2 DEF TypeOK
<1>7. GuardsHeld'
  BY <1>1 DEF GuardsHeld
<1>8. HeapKnown'
  BY <1>1, <1>3 DEF HeapKnown
<1>9. IdsUnique'
  <2>1. \A id \in issued \cup gone : id < new.next_id
    <3>1. TAKE id \in issued \cup gone
    <3>2. id \in Nat /\ id < Current.next_id
      BY MaxIdAssumption DEF TypeOK, Ids, IdsUnique
    <3> QED
      BY <1>5, <3>2
  <2>2. \A b \in dataRetired' : HasNone(hooks'[b], gone)
    BY <1>1, <1>3 DEF IdsUnique
  <2> QED
    BY <1>1, <1>3, <2>1, <2>2 DEF IdsUnique
<1>10. CallKnown'
  <2>1. call.op = "unregister" => new.next_id = Current.next_id
    BY <1>1 DEF CallKnown, Removed
  <2> QED
    BY <1>1, <1>3, <2>1 DEF CallKnown, Adding
<1>11. SlotsKnown'
  <2>1. \A s \in Signals : Current'.signals[s] # Null <=> replaced[s] # Null
    BY <1>1, <1>3, <1>5 DEF SlotsKnown
  <2>2. \A s \in Signals : \A b \in dataRetired' :
           hooks'[b].signals[s] # Null => hooks'[b].signals[s].prev = replaced[s]
    BY <1>1, <1>3 DEF SlotsKnown
  <2> QED
    BY <1>1, <1>3, <2>1, <2>2 DEF SlotsKnown
<1>12. DeliveriesKnow'
  <2>1. \A d \in Deliveries :
           Detected(prevs[fallbackHeld[d]], hsig[d])' = Detected(prevs[fallbackHeld[d]], hsig[d])
    BY <1>1 DEF Detected
  <2> QED
    BY <1>1, <1>3, <1>4, <1>5, <2>1 DEF DeliveriesKnow
<1>13. PreviousHandlerCalled'
  BY <1>1, <1>4 DEF PreviousHandlerCalled
<1>14. Rehooks'
  BY <1>1 DEF Rehooks, Rearms
<1> QED
  BY <1>6, <1>7, <1>8, <1>9, <1>10, <1>11, <1>12, <1>13, <1>14

LEMMA ReclaimDataKeeps ==
    ASSUME IInv, ReclaimData
    PROVE  IInv'
<1> USE NullAssumption DEF IInv
<1>1. /\ wpc = "drainData" /\ wpc' = "idle" /\ call' = NoCall /\ new' = EmptyData
      /\ data' = data /\ dataRetired' = {} /\ dataHeld' = dataHeld /\ hooks' = Dropped
      /\ \A d \in Deliveries : dataHeld[d] \notin dataRetired
      /\ fallback' = fallback /\ fallbackRetired' = fallbackRetired /\ fallbackHeld' = fallbackHeld
      /\ prevs' = prevs /\ detected' = detected
      /\ issued' = IF call.op = "register" THEN issued \cup call.ids ELSE issued
      /\ gone' = IF call.op = "register" THEN gone ELSE gone \cup call.ids
      /\ hpc' = hpc /\ hsig' = hsig /\ chained' = chained /\ pos' = pos
      /\ disposition' = disposition /\ replaced' = replaced
  BY DEF ReclaimData, DataReclaim, Data!Reclaim, Return, fallbackVars, deliveryVars, osVars
<1>2. /\ hooks \in [Addrs -> SignalData] /\ data \in Addrs \ dataRetired
      /\ Current \in SignalData /\ new = Current /\ Current.next_id \in Nat
  BY <1>1, CurrentType DEF TypeOK, HeapKnown, CallKnown
<1>3. Current' = Current
  BY <1>1, <1>2 DEF Current, Dropped
<1>4. \A d \in Deliveries : hpc[d] \in {"chain", "actions"} => HasSlot(d)' = HasSlot(d)
  <2>1. TAKE d \in Deliveries
  <2>2. HAVE hpc[d] \in {"chain", "actions"}
  <2>3. dataHeld[d] = data
    BY <1>1, <2>2 DEF GuardsHeld
  <2>4. hooks'[data] = hooks[data]
    BY <1>3, <1>1 DEF Current
  <2> QED
    BY <1>1, <2>3, <2>4 DEF HasSlot
<1>5. call.op \in {"register", "unregister"}
  BY <1>1 DEF CallKnown
<1>6. TypeOK'
  <2>1. Dropped \in [Addrs -> SignalData]
    BY <1>2, EmptyIs DEF Dropped
  <2>2. NoCall \in [op : {"none", "register", "unregister"},
                    signal : Signals \cup {Null}, ids : SUBSET Ids]
    BY DEF NoCall
  <2> HIDE DEF Dropped
  <2>3. call.ids \in SUBSET Ids
    BY DEF TypeOK
  <2> QED
    BY <1>1, <2>1, <2>2, <2>3, EmptyIs DEF TypeOK
<1>7. GuardsHeld'
  BY <1>1 DEF GuardsHeld
<1>8. HeapKnown'
  BY <1>1 DEF HeapKnown, Dropped
<1>9. IdsUnique'
  <2>1. \A id \in issued' \cup gone' : id < Current.next_id
    <3>1. \A id \in issued \cup gone : id < Current.next_id
      BY DEF IdsUnique
    <3>2. \A id \in call.ids : id < Current.next_id
      BY <1>2, <1>5 DEF CallKnown
    <3> QED
      BY <1>1, <3>1, <3>2
  <2>2. HasNone(Current, gone')
    BY <1>1, <1>2, <1>5 DEF IdsUnique, CallKnown, HasNone
  <2> QED
    BY <1>1, <1>3, <2>1, <2>2, EmptyIs DEF IdsUnique
<1>10. CallKnown'
  BY <1>1 DEF CallKnown, Adding, NoCall
<1>11. SlotsKnown'
  BY <1>1, <1>2, <1>3, EmptyIs DEF SlotsKnown
<1>12. DeliveriesKnow'
  <2>1. \A d \in Deliveries :
           Detected(prevs[fallbackHeld[d]], hsig[d])' = Detected(prevs[fallbackHeld[d]], hsig[d])
    BY <1>1 DEF Detected
  <2> QED
    BY <1>1, <1>3, <1>4, <2>1 DEF DeliveriesKnow
<1>13. PreviousHandlerCalled'
  BY <1>1, <1>4 DEF PreviousHandlerCalled
<1>14. Rehooks'
  BY <1>1 DEF Rehooks, Rearms
<1> QED
  BY <1>6, <1>7, <1>8, <1>9, <1>10, <1>11, <1>12, <1>13, <1>14

-----------------------------------------------------------------------------
LEMMA InitIInv == Init => IInv
<1> SUFFICES ASSUME Init PROVE IInv
  OBVIOUS
<1> USE NullAssumption DEF Init, Data!Init, Fallback!Init
<1>1. Current = EmptyData /\ new = EmptyData
  BY DEF Current
<1>2. EmptyData.next_id = 1
  BY DEF EmptyData
<1>3. TypeOK
  BY EmptyIs DEF TypeOK, Handlers, NoCall
<1>4. GuardsHeld /\ HeapKnown
  BY DEF GuardsHeld, HeapKnown
<1>5. IdsUnique
  BY <1>1, EmptyIs DEF IdsUnique
<1>6. CallKnown
  BY DEF CallKnown, Adding, NoCall
<1>7. SlotsKnown
  BY <1>1, EmptyIs, OursAssumption DEF SlotsKnown
<1>8. DeliveriesKnow /\ PreviousHandlerCalled /\ Rehooks
  BY DEF DeliveriesKnow, PreviousHandlerCalled, Rehooks
<1> QED
  BY <1>3, <1>4, <1>5, <1>6, <1>7, <1>8 DEF IInv

LEMMA NextKeeps == IInv /\ [Next]_vars => IInv'
<1> SUFFICES ASSUME IInv, [Next]_vars PROVE IInv'
  OBVIOUS
<1>1. ASSUME NEW s \in Signals, Register(s) \/ RegisterUnchecked(s) PROVE IInv'
  BY <1>1, BeginRegisterKeeps DEF Register, RegisterUnchecked
<1>2. ASSUME NEW s \in Signals, NEW id \in Ids, BeginUnregister(s, id) PROVE IInv'
  BY <1>2, BeginUnregisterKeeps
<1>3. ASSUME NEW s \in Signals, BeginUnregisterSignal(s) PROVE IInv'
  BY <1>3, BeginUnregisterSignalKeeps
<1>4. ASSUME NEW s \in Signals, NEW d \in Deliveries, Deliver(d, s) PROVE IInv'
  BY <1>4, DeliverKeeps
<1>5. ASSUME NEW s \in Signals, NEW f \in Foreign, ForeignInstall(s, f) PROVE IInv'
  BY <1>5, ForeignKeeps
<1>6. CASE Call
  BY <1>6, FailsKeeps, StoreFallbackKeeps, StoreDataKeeps, ReclaimFallbackKeeps,
     InstallKeeps, ReclaimDataKeeps DEF Call, Straight
<1>7. ASSUME NEW d \in Deliveries, Handle(d) PROVE IInv'
  BY <1>7, RearmKeeps, ReadFallbackKeeps, ReadDataKeeps, ChainKeeps, RunActionKeeps,
     ReleaseDataKeeps, ReleaseFallbackKeeps DEF Handle
<1>8. CASE UNCHANGED vars
  <2>1. GuardsHeld' /\ DeliveriesKnow' /\ PreviousHandlerCalled' /\ Rehooks'
    BY <1>8, SameDeliveries DEF vars, IInv
  <2>2. HeapKnown' /\ IdsUnique' /\ CallKnown'
    BY <1>8, SameLists DEF vars, IInv, dataVars, fallbackVars
  <2>3. SlotsKnown'
    BY <1>8, SameSlots DEF vars, IInv, dataVars, fallbackVars, osVars
  <2>4. TypeOK'
    BY <1>8 DEF vars, IInv, TypeOK, dataVars, fallbackVars, callVars, deliveryVars, osVars
  <2> QED
    BY <2>1, <2>2, <2>3, <2>4 DEF IInv
<1> QED
  BY <1>1, <1>2, <1>3, <1>4, <1>5, <1>6, <1>7, <1>8 DEF Next

(* The registry keeps its invariant: guards, lists, slots and the call in  *)
(* progress fit together at every step (register_unchecked_impl,           *)
(* unregister, unregister_signal and the handler).                         *)
THEOREM Invariance == Spec => []IInv
BY InitIInv, NextKeeps, PTL DEF Spec

(* What a delivery that has read the hooks works on. *)
LEMMA SnapshotIs ==
    ASSUME IInv, NEW d \in Deliveries, hpc[d] \in {"chain", "actions"}
    PROVE  /\ hsig[d] \in Signals /\ dataHeld[d] \in {data} \cup dataRetired
           /\ dataHeld[d] \in Addrs
           /\ Snapshot(d) \in Seq(Ids) /\ Len(Snapshot(d)) \in Nat
           /\ Elems(Snapshot(d)) \cap gone = {}
           /\ pos[d] \in Nat \ {0}
           /\ Elems(Todo(d)) \subseteq Elems(Snapshot(d))
<1> USE NullAssumption DEF IInv
<1>1. hsig[d] \in Signals /\ dataHeld[d] \in {data} \cup dataRetired
  BY DEF DeliveriesKnow, GuardsHeld
<1>2. dataHeld[d] \in Addrs /\ hooks[dataHeld[d]] \in SignalData /\ pos[d] \in Nat \ {0}
  BY <1>1 DEF TypeOK
<1>3. Snapshot(d) \in Seq(Ids) /\ Len(Snapshot(d)) \in Nat
  BY <1>1, <1>2, ActionsType DEF Snapshot
<1>4. HasNone(hooks[dataHeld[d]], gone)
  BY <1>1 DEF IdsUnique, Current
<1>5. Elems(Snapshot(d)) \cap gone = {}
  BY <1>1, <1>4 DEF HasNone, Snapshot
<1>6. Elems(Todo(d)) \subseteq Elems(Snapshot(d))
  <2>1. CASE hpc[d] = "chain"
    BY <2>1 DEF Todo
  <2>2. CASE hpc[d] = "actions"
    <3> DEFINE s == Snapshot(d)
               t == SubSeq(s, pos[d], Len(s))
    <3>1. t = Todo(d)
      BY <2>2 DEF Todo
    <3>2. \A i \in pos[d] .. Len(s) : s[i] \in Ids
      BY <1>2, <1>3
    <3>3. /\ t \in Seq(Ids)
          /\ Len(t) = IF pos[d] <= Len(s) THEN Len(s) - pos[d] + 1 ELSE 0
          /\ \A i \in 1 .. Len(s) - pos[d] + 1 : t[i] = s[pos[d] + i - 1]
      BY <1>2, <1>3, <3>2, SubSeqProperties
    <3>4. Len(s) \in Nat /\ DOMAIN s = 1 .. Len(s) /\ DOMAIN t = 1 .. Len(t)
      BY <1>3, <3>3
    <3> HIDE DEF s, t
    <3>5. \A i \in DOMAIN t : pos[d] + i - 1 \in DOMAIN s /\ t[i] = s[pos[d] + i - 1]
      BY <1>2, <3>3, <3>4
    <3>6. Elems(t) \subseteq Elems(s)
      BY <3>5 DEF Elems
    <3> QED
      BY <3>1, <3>6 DEF s
  <2> QED
    BY <2>1, <2>2
<1> QED
  BY <1>1, <1>2, <1>3, <1>5, <1>6

(* A delivery that has read no hooks has none to run. *)
LEMMA TodoElsewhere ==
    ASSUME NEW d \in Deliveries, hpc[d] \notin {"chain", "actions"}
    PROVE  Todo(d) = << >>
BY DEF Todo

(* A hook never runs after its removal returned: no list that a delivery   *)
(* may still work on has it, since the removal waited for those that did.  *)
THEOREM Safe == Spec => []GoneNeverRuns
<1>1. IInv => GoneNeverRuns
  <2> SUFFICES ASSUME IInv, NEW d \in Deliveries PROVE Elems(Todo(d)) \cap gone = {}
    BY DEF GoneNeverRuns
  <2>1. CASE hpc[d] \in {"chain", "actions"}
    BY <2>1, SnapshotIs
  <2>2. CASE hpc[d] \notin {"chain", "actions"}
    BY <2>2, TodoElsewhere DEF Elems
  <2> QED
    BY <2>1, <2>2
<1> QED
  BY <1>1, Invariance, PTL

(* Every delivery calls the handler of the program that we replaced, or    *)
(* the one we had detected when the delivery came before the slot.         *)
THEOREM Chains == Spec => []PreviousHandlerCalled
<1>1. IInv => PreviousHandlerCalled
  BY DEF IInv
<1> QED
  BY <1>1, Invariance, PTL

(* A signal we hooked is only unhooked under a handler about to hook it    *)
(* again.                                                                  *)
THEOREM Hooked == Spec => []StaysHooked
<1>1. IInv => StaysHooked
  BY DEF IInv, Rehooks, StaysHooked
<1> QED
  BY <1>1, Invariance, PTL

-----------------------------------------------------------------------------
(* The registry implements Dispatch. *)

(* Steps that change no list, seen from outside. *)
LEMMA SameTodo ==
    ASSUME NEW d \in Deliveries, hsig'[d] = hsig[d], pos'[d] = pos[d], hpc'[d] = hpc[d],
           dataHeld'[d] = dataHeld[d],
           hpc[d] \in {"chain", "actions"} => hooks'[dataHeld[d]] = hooks[dataHeld[d]]
    PROVE  Todo(d)' = Todo(d)
BY DEF Todo, Snapshot

(* The steps of the registry that the abstract dispatch does not see. *)
Unseen ==
    /\ Current' = Current /\ issued' = issued /\ gone' = gone
    /\ \A d \in Deliveries : Todo(d)' = Todo(d)

LEMMA UnseenStutters ==
    ASSUME Unseen
    PROVE  UNCHANGED Dispatcher!vars
BY DEF Unseen, Dispatcher!vars

LEMMA CallsUnseen ==
    ASSUME NEW s \in Signals,
           \/ BeginRegister(s) \/ DetectFails \/ InstallFails \/ Install
           \/ \E a \in Addrs : StoreFallback(a)
           \/ ReclaimFallback
           \/ BeginUnregisterSignal(s)
           \/ \E id \in Ids : BeginUnregister(s, id) /\ id \in Elems(ActionsOf(Current, s))
           \/ \E f \in Foreign : ForeignInstall(s, f)
    PROVE  Unseen
<1>1. UNCHANGED << dataVars, deliveryVars, issued, gone >>
  BY DEF BeginRegister, DetectFails, InstallFails, Install, StoreFallback, ReclaimFallback,
     BeginUnregister, BeginUnregisterSignal, ForeignInstall, callVars
<1>2. \A d \in Deliveries : Todo(d)' = Todo(d)
  BY <1>1, SameTodo DEF dataVars, deliveryVars
<1> QED
  BY <1>1, <1>2 DEF Unseen, Current, dataVars

LEMMA HandlersUnseen ==
    ASSUME IInv, NEW d \in Deliveries, NEW s \in Signals,
           \/ Deliver(d, s) \/ Rearm(d) \/ ReadFallback(d) \/ Chain(d)
           \/ ReleaseData(d) \/ ReleaseFallback(d)
    PROVE  Unseen
<1>1. /\ hooks' = hooks /\ data' = data /\ issued' = issued /\ gone' = gone
      /\ \A e \in Deliveries \ {d} : hsig'[e] = hsig[e] /\ pos'[e] = pos[e]
                                  /\ hpc'[e] = hpc[e] /\ dataHeld'[e] = dataHeld[e]
  BY DEF Deliver, Rearm, ReadFallback, Chain, ReleaseData, ReleaseFallback, Data!Release,
     dataVars, callVars, deliveryVars, IInv, TypeOK
<1>2. \A e \in Deliveries \ {d} : Todo(e)' = Todo(e)
  BY <1>1, SameTodo
<1>3. Todo(d)' = Todo(d)
  <2>1. CASE Deliver(d, s) \/ Rearm(d) \/ ReadFallback(d) \/ ReleaseFallback(d)
    <3>1. hpc[d] \notin {"chain", "actions"} /\ hpc'[d] \notin {"chain", "actions"}
      BY <2>1 DEF Deliver, Rearm, ReadFallback, ReleaseFallback, IInv, TypeOK
    <3> QED
      BY <3>1 DEF Todo
  <2>2. CASE Chain(d)
    <3>1. /\ hpc[d] = "chain" /\ hpc'[d] = "actions" /\ pos'[d] = 1
          /\ hsig' = hsig /\ dataHeld' = dataHeld
      BY <2>2 DEF Chain, IInv, TypeOK, dataVars
    <3>2. Snapshot(d)' = Snapshot(d)
      BY <1>1, <3>1 DEF Snapshot
    <3>3. Todo(d)' = SubSeq(Snapshot(d), 1, Len(Snapshot(d))) /\ Todo(d) = Snapshot(d)
      BY <3>1, <3>2 DEF Todo
    <3> QED
      BY <3>1, <3>3, SnapshotIs, SubSeqFull
  <2>3. CASE ReleaseData(d)
    <3>1. hpc[d] = "actions" /\ hpc'[d] = "leaving" /\ pos[d] > Len(Snapshot(d))
      BY <2>3 DEF ReleaseData, IInv, TypeOK
    <3>2. Todo(d) = SubSeq(Snapshot(d), pos[d], Len(Snapshot(d))) /\ Todo(d)' = << >>
      BY <3>1 DEF Todo
    <3>3. Len(Snapshot(d)) \in Int /\ pos[d] \in Int
      BY <3>1, SnapshotIs
    <3> QED
      BY <3>1, <3>2, <3>3, SubSeqEmpty
  <2> QED
    BY <2>1, <2>2, <2>3
<1> QED
  BY <1>1, <1>2, <1>3 DEF Unseen, Current

(* The steps it sees. *)
LEMMA StoreDataImplements ==
    ASSUME IInv, NEW a \in Addrs, StoreData(a)
    PROVE  Dispatcher!Next
<1> DEFINE s == call.signal
           H == [t \in Signals |-> ActionsOf(Current, t)]
<1>1. /\ wpc = "store" /\ hooks' = [hooks EXCEPT ![a] = new] /\ data' = a /\ a # data
      /\ dataRetired = {} /\ dataHeld' = dataHeld
      /\ UNCHANGED << deliveryVars, issued, gone >>
  BY DEF StoreData, Data!Publish
<1>2. hooks \in [Addrs -> SignalData] /\ data \in Addrs /\ s \in Signals
  BY <1>1 DEF IInv, TypeOK, CallKnown
<1>3. Current' = new
  BY <1>1, <1>2 DEF Current
<1>4. \A d \in Deliveries : Todo(d)' = Todo(d)
  <2>1. TAKE d \in Deliveries
  <2>2. hpc[d] \in {"chain", "actions"} => hooks'[dataHeld[d]] = hooks[dataHeld[d]]
    BY <1>1, <1>2, SnapshotIs
  <2> QED
    BY <1>1, <2>2, SameTodo DEF deliveryVars
<1>5. OneSlotNew
  BY <1>1 DEF IInv, CallKnown
<1>6. \A t \in Signals \ {s} : ActionsOf(new, t) = ActionsOf(Current, t)
  BY <1>5 DEF OneSlotNew, ActionsOf
<1>7. /\ H' = [H EXCEPT ![s] = ActionsOf(new, s)]
      /\ [d \in Deliveries |-> Todo(d)]' = [d \in Deliveries |-> Todo(d)]
      /\ issued' = issued /\ gone' = gone
  BY <1>1, <1>2, <1>3, <1>4, <1>6
<1>8. CASE call.op = "register"
  <2> DEFINE id == Current.next_id
  <2>1. Added /\ call.ids = {new.next_id - 1} /\ id \in Nat
    BY <1>1, <1>8, CurrentType DEF IInv, CallKnown
  <2>2. call.ids = {id}
    BY <2>1 DEF Added
  <2>3. id \in Ids
    BY <2>2 DEF IInv, TypeOK
  <2>4. id \notin issued /\ \A t \in Signals : id \notin Elems(ActionsOf(Current, t))
    BY <2>1 DEF IInv, IdsUnique, IdsBelow
  <2>5. H' = [H EXCEPT ![s] = Append(H[s], id)]
    BY <1>2, <1>7, <2>1 DEF Added
  <2>6. \A t \in Signals : id \notin Dispatcher!Elems(H[t])
    BY <2>4 DEF Dispatcher!Elems, Elems
  <2>7. Dispatcher!Add(s, id)
    BY <1>7, <2>4, <2>5, <2>6 DEF Dispatcher!Add
  <2> QED
    BY <1>2, <2>3, <2>7 DEF Dispatcher!Next
<1>9. CASE call.op = "unregister"
  <2>1. Removed /\ call.ids \in SUBSET Ids
    BY <1>1, <1>9 DEF IInv, CallKnown, TypeOK
  <2>2. H' = [H EXCEPT ![s] = Dispatcher!Without(H[s], call.ids)]
    BY <1>2, <1>7, <2>1 DEF Removed
  <2>3. Dispatcher!Remove(s, call.ids)
    BY <1>7, <2>2 DEF Dispatcher!Remove
  <2> QED
    BY <1>2, <2>1, <2>3 DEF Dispatcher!Next
<1> QED
  BY <1>1, <1>8, <1>9 DEF IInv, CallKnown

(* Ids that no list and no delivery has may be retired. *)
LEMMA RetireImplements ==
    ASSUME IInv, NEW ids \in SUBSET Ids, HasNone(Current, ids),
           \A d \in Deliveries : dataHeld[d] \in {data, Null},
           gone' = gone \cup ids, issued' = issued, Current' = Current,
           \A d \in Deliveries : Todo(d)' = Todo(d)
    PROVE  Dispatcher!Next
<1>1. \A s \in Signals : Dispatcher!Elems(ActionsOf(Current, s)) \cap ids = {}
  BY DEF HasNone, Dispatcher!Elems, Elems
<1>2. \A d \in Deliveries : Elems(Todo(d)) \cap ids = {}
  <2>1. TAKE d \in Deliveries
  <2>2. CASE hpc[d] \in {"chain", "actions"}
    <3>1. Elems(Todo(d)) \subseteq Elems(Snapshot(d)) /\ hsig[d] \in Signals /\ dataHeld[d] \in Addrs
      BY <2>2, SnapshotIs
    <3>2. Snapshot(d) = ActionsOf(Current, hsig[d])
      BY <3>1, NullAssumption DEF Snapshot, Current
    <3> QED
      BY <3>1, <3>2 DEF HasNone
  <2>3. CASE hpc[d] \notin {"chain", "actions"}
    BY <2>3, TodoElsewhere DEF Elems
  <2> QED
    BY <2>2, <2>3
<1>3. \A d \in Deliveries : Dispatcher!Elems(Todo(d)) \cap ids = {}
  BY <1>2 DEF Dispatcher!Elems, Elems
<1>4. Dispatcher!Retire(ids)
  BY <1>1, <1>3 DEF Dispatcher!Retire
<1> QED
  BY <1>4 DEF Dispatcher!Next

LEMMA ReclaimDataImplements ==
    ASSUME IInv, ReclaimData
    PROVE  Dispatcher!Next
<1>1. /\ wpc = "drainData" /\ data' = data /\ dataHeld' = dataHeld /\ hooks' = Dropped
      /\ \A d \in Deliveries : dataHeld[d] \notin dataRetired
      /\ issued' = IF call.op = "register" THEN issued \cup call.ids ELSE issued
      /\ gone' = IF call.op = "register" THEN gone ELSE gone \cup call.ids
      /\ hpc' = hpc /\ hsig' = hsig /\ pos' = pos
  BY DEF ReclaimData, DataReclaim, Data!Reclaim, deliveryVars
<1>2. data \in Addrs \ dataRetired /\ new = Current /\ Current.next_id \in Nat
  BY <1>1, CurrentType DEF IInv, TypeOK, HeapKnown, CallKnown
<1>3. Current' = Current
  BY <1>1, <1>2 DEF Current, Dropped
<1>4. \A d \in Deliveries : dataHeld[d] \in {data, Null}
  BY <1>1 DEF IInv, GuardsHeld
<1>5. \A d \in Deliveries : Todo(d)' = Todo(d)
  <2>1. TAKE d \in Deliveries
  <2>2. hpc[d] \in {"chain", "actions"} => hooks'[dataHeld[d]] = hooks[dataHeld[d]]
    <3>1. hooks'[data] = hooks[data]
      BY <1>1, <1>3 DEF Current
    <3> QED
      BY <1>4, <3>1, SnapshotIs, NullAssumption
  <2> QED
    BY <1>1, <2>2, SameTodo
<1>6. CASE call.op = "register"
  <2>1. PICK id : call.ids = {id} /\ \A i \in issued : i < id
    BY <1>6 DEF IInv, CallKnown
  <2>2. id \in Ids /\ id \in Nat
    <3>1. call.ids \in SUBSET Ids
      BY DEF IInv, TypeOK
    <3> QED
      BY <2>1, <3>1, MaxIdAssumption DEF Ids
  <2>3. id \notin issued
    BY <2>1, <2>2
  <2>4. Dispatcher!Issue(id)
    BY <1>1, <1>3, <1>5, <1>6, <2>1, <2>3 DEF Dispatcher!Issue
  <2> QED
    BY <2>2, <2>4 DEF Dispatcher!Next
<1>7. CASE call.op = "unregister"
  <2>1. HasNone(Current, call.ids) /\ call.ids \in SUBSET Ids
    BY <1>2, <1>7 DEF IInv, CallKnown, TypeOK
  <2> QED
    BY <1>1, <1>3, <1>4, <1>5, <1>7, <2>1, RetireImplements
<1> QED
  BY <1>1, <1>6, <1>7 DEF IInv, CallKnown

LEMMA BeginUnregisterImplements ==
    ASSUME IInv, NEW s \in Signals, NEW id \in Ids, BeginUnregister(s, id)
    PROVE  Dispatcher!Next \/ Unseen
<1>1. CASE id \in Elems(ActionsOf(Current, s))
  BY <1>1, CallsUnseen
<1>2. CASE id \notin Elems(ActionsOf(Current, s))
  <2>1. /\ wpc = "idle" /\ gone' = gone \cup {id} /\ issued' = issued
        /\ \A t \in Signals : id \notin Elems(ActionsOf(Current, t))
        /\ UNCHANGED << dataVars, deliveryVars >>
    BY <1>2 DEF BeginUnregister
  <2>2. \A d \in Deliveries : dataHeld[d] \in {data, Null}
    BY <2>1 DEF IInv, GuardsHeld, HeapKnown
  <2>3. Current' = Current /\ \A d \in Deliveries : Todo(d)' = Todo(d)
    BY <2>1, SameTodo DEF dataVars, deliveryVars, Current
  <2>4. HasNone(Current, {id})
    BY <2>1 DEF HasNone
  <2> QED
    BY <2>1, <2>2, <2>3, <2>4, RetireImplements
<1> QED
  BY <1>1, <1>2

LEMMA ReadDataImplements ==
    ASSUME IInv, NEW d \in Deliveries, ReadData(d)
    PROVE  Dispatcher!Next
<1> DEFINE T == [e \in Deliveries |-> Todo(e)]
           s == hsig[d]
<1>1. /\ hpc[d] = "fallback" /\ hpc'[d] = "chain" /\ dataHeld'[d] = data
      /\ data' = data /\ hooks' = hooks /\ hsig' = hsig /\ issued' = issued /\ gone' = gone
      /\ \A e \in Deliveries \ {d} : pos'[e] = pos[e]
                                  /\ hpc'[e] = hpc[e] /\ dataHeld'[e] = dataHeld[e]
  BY DEF ReadData, Data!Read, callVars, IInv, TypeOK
<1>2. s \in Signals
  BY <1>1 DEF IInv, DeliveriesKnow
<1>3. Todo(d) = << >> /\ Todo(d)' = ActionsOf(Current, s)
  BY <1>1 DEF Todo, Snapshot, Current
<1>4. \A e \in Deliveries \ {d} : Todo(e)' = Todo(e)
  BY <1>1, SameTodo
<1>5. T' = [T EXCEPT ![d] = ActionsOf(Current, s)]
  BY <1>3, <1>4
<1>6. Current' = Current
  BY <1>1 DEF Current
<1>7. Dispatcher!Start(d, s)
  BY <1>1, <1>2, <1>3, <1>5, <1>6 DEF Dispatcher!Start
<1> QED
  BY <1>2, <1>7 DEF Dispatcher!Next

LEMMA RunActionImplements ==
    ASSUME IInv, NEW d \in Deliveries, RunAction(d)
    PROVE  Dispatcher!Next
<1> DEFINE T == [e \in Deliveries |-> Todo(e)]
           s == Snapshot(d)
           p == pos[d]
<1>1. /\ hpc[d] = "actions" /\ hpc' = hpc /\ p <= Len(s) /\ pos'[d] = p + 1
      /\ dataHeld' = dataHeld /\ data' = data /\ hooks' = hooks /\ hsig' = hsig
      /\ issued' = issued /\ gone' = gone
      /\ \A e \in Deliveries \ {d} : pos'[e] = pos[e]
  BY DEF RunAction, dataVars, callVars, IInv, TypeOK
<1>2. s \in Seq(Ids) /\ Len(s) \in Nat /\ p \in Nat \ {0} /\ Snapshot(d)' = s
  BY <1>1, SnapshotIs DEF Snapshot
<1>3. Todo(d) = SubSeq(s, p, Len(s)) /\ Todo(d)' = SubSeq(s, p + 1, Len(s))
  BY <1>1, <1>2 DEF Todo
<1>4. \A e \in Deliveries \ {d} : Todo(e)' = Todo(e)
  BY <1>1, SameTodo
<1> HIDE DEF s, p
<1>5. p \in 1 .. Len(s) /\ Len(s) \in p .. Len(s)
  BY <1>1, <1>2
<1>6. Tail(SubSeq(s, p, Len(s))) = SubSeq(s, p + 1, Len(s))
  BY <1>2, <1>5, HeadTailOfSubSeq
<1>7. SubSeq(s, p, Len(s)) # << >>
  <2>1. \A i \in p .. Len(s) : s[i] \in Ids
    BY <1>2, <1>5
  <2>2. Len(SubSeq(s, p, Len(s))) = Len(s) - p + 1
    BY <1>2, <1>5, <2>1, SubSeqProperties
  <2>3. Len(SubSeq(s, p, Len(s))) # 0
    BY <1>2, <1>5, <2>2
  <2>4. Len(<< >>) = 0
    OBVIOUS
  <2> QED
    BY Zenon, <2>3, <2>4
<1>8. T' = [T EXCEPT ![d] = Tail(Todo(d))] /\ Todo(d) # << >>
  BY <1>3, <1>4, <1>6, <1>7
<1>9. Current' = Current
  BY <1>1 DEF Current
<1>10. Dispatcher!Run(d)
  BY <1>1, <1>8, <1>9 DEF Dispatcher!Run
<1> QED
  BY <1>10 DEF Dispatcher!Next

LEMMA StepImplements == IInv /\ [Next]_vars => [Dispatcher!Next]_(Dispatcher!vars)
<1> SUFFICES ASSUME IInv, [Next]_vars PROVE Dispatcher!Next \/ Unseen
  BY UnseenStutters
<1>1. ASSUME NEW s \in Signals, Register(s) \/ RegisterUnchecked(s) PROVE Unseen
  BY <1>1, CallsUnseen DEF Register, RegisterUnchecked
<1>2. ASSUME NEW s \in Signals, NEW id \in Ids, BeginUnregister(s, id)
      PROVE  Dispatcher!Next \/ Unseen
  BY <1>2, BeginUnregisterImplements
<1>3. ASSUME NEW s \in Signals, BeginUnregisterSignal(s) PROVE Unseen
  BY <1>3, CallsUnseen
<1>4. ASSUME NEW s \in Signals, NEW d \in Deliveries, Deliver(d, s) PROVE Unseen
  BY <1>4, HandlersUnseen
<1>5. ASSUME NEW s \in Signals, NEW f \in Foreign, ForeignInstall(s, f) PROVE Unseen
  BY <1>5, CallsUnseen
<1>6. CASE Call
  <2>1. ASSUME NEW a \in Addrs, StoreData(a) PROVE Dispatcher!Next
    BY <2>1, StoreDataImplements
  <2>2. ASSUME ReclaimData PROVE Dispatcher!Next
    BY <2>2, ReclaimDataImplements
  <2>3. ASSUME \/ DetectFails \/ InstallFails \/ Install \/ ReclaimFallback
               \/ \E a \in Addrs : StoreFallback(a)
        PROVE  Unseen
    <3>1. call.signal \in Signals
      BY <2>3 DEF DetectFails, InstallFails, Install, ReclaimFallback, StoreFallback,
         IInv, CallKnown
    <3> QED
      BY <2>3, <3>1, CallsUnseen
  <2> QED
    BY <1>6, <2>1, <2>2, <2>3 DEF Call, Straight
<1>7. ASSUME NEW d \in Deliveries, Handle(d) PROVE Dispatcher!Next \/ Unseen
  <2>1. CASE ReadData(d)
    BY <2>1, ReadDataImplements
  <2>2. CASE RunAction(d)
    BY <2>2, RunActionImplements
  <2>3. CASE Rearm(d) \/ ReadFallback(d) \/ Chain(d) \/ ReleaseData(d) \/ ReleaseFallback(d)
    <3>1. hsig[d] \in Signals
      BY <2>3 DEF Rearm, ReadFallback, Chain, ReleaseData, ReleaseFallback, IInv, DeliveriesKnow
    <3> QED
      BY <2>3, <3>1, HandlersUnseen
  <2> QED
    BY <1>7, <2>1, <2>2, <2>3 DEF Handle
<1>8. CASE UNCHANGED vars
  <2>1. \A d \in Deliveries : Todo(d)' = Todo(d)
    BY <1>8, SameTodo DEF vars, dataVars, deliveryVars
  <2> QED
    BY <1>8, <2>1 DEF vars, dataVars, callVars, Unseen, Current
<1> QED
  BY <1>1, <1>2, <1>3, <1>4, <1>5, <1>6, <1>7, <1>8 DEF Next

(* A delivery runs the hooks of one instant, in the order of their         *)
(* registration, though hooks are copied, replaced and freed while it      *)
(* runs.                                                                   *)
THEOREM Implements == Spec => ImplementsDispatch
<1>1. Init => Dispatcher!Init
  <2> SUFFICES ASSUME Init PROVE Dispatcher!Init
    OBVIOUS
  <2>1. Current = EmptyData /\ issued = {} /\ gone = {}
        /\ \A d \in Deliveries : Todo(d) = << >>
    BY DEF Init, Data!Init, Current, Todo
  <2> QED
    BY <2>1, EmptyIs DEF Dispatcher!Init
<1> QED
  BY <1>1, StepImplements, Invariance, PTL DEF Spec, ImplementsDispatch, Dispatcher!Spec
=============================================================================
