-------------------------- MODULE LifecycleProofs ---------------------------
(***************************************************************************)
(* Whatever threads add and drop, and however their calls end, the vector  *)
(* of ids knows the hooks of the instance, a hook finds its slot ready,    *)
(* and the last drop leaves nothing: for any signals, threads, deliveries. *)
(***************************************************************************)
EXTENDS Lifecycle, FiniteSetTheorems, TLAPS

(* Where the hooks, the ids and the threads that change them stay as they  *)
(* are, so do the parts of the invariant that are about them.              *)
LEMMA SameHooks ==
    ASSUME IInv, UNCHANGED << hooks, todo, issued, ids >>,
           \A t \in Threads : \A where \in {"record", "wait"} :
               /\ pc'[t] = where <=> pc[t] = where
               /\ pc[t] = where => adding'[t] = adding[t],
           \A s \in Signals : slot[s] # "null" => slot'[s] # "null"
    PROVE  SlotsReady' /\ HooksRecorded' /\ RunsLive'
<1>1. \A s \in Signals : \A where \in {"record", "wait"} :
          Changing(s, where)' <=> Changing(s, where)
  BY DEF Changing
<1>2. NextId' = NextId /\ Left' = Left
  BY DEF NextId, Left
<1>3. HooksRecorded'
  BY <1>1, <1>2 DEF IInv, HooksRecorded
<1>4. RunsLive'
  <2>1. Live' = Live
    BY <1>2 DEF Live
  <2> QED
    BY <2>1 DEF IInv, RunsLive
<1> QED
  BY <1>3, <1>4 DEF IInv, SlotsReady

(* Where the channels stay as they are, and so do the threads that are     *)
(* about to register for one, the channels are known as before.            *)
LEMMA SameChannels ==
    ASSUME IInv, ids' = ids, owners = {} => owners' = {}, poisoned => poisoned',
           \A s \in Signals : slot'[s] = "channel" => slot[s] = "channel",
           \A t \in Threads : \A where \in {"register", "record"} :
               pc[t] = where => pc'[t] = where /\ adding'[t] = adding[t]
    PROVE  ChannelsKnown'
<1>1. \A s \in Signals : \A where \in {"register", "record"} :
          Changing(s, where) => Changing(s, where)'
  BY DEF Changing
<1> QED
  BY <1>1 DEF IInv, ChannelsKnown

(* The steps of a thread that do not touch the registry. *)
QuietStep(t) ==
    \/ \E s \in Signals : AddSignal(t, s)
    \/ AlreadyRegistered(t) \/ LockIds(t) \/ LockPanics(t)
    \/ InitSlot(t) \/ InitPanics(t) \/ RegisterPanics(t) \/ RegisterFails(t)
    \/ Built \/ CloneHandle(t) \/ CatchPanic(t) \/ CloseRead \/ DropHandle(t)
    \/ DropPanics(t) \/ DropState(t) \/ Dropped(t)

LEMMA QuietKeeps ==
    ASSUME IInv, NEW t \in Threads, QuietStep(t)
    PROVE  IInv'
<1> USE MainAssumption, NoneAssumption
    DEF IInv, TypeOK, At, Goto, Return, registryVars, storeVars, idsVars, callVars, osVars
<1>1. ASSUME NEW s \in Signals, AddSignal(t, s) PROVE IInv'
  <2> USE <1>1 DEF AddSignal
  <2>1. TypeOK'
    OBVIOUS
  <2>2. IdsLocked' /\ CallersOwn' /\ AddingNew' /\ RemovingOld'
    BY DEF IdsLocked, CallersOwn, AddingNew, RemovingOld
  <2>3. SlotsReady' /\ HooksRecorded' /\ RunsLive'
    BY SameHooks
  <2>4. LastDrops'
    BY DEF LastDrops, Left, CallersOwn
  <2>5. Clean' /\ DropsLast' /\ ChannelsKnown'
    BY DEF Clean, DropsLast, ChannelsKnown, Changing, IdsLocked, AddingNew, CallersOwn
  <2> QED
    BY <2>1, <2>2, <2>3, <2>4, <2>5
<1>2. ASSUME AlreadyRegistered(t) PROVE IInv'
  <2> USE <1>2 DEF AlreadyRegistered, CanLock
  <2>1. TypeOK'
    OBVIOUS
  <2>2. IdsLocked' /\ CallersOwn' /\ AddingNew' /\ RemovingOld'
    BY DEF IdsLocked, CallersOwn, AddingNew, RemovingOld
  <2>3. SlotsReady' /\ HooksRecorded' /\ RunsLive'
    BY SameHooks
  <2>4. LastDrops'
    BY DEF LastDrops, Left, CallersOwn
  <2>5. Clean' /\ DropsLast'
    BY DEF Clean, DropsLast
  <2>6. ChannelsKnown'
    BY SameChannels
  <2> QED
    BY <2>1, <2>2, <2>3, <2>4, <2>5, <2>6
<1>3. ASSUME LockIds(t) PROVE IInv'
  <2> USE <1>3 DEF LockIds, CanLock, Known
  <2>1. TypeOK'
    OBVIOUS
  <2>2. IdsLocked' /\ CallersOwn' /\ AddingNew' /\ RemovingOld'
    BY DEF IdsLocked, CallersOwn, AddingNew, RemovingOld
  <2>3. SlotsReady' /\ HooksRecorded' /\ RunsLive'
    BY SameHooks
  <2>4. LastDrops'
    BY DEF LastDrops, Left, CallersOwn
  <2>5. Clean' /\ DropsLast'
    BY DEF Clean, DropsLast
  <2>6. ChannelsKnown'
    BY SameChannels
  <2> QED
    BY <2>1, <2>2, <2>3, <2>4, <2>5, <2>6
<1>4. ASSUME LockPanics(t) PROVE IInv'
  <2> USE <1>4 DEF LockPanics, Panic, Unwind
  <2>1. TypeOK'
    OBVIOUS
  <2>2. IdsLocked' /\ CallersOwn' /\ AddingNew' /\ RemovingOld'
    BY DEF IdsLocked, CallersOwn, AddingNew, RemovingOld
  <2>3. SlotsReady' /\ HooksRecorded' /\ RunsLive'
    BY SameHooks
  <2>4. LastDrops'
    BY DEF LastDrops, Left, CallersOwn
  <2>5. Clean' /\ DropsLast' /\ ChannelsKnown'
    BY DEF Clean, DropsLast, ChannelsKnown, Changing, IdsLocked, AddingNew, CallersOwn
  <2> QED
    BY <2>1, <2>2, <2>3, <2>4, <2>5
<1>5. ASSUME InitSlot(t) PROVE IInv'
  <2> USE <1>5 DEF InitSlot, SlotInitialised
  <2>1. TypeOK'
    OBVIOUS
  <2>2. IdsLocked' /\ CallersOwn' /\ AddingNew' /\ RemovingOld'
    BY DEF IdsLocked, CallersOwn, AddingNew, RemovingOld
  <2>3. SlotsReady' /\ HooksRecorded' /\ RunsLive'
    BY SameHooks
  <2>4. LastDrops'
    BY DEF LastDrops, Left, CallersOwn
  <2>5. Clean' /\ DropsLast'
    BY DEF Clean, DropsLast, IdsLocked, CallersOwn
  <2>6. ChannelsKnown'
    <3>1. \A r \in Signals : Changing(r, "register") \/ Changing(r, "record") =>
              r = adding[t] \/ Changing(r, "register")' \/ Changing(r, "record")'
      BY DEF Changing
    <3>2. adding[t] \in Signals /\ Changing(adding[t], "register")'
      BY DEF Changing, AddingNew
    <3>3. \A r \in Signals : slot'[r] = "channel" => r = adding[t] \/ slot[r] = "channel"
      BY <3>2
    <3> QED
      BY <3>1, <3>2, <3>3 DEF ChannelsKnown
  <2> QED
    BY <2>1, <2>2, <2>3, <2>4, <2>5, <2>6
<1>6. ASSUME InitPanics(t) PROVE IInv'
  <2> USE <1>6 DEF InitPanics, Panic, Unwind
  <2>1. TypeOK'
    OBVIOUS
  <2>2. IdsLocked' /\ CallersOwn' /\ AddingNew' /\ RemovingOld'
    BY DEF IdsLocked, CallersOwn, AddingNew, RemovingOld
  <2>3. SlotsReady' /\ HooksRecorded' /\ RunsLive'
    BY SameHooks
  <2>4. LastDrops'
    BY DEF LastDrops, Left, CallersOwn
  <2>5. Clean' /\ DropsLast' /\ ChannelsKnown'
    BY DEF Clean, DropsLast, ChannelsKnown, Changing, IdsLocked, AddingNew, CallersOwn
  <2> QED
    BY <2>1, <2>2, <2>3, <2>4, <2>5
<1>7. ASSUME RegisterPanics(t) PROVE IInv'
  <2> USE <1>7 DEF RegisterPanics, Panic, Unwind
  <2>1. TypeOK'
    OBVIOUS
  <2>2. IdsLocked' /\ CallersOwn' /\ AddingNew' /\ RemovingOld'
    BY DEF IdsLocked, CallersOwn, AddingNew, RemovingOld
  <2>3. SlotsReady' /\ HooksRecorded' /\ RunsLive'
    BY SameHooks
  <2>4. LastDrops'
    BY DEF LastDrops, Left, CallersOwn
  <2>5. Clean' /\ DropsLast' /\ ChannelsKnown'
    BY DEF Clean, DropsLast, ChannelsKnown, Changing, IdsLocked, AddingNew, CallersOwn
  <2> QED
    BY <2>1, <2>2, <2>3, <2>4, <2>5
<1>8. ASSUME RegisterFails(t) PROVE IInv'
  <2> USE <1>8 DEF RegisterFails
  <2>1. TypeOK'
    OBVIOUS
  <2>2. IdsLocked' /\ CallersOwn' /\ AddingNew' /\ RemovingOld'
    <3>0. /\ pc'[t] \in {"closing", "idle"}
          /\ \A u \in Threads \ {t} : pc'[u] = pc[u]
          /\ locker = t
      BY DEF IdsLocked
    <3>1. IdsLocked'
      BY <3>0 DEF IdsLocked
    <3>2. CallersOwn'
      BY <3>0 DEF CallersOwn
    <3>3. AddingNew'
      BY <3>0 DEF AddingNew
    <3>4. RemovingOld'
      BY <3>0 DEF RemovingOld
    <3> QED
      BY <3>1, <3>2, <3>3, <3>4
  <2>3. SlotsReady' /\ HooksRecorded' /\ RunsLive'
    BY SameHooks
  <2>4. LastDrops'
    BY DEF LastDrops, Left, CallersOwn
  <2>5. Clean' /\ DropsLast'
    BY DEF Clean, DropsLast, IdsLocked, CallersOwn
  <2>6. ChannelsKnown'
    <3>1. \A r \in Signals : Changing(r, "register") \/ Changing(r, "record") =>
              r = adding[t] \/ Changing(r, "register")' \/ Changing(r, "record")'
      BY DEF Changing
    <3> QED
      BY <3>1 DEF ChannelsKnown
  <2> QED
    BY <2>1, <2>2, <2>3, <2>4, <2>5, <2>6
<1>9. ASSUME Built PROVE IInv'
  <2> USE <1>9 DEF Built
  <2>1. TypeOK'
    OBVIOUS
  <2>2. IdsLocked' /\ CallersOwn' /\ AddingNew' /\ RemovingOld'
    BY DEF IdsLocked, CallersOwn, AddingNew, RemovingOld
  <2>3. SlotsReady' /\ HooksRecorded' /\ RunsLive'
    BY SameHooks
  <2>4. LastDrops'
    BY DEF LastDrops, Left, CallersOwn
  <2>5. Clean' /\ DropsLast' /\ ChannelsKnown'
    BY DEF Clean, DropsLast, ChannelsKnown, Changing, IdsLocked, AddingNew, CallersOwn
  <2> QED
    BY <2>1, <2>2, <2>3, <2>4, <2>5
<1>10. ASSUME CloneHandle(t) PROVE IInv'
  <2> USE <1>10 DEF CloneHandle
  <2>1. TypeOK'
    OBVIOUS
  <2>2. IdsLocked' /\ CallersOwn' /\ AddingNew' /\ RemovingOld'
    BY DEF IdsLocked, CallersOwn, AddingNew, RemovingOld
  <2>3. SlotsReady' /\ HooksRecorded' /\ RunsLive'
    BY SameHooks
  <2>4. LastDrops'
    BY DEF LastDrops, Left, CallersOwn
  <2>5. Clean' /\ DropsLast' /\ ChannelsKnown'
    BY DEF Clean, DropsLast, ChannelsKnown, Changing, IdsLocked, AddingNew, CallersOwn
  <2> QED
    BY <2>1, <2>2, <2>3, <2>4, <2>5
<1>11. ASSUME CatchPanic(t) PROVE IInv'
  <2> USE <1>11 DEF CatchPanic
  <2>1. TypeOK'
    OBVIOUS
  <2>2. IdsLocked' /\ CallersOwn' /\ AddingNew' /\ RemovingOld'
    BY DEF IdsLocked, CallersOwn, AddingNew, RemovingOld
  <2>3. SlotsReady' /\ HooksRecorded' /\ RunsLive'
    BY SameHooks
  <2>4. LastDrops'
    BY DEF LastDrops, Left, CallersOwn
  <2>5. Clean' /\ DropsLast' /\ ChannelsKnown'
    BY DEF Clean, DropsLast, ChannelsKnown, Changing, IdsLocked, AddingNew, CallersOwn
  <2> QED
    BY <2>1, <2>2, <2>3, <2>4, <2>5
<1>12. ASSUME CloseRead PROVE IInv'
  <2> USE <1>12 DEF CloseRead
  <2>1. TypeOK'
    OBVIOUS
  <2>2. IdsLocked' /\ CallersOwn' /\ AddingNew' /\ RemovingOld'
    BY DEF IdsLocked, CallersOwn, AddingNew, RemovingOld
  <2>3. SlotsReady' /\ HooksRecorded' /\ RunsLive'
    BY SameHooks
  <2>4. LastDrops'
    BY DEF LastDrops, Left, CallersOwn
  <2>5. Clean' /\ DropsLast' /\ ChannelsKnown'
    BY DEF Clean, DropsLast, ChannelsKnown, Changing, IdsLocked, AddingNew, CallersOwn
  <2> QED
    BY <2>1, <2>2, <2>3, <2>4, <2>5
<1>13. ASSUME DropHandle(t) PROVE IInv'
  <2> USE <1>13 DEF DropHandle
  <2>1. TypeOK'
    OBVIOUS
  <2>2. IdsLocked' /\ CallersOwn' /\ AddingNew' /\ RemovingOld'
    BY DEF IdsLocked, CallersOwn, AddingNew, RemovingOld
  <2>3. SlotsReady' /\ HooksRecorded' /\ RunsLive'
    BY SameHooks
  <2>4. LastDrops'
    BY DEF LastDrops, Left, CallersOwn
  <2>5. Clean' /\ DropsLast' /\ ChannelsKnown'
    BY DEF Clean, DropsLast, ChannelsKnown, Changing, IdsLocked, AddingNew, CallersOwn
  <2> QED
    BY <2>1, <2>2, <2>3, <2>4, <2>5
<1>14. ASSUME DropPanics(t) PROVE IInv'
  <2> USE <1>14 DEF DropPanics
  <2>1. TypeOK'
    OBVIOUS
  <2>2. IdsLocked' /\ CallersOwn' /\ AddingNew' /\ RemovingOld'
    BY DEF IdsLocked, CallersOwn, AddingNew, RemovingOld
  <2>3. SlotsReady' /\ HooksRecorded' /\ RunsLive'
    BY SameHooks
  <2>4. LastDrops'
    BY DEF LastDrops, Left, CallersOwn
  <2>5. Clean' /\ DropsLast' /\ ChannelsKnown'
    BY DEF Clean, DropsLast, ChannelsKnown, Changing, IdsLocked, AddingNew, CallersOwn
  <2> QED
    BY <2>1, <2>2, <2>3, <2>4, <2>5
<1>15. ASSUME DropState(t) PROVE IInv'
  <2> USE <1>15 DEF DropState
  <2>1. TypeOK'
    OBVIOUS
  <2>2. IdsLocked' /\ CallersOwn' /\ AddingNew' /\ RemovingOld'
    BY DEF IdsLocked, CallersOwn, AddingNew, RemovingOld
  <2>3. SlotsReady' /\ HooksRecorded' /\ RunsLive'
    BY SameHooks
  <2>4. LastDrops'
    BY DEF LastDrops, Left, CallersOwn
  <2>5. Clean' /\ DropsLast' /\ ChannelsKnown'
    BY DEF Clean, DropsLast, ChannelsKnown, Changing, IdsLocked, AddingNew, CallersOwn
  <2> QED
    BY <2>1, <2>2, <2>3, <2>4, <2>5
<1>16. ASSUME Dropped(t) PROVE IInv'
  <2> USE <1>16 DEF Dropped
  <2>1. TypeOK'
    OBVIOUS
  <2>2. IdsLocked' /\ CallersOwn' /\ AddingNew' /\ RemovingOld'
    BY DEF IdsLocked, CallersOwn, AddingNew, RemovingOld
  <2>3. SlotsReady' /\ HooksRecorded' /\ RunsLive'
    BY SameHooks
  <2>4. LastDrops'
    BY DEF LastDrops, Left, CallersOwn
  <2>5. Clean' /\ DropsLast' /\ ChannelsKnown'
    BY DEF Clean, DropsLast, ChannelsKnown, Changing, IdsLocked, AddingNew, CallersOwn
  <2> QED
    BY <2>1, <2>2, <2>3, <2>4, <2>5
<1> QED
  BY <1>1, <1>2, <1>3, <1>4, <1>5, <1>6, <1>7, <1>8, <1>9, <1>10, <1>11, <1>12, <1>13, <1>14, <1>15, <1>16 DEF QuietStep

(* The next id is one of the numbers from one. *)
LEMMA NextIdNat == ASSUME TypeOK PROVE NextId \in Nat \ {0}
<1>1. IsFiniteSet(1 .. MaxId)
  BY MaxIdAssumption, FS_Interval
<1>2. IsFiniteSet(issued)
  BY <1>1, FS_Subset DEF TypeOK, Ids
<1> QED
  BY <1>2, FS_CardinalityType DEF NextId

(* Of one hook, nothing is left when it is removed. *)
LEMMA WithoutOnly == \A i : Registered!Without(<< i >>, {i}) = << >>
<1> TAKE i
<1> DEFINE left == Registered!Places(<< i >>, {i})
           hook(n) == << i >>[Registered!Place(<< i >>, {i}, n)]
<1>1. left = {}
  BY DEF Registered!Places
<1>2. \A S : Registered!Cardinality(S) = Cardinality(S)
  BY DEF Registered!Cardinality, Cardinality
<1>3. Registered!Cardinality(left) = 0
  BY <1>1, <1>2, FS_EmptySet
<1>4. Registered!Without(<< i >>, {i}) = [n \in 1 .. Registered!Cardinality(left) |-> hook(n)]
  BY DEF Registered!Without
<1> HIDE DEF left, hook
<1>5. Registered!Without(<< i >>, {i}) = [n \in 1 .. 0 |-> hook(n)]
  BY <1>3, <1>4
<1>6. [n \in 1 .. 0 |-> hook(n)] = << >>
  OBVIOUS
<1> QED
  BY <1>5, <1>6

(* The hook appears while its id is about to be recorded. *)
LEMMA RegisterKeeps ==
    ASSUME IInv, NEW t \in Threads, Register(t)
    PROVE  IInv'
<1> DEFINE s == adding[t]
<1> USE DEF IInv, Register, Running, Goto, At, idsVars, callVars, osVars, Registered!Add
<1>1. /\ s \in Signals /\ ids[s] = None /\ slot[s] # "null" /\ locker = t
      /\ NextId \in Ids /\ NextId' = NextId
      /\ adding' = adding /\ pc' = [pc EXCEPT ![t] = "record"]
      /\ pc[t] = "register"
  BY NextIdNat, MaxIdAssumption DEF AddingNew, IdsLocked, Ids, NextId, TypeOK
<1>2. \A u \in Threads \ {t} : pc[u] \notin {"init", "register", "record", "unregister", "wait"}
  BY <1>1 DEF IdsLocked
<1>3. hooks[s] = << >>
  BY <1>1, <1>2 DEF HooksRecorded, Changing
<1>4. hooks' = [hooks EXCEPT ![s] = << NextId >>]
  BY <1>1, <1>3 DEF TypeOK
<1>5. TypeOK'
  BY <1>1, <1>4 DEF TypeOK
<1>6. IdsLocked' /\ CallersOwn' /\ AddingNew' /\ RemovingOld' /\ SlotsReady'
  BY <1>1, <1>2 DEF IdsLocked, CallersOwn, AddingNew, RemovingOld, SlotsReady, TypeOK
<1>7. HooksRecorded'
  <2>1. \A r \in Signals : ~Changing(r, "record") /\ ~Changing(r, "wait")
    BY <1>1, <1>2 DEF Changing
  <2>2. \A r \in Signals : (Changing(r, "record")' <=> r = s) /\ ~Changing(r, "wait")'
    BY <1>1, <1>2 DEF Changing, TypeOK
  <2>3. \A r \in Signals : hooks'[r] = IF r = s THEN << NextId >> ELSE hooks[r]
    BY <1>1, <1>4 DEF TypeOK
  <2> QED
    BY <1>1, <2>1, <2>2, <2>3 DEF HooksRecorded
<1>8. RunsLive'
  <2>1. Live \subseteq Live'
    BY <1>1, <1>2 DEF Live, Left, TypeOK
  <2> QED
    BY <2>1 DEF RunsLive
<1>9. LastDrops'
  BY <1>1 DEF LastDrops, CallersOwn, Left
<1>10. Clean' /\ DropsLast' /\ ChannelsKnown'
  <2>1. \A r \in Signals : Changing(r, "register") \/ Changing(r, "record") => r = s
    BY <1>1, <1>2 DEF Changing
  <2>2. Changing(s, "record")'
    BY <1>1 DEF Changing, TypeOK
  <2>3. Clean' /\ DropsLast'
    BY <1>1 DEF Clean, DropsLast
  <2>4. ChannelsKnown'
    BY <2>1, <2>2 DEF ChannelsKnown
  <2> QED
    BY <2>3, <2>4
<1> QED
  BY <1>5, <1>6, <1>7, <1>8, <1>9, <1>10

(* The id of the new hook gets into the vector. *)
LEMMA RecordKeeps ==
    ASSUME IInv, NEW t \in Threads, Record(t)
    PROVE  IInv'
<1> DEFINE s == adding[t]
<1> USE DEF IInv, Record, Return, At, callVars, osVars, Registered!Issue
<1>1. /\ s \in Signals /\ ids[s] = None /\ slot[s] # "null" /\ locker = t
      /\ pc' = [pc EXCEPT ![t] = "idle"] /\ pc[t] = "record" /\ t \in owners
  BY DEF AddingNew, IdsLocked, CallersOwn
<1>2. \A u \in Threads \ {t} : pc[u] \notin {"init", "register", "record", "unregister", "wait"}
  BY <1>1 DEF IdsLocked
<1>3. hooks[s] = << NextId >>
  BY <1>1 DEF HooksRecorded, Changing
<1>4. NextId \in Ids /\ NextId # None
  <2> DEFINE id == NextId
  <2>1. hooks[s] \in Seq(Ids)
    BY <1>1 DEF TypeOK
  <2> HIDE DEF id, s
  <2>2. << id >> \in Seq(Ids)
    BY <1>3, <2>1 DEF id
  <2>3. id \in Ids
    BY <2>2
  <2> QED
    BY <2>3, NoneAssumption DEF Ids, id
<1>5. ids' = [ids EXCEPT ![s] = NextId]
  OBVIOUS
<1>6. TypeOK'
  BY <1>1, <1>4, <1>5 DEF TypeOK
<1>7. IdsLocked' /\ CallersOwn' /\ AddingNew' /\ RemovingOld' /\ SlotsReady'
  BY <1>1, <1>2, <1>5 DEF IdsLocked, CallersOwn, AddingNew, RemovingOld, SlotsReady, TypeOK
<1>8. HooksRecorded'
  <2>1. \A r \in Signals : (Changing(r, "record") <=> r = s) /\ ~Changing(r, "wait")
    BY <1>1, <1>2 DEF Changing
  <2>2. \A r \in Signals : ~Changing(r, "record")' /\ ~Changing(r, "wait")'
    BY <1>1, <1>2 DEF Changing, TypeOK
  <2>3. \A r \in Signals : ids'[r] = IF r = s THEN NextId ELSE ids[r]
    BY <1>1, <1>5 DEF TypeOK
  <2> QED
    BY <1>3, <1>4, <2>1, <2>2, <2>3 DEF HooksRecorded
<1>9. RunsLive'
  <2>1. Live \subseteq Live'
    BY <1>1, <1>2, <1>4, <1>5 DEF Live, Left, TypeOK
  <2> QED
    BY <2>1 DEF RunsLive
<1>10. LastDrops'
  BY <1>1 DEF LastDrops
<1>11. Clean' /\ DropsLast' /\ ChannelsKnown'
  <2>1. \A r \in Signals : Changing(r, "register") \/ Changing(r, "record") => r = s
    BY <1>1, <1>2 DEF Changing
  <2>2. ids'[s] # None /\ \A r \in Signals \ {s} : ids'[r] = ids[r]
    BY <1>1, <1>4, <1>5 DEF TypeOK
  <2>3. Clean' /\ DropsLast'
    BY <1>1 DEF Clean, DropsLast
  <2>4. ChannelsKnown'
    BY <2>1, <2>2 DEF ChannelsKnown
  <2> QED
    BY <2>3, <2>4
<1> QED
  BY <1>6, <1>7, <1>8, <1>9, <1>10, <1>11

(* A hook is taken out of the registry. *)
LEMMA UnregisterKeeps ==
    ASSUME IInv, NEW t \in Threads, NEW s \in Signals, Unregister(t, s)
    PROVE  IInv'
<1> USE DEF IInv, Unregister, Running, At, idsVars, osVars, Registered!Remove
<1>1. /\ ids[s] # None /\ locker = t /\ pc[t] = "unregister"
      /\ pc' = [pc EXCEPT ![t] = "wait"] /\ adding' = [adding EXCEPT ![t] = s]
  BY DEF IdsLocked, Left
<1>2. \A u \in Threads \ {t} : pc[u] \notin {"init", "register", "record", "unregister", "wait"}
  BY <1>1 DEF IdsLocked
<1>3. hooks[s] = << ids[s] >>
  BY <1>1, <1>2 DEF HooksRecorded, Changing
<1>4. hooks' = [hooks EXCEPT ![s] = << >>]
  <2>1. hooks' = [hooks EXCEPT ![s] = Registered!Without(hooks[s], {ids[s]})]
    OBVIOUS
  <2> QED
    BY <1>3, <2>1, WithoutOnly
<1>5. TypeOK'
  BY <1>1, <1>4 DEF TypeOK
<1>6. IdsLocked' /\ CallersOwn' /\ AddingNew' /\ RemovingOld' /\ SlotsReady'
  BY <1>1, <1>2 DEF IdsLocked, CallersOwn, AddingNew, RemovingOld, SlotsReady, TypeOK
<1>7. HooksRecorded'
  <2>1. \A r \in Signals : ~Changing(r, "record") /\ ~Changing(r, "wait")
    BY <1>1, <1>2 DEF Changing
  <2>2. \A r \in Signals : ~Changing(r, "record")' /\ (Changing(r, "wait")' <=> r = s)
    BY <1>1, <1>2 DEF Changing, TypeOK
  <2>3. \A r \in Signals : hooks'[r] = IF r = s THEN << >> ELSE hooks[r]
    BY <1>4 DEF TypeOK
  <2> QED
    BY <2>1, <2>2, <2>3 DEF HooksRecorded
<1>8. RunsLive'
  <2>1. Live \subseteq Live'
    BY <1>1, <1>2 DEF Live, Left, TypeOK
  <2> QED
    BY <2>1 DEF RunsLive
<1>9. LastDrops'
  BY <1>1 DEF LastDrops, TypeOK
<1>10. Clean' /\ DropsLast' /\ ChannelsKnown'
  BY <1>1, <1>2 DEF Clean, DropsLast, ChannelsKnown, Changing, IdsLocked, CallersOwn, TypeOK
<1> QED
  BY <1>5, <1>6, <1>7, <1>8, <1>9, <1>10

(* ... and its id forgotten, as no handler runs it. *)
LEMMA UnregisteredKeeps ==
    ASSUME IInv, NEW t \in Threads, Unregistered(t)
    PROVE  IInv'
<1> DEFINE s == adding[t]
<1> USE DEF IInv, Unregistered, Removed, Goto, At, callVars, osVars, Registered!Retire
<1>1. /\ s \in Signals /\ ids[s] # None /\ locker = t /\ pc[t] = "wait"
      /\ pc' = [pc EXCEPT ![t] = "unregister"] /\ adding' = adding
      /\ ids' = [ids EXCEPT ![s] = None]
  BY DEF IdsLocked, RemovingOld, TypeOK
<1>2. \A u \in Threads \ {t} : pc[u] \notin {"init", "register", "record", "unregister", "wait"}
  BY <1>1 DEF IdsLocked
<1>3. TypeOK'
  BY <1>1 DEF TypeOK
<1>4. IdsLocked' /\ CallersOwn' /\ AddingNew' /\ RemovingOld' /\ SlotsReady'
  BY <1>1, <1>2 DEF IdsLocked, CallersOwn, AddingNew, RemovingOld, SlotsReady, TypeOK
<1>5. HooksRecorded'
  BY <1>1, <1>2 DEF HooksRecorded, Changing, TypeOK
<1>6. RunsLive'
  <2>1. SUFFICES ASSUME NEW d \in Deliveries PROVE Registered!Elems(todo'[d]) \subseteq Live'
    BY DEF RunsLive
  <2>2. ids[s] \notin Registered!Elems(todo[d])
    OBVIOUS
  <2>3. Live \subseteq Live' \cup {ids[s]}
    BY <1>1, <1>2 DEF Live, Left, TypeOK
  <2> QED
    BY <2>2, <2>3 DEF RunsLive
<1>7. LastDrops'
  BY <1>1 DEF LastDrops, TypeOK
<1>8. Clean' /\ DropsLast' /\ ChannelsKnown'
  BY <1>1, <1>2 DEF Clean, DropsLast, ChannelsKnown, Changing, IdsLocked, CallersOwn, TypeOK
<1> QED
  BY <1>3, <1>4, <1>5, <1>6, <1>7, <1>8

(* A handler changes nothing but what it has still to run. *)
LEMMA HandlerKeeps ==
    ASSUME IInv, todo' \in [Deliveries -> Seq(Ids)],
           \A d \in Deliveries : Registered!Elems(todo'[d]) \subseteq Live,
           host' \in [Deliveries -> Threads \cup {None}], raised' \subseteq Deliveries,
           raised' # {} => SIGPIPE \in Signals, ahead' \subseteq Deliveries,
           UNCHANGED << hooks, issued, gone, writer, idsVars, slot, owners, pc, adding, callVars,
                        readEnd >>
    PROVE  IInv'
<1> USE DEF IInv, idsVars, callVars
<1>1. TypeOK'
  BY DEF TypeOK
<1>2. /\ IdsLocked' /\ CallersOwn' /\ AddingNew' /\ RemovingOld' /\ SlotsReady' /\ LastDrops'
      /\ Clean' /\ DropsLast' /\ ChannelsKnown'
  BY DEF IdsLocked, CallersOwn, AddingNew, RemovingOld, SlotsReady, LastDrops, Left,
     Clean, DropsLast, ChannelsKnown, Changing
<1>3. HooksRecorded'
  BY DEF HooksRecorded, Changing, NextId
<1>4. RunsLive'
  BY DEF RunsLive, Live, Left, NextId
<1> QED
  BY <1>1, <1>2, <1>3, <1>4

(* The hooks of a signal are live. *)
LEMMA HooksLive ==
    ASSUME IInv, NEW s \in Signals
    PROVE  Registered!Elems(hooks[s]) \subseteq Live
<1>1. CASE Changing(s, "record")
  <2>1. hooks[s] = << NextId >> /\ NextId \in Live
    BY <1>1 DEF IInv, HooksRecorded, Changing, Live
  <2> QED
    BY <2>1 DEF Registered!Elems
<1>2. CASE ~Changing(s, "record") /\ (ids[s] = None \/ Changing(s, "wait"))
  <2>1. hooks[s] = << >>
    BY <1>2 DEF IInv, HooksRecorded
  <2> QED
    BY <2>1 DEF Registered!Elems
<1>3. CASE ~Changing(s, "record") /\ ids[s] # None /\ ~Changing(s, "wait")
  <2>1. hooks[s] = << ids[s] >>
    BY <1>3 DEF IInv, HooksRecorded
  <2>2. ids[s] \in Live
    BY <1>3 DEF Live, Left
  <2> QED
    BY <2>1, <2>2 DEF Registered!Elems
<1> QED
  BY <1>1, <1>2, <1>3

LEMMA DeliverKeeps ==
    ASSUME IInv, NEW d \in Deliveries, NEW s \in Signals, Deliver(d, s)
    PROVE  IInv'
<1>1. todo' = [todo EXCEPT ![d] = hooks[s]] /\ UNCHANGED << hooks, issued, gone >>
  BY DEF Deliver, Registered!Start
<1>2. \A e \in Deliveries : Registered!Elems(todo'[e]) \subseteq Live
  BY <1>1, HooksLive DEF IInv, TypeOK, RunsLive
<1>3. host' \in [Deliveries -> Threads \cup {None}]
  BY DEF Deliver, IInv, TypeOK
<1> QED
  BY <1>1, <1>2, <1>3, HandlerKeeps DEF Deliver, storeVars, IInv, TypeOK

LEMMA StoreKeeps ==
    ASSUME IInv, NEW d \in Deliveries, Store(d)
    PROVE  IInv'
<1>1. todo[d] # << >> /\ todo' = [todo EXCEPT ![d] = Tail(todo[d])] /\ UNCHANGED << hooks, issued, gone >>
  BY DEF Store, Registered!Run
<1>2. todo[d] \in Seq(Ids)
  BY DEF IInv, TypeOK
<1>3. Tail(todo[d]) \in Seq(Ids) /\ Registered!Elems(Tail(todo[d])) \subseteq Registered!Elems(todo[d])
  BY <1>1, <1>2 DEF Registered!Elems
<1>4. \A e \in Deliveries : Registered!Elems(todo'[e]) \subseteq Live
  BY <1>1, <1>3 DEF IInv, TypeOK, RunsLive
<1>5. /\ host' \in [Deliveries -> Threads \cup {None}] /\ ahead' \subseteq Deliveries
      /\ raised' \subseteq Deliveries /\ (raised' # {} => SIGPIPE \in Signals)
  BY DEF Store, Leave, IInv, TypeOK
<1> QED
  BY <1>1, <1>3, <1>4, <1>5, HandlerKeeps DEF Store, IInv, TypeOK

LEMMA ReraisedKeeps ==
    ASSUME IInv, NEW d \in Deliveries, Reraised(d)
    PROVE  IInv'
<1>1. todo' = [todo EXCEPT ![d] = hooks[SIGPIPE]] /\ UNCHANGED << hooks, issued, gone >>
  BY DEF Reraised, Registered!Start
<1>2. SIGPIPE \in Signals
  BY DEF Reraised, IInv, TypeOK
<1>3. \A e \in Deliveries : Registered!Elems(todo'[e]) \subseteq Live
  BY <1>1, <1>2, HooksLive DEF IInv, TypeOK, RunsLive
<1> QED
  BY <1>1, <1>2, <1>3, HandlerKeeps DEF Reraised, Leave, IInv, TypeOK

(* Nothing is registered when with_pipe begins. *)
LEMMA InitInv == Init => IInv
<1> SUFFICES ASSUME Init PROVE IInv
  OBVIOUS
<1> USE MainAssumption DEF Init, Registered!Init
<1>1. TypeOK
  <2>1. << >> \in Seq(Ids)
    OBVIOUS
  <2>2. hooks \in [Signals -> Seq(Ids)] /\ todo \in [Deliveries -> Seq(Ids)]
    BY <2>1
  <2> QED
    BY <2>2 DEF TypeOK
<1>2. /\ IdsLocked /\ CallersOwn /\ AddingNew /\ RemovingOld /\ SlotsReady /\ LastDrops
      /\ Clean /\ DropsLast /\ ChannelsKnown
  BY DEF IdsLocked, CallersOwn, AddingNew, RemovingOld, SlotsReady, LastDrops, Left,
     Clean, DropsLast, ChannelsKnown
<1>3. HooksRecorded
  BY DEF HooksRecorded, Changing
<1>4. RunsLive
  BY DEF RunsLive, Registered!Elems
<1> QED
  BY <1>1, <1>2, <1>3, <1>4 DEF IInv

LEMMA NextInv == ASSUME IInv, [Next]_vars PROVE IInv'
<1>1. ASSUME NEW t \in Threads, Thread(t) PROVE IInv'
  <2>1. CASE Use(t)
    BY <2>1, QuietKeeps DEF Use, QuietStep
  <2>2. CASE Lock(t)
    BY <2>2, QuietKeeps DEF Lock, QuietStep
  <2>3. CASE Continue(t) \/ Wait(t)
    <3>1. ASSUME NEW s \in Signals, Unregister(t, s) PROVE IInv'
      BY <3>1, UnregisterKeeps
    <3>2. CASE Register(t)
      BY <3>2, RegisterKeeps
    <3>3. CASE Record(t)
      BY <3>3, RecordKeeps
    <3>4. CASE Unregistered(t)
      BY <3>4, UnregisteredKeeps
    <3>5. CASE QuietStep(t)
      BY <3>5, QuietKeeps
    <3> QED
      BY <2>3, <3>1, <3>2, <3>3, <3>4, <3>5 DEF Continue, Wait, QuietStep
  <2> QED
    BY <1>1, <2>1, <2>2, <2>3 DEF Thread
<1>2. ASSUME NEW d \in Deliveries, Handler(d) PROVE IInv'
  BY <1>2, StoreKeeps, ReraisedKeeps DEF Handler
<1>3. ASSUME NEW d \in Deliveries, NEW s \in Signals, Deliver(d, s) PROVE IInv'
  BY <1>3, DeliverKeeps
<1>4. CASE UNCHANGED vars
  <2> USE <1>4 DEF vars, registryVars, storeVars, idsVars, callVars, osVars
  <2>1. TypeOK'
    BY DEF IInv, TypeOK
  <2>2. /\ IdsLocked' /\ CallersOwn' /\ AddingNew' /\ RemovingOld' /\ LastDrops'
        /\ Clean' /\ DropsLast' /\ ChannelsKnown'
    BY DEF IInv, IdsLocked, CallersOwn, AddingNew, RemovingOld, LastDrops, Left,
       Clean, DropsLast, ChannelsKnown, Changing
  <2>3. SlotsReady' /\ HooksRecorded' /\ RunsLive'
    BY SameHooks
  <2> QED
    BY <2>1, <2>2, <2>3 DEF IInv
<1> QED
  BY <1>1, <1>2, <1>3, <1>4 DEF Next

(* The inductive invariant holds for ever. *)
THEOREM Invariance == Spec => []IInv
<1>1. Init => IInv
  BY InitInv
<1>2. IInv /\ [Next]_vars => IInv'
  BY NextInv
<1> QED
  BY <1>1, <1>2, PTL DEF Spec

(* The vector of ids knows exactly the hooks of the instance, one for each *)
(* signal (Handle::add_signal, Drop of DeliveryState).                     *)
THEOREM Recorded == Spec => []HooksRecorded
<1>1. IInv => HooksRecorded
  BY DEF IInv
<1> QED
  BY <1>1, Invariance, PTL

(* A handler finds the slot of its signal initialised, also when           *)
(* registrations failed or panicked before (PendingSignals::add_signal).   *)
THEOREM Ready == Spec => []NoneLost
<1>1. IInv => NoneLost
  <2> SUFFICES ASSUME IInv, NEW s \in Signals, slot[s] = "null"
               PROVE  /\ hooks[s] = << >>
                      /\ \A d \in Deliveries : ids[s] \notin Registered!Elems(todo[d])
    BY DEF NoneLost
  <2>1. ids[s] = None /\ ~Changing(s, "record")
    BY DEF IInv, SlotsReady, AddingNew, Changing
  <2>2. hooks[s] = << >>
    BY <2>1 DEF IInv, HooksRecorded
  <2>3. \A d \in Deliveries : todo[d] \in Seq(Ids)
    BY DEF IInv, TypeOK
  <2>4. \A d \in Deliveries : Registered!Elems(todo[d]) \subseteq Ids
    BY <2>3 DEF Registered!Elems
  <2>5. None \notin Ids
    BY NoneAssumption DEF Ids
  <2> QED
    BY <2>1, <2>2, <2>4, <2>5
<1> QED
  BY <1>1, Invariance, PTL

(* Two threads never initialise one slot, and a panic of the second init   *)
(* needs a signal that the kernel refused before (Exfiltrator::init).      *)
THEOREM Initialised == Spec => []InitOnce
<1>1. IInv => InitOnce
  <2> SUFFICES ASSUME IInv, NEW t \in Threads, pc[t] = "init", slot[adding[t]] = "channel"
               PROVE  adding[t] \in Refused
    BY DEF InitOnce
  <2>1. /\ locker = t /\ t \in owners /\ t # None
        /\ adding[t] \in Signals /\ ids[adding[t]] = None
    BY NoneAssumption DEF IInv, IdsLocked, CallersOwn, AddingNew
  <2>2. ~poisoned
    BY <2>1 DEF IInv, Clean
  <2>3. ~Changing(adding[t], "register") /\ ~Changing(adding[t], "record")
    BY <2>1 DEF IInv, IdsLocked, Changing
  <2> QED
    BY <2>1, <2>2, <2>3 DEF IInv, ChannelsKnown
<1> QED
  BY <1>1, Invariance, PTL

(* When the last Handle is dropped, and no panic came in between, no hook  *)
(* is left in the registry nor in a handler (Drop of DeliveryState).       *)
THEOREM Quiet == Spec => []QuietWhenOver
<1>1. IInv => QuietWhenOver
  <2> SUFFICES ASSUME IInv, Over, ~poisoned
               PROVE  /\ \A s \in Signals : hooks[s] = << >>
                      /\ \A d \in Deliveries : todo[d] = << >>
    BY DEF QuietWhenOver
  <2>1. Left = {}
    BY DEF IInv, LastDrops, Over
  <2>2. \A s \in Signals : hooks[s] = << >>
    BY <2>1 DEF IInv, HooksRecorded, Changing, Left, Over
  <2>3. Live = {}
    BY <2>1 DEF Live, Over
  <2>4. ASSUME NEW d \in Deliveries PROVE todo[d] = << >>
    <3>1. todo[d] \in Seq(Ids) /\ Registered!Elems(todo[d]) = {}
      BY <2>3 DEF IInv, TypeOK, RunsLive
    <3>2. Len(todo[d]) # 0 => todo[d][1] \in Registered!Elems(todo[d])
      BY <3>1 DEF Registered!Elems
    <3> QED
      BY <3>1, <3>2
  <2> QED
    BY <2>2, <2>4
<1> QED
  BY <1>1, Invariance, PTL
=============================================================================
