--------------------------- MODULE ActionsProofs ---------------------------
(***************************************************************************)
(* What the ready-made actions promise of the first and of the second      *)
(* Ctrl-C, of an emulated default and of a full pipe, for any table of     *)
(* signals, any pipes and any number of actions and deliveries.            *)
(***************************************************************************)
EXTENDS Actions, FiniteSetTheorems, TLAPS

(* The parts of the invariant that are about the lists of actions, and     *)
(* those about the state of the deliveries that run them.                  *)
Lists == TypeOK /\ Ordered
Rest == PipesReady /\ RaisesUnblocked /\ FlagBefore /\ ShutdownAhead /\ NeverBlocks

(* The next id is one more than there are; all ids are numbers. *)
LEMMA Numbers ==
    ASSUME TypeOK
    PROVE  /\ Ids \subseteq Nat \ {0} /\ Cardinality(issued) \in Nat
           /\ NextId = 1 + Cardinality(issued)
<1>1. IsFiniteSet(1 .. MaxId)
  BY ProcsAssumption, FS_Interval
<1>2. IsFiniteSet(issued)
  BY <1>1, FS_Subset DEF TypeOK, Ids
<1> QED
  BY <1>2, FS_CardinalityType, ProcsAssumption DEF NextId, Ids

(* What a delivery has still to run are actions of its signal. *)
LEMMA TodoIs ==
    ASSUME TypeOK, Ordered, NEW d \in Deliveries, NEW id \in Registered!Elems(todo[d])
    PROVE  /\ id \in Ids /\ signal[d] \in Signals /\ id \in Registered!Elems(hooks[signal[d]])
           /\ action[id] \in Offers /\ action[id].signal = signal[d]
<1>1. todo[d] \in Seq(Ids)
  BY DEF TypeOK
<1>2. id \in Ids
  BY <1>1 DEF Registered!Elems
<1> QED
  BY <1>2 DEF Ordered

(* The head of a list is the least of it. *)
LEMMA HeadFirst ==
    ASSUME NEW s \in Seq(Ids), s # << >>
    PROVE  /\ Head(s) \in Registered!Elems(s) /\ Head(s) \in Ids /\ Tail(s) \in Seq(Ids)
           /\ Registered!Elems(Tail(s)) \subseteq Registered!Elems(s)
           /\ Registered!Elems(s) = {Head(s)} \cup Registered!Elems(Tail(s))
           /\ Increasing(s) => /\ Increasing(Tail(s))
                               /\ \A j \in Registered!Elems(Tail(s)) : Head(s) < j
<1>1. /\ Len(s) \in Nat \ {0} /\ Head(s) = s[1] /\ Tail(s) \in Seq(Ids)
      /\ Len(Tail(s)) = Len(s) - 1 /\ \A i \in 1 .. Len(s) - 1 : Tail(s)[i] = s[i + 1]
  OBVIOUS
<1>2. DOMAIN s = 1 .. Len(s) /\ DOMAIN Tail(s) = 1 .. Len(s) - 1
  BY <1>1
<1>3. \A i \in DOMAIN s : i = 1 \/ (i - 1 \in DOMAIN Tail(s) /\ s[i] = Tail(s)[i - 1])
  BY <1>1, <1>2
<1>4. \A i \in DOMAIN Tail(s) : i + 1 \in DOMAIN s /\ Tail(s)[i] = s[i + 1]
  BY <1>1, <1>2
<1>5. Head(s) \in Registered!Elems(s) /\ Head(s) \in Ids
  BY <1>1, <1>2 DEF Registered!Elems
<1>6. Registered!Elems(Tail(s)) \subseteq Registered!Elems(s)
  BY <1>4 DEF Registered!Elems
<1>7. Registered!Elems(s) \subseteq {Head(s)} \cup Registered!Elems(Tail(s))
  BY <1>1, <1>3 DEF Registered!Elems
<1>8. ASSUME Increasing(s)
      PROVE  Increasing(Tail(s)) /\ \A j \in Registered!Elems(Tail(s)) : Head(s) < j
  BY <1>1, <1>2, <1>4, <1>8 DEF Increasing, Registered!Elems
<1> QED
  BY <1>1, <1>5, <1>6, <1>7, <1>8

(* A list to which a greater element is appended. *)
LEMMA AppendLast ==
    ASSUME NEW s \in Seq(Ids), NEW id \in Ids, Increasing(s), Ids \subseteq Nat,
           \A j \in Registered!Elems(s) : j < id
    PROVE  /\ Increasing(Append(s, id)) /\ Append(s, id) \in Seq(Ids)
           /\ Registered!Elems(Append(s, id)) = Registered!Elems(s) \cup {id}
<1> DEFINE a == Append(s, id)
<1>1. /\ a \in Seq(Ids) /\ Len(a) = Len(s) + 1 /\ Len(s) \in Nat
      /\ \A i \in 1 .. Len(s) : a[i] = s[i]
      /\ a[Len(s) + 1] = id
  OBVIOUS
<1>2. DOMAIN s = 1 .. Len(s) /\ DOMAIN a = 1 .. Len(s) + 1
  BY <1>1
<1> HIDE DEF a
<1>3. Registered!Elems(a) \subseteq Registered!Elems(s) \cup {id}
  BY <1>1, <1>2 DEF Registered!Elems
<1>4. Registered!Elems(s) \cup {id} \subseteq Registered!Elems(a)
  BY <1>1, <1>2 DEF Registered!Elems
<1>5. Increasing(a)
  <2> SUFFICES ASSUME NEW i \in 1 .. Len(s) + 1, NEW j \in 1 .. Len(s) + 1, i < j
               PROVE  a[i] < a[j]
    BY <1>2 DEF Increasing
  <2>1. i \in 1 .. Len(s) /\ a[i] = s[i] /\ s[i] \in Registered!Elems(s)
    BY <1>1, <1>2 DEF Registered!Elems
  <2> QED
    BY <1>1, <1>2, <2>1 DEF Increasing
<1> QED
  BY <1>1, <1>3, <1>4, <1>5 DEF a

-----------------------------------------------------------------------------
(* Each action preserves the invariant. *)

LEMMA RegisterKeeps ==
    ASSUME IInv, NEW a \in Offers, Register(a)
    PROVE  IInv'
<1> DEFINE s == a.signal
           n == NextId
<1> USE DEF procVars
<1>1. /\ a \in [signal : Signals, kind : Kinds, fd : Fds] /\ s \in Signals
      /\ n \in Ids /\ n' = n /\ Ids \subseteq Nat
  BY Numbers, OffersAssumption, ProcsAssumption DEF IInv, Register, NextId, Ids, Registered!Add
<1>2. /\ \A r \in Signals : n \notin Registered!Elems(hooks[r])
      /\ hooks' = [hooks EXCEPT ![s] = Append(@, n)]
      /\ action' = [action EXCEPT ![n] = a]
      /\ UNCHANGED << todo, issued, gone, flag, number, bytes, blocked, process, pc, signal, armed >>
  BY DEF Register, Registered!Add
<1> HIDE DEF n
<1>3. \A r \in Signals : /\ hooks[r] \in Seq(Ids) /\ Increasing(hooks[r])
                         /\ \A id \in Registered!Elems(hooks[r]) : id \in Ids /\ id < n
  <2> TAKE r \in Signals
  <2>1. hooks[r] \in Seq(Ids) /\ Increasing(hooks[r])
    BY DEF IInv, TypeOK, Ordered
  <2>2. ASSUME NEW id \in Registered!Elems(hooks[r]) PROVE id \in Ids /\ id < n
    <3>1. id \in Ids /\ id <= n /\ id # n
      BY <1>2, <2>1 DEF IInv, Ordered, Registered!Elems, n
    <3>2. id \in Nat /\ n \in Nat
      BY <1>1, <3>1
    <3> QED
      BY <3>1, <3>2
  <2> QED
    BY <2>1, <2>2
<1> HIDE DEF s
<1>4. /\ hooks' \in [Signals -> Seq(Ids)]
      /\ \A r \in Signals :
            /\ Increasing(hooks'[r])
            /\ Registered!Elems(hooks'[r]) =
                   Registered!Elems(hooks[r]) \cup (IF r = s THEN {n} ELSE {})
  <2>1. hooks'[s] = Append(hooks[s], n)
    BY <1>1, <1>2 DEF IInv, TypeOK
  <2>2. /\ Increasing(hooks'[s]) /\ hooks'[s] \in Seq(Ids)
        /\ Registered!Elems(hooks'[s]) = Registered!Elems(hooks[s]) \cup {n}
    BY <1>1, <1>3, <2>1, AppendLast
  <2>3. \A r \in Signals \ {s} : hooks'[r] = hooks[r]
    BY <1>1, <1>2 DEF IInv, TypeOK
  <2>4. DOMAIN hooks' = Signals /\ hooks' = [r \in Signals |-> hooks'[r]]
    BY <1>2 DEF IInv, TypeOK
  <2> QED
    BY <1>3, <2>2, <2>3, <2>4
<1>5. /\ action'[n] = a /\ \A id \in Ids \ {n} : action'[id] = action[id]
      /\ action' \in [Ids -> Offers \cup {Nothing}]
  BY <1>1, <1>2 DEF IInv, TypeOK
<1>6. \A d \in Deliveries : \A id \in Registered!Elems(todo[d]) : id \in Ids \ {n}
  BY <1>2, TodoIs DEF IInv
<1>7. blocking' \subseteq blocking /\ (a.kind = "pipe" => a.fd \in Sockets \/ a.fd \notin blocking')
  BY DEF Register, BlockingLeft, Method
<1>8. TypeOK'
  <2>1. disposition' \in [Signals -> {"default", "ours", "foreign"}]
    BY DEF IInv, TypeOK, Register
  <2> QED
    BY <1>2, <1>4, <1>5, <1>7, <2>1 DEF IInv, TypeOK
<1>9. Ordered'
  <2>1. \A r \in Signals : \A id \in Registered!Elems(hooks'[r]) :
            id <= n /\ action'[id] \in Offers /\ action'[id].signal = r
    <3> TAKE r \in Signals
    <3> TAKE id \in Registered!Elems(hooks'[r])
    <3>1. CASE id \in Registered!Elems(hooks[r])
      <4>0. id \in Ids /\ id < n
        BY <1>3, <3>1
      <4>1. id \in Ids \ {n} /\ id <= n
        <5>1. id \in Nat /\ n \in Nat
          BY <1>1, <4>0
        <5> QED
          BY <4>0, <5>1
      <4>2. action[id] \in Offers /\ action[id].signal = r
        BY <3>1 DEF IInv, Ordered
      <4> QED
        BY <1>5, <4>1, <4>2
    <3>2. CASE r = s /\ id = n
      BY <1>1, <1>5, <3>2 DEF s
    <3> QED
      BY <1>4, <3>1, <3>2
  <2>2. \A d \in Deliveries : \A id \in Registered!Elems(todo'[d]) :
            signal'[d] \in Signals /\ id \in Registered!Elems(hooks'[signal'[d]])
    <3> TAKE d \in Deliveries
    <3> TAKE id \in Registered!Elems(todo'[d])
    <3>1. id \in Registered!Elems(todo[d]) /\ signal'[d] = signal[d]
      BY <1>2
    <3>2. signal[d] \in Signals /\ id \in Registered!Elems(hooks[signal[d]])
      BY <3>1 DEF IInv, Ordered
    <3> QED
      BY <1>4, <3>1, <3>2
  <2>3. issued' = 1 .. Cardinality(issued') /\ \A d \in Deliveries : Increasing(todo'[d])
    BY <1>2 DEF IInv, Ordered
  <2> QED
    BY <1>1, <1>4, <2>1, <2>2, <2>3 DEF Ordered, n
<1>10. PipesReady'
  BY <1>5, <1>7 DEF IInv, PipesReady
<1>11. RaisesUnblocked' /\ NeverBlocks'
  BY <1>2 DEF IInv, RaisesUnblocked, NeverBlocks
<1>12. FlagBefore'
  <2> SUFFICES ASSUME NEW d \in Deliveries, flag = d
               PROVE  /\ pc[d] # "idle" /\ signal[d] \in Signals
                      /\ \E i \in Registered!Elems(hooks'[signal[d]]) :
                            /\ action'[i].kind = "flag"
                            /\ \A j \in Registered!Elems(todo[d]) : i < j
    BY <1>2 DEF FlagBefore
  <2>1. pc[d] # "idle" /\ signal[d] \in Signals
    BY DEF IInv, FlagBefore
  <2>2. PICK i \in Registered!Elems(hooks[signal[d]]) :
               /\ action[i].kind = "flag"
               /\ \A j \in Registered!Elems(todo[d]) : i < j
    BY DEF IInv, FlagBefore
  <2>3. i \in Ids \ {n}
    BY <1>1, <1>3, <2>1
  <2>4. i \in Registered!Elems(hooks'[signal[d]]) /\ action'[i] = action[i]
    BY <1>4, <1>5, <2>1, <2>3
  <2> QED
    BY <2>1, <2>2, <2>4
<1>13. ShutdownAhead'
  BY <1>2, <1>5, <1>6 DEF IInv, ShutdownAhead, TypeOK
<1> QED
  BY <1>8, <1>9, <1>10, <1>11, <1>12, <1>13 DEF IInv

(* The lists stay as they are, those of deliveries may get shorter.        *)
LEMMA SameLists ==
    ASSUME TypeOK, Ordered, UNCHANGED << hooks, issued, action >>,
           \A d \in Deliveries :
               /\ Increasing(todo'[d])
               /\ \A id \in Registered!Elems(todo'[d]) :
                      id \in Registered!Elems(todo[d]) /\ signal'[d] = signal[d]
    PROVE  Ordered'
<1>1. NextId' = NextId
  BY DEF NextId
<1> QED
  BY <1>1 DEF Ordered

(* The steps that run no action. *)
QuietStep ==
    \/ Clear \/ ContinueProcess
    \/ \E fd \in Fds : Drain(fd)
    \/ \E s \in Signals : DeliverDefault(s) \/ ForeignInstall(s)
    \/ \E s \in Known \cup Unknown : CallEmulate(s)
    \/ \E p \in Procs : Emulate(p)
    \/ \E d \in Deliveries : Exit(d) \/ Finish(d)

LEMMA QuietKeeps ==
    ASSUME IInv, QuietStep
    PROVE  IInv'
<1> USE ProcsAssumption, FlagAssumption
    DEF IInv, Goto, BackFrom, registryVars, dataVars, kernelVars, procVars, Procs
<1>0. StopItself \in Known /\ Kill \in Known /\ Signals \subseteq Known \cup Unknown
  BY TableAssumption DEF Known, Signals
<1>1. ASSUME Clear PROVE IInv'
  <2> USE <1>1 DEF Clear
  <2>1. TypeOK'
    BY <1>0 DEF TypeOK
  <2>2. Ordered'
    BY SameLists DEF TypeOK, Ordered
  <2>3. PipesReady' /\ RaisesUnblocked' /\ NeverBlocks'
    BY DEF TypeOK, PipesReady, RaisesUnblocked, NeverBlocks
  <2>4. FlagBefore'
    BY DEF TypeOK, FlagBefore
  <2>5. ShutdownAhead'
    BY DEF TypeOK, ShutdownAhead
  <2> QED
    BY <2>1, <2>2, <2>3, <2>4, <2>5
<1>2. ASSUME ContinueProcess PROVE IInv'
  <2> USE <1>2 DEF ContinueProcess
  <2>1. TypeOK'
    BY <1>0 DEF TypeOK
  <2>2. Ordered'
    BY SameLists DEF TypeOK, Ordered
  <2>3. PipesReady' /\ RaisesUnblocked' /\ NeverBlocks'
    BY DEF TypeOK, PipesReady, RaisesUnblocked, NeverBlocks
  <2>4. FlagBefore'
    BY DEF TypeOK, FlagBefore
  <2>5. ShutdownAhead'
    BY DEF TypeOK, ShutdownAhead
  <2> QED
    BY <2>1, <2>2, <2>3, <2>4, <2>5
<1>3. ASSUME NEW fd \in Fds, Drain(fd) PROVE IInv'
  <2> USE <1>3 DEF Drain
  <2>1. TypeOK'
    BY FdsAssumption DEF TypeOK
  <2>2. Ordered'
    BY SameLists DEF TypeOK, Ordered
  <2>3. PipesReady' /\ RaisesUnblocked' /\ NeverBlocks'
    BY DEF TypeOK, PipesReady, RaisesUnblocked, NeverBlocks
  <2>4. FlagBefore'
    BY DEF TypeOK, FlagBefore
  <2>5. ShutdownAhead'
    BY DEF TypeOK, ShutdownAhead
  <2> QED
    BY <2>1, <2>2, <2>3, <2>4, <2>5
<1>4. ASSUME NEW s \in Signals, DeliverDefault(s) PROVE IInv'
  <2> USE <1>4 DEF DeliverDefault
  <2>1. TypeOK'
    BY <1>0 DEF TypeOK
  <2>2. Ordered'
    BY SameLists DEF TypeOK, Ordered
  <2>3. PipesReady' /\ RaisesUnblocked' /\ NeverBlocks'
    BY DEF TypeOK, PipesReady, RaisesUnblocked, NeverBlocks
  <2>4. FlagBefore'
    BY DEF TypeOK, FlagBefore
  <2>5. ShutdownAhead'
    BY DEF TypeOK, ShutdownAhead
  <2> QED
    BY <2>1, <2>2, <2>3, <2>4, <2>5
<1>5. ASSUME NEW s \in Signals, ForeignInstall(s) PROVE IInv'
  <2> USE <1>5 DEF ForeignInstall
  <2>1. TypeOK'
    BY <1>0 DEF TypeOK
  <2>2. Ordered'
    BY SameLists DEF TypeOK, Ordered
  <2>3. PipesReady' /\ RaisesUnblocked' /\ NeverBlocks'
    BY DEF TypeOK, PipesReady, RaisesUnblocked, NeverBlocks
  <2>4. FlagBefore'
    BY DEF TypeOK, FlagBefore
  <2>5. ShutdownAhead'
    BY DEF TypeOK, ShutdownAhead
  <2> QED
    BY <2>1, <2>2, <2>3, <2>4, <2>5
<1>6. ASSUME NEW s \in Known \cup Unknown, CallEmulate(s) PROVE IInv'
  <2> USE <1>6 DEF CallEmulate
  <2>1. TypeOK'
    BY <1>0 DEF TypeOK
  <2>2. Ordered'
    BY SameLists DEF TypeOK, Ordered
  <2>3. PipesReady' /\ RaisesUnblocked' /\ NeverBlocks'
    BY DEF TypeOK, PipesReady, RaisesUnblocked, NeverBlocks
  <2>4. FlagBefore'
    BY DEF TypeOK, FlagBefore
  <2>5. ShutdownAhead'
    BY DEF TypeOK, ShutdownAhead
  <2> QED
    BY <2>1, <2>2, <2>3, <2>4, <2>5
<1>7. ASSUME NEW p \in Procs, EmulateIgnored(p) PROVE IInv'
  <2> USE <1>7 DEF EmulateIgnored
  <2>1. TypeOK'
    BY <1>0 DEF TypeOK
  <2>2. Ordered'
    BY SameLists DEF TypeOK, Ordered
  <2>3. PipesReady' /\ RaisesUnblocked' /\ NeverBlocks'
    BY DEF TypeOK, PipesReady, RaisesUnblocked, NeverBlocks
  <2>4. FlagBefore'
    <3>1. \A d \in Deliveries : signal'[d] = signal[d] /\ (pc[d] # "idle" => pc'[d] # "idle")
      BY DEF TypeOK
    <3> QED
      BY <3>1 DEF FlagBefore
  <2>5. ShutdownAhead'
    BY DEF TypeOK, ShutdownAhead
  <2> QED
    BY <2>1, <2>2, <2>3, <2>4, <2>5
<1>8. ASSUME NEW p \in Procs, EmulateStop(p) PROVE IInv'
  <2> USE <1>8 DEF EmulateStop
  <2>1. TypeOK'
    BY <1>0 DEF TypeOK
  <2>2. Ordered'
    BY SameLists DEF TypeOK, Ordered
  <2>3. PipesReady' /\ RaisesUnblocked' /\ NeverBlocks'
    BY DEF TypeOK, PipesReady, RaisesUnblocked, NeverBlocks
  <2>4. FlagBefore'
    <3>1. \A d \in Deliveries : signal'[d] = signal[d] /\ (pc[d] # "idle" => pc'[d] # "idle")
      BY DEF TypeOK
    <3> QED
      BY <3>1 DEF FlagBefore
  <2>5. ShutdownAhead'
    BY DEF TypeOK, ShutdownAhead
  <2> QED
    BY <2>1, <2>2, <2>3, <2>4, <2>5
<1>9. ASSUME NEW p \in Procs, EmulateKill(p) PROVE IInv'
  <2> USE <1>9 DEF EmulateKill
  <2>1. TypeOK'
    BY <1>0 DEF TypeOK
  <2>2. Ordered'
    BY SameLists DEF TypeOK, Ordered
  <2>3. PipesReady' /\ RaisesUnblocked' /\ NeverBlocks'
    BY DEF TypeOK, PipesReady, RaisesUnblocked, NeverBlocks
  <2>4. FlagBefore'
    BY DEF TypeOK, FlagBefore
  <2>5. ShutdownAhead'
    BY DEF TypeOK, ShutdownAhead
  <2> QED
    BY <2>1, <2>2, <2>3, <2>4, <2>5
<1>10. ASSUME NEW p \in Procs, RestoreDefault(p) PROVE IInv'
  <2> USE <1>10 DEF RestoreDefault
  <2>1. TypeOK'
    BY <1>0 DEF TypeOK
  <2>2. Ordered'
    BY SameLists DEF TypeOK, Ordered
  <2>3. PipesReady' /\ RaisesUnblocked' /\ NeverBlocks'
    BY DEF TypeOK, PipesReady, RaisesUnblocked, NeverBlocks
  <2>4. FlagBefore'
    BY DEF TypeOK, FlagBefore
  <2>5. ShutdownAhead'
    BY DEF TypeOK, ShutdownAhead
  <2> QED
    BY <2>1, <2>2, <2>3, <2>4, <2>5
<1>11. ASSUME NEW p \in Procs, Unblock(p) PROVE IInv'
  <2> USE <1>11 DEF Unblock, BlockedLeft
  <2>1. TypeOK'
    BY <1>0 DEF TypeOK
  <2>2. Ordered'
    BY SameLists DEF TypeOK, Ordered
  <2>3. PipesReady' /\ RaisesUnblocked' /\ NeverBlocks'
    BY DEF TypeOK, PipesReady, RaisesUnblocked, NeverBlocks
  <2>4. FlagBefore'
    BY DEF TypeOK, FlagBefore
  <2>5. ShutdownAhead'
    BY DEF TypeOK, ShutdownAhead
  <2> QED
    BY <2>1, <2>2, <2>3, <2>4, <2>5
<1>12. ASSUME NEW p \in Procs, Raise(p) PROVE IInv'
  <2> USE <1>12 DEF Raise, AfterRaise
  <2>1. TypeOK'
    <3>1. process' \in {process, signal[p]} /\ pc' \in {pc, [pc EXCEPT ![p] = "abort"]} /\ signal' = signal
      OBVIOUS
    <3>2. signal[p] \in Known \cup Unknown
      BY DEF TypeOK
    <3> QED
      BY <3>1, <3>2 DEF TypeOK
  <2>2. Ordered'
    BY SameLists DEF TypeOK, Ordered
  <2>3. PipesReady' /\ RaisesUnblocked' /\ NeverBlocks'
    BY DEF TypeOK, PipesReady, RaisesUnblocked, NeverBlocks
  <2>4. FlagBefore'
    BY DEF TypeOK, FlagBefore
  <2>5. ShutdownAhead'
    BY DEF TypeOK, ShutdownAhead
  <2> QED
    BY <2>1, <2>2, <2>3, <2>4, <2>5
<1>13. ASSUME NEW p \in Procs, Abort(p) PROVE IInv'
  <2> USE <1>13 DEF Abort
  <2>1. TypeOK'
    BY <1>0 DEF TypeOK
  <2>2. Ordered'
    BY SameLists DEF TypeOK, Ordered
  <2>3. PipesReady' /\ RaisesUnblocked' /\ NeverBlocks'
    BY DEF TypeOK, PipesReady, RaisesUnblocked, NeverBlocks
  <2>4. FlagBefore'
    BY DEF TypeOK, FlagBefore
  <2>5. ShutdownAhead'
    BY DEF TypeOK, ShutdownAhead
  <2> QED
    BY <2>1, <2>2, <2>3, <2>4, <2>5
<1>14. ASSUME NEW d \in Deliveries, Exit(d) PROVE IInv'
  <2> USE <1>14 DEF Exit
  <2>1. TypeOK'
    BY <1>0 DEF TypeOK
  <2>2. Ordered'
    BY SameLists DEF TypeOK, Ordered
  <2>3. PipesReady' /\ RaisesUnblocked' /\ NeverBlocks'
    BY DEF TypeOK, PipesReady, RaisesUnblocked, NeverBlocks
  <2>4. FlagBefore'
    BY DEF TypeOK, FlagBefore
  <2>5. ShutdownAhead'
    BY DEF TypeOK, ShutdownAhead
  <2> QED
    BY <2>1, <2>2, <2>3, <2>4, <2>5
<1>15. ASSUME NEW d \in Deliveries, Finish(d) PROVE IInv'
  <2> USE <1>15 DEF Finish
  <2>1. TypeOK'
    BY <1>0 DEF TypeOK
  <2>2. Ordered'
    <3>1. Registered!Elems(todo[d]) = {}
      BY DEF Registered!Elems
    <3>2. todo' = todo /\ \A e \in Deliveries \ {d} : signal'[e] = signal[e]
      BY DEF TypeOK
    <3> QED
      BY <3>1, <3>2, SameLists DEF Ordered
  <2>3. PipesReady' /\ RaisesUnblocked' /\ NeverBlocks'
    BY DEF TypeOK, PipesReady, RaisesUnblocked, NeverBlocks
  <2>4. FlagBefore'
    BY DEF TypeOK, FlagBefore
  <2>5. ShutdownAhead'
    BY DEF TypeOK, ShutdownAhead, Registered!Elems
  <2> QED
    BY <2>1, <2>2, <2>3, <2>4, <2>5
<1> QED
  BY <1>1, <1>2, <1>3, <1>4, <1>5, <1>6, <1>7, <1>8, <1>9, <1>10, <1>11, <1>12, <1>13, <1>14, <1>15 DEF QuietStep, Emulate

(* The call of a registration returns. *)
LEMMA RegistrationKeeps ==
    ASSUME IInv, Registration
    PROVE  IInv'
<1> DEFINE n == NextId
           c == Cardinality(issued)
<1> USE DEF IInv, dataVars, kernelVars, procVars
<1>1. /\ UNCHANGED << hooks, todo, gone, action, flag, number, bytes, blocking, disposition,
                      blocked, process, pc, signal, armed >>
      /\ issued' = issued \cup {n} /\ n \notin issued
  BY DEF Registration, Registered!Issue
<1>2. n \in Ids
  <2>1. PICK s \in Signals : n \in Registered!Elems(hooks[s])
    BY DEF Registration
  <2>2. hooks[s] \in Seq(Ids)
    BY DEF TypeOK
  <2> QED
    BY <2>1, <2>2 DEF Registered!Elems
<1>3. Ids \subseteq Nat /\ c \in Nat /\ n = 1 + c
  BY Numbers
<1>4. Cardinality(issued') = 1 + c
  <2>1. IsFiniteSet(issued)
    <3>1. IsFiniteSet(1 .. MaxId)
      BY ProcsAssumption, FS_Interval
    <3> QED
      BY <3>1, FS_Subset DEF TypeOK, Ids
  <2>2. Cardinality(issued \cup {n}) = c + 1
    BY <1>1, <2>1, FS_AddElement
  <2> QED
    BY <1>1, <1>3, <2>2
<1>5. n' = 2 + c
  <2>1. n' = 1 + Cardinality(issued')
    BY DEF NextId
  <2> QED
    BY <1>3, <1>4, <2>1
<1>6. TypeOK'
  BY <1>1, <1>2 DEF TypeOK
<1>7. Ordered'
  <2>1. issued' = 1 .. Cardinality(issued')
    <3>1. issued = 1 .. c
      BY DEF Ordered
    <3> HIDE DEF c, n
    <3>2. issued' = (1 .. c) \cup {1 + c}
      BY <1>1, <1>3, <3>1
    <3>3. (1 .. c) \cup {1 + c} = 1 .. 1 + c
      BY <1>3
    <3> QED
      BY <1>4, <3>2, <3>3
  <2>2. ASSUME NEW s \in Signals, NEW id \in Registered!Elems(hooks[s])
        PROVE  id <= NextId'
    <3>1. hooks[s] \in Seq(Ids)
      BY DEF TypeOK
    <3>2. id \in Ids
      BY <3>1 DEF Registered!Elems
    <3>3. id \in Nat
      BY <1>3, <3>2
    <3>4. id <= n
      BY DEF Ordered
    <3> HIDE DEF c
    <3> QED
      BY <1>3, <1>5, <3>3, <3>4
  <2> HIDE DEF c, n
  <2> QED
    BY <1>1, <2>1, <2>2 DEF Ordered
<1>8. PipesReady' /\ RaisesUnblocked' /\ NeverBlocks'
  BY <1>1 DEF PipesReady, RaisesUnblocked, NeverBlocks
<1>9. FlagBefore' /\ ShutdownAhead'
  BY <1>1 DEF FlagBefore, ShutdownAhead
<1> QED
  BY <1>6, <1>7, <1>8, <1>9

(* A delivery finds the actions of its signal. *)
LEMMA DeliverKeeps ==
    ASSUME IInv, NEW d \in Deliveries, NEW s \in Signals, Deliver(d, s)
    PROVE  IInv'
<1> USE ProcsAssumption DEF IInv, Goto, dataVars, Procs
<1>1. /\ UNCHANGED << hooks, issued, action, flag, number, bytes, blocking, disposition, process >>
      /\ pc[d] = "idle" /\ todo[d] = << >>
      /\ todo' = [todo EXCEPT ![d] = hooks[s]]
      /\ pc' = [pc EXCEPT ![d] = "run"]
      /\ signal' = [signal EXCEPT ![d] = s]
      /\ blocked' = blocked \cup {d}
      /\ armed' = IF flag # "clear" /\ ShutdownIn(s) THEN armed \cup {d} ELSE armed
  BY DEF Deliver, Registered!Start
<1>2. TypeOK'
  BY <1>1 DEF TypeOK, Signals
<1>3. /\ todo'[d] = hooks[s] /\ signal'[d] = s /\ pc'[d] = "run"
      /\ \A e \in Deliveries \ {d} : todo'[e] = todo[e] /\ signal'[e] = signal[e]
      /\ \A p \in Procs \ {d} : pc'[p] = pc[p]
  BY <1>1 DEF TypeOK
<1>4. Ordered'
  <2>1. NextId' = NextId
    BY <1>1 DEF NextId
  <2> QED
    BY <1>1, <1>3, <2>1 DEF Ordered
<1>5. PipesReady' /\ RaisesUnblocked' /\ NeverBlocks'
  BY <1>1, <1>3 DEF PipesReady, RaisesUnblocked, NeverBlocks
<1>6. FlagBefore'
  BY <1>1, <1>3 DEF FlagBefore
<1>7. ShutdownAhead'
  BY <1>1, <1>3 DEF ShutdownAhead, ShutdownIn, TypeOK
<1> QED
  BY <1>2, <1>4, <1>5, <1>6, <1>7

(* A delivery has run its first action, of some kind, and is now at where. *)
Ran(d, kind, where) ==
    /\ todo' \in [Deliveries -> Seq(Ids)]
    /\ todo'[d] = Tail(todo[d]) /\ todo[d] # << >>
    /\ \A e \in Deliveries \ {d} : todo'[e] = todo[e]
    /\ Head(todo[d]) \in Ids /\ action[Head(todo[d])].kind = kind
    /\ signal[d] \in Signals /\ Head(todo[d]) \in Registered!Elems(hooks[signal[d]])
    /\ action[Head(todo[d])] \in Offers /\ action[Head(todo[d])].signal = signal[d]
    /\ \A j \in Registered!Elems(Tail(todo[d])) : Head(todo[d]) < j
    /\ Registered!Elems(todo[d]) = {Head(todo[d])} \cup Registered!Elems(Tail(todo[d]))
    /\ pc[d] = "run" /\ pc' = [pc EXCEPT ![d] = where]
    /\ UNCHANGED << hooks, issued, action, blocking, disposition, blocked, process, signal, armed >>

LEMMA RunOrdered ==
    ASSUME IInv, NEW d \in Deliveries, NEW kind, NEW where, Run(d, kind, where)
    PROVE  Ordered' /\ Ran(d, kind, where)
<1> USE DEF IInv
<1>1. /\ todo[d] # << >> /\ todo' = [todo EXCEPT ![d] = Tail(@)]
      /\ action[Head(todo[d])].kind = kind
      /\ pc[d] = "run" /\ pc' = [pc EXCEPT ![d] = where]
      /\ UNCHANGED << hooks, issued, action, blocking, disposition, blocked, process,
                      signal, armed >>
  BY DEF Run, Registered!Run, Action, Goto, kernelVars
<1>2. todo \in [Deliveries -> Seq(Ids)] /\ todo[d] \in Seq(Ids)
  BY DEF TypeOK
<1>3. /\ todo'[d] = Tail(todo[d]) /\ \A e \in Deliveries \ {d} : todo'[e] = todo[e]
      /\ todo' \in [Deliveries -> Seq(Ids)]
  <2>1. Tail(todo[d]) \in Seq(Ids)
    BY <1>1, <1>2, HeadFirst
  <2> QED
    BY <1>1, <1>2, <2>1
<1>4. /\ Head(todo[d]) \in Registered!Elems(todo[d]) /\ Increasing(Tail(todo[d]))
      /\ \A j \in Registered!Elems(Tail(todo[d])) : Head(todo[d]) < j
      /\ Registered!Elems(todo[d]) = {Head(todo[d])} \cup Registered!Elems(Tail(todo[d]))
  BY <1>1, <1>2, HeadFirst DEF Ordered
<1>5. Ordered'
  <2>1. \A e \in Deliveries : /\ Increasing(todo'[e])
                              /\ Registered!Elems(todo'[e]) \subseteq Registered!Elems(todo[e])
                              /\ signal'[e] = signal[e]
    BY <1>1, <1>3, <1>4 DEF Ordered
  <2> QED
    BY <1>1, <2>1, SameLists
<1>6. /\ Head(todo[d]) \in Ids /\ signal[d] \in Signals
      /\ Head(todo[d]) \in Registered!Elems(hooks[signal[d]])
      /\ action[Head(todo[d])] \in Offers /\ action[Head(todo[d])].signal = signal[d]
  BY <1>4, TodoIs
<1> QED
  BY <1>1, <1>3, <1>4, <1>5, <1>6 DEF Ran

(* The parts of the invariant that go with any action that does not set    *)
(* the flag nor blocks.                                                    *)
LEMMA RunKeeps ==
    ASSUME IInv, NEW d \in Deliveries, NEW kind,
           NEW where \in {"run", "exit", "emulate"}, Run(d, kind, where),
           flag' \in {flag, d},
           kind = "shutdown" /\ flag # "clear" => where = "exit",
           kind = "flag" \/ flag' = flag
    PROVE  /\ Ordered' /\ PipesReady' /\ RaisesUnblocked' /\ NeverBlocks'
           /\ FlagBefore' /\ ShutdownAhead'
           /\ pc' \in [Procs -> {"idle", "run", "exit", "emulate", "unblock", "raise", "abort",
                                "blocked"}]
<1> DEFINE h == Head(todo[d])
<1>0. Ordered' /\ Ran(d, kind, where)
  BY RunOrdered
<1>1. /\ Ordered' /\ todo' \in [Deliveries -> Seq(Ids)]
      /\ todo'[d] = Tail(todo[d]) /\ todo[d] # << >>
      /\ \A e \in Deliveries \ {d} : todo'[e] = todo[e]
      /\ h \in Ids /\ action[h].kind = kind
      /\ signal[d] \in Signals /\ h \in Registered!Elems(hooks[signal[d]])
      /\ \A j \in Registered!Elems(Tail(todo[d])) : h < j
      /\ Registered!Elems(todo[d]) = {h} \cup Registered!Elems(Tail(todo[d]))
      /\ pc[d] = "run" /\ pc' = [pc EXCEPT ![d] = where]
      /\ UNCHANGED << hooks, issued, action, blocking, disposition, blocked, process,
                      signal, armed >>
  BY <1>0 DEF Ran
<1> HIDE DEF h
<1> USE FlagAssumption, ProcsAssumption DEF IInv, Procs
<1>2. pc'[d] = where /\ \A p \in Procs \ {d} : pc'[p] = pc[p]
  BY <1>1 DEF TypeOK
<1>3. PipesReady' /\ RaisesUnblocked' /\ NeverBlocks'
  BY <1>1, <1>2 DEF PipesReady, RaisesUnblocked, NeverBlocks
<1>4. FlagBefore'
  <2>1. ASSUME NEW e \in Deliveries, flag' = e, flag = e
        PROVE  /\ pc'[e] # "idle" /\ signal'[e] \in Signals
               /\ \E i \in Registered!Elems(hooks'[signal'[e]]) :
                     /\ action'[i].kind = "flag"
                     /\ \A j \in Registered!Elems(todo'[e]) : i < j
    <3>1. Registered!Elems(todo'[e]) \subseteq Registered!Elems(todo[e])
      BY <1>1
    <3> QED
      BY <1>1, <1>2, <2>1, <3>1 DEF FlagBefore
  <2>2. ASSUME flag' = d, kind = "flag"
        PROVE  /\ pc'[d] # "idle" /\ signal'[d] \in Signals
               /\ \E i \in Registered!Elems(hooks'[signal'[d]]) :
                     /\ action'[i].kind = "flag"
                     /\ \A j \in Registered!Elems(todo'[d]) : i < j
    BY <1>1, <1>2, <2>2
  <2> QED
    BY <2>1, <2>2 DEF FlagBefore
<1>5. ShutdownAhead'
  <2> SUFFICES ASSUME NEW e \in armed
               PROVE  /\ flag' # "clear" /\ pc'[e] # "idle"
                      /\ pc'[e] \in {"run", "emulate"} =>
                            \E id \in Registered!Elems(todo'[e]) : action[id].kind = "shutdown"
    BY <1>1 DEF ShutdownAhead
  <2>1. flag # "clear" /\ e \in Deliveries
    BY DEF ShutdownAhead, TypeOK
  <2>2. CASE e # d
    BY <1>1, <1>2, <2>1, <2>2 DEF ShutdownAhead
  <2>3. CASE e = d
    <3>1. PICK id \in Registered!Elems(todo[d]) : action[id].kind = "shutdown"
      BY <1>1, <2>3 DEF ShutdownAhead
    <3>2. CASE id = h
      BY <1>1, <1>2, <2>1, <2>3, <3>1, <3>2
    <3>3. CASE id # h
      BY <1>1, <1>2, <2>1, <2>3, <3>1, <3>3
    <3> QED
      BY <3>2, <3>3
  <2> QED
    BY <2>2, <2>3
<1>6. pc' \in [Procs -> {"idle", "run", "exit", "emulate", "unblock", "raise", "abort", "blocked"}]
  BY <1>1 DEF TypeOK
<1> QED
  BY <1>1, <1>3, <1>4, <1>5, <1>6

(* Each ready-made action. *)
LEMMA HandlerKeeps ==
    ASSUME IInv, NEW d \in Deliveries,
           RunFlag(d) \/ RunUsize(d) \/ RunShutdown(d) \/ RunDefault(d) \/ RunPipe(d)
    PROVE  IInv'
<1> DEFINE fd == Action(d).fd
<1>1. ASSUME RunFlag(d) PROVE IInv'
  <2>1. Run(d, "flag", "run") /\ flag' = d /\ UNCHANGED << number, bytes >>
    BY <1>1 DEF RunFlag
  <2> QED
    BY <2>1, RunKeeps, RunOrdered DEF IInv, TypeOK, Ran
<1>2. ASSUME RunUsize(d) PROVE IInv'
  <2>1. Run(d, "usize", "run") /\ number' = 1 /\ UNCHANGED << flag, bytes >>
    BY <1>2 DEF RunUsize
  <2> QED
    BY <2>1, RunKeeps, RunOrdered DEF IInv, TypeOK, Ran
<1>3. ASSUME RunShutdown(d) PROVE IInv'
  <2>1. PICK where \in {"exit", "run"} :
            /\ Run(d, "shutdown", where) /\ UNCHANGED << flag, number, bytes >>
            /\ flag # "clear" => where = "exit"
    BY <1>3 DEF RunShutdown, Condition
  <2> QED
    BY <2>1, RunKeeps, RunOrdered DEF IInv, TypeOK, Ran
<1>4. ASSUME RunDefault(d) PROVE IInv'
  <2>1. PICK where \in {"emulate", "run"} :
            Run(d, "default", where) /\ UNCHANGED << flag, number, bytes >>
    BY <1>4 DEF RunDefault
  <2> QED
    BY <2>1, RunKeeps, RunOrdered DEF IInv, TypeOK, Ran
<1>5. ASSUME RunPipe(d) PROVE IInv'
  <2>1. /\ Run(d, "pipe", IF Waits(fd) THEN "blocked" ELSE "run") /\ bytes' = Written(fd)
        /\ UNCHANGED << flag, number >>
    BY <1>5 DEF RunPipe
  <2>2. action[Head(todo[d])].kind = "pipe" /\ Head(todo[d]) \in Ids
    BY <2>1, RunOrdered DEF Ran
  <2>3. ~Waits(fd)
    BY <2>2 DEF Waits, Method, IInv, PipesReady, Action
  <2>4. Run(d, "pipe", "run")
    BY <2>1, <2>3
  <2>5. bytes' \in [Fds -> 0 .. PIPE]
    <3>1. bytes \in [Fds -> 0 .. PIPE]
      BY DEF IInv, TypeOK
    <3>2. bytes' = bytes \/ (bytes[fd] < PIPE /\ bytes' = [bytes EXCEPT ![fd] = @ + 1])
      BY <2>1 DEF Written
    <3> HIDE DEF fd
    <3>3. CASE fd \in Fds
      BY <3>1, <3>2, <3>3, FdsAssumption
    <3>4. CASE fd \notin Fds
      BY <3>1, <3>2, <3>4
    <3> QED
      BY <3>3, <3>4
  <2> QED
    BY <2>1, <2>4, <2>5, RunKeeps, RunOrdered DEF IInv, TypeOK, Ran
<1> QED
  BY <1>1, <1>2, <1>3, <1>4, <1>5

-----------------------------------------------------------------------------
LEMMA InitInv == Init => IInv
<1> SUFFICES ASSUME Init PROVE IInv
  OBVIOUS
<1> USE DEF Init, Registered!Init
<1>1. TypeOK
  BY TableAssumption, FdsAssumption DEF TypeOK, Known, Procs
<1>2. Ordered
  <2>1. /\ \A s \in Signals : hooks[s] = << >>
        /\ \A d \in Deliveries : todo[d] = << >>
    OBVIOUS
  <2>2. Cardinality({}) = 0
    BY FS_EmptySet
  <2>3. issued = 1 .. Cardinality(issued)
    BY <2>2
  <2> QED
    BY <2>1, <2>3 DEF Ordered, Increasing, Registered!Elems
<1>3. PipesReady
  BY DEF PipesReady, Nothing
<1>4. RaisesUnblocked /\ NeverBlocks /\ ShutdownAhead
  BY DEF RaisesUnblocked, NeverBlocks, ShutdownAhead, Procs
<1>5. FlagBefore
  BY FlagAssumption DEF FlagBefore
<1> QED
  BY <1>1, <1>2, <1>3, <1>4, <1>5 DEF IInv

LEMMA NextInv == IInv /\ [Next]_vars => IInv'
<1> SUFFICES ASSUME IInv, [Next]_vars PROVE IInv'
  OBVIOUS
<1>1. CASE \E a \in Offers : Register(a)
  BY <1>1, RegisterKeeps
<1>2. CASE Registration
  BY <1>2, RegistrationKeeps
<1>3. CASE \E d \in Deliveries, s \in Signals : Deliver(d, s)
  BY <1>3, DeliverKeeps
<1>4. CASE \E d \in Deliveries :
           RunFlag(d) \/ RunUsize(d) \/ RunShutdown(d) \/ RunDefault(d) \/ RunPipe(d)
  BY <1>4, HandlerKeeps
<1>5. CASE QuietStep
  BY <1>5, QuietKeeps
<1>6. CASE UNCHANGED vars
  <2> USE DEF vars, registryVars, dataVars, kernelVars, procVars, IInv
  <2>1. TypeOK' /\ PipesReady' /\ RaisesUnblocked' /\ NeverBlocks'
    BY <1>6 DEF TypeOK, PipesReady, RaisesUnblocked, NeverBlocks
  <2>2. Ordered' /\ FlagBefore' /\ ShutdownAhead'
    BY <1>6 DEF Ordered, FlagBefore, ShutdownAhead, NextId
  <2> QED
    BY <2>1, <2>2
<1> QED
  BY <1>1, <1>2, <1>3, <1>4, <1>5, <1>6 DEF Next, Running, Handle, QuietStep

(* The invariant, for any table of signals, pipes, actions, deliveries.    *)
THEOREM Invariance == Spec => []IInv
<1>1. Init => IInv
  BY InitInv
<1>2. IInv /\ [Next]_vars => IInv'
  BY NextInv
<1> QED
  BY <1>1, <1>2, PTL DEF Spec

(* The first Ctrl-C is spared, unless the program itself registered the    *)
(* flag before the shutdown (register_conditional_shutdown).               *)
THEOREM Spares == Spec => FirstSpares
<1>1. ASSUME IInv, Next, NEW d \in Deliveries, pc[d] = "run", pc'[d] = "exit"
      PROVE  flag \notin {"clear", d} \/ FlagFirst(signal[d])
  <2>1. RunShutdown(d) /\ Condition
    <3>1. \/ \E e \in Deliveries : Handle(e) \/ \E s \in Signals : Deliver(e, s)
          \/ \E p \in Procs : Emulate(p)
          \/ \E s \in Known \cup Unknown : CallEmulate(s)
          \/ UNCHANGED pc
      BY <1>1 DEF Next, Running, Register, Registration, Clear, Drain, DeliverDefault, Exit,
                  ForeignInstall, ContinueProcess, procVars
    <3>2. pc \in [Procs -> {"idle", "run", "exit", "emulate", "unblock", "raise", "abort",
                            "blocked"}]
      BY <1>1 DEF IInv, TypeOK
    <3>3. ~(\E e \in Deliveries, s \in Signals : Deliver(e, s))
      BY <1>1, <3>2 DEF Deliver, Goto, Procs
    <3>4. ~(\E p \in Procs : Emulate(p)) /\ ~(\E s \in Known \cup Unknown : CallEmulate(s))
      BY <1>1, <3>2 DEF Emulate, EmulateIgnored, EmulateStop, EmulateKill, RestoreDefault, Unblock,
                        Raise, AfterRaise, Abort, BackFrom, CallEmulate, Goto, Procs, procVars
    <3>5. PICK e \in Deliveries : Handle(e)
      BY <1>1, <3>1, <3>3, <3>4
    <3> QED
      BY <1>1, <3>2, <3>5
         DEF Handle, RunFlag, RunUsize, RunShutdown, RunDefault, RunPipe, Run, Exit, Finish, Goto,
             Procs, procVars, Condition
  <2>2. PICK where : Run(d, "shutdown", where)
    BY <2>1 DEF RunShutdown
  <2>3. Ran(d, "shutdown", where)
    BY <1>1, <2>2, RunOrdered
  <2>4. CASE flag = d
    <3> DEFINE j == Head(todo[d])
    <3>1. /\ j \in Ids /\ action[j].kind = "shutdown" /\ action[j].signal = signal[d]
          /\ j \in Registered!Elems(todo[d])
      BY <2>3 DEF Ran
    <3>2. PICK i \in Registered!Elems(hooks[signal[d]]) :
                 action[i].kind = "flag" /\ \A k \in Registered!Elems(todo[d]) : i < k
      BY <1>1, <2>4 DEF IInv, FlagBefore
    <3>3. hooks[signal[d]] \in Seq(Ids) /\ signal[d] \in Signals
      BY <1>1, <2>3 DEF IInv, TypeOK, Ran
    <3>4. i \in Ids /\ action[i].signal = signal[d]
      BY <1>1, <3>2, <3>3 DEF IInv, Ordered, Registered!Elems
    <3> QED
      BY <3>1, <3>2, <3>4 DEF FlagFirst
  <2>5. CASE flag # d
    BY <2>1, <2>5 DEF Condition
  <2> QED
    BY <2>4, <2>5
<1>2. IInv /\ [Next]_vars =>
        [\A d \in Deliveries :
            pc[d] = "run" /\ pc'[d] = "exit" =>
                flag \notin {"clear", d} \/ FlagFirst(signal[d])]_vars
  BY <1>1
<1> QED
  BY <1>2, Invariance, PTL DEF Spec, FirstSpares

(* The second Ctrl-C ends the program: a delivery that began armed does    *)
(* not return (register_conditional_shutdown).                             *)
THEOREM Ends == Spec => SecondEnds
<1>1. IInv /\ IInv' /\ [Next]_vars => [\A d \in armed : pc'[d] # "idle"]_vars
  <2> SUFFICES ASSUME IInv, IInv', Next, NEW d \in armed PROVE pc'[d] # "idle"
    OBVIOUS
  <2>1. CASE d \in armed'
    BY <2>1 DEF IInv, ShutdownAhead
  <2>2. CASE d \notin armed'
    <3>1. pc[d] # "idle" /\ d \in Deliveries /\ d \in Procs
      BY DEF IInv, ShutdownAhead, TypeOK, Procs
    <3>2. Clear \/ \E e \in Deliveries : Finish(e) /\ d = e
      BY <2>2 DEF Next, Running, Handle, Emulate, Register, Registration, Drain, DeliverDefault,
                  Exit, ForeignInstall, ContinueProcess, CallEmulate, Deliver, RunFlag, RunUsize,
                  RunShutdown, RunDefault, RunPipe, Run, Finish, EmulateIgnored, EmulateStop,
                  EmulateKill, RestoreDefault, Unblock, Raise, Abort, procVars
    <3>3. ~Finish(d)
      <4>1. pc[d] = "run" => \E id \in Registered!Elems(todo[d]) : TRUE
        BY DEF IInv, ShutdownAhead
      <4> QED
        BY <4>1 DEF Finish, Registered!Elems
    <3> QED
      BY <3>1, <3>2, <3>3 DEF Clear
  <2> QED
    BY <2>1, <2>2
<1> QED
  BY <1>1, Invariance, PTL DEF Spec, SecondEnds

(* A handler is never stuck in its wake (register_raw, wake).              *)
THEOREM Unstuck == Spec => []NeverBlocks
<1>1. IInv => NeverBlocks
  BY DEF IInv
<1> QED
  BY <1>1, Invariance, PTL

(* An emulated default ends by the signal itself, unless others installed  *)
(* another handler (emulate_default_handler).                              *)
THEOREM Aborts == Spec => AbortIsLastResort
<1>1. ASSUME IInv, Next, NEW p \in Procs, pc[p] # "abort", pc'[p] = "abort"
      PROVE  disposition[signal[p]] # "default"
  <2>1. pc \in [Procs -> {"idle", "run", "exit", "emulate", "unblock", "raise", "abort", "blocked"}]
    BY <1>1 DEF IInv, TypeOK
  <2>2. ~(\E d \in Deliveries : Handle(d) \/ \E s \in Signals : Deliver(d, s))
    BY <1>1, <2>1
       DEF Handle, RunFlag, RunUsize, RunShutdown, RunDefault, RunPipe, Run, Exit, Finish, Deliver,
           Goto, procVars, Procs
  <2>3. ~(\E s \in Known \cup Unknown : CallEmulate(s))
    BY <1>1, <2>1 DEF CallEmulate, Goto, Procs
  <2>4. PICK q \in Procs : Emulate(q)
    BY <1>1, <2>2, <2>3
       DEF Next, Running, Register, Registration, Clear, Drain, DeliverDefault, ForeignInstall,
           ContinueProcess, procVars
  <2>5. Raise(p)
    BY <1>1, <2>1, <2>4
       DEF Emulate, EmulateIgnored, EmulateStop, EmulateKill, RestoreDefault, Unblock, Raise,
           AfterRaise, Abort, BackFrom, Goto, procVars
  <2>6. p \notin blocked
    BY <1>1, <2>5 DEF Raise, IInv, RaisesUnblocked
  <2> QED
    BY <1>1, <2>5, <2>6 DEF Raise
<1>2. IInv /\ [Next]_vars =>
        [\A p \in Procs : pc[p] # "abort" /\ pc'[p] = "abort" =>
                              disposition[signal[p]] # "default"]_vars
  BY <1>1
<1> QED
  BY <1>2, Invariance, PTL DEF Spec, AbortIsLastResort

(* After a wake there is a byte to read (register_raw, wake).              *)
THEOREM Woken == Spec => ByteThere
<1>1. ASSUME IInv, NEW d \in Deliveries, RunPipe(d) PROVE bytes'[Action(d).fd] > 0
  <2> DEFINE fd == Action(d).fd
  <2>1. Run(d, "pipe", IF Waits(fd) THEN "blocked" ELSE "run") /\ bytes' = Written(fd)
    BY <1>1 DEF RunPipe
  <2>2. action[Head(todo[d])].kind = "pipe" /\ action[Head(todo[d])] \in Offers
    BY <1>1, <2>1, RunOrdered DEF Ran
  <2>3. fd \in Fds
    BY <2>2, OffersAssumption DEF Action
  <2>4. bytes \in [Fds -> 0 .. PIPE] /\ PIPE \in Nat \ {0}
    BY <1>1, FdsAssumption DEF IInv, TypeOK
  <2>5. bytes' = IF bytes[fd] < PIPE THEN [bytes EXCEPT ![fd] = @ + 1] ELSE bytes
    BY <2>1 DEF Written, Method
  <2> HIDE DEF fd
  <2>6. bytes'[fd] > 0
    BY <2>3, <2>4, <2>5
  <2> QED
    BY <2>6 DEF fd
<1>2. IInv /\ [Next]_vars =>
        [\A d \in Deliveries : RunPipe(d) => bytes'[Action(d).fd] > 0]_vars
  BY <1>1
<1> QED
  BY <1>2, Invariance, PTL DEF Spec, ByteThere
=============================================================================
