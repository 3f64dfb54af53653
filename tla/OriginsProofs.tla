--------------------------- MODULE OriginsProofs ----------------------------
(***************************************************************************)
(* What the reader gets is what happened, and it does not sleep on it: for *)
(* any signals, processes, activations and sizes.                          *)
(***************************************************************************)
EXTENDS Origins, WellFoundedInduction, FiniteSetTheorems, TLAPS

(* The least of the signals that a batch has not passed is one of them.    *)
LEMMA PositionInLeft ==
    ASSUME left \subseteq Signals, left # {}
    PROVE  Position \in left
<1> DEFINE Less == {ss \in Nat \X Nat : ss[1] < ss[2]}
<1>1. left \subseteq Nat
  BY SignalsAssumption
<1>2. IsWellFoundedOn(Less, Nat)
  BY NatLessThanWellFounded DEF OpToRel
<1>3. PICK x \in left : \A y \in left : << y, x >> \notin Less
  <2> HIDE DEF Less
  <2> QED
    BY <1>1, <1>2, WFMin
<1>4. \A y \in left : x <= y
  <2>1. TAKE y \in left
  <2>2. x \in Nat /\ y \in Nat
    BY <1>1
  <2>3. << y, x >> \notin Less
    BY <1>3
  <2> QED
    BY <2>2, <2>3
<1> QED
  BY <1>4 DEF Position

(* The internal cause of each way on Linux. *)
Named == [kill |-> "User", tkill |-> "TKill", queue |-> "Queue", mesgq |-> "MesgQ",
          exited |-> "Exited", killed |-> "Killed", dumped |-> "Dumped", trapped |-> "Trapped",
          stopped |-> "Stopped", continued |-> "Continued", kernel |-> "Kernel",
          timer |-> "Unknown", input |-> "Unknown"]

(* An Origin extracted from what the kernel wrote is what happened. *)
LEMMA ExtractMeans ==
    ASSUME os \in {"linux", "macos"}, NEW e \in Events[os]
    PROVE  Extract(Filled(e)) = Meaning(e)
<1> USE SignalsAssumption, ProcessesAssumption
<1>1. e \in LinuxEvents
  BY DEF Events, MacEvents
<1>2. /\ e = [signal |-> e.signal, how |-> e.how, by |-> e.by]
      /\ e.signal \in Nat
      /\ \/ e.how \in {"kill", "tkill", "queue", "mesgq"} /\ e.by \in Processes
         \/ e.how \in {"kernel", "timer"} /\ e.by = Nobody
         \/ e.how \in StateChanges /\ e.by \in Processes /\ e.signal = SIGCHLD
         \/ e.how = "input" /\ e.by = Nobody /\ e.signal = SIGIO
  BY <1>1 DEF LinuxEvents, SentEvents, NobodysEvents, ChildEvents, InputEvents, Event
<1>3. CASE os = "macos"
  <2>1. Filled(e) = [si_signo |-> e.signal, si_code |-> 0, place |-> e.by]
    BY <1>3 DEF Filled
  <2>2. Cause(Filled(e)) = "Unknown"
    BY <2>1, <1>3 DEF Cause, consts, children, Row, Matches
  <2>3. e.by # Nobody => e.by.pid # 0 \/ e.by.uid # 0
    BY <1>2 DEF Nobody
  <2>4. Process(Filled(e)) = IF e.by = Nobody THEN None ELSE e.by
    BY <2>1, <2>3, <1>3 DEF Process, Nobody
  <2>5. e.by = Nobody <=> e.how \in {"kernel", "timer", "input"}
    BY <1>2 DEF Nobody, StateChanges
  <2> QED
    BY <2>1, <2>2, <2>4, <2>5, <1>3 DEF Extract, HasProcess, Public, Sent, Chld, Meaning
<1>4. CASE os = "linux"
  <2> DEFINE i == Filled(e)
             Where == IF e.how \in {"timer", "input"} THEN OtherMember ELSE e.by
  <2>1. i = [si_signo |-> e.signal, si_code |-> Code[e.how], place |-> Where]
    BY <1>4 DEF Filled
  <2>2. ASSUME NEW row \in consts, \A other \in consts : Matches(other, i) <=> other = row
        PROVE  Cause(i) = row.translated
    <3> HIDE DEF i
    <3>1. {other \in consts : Matches(other, i)} = {row}
      BY <2>2
    <3> QED
      BY <3>1 DEF Cause
  <2>3. ASSUME \A other \in consts : ~ Matches(other, i)
        PROVE  Cause(i) = "Unknown"
    <3> HIDE DEF i
    <3> QED
      BY <2>3 DEF Cause
  <2>4. e.signal # -1 /\ SIGCHLD # -1
    BY <1>2
  <2>5. Cause(i) = Named[e.how]
    <3> HIDE DEF i
    <3> USE <1>2, <1>4, <2>1, <2>4 DEF Code, consts, children, Row, Matches, Named
    <3>1. CASE e.how = "kill"
      BY <3>1, <2>2
    <3>2. CASE e.how = "tkill"
      BY <3>2, <2>2
    <3>3. CASE e.how = "queue"
      BY <3>3, <2>2
    <3>4. CASE e.how = "mesgq"
      BY <3>4, <2>2
    <3>5. CASE e.how = "kernel"
      BY <3>5, <2>2
    <3>6. CASE e.how = "timer" \/ e.how = "input"
      <4>1. i.si_code \in {-2, 1} /\ (i.si_code = 1 => i.si_signo # SIGCHLD)
        BY <3>6 DEF StateChanges
      <4>2. \A other \in consts : ~ Matches(other, i)
        BY <4>1
      <4> QED
        BY <3>6, <4>2, <2>3
    <3>7. CASE e.how = "exited"
      BY <3>7, <2>2
    <3>8. CASE e.how = "killed"
      BY <3>8, <2>2
    <3>9. CASE e.how = "dumped"
      BY <3>9, <2>2
    <3>10. CASE e.how = "trapped"
      BY <3>10, <2>2
    <3>11. CASE e.how = "stopped"
      BY <3>11, <2>2
    <3>12. CASE e.how = "continued"
      BY <3>12, <2>2
    <3> QED
      BY <3>1, <3>2, <3>3, <3>4, <3>5, <3>6, <3>7, <3>8, <3>9, <3>10, <3>11, <3>12
         DEF StateChanges
  <2>6. Public(Cause(i)) = Meaning(e).cause
    <3> HIDE DEF i
    <3> QED
      BY <1>2, <1>4, <2>5 DEF Public, Sent, Chld, Meaning, Happened, Named, StateChanges
  <2>7. (IF HasProcess(Cause(i)) THEN Process(i) ELSE None) = Meaning(e).process
    <3> HIDE DEF i
    <3> QED
      BY <1>2, <1>4, <2>1, <2>5 DEF HasProcess, Process, Meaning, Named, StateChanges
  <2> QED
    BY <2>1, <2>6, <2>7 DEF Extract, Meaning
<1> QED
  BY <1>3, <1>4

-----------------------------------------------------------------------------
LEMMA InitIInv == Init => IInv
<1> SUFFICES ASSUME Init PROVE IInv
  OBVIOUS
<1>1. \A h \in Handlers : source[h] \in Events[os]
  BY DEF Init
<1>2. source \in [Handlers -> Events[os]]
  BY <1>1, MixesAssumption DEF Init
<1>3. Shapes
  BY <1>2 DEF Init, Shapes, Nothing
<1> QED
  BY <1>3 DEF Init, IInv, Faithful, Announced

(* A siginfo_t that the kernel wrote is about a signal of the instance.    *)
LEMMA OfSignals ==
    ASSUME os \in {"linux", "macos"}, NEW e \in Events[os]
    PROVE  Filled(e).si_signo \in Signals
<1>1. e \in LinuxEvents
  BY DEF Events, MacEvents
<1>2. e.signal \in Signals
  BY <1>1, SignalsAssumption
     DEF LinuxEvents, SentEvents, NobodysEvents, ChildEvents, InputEvents, Event
<1> QED
  BY <1>2 DEF Filled

(* The events and what is written about them do not change with a step.    *)
LEMMA SameEvents ==
    ASSUME UNCHANGED os
    PROVE  /\ Events' = Events
           /\ \A e : Filled(e)' = Filled(e)
           /\ \A e : Extract(e)' = Extract(e)
           /\ Values' = Values
  BY DEF Events, Filled, Extract, Values, HasProcess, Cause, consts, Process

(* A step of a handler. *)
LEMMA HandlerIInv ==
    ASSUME IInv, NEW h \in Handlers, Handler(h)
    PROVE  IInv'
<1> USE DEF IInv, Shapes, readerVars, Goto
<1>1. UNCHANGED << os, source >>
  BY DEF Handler, Arrive, Send, Push, Wake
<1>2. /\ Events' = Events /\ Values' = Values
      /\ \A e : Filled(e)' = Filled(e)
      /\ \A e : Extract(e)' = Extract(e)
  BY <1>1, SameEvents
<1>3. UNCHANGED readerVars
  BY DEF Handler, Arrive, Send, Push, Wake
<1>4. source[h] \in Events[os] /\ Filled(source[h]).si_signo \in Signals
  BY OfSignals
<1>5. CASE Arrive(h)
  <2>1. Shapes'
    BY <1>1, <1>2, <1>3, <1>4, <1>5 DEF Arrive
  <2>2. Faithful'
    BY <1>1, <1>2, <1>3, <1>5 DEF Arrive, Faithful
  <2>3. Announced'
    BY <1>1, <1>3, <1>5 DEF Arrive, Announced
  <2> QED
    BY <2>1, <2>2, <2>3
<1>6. CASE Send(h)
  <2>1. Shapes'
    BY <1>1, <1>2, <1>3, <1>6 DEF Send
  <2>2. Faithful'
    BY <1>1, <1>2, <1>3, <1>6 DEF Send, Faithful
  <2>3. Announced'
    BY <1>1, <1>3, <1>6 DEF Send, Announced
  <2> QED
    BY <2>1, <2>2, <2>3
<1>7. CASE Push(h)
  <2> DEFINE s == info[h].si_signo
  <2>1. info[h] = Filled(source[h]) /\ s \in Signals
    BY <1>4, <1>7 DEF Push, Faithful
  <2>2. Value(h) \in Values
    BY <1>4, <2>1 DEF Value, Values
  <2>3. full' = [full EXCEPT ![s] = Append(@, Value(h))] /\ pc' = [pc EXCEPT ![h] = "wake"]
    BY <1>7 DEF Push, Pushed
  <2>4. full' \in [Signals -> Seq(Values)]
    BY <2>1, <2>2, <2>3
  <2>5. Shapes'
    BY <1>1, <1>2, <1>3, <1>7, <2>3, <2>4 DEF Push
  <2>6. Faithful'
    BY <1>1, <1>2, <1>3, <1>7 DEF Push, Faithful
  <2>7. Announced'
    <3> SUFFICES ASSUME NEW t \in Signals, full'[t] # << >>, t # s
                 PROVE  \/ pipe' > 0
                        \/ \E g \in Handlers : pc'[g] = "wake" /\ info'[g].si_signo = t
                        \/ reader' = "flush"
                        \/ reader' \in {"next", "empty", "yield"} /\ t \in left'
      BY <1>7, <2>3 DEF Announced, Push
    <3> QED
      BY <1>3, <1>7, <2>3 DEF Announced, Push
  <2> QED
    BY <2>5, <2>6, <2>7
<1>8. CASE Wake(h)
  <2>1. pipe' \in Nat /\ pipe' > 0
    BY <1>8, SlotsAssumption DEF Wake, Woken
  <2>2. Shapes'
    BY <1>1, <1>2, <1>3, <1>8, <2>1 DEF Wake
  <2>3. Faithful'
    BY <1>1, <1>2, <1>3, <1>8 DEF Wake, Faithful
  <2>4. Announced'
    BY <2>1 DEF Announced
  <2> QED
    BY <2>2, <2>3, <2>4
<1> QED
  BY <1>5, <1>6, <1>7, <1>8 DEF Handler

(* A step of the reader. *)
LEMMA ReaderIInv ==
    ASSUME IInv, Reader
    PROVE  IInv'
<1> USE DEF IInv, Shapes
<1>1. UNCHANGED << os, source, pc, info >>
  BY DEF Reader, Read, Flush, Flushed, Recv, Report, Continue, Advance, Exhausted, readerVars
<1>2. /\ Events' = Events /\ Values' = Values
      /\ \A e : Filled(e)' = Filled(e)
      /\ \A e : Extract(e)' = Extract(e)
  BY <1>1, SameEvents
<1>3. left # {} => Position \in left
  BY PositionInLeft
<1>4. CASE Read
  BY <1>1, <1>2, <1>4 DEF Read, Faithful, Announced
<1>5. CASE Flush \/ Flushed
  BY <1>1, <1>2, <1>5 DEF Flush, Flushed, readerVars, Faithful, Announced
<1>6. CASE Recv
  <2>1. Position \in Signals /\ full[Position] \in Seq(Values) /\ full[Position] # << >>
    BY <1>3, <1>6 DEF Recv
  <2>2. Head(full[Position]) \in Values /\ Tail(full[Position]) \in Seq(Values)
    BY <2>1
  <2> HIDE DEF Position, Values
  <2>3. Shapes'
    BY <1>1, <1>2, <1>6, <2>1, <2>2 DEF Recv
  <2>4. Faithful'
    BY <1>1, <1>2, <1>6, <2>2 DEF Recv, Faithful
  <2>5. Announced'
    <3>1. Position \in left
      BY <1>3, <1>6 DEF Recv
    <3> QED
      BY <1>1, <1>6, <2>1, <3>1 DEF Recv, Announced
  <2> QED
    BY <2>3, <2>4, <2>5
<1>7. CASE Report
  <2>1. taken' = [taken EXCEPT !.origin = Extract(taken.value.info)] /\ reader = "empty"
    BY <1>7 DEF Report
  <2>2. taken'.value = taken.value /\ taken'.origin = Extract(taken.value.info)
    BY <2>1
  <2>3. Shapes'
    BY <1>1, <1>2, <1>7, <2>1 DEF Report
  <2>4. Faithful'
    BY <1>1, <1>2, <1>7, <2>1, <2>2 DEF Report, Faithful
  <2>5. Announced'
    BY <1>1, <1>7 DEF Report, Announced
  <2> QED
    BY <2>3, <2>4, <2>5
<1>8. CASE Continue
  BY <1>1, <1>2, <1>8 DEF Continue, Nothing, Faithful, Announced
<1>9. CASE Advance
  BY <1>1, <1>2, <1>9 DEF Advance, Faithful, Announced
<1>10. CASE Exhausted
  BY <1>1, <1>2, <1>10 DEF Exhausted, Faithful, Announced
<1> QED
  BY <1>4, <1>5, <1>6, <1>7, <1>8, <1>9, <1>10 DEF Reader

LEMMA StutterIInv ==
    ASSUME IInv, UNCHANGED vars
    PROVE  IInv'
<1>1. /\ Events' = Events /\ Values' = Values
      /\ \A e : Filled(e)' = Filled(e)
      /\ \A e : Extract(e)' = Extract(e)
  BY SameEvents DEF vars
<1> QED
  BY <1>1 DEF IInv, Shapes, Faithful, Announced, vars

(* The inductive invariant holds for any number of signals, activations    *)
(* and processes and any size of the channels and of the pipe.             *)
THEOREM Invariance == Spec => []IInv
<1>1. IInv /\ [Next]_vars => IInv'
  BY HandlerIInv, ReaderIInv, StutterIInv DEF Next
<1> QED
  BY InitIInv, <1>1, PTL DEF Spec

(* An Origin is what it means (siginfo.rs Origin::extract): nothing that   *)
(* passed through the channels was mixed up or misread.                    *)
THEOREM Meant == Spec => []Attributed
<1>1. IInv => Attributed
  <2> SUFFICES ASSUME IInv, reader = "yield"
               PROVE  taken.origin = Meaning(taken.value.event)
    BY DEF Attributed
  <2>1. PICK e \in Events[os] : taken.value = [info |-> Filled(e), event |-> e]
    BY DEF IInv, Faithful, Values
  <2>2. taken.origin = Extract(Filled(e)) /\ taken.value.event = e
    BY <2>1 DEF IInv, Faithful
  <2> QED
    BY <2>2, ExtractMeans DEF IInv, Shapes
<1> QED
  BY Invariance, <1>1, PTL

(* The reader does not sleep on a signal in a channel whose handler is     *)
(* over (backend.rs:140-145 and 303-408).                                  *)
THEOREM Awake == Spec => []NothingLeftBehind
<1>1. IInv => NothingLeftBehind
  BY DEF IInv, Shapes, Announced, NothingLeftBehind
<1> QED
  BY Invariance, <1>1, PTL

-----------------------------------------------------------------------------
(* The slots. *)

(* A step of a handler moves a slot from a queue into its hands or from    *)
(* there into the other queue, or leaves them where they are.              *)
LEMMA HandlerCounted ==
    ASSUME IInv, TypeOK, Counted, NEW h \in Handlers, Handler(h)
    PROVE  TypeOK' /\ Counted'
<1> USE DEF readerVars, Goto
<1>1. UNCHANGED << reader, left >>
  BY DEF Handler, Arrive, Send, Push, Wake
<1>2. \A t : InHand(t)' = InHand(t)
  BY <1>1 DEF InHand, Position
<1>3. \A t \in Signals : InHand(t) \in Nat
  BY DEF InHand
<1>4. \A t \in Signals :
         /\ free[t] \in Nat /\ Len(full[t]) \in Nat
         /\ IsFiniteSet(Pushing(t)) /\ Cardinality(Pushing(t)) \in Nat
  BY FS_CardinalityType DEF IInv, Shapes, Counted
<1>5. pc \in [Handlers -> {"idle", "send", "push", "wake"}] /\ full \in [Signals -> Seq(Values)]
  BY DEF IInv, Shapes
<1>6. pc[h] # "idle" => info[h].si_signo \in Signals
  BY OfSignals DEF IInv, Shapes, Faithful
<1>7. /\ pc' \in [Handlers -> {"idle", "send", "push", "wake"}]
      /\ pipe' \in 0 .. PipeSize
  BY <1>5, SlotsAssumption DEF Handler, Arrive, Send, Push, Wake, Woken, TypeOK
<1>8. SUFFICES /\ free' \in [Signals -> Nat]
               /\ \A t \in Signals :
                     /\ IsFiniteSet(Pushing(t)')
                     /\ free'[t] + Len(full'[t]) + Cardinality(Pushing(t)') + InHand(t) = SLOTS
  BY <1>1, <1>2, <1>7 DEF TypeOK, Counted
<1>9. CASE Arrive(h) \/ Wake(h) \/ (Send(h) /\ free[info[h].si_signo] = 0)
  <2>1. UNCHANGED << free, full >>
    BY <1>6, <1>4, <1>9 DEF Arrive, Send, Wake
  <2>2. \A t \in Signals : Pushing(t)' = Pushing(t)
    BY <1>4, <1>5, <1>6, <1>9 DEF Pushing, Arrive, Send, Wake, IInv, Shapes
  <2> QED
    BY <1>4, <2>1, <2>2 DEF TypeOK, Counted
<1>10. CASE Send(h) /\ free[info[h].si_signo] > 0
  <2>0. PICK s \in Signals : s = info[h].si_signo
    BY <1>6, <1>10 DEF Send
  <2>1. h \notin Pushing(s) /\ pc[h] = "send"
    BY <1>10 DEF Send, Pushing
  <2>2. /\ free' = [free EXCEPT ![s] = free[s] - 1]
        /\ pc' = [pc EXCEPT ![h] = "push"] /\ UNCHANGED << full, info >>
    BY <1>4, <1>10, <2>0, <2>1 DEF Send
  <2>3. /\ Pushing(s)' = Pushing(s) \cup {h}
        /\ \A t \in Signals : t # s => Pushing(t)' = Pushing(t)
    BY <1>5, <2>0, <2>1, <2>2 DEF Pushing
  <2>4. /\ IsFiniteSet(Pushing(s)') /\ Cardinality(Pushing(s)') = Cardinality(Pushing(s)) + 1
    BY <1>4, <2>1, <2>3, FS_AddElement
  <2>5. free' \in [Signals -> Nat]
    BY <1>4, <1>10, <2>0, <2>1, <2>2 DEF Counted
  <2>6. ASSUME NEW t \in Signals
        PROVE  /\ IsFiniteSet(Pushing(t)')
               /\ free'[t] + Len(full'[t]) + Cardinality(Pushing(t)') + InHand(t) = SLOTS
    <3>1. CASE t = s
      <4>1. free[s] + Len(full[s]) + Cardinality(Pushing(s)) + InHand(s) = SLOTS
        BY <2>1 DEF TypeOK
      <4>2. free'[s] = free[s] - 1 /\ full'[s] = full[s]
        BY <1>4, <1>5, <2>1, <2>2 DEF Counted
      <4>3. free'[s] + Len(full'[s]) + Cardinality(Pushing(s)') + InHand(s) = SLOTS
        <5> DEFINE c == Cardinality(Pushing(s))
                   d == Cardinality(Pushing(s)')
                   i == InHand(s)
                   l == Len(full[s])
                   m == Len(full'[s])
                   f == free[s]
                   g == free'[s]
        <5>1. d = c + 1 /\ g = f - 1 /\ m = l
          BY <2>4, <4>2
        <5>2. f + l + c + i = SLOTS
          BY <4>1
        <5>3. c \in Nat /\ i \in Nat /\ l \in Nat /\ f \in Nat
          BY <1>3, <1>4
        <5> HIDE DEF c, d, i, l, m, f, g
        <5>4. g + m + d + i = SLOTS
          BY <5>1, <5>2, <5>3
        <5> QED
          BY <5>4 DEF c, d, i, l, m, f, g
      <4> QED
        BY <2>1, <2>4, <3>1, <4>3
    <3>2. CASE t # s
      BY <1>4, <2>2, <2>3, <3>2 DEF TypeOK, Counted
    <3> QED
      BY <3>1, <3>2
  <2> QED
    BY <2>5, <2>6
<1>11. CASE Push(h)
  <2>0. PICK s \in Signals : s = info[h].si_signo
    BY <1>6, <1>11 DEF Push
  <2>1. h \in Pushing(s)
    BY <1>11, <2>0 DEF Push, Pushing
  <2>2. /\ full' = [full EXCEPT ![s] = Append(full[s], Value(h))]
        /\ pc' = [pc EXCEPT ![h] = "wake"] /\ UNCHANGED << free, info >>
    BY <1>11, <2>0 DEF Push, Pushed
  <2>3. /\ Pushing(s)' = Pushing(s) \ {h}
        /\ \A t \in Signals : t # s => Pushing(t)' = Pushing(t)
    BY <1>5, <2>0, <2>1, <2>2 DEF Pushing
  <2>4. /\ IsFiniteSet(Pushing(s)') /\ Cardinality(Pushing(s)') = Cardinality(Pushing(s)) - 1
    BY <1>4, <2>1, <2>3, FS_RemoveElement
  <2>5. Len(full'[s]) = Len(full[s]) + 1
    <3> DEFINE q == full[s]
               x == Value(h)
    <3>1. full'[s] = Append(q, x)
      BY <1>5, <2>1, <2>2
    <3>2. q \in Seq(Values) /\ x \in Values
      BY <1>5, <1>11, <2>1 DEF Push, Value, Values, IInv, Shapes, Faithful
    <3> HIDE DEF q, x
    <3>3. Len(Append(q, x)) = Len(q) + 1
      BY <3>2
    <3> QED
      BY <3>1, <3>3 DEF q
  <2>6. ASSUME NEW t \in Signals
        PROVE  /\ IsFiniteSet(Pushing(t)')
               /\ free'[t] + Len(full'[t]) + Cardinality(Pushing(t)') + InHand(t) = SLOTS
    <3>1. CASE t = s
      <4>1. free[s] + Len(full[s]) + Cardinality(Pushing(s)) + InHand(s) = SLOTS
        BY <2>1 DEF TypeOK
      <4>2. free'[s] = free[s]
        BY <1>4, <1>5, <2>1, <2>2 DEF Counted
      <4>3. free'[s] + Len(full'[s]) + Cardinality(Pushing(s)') + InHand(s) = SLOTS
        <5> DEFINE c == Cardinality(Pushing(s))
                   d == Cardinality(Pushing(s)')
                   i == InHand(s)
                   l == Len(full[s])
                   m == Len(full'[s])
                   f == free[s]
                   g == free'[s]
        <5>1. d = c - 1 /\ g = f /\ m = l + 1
          BY <2>4, <2>5, <4>2
        <5>2. f + l + c + i = SLOTS
          BY <4>1
        <5>3. c \in Nat /\ i \in Nat /\ l \in Nat /\ f \in Nat
          BY <1>3, <1>4
        <5> HIDE DEF c, d, i, l, m, f, g
        <5>4. g + m + d + i = SLOTS
          BY <5>1, <5>2, <5>3
        <5> QED
          BY <5>4 DEF c, d, i, l, m, f, g
      <4> QED
        BY <2>1, <2>4, <2>5, <3>1, <4>3
    <3>2. CASE t # s
      BY <1>4, <1>5, <2>2, <2>3, <3>2 DEF TypeOK, Counted
    <3> QED
      BY <3>1, <3>2
  <2> QED
    BY <2>2, <2>6 DEF Counted
<1>12. Send(h) => free[info[h].si_signo] = 0 \/ free[info[h].si_signo] > 0
  BY DEF Send
<1> QED
  BY <1>9, <1>10, <1>11, <1>12 DEF Handler

(* So does a step of the reader. *)
LEMMA ReaderCounted ==
    ASSUME IInv, TypeOK, Counted, Reader
    PROVE  TypeOK' /\ Counted'
<1>1. UNCHANGED << pc, info >>
  BY DEF Reader, Read, Flush, Flushed, Recv, Report, Continue, Advance, Exhausted, readerVars
<1>2. \A t : Pushing(t)' = Pushing(t)
  BY <1>1 DEF Pushing
<1>3. \A t \in Signals :
         /\ free[t] \in Nat /\ Len(full[t]) \in Nat
         /\ IsFiniteSet(Pushing(t)) /\ Cardinality(Pushing(t)) \in Nat
  BY FS_CardinalityType DEF IInv, Shapes, Counted
<1>4. full \in [Signals -> Seq(Values)] /\ left \subseteq Signals
  BY DEF IInv, Shapes
<1>5. left # {} => Position \in left /\ Position \in Signals
  BY <1>4, PositionInLeft
<1>6. /\ pipe' \in 0 .. PipeSize
      /\ reader' \in {"read", "flush", "next", "empty", "yield"}
      /\ left' \subseteq Signals
      /\ reader' = "empty" => left' # {}
  BY <1>4, SlotsAssumption
     DEF TypeOK, Counted, Reader, Read, Flush, Flushed, Recv, Report, Continue, Advance,
         Exhausted, readerVars
<1>7. SUFFICES /\ free' \in [Signals -> Nat]
               /\ \A t \in Signals :
                     free'[t] + Len(full'[t]) + Cardinality(Pushing(t)) + InHand(t)' = SLOTS
  BY <1>1, <1>2, <1>6 DEF TypeOK, Counted
<1>8. CASE Read \/ Flush \/ Flushed \/ Continue \/ Advance \/ Exhausted
  <2>1. UNCHANGED << free, full >> /\ reader # "empty" /\ reader' # "empty"
    BY <1>8 DEF Read, Flush, Flushed, Continue, Advance, Exhausted, readerVars
  <2>2. \A t : InHand(t) = 0 /\ InHand(t)' = 0
    BY <2>1 DEF InHand
  <2> QED
    BY <1>3, <2>1, <2>2 DEF TypeOK, Counted
<1>9. CASE Recv
  <2> DEFINE s == Position
  <2>1. /\ s \in Signals /\ full[s] # << >> /\ full' = [full EXCEPT ![s] = Tail(full[s])]
        /\ UNCHANGED << free, left >> /\ reader # "empty" /\ reader' = "empty"
    BY <1>5, <1>9 DEF Recv
  <2>2. \A t : InHand(t) = 0 /\ InHand(t)' = IF t = s THEN 1 ELSE 0
    BY <2>1 DEF InHand, Position
  <2>3. Len(full'[s]) = Len(full[s]) - 1
    <3> DEFINE q == full[s]
    <3>1. q \in Seq(Values) /\ q # << >> /\ full'[s] = Tail(q)
      BY <1>4, <2>1
    <3> HIDE DEF q
    <3>2. Len(Tail(q)) = Len(q) - 1
      BY <3>1
    <3> QED
      BY <3>1, <3>2 DEF q
  <2> HIDE DEF s
  <2>4. ASSUME NEW t \in Signals
        PROVE  free'[t] + Len(full'[t]) + Cardinality(Pushing(t)) + InHand(t)' = SLOTS
    <3>1. CASE t = s
      BY <1>3, <2>1, <2>2, <2>3, <3>1 DEF TypeOK
    <3>2. CASE t # s
      BY <1>3, <1>4, <2>1, <2>2, <3>2 DEF TypeOK
    <3> QED
      BY <3>1, <3>2
  <2> QED
    BY <2>1, <2>4 DEF Counted
<1>10. CASE Report
  <2> DEFINE s == Position
  <2>1. /\ s \in Signals /\ free' = [free EXCEPT ![s] = free[s] + 1]
        /\ UNCHANGED << full, left >> /\ reader = "empty" /\ reader' = "yield"
    BY <1>5, <1>10 DEF Report, PutBack, Counted
  <2>2. \A t : InHand(t) = (IF t = s THEN 1 ELSE 0) /\ InHand(t)' = 0
    BY <2>1 DEF InHand
  <2> HIDE DEF s
  <2>3. ASSUME NEW t \in Signals
        PROVE  free'[t] + Len(full'[t]) + Cardinality(Pushing(t)) + InHand(t)' = SLOTS
    <3>1. free[t] + Len(full[t]) + Cardinality(Pushing(t)) + InHand(t) = SLOTS
      BY DEF TypeOK
    <3>2. full'[t] = full[t] /\ free'[t] = free[t] + InHand(t) /\ InHand(t)' = 0
      BY <1>3, <2>1, <2>2 DEF Counted
    <3>3. InHand(t) \in Nat
      BY DEF InHand
    <3> QED
      BY <1>3, <3>1, <3>2, <3>3
  <2>4. free' \in [Signals -> Nat]
    BY <2>1 DEF Counted
  <2> QED
    BY <2>3, <2>4
<1> QED
  BY <1>8, <1>9, <1>10 DEF Reader

(* The invariant with what it needs besides. *)
LEMMA SlotsCounted == Spec => [](TypeOK /\ Counted)
<1>1. Init => TypeOK /\ Counted
  <2> SUFFICES ASSUME Init PROVE TypeOK /\ Counted
    OBVIOUS
  <2>1. \A s \in Signals : Pushing(s) = {} /\ InHand(s) = 0 /\ Len(full[s]) = 0 /\ free[s] = SLOTS
    BY DEF Init, Pushing, InHand
  <2>2. IsFiniteSet({}) /\ Cardinality({}) = 0
    BY FS_EmptySet
  <2>3. ASSUME NEW s \in Signals
        PROVE  free[s] + Len(full[s]) + Cardinality(Pushing(s)) + InHand(s) = SLOTS
    <3>1. Cardinality(Pushing(s)) = 0
      BY <2>1, <2>2
    <3> QED
      BY <2>1, <3>1, SlotsAssumption
  <2>4. \A s \in Signals : IsFiniteSet(Pushing(s))
    BY <2>1, <2>2
  <2>5. Counted
    BY <2>4, SlotsAssumption DEF Init, Counted
  <2> QED
    BY <2>3, <2>5, SlotsAssumption DEF Init, TypeOK
<1>2. ASSUME IInv, TypeOK, Counted, [Next]_vars PROVE TypeOK' /\ Counted'
  <2>1. CASE UNCHANGED vars
    BY <1>2, <2>1 DEF vars, TypeOK, Counted, Pushing, InHand, Position
  <2> QED
    BY <1>2, <2>1, HandlerCounted, ReaderCounted DEF Next
<1> QED
  BY <1>1, <1>2, Invariance, PTL DEF Spec

(* No slot of a channel is lost, used twice or made up (channel.rs send()  *)
(* and recv() as raw.rs and origin.rs call them), whatever the activations *)
(* and however many at once; and the pipe does not overflow.               *)
THEOREM TypeCorrect == Spec => []TypeOK
BY SlotsCounted, PTL

-----------------------------------------------------------------------------
(* The channel of each signal. *)

(* Some(siginfo_t) is not None. *)
LEMMA ValuesAreSome ==
    ASSUME os \in {"linux", "macos"}
    PROVE  None \notin Values
<1>1. SUFFICES ASSUME NEW e \in Events[os]
               PROVE  [info |-> Filled(e), event |-> e] # None
  BY DEF Values
<1>2. e \in LinuxEvents
  BY DEF Events, MacEvents
<1>3. Filled(e) \in [si_signo : Nat, si_code : Int, place : [pid : Nat, uid : Nat]]
  BY <1>2, SignalsAssumption, ProcessesAssumption
     DEF LinuxEvents, SentEvents, NobodysEvents, ChildEvents, InputEvents, Event, Filled, Code,
         OtherMember, Nobody, StateChanges
<1> QED
  BY <1>2, <1>3, NoneAssumption

(* The slots in the hands of handlers, before a step and after it. *)
LEMMA HandsAfter ==
    ASSUME IInv, NEW h \in Handlers, Handler(h), NEW s \in Signals
    PROVE  /\ \A g \in Handlers \ {h} :
                 (g \in Pushing(s)' <=> g \in Pushing(s)) /\ Value(g)' = Value(g)
           /\ InHand(s)' = InHand(s) /\ taken' = taken
<1>1. /\ source' = source /\ UNCHANGED readerVars
      /\ \A g \in Handlers \ {h} : pc'[g] = pc[g] /\ info'[g] = info[g]
  BY DEF IInv, Shapes, Handler, Arrive, Send, Push, Wake, Goto
<1> QED
  BY <1>1 DEF Pushing, Value, InHand, Position, readerVars

(* send() in a handler: the value takes a slot, and goes into the queue.   *)
LEMMA HandlerSends ==
    ASSUME IInv, Counted, NEW h \in Handlers, Handler(h), NEW s \in Signals
    PROVE  [Channel(s)!Next]_(Channel(s)!vars)
<1> DEFINE old(g) == IF g \in Pushing(s) THEN Value(g) ELSE None
           new(g) == (IF g \in Pushing(s) THEN Value(g) ELSE None)'
           S == [g \in Handlers |-> old(g)]
           T == [g \in Handlers |-> new(g)]
<1>1. /\ \A g \in Handlers \ {h} : new(g) = old(g)
      /\ InHand(s)' = InHand(s) /\ taken' = taken
  BY HandsAfter
<1> HIDE DEF old, new
<1>2. /\ T = [S EXCEPT ![h] = new(h)] /\ S[h] = old(h) /\ T[h] = new(h)
      /\ new(h) = old(h) => T = S
  BY <1>1
<1> DEFINE got == [r \in {"reader"} |-> IF InHand(s) = 1 THEN taken.value ELSE None]
<1>3. got' = got
  BY <1>1
<1> HIDE DEF got
<1>4. CASE Send(h) /\ free[info[h].si_signo] > 0 /\ info[h].si_signo = s
  <2>1. /\ pc[h] = "send" /\ pc'[h] = "push" /\ info' = info /\ source' = source
        /\ free'[s] = free[s] - 1 /\ full' = full
    BY <1>4 DEF Send, Goto, IInv, Shapes, Counted
  <2>2. old(h) = None /\ new(h) = Value(h)
    BY <1>4, <2>1 DEF old, new, Pushing, Value
  <2>3. Value(h) # None
    BY <2>1, ValuesAreSome DEF IInv, Shapes, Faithful, Value, Values
  <2>4. /\ free[s] > 0 /\ S[h] = None /\ T[h] # None
        /\ T = [S EXCEPT ![h] = T[h]] /\ full'[s] = full[s]
    BY <1>2, <1>4, <2>1, <2>2, <2>3
  <2>5. Channel(s)!Reserve(h)
    BY <1>3, <2>1, <2>4 DEF Channel!Reserve, old, new, got
  <2> QED
    BY <2>5 DEF Channel!Next
<1>5. CASE Push(h) /\ info[h].si_signo = s
  <2>1. /\ pc[h] = "push" /\ pc'[h] = "wake" /\ free' = free
        /\ full'[s] = Append(full[s], Value(h))
    BY <1>5 DEF Push, Pushed, Goto, IInv, Shapes
  <2>2. old(h) = Value(h) /\ new(h) = None
    BY <1>5, <2>1 DEF old, new, Pushing
  <2>3. Value(h) # None
    BY <2>1, ValuesAreSome DEF IInv, Shapes, Faithful, Value, Values
  <2>4. /\ S[h] # None /\ T = [S EXCEPT ![h] = None]
        /\ full'[s] = Append(full[s], S[h]) /\ free'[s] = free[s]
    BY <1>2, <2>1, <2>2, <2>3
  <2>5. Channel(s)!Send(h)
    BY <1>3, <2>4 DEF Channel!Send, old, new, got
  <2> QED
    BY <2>5 DEF Channel!Next
<1>6. CASE info[h].si_signo # s \/ ~ ((Send(h) /\ free[info[h].si_signo] > 0) \/ Push(h))
  <2> DEFINE Same == new(h) = old(h) /\ free'[s] = free[s] /\ full'[s] = full[s]
  <2>1. ASSUME Arrive(h) PROVE Same
    BY <2>1 DEF Arrive, Goto, old, new, Pushing, IInv, Shapes
  <2>2. ASSUME Send(h) PROVE Same
    <3>1. /\ pc[h] = "send" /\ full' = full /\ info' = info
          /\ pc'[h] = "push" => info[h].si_signo # s
          /\ free'[s] = free[s]
      BY <1>6, <2>2 DEF Send, Goto, IInv, Shapes, Counted
    <3>2. new(h) = old(h)
      BY <3>1 DEF old, new, Pushing
    <3> QED
      BY <3>1, <3>2
  <2>3. ASSUME Push(h) PROVE Same
    <3>1. /\ pc'[h] = "wake" /\ info[h].si_signo # s
          /\ free' = free /\ full'[s] = full[s]
      BY <1>6, <2>3 DEF Push, Pushed, Goto, IInv, Shapes
    <3>2. new(h) = old(h)
      BY <3>1 DEF old, new, Pushing
    <3> QED
      BY <3>1, <3>2
  <2>4. ASSUME Wake(h) PROVE Same
    BY <2>4 DEF Wake, Goto, old, new, Pushing, IInv, Shapes
  <2>5. Same
    BY <2>1, <2>2, <2>3, <2>4 DEF Handler
  <2>6. T = S
    BY <1>2, <2>5
  <2> QED
    BY <1>3, <2>5, <2>6 DEF Channel!vars, old, new, got
<1> QED
  BY <1>4, <1>5, <1>6

(* recv() in the reader: a value leaves the queue, and its slot comes back. *)
LEMMA ReaderReceives ==
    ASSUME IInv, Counted, Reader, NEW s \in Signals
    PROVE  [Channel(s)!Next]_(Channel(s)!vars)
<1> DEFINE sending == [h \in Handlers |-> IF h \in Pushing(s) THEN Value(h) ELSE None]
           old == IF InHand(s) = 1 THEN taken.value ELSE None
           new == (IF InHand(s) = 1 THEN taken.value ELSE None)'
           G == [r \in {"reader"} |-> old]
           H == [r \in {"reader"} |-> new]
<1>1. sending' = sending
  BY DEF Reader, Read, Flush, Flushed, Recv, Report, Continue, Advance, Exhausted, readerVars,
     Pushing, Value
<1> HIDE DEF sending, old, new
<1>2. /\ G["reader"] = old /\ H = [G EXCEPT !["reader"] = new]
      /\ new = old => H = G
  OBVIOUS
<1>3. CASE Recv /\ Position = s
  <2>1. /\ reader = "next" /\ reader' = "empty" /\ left' = left /\ free' = free
        /\ full[s] # << >> /\ full'[s] = Tail(full[s])
        /\ taken' = [taken EXCEPT !.value = Head(full[s])]
    BY <1>3 DEF Recv, IInv, Shapes
  <2>2. taken'.value = Head(full[s])
    BY <2>1 DEF IInv, Shapes
  <2>3. Position' = s
    BY <1>3, <2>1 DEF Position
  <2>4. old = None /\ new = Head(full[s])
    BY <2>1, <2>2, <2>3 DEF old, new, InHand
  <2>5. Channel(s)!Recv("reader")
    BY <1>1, <1>2, <2>1, <2>4 DEF Channel!Recv, sending, old, new
  <2> QED
    BY <2>5 DEF Channel!Next
<1>4. CASE Report /\ Position = s
  <2>1. /\ reader = "empty" /\ reader' = "yield" /\ full' = full
        /\ free'[s] = free[s] + 1
    BY <1>4 DEF Report, PutBack, Counted
  <2>2. taken.value # None
    BY <2>1, ValuesAreSome DEF IInv, Shapes, Faithful
  <2>3. old # None /\ new = None
    BY <1>4, <2>1, <2>2 DEF old, new, InHand
  <2>4. Channel(s)!Return("reader")
    BY <1>1, <1>2, <2>1, <2>3 DEF Channel!Return, sending, old, new
  <2> QED
    BY <2>4 DEF Channel!Next
<1>5. CASE ~ ((Recv \/ Report) /\ Position = s)
  <2> DEFINE Same == free'[s] = free[s] /\ full'[s] = full[s] /\ new = old
  <2>1. ASSUME Recv PROVE Same
    <3>1. /\ reader = "next" /\ left' = left /\ free' = free
          /\ Position # s /\ full'[s] = full[s]
      BY <1>5, <2>1 DEF Recv, IInv, Shapes
    <3>2. Position' # s
      BY <3>1 DEF Position
    <3> QED
      BY <3>1, <3>2 DEF old, new, InHand
  <2>2. ASSUME Report PROVE Same
    <3>1. /\ reader = "empty" /\ reader' = "yield" /\ full' = full
          /\ Position # s /\ free'[s] = free[s]
      BY <1>5, <2>2 DEF Report, Counted
    <3> QED
      BY <3>1 DEF old, new, InHand
  <2>3. ASSUME Read \/ Flush \/ Flushed \/ Continue \/ Advance \/ Exhausted PROVE Same
    <3>1. /\ reader # "empty" /\ reader' # "empty" /\ free' = free /\ full' = full
      BY <2>3 DEF Read, Flush, Flushed, Continue, Advance, Exhausted, readerVars
    <3> QED
      BY <3>1 DEF old, new, InHand
  <2>4. Same
    BY <2>1, <2>2, <2>3 DEF Reader
  <2>5. H = G
    BY <1>2, <2>4
  <2> QED
    BY <1>1, <2>4, <2>5 DEF Channel!vars, sending, old, new
<1> QED
  BY <1>3, <1>4, <1>5

(* The channels that raw.rs and origin.rs use keep to what Channel is      *)
(* proved to do, for each signal: so the values that get to the reader are *)
(* those that the handlers sent, once each and in their order.             *)
THEOREM Implements == Spec => SendsThrough
<1> DEFINE Step == \A s \in Signals : [Channel(s)!Next]_(Channel(s)!vars)
<1>1. Init => \A s \in Signals : Channel(s)!Init
  <2> SUFFICES ASSUME Init, NEW s \in Signals PROVE Channel(s)!Init
    OBVIOUS
  <2>1. \A h \in Handlers : h \notin Pushing(s)
    BY DEF Init, Pushing
  <2>2. InHand(s) = 0
    BY DEF Init, InHand
  <2> QED
    BY <2>1, <2>2 DEF Init, Channel!Init
<1>2. ASSUME IInv, Counted, [Next]_vars PROVE [Step]_vars
  <2>1. CASE UNCHANGED vars
    BY <2>1
  <2>2. ASSUME NEW s \in Signals, Next PROVE [Channel(s)!Next]_(Channel(s)!vars)
    BY <1>2, <2>2, HandlerSends, ReaderReceives DEF Next
  <2> QED
    BY <1>2, <2>1, <2>2
<1> QED
  BY <1>1, <1>2, Invariance, SlotsCounted, PTL DEF Spec, SendsThrough

(* The same in the words of the abstract module. *)
COROLLARY EachChannel ==
    ASSUME NEW c \in Signals
    PROVE  Spec => Channel(c)!Spec
<1> DEFINE First == \A s \in Signals : Channel(s)!Init
           Step == \A s \in Signals : [Channel(s)!Next]_(Channel(s)!vars)
<1>1. First => Channel(c)!Init
  OBVIOUS
<1>2. [Step]_vars => [Channel(c)!Next]_(Channel(c)!vars)
  BY DEF vars, Channel!vars, Pushing, Value, InHand, Position
<1>3. Spec => First /\ [][Step]_vars
  BY Implements DEF SendsThrough
<1> HIDE DEF First, Step
<1> QED
  BY <1>1, <1>2, <1>3, PTL DEF Channel!Spec
=============================================================================
