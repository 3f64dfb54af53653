--------------------------- MODULE DeliveryProofs ---------------------------
(***************************************************************************)
(* The reader never sleeps on a signal or on a close, for any number of    *)
(* signals and handlers and any capacity of the pipe.                      *)
(***************************************************************************)
EXTENDS Delivery, TLAPS

(* A write leaves a byte in the pipe and never takes one away; when it     *)
(* does not add one, the pipe was full.                                    *)
LEMMA WokenNotEmpty ==
    ASSUME NEW bytes \in 0 .. PIPE
    PROVE  /\ Woken(bytes) \in 1 .. PIPE
           /\ Woken(bytes) >= bytes
           /\ Woken(bytes) = bytes => bytes > 0
  BY PipeAssumption DEF Woken

LEMMA InitIInv == Init => IInv
  <1> SUFFICES ASSUME Init PROVE IInv
    OBVIOUS
  <1>1. /\ slot \in [Signals -> BOOLEAN] /\ closed \in BOOLEAN
        /\ waker \in BOOLEAN /\ ready \in BOOLEAN
    BY Zenon DEF Init
  <1>2. TypeOK
    BY <1>1, MaxSignumAssumption, PipeAssumption DEF Init, TypeOK
  <1>3. FrontsApart
    BY MaxSignumAssumption DEF Init, FrontsApart
  <1> QED
    BY <1>2, <1>3 DEF Init, IInv, EdgeReported, MarksAnnounced, ReadsAtEnd, FlagFirst,
                CloseAnnounced, WakerWaits, NewStreamReady, ParkedHasWaker, Parked

-----------------------------------------------------------------------------
(* The parts of the invariant that a byte can disturb: both writers of the *)
(* pipe, a handler and close().                                            *)
LEMMA WriteKeeps ==
    ASSUME IInv, pipe' = Woken(pipe), Notify,
           UNCHANGED << slot, front, readerVars >>,
           closed' = closed
    PROVE  /\ pipe' \in 0 .. PIPE /\ pipe' > 0
           /\ waker' \in BOOLEAN /\ ready' \in BOOLEAN /\ watch' = watch
           /\ EdgeReported' /\ FrontsApart'
           /\ MarksAnnounced'
           /\ WakerWaits'
           /\ NewStreamReady'
           /\ ParkedHasWaker'
  <1>1. /\ pipe' \in 1 .. PIPE /\ pipe' >= pipe
        /\ pipe' = pipe => pipe > 0
    BY WokenNotEmpty DEF IInv, TypeOK
  <1>2. pipe \in Nat /\ waker \in BOOLEAN /\ ready \in BOOLEAN
    BY DEF IInv, TypeOK
  <1>3. \/ /\ pipe' > pipe /\ ready' = (ready \/ waker \/ watch = "edge")
           /\ waker' = FALSE
        \/ pipe' = pipe /\ pipe > 0 /\ ready' = ready /\ waker' = FALSE /\ waker = FALSE
    BY <1>1, <1>2 DEF Notify, IInv, WakerWaits
  <1>4. waker' = FALSE /\ ((ready \/ waker) => ready') /\ watch' = watch
    BY <1>2, <1>3 DEF Notify
  <1>5. ready' \in BOOLEAN
    BY <1>2, <1>3, Zenon
  <1>6. EdgeReported'
    BY <1>3, <1>4 DEF IInv, EdgeReported, readerVars
  <1>7. FrontsApart'
    BY <1>4 DEF IInv, FrontsApart, readerVars
  <1>8. ParkedHasWaker'
    BY <1>4, <1>5 DEF IInv, ParkedHasWaker, Parked, readerVars
  <1>9. NewStreamReady'
    BY <1>4 DEF IInv, NewStreamReady, readerVars
  <1>10. waker' \in BOOLEAN
    BY <1>4, Zenon
  <1>11. pipe' \in 0 .. PIPE /\ pipe' > 0
    BY <1>1, PipeAssumption
  <1>12. MarksAnnounced' /\ WakerWaits'
    BY <1>4, <1>11 DEF MarksAnnounced, WakerWaits
  <1> QED
    BY <1>4, <1>5, <1>6, <1>7, <1>8, <1>9, <1>10, <1>11, <1>12

LEMMA StoreKeeps ==
    ASSUME IInv, NEW h \in Handlers, NEW s \in Signals, Store(h, s)
    PROVE  IInv'
  <1>1. TypeOK'
    BY DEF IInv, TypeOK, Store, Stored, closeVars, readerVars, taskVars
  <1>2. MarksAnnounced'
    BY DEF Store, MarksAnnounced
  <1> QED
    BY <1>1, <1>2 DEF IInv, Store, closeVars, readerVars, taskVars, ReadsAtEnd,
        FlagFirst, CloseAnnounced, WakerWaits, NewStreamReady, ParkedHasWaker, Parked,
        FrontsApart, EdgeReported

LEMMA WakeKeeps ==
    ASSUME IInv, NEW h \in Handlers, Wake(h)
    PROVE  IInv'
  <1>1. /\ pipe' = Woken(pipe) /\ Notify
        /\ UNCHANGED << slot, front, readerVars >> /\ UNCHANGED closeVars
    BY DEF Wake
  <1>2. /\ pipe' \in 0 .. PIPE /\ pipe' > 0
        /\ waker' \in BOOLEAN /\ ready' \in BOOLEAN /\ watch' = watch
        /\ EdgeReported' /\ FrontsApart'
        /\ MarksAnnounced' /\ WakerWaits' /\ NewStreamReady' /\ ParkedHasWaker'
    BY <1>1, WriteKeeps DEF closeVars
  <1>3. TypeOK'
    BY <1>1, <1>2 DEF IInv, TypeOK, Wake, closeVars, readerVars
  <1> QED
    BY <1>1, <1>2, <1>3 DEF IInv, closeVars, readerVars, ReadsAtEnd, FlagFirst,
        CloseAnnounced

LEMMA CloseKeeps ==
    ASSUME IInv, SetClosed \/ CloseWake
    PROVE  IInv'
  <1>1. CASE SetClosed
    <2>1. TypeOK'
      BY <1>1 DEF IInv, TypeOK, SetClosed, osVars, readerVars, taskVars
    <2> QED
      BY <1>1, <2>1 DEF IInv, SetClosed, osVars, readerVars, taskVars,
          MarksAnnounced, ReadsAtEnd, FlagFirst, CloseAnnounced, WakerWaits,
          NewStreamReady, ParkedHasWaker, Parked, FrontsApart, EdgeReported
  <1>2. CASE CloseWake
    <2>1. /\ pipe' = Woken(pipe) /\ Notify
          /\ UNCHANGED << slot, front, readerVars >> /\ closed' = closed
      BY <1>2 DEF CloseWake, ClosedPipe
    <2>2. /\ pipe' \in 0 .. PIPE /\ pipe' > 0
          /\ waker' \in BOOLEAN /\ ready' \in BOOLEAN /\ watch' = watch
          /\ EdgeReported' /\ FrontsApart'
        /\ MarksAnnounced' /\ WakerWaits' /\ NewStreamReady' /\ ParkedHasWaker'
      BY <2>1, WriteKeeps
    <2>3. TypeOK'
      BY <1>2, <2>1, <2>2 DEF IInv, TypeOK, CloseWake, readerVars
    <2> QED
      BY <1>2, <2>1, <2>2, <2>3 DEF IInv, CloseWake, readerVars, ReadsAtEnd,
          FlagFirst, CloseAnnounced
  <1> QED
    BY <1>1, <1>2

-----------------------------------------------------------------------------
(* The program's calls. *)
LEMMA CallKeeps ==
    ASSUME IInv, Call
    PROVE  IInv'
  <1> USE DEF IInv, MarksAnnounced, ReadsAtEnd, FlagFirst, CloseAnnounced, WakerWaits,
              NewStreamReady, ParkedHasWaker, Parked, FrontsApart, EdgeReported, osVars,
              closeVars, readerVars, taskVars
  <1>1. CASE CallPending
    <2>1. TypeOK'
      BY <1>1 DEF TypeOK, CallPending, Begin
    <2> QED
      BY <1>1, <2>1 DEF TypeOK, CallPending, Begin
  <1>2. CASE CallForever
    <2>1. TypeOK'
      BY <1>2 DEF TypeOK, CallForever, Begin
    <2> QED
      BY <1>2, <2>1 DEF TypeOK, CallForever, Begin
  <1>3. CASE MakeStream
    <2>1. TypeOK'
      BY <1>3 DEF TypeOK, MakeStream, Begin
    <2> QED
      BY <1>3, <2>1 DEF TypeOK, MakeStream, Begin
  <1>4. CASE CallWait
    <2>1. TypeOK'
      BY <1>4 DEF TypeOK, CallWait
    <2> QED
      BY <1>4, <2>1 DEF TypeOK, CallWait
  <1>5. CASE CallNext
    <2>1. TypeOK'
      BY <1>5 DEF TypeOK, CallNext
    <2> QED
      BY <1>5, <2>1 DEF TypeOK, CallNext
  <1>6. CASE PollNext
    <2>1. TypeOK'
      BY <1>6 DEF TypeOK, PollNext
    <2> QED
      BY <1>6, <2>1 DEF TypeOK, PollNext
  <1>7. ASSUME NEW trigger \in Triggers, SourceRegister(trigger) PROVE IInv'
    <2>1. TypeOK'
      BY <1>7 DEF TypeOK, SourceRegister, Watch
    <2> QED
      BY <1>7, <2>1 DEF TypeOK, SourceRegister, Watch
  <1>8. ASSUME NEW trigger \in Triggers, SourceReregister(trigger) PROVE IInv'
    <2>1. TypeOK'
      BY <1>8 DEF TypeOK, SourceReregister, Watch
    <2> QED
      BY <1>8, <2>1 DEF TypeOK, SourceReregister, Watch
  <1>9. CASE SourceDeregister
    <2>1. TypeOK'
      BY <1>9 DEF TypeOK, SourceDeregister
    <2> QED
      BY <1>9, <2>1 DEF TypeOK, SourceDeregister
  <1>10. CASE HandleEvent
    <2>1. TypeOK'
      BY <1>10 DEF TypeOK, HandleEvent, Event, Begin
    <2> QED
      BY <1>10, <2>1 DEF TypeOK, HandleEvent, Event, Begin
  <1> QED
    BY <1>1, <1>2, <1>3, <1>4, <1>5, <1>6, <1>7, <1>8, <1>9, <1>10 DEF Call

(* What happens inside of them. *)
LEMMA ReaderKeeps ==
    ASSUME IInv, ReaderStep
    PROVE  IInv'
  <1> USE DEF IInv, MarksAnnounced, ReadsAtEnd, FlagFirst, CloseAnnounced, WakerWaits,
              NewStreamReady, ParkedHasWaker, Parked, FrontsApart, EdgeReported, osVars,
              closeVars, taskVars
  <1>1. CASE CheckClosed
    <2>1. TypeOK'
      BY <1>1 DEF TypeOK, CheckClosed
    <2> QED
      BY <1>1, <2>1 DEF TypeOK, CheckClosed
  <1>2. CASE Report
    <2>1. TypeOK'
      BY <1>2 DEF TypeOK, Report, Loaded
    <2>2. MarksAnnounced'
      BY <1>2 DEF TypeOK, Report, Loaded
    <2>3. ParkedHasWaker' /\ NewStreamReady'
      BY <1>2 DEF TypeOK, Report
    <2>4. EdgeReported' /\ WakerWaits'
      BY <1>2 DEF TypeOK, Report
    <2> QED
      BY <1>2, <2>1, <2>2, <2>3, <2>4 DEF Report
  <1>3. CASE Advance
    <2>1. TypeOK'
      BY <1>3, MaxSignumAssumption DEF TypeOK, Advance
    <2>2. MarksAnnounced'
      BY <1>3, MaxSignumAssumption DEF TypeOK, Advance, Signals
    <2>3. FrontsApart' /\ ReadsAtEnd'
      BY <1>3, MaxSignumAssumption DEF TypeOK, Advance
    <2> QED
      BY <1>3, <2>1, <2>2, <2>3 DEF Advance
  <1>4. CASE Exhausted
    <2>1. TypeOK'
      BY <1>4 DEF TypeOK, Exhausted
    <2> QED
      BY <1>4, <2>1 DEF TypeOK, Exhausted
  <1>5. CASE PollPending
    <2>1. TypeOK'
      BY <1>5 DEF TypeOK, PollPending
    <2> QED
      BY <1>5, <2>1 DEF TypeOK, PollPending
  <1>6. CASE Read \/ PollRead
    <2>1. TypeOK'
      BY <1>6, PipeAssumption DEF TypeOK, Read, PollRead, ReadByte
    <2> QED
      BY <1>6, <2>1 DEF TypeOK, Read, PollRead, ReadByte
  <1>7. CASE ReadNothing
    <2>1. TypeOK'
      BY <1>7 DEF TypeOK, ReadNothing
    <2> QED
      BY <1>7, <2>1 DEF TypeOK, ReadNothing
  <1>8. CASE Flush
    <2>1. TypeOK'
      BY <1>8, PipeAssumption DEF TypeOK, Flush, readerVars
    <2> QED
      BY <1>8, <2>1 DEF TypeOK, Flush, readerVars
  <1>9. CASE Flushed
    <2>1. TypeOK'
      BY <1>9, MaxSignumAssumption DEF TypeOK, Flushed, NewPosition
    <2>2. MarksAnnounced'
      BY <1>9 DEF TypeOK, Flushed, NewPosition, Signals
    <2>3. FrontsApart' /\ ReadsAtEnd'
      BY <1>9, MaxSignumAssumption DEF TypeOK, Flushed, NewPosition
    <2>4. ParkedHasWaker' /\ NewStreamReady' /\ EdgeReported'
      BY <1>9 DEF TypeOK, Flushed
    <2>5. FlagFirst' /\ CloseAnnounced' /\ WakerWaits'
      BY <1>9 DEF TypeOK, Flushed
    <2> QED
      BY <2>1, <2>2, <2>3, <2>4, <2>5
  <1> QED
    BY <1>1, <1>2, <1>3, <1>4, <1>5, <1>6, <1>7, <1>8, <1>9 DEF ReaderStep

-----------------------------------------------------------------------------
(* The invariant is inductive: every step of the handlers, of close() and  *)
(* of the reader keeps marks announced and wakers in place.                *)
THEOREM Inductive == Spec => []IInv
  <1>1. IInv /\ [Next]_vars => IInv'
    <2> SUFFICES ASSUME IInv, [Next]_vars PROVE IInv'
      OBVIOUS
    <2>1. CASE UNCHANGED vars
      BY <2>1 DEF vars, osVars, closeVars, readerVars, taskVars, IInv, TypeOK,
          MarksAnnounced, ReadsAtEnd, FlagFirst, CloseAnnounced, WakerWaits,
          NewStreamReady, ParkedHasWaker, Parked, FrontsApart, EdgeReported
    <2> QED
      BY <2>1, StoreKeeps, WakeKeeps, CloseKeeps, CallKeeps, ReaderKeeps DEF Next
  <1> QED
    BY InitIInv, <1>1, PTL DEF Spec

(* Every variable of the delivery keeps its type. *)
THEOREM TypeCorrect == Spec => []TypeOK
  <1>1. IInv => TypeOK
    BY DEF IInv
  <1> QED
    BY Inductive, <1>1, PTL

(* A reader never sleeps on a signal or on a close, but for the signals of *)
(* a batch it did not read to its end.                                     *)
THEOREM Safe == Spec => []NoLostWakeup
  <1>1. IInv => NoLostWakeup
    <2> SUFFICES ASSUME IInv PROVE NoLostWakeup
      OBVIOUS
    <2>1. ASSUME Blocked \/ (Parked /\ ~closed) \/ Eventless, waking = {},
                 NEW s \in Signals, slot[s]
          PROVE  iter = "pending" /\ position <= s
      <3>1. pipe = 0 /\ rpc # "flush"
        <4>1. CASE Blocked
          BY <4>1 DEF Blocked
        <4>2. CASE Parked /\ ~closed
          BY <4>2 DEF Parked, IInv, ParkedHasWaker, WakerWaits, TypeOK
        <4>3. CASE Eventless
          BY <4>3 DEF Eventless, Event, IInv, EdgeReported, TypeOK, Triggers
        <4> QED
          BY <2>1, <4>1, <4>2, <4>3
      <3>2. position <= s
        BY <2>1, <3>1, MaxSignumAssumption DEF IInv, TypeOK, MarksAnnounced, Signals
      <3>3. position <= MAX_SIGNUM
        BY <3>2, MaxSignumAssumption DEF IInv, TypeOK, Signals
      <3>4. iter = "pending"
        <4>1. CASE Blocked
          BY <3>3, <4>1, MaxSignumAssumption DEF Blocked, IInv, ReadsAtEnd, TypeOK
        <4>2. CASE Parked /\ ~closed
          BY <3>3, <4>2, MaxSignumAssumption DEF Parked, IInv, ParkedHasWaker, TypeOK
        <4>3. CASE Eventless
          BY <3>3, <4>3, MaxSignumAssumption DEF Eventless, IInv, FrontsApart, TypeOK
        <4> QED
          BY <2>1, <4>1, <4>2, <4>3
      <3> QED
        BY <3>2, <3>4
    <2>2. Blocked /\ closed => closer = "waking"
      BY DEF IInv, TypeOK, Blocked, FlagFirst, CloseAnnounced
    <2> QED
      BY <2>1, <2>2 DEF NoLostWakeup
  <1> QED
    BY Inductive, <1>1, PTL
=============================================================================
