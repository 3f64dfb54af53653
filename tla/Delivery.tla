------------------------------ MODULE Delivery ------------------------------
(***************************************************************************)
(* src/iterator: signals on their way from the handler to the thread that  *)
(* reads them.  A handler's action (PendingSignals::add_signal) marks the  *)
(* slot of the signal and writes a byte to a pipe; the reader drains the   *)
(* pipe and looks at every slot.  Handle::close, from any thread, must get *)
(* the reader out of a blocking read.                                      *)
(*                                                                         *)
(* The exfiltrator is SignalOnly.  The methods of SignalsInfo take         *)
(* &mut self, so there is one reader.  It is one of three: a thread that   *)
(* may call pending(), wait() and forever() in any order and ask the live  *)
(* iterator for its next signal; a Stream of tokio or async-std, polled by *)
(* an executor; or a loop around the Poll of mio, with the instance        *)
(* registered as an event source, that calls pending().                    *)
(***************************************************************************)
EXTENDS Naturals

CONSTANTS
    MAX_SIGNUM,     \* the slots are 1 .. MAX_SIGNUM, scanned in this order
    Handlers,       \* activations of the signal handler
    PIPE,           \* bytes the pipe has room for
    Fronts          \* the kinds of readers

ASSUME MaxSignumAssumption == MAX_SIGNUM \in Nat \ {0}
ASSUME PipeAssumption == PIPE \in Nat \ {0}
ASSUME FrontsAssumption == Fronts \subseteq {"thread", "stream", "mio"}

VARIABLES
    slot,           \* PendingSignals.slots, one AtomicBool for each signal
    pipe,           \* bytes in the pipe
    waking,         \* the handlers between their store and their wake
    closed,         \* DeliveryState.closed
    closer,         \* where a thread is in Handle::close
    front,          \* the kind of the reader
    rpc,            \* where it is
    resume,         \* where it goes when the pipe is drained
    iter,           \* the kind of the live iterator
    position,       \* Pending.position
    waker,          \* the stream's task has a waker registered with its socket
    watch,          \* how the instance is registered with the Poll of mio
    ready           \* the executor is going to poll the task; an edge-triggered
                    \* Poll has an event of the pipe to report

osVars == << slot, pipe, waking >>
closeVars == << closed, closer >>
readerVars == << rpc, resume, iter, position >>
taskVars == << waker, watch, ready >>
vars == << osVars, closeVars, front, readerVars, taskVars >>

Signals == 1 .. MAX_SIGNUM
Triggers == {"edge", "level"}   \* mio 0.6 knows both, the later ones edges

Init ==
    /\ slot = [s \in Signals |-> FALSE]
    /\ pipe = 0
    /\ waking = {}
    /\ closed = FALSE
    /\ closer = "open"
    /\ front \in Fronts
    /\ rpc = "user"
    /\ resume = "user"
    /\ iter = "none"
    /\ position = MAX_SIGNUM + 1
    /\ waker = FALSE
    /\ watch = "none"
    /\ ready = FALSE

-----------------------------------------------------------------------------
(* Mutant: the byte is not written. *)
NotWoken(bytes) == bytes

(* pipe::wake(): one byte, without blocking; a full pipe will do as well. *)
Woken(bytes) == IF bytes < PIPE THEN bytes + 1 ELSE bytes

(* A byte that arrives uses up the waker of a task, and is an event to an  *)
(* edge-triggered Poll.                                                    *)
Notify ==
    /\ IF pipe' > pipe THEN ready' = (ready \/ waker \/ watch = "edge") /\ waker' = FALSE
       ELSE UNCHANGED << ready, waker >>
    /\ UNCHANGED watch

(* SignalOnly::store *)
Stored(s) == [slot EXCEPT ![s] = TRUE]

(* The action of a signal: exfiltrator.store() ... *)
Store(h, s) ==
    /\ h \notin waking
    /\ slot' = Stored(s)
    /\ waking' = waking \cup {h}
    /\ UNCHANGED << pipe, closeVars, front, readerVars, taskVars >>

(* ... and then write.wake_readers(). *)
Wake(h) ==
    /\ h \in waking
    /\ pipe' = Woken(pipe)
    /\ waking' = waking \ {h}
    /\ Notify
    /\ UNCHANGED << slot, closeVars, front, readerVars >>

-----------------------------------------------------------------------------
(* Handle::close: the flag first ... *)
SetClosed ==
    /\ closer = "open"
    /\ closed' = TRUE
    /\ closer' = "waking"
    /\ UNCHANGED << osVars, front, readerVars, taskVars >>

(* Mutant: the wake of close goes nowhere. *)
CloseWoken(bytes) == bytes

ClosedPipe(bytes) == Woken(bytes)

(* ... and then write.wake_readers(). *)
CloseWake ==
    /\ closer = "waking"
    /\ pipe' = ClosedPipe(pipe)
    /\ closer' = "done"
    /\ Notify
    /\ UNCHANGED << slot, waking, closed, front, readerVars >>

-----------------------------------------------------------------------------
(* The reader's calls. *)

(* A method that begins with pending(): the pipe is drained and a new      *)
(* batch begins.                                                           *)
Begin(kind) ==
    /\ rpc = "user"
    /\ rpc' = "flush"
    /\ resume' = "user"
    /\ iter' = kind
    /\ UNCHANGED << osVars, closeVars, front, position, waker, watch >>

(* pending() *)
CallPending ==
    /\ front \in {"thread", "mio"}
    /\ Begin("pending")
    /\ UNCHANGED ready

(* forever(), into_iter(): SignalIterator::new begins a batch. *)
CallForever ==
    /\ front = "thread"
    /\ Begin("forever")
    /\ UNCHANGED ready

(* with_exfiltrator() of tokio and async-std: OwningSignalIterator::new.   *)
MakeStream ==
    /\ front = "stream"
    /\ iter = "none"
    /\ Begin("stream")
    /\ ready' = TRUE

(* wait(): poll_pending() blocks, unless the instance is closed. *)
CallWait ==
    /\ front = "thread"
    /\ rpc = "user"
    /\ rpc' = IF closed THEN "flush" ELSE "read"
    /\ resume' = "user"
    /\ iter' = "pending"
    /\ UNCHANGED << osVars, closeVars, front, position, taskVars >>

(* next() of the live iterator; Forever goes through poll_signal(). *)
CallNext ==
    /\ rpc = "user"
    /\ iter \in {"pending", "forever"}
    /\ rpc' = IF iter = "forever" THEN "poll" ELSE "scan"
    /\ UNCHANGED << osVars, closeVars, front, resume, iter, position, taskVars >>

(* poll_next() of a stream, which goes through poll_signal() too.  A task  *)
(* may be polled for other reasons than its waker's.                       *)
PollNext ==
    /\ rpc = "user"
    /\ iter = "stream"
    /\ rpc' = "poll"
    /\ ready' = FALSE
    /\ UNCHANGED << osVars, closeVars, front, resume, iter, position, waker, watch >>

(* register() and reregister() of the event source: the pipe is watched,   *)
(* and what is in it already is an event.                                  *)
Watch(trigger) ==
    /\ front = "mio"
    /\ rpc = "user"
    /\ watch' = trigger
    /\ ready' = (trigger = "edge" /\ pipe > 0)
    /\ UNCHANGED << osVars, closeVars, front, readerVars, waker >>

SourceRegister(trigger) == watch = "none" /\ Watch(trigger)
SourceReregister(trigger) == watch # "none" /\ Watch(trigger)

(* deregister() of the event source. *)
SourceDeregister ==
    /\ watch # "none"
    /\ rpc = "user"
    /\ watch' = "none"
    /\ ready' = FALSE
    /\ UNCHANGED << osVars, closeVars, front, readerVars, waker >>

(* Poll has an event: of an edge, or because the pipe is readable. *)
Event == (watch = "edge" /\ ready) \/ (watch = "level" /\ pipe > 0)

(* The loop around Poll gets the event and calls pending(). *)
HandleEvent ==
    /\ Event
    /\ Begin("pending")
    /\ ready' = FALSE

-----------------------------------------------------------------------------
(* What happens inside of the methods. *)

(* poll_signal(): the condition of its loop.  PollResult::Closed ends a    *)
(* Forever, and a stream for good.                                         *)
CheckClosed ==
    /\ rpc = "poll"
    /\ IF closed
       THEN rpc' = "user" /\ iter' = IF iter = "stream" THEN "ended" ELSE "none"
       ELSE rpc' = "scan" /\ UNCHANGED iter
    /\ UNCHANGED << osVars, closeVars, front, resume, position, taskVars >>

(* SignalOnly::load: compare_exchange(true, false), when it succeeds. *)
Loaded(s) == [slot EXCEPT ![s] = FALSE]

(* Pending::next(): load() takes the mark; the position stays.  A task     *)
(* that gets a signal polls again.                                         *)
Report ==
    /\ rpc = "scan"
    /\ position <= MAX_SIGNUM
    /\ slot[position]
    /\ slot' = Loaded(position)
    /\ rpc' = "user"
    /\ ready' = (ready \/ iter = "stream")
    /\ UNCHANGED << pipe, waking, closeVars, front, resume, iter, position,
                    waker, watch >>

(* Pending::next(): nothing there, the next slot. *)
Advance ==
    /\ rpc = "scan"
    /\ position <= MAX_SIGNUM
    /\ ~slot[position]
    /\ position' = position + 1
    /\ UNCHANGED << osVars, closeVars, front, rpc, resume, iter, taskVars >>

(* Pending::next(): the end.  poll_signal() asks for another batch. *)
Exhausted ==
    /\ rpc = "scan"
    /\ position > MAX_SIGNUM
    /\ rpc' = IF iter = "pending" THEN "user" ELSE "pollPending"
    /\ UNCHANGED << osVars, closeVars, front, resume, iter, position, taskVars >>

(* poll_pending(): closed means Ok(None), PollResult::Pending, and once    *)
(* more around the loop of Forever::next, but Poll::Pending for a task;    *)
(* otherwise has_signals() reads.                                          *)
PollPending ==
    /\ rpc = "pollPending"
    /\ rpc' = IF ~closed THEN "read" ELSE IF iter = "stream" THEN "user" ELSE "poll"
    /\ resume' = "poll"
    /\ UNCHANGED << osVars, closeVars, front, iter, position, taskVars >>

(* A byte is read, and true returned. *)
ReadByte ==
    /\ rpc = "read"
    /\ pipe > 0
    /\ pipe' = pipe - 1
    /\ rpc' = "flush"
    /\ UNCHANGED << slot, waking, closeVars, front, resume, iter, position, taskVars >>

(* has_signals() of a thread blocks until there is a byte; EINTR is tried  *)
(* again.                                                                  *)
Read == iter # "stream" /\ ReadByte

(* has_signals() of a stream: poll_read() finds a byte ...                 *)
PollRead == iter = "stream" /\ ReadByte

(* ... or nothing, and registers the task's waker; poll_next() returns     *)
(* Poll::Pending.                                                          *)
ReadNothing ==
    /\ rpc = "read"
    /\ iter = "stream"
    /\ pipe = 0
    /\ waker' = TRUE
    /\ rpc' = "user"
    /\ UNCHANGED << osVars, closeVars, front, resume, iter, position,
                    watch, ready >>

(* flush(): recv() without blocking, as long as there is something. *)
Flush ==
    /\ rpc = "flush"
    /\ pipe > 0
    /\ pipe' = 0
    /\ UNCHANGED << slot, waking, closeVars, front, readerVars, taskVars >>

(* Mutant: a new batch goes on where the old one ended. *)
SamePosition == position

(* Pending::new() *)
NewPosition == 1

Flushed ==
    /\ rpc = "flush"
    /\ pipe = 0
    /\ position' = NewPosition
    /\ rpc' = resume
    /\ UNCHANGED << osVars, closeVars, front, resume, iter, taskVars >>

(* What the reader does once it is called. *)
ReaderStep ==
    \/ CheckClosed \/ Report \/ Advance \/ Exhausted
    \/ PollPending \/ Read \/ PollRead \/ ReadNothing \/ Flush \/ Flushed

Call ==
    \/ CallPending \/ CallForever \/ MakeStream
    \/ CallWait \/ CallNext \/ PollNext
    \/ \E trigger \in Triggers : SourceRegister(trigger) \/ SourceReregister(trigger)
    \/ SourceDeregister \/ HandleEvent

Next ==
    \/ \E h \in Handlers : Wake(h) \/ \E s \in Signals : Store(h, s)
    \/ SetClosed \/ CloseWake
    \/ Call
    \/ ReaderStep

Spec == Init /\ [][Next]_vars

(* The program goes on: it reads its batch, and begins another one, in any *)
(* of its ways, when that is at its end; the executor polls a ready task;  *)
(* the loop around Poll handles its events.                                *)
Continue ==
    \/ /\ iter = "forever" \/ (iter = "pending" /\ position <= MAX_SIGNUM)
       /\ CallNext
    \/ /\ front = "thread"
       /\ iter = "none" \/ (iter = "pending" /\ position > MAX_SIGNUM)
       /\ CallWait \/ CallPending \/ CallForever
    \/ MakeStream
    \/ ready /\ PollNext
    \/ position > MAX_SIGNUM /\ HandleEvent

(* A handler and close() run to their ends and so does a method of the     *)
(* reader when it can.  The reader is a thread, a task or a loop that the  *)
(* program designates to handling signals: it always goes on, whatever     *)
(* other calls it makes in between.                                        *)
Fairness ==
    /\ \A h \in Handlers : WF_vars(Wake(h))
    /\ WF_vars(CloseWake)
    /\ WF_vars(ReaderStep)
    /\ SF_vars(Continue)

FairSpec == Spec /\ Fairness

-----------------------------------------------------------------------------
(* The type invariant of the delivery. *)
TypeOK ==
    /\ slot \in [Signals -> BOOLEAN]
    /\ pipe \in 0 .. PIPE
    /\ waking \in SUBSET Handlers
    /\ closed \in BOOLEAN
    /\ closer \in {"open", "waking", "done"}
    /\ front \in Fronts
    /\ rpc \in {"user", "poll", "scan", "pollPending", "read", "flush"}
    /\ resume \in {"user", "poll"}
    /\ iter \in {"none", "pending", "forever", "stream", "ended"}
    /\ position \in 1 .. MAX_SIGNUM + 1
    /\ waker \in BOOLEAN
    /\ watch \in Triggers \cup {"none"}
    /\ ready \in BOOLEAN

(* A reader sleeps: a thread in its blocking read; a task of which the     *)
(* executor has no reason to poll it; a loop whose Poll has no event.      *)
Blocked == rpc = "read" /\ pipe = 0 /\ iter # "stream"
Parked == rpc = "user" /\ iter = "stream" /\ ~ready
Eventless == rpc = "user" /\ watch # "none" /\ ~Event

(* The reader sleeps only when there is nothing to do: no marked slot, or  *)
(* a handler that is about to write, and not closed, or close() is about   *)
(* to write.  This is what the order of store and wake, of flag and wake,  *)
(* and of flush and scan is for; and a byte that did not fit does no harm. *)
(* The only marks it may sleep on are those of a batch the program did not *)
(* read to its end: the pipe was drained when that batch began.            *)
(* (A closed stream owes its signals to nobody; StreamEnds is about it.)   *)
NoLostWakeup ==
    /\ Blocked \/ (Parked /\ ~closed) \/ Eventless =>
          waking # {} \/ \A s \in Signals : slot[s] => iter = "pending" /\ position <= s
    /\ Blocked /\ closed => closer = "waking"

(* It holds because a mark behind the reader's position always comes with  *)
(* a byte, or with a handler that is going to write it, unless the reader  *)
(* is on its way to a new scan.                                            *)
MarksAnnounced ==
    rpc # "flush" => \A s \in Signals :
        slot[s] /\ s < position => pipe > 0 \/ waking # {}

(* The inductive invariant behind NoLostWakeup.  A reader that is about to *)
(* read has looked at every slot (a wait() may skip that); a close that is *)
(* over has left it a byte; a waker stands for an empty pipe, so the next  *)
(* byte uses it up; a task that is parked, in an instance that is not      *)
(* closed, has one; and a pipe that is watched for edges has its event     *)
(* until it is drained.                                                    *)
ReadsAtEnd ==
    rpc \in {"pollPending", "read"} => position > MAX_SIGNUM \/ iter = "pending"
FrontsApart ==
    /\ iter = "stream" => front = "stream"
    /\ watch # "none" => front = "mio"
    /\ front = "mio" =>
          /\ iter = "pending" \/ (iter = "none" /\ position > MAX_SIGNUM /\ rpc = "user")
          /\ rpc \in {"user", "scan", "flush"}
          /\ rpc = "flush" => resume = "user"
FlagFirst == closed <=> closer # "open"
CloseAnnounced == rpc = "read" /\ closer = "done" => pipe > 0
WakerWaits == waker => pipe = 0
NewStreamReady ==
    rpc \in {"read", "flush"} /\ iter = "stream" /\ resume = "user" =>
        rpc = "flush" /\ ready
ParkedHasWaker == Parked /\ ~closed => waker /\ position > MAX_SIGNUM

EdgeReported == watch = "edge" /\ pipe > 0 => ready \/ rpc = "flush"

IInv ==
    /\ TypeOK
    /\ FrontsApart
    /\ EdgeReported
    /\ MarksAnnounced
    /\ ReadsAtEnd
    /\ FlagFirst
    /\ CloseAnnounced
    /\ WakerWaits
    /\ NewStreamReady
    /\ ParkedHasWaker

SignalsKeepComing ==
    []<><< \E h \in Handlers, s \in Signals : Store(h, s) >>_vars

(* When signals stop coming, each one that came is reported, unless the    *)
(* instance is closed, or the reader left its batch for a wait() or is a   *)
(* loop that does not watch the instance.  While they keep coming flush()  *)
(* may go on for ever, and as the position does not move past a signal     *)
(* that comes back, smaller numbers may starve larger ones.                *)
LeftBehind(s) == Blocked /\ iter = "pending" /\ position <= s
Unwatched == front = "mio" /\ watch = "none"

EventuallyReported ==
    \/ SignalsKeepComing
    \/ \A s \in Signals : slot[s] ~> (~slot[s] \/ closed \/ LeftBehind(s) \/ Unwatched)

(* After close no method blocks for ever: "all currently blocking          *)
(* operations of associated instances are interrupted and terminate" (the  *)
(* doc of close).                                                          *)
CloseInterrupts ==
    \/ SignalsKeepComing
    \/ closed /\ rpc # "user" ~> rpc = "user"

(* The same doc, said of a stream: when close() is over, no task is left   *)
(* waiting, so the stream comes to its end.                                *)
StreamEnds == closer = "done" => ~Parked
=============================================================================
