------------------------------ MODULE Origins -------------------------------
(***************************************************************************)
(* The iterator with the WithOrigin exfiltrator, from the siginfo_t that   *)
(* the kernel gives to a handler, through the channel of its signal, to    *)
(* the Origin that the reader gets:                                        *)
(*   src/low_level/extract.c, src/low_level/siginfo.rs,                    *)
(*   src/iterator/exfiltrator/{origin,raw}.rs.                             *)
(* Each signal has a channel, the LossyFifo that module Channel            *)
(* implements: SendsThrough.  The reader goes on for ever; what close(),   *)
(* unfinished batches and reactors do to it is in module Delivery.         *)
(*                                                                         *)
(* Where a value is dropped, the sources argue that "the whole system will *)
(* yield a signal" all the same (channel.rs): SystemYieldsSignal.          *)
(***************************************************************************)
EXTENDS Integers, Sequences, FiniteSets

CONSTANTS
    Signals,            \* that the instance watches
    SIGCHLD, SIGIO,     \* their numbers
    Handlers,           \* activations of the handler, in threads or nested
    Processes,          \* that signals come from: records of a pid and a uid
    SLOTS,              \* of a channel, 5 in the code
    PipeSize,           \* how many bytes the pipe takes
    Mixes,              \* which events the activations are about: a bound for TLC
    None                \* Option::None

ASSUME SignalsAssumption ==
    Signals \subseteq Nat /\ SIGCHLD \in Signals /\ SIGIO \in Signals /\ SIGCHLD # SIGIO
ASSUME SlotsAssumption == SLOTS \in Nat \ {0} /\ PipeSize \in Nat \ {0}
(* No process but the kernel has both numbers zero. *)
ASSUME ProcessesAssumption ==
    /\ Processes \subseteq [pid : Nat, uid : Nat] \ {[pid |-> 0, uid |-> 0]}
    /\ None \notin [pid : Nat, uid : Nat]

VARIABLES
    os,         \* the build: "linux", or "macos" without the siginfo_t of POSIX
    source,     \* what each activation is about
    pc, info,   \* where each activation is, and its siginfo_t
    free,       \* of each channel: how many slots are in the queue of empty ones ...
    full,       \* ... and the values in the queue of full ones
    pipe,       \* bytes in the self-pipe
    reader,     \* where the reader is
    left,       \* the signals its batch has not looked at to the end
    taken       \* what it took from a channel, with its Origin once extracted

vars == << os, source, pc, info, free, full, pipe, reader, left, taken >>
-----------------------------------------------------------------------------
(* What makes a signal, and what the kernel writes about it (external).    *)

StateChanges == {"exited", "killed", "dumped", "trapped", "stopped", "continued"}
Nobody == [pid |-> 0, uid |-> 0]
Event(s, how, p) == [signal |-> s, how |-> how, by |-> p]

SentEvents ==
    {Event(s, how, p) :
        s \in Signals, how \in {"kill", "tkill", "queue", "mesgq"}, p \in Processes}
NobodysEvents == {Event(s, how, Nobody) : s \in Signals, how \in {"kernel", "timer"}}
ChildEvents == {Event(SIGCHLD, how, p) : how \in StateChanges, p \in Processes}
InputEvents == {Event(SIGIO, "input", Nobody)}
LinuxEvents == SentEvents \cup NobodysEvents \cup ChildEvents \cup InputEvents
MacEvents == {e \in LinuxEvents : e.how \notin {"tkill", "mesgq"}}
Events == [linux |-> LinuxEvents, macos |-> MacEvents]
(* What goes through a channel is Some(siginfo_t). *)
ASSUME NoneAssumption ==
    None \notin [info : [si_signo : Nat, si_code : Int, place : [pid : Nat, uid : Nat]],
                 event : LinuxEvents]
ASSUME MixesAssumption == Mixes \subseteq [Handlers -> LinuxEvents]

(* The values of si_code.  The kernel says how a signal was made with a    *)
(* number of its own for each way, and for some signals with one that      *)
(* means something else for other signals.                                 *)
Code == [kill |-> 0, queue |-> -1, timer |-> -2, mesgq |-> -3, tkill |-> -6, kernel |-> 128,
         exited |-> 1, killed |-> 2, dumped |-> 3, trapped |-> 4, stopped |-> 5, continued |-> 6,
         input |-> 1]

(* siginfo_t is a union: where there is no process, another member of it   *)
(* may be in the place of the pid and the uid.                             *)
OtherMember == [pid |-> 8, uid |-> 9]
Filled(e) ==
    IF os = "macos" THEN [si_signo |-> e.signal, si_code |-> 0, place |-> e.by]
    ELSE [si_signo |-> e.signal, si_code |-> Code[e.how],
          place |-> IF e.how \in {"timer", "input"} THEN OtherMember ELSE e.by]
-----------------------------------------------------------------------------
(* extract.c: what si_code means, for the given signal or for any (-1).    *)
Row(native, signal, translated) ==
    [native |-> native, signal |-> signal, translated |-> translated]

Sent == {"User", "TKill", "Queue", "MesgQ"}
Chld == {"Exited", "Killed", "Dumped", "Trapped", "Stopped", "Continued"}

children == {Row(1, SIGCHLD, "Exited"), Row(2, SIGCHLD, "Killed"), Row(3, SIGCHLD, "Dumped"),
             Row(4, SIGCHLD, "Trapped"), Row(5, SIGCHLD, "Stopped"), Row(6, SIGCHLD, "Continued")}
consts == children \cup
    (IF os = "macos"
     THEN {Row(65537, -1, "User"), Row(65538, -1, "Queue"), Row(65541, -1, "MesgQ")}
     ELSE {Row(128, -1, "Kernel"), Row(0, -1, "User"), Row(-6, -1, "TKill"), Row(-1, -1, "Queue"),
           Row(-3, -1, "MesgQ")})

(* Mutant: the column of the signal is not looked at. *)
MatchesCode(row, i) == row.native = i.si_code

Matches(row, i) == row.native = i.si_code /\ row.signal \in {-1, i.si_signo}

(* sighook_signal_cause(): no two rows match the same siginfo_t, so that   *)
(* the first one is the one that matches.                                  *)
Cause(i) ==
    LET rows == {row \in consts : Matches(row, i)} IN
    IF rows = {} THEN "Unknown" ELSE (CHOOSE row \in rows : TRUE).translated

HasProcess(cause) == os = "macos" \/ cause \notin {"Unknown", "Kernel"}

(* Process::extract(), with the check for what macOS leaves empty.         *)
Process(i) ==
    IF os = "macos" /\ i.place.pid = 0 /\ i.place.uid = 0 THEN None ELSE i.place

(* From<ICause> for Cause. *)
Public(cause) == IF cause \in Sent THEN << "Sent", cause >>
                 ELSE IF cause \in Chld THEN << "Chld", cause >>
                 ELSE << cause >>

(* Origin::extract(). *)
Extract(i) == [signal |-> i.si_signo,
               process |-> IF HasProcess(Cause(i)) THEN Process(i) ELSE None,
               cause |-> Public(Cause(i))]
-----------------------------------------------------------------------------
(* A value in a channel is a siginfo_t; the event it is about goes along   *)
(* for the properties.                                                     *)
Value(h) == [info |-> info[h], event |-> source[h]]
Nothing == [value |-> None, origin |-> None]

Init ==
    /\ os \in {"linux", "macos"}
    /\ source \in {mix \in Mixes : \A h \in Handlers : mix[h] \in Events[os]}
    /\ pc = [h \in Handlers |-> "idle"]
    /\ info = [h \in Handlers |-> None]
    /\ free = [s \in Signals |-> SLOTS]
    /\ full = [s \in Signals |-> << >>]
    /\ pipe = 0
    /\ reader = "read"
    /\ left = {}
    /\ taken = Nothing

Goto(h, where) == pc' = [pc EXCEPT ![h] = where]
readerVars == << reader, left, taken >>

(* The kernel runs the handler, and the handler the hook of the instance.  *)
Arrive(h) ==
    /\ pc[h] = "idle"
    /\ info' = [info EXCEPT ![h] = Filled(source[h])]
    /\ Goto(h, "send")
    /\ UNCHANGED << os, source, free, full, pipe, readerVars >>

(* Channel::send(): a slot that is empty is taken out of its queue; if     *)
(* there is none, the value is dropped.                                    *)
Send(h) == LET s == info[h].si_signo IN
    /\ pc[h] = "send"
    /\ \/ /\ free[s] > 0
          /\ free' = [free EXCEPT ![s] = @ - 1]
          /\ Goto(h, "push")
       \/ /\ free[s] = 0
          /\ Goto(h, "wake")
          /\ UNCHANGED free
    /\ UNCHANGED << os, source, info, full, pipe, readerVars >>

(* Mutant: what came last goes first. *)
PushedFirst(q, v) == << v >> \o q

Pushed(q, v) == Append(q, v)

(* ... and put into the queue of the full ones. *)
Push(h) == LET s == info[h].si_signo IN
    /\ pc[h] = "push"
    /\ full' = [full EXCEPT ![s] = Pushed(@, Value(h))]
    /\ Goto(h, "wake")
    /\ UNCHANGED << os, source, info, free, pipe, readerVars >>

(* Mutant: no byte is written. *)
NotWoken == pipe

(* wake(): a byte, unless the pipe is full. *)
Woken == IF pipe < PipeSize THEN pipe + 1 ELSE pipe

Wake(h) ==
    /\ pc[h] = "wake"
    /\ pipe' = Woken
    /\ info' = [info EXCEPT ![h] = None]
    /\ Goto(h, "idle")
    /\ UNCHANGED << os, source, free, full, readerVars >>
-----------------------------------------------------------------------------
(* The reader: one byte wakes it, it drains the pipe and looks at every    *)
(* signal in the order of their numbers.                                   *)
Read ==
    /\ reader = "read"
    /\ pipe > 0
    /\ pipe' = pipe - 1
    /\ reader' = "flush"
    /\ UNCHANGED << os, source, pc, info, free, full, left, taken >>

(* flush(): a recv() that gets something, and there will be another one. *)
Flush ==
    /\ reader = "flush"
    /\ pipe > 0
    /\ pipe' = 0
    /\ UNCHANGED << os, source, pc, info, free, full, readerVars >>

(* flush(): a recv() that gets nothing; Pending::new() begins with the     *)
(* first signal.                                                           *)
Flushed ==
    /\ reader = "flush"
    /\ pipe = 0
    /\ left' = Signals
    /\ reader' = "next"
    /\ UNCHANGED << os, source, pc, info, free, full, pipe, taken >>

Position == CHOOSE s \in left : \A t \in left : s <= t

(* Pending::next() with load(): the first full slot of this signal ...     *)
Recv ==
    /\ reader = "next"
    /\ left # {}
    /\ full[Position] # << >>
    /\ taken' = [taken EXCEPT !.value = Head(full[Position])]
    /\ full' = [full EXCEPT ![Position] = Tail(@)]
    /\ reader' = "empty"
    /\ UNCHANGED << os, source, pc, info, free, pipe, left >>

(* Mutant: the slot is lost. *)
Kept(s) == free[s]

(* Mutant: the slot is put back twice. *)
PutBackTwice(s) == free[s] + 2

PutBack(s) == free[s] + 1

(* ... goes back to the queue of the empty ones, and the Origin of what    *)
(* was in it goes to the program.                                          *)
Report ==
    /\ reader = "empty"
    /\ free' = [free EXCEPT ![Position] = PutBack(Position)]
    /\ taken' = [taken EXCEPT !.origin = Extract(taken.value.info)]
    /\ reader' = "yield"
    /\ UNCHANGED << os, source, pc, info, full, pipe, left >>

(* The program comes back for more. *)
Continue ==
    /\ reader = "yield"
    /\ taken' = Nothing
    /\ reader' = "next"
    /\ UNCHANGED << os, source, pc, info, free, full, pipe, left >>

(* Nothing of this signal is there. *)
Advance ==
    /\ reader = "next"
    /\ left # {}
    /\ full[Position] = << >>
    /\ left' = left \ {Position}
    /\ UNCHANGED << os, source, pc, info, free, full, pipe, reader, taken >>

(* The batch is exhausted: poll_signal() waits for a byte. *)
Exhausted ==
    /\ reader = "next"
    /\ left = {}
    /\ reader' = "read"
    /\ UNCHANGED << os, source, pc, info, free, full, pipe, left, taken >>

Handler(h) == Arrive(h) \/ Send(h) \/ Push(h) \/ Wake(h)
Reader == Read \/ Flush \/ Flushed \/ Recv \/ Report \/ Continue \/ Advance \/ Exhausted
Next == Reader \/ \E h \in Handlers : Handler(h)

Spec == Init /\ [][Next]_vars

(* A handler runs to its end and the thread of the reader is scheduled.    *)
(* That signals arrive is never fair.                                      *)
Fairness ==
    /\ WF_vars(Reader)
    /\ \A h \in Handlers : WF_vars(Send(h) \/ Push(h) \/ Wake(h))
FairSpec == Spec /\ Fairness
-----------------------------------------------------------------------------
(* Properties. *)

(* The slots of s that are in neither queue. *)
Pushing(s) == {h \in Handlers : pc[h] = "push" /\ info[h].si_signo = s}
InHand(s) == IF reader = "empty" /\ Position = s THEN 1 ELSE 0

(* Everything has its type, and each slot of a channel is in one of its    *)
(* queues or in the hands of one handler or of the reader.                 *)
TypeOK ==
    /\ pc \in [Handlers -> {"idle", "send", "push", "wake"}]
    /\ pipe \in 0 .. PipeSize
    /\ reader \in {"read", "flush", "next", "empty", "yield"}
    /\ left \subseteq Signals
    /\ \A s \in Signals : free[s] + Len(full[s]) + Cardinality(Pushing(s)) + InHand(s) = SLOTS

(* What goes through here is what Channel promises: a send() that takes a  *)
(* slot and puts its value into the queue, a recv() that takes a value out *)
(* and gives its slot back.  For each signal, this is a LossyFifo (that is *)
(* \A s \in Signals : Channel(s)!Spec, in a form that TLC can check).      *)
Channel(s) == INSTANCE LossyFifo WITH
    Senders <- Handlers, Receivers <- {"reader"}, Capacity <- SLOTS,
    free <- free[s],
    sending <- [h \in Handlers |-> IF h \in Pushing(s) THEN Value(h) ELSE None],
    queue <- full[s],
    got <- [r \in {"reader"} |-> IF InHand(s) = 1 THEN taken.value ELSE None]

SendsThrough ==
    /\ \A s \in Signals : Channel(s)!Init
    /\ [][\A s \in Signals : [Channel(s)!Next]_(Channel(s)!vars)]_vars

(* The reader sleeps on a signal only while the handler that will wake it  *)
(* is still running (raw.rs store, backend.rs:140-145): whatever it finds  *)
(* in the channels after it drained the pipe, and whatever comes while it  *)
(* looks at another signal.                                                *)
NothingLeftBehind ==
    reader = "read" /\ pipe = 0 =>
        \A s \in Signals : full[s] # << >> =>
            \E h \in Handlers : pc[h] = "wake" /\ info[h].si_signo = s

(* What the docs of Cause, Sent and Chld say of each way (siginfo.rs:88-158). *)
Happened == [kill |-> << "Sent", "User" >>, tkill |-> << "Sent", "TKill" >>,
             queue |-> << "Sent", "Queue" >>, mesgq |-> << "Sent", "MesgQ" >>,
             exited |-> << "Chld", "Exited" >>, killed |-> << "Chld", "Killed" >>,
             dumped |-> << "Chld", "Dumped" >>, trapped |-> << "Chld", "Trapped" >>,
             stopped |-> << "Chld", "Stopped" >>, continued |-> << "Chld", "Continued" >>,
             kernel |-> << "Kernel" >>, timer |-> << "Unknown" >>, input |-> << "Unknown" >>]

(* What the docs of Origin promise (siginfo.rs:187-209): the signal, the   *)
(* process that caused it if one did and the system says so, and how it    *)
(* happened, unknown where the system does not fill it in.                 *)
Meaning(e) ==
    [signal |-> e.signal,
     process |-> IF e.how \in {"kernel", "timer", "input"} THEN None ELSE e.by,
     cause |-> IF os = "macos" THEN << "Unknown" >> ELSE Happened[e.how]]

(* An Origin is what it means, although it comes out of a union: never a   *)
(* process where there was none, never the cause of another signal         *)
(* (siginfo.rs Origin::extract, the table in extract.c).                   *)
Attributed == reader = "yield" => taken.origin = Meaning(taken.value.event)

(* The inductive invariant: a siginfo_t stays that of its event, in a      *)
(* handler, in a channel and in the hands of the reader; and a signal in a *)
(* channel has a byte in the pipe, a handler that will write one, or a     *)
(* batch that has not passed it yet.                                       *)
Values == {[info |-> Filled(e), event |-> e] : e \in Events[os]}
Shapes ==
    /\ os \in {"linux", "macos"}
    /\ source \in [Handlers -> Events[os]]
    /\ pc \in [Handlers -> {"idle", "send", "push", "wake"}]
    /\ info \in [Handlers -> {Filled(e) : e \in Events[os]} \cup {None}]
    /\ full \in [Signals -> Seq(Values)]
    /\ pipe \in Nat
    /\ reader \in {"read", "flush", "next", "empty", "yield"}
    /\ left \subseteq Signals
    /\ taken = [value |-> taken.value, origin |-> taken.origin]
Faithful ==
    /\ \A h \in Handlers : pc[h] # "idle" => info[h] = Filled(source[h])
    /\ reader \in {"empty", "yield"} => taken.value \in Values
    /\ reader = "yield" => taken.origin = Extract(taken.value.info)
Announced ==
    \A s \in Signals : full[s] # << >> =>
        \/ pipe > 0
        \/ \E h \in Handlers : pc[h] = "wake" /\ info[h].si_signo = s
        \/ reader = "flush"
        \/ reader \in {"next", "empty", "yield"} /\ s \in left
IInv == Shapes /\ Faithful /\ Announced

(* What TypeOK needs besides: the numbers are ones, and a slot in the      *)
(* hands of the reader is one of a signal.                                 *)
Counted ==
    /\ free \in [Signals -> Nat]
    /\ \A s \in Signals : IsFiniteSet(Pushing(s))
    /\ reader = "empty" => left # {}

(* However short the channel, and although a value may find no slot and be *)
(* dropped: the signal of each arrival is reported after it (channel.rs,   *)
(* "Fallible allocation of a slot"), also while this signal keeps coming.  *)
(* The exceptions are the two loops that signals can keep the reader in:   *)
(* a flush() that always finds another byte, and a batch that never gets   *)
(* to this signal because another one comes back.                          *)
Arriving(s) == \E h \in Handlers : pc[h] = "send" /\ info[h].si_signo = s
Reported(s) == reader = "yield" /\ taken.origin.signal = s
SystemYieldsSignal ==
    \A s \in Signals :
        []<>(reader # "flush") /\ (\A t \in Signals \ {s} : <>[]~Arriving(t))
            => (Arriving(s) ~> Reported(s))
=============================================================================
