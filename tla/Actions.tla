------------------------------ MODULE Actions -------------------------------
(***************************************************************************)
(* The ready-made actions: src/flag.rs, src/low_level/pipe.rs and          *)
(* emulate_default_handler() of src/low_level/signal_details.rs, run by    *)
(* the handler over the abstract Dispatch.  The program registers actions  *)
(* one after another while signals already arrive, clears its flag, reads  *)
(* its pipes, and may emulate a default handler itself.                    *)
(***************************************************************************)
EXTENDS Naturals, Sequences, FiniteSets

CONSTANTS
    Term, Stop, Ignore,     \* the table DETAILS: the signals of each kind
    Kill, StopItself,       \* SIGKILL, SIGSTOP
    Unknown,                \* signals that are not in the table
    Fds, Sockets,           \* write ends of pipes, those that send() works with
    PIPE,                   \* the bytes each has room for
    Offers,                 \* the actions the program may register
    Main,                   \* the thread of the program
    Deliveries,             \* activations of the signal handler
    MaxId                   \* a bound for TLC: actions registered

Known == Term \cup Stop \cup Ignore
Signals == (Known \cup Unknown) \ {Kill, StopItself}
Kinds == {"flag", "usize", "shutdown", "default", "pipe"}

ASSUME TableAssumption ==
    /\ Kill \in Term /\ StopItself \in Stop
    /\ Term \cap Stop = {} /\ Term \cap Ignore = {} /\ Stop \cap Ignore = {}
    /\ Unknown \cap Known = {}
ASSUME FdsAssumption == Sockets \subseteq Fds /\ PIPE \in Nat \ {0}
ASSUME OffersAssumption == Offers \subseteq [signal : Signals, kind : Kinds, fd : Fds]
ASSUME ProcsAssumption == Main \notin Deliveries /\ MaxId \in Nat
ASSUME FlagAssumption == Deliveries \cap {"clear", "set"} = {}

VARIABLES
    hooks, todo, issued, gone,  \* the registry
    action,         \* the action with an id, once registered
    flag,           \* the AtomicBool; when it is set, by whom is history
    number,         \* the AtomicUsize
    bytes,          \* in each pipe
    blocking,       \* the write ends without O_NONBLOCK
    disposition,    \* of each signal
    pc, signal,     \* where each delivery, and the program, is; with which signal
    blocked,        \* the deliveries with their own signal in their mask
    armed,          \* history: what began with a shutdown before it
    process         \* what the process is, or how it ended

registryVars == << hooks, todo, issued, gone >>
dataVars == << flag, number, bytes, blocking >>
kernelVars == << disposition, blocked, process >>
procVars == << pc, signal, armed >>
vars == << registryVars, action, dataVars, kernelVars, procVars >>

Ids == 1 .. MaxId
Registered == INSTANCE Dispatch
Procs == Deliveries \cup {Main}
NextId == 1 + Cardinality(issued)
Nothing == [kind |-> "none"]

Init ==
    /\ Registered!Init
    /\ action = [i \in Ids |-> Nothing]
    /\ flag \in {"clear", "set"}
    /\ number = 0
    /\ bytes = [fd \in Fds |-> 0]
    /\ blocking = Fds
    /\ disposition = [s \in Signals |-> "default"]
    /\ pc = [p \in Procs |-> "idle"]
    /\ signal = [p \in Procs |-> StopItself]
    /\ blocked = {}
    /\ armed = {}
    /\ process = "running"

Goto(p, where) == pc' = [pc EXCEPT ![p] = where]

-----------------------------------------------------------------------------
(* Registration. *)

(* Mutant: every write end is taken for a socket. *)
SendToAll(fd) == "send"

(* register_raw() tries an empty send(). *)
Method(fd) == IF fd \in Sockets THEN "send" ELSE "write"

(* Mutant: O_NONBLOCK is forgotten. *)
StillBlocking(fd) == blocking

(* What send() does not work with is set to O_NONBLOCK. *)
BlockingLeft(fd) == IF Method(fd) = "write" THEN blocking \ {fd} ELSE blocking

(* flag::register and its kin, and pipe::register: the action is built     *)
(* and published.  The first action of a signal installs the handler.      *)
Register(a) ==
    /\ NextId <= MaxId
    /\ a.kind = "default" => a.signal \in Known
    /\ Registered!Add(a.signal, NextId)
    /\ action' = [action EXCEPT ![NextId] = a]
    /\ disposition' = [disposition EXCEPT ![a.signal] = IF hooks[a.signal] = << >> THEN "ours" ELSE @]
    /\ blocking' = IF a.kind = "pipe" THEN BlockingLeft(a.fd) ELSE blocking
    /\ UNCHANGED << flag, number, bytes, blocked, process, procVars >>

Registration ==
    /\ Registered!Issue(NextId)
    /\ \E s \in Signals : NextId \in Registered!Elems(hooks[s])
    /\ UNCHANGED << action, dataVars, kernelVars, procVars >>

(* The program: "disarming the abrupt shutdown", or swap(false); and the   *)
(* read end of a pipe.                                                     *)
Clear ==
    /\ flag # "clear"
    /\ flag' = "clear"
    /\ armed' = {}
    /\ UNCHANGED << registryVars, action, number, bytes, blocking, kernelVars, pc, signal >>

Drain(fd) ==
    /\ bytes[fd] > 0
    /\ bytes' = [bytes EXCEPT ![fd] = 0]
    /\ UNCHANGED << registryVars, action, flag, number, blocking, kernelVars, procVars >>

-----------------------------------------------------------------------------
(* A signal arrives. *)

ShutdownIn(s) == \E id \in Registered!Elems(hooks[s]) : action[id].kind = "shutdown"

Deliver(d, s) ==
    /\ pc[d] = "idle"
    /\ disposition[s] = "ours"
    /\ hooks[s] # << >>
    /\ Registered!Start(d, s)
    /\ Goto(d, "run")
    /\ signal' = [signal EXCEPT ![d] = s]
    /\ blocked' = blocked \cup {d}
    /\ armed' = IF flag # "clear" /\ ShutdownIn(s) THEN armed \cup {d} ELSE armed
    /\ UNCHANGED << action, dataVars, disposition, process >>

(* One that comes between restore_default() and raise(). *)
DeliverDefault(s) ==
    /\ disposition[s] = "default"
    /\ hooks[s] # << >>
    /\ process' = s
    /\ UNCHANGED << registryVars, action, dataVars, disposition, blocked, procVars >>

(* The next action of a delivery, of some kind, goes on to somewhere. *)
Action(d) == action[Head(todo[d])]

Run(d, kind, where) ==
    /\ pc[d] = "run"
    /\ Registered!Run(d)
    /\ Action(d).kind = kind
    /\ Goto(d, where)
    /\ UNCHANGED << action, blocking, kernelVars, signal, armed >>

RunFlag(d) ==
    /\ Run(d, "flag", "run")
    /\ flag' = d
    /\ UNCHANGED << number, bytes >>

RunUsize(d) ==
    /\ Run(d, "usize", "run")
    /\ number' = 1
    /\ UNCHANGED << flag, bytes >>

(* Mutants: the condition is ignored, or the wrong way round. *)
ConditionMet == TRUE
ConditionNegated == flag = "clear"

(* condition.load() *)
Condition == flag # "clear"

(* register_conditional_shutdown: the condition is loaded, then _exit. *)
RunShutdown(d) ==
    /\ Run(d, "shutdown", IF Condition THEN "exit" ELSE "run")
    /\ UNCHANGED << flag, number, bytes >>

Exit(d) ==
    /\ pc[d] = "exit"
    /\ process' = "exited"
    /\ UNCHANGED << registryVars, action, dataVars, disposition, blocked, procVars >>

(* register_conditional_default *)
RunDefault(d) ==
    /\ Run(d, "default", IF Condition THEN "emulate" ELSE "run")
    /\ UNCHANGED << flag, number, bytes >>

(* wake(): one byte, if there is room.  send() writes to sockets only. *)
Written(fd) ==
    IF bytes[fd] < PIPE /\ (Method(fd) = "send" => fd \in Sockets)
    THEN [bytes EXCEPT ![fd] = @ + 1] ELSE bytes

(* write() waits unless O_NONBLOCK is set. *)
Waits(fd) == Method(fd) = "write" /\ bytes[fd] = PIPE /\ fd \in blocking

RunPipe(d) ==
    LET fd == Action(d).fd IN
    /\ Run(d, "pipe", IF Waits(fd) THEN "blocked" ELSE "run")
    /\ bytes' = Written(fd)
    /\ UNCHANGED << flag, number >>

(* The handler returns. *)
Finish(d) ==
    /\ pc[d] = "run"
    /\ todo[d] = << >>
    /\ Goto(d, "idle")
    /\ flag' = IF flag = d THEN "set" ELSE flag
    /\ armed' = armed \ {d}
    /\ blocked' = blocked \ {d}
    /\ signal' = [signal EXCEPT ![d] = StopItself]
    /\ UNCHANGED << registryVars, action, number, bytes, blocking, disposition, process >>

-----------------------------------------------------------------------------
(* emulate_default_handler(), called by an action or by the program. *)

CallEmulate(s) ==
    /\ pc[Main] = "idle"
    /\ Goto(Main, "emulate")
    /\ signal' = [signal EXCEPT ![Main] = s]
    /\ UNCHANGED << registryVars, action, dataVars, kernelVars, armed >>

(* Back to where it was called from. *)
BackFrom(p) ==
    IF p = Main THEN Goto(p, "idle") /\ signal' = [signal EXCEPT ![p] = StopItself]
    ELSE Goto(p, "run") /\ UNCHANGED signal

(* There is nothing to do, or nothing known to do (EINVAL). *)
EmulateIgnored(p) ==
    /\ pc[p] = "emulate"
    /\ signal[p] \in Ignore \cup Unknown
    /\ BackFrom(p)
    /\ UNCHANGED << registryVars, action, dataVars, kernelVars, armed >>

(* raise(SIGSTOP); the call returns when the process is continued. *)
EmulateStop(p) ==
    /\ pc[p] = "emulate"
    /\ signal[p] \in Stop
    /\ process' = "stopped"
    /\ BackFrom(p)
    /\ UNCHANGED << registryVars, action, dataVars, disposition, blocked, armed >>

(* raise(SIGKILL) *)
EmulateKill(p) ==
    /\ pc[p] = "emulate"
    /\ signal[p] = Kill
    /\ process' = Kill
    /\ UNCHANGED << registryVars, action, dataVars, disposition, blocked, procVars >>

(* restore_default() *)
RestoreDefault(p) ==
    /\ pc[p] = "emulate"
    /\ signal[p] \in Term \ {Kill}
    /\ disposition' = [disposition EXCEPT ![signal[p]] = "default"]
    /\ Goto(p, "unblock")
    /\ UNCHANGED << registryVars, action, dataVars, blocked, process, signal, armed >>

(* Mutant: the signal stays blocked. *)
StillBlocked(p) == blocked

BlockedLeft(p) == blocked \ {p}

(* sigprocmask(SIG_UNBLOCK) *)
Unblock(p) ==
    /\ pc[p] = "unblock"
    /\ blocked' = BlockedLeft(p)
    /\ Goto(p, "raise")
    /\ UNCHANGED << registryVars, action, dataVars, disposition, process, signal, armed >>

AfterRaise(p) == Goto(p, "abort") /\ UNCHANGED signal

(* raise() of a signal to oneself.  Another handler runs and returns (if   *)
(* it is ours it is one of the deliveries); a blocked signal stays         *)
(* pending.                                                                *)
Raise(p) ==
    /\ pc[p] = "raise"
    /\ IF disposition[signal[p]] = "default" /\ p \notin blocked
       THEN process' = signal[p] /\ UNCHANGED << pc, signal >>
       ELSE AfterRaise(p) /\ UNCHANGED process
    /\ UNCHANGED << registryVars, action, dataVars, disposition, blocked, armed >>

Abort(p) ==
    /\ pc[p] = "abort"
    /\ process' = "aborted"
    /\ UNCHANGED << registryVars, action, dataVars, disposition, blocked, procVars >>

(* "Someone managed to put some other action in in between." *)
ForeignInstall(s) ==
    /\ \E p \in Procs : signal[p] = s /\ pc[p] \in {"unblock", "raise"}
    /\ disposition[s] # "foreign"
    /\ disposition' = [disposition EXCEPT ![s] = "foreign"]
    /\ UNCHANGED << registryVars, action, dataVars, blocked, process, procVars >>

(* SIGCONT, from a shell. *)
ContinueProcess ==
    /\ process = "stopped"
    /\ process' = "running"
    /\ UNCHANGED << registryVars, action, dataVars, disposition, blocked, procVars >>

Emulate(p) ==
    \/ EmulateIgnored(p) \/ EmulateStop(p) \/ EmulateKill(p)
    \/ RestoreDefault(p) \/ Unblock(p) \/ Raise(p) \/ Abort(p)

Handle(d) ==
    \/ RunFlag(d) \/ RunUsize(d) \/ RunShutdown(d) \/ Exit(d)
    \/ RunDefault(d) \/ RunPipe(d) \/ Finish(d)

Running ==
    \/ \E a \in Offers : Register(a)
    \/ Registration \/ Clear
    \/ \E fd \in Fds : Drain(fd)
    \/ \E s \in Signals : DeliverDefault(s) \/ ForeignInstall(s)
    \/ \E s \in Known \cup Unknown : CallEmulate(s)
    \/ \E p \in Procs : Emulate(p)
    \/ \E d \in Deliveries : Handle(d) \/ \E s \in Signals : Deliver(d, s)

Next == (process = "running" /\ Running) \/ ContinueProcess

Spec == Init /\ [][Next]_vars

-----------------------------------------------------------------------------
(* The type invariant of the actions. *)
TypeOK ==
    /\ hooks \in [Signals -> Seq(Ids)] /\ todo \in [Deliveries -> Seq(Ids)]
    /\ issued \subseteq Ids
    /\ action \in [Ids -> Offers \cup {Nothing}]
    /\ flag \in {"clear", "set"} \cup Deliveries /\ number \in 0 .. 1
    /\ bytes \in [Fds -> 0 .. PIPE] /\ blocking \subseteq Fds
    /\ disposition \in [Signals -> {"default", "ours", "foreign"}]
    /\ pc \in [Procs -> {"idle", "run", "exit", "emulate", "unblock", "raise", "abort", "blocked"}]
    /\ signal \in [Procs -> Known \cup Unknown]
    /\ blocked \subseteq Deliveries /\ armed \subseteq Deliveries
    /\ process \in {"running", "stopped", "exited", "aborted"} \cup Known \cup Unknown

(* The double Ctrl-C: "on the first run, the flag is false and this        *)
(* doesn't terminate ... the shutdown must go first".  A delivery shuts    *)
(* down only if the flag was set before it, unless the program registered  *)
(* an action that sets the flag before the shutdown (flag.rs).             *)
FlagFirst(s) ==
    \E i, j \in Ids : /\ i < j
                      /\ action[i].kind = "flag" /\ action[j].kind = "shutdown"
                      /\ action[i].signal = s /\ action[j].signal = s

FirstSpares ==
    [][\A d \in Deliveries :
        pc[d] = "run" /\ pc'[d] = "exit" =>
            flag \notin {"clear", d} \/ FlagFirst(signal[d])]_vars

(* "Second CTRL+C should terminate the application": a delivery that       *)
(* begins with the flag set and a shutdown among its actions does not      *)
(* come to its end, unless the program clears the flag in the meantime,    *)
(* whatever else runs before the shutdown (flag.rs).                       *)
SecondEnds ==
    [][\A d \in armed : pc'[d] # "idle"]_vars

(* The fallback on abort is taken only when there was some other handler   *)
(* to run: else the process ends by the signal itself, although it is      *)
(* raised from within its own handler (emulate_default_handler).           *)
AbortIsLastResort ==
    [][\A p \in Procs : pc[p] # "abort" /\ pc'[p] = "abort" =>
                          disposition[signal[p]] # "default"]_vars

(* A handler is never stuck in its wake, however full the pipe is and      *)
(* whatever it is ("blocking in the signal handler would definitely be a   *)
(* bad idea", pipe.rs).                                                    *)
NeverBlocks == \A d \in Deliveries : pc[d] # "blocked"

(* After a wake there is a byte to read, for every kind of write end that  *)
(* register_raw accepts (pipe.rs).                                         *)
ByteThere ==
    [][\A d \in Deliveries : RunPipe(d) => bytes'[Action(d).fd] > 0]_vars

(* The inductive invariant.  Ids are given in order, so that actions run   *)
(* in the order of their registration; an action that may run is that of   *)
(* its signal; a pipe that would block was set not to; the flag a delivery *)
(* has set itself was set by an action registered before all that it has   *)
(* still to run; a delivery that began with the flag set and a shutdown    *)
(* has the shutdown before it.                                             *)
Increasing(s) == \A i, j \in DOMAIN s : i < j => s[i] < s[j]

Ordered ==
    /\ issued = 1 .. Cardinality(issued)
    /\ \A s \in Signals :
           /\ Increasing(hooks[s])
           /\ \A id \in Registered!Elems(hooks[s]) :
                  id <= NextId /\ action[id] \in Offers /\ action[id].signal = s
    /\ \A d \in Deliveries :
           /\ Increasing(todo[d])
           /\ \A id \in Registered!Elems(todo[d]) :
                  signal[d] \in Signals /\ id \in Registered!Elems(hooks[signal[d]])

PipesReady ==
    \A id \in Ids : action[id].kind = "pipe" => action[id].fd \in Sockets \/ action[id].fd \notin blocking

RaisesUnblocked == \A p \in Procs : pc[p] = "raise" => p \notin blocked

FlagBefore ==
    \A d \in Deliveries :
        flag = d => /\ pc[d] # "idle" /\ signal[d] \in Signals
                    /\ \E i \in Registered!Elems(hooks[signal[d]]) :
                          /\ action[i].kind = "flag"
                          /\ \A j \in Registered!Elems(todo[d]) : i < j

ShutdownAhead ==
    \A d \in armed :
        /\ flag # "clear" /\ pc[d] # "idle"
        /\ pc[d] \in {"run", "emulate"} =>
              \E id \in Registered!Elems(todo[d]) : action[id].kind = "shutdown"

IInv ==
    /\ TypeOK
    /\ Ordered /\ PipesReady /\ RaisesUnblocked /\ FlagBefore /\ ShutdownAhead /\ NeverBlocks
=============================================================================
