----------------------------- MODULE LossyFifo ------------------------------
(***************************************************************************)
(* What the channel promises: a bounded first-in first-out queue.  A value *)
(* that is not dropped is received once, in the order of the sends, by one *)
(* receiver, unchanged.  A value takes a slot before it is in the queue    *)
(* and gives it back after it is out, so both ends are two steps.  (A      *)
(* dropped send leaves no trace here; Channel.tla says when a drop is      *)
(* allowed.)                                                               *)
(***************************************************************************)
EXTENDS Naturals, Sequences

CONSTANTS Senders, Receivers, None, Capacity

VARIABLES
    free,       \* how many slots nobody uses
    sending,    \* for each sender with a slot, the value it is about to send
    queue,      \* the values sent and not received
    got         \* for each receiver, the value it is about to return

vars == << free, sending, queue, got >>

Init ==
    /\ free = Capacity
    /\ sending = [p \in Senders |-> None]
    /\ queue = << >>
    /\ got = [r \in Receivers |-> None]

(* A sender takes a slot for its value, whatever that is. *)
Reserve(p) ==
    /\ free > 0
    /\ free' = free - 1
    /\ sending[p] = None
    /\ sending'[p] # None
    /\ sending' = [sending EXCEPT ![p] = sending'[p]]
    /\ UNCHANGED << queue, got >>

Send(p) ==
    /\ sending[p] # None
    /\ queue' = Append(queue, sending[p])
    /\ sending' = [sending EXCEPT ![p] = None]
    /\ UNCHANGED << free, got >>

Recv(r) ==
    /\ got[r] = None
    /\ queue # << >>
    /\ got' = [got EXCEPT ![r] = Head(queue)]
    /\ queue' = Tail(queue)
    /\ UNCHANGED << free, sending >>

(* The slot is free again. *)
Return(r) ==
    /\ got[r] # None
    /\ got' = [got EXCEPT ![r] = None]
    /\ free' = free + 1
    /\ UNCHANGED << sending, queue >>

Next ==
    \/ \E p \in Senders : Reserve(p) \/ Send(p)
    \/ \E r \in Receivers : Recv(r) \/ Return(r)

Spec == Init /\ [][Next]_vars
=============================================================================
