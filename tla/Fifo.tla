-------------------------------- MODULE Fifo --------------------------------
(***************************************************************************)
(* What a libtpa work queue promises: a first-in first-out queue that      *)
(* holds every node at most once, from which any node may be withdrawn.    *)
(* The output, event, accept, delayed-ACK and neighbour queues are used    *)
(* this way.  The flex_fifo of include/flex_fifo.h is the implementation;  *)
(* module FlexFifo shows that it refines this one.                         *)
(***************************************************************************)
EXTENDS Sequences, SequencesExt

CONSTANTS
    Node,       \* the nodes that can be queued
    NULL        \* "no node", not one of Node

VARIABLES
    queue,      \* the queued nodes, oldest first
    ret         \* what the last operation returned

vars == <<queue, ret>>

\* The node queued first is the one handed out, or NULL from an empty queue.
Oldest == IF queue = <<>> THEN NULL ELSE Head(queue)

Init == queue = <<>> /\ ret = NULL

\* Queueing a node that is already queued leaves it at its place.
Push(n) ==
    /\ queue' = IF n \in ToSet(queue) THEN queue ELSE Append(queue, n)
    /\ ret' = NULL

Pop ==
    /\ queue' = IF queue = <<>> THEN queue ELSE Tail(queue)
    /\ ret' = Oldest

Peek == ret' = Oldest /\ UNCHANGED queue

Withdraw(n) ==
    /\ queue' = SelectSeq(queue, LAMBDA m : m # n)
    /\ ret' = NULL

Next ==
    \/ \E n \in Node : Push(n) \/ Withdraw(n)
    \/ Pop
    \/ Peek

Spec == Init /\ [][Next]_vars
=============================================================================
