------------------------------ MODULE FlexFifo ------------------------------
(***************************************************************************)
(* include/flex_fifo.h: a fifo made of a bounded ring and an unbounded     *)
(* list.  New nodes go to the ring while the list is empty and the ring    *)
(* has room, to the list otherwise; nodes leave the ring first.  A node's  *)
(* tqe_prev field doubles as its membership mark: NULL (0) outside every   *)
(* fifo, the ring index plus one inside the ring, a pointer (a number      *)
(* above RING_MAX_SIZE + 1) inside the list.                               *)
(***************************************************************************)
EXTENDS Naturals, Sequences, SequencesExt, FiniteSets

CONSTANTS
    Node,           \* the nodes that can be queued
    NULL,           \* "no node"
    RING_MAX_SIZE,  \* the largest ring (1 << 16 in the code)
    Size,           \* entries of this ring; a power of two
    UINT            \* the cursors count modulo UINT (2^32 in the code)

ASSUME SizeAssumption ==
    /\ Size \in 1 .. RING_MAX_SIZE
    /\ UINT % Size = 0 /\ UINT > Size
    /\ NULL \notin Node

VARIABLES
    fifo,   \* ring, read, write, list, list_size and the nodes' tqe_prev
    ret     \* what the last operation returned

vars == <<fifo, ret>>

----------------------------------------------------------------------------
\* The marks stored in tqe_prev.
ListPointer == RING_MAX_SIZE + 2

node_in_ring(ff, n) == ff.idx[n] > 0 /\ ff.idx[n] < RING_MAX_SIZE + 1
node_in_list(ff, n) == ff.idx[n] > RING_MAX_SIZE + 1
node_in_fifo(ff, n) == ff.idx[n] # 0

flex_fifo_ring_count(ff) == (ff.write + UINT - ff.read) % UINT
flex_fifo_ring_free_size(ff) == Size - flex_fifo_ring_count(ff)
flex_fifo_count(ff) == flex_fifo_ring_count(ff) + ff.list_size

ff_do_ring_push_Unshifted(ff, n) == \* mutant: the mark is the bare index
    [ff EXCEPT !.ring[ff.write % Size] = n,
               !.idx[n] = ff.write % Size,
               !.write = (@ + 1) % UINT]

\* _ff_do_ring_push: store, mark with the index plus one, advance.
ff_do_ring_push(ff, n) ==
    [ff EXCEPT !.ring[ff.write % Size] = n,
               !.idx[n] = (ff.write % Size) + 1,
               !.write = (@ + 1) % UINT]

\* The node at the read cursor, and the fifo once it is popped.
ring_head(ff) == ff.ring[ff.read % Size]
ff_ring_pop_Marked(ff) == \* mutant: the popped node keeps its mark
    [ff EXCEPT !.read = (@ + 1) % UINT]
ff_ring_pop(ff) ==
    [ff EXCEPT !.idx[ring_head(ff)] = 0, !.read = (@ + 1) % UINT]

\* _ff_ring_remove: every node is popped, all but n are pushed back.
ff_ring_remove(ff, n) ==
    LET rotate(f, i) ==
            IF ring_head(f) = n THEN ff_ring_pop(f)
            ELSE ff_do_ring_push(ff_ring_pop(f), ring_head(f))
    IN  FoldLeft(rotate, ff, [i \in 1 .. flex_fifo_ring_count(ff) |-> i])

ff_list_push(ff, n) ==
    [ff EXCEPT !.list = Append(@, n),
               !.idx[n] = ListPointer,
               !.list_size = @ + 1]

ff_do_list_remove(ff, n) ==
    [ff EXCEPT !.list = Remove(@, n), !.idx[n] = 0, !.list_size = @ - 1]

push_Overtaking(ff, n) == \* mutant: the ring is used although the list is not empty
    IF flex_fifo_ring_free_size(ff) = 0
    THEN ff_list_push(ff, n)
    ELSE ff_do_ring_push(ff, n)

push_Overfull(ff, n) == \* mutant: a full ring is not noticed
    IF ff.list # <<>>
    THEN ff_list_push(ff, n)
    ELSE ff_do_ring_push(ff, n)

\* _ff_ring_push with its fallback, as flex_fifo_push combines them.
push(ff, n) ==
    IF ff.list # <<>> \/ flex_fifo_ring_free_size(ff) = 0
    THEN ff_list_push(ff, n)
    ELSE ff_do_ring_push(ff, n)

oldest(ff) ==
    IF ff.read # ff.write THEN ring_head(ff)
    ELSE IF ff.list # <<>> THEN Head(ff.list) ELSE NULL

----------------------------------------------------------------------------
\* flex_fifo_create, at any position of the (free running) cursors: a
\* long-lived fifo that happens to be empty.
Init ==
    /\ \E c \in 0 .. UINT - 1 :
         fifo = [ring |-> [i \in 0 .. Size - 1 |-> NULL], read |-> c, write |-> c,
                 list |-> <<>>, list_size |-> 0, idx |-> [n \in Node |-> 0]]
    /\ ret = NULL

\* flex_fifo_push is only called for a node outside the fifo (its assert);
\* flex_fifo_push_if_not_exist tests that itself.
flex_fifo_push(n) ==
    /\ ~ node_in_fifo(fifo, n)
    /\ fifo' = push(fifo, n)
    /\ ret' = NULL

flex_fifo_push_if_not_exist(n) ==
    /\ fifo' = IF node_in_fifo(fifo, n) THEN fifo ELSE push(fifo, n)
    /\ ret' = NULL

flex_fifo_pop ==
    /\ fifo' = IF fifo.read # fifo.write THEN ff_ring_pop(fifo)
               ELSE IF fifo.list # <<>> THEN ff_do_list_remove(fifo, Head(fifo.list))
               ELSE fifo
    /\ ret' = oldest(fifo)

flex_fifo_peek == ret' = oldest(fifo) /\ UNCHANGED fifo

flex_fifo_remove(n) ==
    /\ fifo' = IF node_in_ring(fifo, n) THEN ff_ring_remove(fifo, n)
               ELSE IF node_in_list(fifo, n) THEN ff_do_list_remove(fifo, n)
               ELSE fifo
    /\ ret' = NULL

Next ==
    \/ \E n \in Node : \/ flex_fifo_push(n)
                       \/ flex_fifo_push_if_not_exist(n)
                       \/ flex_fifo_remove(n)
    \/ flex_fifo_pop
    \/ flex_fifo_peek

Spec == Init /\ [][Next]_vars

----------------------------------------------------------------------------
\* The nodes of the ring, oldest first, and of the whole fifo.
RingSeq ==
    [i \in 1 .. flex_fifo_ring_count(fifo) |-> fifo.ring[(fifo.read + i - 1) % Size]]
Contents == RingSeq \o fifo.list

TypeOK ==
    /\ fifo.ring \in [0 .. Size - 1 -> Node \union {NULL}]
    /\ fifo.read \in 0 .. UINT - 1 /\ fifo.write \in 0 .. UINT - 1
    /\ flex_fifo_ring_count(fifo) <= Size
    /\ fifo.list \in Seq(Node)
    /\ fifo.idx \in [Node -> 0 .. ListPointer]
    /\ ret \in Node \union {NULL}

(***************************************************************************)
(* The membership mark of tqe_prev is exact: a node is marked as queued    *)
(* iff it is queued, a ring mark names the very slot that holds the node   *)
(* (the assert of _ff_ring_remove), and list_size counts the list.  This   *)
(* is what push_if_not_exist and remove rely on instead of a search.       *)
(***************************************************************************)
MarksExact ==
    /\ \A n \in Node : node_in_ring(fifo, n) <=> n \in ToSet(RingSeq)
    /\ \A n \in Node : node_in_list(fifo, n) <=> n \in ToSet(fifo.list)
    /\ \A n \in Node : node_in_ring(fifo, n) => fifo.ring[fifo.idx[n] - 1] = n
    /\ IsInjective(Contents)
    /\ flex_fifo_count(fifo) = Len(Contents)

(***************************************************************************)
(* The hybrid of ring and list is one fifo: order is kept across the       *)
(* spill from the ring to the list, across removals that rotate the ring,  *)
(* and across the wrap of the uint32 cursors, and every operation returns  *)
(* what the simple queue of module Fifo returns.                           *)
(***************************************************************************)
AbstractFifo == INSTANCE Fifo WITH queue <- Contents
RefinesFifo == AbstractFifo!Spec
=============================================================================
