----------------------------- MODULE EventPoll ------------------------------
(***************************************************************************)
(* The event layer of one worker (src/event.c, tsock_event_add in          *)
(* include/worker.h) together with all that raises events: a handshake     *)
(* that ends, data put on a socket's receive queue, a FIN, acknowledged    *)
(* send-queue entries, a failed write, a reset.  A worker and its sockets  *)
(* are driven by one thread, so every call below is one step.              *)
(*                                                                         *)
(* Polling is edge triggered: a reported event is cleared, and only new    *)
(* activity raises it again.  rd_wait and wr_wait say that the application *)
(* got EAGAIN from a read (a write) and has not been told IN (OUT) since:  *)
(* it sits and waits for that event.                                       *)
(***************************************************************************)
EXTENDS Naturals, Sequences, FiniteSets

CONSTANTS
    Sock,       \* the socket slots (sids) of the worker
    Receiver,   \* the sockets that receive data
    Sender,     \* the sockets the application writes to
    RxqSize,    \* entries of a socket's receive queue
    TxqSize,    \* entries of a socket's send queue
    PollMax     \* the largest budget given to tpa_event_poll

ASSUME EventPollAssumption ==
    /\ Receiver \subseteq Sock /\ Sender \subseteq Sock
    /\ RxqSize \in Nat \ {0} /\ TxqSize \in Nat \ {0} /\ PollMax \in Nat \ {0}

EventBits == {"IN", "OUT", "ERR", "HUP"}

VARIABLES
    live,           \* tsock->sid >= 0
    close_issued,
    events,         \* tsock->event.events: raised and not yet reported
    interested,     \* tsock->interested_events
    queue,          \* worker->event_queue, a fifo without duplicates
    unread,         \* packets in the socket's rxq
    unfinished,     \* descriptors in the socket's txq, una up to write
    rd_wait, wr_wait

sockVars == <<live, close_issued, interested>>
ioVars == <<unread, unfinished, rd_wait, wr_wait>>
vars == <<sockVars, events, queue, ioVars>>

Nothing == [s \in Sock |-> {}]

Init ==
    /\ live = [s \in Sock |-> FALSE]
    /\ close_issued = [s \in Sock |-> FALSE]
    /\ events = Nothing
    /\ interested = Nothing
    /\ queue = <<>>
    /\ unread = [s \in Sock |-> 0]
    /\ unfinished = [s \in Sock |-> 0]
    /\ rd_wait = [s \in Sock |-> FALSE]
    /\ wr_wait = [s \in Sock |-> FALSE]

----------------------------------------------------------------------------
\* The operations of the fifo (module Fifo) on the event queue.
queued(q, s) == \E i \in 1 .. Len(q) : q[i] = s
push_if_not_exist_Front(q, s) == IF queued(q, s) THEN q ELSE <<s>> \o q \* mutant: last in, first out
push_if_not_exist(q, s) == IF queued(q, s) THEN q ELSE Append(q, s)
remove(q, s) ==
    IF queued(q, s)
    THEN LET at == CHOOSE i \in 1 .. Len(q) : q[i] = s
         IN  [i \in 1 .. Len(q) - 1 |-> IF i < at THEN q[i] ELSE q[i + 1]]
    ELSE q

tsock_event_add_Unqueued(s, E, wanted) == \* mutant: only queued when nothing was pending
    /\ events' = [events EXCEPT ![s] = @ \union E]
    /\ queue' = IF events[s] = {} /\ E \intersect wanted # {}
                THEN push_if_not_exist(queue, s) ELSE queue

\* Accumulate the events; queue the socket if one of them is wanted.
tsock_event_add(s, E, wanted) ==
    /\ events' = [events EXCEPT ![s] = @ \union E]
    /\ queue' = IF (events[s] \union E) \intersect wanted # {}
                THEN push_if_not_exist(queue, s) ELSE queue

----------------------------------------------------------------------------
\* sock_create: tsock_init clears everything but the sid, the queue node's
\* membership mark included.
sock_create(s) ==
    /\ ~ live[s]
    /\ live' = [live EXCEPT ![s] = TRUE]
    /\ close_issued' = [close_issued EXCEPT ![s] = FALSE]
    /\ events' = [events EXCEPT ![s] = {}]
    /\ interested' = [interested EXCEPT ![s] = {}]
    /\ unread' = [unread EXCEPT ![s] = 0]
    /\ unfinished' = [unfinished EXCEPT ![s] = 0]
    /\ rd_wait' = [rd_wait EXCEPT ![s] = FALSE]
    /\ wr_wait' = [wr_wait EXCEPT ![s] = FALSE]
    /\ UNCHANGED queue

release_Queued(s) == \* mutant: a freed socket stays queued
    /\ live' = [live EXCEPT ![s] = FALSE]
    /\ unread' = [unread EXCEPT ![s] = 0]
    /\ unfinished' = [unfinished EXCEPT ![s] = 0]
    /\ UNCHANGED <<close_issued, events, interested, queue, rd_wait, wr_wait>>

\* What tsock_free does to the socket's queues and to the event queue.
release(s) ==
    /\ live' = [live EXCEPT ![s] = FALSE]
    /\ unread' = [unread EXCEPT ![s] = 0]
    /\ unfinished' = [unfinished EXCEPT ![s] = 0]
    /\ queue' = remove(queue, s)
    /\ UNCHANGED <<close_issued, events, interested, rd_wait, wr_wait>>

tsock_free(s) == live[s] /\ release(s)

tpa_close(s) ==
    /\ live[s]
    /\ close_issued' = [close_issued EXCEPT ![s] = TRUE]
    /\ UNCHANGED <<live, interested, events, queue, ioVars>>

\* tpa_event_ctrl, TPA_EVENT_CTRL_DEL: what is queued stays queued.
event_ctrl_del(s) ==
    /\ live[s]
    /\ interested' = [interested EXCEPT ![s] = {}]
    /\ UNCHANGED <<live, close_issued, events, queue, ioVars>>

\* tpa_event_ctrl, ADD or MOD: events raised before the call fire now.
event_ctrl_mod(s, E) ==
    /\ live[s]
    /\ interested' = [interested EXCEPT ![s] = E \union {"HUP", "ERR"}]
    /\ tsock_event_add(s, events[s], E \union {"HUP", "ERR"})
    /\ UNCHANGED <<live, close_issued, ioVars>>

tpa_event_ctrl(s) ==
    \/ event_ctrl_del(s)
    \/ \E E \in SUBSET {"IN", "OUT"} : event_ctrl_mod(s, E)

----------------------------------------------------------------------------
\* What one pass of tpa_event_poll's loop finds worth reporting.
reportable(s) == live[s] /\ ~ close_issued[s] /\ events[s] \intersect interested[s] # {}

\* The loop pops n sockets: until the budget is used up by the socket popped
\* last, or until the queue is empty.
popsUntil(n, max) ==
    LET hits(k) == Cardinality({i \in 1 .. k : reportable(queue[i])})
    IN  \/ n = Len(queue) /\ hits(n) < max
        \/ n > 0 /\ hits(n) = max /\ reportable(queue[n])

\* The events left after the socket was popped.
cleared(s) == IF live[s] /\ ~ close_issued[s] THEN events[s] \ interested[s] ELSE events[s]

tpa_event_poll(max) ==
    \E n \in 0 .. Len(queue) :
        LET popped == {queue[i] : i \in 1 .. n}
            told(s, e) == s \in popped /\ reportable(s) /\ e \in events[s] \intersect interested[s]
        IN  /\ popsUntil(n, max)
            /\ queue' = SubSeq(queue, n + 1, Len(queue))
            /\ events' = [s \in Sock |-> IF s \in popped THEN cleared(s) ELSE events[s]]
            /\ rd_wait' = [s \in Sock |-> rd_wait[s] /\ ~ told(s, "IN")]
            /\ wr_wait' = [s \in Sock |-> wr_wait[s] /\ ~ told(s, "OUT")]
            /\ UNCHANGED <<sockVars, unread, unfinished>>

----------------------------------------------------------------------------
tcp_rcv_enqueue_Unchecked(s) == \* mutant: a full rxq is written to
    /\ s \in Receiver /\ live[s]
    /\ unread' = [unread EXCEPT ![s] = @ + 1]
    /\ tsock_event_add(s, {"IN"}, interested[s])
    /\ UNCHANGED <<sockVars, unfinished, rd_wait, wr_wait>>

tcp_rcv_enqueue_Unwatched(s) == \* mutant: IN is only recorded for those who ask for it now
    /\ s \in Receiver /\ live[s] /\ unread[s] < RxqSize
    /\ unread' = [unread EXCEPT ![s] = @ + 1]
    /\ tsock_event_add(s, {"IN"} \intersect interested[s], interested[s])
    /\ UNCHANGED <<sockVars, unfinished, rd_wait, wr_wait>>

\* tcp_rcv_enqueue: a packet goes to the rxq if there is room for it.
tcp_rcv_enqueue(s) ==
    /\ s \in Receiver /\ live[s] /\ unread[s] < RxqSize
    /\ unread' = [unread EXCEPT ![s] = @ + 1]
    /\ tsock_event_add(s, {"IN"}, interested[s])
    /\ UNCHANGED <<sockVars, unfinished, rd_wait, wr_wait>>

\* tsock_zreadv consumes some packets, or fails with EAGAIN (at the end of the
\* stream it returns 0, and the reader has nothing more to wait for).
tsock_zreadv(s) ==
    /\ s \in Receiver /\ live[s] /\ ~ close_issued[s]
    /\ \/ /\ \E n \in 0 .. unread[s] - 1 : unread' = [unread EXCEPT ![s] = n]
          /\ UNCHANGED rd_wait
       \/ /\ unread[s] = 0
          /\ rd_wait' = [rd_wait EXCEPT ![s] = TRUE]
          /\ UNCHANGED unread
    /\ UNCHANGED <<sockVars, events, queue, unfinished, wr_wait>>

refire_out_event_if_needed_None(s) == UNCHANGED <<events, queue>> \* mutant

\* A failed write on an empty send queue raises OUT itself: no
\* acknowledgement will.
refire_out_event_if_needed(s) ==
    IF unfinished[s] = 0 THEN tsock_event_add(s, {"OUT"}, interested[s])
    ELSE UNCHANGED <<events, queue>>

\* tsock_zwritev queues n descriptors, or fails with EAGAIN: for want of
\* send-queue entries, or (whatever the socket's state) of worker resources.
tsock_zwritev(s) ==
    /\ s \in Sender /\ live[s] /\ ~ close_issued[s]
    /\ \/ /\ \E n \in 1 .. TxqSize - unfinished[s] :
               unfinished' = [unfinished EXCEPT ![s] = @ + n]
          /\ UNCHANGED <<events, queue, wr_wait>>
       \/ /\ wr_wait' = [wr_wait EXCEPT ![s] = TRUE]
          /\ refire_out_event_if_needed(s)
          /\ UNCHANGED unfinished
    /\ UNCHANGED <<sockVars, unread, rd_wait>>

\* ack_sent_data: n descriptors are acknowledged completely (none, when the
\* acknowledgement stops inside the first one).
ack_sent_data(s) ==
    /\ live[s] /\ unfinished[s] > 0
    /\ \E n \in 0 .. unfinished[s] :
         /\ unfinished' = [unfinished EXCEPT ![s] = @ - n]
         /\ IF TxqSize - (unfinished[s] - n) > 0
            THEN tsock_event_add(s, {"OUT"}, interested[s])
            ELSE UNCHANGED <<events, queue>>
    /\ UNCHANGED <<sockVars, unread, rd_wait, wr_wait>>

\* The end of tsock_established: a socket that the application may watch
\* already (tpa_connect_to) can be written to.
tsock_established(s) ==
    /\ s \in Sender /\ live[s]
    /\ tsock_event_add(s, {"OUT"}, interested[s])
    /\ UNCHANGED <<sockVars, ioVars>>

\* tcp_rcv_fin: the end of the stream is to be read, whatever else is.
tcp_rcv_fin(s) ==
    /\ s \in Receiver /\ live[s]
    /\ tsock_event_add(s, {"IN"}, interested[s])
    /\ UNCHANGED <<sockVars, ioVars>>

\* tcp_rcv_rst, and the timeouts that give a connection up: a socket that
\* was closed is freed, the others learn of it by an event.
connection_lost(s) ==
    /\ live[s]
    /\ IF close_issued[s] THEN release(s)
       ELSE /\ tsock_event_add(s, {"ERR"}, interested[s])
            /\ UNCHANGED <<sockVars, ioVars>>

Next ==
    \/ \E s \in Sock : \/ sock_create(s) \/ tsock_free(s) \/ tpa_close(s)
                       \/ tpa_event_ctrl(s)
                       \/ tcp_rcv_enqueue(s) \/ tsock_zreadv(s)
                       \/ tsock_zwritev(s) \/ ack_sent_data(s)
                       \/ tsock_established(s) \/ tcp_rcv_fin(s) \/ connection_lost(s)
    \/ \E max \in 1 .. PollMax : tpa_event_poll(max)

Poll == \E max \in 1 .. PollMax : tpa_event_poll(max)

\* The application loop calls tpa_event_poll over and over.
Spec == Init /\ [][Next]_vars /\ WF_vars(Poll)

----------------------------------------------------------------------------
TypeOK ==
    /\ live \in [Sock -> BOOLEAN]
    /\ close_issued \in [Sock -> BOOLEAN]
    /\ events \in [Sock -> SUBSET EventBits]
    /\ interested \in [Sock -> SUBSET EventBits]
    /\ queue \in Seq(Sock)
    /\ unread \in [Sock -> 0 .. RxqSize]
    /\ unfinished \in [Sock -> 0 .. TxqSize]
    /\ rd_wait \in [Sock -> BOOLEAN]
    /\ wr_wait \in [Sock -> BOOLEAN]

(***************************************************************************)
(* No wakeup is lost: a socket the application can still be told about and *)
(* that holds an event it asked for is in the event queue.                 *)
(***************************************************************************)
NoLostWakeup ==
    \A s \in Sock :
        live[s] /\ ~ close_issued[s] /\ events[s] \intersect interested[s] # {} => queued(queue, s)

(***************************************************************************)
(* The event queue holds live sockets only, each once: tsock_free takes    *)
(* the socket out, so tsock_init may reset its node.                       *)
(***************************************************************************)
QueueSound ==
    /\ \A s \in Sock : queued(queue, s) => live[s]
    /\ \A i, j \in 1 .. Len(queue) : queue[i] = queue[j] => i = j

(***************************************************************************)
(* Edge-triggered reading strands no data: if the application read until   *)
(* EAGAIN and waits, data on the receive queue has its IN event pending.   *)
(***************************************************************************)
ReaderNotStranded ==
    \A s \in Sock : live[s] /\ rd_wait[s] /\ unread[s] > 0 => "IN" \in events[s]

(***************************************************************************)
(* A writer that got EAGAIN is not forgotten (the comment above            *)
(* refire_out_event_if_needed): OUT is pending already, or descriptors are *)
(* still to be acknowledged and their acknowledgement will raise it.       *)
(***************************************************************************)
WriterNotForgotten ==
    \A s \in Sock : live[s] /\ wr_wait[s] => "OUT" \in events[s] \/ unfinished[s] > 0

(***************************************************************************)
(* The queue starves nobody: with any budget per poll and whatever the     *)
(* other sockets do, an event the application asked for is reported (only  *)
(* a report clears an event of a socket that is open),                     *)
(* unless it withdraws its interest or the socket is closed or freed.      *)
(***************************************************************************)
EventuallyReported ==
    \A s \in Sock : \A e \in {"IN", "OUT"} :
        (live[s] /\ ~ close_issued[s] /\ e \in events[s] \intersect interested[s])
          ~> (e \notin events[s] \/ ~ live[s] \/ close_issued[s] \/ e \notin interested[s])
=============================================================================
