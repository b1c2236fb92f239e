# libtpa in TLA+

libtpa is a TCP stack in user space on top of DPDK. This directory holds a
TLA+ model of it, the TLC configurations that check the model on small
instances, and TLAPS proofs of some results for all instances. Source paths
below are relative to the repository (`src/` there is written `src/src/` in
`PROJECT.json`).

## 1. The system

An application has N *workers*, each run by one thread that calls
`tpa_worker_run` (worker.c) in a loop: receive a burst of packets
(`tcp_input`), let the timers run (`timer_process`), send what is queued
(`tcp_output`), flush the device queue. All state of a connection belongs to
one worker, so that its handlers run one after the other; the nondeterminism
is in the order of packets, timer expiries and calls of the application.
Threads share only the socket and listen tables, the port map, the neighbour
cache and the control thread's event list.

| part | source | state | module |
|---|---|---|---|
| flexible fifo | include/flex_fifo.h | ring + overflow list of nodes | `Fifo`, `FlexFifo` |
| events | event.c, include/worker.h | interest, pending events, event queue | `EventPoll`, `EventPollProofs` |
| timer wheel | include/timer.h, worker.c | slots, current slot, timers | `TimerWheel` |
| TCP receive | tcp_input.c, include/packet.h, tcp_queue.h | rcv_nxt, rcv_wnd, rxq, ooo queue, SACK blocks | `SeqNum`, `TcpRecv`, `TcpRecvLive` |
| TCP send | tcp_output.c, tcp_input.c, tcp_timeout.c, include/tx_desc.h | snd_una, snd_nxt, txq, retransmission pointer, descriptor pool | `TcpSend`, `TcpSendLive` |
| congestion control, RTT | tcp_input.c 678-814, tcp_timeout.c | cwnd, ssthresh, rto | planned `TcpCwnd` |
| connection life cycle | tcp_input.c 1204-1790, tcp_output.c 1069-1247, tcp_timeout.c, sock.c | state, flags, three timers, accept, output and delayed-ACK queues | `TcpConn`, `TcpConnLive` |
| input batch, delayed ACK | tcp_input.c 603-622, 1636-1790; tcp_output.c 1202-1247 | delayed_ack fifo, `worker->tsocks` | one socket: `TcpConn`; several: planned `DelayedAck` |
| ports, socket tables | port_alloc.c, include/sock_table.h | blocks, reference counts, tables | planned `PortAlloc` |
| neighbours, ARP, NDP | neigh.c, arp.c, ndp.c | entries, wait queue | planned `NeighCache` |
| device queues | include/dev.h, dev.c | txq, rxq, active port | planned `DevQueue` |
| offload, control thread, archive, tpad, fuzzers, configuration | offload.c, ctrl.c, archive.c, tpad/, pktfuzz/, cfg.c | | see section 8 |

## 2. Modules

* `Fifo` – what a worker's queue promises: first in, first out, no node twice.
  `FlexFifo` – `flex_fifo.h`: a ring with free-running cursors and an overflow
  list; one action per operation. It is shown to implement `Fifo`.
* `EventPoll` – `event.c` and every place that raises an event. Sockets are a
  set; a socket is free or in use, has an interest set, pending events, a
  receive count and a send-queue count, and may be in the event queue. What
  raises events (the end of a handshake, data, a FIN, acknowledgements, a
  failed write, a lost connection) are actions with the effect the TCP code has
  on these variables. The end-of-file return of a read is not told from EAGAIN:
  the model's reader waits in both cases, which asks for more.
* `TimerWheel` – `timer.h`. `timer_process` is not atomic here: each callback is
  a step of its own that may start, stop or close any timer, including one in
  the slot that is being processed. The worker may stall between two calls.
* `SeqNum` – the sequence number comparisons of `tcp.h`, modulo `SEQ`.
* `TcpRecv` – the receive path of one connection. A packet is a range of the
  peer's stream, `[seq, len, off]`; `off` stands for the payload, so that
  delivering a wrong byte is visible. Fast path and slow path are separate.
  `TcpRecvLive` adds a peer that retransmits and a fair application.
* `TcpSend` – the send path of one connection with its worker's descriptor
  pool: writes (fast and slow path, with commit and revoke), transmission of
  any number of bytes, acknowledgements, SACK, fast retransmit, RTO.
  `tsock_free` may come at any point: `reclaim_txq` gives back what is left and
  calls its completions, and the freed state is kept until the slot is used
  again, so that the invariants look at it. Window and congestion control are
  abstracted to "any number of bytes gets out". The error exits of
  `xmit_one_packet` after a packet is complete are left out: `nr_to_xmit` is
  bounded by the free entries of the device queue, and a fresh header mbuf has
  room for the header. `TcpSendLive` adds a peer that holds what it received and a network
  that loses segments and acknowledgements.

* `TcpConn` – the life of a connection in one socket slot that is used again and
  again. The record `c` holds the fields of `struct tcp_sock` the control flow
  looks at, whether the application knows the sid, and how far our sequence
  numbers went out. The application connects, accepts, writes, reads, closes;
  the worker takes segments (`tcp_input`, ended by `tcp_input_end`, which is the
  loop over the sockets of the batch), serves the output queue, flushes delayed
  ACKs and fires timers. Each transmission gets out, finds no mbuf, or finds
  the device queue full. A segment goes through the whole of `tcp_rcv_process`;
  the fast path for an ESTABLISHED socket has the same effect on this state and
  is not told apart. Data is only counted, segments come in order or again, and
  never from beyond our window. Of the peer's window only whether it is shut is
  kept (`snd_wnd`): each acknowledgement may open or shut it, data waits while
  it is shut, and `tcp_zero_wnd_probe` is sent or not yet due. `TcpConnLive`
  adds fairness.

`MC*.tla` and `MC*.cfg` instantiate these for TLC. In each module the
operators `x_Name` marked "mutant" are plausible mistakes in the code of `x`;
they are used by no specification and serve to show that the properties
notice them.

## 3. Runs

| run | checks | bounds |
|---|---|---|
| `flex_fifo` | refinement of `Fifo`, marks of nodes are exact | 4 nodes, ring of 2, cursors wrap at 4 |
| `event_poll` | no wanted event is lost; queue sound; nobody who saw EAGAIN is left without an event to come; each wanted event is reported | 2 sockets (one receives and sends), queues of 1, one socket a poll |
| `timer_wheel` | linked once; never early; not overdue; `timer_process` ends | 2 timers, 4 slots of 2 ticks, stalls of 3 ticks, 10 ticks |
| `tcp_recv` | stream integrity, window conservation, OOO queue, SACK blocks, draining | 6 bytes in segments of up to 3, rxq of 2, OOO limit 3, sequence numbers wrap after 3 bytes |
| `tcp_recv_fin` | **violated**: end of file means end of stream | 3 bytes, FIN at any time |
| `tcp_recv_sack` | **violated**: SACK blocks report only held data | 5 bytes, OOO limit 1 |
| `tcp_recv_live` | all data is delivered | 5 bytes, rxq of 1, OOO limit 2 |
| `tcp_send` | ring and sequence numbers agree, nothing forgotten, descriptors conserved and completions called once, in freed sockets as well | 4 bytes, ring of 4 with cursors that wrap at 8, 3 descriptors, sequence numbers wrap after 2 bytes |
| `tcp_send_live` | all data is acknowledged; only held bytes are released or skipped | 4 bytes written two by two, 4 descriptors |
| `tcp_conn` | a socket is freed only when nobody holds it; an ended connection is reported; nothing unacknowledged is without a timer; FIN_WAIT_2 and TIME_WAIT mean all is acknowledged; a socket nobody holds is on its way to be freed (but for the exception below); a closed socket is freed if the peer's window lets its data out, a connect settles, a silent peer is noticed | 1 byte out, 2 bytes in, rxq of 1, 2 retries |
| `tcp_conn_fin` | **violated**: the FIN of the peer is counted | as above |
| `tcp_conn_time_wait` | **violated**: TIME_WAIT does not end by a retransmission given up | as above |

A bound is large enough when every branch of the modelled code is taken: rings
are smaller than the number of elements, cursors and sequence numbers wrap
within a run, a queue can be empty, full and in between, and there are at
least two sockets, timers or packets to interfere with one another.

## 4. Fairness

* `EventPoll`: weak fairness of `tpa_event_poll`; an application that waits for
  events polls in a loop.
* `TimerWheel`: weak fairness of the steps of `timer_process` once it was
  called: it is a loop of the running thread.
* `TcpRecvLive`: weak fairness of the application's read loop, and of the
  peer's retransmission of the first bytes that are missing.
* `TcpSendLive`: weak fairness of `tcp_output`; a retransmission timer that stays
  armed fires, and the network lets the oldest byte through now and then; the
  peer acknowledges what it holds again and again.
* `TcpConnLive`: the steps of `tpa_worker_run` – an input batch ends, a socket in
  the output queue is served and now and then finds mbufs and room in the
  device queue for all that the peer's window lets out – and timers:
  `timer_wait`, which is started once, and `timer_rto`, which is started again
  only by progress. What depends on the peer is a premise of the property
  concerned and not fairness of the specification: that its window does not stay
  shut while data waits (`CloseCompletes`), that a half-open peer stops
  answering each SYN, which starts `timer_rto` again (`ConnectSettles`), and that
  a silent peer lets the keepalive timer run out (`SilentPeerNoticed`).

These are written as `[]<>~P \/ []<><<A>>_vars` where TLC cannot evaluate
`ENABLED` of a long handler; `P` is then the condition under which the handler
is enabled.

## 5. What the violated runs show

Each is a disagreement of the code with its own documentation or comments;
`PROJECT.json` quotes both sides.

* `tcp_recv_fin`: a FIN ahead of missing data makes a read return 0.
* `tcp_recv_sack`: at `rcv_ooo_limit` a packet replaces held ones and is then
  refused; the SACK blocks still report it.
* `tcp_conn_fin`: a FIN in a segment with data is taken, but not counted.
* `tcp_conn_time_wait`: `timer_rto` goes on after the FIN was acknowledged, since
  `snd_una` does not count the FIN; after `tcp.retries` time-outs it frees the
  socket. Time is not in the model: with the minimal RTO of 100 ms that is
  after 12.7 s instead of `tcp.time_wait` (60 s).

What else the models show is not a run, since nothing in the repository states
the contrary:

* A connection that ends in the accept queue is skipped by `tpa_accept_burst`,
  and nothing frees it: the application never learns its sid, and timers of a
  CLOSED socket are ignored. `Reclaimable` names these sockets (`dropped`) as its
  one exception.
* With data waiting for a window that the peer keeps shut, a closed socket is
  never freed, even if the peer is gone: `tcp_zero_wnd_probe` has no limit,
  `timer_rto` does not run, and `tcp_timeout_keepalive` does not start its timer
  again outside ESTABLISHED. Without its premise `CloseCompletes` is violated by
  that behaviour. (internals.rst only says that keepalive "could detect half
  open connections and then close them".) While the socket is ESTABLISHED
  keepalive does end it, which `SilentPeerNoticed` covers.
* A zero-length iovec gets no descriptor, and its completion is never called;
  `tcp_send` writes one and `WriteDoneOnce` leaves it out of the count.
* A timeout that does not fit in the wheel (204.8 s) is capped to the slot that
  is being processed, so that it may fire early. The stack caps its RTO at
  `TCP_RTO_MAX` (120 s); `timer_wheel` starts only timers that fit and never
  takes the cap.

Timers left running on a socket that became CLOSED do fire, and `tcp_timeout`
ignores them, though its comment says that should not happen.

## 6. Proofs

`EventPollProofs` proves, for any set of sockets, queue sizes and poll budgets,
type correctness, `NoLostWakeup`, `QueueSound`, `ReaderNotStranded` and
`WriterNotForgotten`. The argument is an induction on steps: the invariant is
the conjunction of these, since a pending event keeps its socket queued only
if the queue is sound, and a waiting reader or writer is served only if
pending events are not lost. Liveness stays with TLC.

## 7. Plan

1. `TcpCwnd`, `DelayedAck` (several sockets in a batch); `PortAlloc` with the socket tables;
   `NeighCache`; `DevQueue`.
2. Compositions: `TcpConn` with the timer wheel; the worker loop over event
   queue and output queue.
3. Proofs: `FlexFifo` (marks), `TimerWheel` (`LinkedOnce`, `NoneOverdue`),
   `TcpConn` (`SidStable`, `UnackedArmed`), `TcpSend` (`TxqMatchesSequence`).

## 8. Not modelled

Packet formats, checksums, TSO and header construction (data without control),
start-up and configuration, logging, statistics and tracing (no influence on
the data path), the DPDK library itself. `offload.c`, `ctrl.c`, `archive.c` and
`tpad` have state of their own and are left for later.
