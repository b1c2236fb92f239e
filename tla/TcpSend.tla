------------------------------ MODULE TcpSend -------------------------------
(***************************************************************************)
(* The send side of a connection: tsock_zwritev fills the send queue with  *)
(* descriptors, tcp_output transmits them, acknowledgements release them,  *)
(* and the retransmission timer, duplicate ACKs and SACK blocks decide     *)
(* what is sent again (src/tcp/tcp_output.c, tcp_input.c, tcp_timeout.c,   *)
(* include/tcp_queue.h, include/tx_desc.h).                                *)
(*                                                                         *)
(* How many bytes a transmission gets out depends on the windows, on mbufs *)
(* and on the device queue: here on nothing but a choice, x, which covers  *)
(* every window.  Acknowledgements and SACK blocks are arbitrary.          *)
(* Connection setup and teardown are in module TcpConn.                    *)
(***************************************************************************)
EXTENDS SeqNum, Sequences, SequencesExt, FiniteSets, FiniteSetsExt

CONSTANTS
    ISS,                    \* sequence number of the first byte sent
    StreamLen,              \* bytes written at most
    TxqSize,                \* txq.size, a power of two
    UINT16,                 \* the txq cursors count modulo UINT16 (2^16)
    NR_DESC,                \* descriptors of the worker's pool
    WRITE_CHUNK_SIZE,       \* tcp_cfg.write_chunk_size
    MBUF_ROOM,              \* rte_pktmbuf_tailroom of a fresh mbuf
    Writes,                 \* the iovecs the application writes
    MaxXmit                 \* bytes one transmission gets out at most

ASSUME SendAssumption ==
    /\ ISS \in SeqNumber /\ 2 * (StreamLen + 2) < SEQ
    /\ TxqSize \in Nat \ {0} /\ UINT16 % TxqSize = 0 /\ UINT16 > TxqSize
    /\ WRITE_CHUNK_SIZE \in Nat \ {0} /\ MBUF_ROOM \in Nat \ {0}
    /\ MaxXmit \in Nat /\ NR_DESC \in Nat

VARIABLES
    tsock,      \* the send side of the socket
    worker,     \* what it takes from its worker: pool (free descriptors), nr_write_mbuf
    accepted,   \* iovecs with data of the connection's writes that succeeded
    called      \* calls of an iov_write_done of the connection

vars == <<tsock, worker, accepted, called>>

NoDesc == [len |-> 0, seq |-> 0, mbuf |-> FALSE, write_done |-> FALSE, sacked |-> FALSE]

Established ==
    [sid |-> TRUE, una |-> ISS, nxt |-> ISS, data_seq_nxt |-> ISS,
     partial_ack |-> 0, sacked_bytes |-> 0,
     snd_recover |-> seq_add(ISS, -1), retrans_stage |-> "NONE",
     retrans |-> [seq |-> 0, desc_base |-> 0],
     txq |-> [una |-> 0, nxt |-> 0, write |-> 0, descs |-> [i \in 0 .. TxqSize - 1 |-> NoDesc]],
     timer_rto |-> FALSE, in_output |-> FALSE]

Init ==
    /\ tsock = Established
    /\ worker = [pool |-> NR_DESC, nr_write_mbuf |-> 0]
    /\ accepted = 0 /\ called = 0

----------------------------------------------------------------------------
(* The send queue: cursors una, nxt and write into a ring of descriptors.  *)

advance(c, n) == (c + n) % UINT16
distance(from, to) == (to - from) % UINT16
desc_at(ts, c) == ts.txq.descs[c % TxqSize]
desc_end(d) == seq_add(d.seq, d.len)

tcp_txq_inflight_pkts(ts) == distance(ts.txq.una, ts.txq.nxt)
tcp_txq_to_send_pkts(ts) == distance(ts.txq.nxt, ts.txq.write)
tcp_txq_unfinished_pkts(ts) == tcp_txq_inflight_pkts(ts) + tcp_txq_to_send_pkts(ts)
tcp_txq_free_count(ts) == TxqSize - tcp_txq_unfinished_pkts(ts)

\* The descriptor n places after una.
unfinished(ts, n) == desc_at(ts, advance(ts.txq.una, n))

----------------------------------------------------------------------------
(* Writing.  An iovec is [len, phys]; phys says whether iov_phys is set,   *)
(* that is whether the NIC may read the buffer in place.                   *)

\* The descriptors an iovec needs: chunks, each copied to an mbuf if there
\* is no iov_phys.  The callback goes with the last one; an empty iovec has
\* no descriptor and its callback goes nowhere.
pieces(iov) ==
    LET room == IF iov.phys THEN WRITE_CHUNK_SIZE ELSE Min({WRITE_CHUNK_SIZE, MBUF_ROOM})
        n == (iov.len + room - 1) \div room
    IN  [i \in 1 .. n |-> [NoDesc EXCEPT !.len = IF i < n THEN room ELSE iov.len - (n - 1) * room,
                                         !.mbuf = ~ iov.phys,
                                         !.write_done = i = n]]

\* write_one_iov's loop body (and tsock_zwritev's): one more descriptor at
\* write + nr_desc.  mbufs says how many mbufs can still be had.
write_piece(ts, ctx, piece) ==
    IF \/ ~ ctx.ok
       \/ ctx.nr_desc + 1 > tcp_txq_free_count(ts)
       \/ ctx.pool = 0
       \/ piece.mbuf /\ ctx.mbufs = 0
    THEN [ctx EXCEPT !.ok = FALSE]
    ELSE [ctx EXCEPT
            !.pool = @ - 1,
            !.mbufs = IF piece.mbuf THEN @ - 1 ELSE @,
            !.nr_fallback = IF piece.mbuf THEN @ + 1 ELSE @,
            !.descs[advance(ts.txq.write, ctx.nr_desc) % TxqSize] =
                [piece EXCEPT !.seq = seq_add(ts.data_seq_nxt, ctx.size)],
            !.size = @ + piece.len,
            !.nr_desc = @ + 1]

write_commit(ts, ctx) ==
    [ts EXCEPT !.txq.descs = ctx.descs,
               !.txq.write = advance(@, ctx.nr_desc),
               !.data_seq_nxt = seq_add(@, ctx.size),
               !.in_output = TRUE]

write_revoke_Leak(ts, ctx) == \* mutant: the descriptor allocated last is not given back
    <<[ts EXCEPT !.txq.descs =
            [i \in DOMAIN ctx.descs |->
                IF \E j \in 0 .. ctx.nr_desc - 1 : i = advance(ts.txq.write, j) % TxqSize
                THEN NoDesc ELSE ctx.descs[i]]],
      ctx.pool + (IF ctx.nr_desc > 0 THEN ctx.nr_desc - 1 ELSE 0)>>

\* write_revoke: the descriptors written so far go back to the pool, their
\* slots hold nothing any more.
write_revoke(ts, ctx) ==
    <<[ts EXCEPT !.txq.descs =
            [i \in DOMAIN ctx.descs |->
                IF \E j \in 0 .. ctx.nr_desc - 1 : i = advance(ts.txq.write, j) % TxqSize
                THEN NoDesc ELSE ctx.descs[i]]],
      ctx.pool + ctx.nr_desc>>

tsock_zwritev(iovs, mbufs) ==
    LET step(ctx, piece) == write_piece(tsock, ctx, piece)
        ctx0 == [ok |-> TRUE, nr_desc |-> 0, size |-> 0, nr_fallback |-> 0, mbufs |-> mbufs,
                 pool |-> worker.pool, descs |-> tsock.txq.descs]
        ctx == FoldLeft(step, ctx0, FlattenSeq([i \in DOMAIN iovs |-> pieces(iovs[i])]))
    IN  /\ tsock.sid
        /\ IF ctx.ok
           THEN /\ tsock' = write_commit(tsock, ctx)
                /\ worker' = [pool |-> ctx.pool,
                              nr_write_mbuf |-> worker.nr_write_mbuf + ctx.nr_fallback]
                /\ accepted' = accepted + Cardinality({i \in DOMAIN iovs : iovs[i].len > 0})
                /\ UNCHANGED called
           ELSE /\ tsock' = write_revoke(tsock, ctx)[1]
                /\ worker' = [worker EXCEPT !.pool = write_revoke(tsock, ctx)[2]]
                /\ UNCHANGED <<accepted, called>>

----------------------------------------------------------------------------
(* Transmission.  ctx is [seq, at, size]: what to send next, the cursor of *)
(* its descriptor, and the bytes sent so far.  x is [k, begun]: k bytes    *)
(* get out, and one more packet may be begun that finds no mbuf.           *)

Xmit == [k : 0 .. MaxXmit, begun : BOOLEAN]

\* xmit_one_packet begins with the first descriptor that is not SACKED.
skip_sacked(ts, ctx) ==
    LET todo == distance(ctx.at, ts.txq.write)
        n == Min({i \in 0 .. todo : i = todo \/ ~ desc_at(ts, advance(ctx.at, i)).sacked})
    IN  IF n = 0 THEN ctx
        ELSE [ctx EXCEPT !.at = advance(@, n),
                         !.seq = desc_end(desc_at(ts, advance(ctx.at, n - 1)))]

\* The next byte of xmit_one_packet, up to seq_max.
xmit_byte(ts, ctx, seq_max) ==
    LET c == skip_sacked(ts, ctx)
        next == seq_add(c.seq, 1)
    IN  IF c.at = ts.txq.write \/ ~ seq_lt(c.seq, seq_max) THEN c
        ELSE [seq |-> next,
              at |-> IF next = desc_end(desc_at(ts, c.at)) THEN advance(c.at, 1) ELSE c.at,
              size |-> c.size + 1]

\* A packet that is complete gets out: there are no more of them than free
\* entries in the device queue, and a new hdr_pkt has room for the header.
do_tcp_xmit_data(ts, seq, at, seq_max, x) ==
    LET send(c, i) == xmit_byte(ts, c, seq_max)
        ctx == FoldLeft(send, [seq |-> seq, at |-> at, size |-> 0], [i \in 1 .. x.k |-> i])
    IN  IF x.begun THEN skip_sacked(ts, ctx) ELSE ctx

arm_if_sent_Never(ts, ctx) == ts \* mutant: the timer is left to the acknowledgements

\* "only rearm rto timer if it's not running"
arm_if_sent(ts, ctx) == [ts EXCEPT !.timer_rto = @ \/ ctx.size > 0]

tcp_xmit_data_Partial(ts, x) == \* mutant: a descriptor counts as sent with its first byte
    LET ctx == do_tcp_xmit_data(ts, ts.nxt, ts.txq.nxt, ts.data_seq_nxt, x)
        at == IF ctx.at # ts.txq.write /\ seq_gt(ctx.seq, desc_at(ts, ctx.at).seq)
              THEN advance(ctx.at, 1) ELSE ctx.at
    IN  [arm_if_sent(ts, ctx) EXCEPT !.nxt = ctx.seq, !.txq.nxt = at]

tcp_xmit_data(ts, x) ==
    LET ctx == do_tcp_xmit_data(ts, ts.nxt, ts.txq.nxt, ts.data_seq_nxt, x)
    IN  [arm_if_sent(ts, ctx) EXCEPT !.nxt = ctx.seq, !.txq.nxt = ctx.at]

tcp_output_Once(x) == \* mutant: what did not get out is left to the next write
    /\ tsock.in_output
    /\ tsock' = [tcp_xmit_data(tsock, x) EXCEPT !.in_output = FALSE]
    /\ UNCHANGED <<worker, accepted, called>>

\* tcp_output_one for a socket taken off the output queue: it goes back
\* while there is something to send.
tcp_output(x) ==
    /\ tsock.in_output
    /\ LET ts == tcp_xmit_data(tsock, x)
       IN  tsock' = [ts EXCEPT !.in_output = tcp_txq_to_send_pkts(ts) > 0]
    /\ UNCHANGED <<worker, accepted, called>>

tcp_reset_retrans(ts) == [ts EXCEPT !.retrans = [seq |-> ts.una, desc_base |-> ts.txq.una]]

regulate_None(ts) == ts \* mutant: the retransmission pointer is not corrected

\* "regulate retrans pointers"
regulate(ts) == IF seq_lt(ts.retrans.seq, ts.una) THEN tcp_reset_retrans(ts) ELSE ts

\* tcp_retrans and tcp_fast_retrans, which differ in their budget only.
tcp_retrans(ts0, x) ==
    LET ts == regulate(ts0)
        ctx == do_tcp_xmit_data(ts, ts.retrans.seq, ts.retrans.desc_base, ts.nxt, x)
    IN  [arm_if_sent(ts, ctx) EXCEPT !.retrans = [seq |-> ctx.seq, desc_base |-> ctx.at]]

----------------------------------------------------------------------------
(* Acknowledgements.                                                       *)

released_sacked_All(ts, d) == \* mutant: whether it was SACKED is not asked
    ts.sacked_bytes - d.len

\* sacked_bytes once descriptor d is released.
released_sacked(ts, d) == ts.sacked_bytes - (IF d.sacked THEN d.len ELSE 0)

\* tx_desc_done: descriptor d goes back to the pool, with its mbuf, and its
\* completion is called.  r holds w, the worker, and called.
tx_desc_done(r, d) ==
    [r EXCEPT !.w.pool = @ + 1,
              !.w.nr_write_mbuf = @ - (IF d.mbuf THEN 1 ELSE 0),
              !.called = @ + (IF d.write_done THEN 1 ELSE 0)]

\* One turn of ack_sent_data's loop: the acknowledgement ends inside the
\* oldest descriptor, or completes it.  a is [ts, w, left, nr_acked, called].
ack_one_desc(a) ==
    LET d == unfinished(a.ts, a.nr_acked)
        rest == d.len - a.ts.partial_ack
    IN  IF a.left < rest
        THEN [a EXCEPT !.ts.partial_ack = @ + a.left, !.ts.una = seq_add(@, a.left), !.left = 0]
        ELSE [tx_desc_done(a, d) EXCEPT
                !.ts = [a.ts EXCEPT
                          !.una = seq_add(@, rest),
                          !.partial_ack = 0,
                          !.sacked_bytes = released_sacked(a.ts, d),
                          !.txq.descs[advance(a.ts.txq.una, a.nr_acked) % TxqSize] = NoDesc],
                !.left = @ - rest,
                !.nr_acked = @ + 1]

\* ack_sent_data: nxt is moved along when the acknowledgement overtakes it.
ack_sent_data(ts, w, acked_len) ==
    LET turn(a, i) == IF a.left = 0 THEN a ELSE ack_one_desc(a)
        a == FoldLeft(turn, [ts |-> ts, w |-> w, left |-> acked_len, nr_acked |-> 0, called |-> 0],
                      [i \in 1 .. TxqSize |-> i])
        una == advance(ts.txq.una, a.nr_acked)
    IN  [a EXCEPT !.ts.txq.una = una,
                  !.ts.txq.nxt = IF tcp_txq_inflight_pkts(ts) < a.nr_acked THEN una ELSE @]

\* The blocks in order; blocks that intersect are not used at all.
sort_sack(blocks) ==
    LET sorted == SetToSortSeq(blocks, LAMBDA a, b : seq_lt(a.start, b.start))
    IN  IF \E i \in 2 .. Len(sorted) : seq_lt(sorted[i].start, sorted[i - 1].end)
        THEN <<>> ELSE sorted

mark_desc_sacked_Again(ts, c) == \* mutant: a descriptor is counted with every report
    [ts EXCEPT !.sacked_bytes = @ + desc_at(ts, c).len,
               !.txq.descs[c % TxqSize].sacked = TRUE]

mark_desc_sacked(ts, c) ==
    IF desc_at(ts, c).sacked THEN ts
    ELSE [ts EXCEPT !.sacked_bytes = @ + desc_at(ts, c).len,
                    !.txq.descs[c % TxqSize].sacked = TRUE]

begins_in_Touch(d, blk) == seq_ge(desc_end(d), blk.start) \* mutant: what touches the block

begins_in(d, blk) == seq_ge(d.seq, blk.start)

\* One block of tcp_rcv_sack: the walk goes on from descriptor off, and the
\* descriptor that ends it is not looked at again.
sack_one_block(s, blk) ==
    LET n == tcp_txq_unfinished_pkts(s.ts)
        ends(i) == \/ i >= n
                   \/ seq_ge(desc_end(unfinished(s.ts, i)), s.ts.nxt)
                   \/ seq_ge(desc_end(unfinished(s.ts, i)), blk.end)
        stop == Min({i \in s.off .. Max({n, s.off}) : ends(i)})
        mark(ts, i) == IF i < stop /\ begins_in(unfinished(ts, i), blk)
                       THEN mark_desc_sacked(ts, advance(ts.txq.una, i)) ELSE ts
    IN  IF seq_gt(blk.end, s.ts.nxt) THEN s
        ELSE [ts |-> FoldLeft(mark, s.ts, [i \in 1 .. stop - s.off |-> s.off + i - 1]),
              off |-> stop + 1]

tcp_rcv_sack(ts, blocks) ==
    FoldLeft(sack_one_block, [ts |-> ts, off |-> 0], sort_sack(blocks)).ts

\* dup: three duplicate ACKs were counted; the false detection of a fast
\* retransmit depends on a time stamp.
handle_fast_retransmit(ts, ack, acked, dup, false_detected, x) ==
    LET enters == ts.retrans_stage = "NONE" /\ dup /\ seq_gt(ack, ts.snd_recover)
        entered == tcp_retrans(tcp_reset_retrans([ts EXCEPT !.snd_recover = ts.nxt,
                                                            !.retrans_stage = "FAST_RETRANS"]), x)
    IN  IF enters THEN entered
        ELSE IF ts.retrans_stage # "FAST_RETRANS" \/ acked = 0 THEN ts
        ELSE IF seq_lt(ack, ts.snd_recover) /\ ~ false_detected
        THEN [tcp_retrans(ts, x) EXCEPT !.timer_rto = TRUE]
        ELSE [ts EXCEPT !.retrans_stage = "NONE"]

\* The end of tcp_rcv_ack's recovery handling.
after_recovery(ts, ack, acked, x) ==
    IF ts.retrans_stage = "NONE"
    THEN IF acked > 0 THEN [ts EXCEPT !.snd_recover = seq_add(ts.una, -1)] ELSE ts
    ELSE IF seq_ge(ack, ts.snd_recover) THEN [ts EXCEPT !.retrans_stage = "NONE"]
    ELSE IF ts.retrans_stage = "RTO" THEN tcp_retrans(ts, x) ELSE ts

\* "if (snd_una == snd_nxt) timer_stop(&tsock->timer_rto)"
stop_if_all_acked(ts) == [ts EXCEPT !.timer_rto = @ /\ ts.una # ts.nxt]

acked_now(ack) ==
    LET len == seq_diff(ack, tsock.una)
    IN  IF len > 0 THEN ack_sent_data(tsock, worker, len)
        ELSE [ts |-> tsock, w |-> worker, called |-> 0]

tcp_rcv_ack(ack, blocks, dup, false_detected, x) ==
    LET len == seq_diff(ack, tsock.una)
        a == acked_now(ack)
        armed == [a.ts EXCEPT !.timer_rto = @ \/ len > 0]
        sacked == tcp_rcv_sack(armed, blocks)
        fast == handle_fast_retransmit(sacked, ack, len, dup, false_detected, x)
    IN  /\ tsock.sid
        /\ seq_ge(ack, tsock.una) /\ seq_le(ack, tsock.nxt)
        /\ dup => len = 0 /\ tsock.una # tsock.nxt
        /\ tsock' = stop_if_all_acked(after_recovery(fast, ack, len, x))
        /\ worker' = a.w
        /\ called' = called + a.called
        /\ UNCHANGED accepted

tcp_rcv_ack_fastpath(ack) ==
    LET a == acked_now(ack)
    IN  /\ tsock.sid
        /\ seq_gt(ack, tsock.una) /\ seq_le(ack, tsock.nxt)
        /\ tsock.retrans_stage = "NONE"
        /\ tsock' = [a.ts EXCEPT !.snd_recover = seq_add(a.ts.una, -1),
                                 !.timer_rto = a.ts.una # a.ts.nxt]
        /\ worker' = a.w
        /\ called' = called + a.called
        /\ UNCHANGED accepted

----------------------------------------------------------------------------
clear_sacked(ts) ==
    [ts EXCEPT !.txq.descs = [i \in DOMAIN @ |-> [@[i] EXCEPT !.sacked = FALSE]],
               !.sacked_bytes = 0]

\* tcp_timeout_rto, as long as tcp_cfg.retries is not reached.
tcp_timeout_rto(x) ==
    /\ tsock.timer_rto
    /\ LET ts == [clear_sacked(tsock) EXCEPT !.retrans_stage = "RTO",
                                             !.snd_recover = tsock.nxt]
       IN  tsock' = [tcp_retrans(tcp_reset_retrans(ts), x) EXCEPT !.in_output = TRUE]
    /\ UNCHANGED <<worker, accepted, called>>

reclaim_txq_Silent(r, ts) == \* mutant: what is left is freed and nobody is told
    FoldLeft(LAMBDA q, d : tx_desc_done(q, [d EXCEPT !.write_done = FALSE]), r,
             [i \in 1 .. tcp_txq_unfinished_pkts(ts) |-> unfinished(ts, i - 1)])

\* reclaim_txq: every descriptor from una on is done, sent or not.
reclaim_txq(r, ts) ==
    FoldLeft(tx_desc_done, r, [i \in 1 .. tcp_txq_unfinished_pkts(ts) |-> unfinished(ts, i - 1)])

\* tsock_free at any time: a RST, a time-out, a close.  What a freed socket
\* still holds is not looked at before the slot's next connection.
tsock_free ==
    LET r == reclaim_txq([w |-> worker, called |-> called], tsock)
    IN  /\ tsock.sid
        /\ tsock' = [Established EXCEPT !.sid = FALSE]
        /\ worker' = r.w
        /\ called' = r.called
        /\ UNCHANGED accepted

\* The slot's next connection.
tsock_init ==
    /\ ~ tsock.sid
    /\ tsock' = Established
    /\ accepted' = 0 /\ called' = 0
    /\ UNCHANGED worker

----------------------------------------------------------------------------
Offset(seq) == seq_diff(seq, ISS)
Written == Offset(tsock.data_seq_nxt)
WriteLen(iovs) == FoldLeft(LAMBDA sum, iov : sum + iov.len, 0, iovs)

\* What a SACK option reports: nothing, a block of the bytes in flight, one
\* beyond them, two blocks with a gap, or two that intersect.
SackSets ==
    LET n == seq_diff(tsock.nxt, tsock.una)
        blk(i, j) == [start |-> seq_add(tsock.una, i), end |-> seq_add(tsock.una, j)]
        inside == {p \in (0 .. n) \X (0 .. n) : p[1] < p[2]}
    IN  {{}, {blk(0, n + 1)}, {blk(0, n + 1), blk(n, n + 1)}}
        \union {{blk(p[1], p[2])} : p \in inside}
        \union {{blk(p[1], p[2]), blk(q[1], q[2])} :
                  <<p, q>> \in {pq \in inside \X inside : pq[1][2] < pq[2][1]}}

Write == \E iovs \in Writes, mbufs \in 0 .. NR_DESC :
    Written + WriteLen(iovs) <= StreamLen /\ tsock_zwritev(iovs, mbufs)

\* Inputs that this acknowledgement does not look at are fixed.
Ack ==
    \E n \in 0 .. seq_diff(tsock.nxt, tsock.una), dup, false_detected \in BOOLEAN, x \in Xmit :
        /\ dup => n = 0
        /\ false_detected => tsock.retrans_stage = "FAST_RETRANS" /\ n > 0
        /\ tsock.retrans_stage = "NONE" /\ ~ dup => x = [k |-> 0, begun |-> FALSE]
        /\ \E blocks \in SackSets :
             /\ x.begun => blocks # {} \/ tsock.sacked_bytes > 0
             /\ tcp_rcv_ack(seq_add(tsock.una, n), blocks, dup, false_detected, x)

Next ==
    \/ Write
    \/ \E k \in 0 .. MaxXmit : LET x == [k |-> k, begun |-> FALSE]
                                IN  tcp_output(x) \/ tcp_timeout_rto(x)
    \/ Ack
    \/ \E n \in 1 .. StreamLen : tcp_rcv_ack_fastpath(seq_add(tsock.una, n))
    \/ tsock_free
    \/ tsock_init

Spec == Init /\ [][Next]_vars

----------------------------------------------------------------------------
Desc == [len : 0 .. StreamLen, seq : SeqNumber, mbuf : BOOLEAN,
         write_done : BOOLEAN, sacked : BOOLEAN]

TypeOK ==
    /\ {tsock.una, tsock.nxt, tsock.data_seq_nxt, tsock.snd_recover, tsock.retrans.seq}
          \subseteq SeqNumber
    /\ {tsock.txq.una, tsock.txq.nxt, tsock.txq.write, tsock.retrans.desc_base}
          \subseteq 0 .. UINT16 - 1
    /\ tsock.txq.descs \in [0 .. TxqSize - 1 -> Desc]
    /\ tsock.partial_ack \in 0 .. StreamLen /\ tsock.sacked_bytes \in 0 .. StreamLen
    /\ tsock.retrans_stage \in {"NONE", "RTO", "FAST_RETRANS"}
    /\ tsock.sid \in BOOLEAN /\ tsock.timer_rto \in BOOLEAN /\ tsock.in_output \in BOOLEAN
    /\ worker.pool \in 0 .. NR_DESC /\ worker.nr_write_mbuf \in 0 .. NR_DESC

Unfinished == {unfinished(tsock, i) : i \in 0 .. tcp_txq_unfinished_pkts(tsock) - 1}

(***************************************************************************)
(* The descriptor ring and the sequence numbers tell the same story: una   *)
(* to write never exceeds the ring, the descriptors are contiguous from    *)
(* snd_una - partial_ack (the debug_assert of ack_sent_data) up to         *)
(* data_seq_nxt, and txq.nxt is the descriptor that holds snd_nxt.         *)
(***************************************************************************)
TxqMatchesSequence ==
    LET n == tcp_txq_unfinished_pkts(tsock)
        d(i) == unfinished(tsock, i)
        start(i) == IF i = n THEN tsock.data_seq_nxt ELSE d(i).seq
        m == tcp_txq_inflight_pkts(tsock)
    IN  /\ n <= TxqSize
        /\ \A i \in 0 .. n - 1 : d(i).len > 0 /\ desc_end(d(i)) = start(i + 1)
        /\ seq_add(start(0), tsock.partial_ack) = tsock.una
        /\ n > 0 => tsock.partial_ack < d(0).len
        /\ seq_le(start(m), tsock.nxt)
        /\ m < n => seq_lt(tsock.nxt, desc_end(d(m)))
        /\ seq_le(tsock.una, tsock.nxt) /\ seq_le(tsock.nxt, tsock.data_seq_nxt)

(***************************************************************************)
(* sacked_bytes, from which the congestion window is inflated and fast     *)
(* retransmission gets its budget, is the size of the SACKED descriptors.  *)
(***************************************************************************)
SackedBytesExact ==
    tsock.sacked_bytes =
        FoldSet(LAMBDA d, sum : sum + d.len, 0, {d \in Unfinished : d.sacked})

(***************************************************************************)
(* During recovery the retransmission pointer is usable: it was overtaken  *)
(* by snd_una (and will be reset), or retrans.desc_base is the descriptor  *)
(* holding retrans.seq, so that the offset computed by xmit_one_packet     *)
(* lies inside the descriptor (its debug_assert), or all was sent again.   *)
(***************************************************************************)
RetransPointerUsable ==
    LET r == tsock.retrans
        i == distance(tsock.txq.una, r.desc_base)
    IN  tsock.retrans_stage # "NONE" /\ seq_ge(r.seq, tsock.una) =>
            /\ seq_le(r.seq, tsock.nxt)
            /\ i <= tcp_txq_unfinished_pkts(tsock)
            /\ IF i = tcp_txq_unfinished_pkts(tsock) THEN r.seq = tsock.data_seq_nxt
               ELSE seq_le(unfinished(tsock, i).seq, r.seq)
                    /\ seq_lt(r.seq, desc_end(unfinished(tsock, i)))

(***************************************************************************)
(* No byte is forgotten.  While bytes are sent and not acknowledged the    *)
(* retransmission timer runs, and while bytes are to be sent the socket is *)
(* on the output queue, whatever mix of partial transmissions,             *)
(* acknowledgements and time-outs led there: a closed window, a lack of    *)
(* mbufs or a full device queue only postpones them.                       *)
(***************************************************************************)
NothingForgotten ==
    /\ tsock.una # tsock.nxt => tsock.timer_rto
    /\ tsock.nxt # tsock.data_seq_nxt => tsock.in_output

(***************************************************************************)
(* Descriptors and mbufs are conserved: each is in the pool or in use by   *)
(* the send queue, after failed writes, partial acknowledgements and       *)
(* freed sockets as well.                                                  *)
(***************************************************************************)
DescsConserved ==
    /\ worker.pool + tcp_txq_unfinished_pkts(tsock) = NR_DESC
    /\ worker.nr_write_mbuf = Cardinality({d \in Unfinished : d.mbuf})

(***************************************************************************)
(* Every iovec with data of a successful write gets its iov_write_done     *)
(* exactly once ("libtpa will invoke this callback to let the APP be aware *)
(* of it"): it was called already, or a queued descriptor will call it,    *)
(* and when the socket has been freed, with bytes written, sent or partly  *)
(* acknowledged, all of them were called.  An iovec of length 0 is never   *)
(* reported: write_one_iov returns before it looks at the callback.        *)
(***************************************************************************)
WriteDoneOnce == accepted = called + Cardinality({d \in Unfinished : d.write_done})
=============================================================================
