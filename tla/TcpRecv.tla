------------------------------ MODULE TcpRecv -------------------------------
(***************************************************************************)
(* The receive side of a connection (src/tcp/tcp_input.c): from a segment  *)
(* that comes in to the bytes the application reads.  Segments of the      *)
(* peer's stream arrive in any order, any number of times and cut anyhow.  *)
(* In-order data goes to the receive queue (rxq), data beyond a gap to the *)
(* out-of-order queue (ooo), which is drained once the gap is filled and   *)
(* described to the peer by SACK blocks.                                   *)
(*                                                                         *)
(* A packet is [seq, len, off]: off, the position of its first byte in the *)
(* peer's stream, stands for the payload.                                  *)
(***************************************************************************)
EXTENDS SeqNum, Sequences, SequencesExt, FiniteSets

CONSTANTS
    ISN,            \* sequence number of the first byte of the stream
    StreamLen,      \* bytes the peer sends before its FIN
    MaxLen,         \* largest segment
    RxqSize,        \* packets the receive queue holds
    WndInit,        \* TSOCK_RCV_WND_DEFAULT
    rcv_ooo_limit,  \* tcp_cfg.rcv_ooo_limit
    TCP_MAX_NR_SACK_BLOCK,
    FinInOrder      \* the FIN comes in when all data before it has

ASSUME RecvAssumption ==
    /\ ISN \in SeqNumber /\ StreamLen \in Nat /\ MaxLen \in Nat \ {0}
    /\ RxqSize \in Nat \ {0} /\ WndInit \in Nat \ {0} /\ rcv_ooo_limit \in Nat
    /\ TCP_MAX_NR_SACK_BLOCK \in Nat \ {0}
    /\ 2 * (StreamLen + 1) < SEQ /\ 2 * WndInit < SEQ   \* nothing older than half the space

VARIABLES
    rcv,        \* the receive side of the tsock
    state,      \* "ESTABLISHED" or, once a FIN came in, "CLOSE_WAIT"
    eof,        \* TSOCK_FLAG_EOF
    consumed,   \* bytes the application has read
    given_up,   \* why held out-of-order packets were given up: "MBUFS", "LIMIT"
    stale_text  \* debug_assert(0) of tcp_rcv_data was reached

vars == <<rcv, state, eof, consumed, given_up, stale_text>>

NoPkt == -1

Init ==
    /\ rcv = [nxt |-> ISN, wnd |-> WndInit, rxq |-> <<>>, ooo |-> <<>>,
              last_ooo_pkt |-> NoPkt, sack_blocks |-> <<>>]
    /\ state = "ESTABLISHED"
    /\ eof = FALSE
    /\ consumed = 0
    /\ given_up = {}
    /\ stale_text = FALSE

----------------------------------------------------------------------------
endOf(p) == seq_add(p.seq, p.len)

\* tcp_packet_cut, CUT_HEAD and CUT_TAIL.
cut_head(p, n) == [seq |-> seq_add(p.seq, n), len |-> p.len - n, off |-> p.off + n]
cut_tail(p, n) == [p EXCEPT !.len = @ - n]

\* What a function of the receive path leaves behind: the socket, the
\* packet it was given (perhaps cut) and its return value.
result(r, p, e) == [r |-> r, p |-> p, err |-> e]

tcp_rcv_enqueue_Grow(r, pkt) == \* mutant: no check for room in the rxq
    LET p == IF pkt.len > r.wnd THEN cut_tail(pkt, pkt.len - r.wnd) ELSE pkt
    IN  IF p.len = 0 THEN result(r, p, "OK")
        ELSE result([r EXCEPT !.rxq = Append(@, p),
                              !.nxt = seq_add(@, p.len),
                              !.wnd = @ - p.len], p, "OK")
tcp_rcv_enqueue(r, pkt) ==
    LET p == IF pkt.len > r.wnd THEN cut_tail(pkt, pkt.len - r.wnd) ELSE pkt
    IN  IF p.len = 0 THEN result(r, p, "OK")
        ELSE IF Len(r.rxq) = RxqSize THEN result(r, p, "RXQ_ENQUEUE_FAIL")
        ELSE result([r EXCEPT !.rxq = Append(@, p),
                              !.nxt = seq_add(@, p.len),
                              !.wnd = @ - p.len], p, "OK")

----------------------------------------------------------------------------
\* SACK blocks are [start, end); the latest one comes first.
sack_touch(b, c) == ~ (seq_lt(c.end, b.start) \/ seq_gt(c.start, b.end))
sack_merge(b, c) ==
    [start |-> IF seq_lt(c.start, b.start) THEN c.start ELSE b.start,
     end   |-> IF seq_gt(c.end, b.end) THEN c.end ELSE b.end]

\* The first block swallows all that touch it; the others keep their order.
sack_try_merge_blocks(blocks) ==
    FoldLeft(LAMBDA s, b : IF sack_touch(s[1], b) THEN [s EXCEPT ![1] = sack_merge(@, b)]
                           ELSE Append(s, b),
             <<Head(blocks)>>, Tail(blocks))

sack_update_NoSwap(blocks, new) == \* mutant: grown blocks are not merged with each other
    IF \E i \in 1 .. Len(blocks) : sack_touch(blocks[i], new)
    THEN LET i == CHOOSE i \in 1 .. Len(blocks) : sack_touch(blocks[i], new)
         IN  [blocks EXCEPT ![i] = sack_merge(@, new)]
    ELSE <<new>> \o SubSeq(blocks, 1, IF Len(blocks) < TCP_MAX_NR_SACK_BLOCK - 1
                                      THEN Len(blocks) ELSE TCP_MAX_NR_SACK_BLOCK - 1)

\* The first block that touches the new one takes it in and is swapped to the
\* front; otherwise the new one is put in front and the oldest may drop out.
sack_update(blocks, new) ==
    LET touching == {i \in 1 .. Len(blocks) : sack_touch(blocks[i], new)}
        i == CHOOSE k \in touching : \A j \in touching : k <= j
    IN  IF touching # {}
        THEN sack_try_merge_blocks(
                 [blocks EXCEPT ![i] = blocks[1], ![1] = sack_merge(blocks[i], new)])
        ELSE <<new>> \o SubSeq(blocks, 1, IF Len(blocks) < TCP_MAX_NR_SACK_BLOCK - 1
                                          THEN Len(blocks) ELSE TCP_MAX_NR_SACK_BLOCK - 1)

sack_regulate(r) ==
    [r EXCEPT !.sack_blocks = SelectSeq(@, LAMBDA b : seq_gt(b.start, r.nxt))]

----------------------------------------------------------------------------
\* tsock_remove_ooo_pkt for the packets at the indices I.
tsock_remove_ooo_pkt(r, I) ==
    LET gone == {r.ooo[i].seq : i \in I}
    IN  [r EXCEPT !.ooo = SelectSeq(@, LAMBDA p : p.seq \notin gone),
                  !.last_ooo_pkt = IF @ \in gone THEN NoPkt ELSE @]

drain_one(a, p) ==
    IF a.stop # "no" THEN a
    ELSE IF p.seq # a.r.nxt THEN [a EXCEPT !.stop = "gap"]
    ELSE LET e == tcp_rcv_enqueue(a.r, p)
         IN  IF e.err # "OK" THEN [a EXCEPT !.stop = "full"]
             ELSE [a EXCEPT !.r = tsock_remove_ooo_pkt(e.r, {1})]

ooo_queue_drain_One(r) == \* mutant: stops after the first packet
    IF r.ooo = <<>> THEN r
    ELSE sack_regulate(drain_one([r |-> r, stop |-> "no"], Head(r.ooo)).r)

\* Move packets to the rxq until there is a gap, or no room: then the rest,
\* and the SACK blocks, stay as they are.
ooo_queue_drain(r) ==
    LET d == FoldLeft(drain_one, [r |-> r, stop |-> "no"], r.ooo)
        s == sack_regulate(d.r)
    IN  IF d.stop = "full" THEN d.r
        ELSE IF s.ooo = <<>> THEN [s EXCEPT !.last_ooo_pkt = NoPkt, !.sack_blocks = <<>>]
        ELSE s

\* Insert p after the first k packets of the ooo queue.
ooo_queue_insert(r, k, pkt) ==
    LET over == seq_diff(endOf(pkt), seq_add(r.nxt, r.wnd))
        p    == IF over > 0 THEN cut_tail(pkt, over) ELSE pkt
    IN  IF p.len = 0 THEN result(r, p, "OOO_DUP")
        ELSE IF p.seq # r.nxt /\ Len(r.ooo) >= rcv_ooo_limit THEN result(r, p, "OOO_LIMIT")
        ELSE result([r EXCEPT !.ooo = InsertAt(@, k + 1, p),
                              !.sack_blocks = sack_update(@, [start |-> p.seq, end |-> endOf(p)]),
                              !.last_ooo_pkt = p.seq], p, "OK")

\* The packet starts where the last inserted one, at the tail, ends.
ooo_predicted(r, p) ==
    /\ r.ooo # <<>> /\ r.last_ooo_pkt = Last(r.ooo).seq
    /\ endOf(Last(r.ooo)) = p.seq

\* Drop the packets behind the first k that p covers, cut p before the next,
\* insert p.
ooo_cut_right(r, k, p) ==
    LET over(i)  == seq_diff(endOf(p), r.ooo[i].seq)
        kept     == {i \in k + 1 .. Len(r.ooo) : over(i) < r.ooo[i].len}
        first    == IF kept = {} THEN Len(r.ooo) + 1
                    ELSE CHOOSE i \in kept : \A j \in kept : i <= j
        q        == IF kept # {} /\ over(first) > 0 THEN cut_tail(p, over(first)) ELSE p
    IN  ooo_queue_insert(tsock_remove_ooo_pkt(r, k + 1 .. first - 1), k, q)

tcp_rcv_data_ooo_Overlap(r, p) == \* mutant: an overlap with the packet before is not cut
    ooo_cut_right(r, Cardinality({i \in 1 .. Len(r.ooo) : seq_le(r.ooo[i].seq, p.seq)}), p)

tcp_rcv_data_ooo(r, p) ==
    LET after == {i \in 1 .. Len(r.ooo) : seq_gt(r.ooo[i].seq, p.seq)}
        k     == IF after = {} THEN Len(r.ooo) ELSE (CHOOSE i \in after : \A j \in after : i <= j) - 1
        prev  == r.ooo[k]
        over  == seq_diff(endOf(prev), p.seq)
    IN  IF ooo_predicted(r, p) THEN ooo_queue_insert(r, Len(r.ooo), p)
        ELSE IF k = 0 THEN ooo_cut_right(r, 0, p)
        ELSE IF p.seq = prev.seq /\ p.len > prev.len
             THEN ooo_cut_right(tsock_remove_ooo_pkt(r, {k}), k - 1, p)
        ELSE IF over <= 0 THEN ooo_cut_right(r, k, p)
        ELSE IF over >= p.len THEN result(r, p, "OOO_DUP")
        ELSE ooo_cut_right(r, k, cut_head(p, over))

tcp_rcv_data_Uncut(r, pkt, fin) == \* mutant: data received before is not cut off
    IF pkt.len = 0
    THEN result(IF fin /\ pkt.seq = r.nxt THEN [r EXCEPT !.nxt = seq_add(@, 1)] ELSE r, pkt, "OK")
    ELSE IF seq_le(pkt.seq, r.nxt) /\ (r.ooo = <<>> \/ seq_lt(endOf(pkt), Head(r.ooo).seq))
    THEN tcp_rcv_enqueue(r, pkt)
    ELSE [tcp_rcv_data_ooo(r, pkt) EXCEPT !.r = ooo_queue_drain(@)]
tcp_rcv_data_DrainOnSuccess(r, pkt, fin) == \* mutant: a duplicate does not drain the ooo queue
    LET to_cut == IF seq_lt(pkt.seq, r.nxt) THEN seq_diff(r.nxt, pkt.seq) ELSE 0
        p      == cut_head(pkt, to_cut)
    IN  IF pkt.len = 0
        THEN result(IF fin /\ pkt.seq = r.nxt THEN [r EXCEPT !.nxt = seq_add(@, 1)] ELSE r, pkt, "OK")
        ELSE IF to_cut >= pkt.len THEN result(r, [pkt EXCEPT !.len = 0], "ASSERT")
        ELSE IF p.seq = r.nxt /\ (r.ooo = <<>> \/ seq_lt(endOf(p), Head(r.ooo).seq))
        THEN tcp_rcv_enqueue(r, p)
        ELSE LET o == tcp_rcv_data_ooo(r, p)
             IN  IF o.err = "OK" THEN [o EXCEPT !.r = ooo_queue_drain(o.r)] ELSE o

\* The text of a segment: known data is cut off, data in sequence that does
\* not reach the ooo queue goes to the rxq, all else takes the ooo way.
tcp_rcv_data(r, pkt, fin) ==
    LET to_cut == IF seq_lt(pkt.seq, r.nxt) THEN seq_diff(r.nxt, pkt.seq) ELSE 0
        p      == cut_head(pkt, to_cut)
    IN  IF pkt.len = 0
        THEN result(IF fin /\ pkt.seq = r.nxt THEN [r EXCEPT !.nxt = seq_add(@, 1)] ELSE r, pkt, "OK")
        ELSE IF to_cut >= pkt.len THEN result(r, [pkt EXCEPT !.len = 0], "ASSERT")
        ELSE IF p.seq = r.nxt /\ (r.ooo = <<>> \/ seq_lt(endOf(p), Head(r.ooo).seq))
        THEN tcp_rcv_enqueue(r, p)
        ELSE [tcp_rcv_data_ooo(r, p) EXCEPT !.r = ooo_queue_drain(@)]

----------------------------------------------------------------------------
validate_seq_Edge(r, p) == \* mutant: data that ends at rcv_nxt is let in
    \/ p.len = 0 /\ p.seq = r.nxt
    \/ ~ (seq_lt(endOf(p), r.nxt) \/ seq_ge(p.seq, seq_add(r.nxt, r.wnd)))

validate_seq(r, p) ==
    \/ p.len = 0 /\ p.seq = r.nxt
    \/ ~ (seq_le(endOf(p), r.nxt) \/ seq_ge(p.seq, seq_add(r.nxt, r.wnd)))

\* tcp_rcv_pkt past the fast path: sequence check, text, FIN.
slowpath(r, p, fin) ==
    IF ~ validate_seq(r, p) THEN result(r, p, "INVALID_SEQ")
    ELSE IF state = "ESTABLISHED" THEN tcp_rcv_data(r, p, fin)
    ELSE result(r, p, IF p.len # 0 THEN "INVALID_STATE" ELSE "OK")

\* A packet the fast path failed on goes on to the slow path as it was left.
after_fastpath(f, fin) == IF f.err = "OK" THEN f ELSE slowpath(f.r, f.p, fin)

\* The fast path takes in-sequence data without FIN; fast says whether its
\* other conditions (options, acknowledgement, retransmission) are met.
tcp_rcv_pkt(p, fin, fast) ==
    IF fast /\ state = "ESTABLISHED" /\ p.seq = rcv.nxt /\ ~ fin /\ p.len > 0 /\ rcv.wnd # 0
    THEN after_fastpath(tcp_rcv_data(rcv, p, FALSE), fin)
    ELSE slowpath(rcv, p, fin)

\* tcp_rcv_fin, reached when everything before it went well.
tcp_rcv_fin(fin, e) ==
    IF fin /\ e = "OK" THEN eof' = TRUE /\ state' = "CLOSE_WAIT"
    ELSE UNCHANGED <<eof, state>>

\* Bytes in the receive queue.
unread(r) == FoldLeft(LAMBDA n, p : n + p.len, 0, r.rxq)
received == consumed + unread(rcv)

segment(o, n) == [seq |-> seq_add(ISN, o), len |-> n, off |-> o]

\* A segment of the peer's stream arrives, the last ones perhaps with the FIN.
Receive(o, n, fin) ==
    /\ o + n <= StreamLen
    /\ fin => o + n = StreamLen /\ (FinInOrder => received = StreamLen)
    /\ n > 0 \/ fin
    /\ \E fast \in BOOLEAN : \E d \in {tcp_rcv_pkt(segment(o, n), fin, fast)} :
         /\ rcv' = d.r
         /\ tcp_rcv_fin(fin, d.err)
         /\ given_up' = IF d.err = "OOO_LIMIT" /\ Len(d.r.ooo) < Len(rcv.ooo)
                        THEN given_up \union {"LIMIT"} ELSE given_up
         /\ stale_text' = (stale_text \/ d.err = "ASSERT")
    /\ UNCHANGED consumed


\* tsock_zreadv hands out n bytes: whole packets, and a part of the next one
\* if the iovecs run out inside a chain.
tsock_zreadv(n) ==
    LET before(k) == FoldLeft(LAMBDA m, p : m + p.len, 0, SubSeq(rcv.rxq, 1, k))
        whole     == {k \in 0 .. Len(rcv.rxq) : before(k) <= n}
        done      == CHOOSE k \in whole : \A j \in whole : j <= k
        rest      == SubSeq(rcv.rxq, done + 1, Len(rcv.rxq))
    IN  /\ n \in 1 .. unread(rcv)
        /\ rcv' = [rcv EXCEPT !.rxq = IF rest = <<>> THEN rest
                                      ELSE [rest EXCEPT ![1] = cut_head(@, n - before(done))],
                              !.wnd = @ + n]
        /\ consumed' = consumed + n
        /\ UNCHANGED <<state, eof, given_up, stale_text>>

\* The worker is short of mbufs and drops a quarter of the ooo queue.
tsock_drop_ooo_mbufs ==
    LET n == IF Len(rcv.ooo) \div 4 > 1 THEN Len(rcv.ooo) \div 4 ELSE 1
    IN  /\ rcv.ooo # <<>>
        /\ rcv' = tsock_remove_ooo_pkt(rcv, Len(rcv.ooo) - n + 1 .. Len(rcv.ooo))
        /\ given_up' = given_up \union {"MBUFS"}
        /\ UNCHANGED <<state, eof, consumed, stale_text>>

Next ==
    \/ \E o \in 0 .. StreamLen, n \in 0 .. MaxLen, fin \in BOOLEAN : Receive(o, n, fin)
    \/ \E n \in 1 .. WndInit : tsock_zreadv(n)
    \/ tsock_drop_ooo_mbufs

Spec == Init /\ [][Next]_vars

----------------------------------------------------------------------------
Packet == [seq : SeqNumber, len : 1 .. MaxLen, off : 0 .. StreamLen]

TypeOK ==
    /\ rcv.nxt \in SeqNumber /\ rcv.wnd \in 0 .. WndInit
    /\ rcv.rxq \in Seq(Packet) /\ Len(rcv.rxq) <= RxqSize
    /\ rcv.ooo \in Seq(Packet) /\ Len(rcv.ooo) <= rcv_ooo_limit + 1
    /\ rcv.last_ooo_pkt \in SeqNumber \union {NoPkt}
    /\ rcv.sack_blocks \in Seq([start : SeqNumber, end : SeqNumber])
    /\ Len(rcv.sack_blocks) <= TCP_MAX_NR_SACK_BLOCK
    /\ state \in {"ESTABLISHED", "CLOSE_WAIT"} /\ eof \in BOOLEAN
    /\ stale_text \in BOOLEAN /\ given_up \subseteq {"MBUFS", "LIMIT"}
    /\ consumed \in 0 .. StreamLen

(***************************************************************************)
(* The application reads the peer's stream, byte for byte: what is in the  *)
(* receive queue continues what was read without a gap, a repetition or    *)
(* foreign bytes, and rcv_nxt acknowledges exactly these bytes (and at     *)
(* most the FIN after them), for every order, overlap and duplication of   *)
(* segments and across the wrap of the sequence space.                     *)
(***************************************************************************)
StreamIntegrity ==
    /\ \A i \in 1 .. Len(rcv.rxq) :
         rcv.rxq[i].off = consumed + FoldLeft(LAMBDA n, p : n + p.len, 0, SubSeq(rcv.rxq, 1, i - 1))
    /\ \E fin \in {0, 1} :
         /\ rcv.nxt = seq_add(ISN, received + fin)
         /\ fin = 1 => eof /\ received = StreamLen


(***************************************************************************)
(* The out-of-order queue is what tcp_rcv_data_ooo asserts and what the    *)
(* drain relies on: non-empty packets in sequence, disjoint, none below    *)
(* rcv_nxt or beyond the window, each holding the bytes its number says,   *)
(* and last_ooo_pkt points into the queue.  So a drained packet is never   *)
(* cut, and never left out.                                                *)
(***************************************************************************)
OooWellFormed ==
    LET at(i) == seq_diff(rcv.ooo[i].seq, rcv.nxt) IN
    /\ \A i \in 1 .. Len(rcv.ooo) :
         /\ at(i) >= 0 /\ at(i) + rcv.ooo[i].len <= rcv.wnd
         /\ i > 1 => at(i - 1) + rcv.ooo[i - 1].len <= at(i)
         /\ rcv.ooo[i].seq = seq_add(ISN, rcv.ooo[i].off)
    /\ rcv.last_ooo_pkt # NoPkt => \E i \in 1 .. Len(rcv.ooo) : rcv.ooo[i].seq = rcv.last_ooo_pkt

SackHeld ==
    LET holds(q) == \/ seq_lt(q, rcv.nxt)
                    \/ \E i \in 1 .. Len(rcv.ooo) :
                         seq_le(rcv.ooo[i].seq, q) /\ seq_lt(q, endOf(rcv.ooo[i]))
    IN  \A i \in 1 .. Len(rcv.sack_blocks) :
          LET b == rcv.sack_blocks[i]
          IN  /\ seq_lt(b.start, b.end)
              /\ \A n \in 0 .. seq_diff(b.end, b.start) - 1 : holds(seq_add(b.start, n))

(***************************************************************************)
(* SACK blocks are apart from each other, and they tell the truth: unless  *)
(* packets were given up (the TODO above tsock_drop_ooo_mbufs, and see     *)
(* SackOnlyHeld), every byte they report has been received or sits in the  *)
(* out-of-order queue.                                                     *)
(***************************************************************************)
SackTruthful ==
    /\ \A i, j \in 1 .. Len(rcv.sack_blocks) :
         sack_touch(rcv.sack_blocks[i], rcv.sack_blocks[j]) => i = j
    /\ given_up = {} => SackHeld

(***************************************************************************)
(* Running out of mbufs is the only reason why a SACK block may report     *)
(* data that is "no longer actually held by the receiver" (the rule quoted *)
(* above tsock_drop_ooo_mbufs): tcp_rcv_data_ooo discards none.            *)
(***************************************************************************)
SackOnlyHeld == "MBUFS" \notin given_up => SackHeld

(***************************************************************************)
(* A packet that passed validate_seq has new data for tcp_rcv_data (its    *)
(* "this should never happen?" assertion), also when the slow path takes   *)
(* up a packet the fast path has failed on.                                *)
(***************************************************************************)
NoStaleText == ~ stale_text

(***************************************************************************)
(* In-order packets are left in the out-of-order queue only for want of    *)
(* room in the receive queue: every data packet taken in, whatever its     *)
(* place, moves over all that has become contiguous (the comment in        *)
(* ooo_queue_drain).                                                       *)
(***************************************************************************)
DrainedAsFarAsPossible ==
    [][/\ rcv'.nxt # rcv.nxt \/ Len(rcv'.ooo) > Len(rcv.ooo)
       /\ rcv'.ooo # <<>> /\ Head(rcv'.ooo).seq = rcv'.nxt
       => Len(rcv'.rxq) = RxqSize]_vars

(***************************************************************************)
(* End of file means that there is no more: once the application has read  *)
(* everything and gets 0 from tpa_zreadv, it has the whole stream.         *)
(***************************************************************************)
EofMeansEnd == eof /\ rcv.rxq = <<>> => consumed = StreamLen
=============================================================================
