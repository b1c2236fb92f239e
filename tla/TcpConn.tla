------------------------------- MODULE TcpConn ------------------------------
(***************************************************************************)
(* The life of a connection (src/tcp/, src/sock.c): opened by the          *)
(* application or by a SYN at a listening socket, accepted, closed by      *)
(* either side, reset, timed out, freed.  One socket slot of one worker,   *)
(* used again and again.  What the state, the flags, the three timers and  *)
(* the queues of the worker have to do with one another is kept; data is   *)
(* counted (modules TcpRecv and TcpSend are about it), segments of the     *)
(* peer arrive in order or again, its window is open or shut, and our      *)
(* receive window shuts no earlier than the receive queue is full.         *)
(*                                                                         *)
(* Sequence numbers count from the SYN: our SYN is 0, our first byte is 1, *)
(* and likewise for the peer.                                              *)
(***************************************************************************)
EXTENDS Naturals, FiniteSets

CONSTANTS
    MaxSend,        \* bytes the application writes at most
    MaxRecv,        \* bytes the peer sends before its FIN
    RxqSize,        \* packets the receive queue holds
    retries,        \* tcp_cfg.retries
    syn_retries     \* tcp_cfg.syn_retries

ASSUME ConnAssumption ==
    /\ MaxSend \in Nat /\ MaxRecv \in Nat /\ RxqSize \in Nat \ {0}
    /\ retries \in Nat \ {0} /\ syn_retries \in Nat \ {0}

VARIABLES
    c,      \* the tsock, with what the application and the wire know of it
    batch   \* tcp_input has taken a packet for it and not yet ended the batch

vars == <<c, batch>>

TcpFlags == {"SYN", "ACK", "FIN", "RST"}    \* TSOCK_FLAG_TCP_FLAGS_MASK
Flags == TcpFlags \union {"ACK_NOW", "FIN_PENDING", "FIN_SENT", "CLOSE_PROCESSED", "EOF", "PUT"}
States == {"CLOSED", "SYN_SENT", "SYN_RCVD", "ESTABLISHED", "FIN_WAIT_1", "FIN_WAIT_2",
           "CLOSE_WAIT", "CLOSING", "LAST_ACK", "TIME_WAIT"}
Timers == {"rto", "wait", "keepalive"}

\* What became of a packet that was to be sent.
Xmit == {"OK", "PKT_ALLOC_FAIL", "DEV_TXQ_FULL"}

\* What else becomes of a packet that came in: an ACK is due at once or later,
\* data is sent again or not.  wnd is the window we know of after it: the one
\* it announces, if snd_wl1 and snd_wl2 say that it is news.
Env == [now : BOOLEAN, again : BOOLEAN, wnd : 0 .. 1, x : Xmit]

(* snd_wnd tells a shut window, 0, from an open one.  Besides the fields   *)
(* of struct tcp_sock: known, the application was given the sid; dropped,  *)
(* tpa_accept_burst took it from the accept queue and gave it to nobody;   *)
(* out, how far our sequence numbers went out on the wire.                 *)
NoConn ==
    [sid |-> FALSE, state |-> "CLOSED", passive_connection |-> FALSE, known |-> FALSE,
     dropped |-> FALSE, close_issued |-> FALSE, closed_at_syn_rcvd |-> FALSE, flags |-> {}, err |-> "NONE",
     snd_una |-> 0, snd_nxt |-> 0, data_seq_nxt |-> 0, out |-> 0, snd_wnd |-> 0,
     rcv_nxt |-> 0, rxq |-> 0,
     rto_shift |-> 0, keepalive_shift |-> 0, timers |-> {},
     in_output |-> FALSE, in_accept |-> FALSE, in_delayed_ack |-> FALSE, events |-> {}]

Init == c = NoConn /\ batch = FALSE

----------------------------------------------------------------------------
(* Helpers of all handlers.                                                *)

set(t, fs) == [t EXCEPT !.flags = @ \union fs]
arm(t, w) == [t EXCEPT !.timers = @ \union {w}]
raise(t, e) == [t EXCEPT !.events = @ \union {e}]
to_send(t) == IF t.snd_nxt < t.data_seq_nxt THEN t.data_seq_nxt - t.snd_nxt ELSE 0

\* The slot keeps its err until it is used again.
tsock_free(t) == [NoConn EXCEPT !.err = t.err]

tsock_set_state(t, s) ==
    LET u == [t EXCEPT !.state = s]
    IN  IF s \in {"TIME_WAIT", "FIN_WAIT_2"} THEN arm(u, "wait") ELSE u

tsock_rearm_timer_keepalive(t) == arm([t EXCEPT !.keepalive_shift = 0], "keepalive")

\* The flags that are set go out in one packet and are cleared by that.  end
\* is what it takes our sequence numbers to.
xmit_flag_packet_with_seq(t, end, x) ==
    LET sent == t.flags \intersect TcpFlags
        now  == IF "ACK" \in sent THEN {"ACK_NOW"} ELSE {}
    IN  CASE x = "PKT_ALLOC_FAIL" -> t
          [] x = "DEV_TXQ_FULL"   -> [t EXCEPT !.flags = @ \ now]
          [] x = "OK" -> [t EXCEPT !.flags = @ \ (sent \union now),
                                   !.out = IF end > @ THEN end ELSE @]

xmit_flag_packet(t, x) ==
    LET end == IF "SYN" \in t.flags THEN 1 ELSE IF "FIN" \in t.flags THEN t.data_seq_nxt + 1 ELSE 0
    IN  xmit_flag_packet_with_seq(t, end, x)

xmit_syn(t, x) ==
    LET u == [set(t, IF t.state = "SYN_RCVD" THEN {"SYN", "ACK"} ELSE {"SYN"})
                EXCEPT !.snd_una = 0, !.snd_nxt = 1, !.data_seq_nxt = 1]
        v == [xmit_flag_packet(u, x) EXCEPT !.in_output = @ \/ x = "DEV_TXQ_FULL"]
    IN  IF v.rto_shift = 0 THEN arm(v, "rto") ELSE v

----------------------------------------------------------------------------
(* The application.                                                        *)

tpa_connect_to ==
    /\ ~c.sid /\ ~batch
    /\ c' = [NoConn EXCEPT !.sid = TRUE, !.known = TRUE, !.state = "SYN_SENT", !.in_output = TRUE]
    /\ UNCHANGED batch

\* A connection that ended before it was accepted is dropped from the queue.
tpa_accept_burst ==
    LET valid == c.state \in {"ESTABLISHED", "CLOSE_WAIT"}
    IN  /\ c.in_accept /\ ~batch
        /\ c' = [c EXCEPT !.in_accept = FALSE, !.known = valid, !.dropped = ~valid]
        /\ UNCHANGED batch

\* A byte is written; TSOCK_WRITE_CHECK comes first.
tpa_write ==
    /\ c.sid /\ c.known /\ ~batch
    /\ ~c.close_issued /\ c.err = "NONE" /\ c.state \in {"ESTABLISHED", "CLOSE_WAIT"}
    /\ c.data_seq_nxt <= MaxSend
    /\ c' = [c EXCEPT !.data_seq_nxt = @ + 1, !.in_output = TRUE]
    /\ UNCHANGED batch

\* A packet is read; TSOCK_READ_CHECK comes first.
tpa_zreadv ==
    /\ c.sid /\ c.known /\ ~batch
    /\ ~c.close_issued /\ c.err = "NONE" /\ c.state # "CLOSED"
    /\ c.rxq > 0
    /\ c' = [c EXCEPT !.rxq = @ - 1]
    /\ UNCHANGED batch

tpa_close ==
    /\ c.sid /\ c.known /\ ~batch
    /\ ~c.close_issued
    /\ c' = [c EXCEPT !.close_issued = TRUE, !.in_output = TRUE]
    /\ UNCHANGED batch

----------------------------------------------------------------------------
(* tcp_output: the socket is taken from the output queue.                  *)

\* Unread data is answered with a RST, otherwise a FIN is to follow the data.
tcp_close(t, x) ==
    LET u   == set(t, {"CLOSE_PROCESSED"})
        fin == set(u, {"FIN_PENDING"})
    IN  CASE "CLOSE_PROCESSED" \in t.flags -> t
          [] "CLOSE_PROCESSED" \notin t.flags /\ t.rxq > 0 ->
                tsock_free(xmit_flag_packet(set(tsock_set_state(u, "CLOSED"), {"RST", "ACK"}), x))
          [] OTHER ->
                CASE t.state \in {"SYN_SENT", "CLOSED"} -> tsock_free(u)
                  [] t.state = "SYN_RCVD" ->
                        tsock_set_state([fin EXCEPT !.closed_at_syn_rcvd = TRUE], "FIN_WAIT_1")
                  [] t.state = "ESTABLISHED" -> tsock_set_state(fin, "FIN_WAIT_1")
                  [] t.state = "CLOSE_WAIT" -> tsock_set_state(fin, "LAST_ACK")
                  [] OTHER -> u

\* The window is shut: a probe is due or not.  It repeats an old sequence
\* number, and is repeated for ever.
tcp_zero_wnd_probe(t, due, x) ==
    IF due THEN xmit_flag_packet_with_seq(set(t, {"ACK"}), 0, x) ELSE t

\* n bytes of data get out; their packets acknowledge too, and clear all flags.
tcp_xmit_data(t, n, due, x) ==
    IF t.snd_wnd = 0 THEN tcp_zero_wnd_probe(t, due, x)
    ELSE IF n = 0 THEN t
    ELSE arm([t EXCEPT !.snd_nxt = @ + n, !.out = IF t.snd_nxt + n > @ THEN t.snd_nxt + n ELSE @,
                       !.flags = @ \ (TcpFlags \union {"ACK_NOW"})], "rto")

send_fin_Unarmed(t) == \* mutant: nothing will retransmit the FIN
    set([t EXCEPT !.snd_nxt = t.data_seq_nxt + 1], {"FIN", "ACK", "FIN_SENT"})
send_fin(t) ==
    LET u == set([t EXCEPT !.snd_nxt = t.data_seq_nxt + 1], {"FIN", "ACK", "FIN_SENT"})
    IN  IF t.rto_shift = 0 THEN arm(u, "rto") ELSE u

tcp_output_one(t, n, due, x) ==
    LET u == IF t.close_issued THEN tcp_close(t, x) ELSE t
        d == tcp_xmit_data(u, n, due, x)
        e == IF to_send(d) > 0 THEN [d EXCEPT !.in_output = TRUE]
             ELSE IF "FIN_PENDING" \in d.flags THEN send_fin(d) ELSE d
    IN  CASE u.state = "CLOSED" -> u
          [] u.state \in {"SYN_SENT", "SYN_RCVD"} -> xmit_syn(u, x)
          [] OTHER -> IF e.flags \intersect TcpFlags # {} THEN xmit_flag_packet(e, x) ELSE e

\* n counts if the window is open, due if it is shut.
tcp_output(n, due, x) ==
    /\ c.in_output /\ ~batch
    /\ n <= to_send(c) /\ (c.snd_wnd = 0 => n = 0) /\ (due => c.snd_wnd = 0)
    /\ c' = tcp_output_one([c EXCEPT !.in_output = FALSE], n, due, x)
    /\ UNCHANGED batch

----------------------------------------------------------------------------
(* tcp_input.  A segment is [flags, seq, len, ack].                        *)

tsock_set_ack_flag(t) == set(t, {"ACK", "ACK_NOW"})

tsock_established(t, s, wnd) ==
    raise(tsock_set_state(
              tsock_rearm_timer_keepalive([t EXCEPT !.snd_una = s.ack, !.snd_wnd = wnd,
                                                    !.rto_shift = 0, !.timers = @ \ {"rto"}]),
              "ESTABLISHED"), "OUT")

tcp_rcv_rst_Silent(t) == \* mutant: the application is not told
    LET err == CASE t.state = "SYN_SENT" -> "ECONNREFUSED"
                 [] t.state \in {"ESTABLISHED", "FIN_WAIT_1", "FIN_WAIT_2", "CLOSE_WAIT"} -> "ECONNRESET"
                 [] OTHER -> t.err
        put == t.state \in {"CLOSING", "LAST_ACK", "TIME_WAIT"} \/ t.close_issued
    IN  tsock_set_state(set([t EXCEPT !.err = err], IF put THEN {"PUT"} ELSE {}), "CLOSED")
tcp_rcv_rst_Put(t) == \* mutant: the socket is always given back
    tsock_set_state(raise(set([t EXCEPT !.err = "ECONNRESET"], {"PUT"}), "ERR"), "CLOSED")
tcp_rcv_rst_Keep(t) == \* mutant: a connection that is not accepted yet is kept for the application
    LET refused == t.state \in {"SYN_SENT", "SYN_RCVD"}
        err == CASE refused -> "ECONNREFUSED"
                 [] t.state \in {"ESTABLISHED", "FIN_WAIT_1", "FIN_WAIT_2", "CLOSE_WAIT"} -> "ECONNRESET"
                 [] OTHER -> t.err
        put == t.state \in {"CLOSING", "LAST_ACK", "TIME_WAIT"}
        u   == set([t EXCEPT !.err = err], IF put THEN {"PUT"} ELSE {})
    IN  IF t.state = "CLOSED" THEN t
        ELSE tsock_set_state(IF t.close_issued THEN set(u, {"PUT"}) ELSE raise(u, "ERR"), "CLOSED")
tcp_rcv_rst(t) ==
    LET refused  == t.state = "SYN_SENT" \/ (t.state = "SYN_RCVD" /\ ~t.passive_connection)
        to_close == t.state = "SYN_RCVD" /\ t.passive_connection
        err == CASE refused -> "ECONNREFUSED"
                 [] t.state \in {"ESTABLISHED", "FIN_WAIT_1", "FIN_WAIT_2", "CLOSE_WAIT"} -> "ECONNRESET"
                 [] OTHER -> t.err
        put == t.state \in {"CLOSING", "LAST_ACK", "TIME_WAIT"}
        u   == set([t EXCEPT !.err = err], IF put THEN {"PUT"} ELSE {})
    IN  IF t.state = "CLOSED" THEN t
        ELSE tsock_set_state(IF t.close_issued \/ to_close THEN set(u, {"PUT"}) ELSE raise(u, "ERR"),
                             "CLOSED")

tcp_rcv_pkt_at_syn_sent(t, s, wnd, x) ==
    CASE "ACK" \in s.flags /\ (s.ack = 0 \/ s.ack > t.snd_nxt) ->    \* half-open: RST, then SYN again
            [xmit_flag_packet(set(t, {"RST"}), x) EXCEPT !.in_output = TRUE]
      [] "ACK" \in s.flags /\ s.ack \in 1 .. t.snd_nxt /\ "RST" \in s.flags -> tcp_rcv_rst(t)
      [] {"SYN", "ACK"} = s.flags /\ s.ack \in 1 .. t.snd_nxt ->
            tsock_set_ack_flag(tsock_established([t EXCEPT !.rcv_nxt = s.seq + 1], s, wnd))
      [] OTHER -> t

\* Our FIN is acknowledged.
fin_acked(t) ==
    LET u == [t EXCEPT !.flags = @ \ {"FIN_PENDING"}]
    IN  CASE t.state = "FIN_WAIT_1" -> tsock_set_state(u, "FIN_WAIT_2")
          [] t.state = "CLOSING" -> tsock_set_state(u, "TIME_WAIT")
          [] t.state = "LAST_ACK" -> tsock_set_state(set(u, {"PUT"}), "CLOSED")
          [] OTHER -> u

\* Unacknowledged data goes out again if it can, which clears all flags.
tcp_retrans(t, again) ==
    IF again /\ t.snd_una > 0 /\ t.snd_una < t.snd_nxt /\ t.snd_una < t.data_seq_nxt
    THEN [t EXCEPT !.flags = @ \ (TcpFlags \union {"ACK_NOW"})] ELSE t

tcp_rcv_ack_AnyAck(t, s, e) == \* mutant: an acknowledgement of data is taken for one of the FIN
    LET fin   == "FIN_SENT" \in t.flags
        u     == IF fin THEN fin_acked(t) ELSE t
        acked == s.ack - t.snd_una - (IF fin /\ s.ack = t.snd_nxt THEN 1 ELSE 0)
        w     == [u EXCEPT !.snd_wnd = e.wnd]
        v     == IF acked > 0
                 THEN raise(arm([w EXCEPT !.snd_una = @ + acked, !.rto_shift = 0], "rto"), "OUT") ELSE w
    IN  CASE s.ack < t.snd_una -> t
          [] s.ack >= t.snd_una /\ t.state = "SYN_RCVD" ->
                [tsock_established(t, s, e.wnd) EXCEPT !.in_accept = TRUE]
          [] OTHER -> IF v.snd_una = v.snd_nxt THEN [v EXCEPT !.timers = @ \ {"rto"}] ELSE v
\* The acknowledgement of the FIN is not counted in snd_una.
tcp_rcv_ack(t, s, e) ==
    LET fin   == "FIN_SENT" \in t.flags /\ s.ack = t.snd_nxt
        u     == IF fin THEN fin_acked(t) ELSE t
        less  == (IF t.closed_at_syn_rcvd THEN 1 ELSE 0) + (IF fin THEN 1 ELSE 0)
        acked == s.ack - t.snd_una
        w     == [u EXCEPT !.snd_wnd = e.wnd]
        v     == IF acked > less
                 THEN raise(arm([w EXCEPT !.snd_una = @ + (acked - less), !.rto_shift = 0], "rto"), "OUT")
                 ELSE w
    IN  CASE s.ack < t.snd_una -> t
          [] s.ack >= t.snd_una /\ t.state = "SYN_RCVD" ->
                [tsock_established(t, s, e.wnd) EXCEPT !.in_accept = TRUE]
          [] OTHER -> IF v.snd_una = v.snd_nxt THEN [v EXCEPT !.timers = @ \ {"rto"}]
                      ELSE tcp_retrans(v, e.again)

rxq_full_Never(t) == FALSE \* mutant: no look at the free count
rxq_full(t) == t.rxq = RxqSize

\* Only a FIN without data moves rcv_nxt.  A delayed ACK is due at once or later.
tcp_rcv_data(t, s, now) ==
    IF s.len = 0
    THEN IF "FIN" \in s.flags /\ s.seq = t.rcv_nxt THEN [t EXCEPT !.rcv_nxt = @ + 1] ELSE t
    ELSE LET u == set(t, IF now THEN {"ACK", "ACK_NOW"} ELSE {"ACK"})
         IN  IF rxq_full(t) THEN u
             ELSE raise([u EXCEPT !.rxq = @ + 1, !.rcv_nxt = @ + s.len], "IN")

tcp_rcv_fin(t, s) ==
    LET u == raise(set(t, {"EOF"}), "IN")
        v == CASE t.state \in {"SYN_RCVD", "ESTABLISHED"} -> tsock_set_state(u, "CLOSE_WAIT")
               [] t.state = "FIN_WAIT_1" -> tsock_set_state(u, "CLOSING")
               [] t.state = "FIN_WAIT_2" -> tsock_set_state(u, "TIME_WAIT")
               [] OTHER -> u
    IN  IF "FIN" \in s.flags THEN tsock_set_ack_flag(v) ELSE t

\* Segment text and FIN, after the acknowledgement was dealt with.
text_and_fin(t, s, now) ==
    IF t.state \in {"ESTABLISHED", "FIN_WAIT_1", "FIN_WAIT_2"}
    THEN LET d == tcp_rcv_data(t, s, now)
         IN  IF s.len > 0 /\ rxq_full(t) THEN d ELSE tcp_rcv_fin(d, s)
    ELSE IF s.len # 0 THEN t ELSE tcp_rcv_fin(t, s)

validate_seq(t, s) == (s.len = 0 /\ s.seq = t.rcv_nxt) \/ s.seq + s.len > t.rcv_nxt

tcp_rcv_pkt(t, s, e) ==
    LET k == tsock_rearm_timer_keepalive(t)
        a == tcp_rcv_ack(k, s, e)
    IN  CASE t.state = "CLOSED" ->
                IF "RST" \in s.flags THEN t ELSE xmit_flag_packet(set(t, {"RST"}), e.x)
          [] t.state = "SYN_SENT" -> tcp_rcv_pkt_at_syn_sent(t, s, e.wnd, e.x)
          [] OTHER ->
                CASE ~validate_seq(t, s) -> IF "RST" \in s.flags THEN k ELSE tsock_set_ack_flag(k)
                  [] validate_seq(t, s) /\ "RST" \in s.flags -> tcp_rcv_rst(k)
                  [] validate_seq(t, s) /\ "RST" \notin s.flags /\ "SYN" \in s.flags -> tsock_set_ack_flag(k)
                  [] OTHER -> IF a.state = "CLOSED" THEN a ELSE text_and_fin(a, s, e.now)

ack_now(t, x) == IF "ACK_NOW" \in t.flags THEN xmit_flag_packet(t, x) ELSE t
tcp_rcv_process(t, s, e) == ack_now(tcp_rcv_pkt(t, s, e), e.x)

(* What the peer may send: it answers what went out, and sends its stream, *)
(* again if need be (whatever it sends again is answered the same way: one *)
(* such segment stands for all).  A peer that still has an old connection  *)
(* answers our SYN with an acknowledgement of something else (0).          *)
seg(f, q, n, a) == [flags |-> f, seq |-> q, len |-> n, ack |-> a]
acks == 1 .. c.out
rcv_seqs == {c.rcv_nxt} \union (IF "EOF" \in c.flags THEN {MaxRecv + 2} ELSE {})

Segments ==
    CASE c.state = "SYN_SENT" ->
            {s \in {seg({"SYN", "ACK"}, 0, 0, 1), seg({"RST", "ACK"}, 0, 0, 1), seg({"ACK"}, 0, 0, 0)} :
                c.out > 0}
      [] c.passive_connection /\ c.out = 0 -> {seg({"SYN"}, 0, 0, 0)}
      [] OTHER ->
            {seg({"SYN"}, 0, 0, 0)}
            \union {s \in {seg({"ACK"}, 1, 1, 1)} : c.rcv_nxt > 1}
            \union {seg({"RST", "ACK"}, c.rcv_nxt, 0, a) : a \in acks}
            \union {s \in {seg({"ACK"}, q, 0, a) : q \in rcv_seqs, a \in acks}
                    \union {seg({"ACK"}, q, 1, a) : q \in 1 .. MaxRecv, a \in acks}
                    \union {seg({"ACK", "FIN"}, MaxRecv + 1 - n, n, a) : n \in 0 .. 1, a \in acks} :
                  s.seq \in rcv_seqs}

\* The choices that matter to the segment.
EnvOf(s) ==
    {e \in Env : /\ s.len = 0 => e.now
                 /\ c.snd_una >= c.data_seq_nxt => ~e.again
                 /\ s.ack < c.snd_una \/ "RST" \in s.flags \/ c.state = "CLOSED" => e.wnd = c.snd_wnd}

tcp_input(s, e) ==
    /\ c.sid
    /\ c' = tcp_rcv_process(c, s, e)
    /\ batch' = TRUE

\* The loop over the sockets of the batch.
tcp_input_end(x) ==
    /\ batch
    /\ LET u == CASE {"ACK", "ACK_NOW"} \subseteq c.flags -> xmit_flag_packet(c, x)
                  [] "ACK" \in c.flags /\ "ACK_NOW" \notin c.flags -> [c EXCEPT !.in_delayed_ack = TRUE]
                  [] OTHER -> c
       IN  c' = IF "PUT" \in u.flags THEN tsock_free(u) ELSE u
    /\ batch' = FALSE

\* A SYN at the listening socket.
tcp_rcv_pkt_at_listen(x) ==
    /\ ~c.sid /\ ~batch
    /\ c' = xmit_syn([NoConn EXCEPT !.sid = TRUE, !.passive_connection = TRUE, !.rcv_nxt = 1,
                                    !.state = "SYN_RCVD"], x)
    /\ UNCHANGED batch

----------------------------------------------------------------------------
(* Time.                                                                   *)

\* The node is taken from the queue whether or not the ACK got out.
tcp_flush_delayed_ack(x) ==
    /\ c.in_delayed_ack /\ ~batch
    /\ c' = [IF "ACK" \in c.flags THEN xmit_flag_packet(c, x) ELSE c EXCEPT !.in_delayed_ack = FALSE]
    /\ UNCHANGED batch

\* The connection is over: an application that still holds it is told.
give_up(t, to_close) ==
    LET u == tsock_set_state([t EXCEPT !.err = "ETIMEDOUT"], "CLOSED")
    IN  IF t.close_issued \/ to_close THEN tsock_free(u) ELSE raise(u, "ERR")

tcp_timeout_rto_Patient(t, again) == \* mutant: only a connect is given up
    LET opening == t.state \in {"SYN_SENT", "SYN_RCVD"}
        u       == [t EXCEPT !.rto_shift = IF opening \/ @ + 1 < retries THEN @ + 1 ELSE @]
    IN  IF opening /\ u.rto_shift >= syn_retries THEN give_up(u, t.state = "SYN_RCVD")
        ELSE [tcp_retrans(arm(u, "rto"), again) EXCEPT !.in_output = TRUE]
tcp_timeout_rto_NoSynLimit(t, again) == \* mutant: a connect is never given up
    LET opening == t.state \in {"SYN_SENT", "SYN_RCVD"}
        u       == [t EXCEPT !.rto_shift = IF opening /\ @ + 1 >= syn_retries THEN @ ELSE @ + 1]
    IN  IF ~opening /\ u.rto_shift >= retries THEN give_up(u, FALSE)
        ELSE [tcp_retrans(arm(u, "rto"), again) EXCEPT !.in_output = TRUE]
tcp_timeout_rto(t, again) ==
    LET opening == t.state \in {"SYN_SENT", "SYN_RCVD"}
        limit   == IF opening THEN syn_retries ELSE retries
        u       == [t EXCEPT !.rto_shift = @ + 1]
    IN  IF u.rto_shift >= limit THEN give_up(u, t.state = "SYN_RCVD")
        ELSE [tcp_retrans(arm(u, "rto"), again) EXCEPT !.in_output = TRUE]

tcp_timeout_keepalive_Once(t, x) == \* mutant: a single probe
    LET u == [t EXCEPT !.keepalive_shift = @ + 1]
    IN  IF t.keepalive_shift >= retries THEN give_up(u, FALSE)
        ELSE IF t.state = "ESTABLISHED" THEN xmit_flag_packet(set(u, {"ACK"}), x)
        ELSE u
tcp_timeout_keepalive(t, x) ==
    LET u == [t EXCEPT !.keepalive_shift = @ + 1]
    IN  IF t.keepalive_shift >= retries THEN give_up(u, FALSE)
        ELSE IF t.state = "ESTABLISHED" THEN arm(xmit_flag_packet(set(u, {"ACK"}), x), "keepalive")
        ELSE u

\* A timer that fires on a CLOSED socket is ignored.
tcp_timeout(w, again, x) ==
    /\ w \in c.timers /\ ~batch
    /\ LET t == [c EXCEPT !.timers = @ \ {w}]
       IN  c' = CASE t.state = "CLOSED" -> t
                  [] t.state # "CLOSED" /\ w = "rto" -> tcp_timeout_rto(t, again)
                  [] t.state # "CLOSED" /\ w = "wait" -> tsock_free(tsock_set_state(t, "CLOSED"))
                  [] t.state # "CLOSED" /\ w = "keepalive" -> tcp_timeout_keepalive(t, x)
    /\ UNCHANGED batch

----------------------------------------------------------------------------
Next ==
    \/ tpa_connect_to
    \/ tpa_accept_burst
    \/ tpa_write
    \/ tpa_zreadv
    \/ tpa_close
    \/ \E s \in Segments : \E e \in EnvOf(s) : tcp_input(s, e)
    \/ \E x \in Xmit : tcp_input_end(x) \/ tcp_rcv_pkt_at_listen(x) \/ tcp_flush_delayed_ack(x)
    \/ \E n \in 0 .. MaxSend, due \in BOOLEAN, x \in Xmit : tcp_output(n, due, x)
    \/ \E again \in BOOLEAN : tcp_timeout("rto", again, "OK")
    \/ \E x \in Xmit : tcp_timeout("keepalive", FALSE, x)
    \/ tcp_timeout("wait", FALSE, "OK")

Spec == Init /\ [][Next]_vars
----------------------------------------------------------------------------
(* Properties.                                                             *)

\* Every field holds a value of its kind, within the bounds.
TypeOK ==
    /\ batch \in BOOLEAN /\ c.dropped \in BOOLEAN
    /\ c.state \in States /\ c.err \in {"NONE", "ECONNREFUSED", "ECONNRESET", "ETIMEDOUT"}
    /\ c.flags \subseteq Flags /\ c.timers \subseteq Timers /\ c.events \subseteq {"IN", "OUT", "ERR"}
    /\ c.data_seq_nxt \in 0 .. MaxSend + 1 /\ c.snd_wnd \in 0 .. 1 /\ c.snd_nxt \in 0 .. MaxSend + 2
    /\ c.snd_una \in 0 .. c.snd_nxt /\ c.out \in 0 .. c.snd_nxt
    /\ c.rcv_nxt \in 0 .. MaxRecv + 2 /\ c.rxq \in 0 .. RxqSize
    /\ c.rto_shift \in 0 .. retries + syn_retries /\ c.keepalive_shift \in 0 .. retries + 1

\* No packet and no timer takes a socket from an application that holds its
\* sid: tsock_free is only called on sockets that were closed (close_issued)
\* or never handed out, whoever calls it.
SidStable == [][c.sid /\ ~c'.sid => c.close_issued \/ ~c.known]_vars

\* A connection that ended under the application (RST, retransmission or
\* keepalive given up) left it an error, and woke it with TPA_EVENT_ERR.
CloseLearned ==
    c.sid /\ c.known /\ ~c.close_issued /\ c.state = "CLOSED" => c.err # "NONE" /\ "ERR" \in c.events

\* A socket that no application holds is on the way to one (the accept queue)
\* or to tsock_free: TSOCK_FLAG_PUT in a batch that is still to end, or the
\* retransmission timer in SYN_RCVD.  A RST, a time-out or a packet that did
\* not get out leaves none behind.  The one exception is in the code: a
\* connection that ended in the accept queue is skipped by tpa_accept_burst,
\* and nothing frees it after that (dropped).
Reclaimable ==
    c.sid /\ ~c.known =>
        \/ c.in_accept
        \/ "PUT" \in c.flags /\ batch
        \/ c.state = "SYN_RCVD" /\ "rto" \in c.timers
        \/ c.dropped

\* Whatever the peer has yet to acknowledge (SYN, data, FIN) will be sent
\* again: the retransmission timer runs, or the socket is in the output queue.
\* timer_rto is started and stopped in seven places.
UnackedArmed ==
    c.sid /\ (\/ c.state \in {"SYN_SENT", "SYN_RCVD", "FIN_WAIT_1", "CLOSING", "LAST_ACK"}
              \/ c.state # "CLOSED" /\ c.snd_una < c.data_seq_nxt)
        => "rto" \in c.timers \/ c.in_output

\* FIN_WAIT_2 and TIME_WAIT are only reached when the peer has acknowledged all
\* data and the FIN after it: tcp_rcv_ack takes an acknowledgement for one of
\* the FIN by comparing it with a snd_nxt that data, FIN and timers all move.
FinAckedLast ==
    c.state \in {"FIN_WAIT_2", "TIME_WAIT"} =>
        c.snd_una = c.data_seq_nxt /\ c.snd_nxt = c.data_seq_nxt + 1

\* Once the FIN of the peer was taken it is counted in rcv_nxt, which is what
\* our packets acknowledge.
FinCounted == "EOF" \in c.flags => c.rcv_nxt = MaxRecv + 2

\* TIME_WAIT ends by its own timer (tcp.time_wait) or by a RST, not because a
\* retransmission was given up: all we sent is acknowledged.
TimeWaitKept == [][c.state = "TIME_WAIT" /\ ~c'.sid => c'.err # "ETIMEDOUT"]_vars
============================================================================
