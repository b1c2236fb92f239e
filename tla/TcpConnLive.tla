----------------------------- MODULE TcpConnLive ----------------------------
(***************************************************************************)
(* What eventually happens to a connection.  The worker loop               *)
(* (tpa_worker_run) drains its queues and fires the timers that are due:   *)
(* a batch of packets ends, the output queue is served and now and then    *)
(* buffers and the device have room, and timers that run and are not       *)
(* started again fire.  timer_wait is started once; timer_rto is started   *)
(* again only by an acknowledgement of new data, by our own data or FIN,   *)
(* and by each SYN; timer_keepalive by every packet of the peer, so that   *)
(* nothing is assumed of it in general.  Nothing is assumed of the peer:   *)
(* what a property needs of it is a premise of that property.              *)
(***************************************************************************)
EXTENDS TcpConn

\* All that the window lets out gets out.
output_all == \E due \in BOOLEAN : tcp_output(IF c.snd_wnd = 0 THEN 0 ELSE to_send(c), due, "OK")

LiveSpec ==
    /\ Spec
    /\ []<>~batch \/ []<><<\E x \in Xmit : tcp_input_end(x)>>_vars
    /\ []<>~c.in_output \/ []<><<output_all>>_vars
    /\ []<>("rto" \notin c.timers) \/ []<><<\E again \in BOOLEAN : tcp_timeout("rto", again, "OK")>>_vars
    /\ []<>("wait" \notin c.timers) \/ []<><<tcp_timeout("wait", FALSE, "OK")>>_vars

\* From some time on the peer's window is not shut while data waits for it.
WindowOpens == <>[](c.snd_wnd > 0 \/ to_send(c) = 0)

\* tpa_close is the end: whatever the peer sends, resends or leaves out, and
\* whichever packets of ours are lost, the socket is freed.  The one thing it
\* must not do is to keep its window shut on data written before the close:
\* tcp_zero_wnd_probe has no limit, timer_rto does not run and after the close
\* timer_keepalive is not started again, so that the code never gives up.
CloseCompletes == WindowOpens => (c.close_issued ~> ~c.sid)

\* From some time on no packet for a connecting socket leaves it as it is
\* (each of them makes us send another SYN, which starts timer_rto again).
HalfOpenStops == <>[][~(c.state = "SYN_SENT" /\ c'.state = "SYN_SENT" /\ batch')]_vars

\* A connect is answered, refused or given up (tcp.syn_retries).
ConnectSettles == HalfOpenStops => (c.state = "SYN_SENT" ~> c.state # "SYN_SENT")

KeepaliveFires ==
    []<>("keepalive" \notin c.timers) \/ []<><<\E x \in Xmit : tcp_timeout("keepalive", FALSE, x)>>_vars

\* An established connection whose peer has gone silent does not stay that
\* way: the keepalive probes or the retransmissions are given up, even when
\* data waits for a window that the peer will never open.
SilentPeerNoticed ==
    <>[]~batch /\ KeepaliveFires => (c.state = "ESTABLISHED" ~> c.state # "ESTABLISHED")
============================================================================
