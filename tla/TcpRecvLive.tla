---------------------------- MODULE TcpRecvLive -----------------------------
(***************************************************************************)
(* TcpRecv with a peer that retransmits and an application that reads.     *)
(* beat turns over with every retransmission, so that one which changes    *)
(* nothing at the receiver counts as a step as well.                       *)
(***************************************************************************)
EXTENDS TcpRecv

VARIABLE beat

liveVars == <<vars, beat>>

\* The peer sends the first bytes again that were not acknowledged.
Retransmit ==
    /\ \E n \in 1 .. MaxLen : Receive(received, n, FALSE)
    /\ beat' = ~ beat

ReadAll == tsock_zreadv(unread(rcv)) /\ UNCHANGED beat

LiveInit == Init /\ beat = FALSE
LiveNext == (Next /\ UNCHANGED beat) \/ Retransmit

(***************************************************************************)
(* Weak fairness of Retransmit (which is enabled exactly while bytes are   *)
(* missing): the peer's retransmission timer.  Weak fairness of ReadAll:   *)
(* the application's read loop.                                            *)
(***************************************************************************)
Fairness ==
    /\ []<>(received = StreamLen) \/ []<><<Retransmit>>_liveVars
    /\ WF_liveVars(ReadAll)

LiveSpec == LiveInit /\ [][LiveNext]_liveVars /\ Fairness

(***************************************************************************)
(* Every byte of the stream is delivered in the end, as long as the peer   *)
(* retransmits and the application reads: a full receive queue, a closed   *)
(* window, dropped out-of-order packets or packets parked in order in the  *)
(* out-of-order queue only delay it (the comment in ooo_queue_drain).      *)
(***************************************************************************)
AllDelivered == <>(consumed = StreamLen)
=============================================================================
