---------------------------- MODULE MCTcpRecvLive ---------------------------
(* TcpRecvLive with a receive queue of one packet, so that packets are     *)
(* often left behind in the out-of-order queue.                            *)
EXTENDS TcpRecvLive
=============================================================================
