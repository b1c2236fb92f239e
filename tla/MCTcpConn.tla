------------------------------ MODULE MCTcpConn -----------------------------
(* Model checking of TcpConn and TcpConnLive. *)
EXTENDS TcpConnLive
============================================================================
