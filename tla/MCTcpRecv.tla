------------------------------ MODULE MCTcpRecv -----------------------------
(* TcpRecv with a stream that crosses the end of a small sequence space,   *)
(* a window smaller than the stream and queues that fill up.               *)
EXTENDS TcpRecv
=============================================================================
