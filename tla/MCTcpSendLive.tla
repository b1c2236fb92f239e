---------------------------- MODULE MCTcpSendLive ---------------------------
(* TcpSendLive with a stream of three or four one-byte descriptors.        *)
EXTENDS TcpSendLive

LiveWrites == {<<[len |-> 1, phys |-> TRUE], [len |-> 1, phys |-> TRUE]>>}
=============================================================================
