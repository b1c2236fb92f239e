------------------------------ MODULE MCTcpSend -----------------------------
(* TcpSend with a stream of four bytes that crosses the wrap of the        *)
(* sequence space.                                                         *)
EXTENDS TcpSend

iov(len, phys) == [len |-> len, phys |-> phys]

\* One descriptor, after an empty iovec; two mbufs; a chunked iovec with a
\* plain one.
SmallWrites ==
    {<<iov(0, TRUE), iov(1, TRUE)>>, <<iov(2, FALSE)>>, <<iov(1, TRUE), iov(3, TRUE)>>}
=============================================================================
