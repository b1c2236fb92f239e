---------------------------- MODULE TcpSendLive -----------------------------
(***************************************************************************)
(* TcpSend with a network that loses segments and a peer that acknowledges *)
(* what it holds, cumulatively and with SACK blocks.  The bytes of a       *)
(* transmission reach the peer or are lost; acknowledgements may be old.   *)
(***************************************************************************)
EXTENDS TcpSend

VARIABLES
    got,    \* the offsets of the bytes the peer holds
    beat    \* turns over with every time-out and every acknowledgement

liveVars == <<vars, got, beat>>

\* The first byte the peer misses.
Missing == Min({i \in 0 .. StreamLen : i \notin got})

Bytes(from, to) == {Offset(from) + i : i \in 0 .. seq_diff(to, from) - 1}

\* The offsets of the bytes retransmitted by a step: from the pointer it
\* found (or reset) to the one it left, without the SACKED descriptors.
Retransmitted(from) ==
    Bytes(from, tsock'.retrans.seq)
      \ UNION {Bytes(d.seq, desc_end(d)) : d \in {e \in Unfinished' : e.sacked}}

Arrives(bytes) == \E X \in SUBSET bytes : got' = got \union X

LiveWrite == Write /\ UNCHANGED <<got, beat>>

LiveOutput(k) ==
    /\ tcp_output([k |-> k, begun |-> FALSE])
    /\ Arrives(Bytes(tsock.nxt, tsock'.nxt))
    /\ UNCHANGED beat

LiveRto(k) ==
    /\ tcp_timeout_rto([k |-> k, begun |-> FALSE])
    /\ Arrives(Retransmitted(tsock.una))
    /\ beat' = ~ beat

\* A byte that was missing arrives with this time-out's retransmission.
LiveRtoArrives ==
    \E k \in 1 .. MaxXmit : LiveRto(k) /\ Offset(tsock.una) \in got'

\* The peer's SACK block: a run of bytes it holds above the first gap.
PeerSacks ==
    {{}} \union
    {{[start |-> seq_add(ISS, i), end |-> seq_add(ISS, j + 1)]} :
        <<i, j>> \in {p \in got \X got : Missing < p[1] /\ p[1] <= p[2] /\ p[1] .. p[2] \subseteq got}}

PeerAcks(n, dup, x) ==
    /\ n <= Missing
    /\ dup => seq_add(ISS, n) = tsock.una
    /\ tsock.retrans_stage = "NONE" /\ ~ dup => x = 0
    /\ \E blocks \in PeerSacks :
         tcp_rcv_ack(seq_add(ISS, n), blocks, dup, FALSE, [k |-> x, begun |-> FALSE])
    /\ LET entered == tsock'.retrans_stage = "FAST_RETRANS" /\ tsock.retrans_stage = "NONE"
           stale == seq_lt(tsock.retrans.seq, tsock'.una)
       IN  IF x = 0 THEN UNCHANGED got
           ELSE Arrives(Retransmitted(IF entered \/ stale THEN tsock'.una ELSE tsock.retrans.seq))
    /\ beat' = ~ beat

PeerAcksAll == PeerAcks(Missing, FALSE, 0)

LiveInit == Init /\ got = {} /\ beat = FALSE

LiveNext ==
    \/ LiveWrite
    \/ \E k \in 0 .. MaxXmit : LiveOutput(k) \/ LiveRto(k)
    \/ \E n \in 0 .. StreamLen, dup \in BOOLEAN, x \in 0 .. MaxXmit : PeerAcks(n, dup, x)

(***************************************************************************)
(* Fairness.  The worker runs: a socket on the output queue is served and  *)
(* now and then a byte gets out.  A retransmission timer that stays armed  *)
(* fires, and if it does so over and over the network lets the oldest byte *)
(* through.  The peer acknowledges all it holds over and over.             *)
(***************************************************************************)
Fairness ==
    /\ WF_liveVars(LiveOutput(1))
    /\ []<>~ tsock.timer_rto \/ []<><<LiveRtoArrives>>_liveVars
    /\ []<>(tsock.una = seq_add(ISS, Missing)) \/ []<><<PeerAcksAll>>_liveVars

LiveSpec == LiveInit /\ [][LiveNext]_liveVars /\ Fairness

(***************************************************************************)
(* The sender believes only what the peer said: bytes of SACKED            *)
(* descriptors, which a fast retransmit skips, and bytes below snd_una,    *)
(* whose buffers went back to the application, are held by the peer.       *)
(***************************************************************************)
BelievesOnlyHeld ==
    /\ \A i \in 0 .. Offset(tsock.una) - 1 : i \in got
    /\ \A d \in Unfinished : d.sacked => Bytes(d.seq, desc_end(d)) \subseteq got

(***************************************************************************)
(* All that was written is acknowledged in the end, over lost segments,    *)
(* lost acknowledgements and fast retransmits entered and left, and then   *)
(* every descriptor is back in the pool.                                   *)
(***************************************************************************)
AllAcked == (tsock.una # tsock.data_seq_nxt) ~> (tsock.una = tsock.data_seq_nxt /\ worker.pool = NR_DESC)
=============================================================================
