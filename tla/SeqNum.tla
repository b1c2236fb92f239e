------------------------------- MODULE SeqNum -------------------------------
(***************************************************************************)
(* TCP sequence numbers (include/tcp.h): unsigned integers modulo SEQ,     *)
(* 2^32 in the code, compared by the sign of their difference.             *)
(***************************************************************************)
EXTENDS Integers

CONSTANT SEQ    \* size of the sequence space

ASSUME SeqAssumption == SEQ \in Nat /\ SEQ > 1 /\ SEQ % 2 = 0

SeqNumber == 0 .. SEQ - 1

seq_add(a, n) == (a + n) % SEQ

\* (int)(a - b)
seq_diff(a, b) ==
    LET d == (a - b) % SEQ IN IF d < SEQ \div 2 THEN d ELSE d - SEQ

seq_lt(a, b) == seq_diff(a, b) < 0
seq_le(a, b) == seq_diff(a, b) <= 0
seq_gt(a, b) == seq_diff(a, b) > 0
seq_ge(a, b) == seq_diff(a, b) >= 0
=============================================================================
