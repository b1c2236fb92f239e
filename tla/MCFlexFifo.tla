----------------------------- MODULE MCFlexFifo -----------------------------
(* FlexFifo with a ring of two entries, four nodes and two-bit cursors, so *)
(* that the ring fills, spills into the list, drains and wraps.            *)
EXTENDS FlexFifo
=============================================================================
