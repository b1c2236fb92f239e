CONSTANTS
    SEQ = 16
    ISS = 14
    StreamLen = 4
    TxqSize = 4
    UINT16 = 8
    NR_DESC = 3
    WRITE_CHUNK_SIZE = 2
    MBUF_ROOM = 1
    Writes <- SmallWrites
    MaxXmit = 2
SPECIFICATION Spec
INVARIANTS TypeOK TxqMatchesSequence SackedBytesExact RetransPointerUsable NothingForgotten DescsConserved WriteDoneOnce
