CONSTANTS
    SEQ = 16
    ISS = 14
    StreamLen = 4
    TxqSize = 4
    UINT16 = 8
    NR_DESC = 4
    WRITE_CHUNK_SIZE = 2
    MBUF_ROOM = 1
    Writes <- LiveWrites
    MaxXmit = 2
SPECIFICATION LiveSpec
INVARIANT BelievesOnlyHeld
PROPERTY AllAcked
