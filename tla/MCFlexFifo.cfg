CONSTANTS
    Node = {n1, n2, n3, n4}
    NULL = NULL
    RING_MAX_SIZE = 2
    Size = 2
    UINT = 4
SPECIFICATION Spec
INVARIANTS TypeOK MarksExact
PROPERTY RefinesFifo
