CONSTANTS
    SEQ = 32
    ISN = 29
    StreamLen = 6
    MaxLen = 3
    RxqSize = 2
    WndInit = 6
    rcv_ooo_limit = 3
    TCP_MAX_NR_SACK_BLOCK = 2
    FinInOrder = FALSE
SPECIFICATION Spec
INVARIANTS TypeOK StreamIntegrity  OooWellFormed SackTruthful NoStaleText
PROPERTY DrainedAsFarAsPossible
