CONSTANTS
    SEQ = 16
    ISN = 13
    StreamLen = 5
    MaxLen = 2
    RxqSize = 1
    WndInit = 5
    rcv_ooo_limit = 1
    TCP_MAX_NR_SACK_BLOCK = 3
    FinInOrder = FALSE
SPECIFICATION Spec
INVARIANT SackOnlyHeld
