CONSTANTS
    SEQ = 16
    ISN = 13
    StreamLen = 5
    MaxLen = 2
    RxqSize = 1
    WndInit = 4
    rcv_ooo_limit = 2
    TCP_MAX_NR_SACK_BLOCK = 2
    FinInOrder = TRUE
SPECIFICATION LiveSpec
PROPERTY AllDelivered
