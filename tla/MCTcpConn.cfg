SPECIFICATION LiveSpec
CONSTANTS
    MaxSend = 1
    MaxRecv = 2
    RxqSize = 1
    retries = 2
    syn_retries = 2
INVARIANTS
    TypeOK
    CloseLearned
    Reclaimable
    UnackedArmed
    FinAckedLast
PROPERTIES
    SidStable
    CloseCompletes
    ConnectSettles
    SilentPeerNoticed
