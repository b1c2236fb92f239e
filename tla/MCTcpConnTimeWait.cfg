SPECIFICATION Spec
CONSTANTS
    MaxSend = 1
    MaxRecv = 2
    RxqSize = 1
    retries = 2
    syn_retries = 2
PROPERTY
    TimeWaitKept
