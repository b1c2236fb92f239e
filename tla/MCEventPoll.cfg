CONSTANTS
    Sock = {s1, s2}
    Receiver = {s1}
    Sender = {s1}
    RxqSize = 1
    TxqSize = 1
    PollMax = 1
SPECIFICATION Spec
INVARIANTS TypeOK NoLostWakeup QueueSound ReaderNotStranded WriterNotForgotten
PROPERTY EventuallyReported
