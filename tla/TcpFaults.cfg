SPECIFICATION Spec
CONSTANTS
    N = 4
    Pcbs = {p1, p2}
    NULL = NULL
    QueueSize = 1
    Length <- MCMixedLength
    Expected <- MCExpected
    ReplyLen <- MCOneByte
    SndBuf = 2
    RcvBuf = 1
    Timeout = 2
    ByteMod = 4
    Faults <- MCAllFaults
INVARIANTS TypeOK OneOutstanding CalledAtMostOnce HeldNotCalled
PROPERTY ImplementsFifo
CHECK_DEADLOCK FALSE
