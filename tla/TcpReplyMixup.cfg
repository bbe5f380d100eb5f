SPECIFICATION Spec
CONSTANTS
    N = 3
    Pcbs = {p1, p2}
    NULL = NULL
    QueueSize = 3
    Length <- MCOneByte
    Expected <- MCExpected
    ReplyLen <- MCOneByte
    SndBuf = 3
    RcvBuf = 2
    Timeout = 2
    ByteMod = 4
    Faults = {}
INVARIANT RepliesMatch
CHECK_DEADLOCK FALSE
