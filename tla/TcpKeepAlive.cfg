SPECIFICATION FairSpec
CONSTANTS
    N = 4
    Pcbs = {p1, p2, p3}
    NULL = NULL
    QueueSize = 2
    Length <- MCOneByte
    Expected <- MCExpected
    ReplyLen <- MCOneByte
    SndBuf = 4
    RcvBuf = 2
    Timeout = 2
    ByteMod = 4
    Faults = {"silent", "remoteClose"}
INVARIANTS FlagsTrue
PROPERTY NoSilentLoss AllAnswered
CHECK_DEADLOCK FALSE
