SPECIFICATION FairSpec
CONSTANTS
    Aspects = {"power"}
    QueueSize = 1
    MaxPress = 1
    MaxFault = 1
    Faults = {"bad", "null", "lost"}
INVARIANT LinesSound
PROPERTIES Converges
CHECK_DEADLOCK FALSE
