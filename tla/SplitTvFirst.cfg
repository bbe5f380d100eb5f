SPECIFICATION Spec
CONSTANTS
    Aspects = {"power"}
    QueueSize = 1
    MaxPress = 0
    MaxFault = 0
    Faults = {}
PROPERTIES FollowsOne
CHECK_DEADLOCK FALSE
