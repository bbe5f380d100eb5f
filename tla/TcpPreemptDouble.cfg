SPECIFICATION Spec
CONSTANTS
    N = 2
    Faults = {}
INVARIANTS CalledAtMostOnce
CHECK_DEADLOCK FALSE
