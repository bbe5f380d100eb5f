SPECIFICATION MCSpec
CONSTANTS
    N = 4
    Faults = {"keepAlive", "remoteClose"}
    NumAux = 2
    NumInput = 1
    NumSpecial = 1
    NumOp = 2
    MaxPress = 2
    MaxDrop = 1
INVARIANTS CallsSound VsTypeOK
PROPERTIES LiveNotReset SlotKeptUntilCalled AllAnswered OncePerPress PressActs ReleaseSelects
CHECK_DEADLOCK FALSE
