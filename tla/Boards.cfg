SPECIFICATION Spec
CONSTANTS
    MaxCrash = 3
    MaxError = 2
    MaxStore = 2
    RdBoards = 1
    RdBoardExp = 0
    RdDisplayExp = 1
    RdKeys = {3}
    RdWidth = 2
    RdMaxPress = 1
    RdMaxTurn = 4
    RdMaxFail = 1
    LpThreads = {"control", "blinker"}
    LpButtons = {4, 5}
    LpColors = {0, 4, 5}
    LpOldBoard = TRUE
    LpMaxFail = 1
    PtRange = 3
    PtMoved = {"x", "z"}
    PtStart = {3}
    PtMemories = {1}
    PtBuffer = 20
    PtMaxEvents = 3
    FdReadings = {0, 50, 2271, 4095}
    FdPositions = {0, 5000, 10000}
    FdMaxEvents = 4
    PtPacketKinds <- CameraPackets
    PkFields <- FieldKinds
    PkInputs = {"In1", "Program"}
    PkVersions <- BothLayouts
    PkBuffer = 2
    PkOther = {0, 1, 2, 3, 4}
    PkJunk = {0, 2, 9}
    PkSegments = 2
    PkMaxEvents = 3
INVARIANTS SettingsSound InputsSound LampsSound CameraSound StoredOnlyWhenArmed FaderSound PacketsSound EchoAgrees
PROPERTY UserDataKept
CHECK_DEADLOCK FALSE
