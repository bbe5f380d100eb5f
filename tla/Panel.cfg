SPECIFICATION Spec
CONSTANTS
    Outputs = 2
    Inputs = 2
    MxMaxPress = 3
    MxMaxFault = 1
    PrMaxWait = 1
    PrMaxPress = 1
    PrMaxSwitch = 1
    PrMaxFault = 1
    PrFaults = {"bad", "null", "lost", "refused"}
    PpInputs = {1, 2}
    PpUsks = {1, 2}
    PpDsks = {1}
    PpMaxEvents = 2
    MnBanks = 3
    MnLines = 2
    MnMaxNews = 2
INVARIANTS MatrixSound PanelSound
PROPERTIES KeysAct StatusFollowed LampsAgree PageReturns
