SPECIFICATION ScSpec
CONSTANTS
    ScFormats = {5, 6}
    ScQueueSize = 2
    ScKeys <- OneSource
    ScMaxPress = 1
    ScMaxHand = 1
    ScMaxFault = 1
    ScFaults = {"bad", "null"}
    ScTrailers <- CleanAnswers
INVARIANT ScSound
PROPERTIES FormatFollowed LampsAgree
