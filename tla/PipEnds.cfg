SPECIFICATION PpSpec
CONSTANTS
    PpInputs = {1, 2}
    PpUsks = {1}
    PpDsks = {}
    PpMaxEvents = 1
PROPERTY SequenceEnds
