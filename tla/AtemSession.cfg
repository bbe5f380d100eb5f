SPECIFICATION FairSpec
CONSTANTS
    MailboxSize = 2
    MaxNet = 4
    MaxChange = 2
    MaxPress = 1
    MaxFault = 2
    Faults = {"lose", "late", "drop"}
INVARIANTS SessionSound Synced
PROPERTY Converges
