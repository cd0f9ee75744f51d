SPECIFICATION FairSpec
CONSTANTS
    Client = {c1, c2}
    MaxEntry = 2
    Window = 0
    PageSize = 2
    MaxRounds = 2
    Keyed = {c1}
    Believers = {c1}
    Ephemeral = FALSE
    MaxFaults = 1
    Track = FALSE
PROPERTY Converges
CHECK_DEADLOCK FALSE
