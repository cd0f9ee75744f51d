SPECIFICATION Spec
CONSTANTS
    Client = {c1, c2}
    MaxEntry = 2
    Window = 0
    PageSize = 1
    MaxRounds = 3
    Keyed = {c1}
    Believers = {c1}
    Ephemeral = TRUE
    MaxFaults = 1
    Track = TRUE
INVARIANT StuckNeedsChurn
INVARIANT RecentCovers
INVARIANT PullWalkComplete
INVARIANT EphemeralOnce
CHECK_DEADLOCK FALSE
