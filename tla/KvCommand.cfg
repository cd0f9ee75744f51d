SPECIFICATION Spec
CONSTANTS
    Proc = {p1, p2}
    Remote <- MCRemote
    None = None
    Key = {"a", "b"}
    Value = {"x", "y", "z"}
    RegisterKey = {"g", "h"}
    Sessions <- MCSessions
    ImportChunk = 2
    MaxFaults = 1
    MaxRuns = 3
    MaxClock = 2
    MaxRemote = 1
INVARIANT CommandsExact
PROPERTY KeysStay
SYMMETRY MCSymmetry
CHECK_DEADLOCK FALSE
