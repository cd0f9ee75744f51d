SPECIFICATION Spec
CONSTANTS
    Entry = {e1, e2}
    Proc = {p1, p2}
    NoProc = NoProc
    Torn = Torn
    Faults = {"write", "fsync", "truncate", "syncdir"}
    PowerCuts = TRUE
    FsyncNamesFile = TRUE
INVARIANT AckedSurvive
INVARIANT MemoryIsLog
PROPERTY ImplementsEntrySet
