SPECIFICATION Spec
CONSTANTS
    Key = {k1, k2}
    MaxTs = 1
    Ids = {1, 2, 3}
    NoEntry = NoEntry
    Kinds = {"value", "tomb", "junk"}
    MaxRestarts = 1
INVARIANT ViewIsMerge
INVARIANT IndexCanonical
INVARIANT LastWriteStands
CHECK_DEADLOCK FALSE
