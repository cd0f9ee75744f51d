SPECIFICATION FairSpec
CONSTANTS
    Vault = {v1, v2}
    Key = {k1}
    Entry = {e1}
    Small = {e1}
    Thread = {t1, t2}
    NoThread = NoThread
    MaxEntries = 1
    MaxVaultBytes = 2
    MaxVaults = 1
    TTL = 1
    Skew = 0
    MaxTime = 1
    Size <- MCSize
    Ts <- MCTs
    Ops = {"register"}
    Faults = {"openlog", "recordsync", "loadlog"}
INVARIANT EndedLogGone
PROPERTY RegisterWithinCap
PROPERTY RequestsAnswered
