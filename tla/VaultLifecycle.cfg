SPECIFICATION Spec
CONSTANTS
    Vault = {v1}
    Key = {k1, k2}
    Entry = {e1, e2}
    Small = {e1}
    Thread = {t1, t2}
    NoThread = NoThread
    MaxEntries = 2
    MaxVaultBytes = 2
    MaxVaults = 1
    TTL = 1
    Skew = 0
    MaxTime = 1
    Size <- MCSize
    Ts <- MCTs
    Ops = {"register", "push", "pull", "drop", "ensure", "ownerdrop", "add", "nopush"}
    Faults = {"record", "openlog", "remove", "append", "damage"}
SYMMETRY Symmetry
INVARIANT ServedIsLive
INVARIANT BoundForever
INVARIANT AckedKept
INVARIANT QuotaExact
INVARIANT OwnerDecides
PROPERTY EndedForever
PROPERTY LogsFollowContract
