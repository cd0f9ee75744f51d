SPECIFICATION Spec
CONSTANTS
    t1 = t1
    t2 = t2
    Tab = {t1, t2}
    MaxEntry = 2
    Key = {"k"}
    KeyOf <- MCKeyOf
    PageSize = 1
    Window = 0
    MaxRounds = 2
    Reader = {r1, r2}
    Ephemeral = TRUE
    Fails = {"request", "write"}
    MaxUpsets = 2
    Pages <- MCPages
INVARIANT WritesReach
INVARIANT TabsHoldOneSet
INVARIANT PagesCurrent
CHECK_DEADLOCK FALSE
