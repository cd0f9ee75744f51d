SPECIFICATION FairSpec
CONSTANTS
    Req = {r1, r2}
    Entry = {e1, e2}
INVARIANT NoLostWakeup
INVARIANT NilMeansDrained
PROPERTY WakeAnswers
PROPERTY StopsWithoutTimers
PROPERTY SignalStops
CHECK_DEADLOCK FALSE
