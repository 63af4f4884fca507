\* Two listeners: an increment can be lost.
CONSTANTS
    Pump = {main, sse}
    MaxErrorCount = 2
    Window = 2
    MaxCalls = 4
    MaxTime = 2
SPECIFICATION Spec
INVARIANTS EveryBurstIsFatal
CHECK_DEADLOCK FALSE
