\* Six ticks with a window of one leave room for two pauses, and for chains of errors that are
\* longer than the window.
CONSTANTS
    Pump = {main, sse}
    MaxErrorCount = 3
    Window = 1
    MaxCalls = 6
    MaxTime = 5
SPECIFICATION Spec
INVARIANTS NeverOverCounts BurstIsFatal
PROPERTIES KilledAfterChain
SYMMETRY Symmetry
CHECK_DEADLOCK FALSE
