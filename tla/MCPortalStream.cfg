\* Two runs of the effect: one selection after another, or the page left and entered again.
\* A second handler and a second request: either side connects again, and old ones may overlap
\* new ones. Two events have an order.
CONSTANTS
    MaxRuns = 2
    MaxHandlers = 2
    MaxRequests = 2
    MaxEvents = 2
SPECIFICATION Spec
INVARIANTS ShownOnceInOrder
PROPERTIES ShownIsSelected EventArrives ClosedLeavesGroup
CHECK_DEADLOCK FALSE
