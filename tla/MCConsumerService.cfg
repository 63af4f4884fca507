\* The defaults of configs.go, in ticks of 5s, and deadlines of 5s (not above WaitTimeout), 20s
\* (the default) and 35s (above the sum in EveryMemberLeaves).
\* A process that has ended does nothing.
CONSTANTS
    Main = main
    Request = {r1}
    WaitTimeout = 1
    WriteDeadline = 1
    ReadTimeout = 3
    ShutdownWaits = {1, 4, 7}
SPECIFICATION Spec
INVARIANTS NeverSilentlyDeaf CleanupLeavesNoMember MainLeavesGroup EveryMemberLeaves
PROPERTIES DeafProcessEnds ObeysListenerProtocol
CHECK_DEADLOCK FALSE
