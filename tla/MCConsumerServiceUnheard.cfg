\* The defaults of configs.go: 5s, 15s and 20s.
CONSTANTS
    Main = main
    Request = {r1}
    WaitTimeout = 1
    WriteDeadline = 1
    ReadTimeout = 3
    ShutdownWaits = {4}
SPECIFICATION Spec
PROPERTIES ServerFailureIsHeard
CHECK_DEADLOCK FALSE
