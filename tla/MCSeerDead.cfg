\* poll may return an error event.
CONSTANTS
    Fault = {"poll"}
    MaxFaults = 1
    MaxLog = 1
    MaxStarts = 2
SPECIFICATION Spec
PROPERTIES EveryQuestionAttempted
CHECK_DEADLOCK FALSE
