CONSTANTS
    Label = {"seer-answer", "stream"}
    Value <- MCValue
    MainTopics = {"seer-answer"}
    Known = {"seer-answer"}
    FirstTopics = {"seer-answer"}
    MaxMessages <- MCMessages
    MaxRequests = 2
    MaxStops = 1
SPECIFICATION Spec
INVARIANTS TypeOK TakenOnce NoneSkippedAfterFirst ShownIsDisplayed
PROPERTIES EvidentUnlessShared
CHECK_DEADLOCK FALSE
