CONSTANTS
    Message = {m1, m2}
    Fault = {"network", "connect", "ack", "reject"}
    MaxRetries = 1
    Label <- MCLabel
    Value <- MCValue
    Known <- MCKnown
    First = "seer-question"
    Routable <- MCRoutable
SPECIFICATION SenderSpec
INVARIANTS SenderTypeOK ReportsMatch OnlyRetriesRepeat
PROPERTIES EveryMessageSent SignalEndsProcess EveryPostReported
CHECK_DEADLOCK FALSE
