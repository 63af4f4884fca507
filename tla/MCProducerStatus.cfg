\* Kafka works; the producer may be stopped.
CONSTANTS
    Message = {m1, m2}
    Fault = {}
    MaxRetries = 1
SPECIFICATION Spec
PROPERTIES StatusIsTrue
CHECK_DEADLOCK FALSE
