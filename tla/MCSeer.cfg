\* Any two things may fail, and the process may be started again. A seer whose thread is dead
\* rests.
CONSTANTS
    Fault = {"poll", "seer", "queue", "store", "delivery", "retry", "commit", "crash"}
    MaxFaults = 2
    MaxLog = 2
    MaxStarts = 2
SPECIFICATION Spec
INVARIANTS TypeOK CommittedIsHandled CleanDeath AcceptedOncePerStart AnsweredOnce
PROPERTIES NeverUncommitted EveryQuestionAnswered
CHECK_DEADLOCK FALSE
