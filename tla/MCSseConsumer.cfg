\* Two requests at once. They share nothing in this module, so two are enough to
\* exclude that a step of one touches the other. A process without requests rests.
CONSTANTS
    Kc = {r1, r2}
    Request = {r1, r2}
SPECIFICATION Spec
INVARIANTS WriterIsLive NoMemberOutlivesRequest
PROPERTIES RequestEnds ObeysListenerProtocol ImplementsConsumeRequest
CHECK_DEADLOCK FALSE
