\* Two independent listeners; CHECK_DEADLOCK is off because a listener whose
\* owner was told ends, and a process may have no owner left to act.
CONSTANT Kc = {main, sse}
SPECIFICATION Spec
INVARIANTS DoneMeansStopped ClientHasPump AtMostOneLate
PROPERTIES ImplementsComponent
CHECK_DEADLOCK FALSE
