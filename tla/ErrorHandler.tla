---------------------------- MODULE ErrorHandler ----------------------------
(***************************************************************************)
(* The closure that newErrorHandler returns (consumer/main.go). One value   *)
(* of it is shared, without any lock, by every Kafka listener of the        *)
(* process, and each listener calls it from its own goroutine: the counter  *)
(* and the time of the last error are loaded and stored in separate steps.  *)
(* Time passes in ticks.                                                    *)
(***************************************************************************)
EXTENDS Naturals, Sequences

CONSTANTS
    Pump,         \* the goroutines that call the handler
    MaxErrorCount,
    Window,       \* MaxErrorAccumulationWindow, in ticks
    MaxCalls,     \* bound: errors handled in a behaviour
    MaxTime       \* bound: the clock

ASSUME HandlerAssumption ==
    /\ MaxErrorCount \in Nat \ {0}
    /\ Window \in Nat
    /\ MaxCalls \in Nat
    /\ MaxTime \in Nat

VARIABLES
    errorCount,
    lastErrorTime,    \* Never, or a tick
    now,              \* the clock
    pc,               \* pc[p]: where goroutine p is in the handler; "dead": it was told to stop
    count,            \* count[p]: the value of errorCount that p loaded for its increment
    errorTime,        \* errorTime[p]: the local variable of the call of p
    killed,           \* history: SIGTERM was sent
    raced,            \* history: two calls of the handler have overlapped
    times             \* history: when each error was counted

vars == <<errorCount, lastErrorTime, now, pc, count, errorTime, killed, raced, times>>

Never == 0

TypeOK ==
    /\ errorCount \in Nat
    /\ lastErrorTime \in Nat
    /\ now \in Nat \ {Never}
    /\ pc \in [Pump -> {"idle", "store", "test", "reset", "write", "compare", "dead"}]
    /\ count \in [Pump -> Nat]
    /\ errorTime \in [Pump -> Nat]
    /\ killed \in BOOLEAN
    /\ raced \in BOOLEAN
    /\ times \in Seq(Nat)

Init ==
    /\ errorCount = 0
    /\ lastErrorTime = Never
    /\ now = 1
    /\ pc = [p \in Pump |-> "idle"]
    /\ count = [p \in Pump |-> 0]
    /\ errorTime = [p \in Pump |-> Never]
    /\ killed = FALSE
    /\ raced = FALSE
    /\ times = <<>>

Goto(p, from, to) ==
    /\ pc[p] = from
    /\ pc' = [pc EXCEPT ![p] = to]

-----------------------------------------------------------------------------
(* Faulty variants of steps below, one slip each; no specification uses them. *)

(* The comparison is off by one, one error early. *)
CompareEarly(p) ==
    /\ \/ errorCount < MaxErrorCount - 1 /\ Goto(p, "compare", "idle") /\ UNCHANGED killed
       \/ errorCount >= MaxErrorCount - 1 /\ Goto(p, "compare", "dead") /\ killed' = TRUE
    /\ UNCHANGED <<errorCount, lastErrorTime, now, count, errorTime, raced, times>>

(* The comparison is off by one, one error late. *)
CompareLate(p) ==
    /\ \/ errorCount <= MaxErrorCount /\ Goto(p, "compare", "idle") /\ UNCHANGED killed
       \/ errorCount > MaxErrorCount /\ Goto(p, "compare", "dead") /\ killed' = TRUE
    /\ UNCHANGED <<errorCount, lastErrorTime, now, count, errorTime, raced, times>>

(* A pause never resets the counter. *)
TestWindowNever(p) ==
    /\ Goto(p, "test", "write")
    /\ UNCHANGED <<errorCount, lastErrorTime, now, count, errorTime, killed, raced, times>>

-----------------------------------------------------------------------------
(* One call of the handler by goroutine p. *)

(* errorCount++ is a load ... *)
LoadCount(p) ==
    /\ Len(times) < MaxCalls
    /\ Goto(p, "idle", "store")
    /\ count' = [count EXCEPT ![p] = errorCount]
    /\ raced' = (raced \/ \E q \in Pump \ {p} : pc[q] \notin {"idle", "dead"})
    /\ UNCHANGED <<errorCount, lastErrorTime, now, errorTime, killed, times>>

(* ... and a store; then the time is taken. *)
StoreCount(p) ==
    /\ Goto(p, "store", "test")
    /\ errorCount' = count[p] + 1
    /\ errorTime' = [errorTime EXCEPT ![p] = now]
    /\ times' = Append(times, now)
    /\ UNCHANGED <<lastErrorTime, now, count, killed, raced>>

(* A time.Time is three words. While another goroutine writes the first one, what is read may be
   half of it, and whether that half is zero or long ago depends on the half. *)
Torn(p) ==
    /\ lastErrorTime = Never
    /\ \E q \in Pump \ {p} : pc[q] = "write"

LongAgo(p) ==
    /\ lastErrorTime # Never
    /\ errorTime[p] > lastErrorTime + Window

TestWindow(p) ==
    /\ \/ (LongAgo(p) \/ Torn(p)) /\ Goto(p, "test", "reset")
       \/ ~LongAgo(p) /\ Goto(p, "test", "write")
    /\ UNCHANGED <<errorCount, lastErrorTime, now, count, errorTime, killed, raced, times>>

(* The error that ends the pause is not counted itself. *)
Reset(p) ==
    /\ Goto(p, "reset", "write")
    /\ errorCount' = 0
    /\ UNCHANGED <<lastErrorTime, now, count, errorTime, killed, raced, times>>

WriteTime(p) ==
    /\ Goto(p, "write", "compare")
    /\ lastErrorTime' = errorTime[p]
    /\ UNCHANGED <<errorCount, now, count, errorTime, killed, raced, times>>

(* Return false, or send SIGTERM and return true, upon which the listener leaves its loop. *)
Compare(p) ==
    /\ \/ errorCount < MaxErrorCount /\ Goto(p, "compare", "idle") /\ UNCHANGED killed
       \/ errorCount >= MaxErrorCount /\ Goto(p, "compare", "dead") /\ killed' = TRUE
    /\ UNCHANGED <<errorCount, lastErrorTime, now, count, errorTime, raced, times>>

Tick ==
    /\ now < MaxTime
    /\ now' = now + 1
    /\ UNCHANGED <<errorCount, lastErrorTime, pc, count, errorTime, killed, raced, times>>

Handle(p) ==
    \/ LoadCount(p) \/ StoreCount(p) \/ TestWindow(p)
    \/ Reset(p) \/ WriteTime(p) \/ Compare(p)

Next == Tick \/ \E p \in Pump : Handle(p)

Spec == Init /\ [][Next]_vars

-----------------------------------------------------------------------------
(* Properties. *)

(* However the calls interleave, the counter never runs ahead of the errors: a lost update makes
   the handler more patient, and the process is never told to terminate before MaxErrorCount
   errors were reported since it started. *)
NeverOverCounts ==
    /\ errorCount <= Len(times)
    /\ killed => Len(times) >= MaxErrorCount

(* The n-th error from the end. *)
FromEnd(n) == times[Len(times) - n]

(* As long as no two calls overlap, the process is terminated only at the end of MaxErrorCount
   errors none of which came more than Window after the one before. *)
KilledAfterChain ==
    [][~killed /\ killed' /\ ~raced =>
        /\ Len(times) >= MaxErrorCount
        /\ \A n \in 1 .. MaxErrorCount - 1 : FromEnd(n - 1) <= FromEnd(n) + Window]_vars

(* What the comments of the two constants say (main.go:109-110): MaxErrorCount errors within
   Window after another one terminate the process. One more is needed than the constant says
   because the error that ends a pause is not counted. *)
EveryBurstIsFatal ==
    (\A p \in Pump : pc[p] = "idle") /\ Len(times) > MaxErrorCount =>
        (FromEnd(0) <= FromEnd(MaxErrorCount) + Window => killed)

(* So it is as long as no two calls overlap. *)
BurstIsFatal == ~raced => EveryBurstIsFatal
=============================================================================
