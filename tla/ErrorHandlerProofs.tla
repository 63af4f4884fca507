------------------------- MODULE ErrorHandlerProofs -------------------------
(***************************************************************************)
(* The shared error handler of main.go for any number of listeners, any    *)
(* limit and any window: races on the counter only ever lose errors.       *)
(***************************************************************************)
EXTENDS ErrorHandler, Integers, TLAPS

(* A value loaded for an increment is as old as the load, and errors only accumulate. *)
LoadedIsOld == \A p \in Pump : count[p] <= Len(times)

IInv == TypeOK /\ LoadedIsOld /\ NeverOverCounts

LEMMA InitIInv == Init => IInv
<1> SUFFICES ASSUME Init PROVE IInv
  OBVIOUS
<1>1. times = <<>> /\ Len(times) = 0 /\ times \in Seq(Nat)
  BY DEF Init
<1>2. TypeOK
  <2>1. now \in Nat \ {Never} /\ errorCount \in Nat /\ lastErrorTime \in Nat
    BY DEF Init, Never
  <2>2. killed \in BOOLEAN /\ raced \in BOOLEAN
    BY DEF Init
  <2>3. pc \in [Pump -> {"idle", "store", "test", "reset", "write", "compare", "dead"}]
    BY DEF Init
  <2>4. count \in [Pump -> Nat] /\ errorTime \in [Pump -> Nat]
    BY DEF Init, Never
  <2> QED
    BY <1>1, <2>1, <2>2, <2>3, <2>4 DEF TypeOK
<1>3. LoadedIsOld /\ NeverOverCounts
  BY <1>1 DEF Init, LoadedIsOld, NeverOverCounts
<1> QED
  BY <1>2, <1>3 DEF IInv

(* Appending an error time. *)
LEMMA AppendTime ==
  ASSUME NEW s \in Seq(Nat), NEW t \in Nat
  PROVE  Append(s, t) \in Seq(Nat) /\ Len(s) \in Nat /\ Len(Append(s, t)) = Len(s) + 1
  OBVIOUS

LEMMA StepIInv == IInv /\ [Next]_vars => IInv'
<1> SUFFICES ASSUME IInv, [Next]_vars PROVE IInv'
  OBVIOUS
<1> USE HandlerAssumption DEF HandlerAssumption, IInv, TypeOK, LoadedIsOld, NeverOverCounts, Goto
<1>1. CASE UNCHANGED vars
  BY <1>1 DEF vars
<1>2. CASE Tick
  BY <1>2 DEF Tick, Never
<1>3. ASSUME NEW p \in Pump, LoadCount(p) PROVE IInv'
  <2>1. count' = [count EXCEPT ![p] = errorCount] /\ times' = times
    BY <1>3 DEF LoadCount
  <2>2. LoadedIsOld'
    BY <2>1
  <2> QED
    BY <2>2, <1>3 DEF LoadCount
<1>4. ASSUME NEW p \in Pump, StoreCount(p) PROVE IInv'
  <2>1. times' = Append(times, now) /\ now \in Nat
    BY <1>4 DEF StoreCount
  <2>2. times' \in Seq(Nat) /\ Len(times) \in Nat /\ Len(times') = Len(times) + 1
    BY <2>1, AppendTime
  <2>3. errorCount' = count[p] + 1 /\ count[p] \in Nat /\ count[p] <= Len(times)
    BY <1>4 DEF StoreCount
  <2>4. TypeOK'
    BY <1>4, <2>2, <2>3 DEF StoreCount
  <2>5. LoadedIsOld'
    BY <1>4, <2>2 DEF StoreCount
  <2>6. NeverOverCounts'
    BY <1>4, <2>2, <2>3 DEF StoreCount
  <2> QED
    BY <2>4, <2>5, <2>6
<1>5. ASSUME NEW p \in Pump, TestWindow(p) PROVE IInv'
  BY <1>5 DEF TestWindow
<1>6. ASSUME NEW p \in Pump, Reset(p) PROVE IInv'
  BY <1>6 DEF Reset
<1>7. ASSUME NEW p \in Pump, WriteTime(p) PROVE IInv'
  BY <1>7 DEF WriteTime
<1>8. ASSUME NEW p \in Pump, Compare(p) PROVE IInv'
  <2>1. TypeOK' /\ LoadedIsOld'
    BY <1>8 DEF Compare
  <2>2. errorCount' = errorCount /\ times' = times /\ Len(times) \in Nat
    BY <1>8 DEF Compare
  <2>3. killed' => killed \/ errorCount >= MaxErrorCount
    BY <1>8 DEF Compare
  <2>4. NeverOverCounts'
    BY <2>2, <2>3
  <2> QED
    BY <2>1, <2>4
<1> QED
  BY <1>1, <1>2, <1>3, <1>4, <1>5, <1>6, <1>7, <1>8 DEF Next, Handle

LEMMA AlwaysIInv == Spec => []IInv
  BY InitIInv, StepIInv, PTL DEF Spec

(* Every variable of the handler keeps its type. *)
THEOREM TypeCorrect == Spec => []TypeOK
  BY AlwaysIInv, PTL DEF IInv

(* The process is never told to terminate for fewer than MaxErrorCount errors. *)
THEOREM NeverOverCountsAlways == Spec => []NeverOverCounts
  BY AlwaysIInv, PTL DEF IInv

-----------------------------------------------------------------------------
(* The times at which errors are counted. *)

TimesOrdered ==
    \A j \in 1 .. Len(times) :
        times[j] \in 1 .. now /\ \A i \in 1 .. j : times[i] <= times[j]

LEMMA AppendElements ==
  ASSUME NEW s \in Seq(Nat), NEW t \in Nat
  PROVE  /\ \A i \in 1 .. Len(s) : Append(s, t)[i] = s[i]
         /\ Append(s, t)[Len(s) + 1] = t
  OBVIOUS

(* The clock does not go back, and each error is counted at its time. *)
LEMMA StepOrdered == IInv /\ TimesOrdered /\ [Next]_vars => TimesOrdered'
<1> SUFFICES ASSUME IInv, TimesOrdered, [Next]_vars PROVE TimesOrdered'
  OBVIOUS
<1>0. times \in Seq(Nat) /\ Len(times) \in Nat /\ now \in Nat /\ now >= 1
      /\ \A i \in 1 .. Len(times) : times[i] \in Nat
  BY DEF IInv, TypeOK, Never
<1>1. CASE times' = times /\ now' >= now /\ now' \in Nat
  BY <1>0, <1>1 DEF TimesOrdered
<1>2. ASSUME NEW p \in Pump, StoreCount(p) PROVE TimesOrdered'
  <2> DEFINE n == Len(times)
  <2>1. times' = Append(times, now) /\ now' = now
    BY <1>2 DEF StoreCount
  <2>2. Len(times') = n + 1 /\ times'[n + 1] = now /\ \A i \in 1 .. n : times'[i] = times[i]
    BY <1>0, <2>1, AppendTime, AppendElements
  <2>3. ASSUME NEW j \in 1 .. n + 1
        PROVE  times'[j] \in 1 .. now /\ \A i \in 1 .. j : times'[i] <= times'[j]
    <3>1. CASE j = n + 1
      BY <1>0, <2>2, <3>1 DEF TimesOrdered
    <3>2. CASE j \in 1 .. n
      BY <1>0, <2>2, <3>2 DEF TimesOrdered
    <3> QED
      BY <1>0, <3>1, <3>2
  <2> QED
    BY <2>1, <2>2, <2>3 DEF TimesOrdered
<1>3. CASE Tick
  BY <1>0, <1>1, <1>3 DEF Tick
<1>4. ASSUME NEW p \in Pump,
             LoadCount(p) \/ TestWindow(p) \/ Reset(p) \/ WriteTime(p) \/ Compare(p)
      PROVE  TimesOrdered'
  BY <1>0, <1>1, <1>4 DEF LoadCount, TestWindow, Reset, WriteTime, Compare
<1>5. CASE UNCHANGED vars
  BY <1>0, <1>1, <1>5 DEF vars
<1> QED
  BY <1>2, <1>3, <1>4, <1>5 DEF Next, Handle

-----------------------------------------------------------------------------
(* What the counter means as long as no two calls overlap. *)

(* Error i of s ended a pause. *)
Paused(s, i) == i > 1 /\ s[i] > s[i - 1] + Window

(* c errors came after the one that ended the last pause in the first n errors of s, or c is n. *)
CountsSince(s, c, n) ==
    /\ c <= n
    /\ c = n \/ Paused(s, n - c)
    /\ \A i \in n - c + 1 .. n : ~Paused(s, i)

LastTime(n) == lastErrorTime = IF n = 0 THEN Never ELSE times[n]

(* The error in hand is counted, and its time is not yet that of the last error. *)
Counted(p) == pc[p] \in {"test", "reset", "write"}

Resting(p) == pc[p] \in {"idle", "dead"}

Alone == \A p, q \in Pump : ~Resting(p) /\ ~Resting(q) => p = q

(* The call of p, if there is one, knows the counter and the time of the last error. *)
CallFaithful(p) ==
    LET n == Len(times) IN
    /\ pc[p] = "store" => count[p] = errorCount
    /\ Counted(p) => n > 0 /\ errorTime[p] = times[n] /\ LastTime(n - 1)
    /\ pc[p] = "test" => errorCount > 0 /\ CountsSince(times, errorCount - 1, n - 1)
    /\ pc[p] = "reset" => Paused(times, n)
    /\ pc[p] \in {"write", "compare"} => CountsSince(times, errorCount, n)
    /\ pc[p] = "compare" => LastTime(n)
    /\ pc[p] = "dead" => killed

(* Between two calls the counter has not reached its limit, unless it did before. *)
RestFaithful ==
    (\A p \in Pump : Resting(p) \/ pc[p] = "store") =>
        /\ LastTime(Len(times))
        /\ CountsSince(times, errorCount, Len(times))
        /\ errorCount < MaxErrorCount \/ killed

Uncontended == Alone /\ RestFaithful /\ \A p \in Pump : CallFaithful(p)

LEMMA ErrorFacts ==
  ASSUME IInv
  PROVE  /\ times \in Seq(Nat) /\ Len(times) \in Nat
         /\ \A i \in 1 .. Len(times) : times[i] \in Nat
         /\ errorCount \in Nat /\ lastErrorTime \in Nat /\ now \in Nat
         /\ MaxErrorCount \in Nat \ {0} /\ Window \in Nat
         /\ pc \in [Pump -> {"idle", "store", "test", "reset", "write", "compare", "dead"}]
         /\ count \in [Pump -> Nat] /\ errorTime \in [Pump -> Nat]
         /\ killed \in BOOLEAN
  BY HandlerAssumption DEF HandlerAssumption, IInv, TypeOK, Never

(* When the only call under way takes a step, the other goroutines rest. *)
LEMMA OneCall ==
  ASSUME IInv, Uncontended, NEW p \in Pump, ~Resting(p), NEW to,
         pc' = [pc EXCEPT ![p] = to], killed => killed'
  PROVE  /\ Alone'
         /\ pc'[p] = to
         /\ \A q \in Pump \ {p} : Resting(q) /\ pc'[q] = pc[q] /\ CallFaithful(q)'
<1>1. pc'[p] = to /\ \A q \in Pump \ {p} : pc'[q] = pc[q]
  BY ErrorFacts
<1>2. \A q \in Pump \ {p} : Resting(q)
  BY DEF Uncontended, Alone
<1>3. Alone'
  BY <1>1, <1>2 DEF Alone, Resting
<1>4. ASSUME NEW q \in Pump \ {p} PROVE CallFaithful(q)'
  <2>1. pc'[q] \in {"idle", "dead"} /\ (pc'[q] = "dead" => killed')
    BY <1>1, <1>2 DEF Uncontended, CallFaithful, Resting
  <2> QED
    BY <2>1 DEF CallFaithful, Counted
<1> QED
  BY <1>1, <1>2, <1>3, <1>4

(* Another error changes nothing about those before it. *)
LEMMA CountsKept ==
  ASSUME NEW s \in Seq(Nat), NEW t \in Nat, NEW c \in Nat, NEW n \in 0 .. Len(s),
         CountsSince(s, c, n)
  PROVE  CountsSince(Append(s, t), c, n)
<1> DEFINE z == Append(s, t)
<1>1. Window \in Nat /\ \A i \in 1 .. Len(s) : s[i] \in Nat /\ z[i] = s[i]
  BY HandlerAssumption, AppendElements DEF HandlerAssumption
<1> HIDE DEF z
<1>2. ASSUME NEW i \in Int, i <= n PROVE Paused(z, i) <=> Paused(s, i)
  <2>1. Len(s) \in Nat
    OBVIOUS
  <2>2. CASE i > 1
    <3>1. i \in 1 .. Len(s) /\ i - 1 \in 1 .. Len(s)
      BY <1>2, <2>1, <2>2
    <3> QED
      BY <1>1, <3>1 DEF Paused
  <2>3. CASE ~(i > 1)
    BY <2>3 DEF Paused
  <2> QED
    BY <2>2, <2>3
<1>3. n - c \in Int /\ n - c <= n /\ \A i \in n - c + 1 .. n : i \in Int /\ i <= n
  OBVIOUS
<1>4. CountsSince(z, c, n)
  BY <1>2, <1>3 DEF CountsSince
<1> QED
  BY <1>4 DEF z

LEMMA LoadUncontended ==
  ASSUME IInv, Uncontended, NEW p \in Pump, LoadCount(p), ~raced'
  PROVE  Uncontended'
<1>1. /\ pc[p] = "idle" /\ pc' = [pc EXCEPT ![p] = "store"]
      /\ count' = [count EXCEPT ![p] = errorCount]
      /\ \A q \in Pump \ {p} : pc[q] \in {"idle", "dead"}
      /\ UNCHANGED <<errorCount, lastErrorTime, killed, times>>
  BY DEF LoadCount, Goto
<1>2. pc'[p] = "store" /\ count'[p] = errorCount /\ \A q \in Pump \ {p} : pc'[q] = pc[q]
  BY <1>1, ErrorFacts
<1>3. Alone'
  BY <1>1, <1>2 DEF Alone, Resting
<1>4. RestFaithful'
  <2>1. LastTime(Len(times)) /\ CountsSince(times, errorCount, Len(times))
        /\ (errorCount < MaxErrorCount \/ killed)
    BY <1>1 DEF Uncontended, RestFaithful, Resting
  <2> QED
    BY <1>1, <2>1 DEF RestFaithful, LastTime, CountsSince, Paused
<1>5. ASSUME NEW q \in Pump PROVE CallFaithful(q)'
  <2>1. CASE q = p
    BY <1>1, <1>2, <2>1 DEF CallFaithful, Counted
  <2>2. CASE q # p
    <3>1. pc'[q] \in {"idle", "dead"} /\ (pc'[q] = "dead" => killed')
      BY <1>1, <1>2, <2>2 DEF Uncontended, CallFaithful
    <3> QED
      BY <3>1 DEF CallFaithful, Counted
  <2> QED
    BY <2>1, <2>2
<1> QED
  BY <1>3, <1>4, <1>5 DEF Uncontended

LEMMA StoreUncontended ==
  ASSUME IInv, Uncontended, NEW p \in Pump, StoreCount(p)
  PROVE  Uncontended'
<1> DEFINE n == Len(times)
<1>1. /\ pc[p] = "store" /\ pc' = [pc EXCEPT ![p] = "test"]
      /\ errorCount' = count[p] + 1 /\ errorTime' = [errorTime EXCEPT ![p] = now]
      /\ times' = Append(times, now) /\ UNCHANGED <<lastErrorTime, killed>>
  BY DEF StoreCount, Goto
<1>2. /\ Alone' /\ pc'[p] = "test"
      /\ \A q \in Pump \ {p} : Resting(q) /\ CallFaithful(q)'
  BY <1>1, OneCall DEF Resting
<1>3. LastTime(n) /\ CountsSince(times, errorCount, n) /\ count[p] = errorCount
  BY <1>1, <1>2 DEF Uncontended, RestFaithful, CallFaithful
<1>4. /\ n \in Nat /\ Len(times') = n + 1 /\ times'[n + 1] = now
      /\ \A i \in 1 .. n : times'[i] = times[i]
  BY <1>1, ErrorFacts, AppendTime, AppendElements
<1>5. CallFaithful(p)'
  <2>1. CountsSince(times', errorCount, n)
    <3>1. n \in 0 .. Len(times) /\ times \in Seq(Nat) /\ now \in Nat /\ errorCount \in Nat
      BY ErrorFacts
    <3>2. CountsSince(Append(times, now), errorCount, n)
      BY <1>3, <3>1, CountsKept
    <3>3. times' = Append(times, now)
      BY <1>1
    <3> HIDE DEF n
    <3> QED
      BY <3>2, <3>3, Zenon
  <2>2. errorCount' - 1 = errorCount /\ errorCount' > 0 /\ Len(times') - 1 = n
    <3>1. errorCount \in Nat /\ errorCount' = errorCount + 1
      BY <1>1, <1>3, ErrorFacts
    <3>2. n \in Nat /\ Len(times') = n + 1
      BY <1>4
    <3> HIDE DEF n
    <3> QED
      BY <3>1, <3>2
  <2>3. CountsSince(times', errorCount' - 1, Len(times') - 1)
    BY <2>1, <2>2
  <2>4. lastErrorTime' = IF n = 0 THEN Never ELSE times[n]
    BY <1>1, <1>3 DEF LastTime
  <2>5. lastErrorTime' = IF Len(times') - 1 = 0 THEN Never ELSE times'[Len(times') - 1]
    BY <1>4, <2>2, <2>4
  <2>6. errorTime'[p] = now
    BY <1>1, ErrorFacts
  <2> QED
    BY <1>2, <1>4, <2>2, <2>3, <2>5, <2>6 DEF CallFaithful, Counted, LastTime
<1>6. RestFaithful'
  BY <1>2 DEF RestFaithful, Resting
<1> QED
  BY <1>2, <1>5, <1>6 DEF Uncontended

LEMMA TestUncontended ==
  ASSUME IInv, TimesOrdered, Uncontended, NEW p \in Pump, TestWindow(p)
  PROVE  Uncontended'
<1> DEFINE n == Len(times)
           c == errorCount
<1>1. pc[p] = "test" /\ UNCHANGED <<errorCount, lastErrorTime, count, errorTime, killed, times>>
  BY DEF TestWindow, Goto
<1>2. /\ n > 0 /\ errorTime[p] = times[n] /\ c > 0 /\ CountsSince(times, c - 1, n - 1)
      /\ lastErrorTime = IF n - 1 = 0 THEN Never ELSE times[n - 1]
  BY <1>1 DEF Uncontended, CallFaithful, Counted, LastTime
<1>3. /\ n \in Nat /\ c \in Nat /\ Window \in Nat /\ \A i \in 1 .. n : times[i] \in Nat /\ times[i] # 0
  BY ErrorFacts DEF TimesOrdered
<1>4. ~Torn(p)
  <2>1. \A q \in Pump \ {p} : pc[q] # "write"
    BY <1>1 DEF Uncontended, Alone, Resting
  <2> QED
    BY <2>1 DEF Torn
<1>5. PICK to \in {"reset", "write"} :
         /\ pc' = [pc EXCEPT ![p] = to]
         /\ to = "reset" <=> LongAgo(p)
  BY <1>4 DEF TestWindow, Goto
<1>6. LongAgo(p) <=> Paused(times, n)
  <2>1. CASE n = 1
    BY <1>2, <1>3, <2>1 DEF LongAgo, Paused, Never
  <2>2. CASE n > 1
    <3>1. n \in 1 .. n /\ n - 1 \in 1 .. n /\ n - 1 # 0
      BY <1>3, <2>2
    <3> HIDE DEF n
    <3>2. lastErrorTime = times[n - 1] /\ lastErrorTime # Never
      BY <1>2, <1>3, <3>1 DEF Never
    <3>3. errorTime[p] = times[n] /\ n \in Nat /\ times[n] \in Nat /\ times[n - 1] \in Nat
      BY <1>2, <1>3, <3>1
    <3> QED
      BY <1>3, <2>2, <3>2, <3>3 DEF LongAgo, Paused
  <2>3. n = 1 \/ n > 1
    <3>1. n \in Nat /\ n > 0
      BY <1>2, <1>3
    <3> HIDE DEF n
    <3> QED
      BY <3>1
  <2> QED
    BY <2>1, <2>2, <2>3
<1>7. ~Paused(times, n) => CountsSince(times, c, n)
  <2> HIDE DEF n, c
  <2>1. c - 1 <= n - 1 /\ (c - 1 = n - 1 \/ Paused(times, (n - 1) - (c - 1)))
        /\ \A i \in (n - 1) - (c - 1) + 1 .. n - 1 : ~Paused(times, i)
    BY <1>2 DEF CountsSince
  <2>2. (n - 1) - (c - 1) = n - c /\ c <= n /\ (c - 1 = n - 1 => c = n)
        /\ \A i \in n - c + 1 .. n : i = n \/ i \in n - c + 1 .. n - 1
    BY <1>2, <1>3, <2>1
  <2> QED
    BY <2>1, <2>2 DEF CountsSince
<1>8. /\ Alone' /\ pc'[p] = to
      /\ \A q \in Pump \ {p} : Resting(q) /\ CallFaithful(q)'
  BY <1>1, <1>5, OneCall DEF Resting
<1>9. CallFaithful(p)'
  BY <1>1, <1>2, <1>5, <1>6, <1>7, <1>8 DEF CallFaithful, Counted, LastTime
<1>10. RestFaithful'
  BY <1>8 DEF RestFaithful, Resting
<1> QED
  BY <1>8, <1>9, <1>10 DEF Uncontended

LEMMA ResetUncontended ==
  ASSUME IInv, Uncontended, NEW p \in Pump, Reset(p)
  PROVE  Uncontended'
<1> DEFINE n == Len(times)
<1>1. /\ pc[p] = "reset" /\ pc' = [pc EXCEPT ![p] = "write"] /\ errorCount' = 0
      /\ UNCHANGED <<lastErrorTime, errorTime, killed, times>>
  BY DEF Reset, Goto
<1>2. /\ Alone' /\ pc'[p] = "write"
      /\ \A q \in Pump \ {p} : Resting(q) /\ CallFaithful(q)'
  BY <1>1, OneCall DEF Resting
<1>3. n > 0 /\ errorTime[p] = times[n] /\ LastTime(n - 1) /\ Paused(times, n)
  BY <1>1 DEF Uncontended, CallFaithful, Counted
<1>4. CountsSince(times, 0, n)
  <2>1. n \in Nat
    BY ErrorFacts
  <2> HIDE DEF n
  <2>2. n - 0 = n /\ 0 <= n /\ n - 0 + 1 .. n = {}
    BY <2>1
  <2> QED
    BY <1>3, <2>2 DEF CountsSince
<1>5. CallFaithful(p)'
  BY <1>1, <1>2, <1>3, <1>4 DEF CallFaithful, Counted, LastTime
<1>6. RestFaithful'
  BY <1>2 DEF RestFaithful, Resting
<1> QED
  BY <1>2, <1>5, <1>6 DEF Uncontended

LEMMA WriteUncontended ==
  ASSUME IInv, Uncontended, NEW p \in Pump, WriteTime(p)
  PROVE  Uncontended'
<1>1. /\ pc[p] = "write" /\ pc' = [pc EXCEPT ![p] = "compare"] /\ lastErrorTime' = errorTime[p]
      /\ UNCHANGED <<errorCount, killed, times>>
  BY DEF WriteTime, Goto
<1>2. /\ Alone' /\ pc'[p] = "compare"
      /\ \A q \in Pump \ {p} : Resting(q) /\ CallFaithful(q)'
  BY <1>1, OneCall DEF Resting
<1>3. /\ Len(times) > 0 /\ errorTime[p] = times[Len(times)]
      /\ CountsSince(times, errorCount, Len(times))
  BY <1>1 DEF Uncontended, CallFaithful, Counted
<1>4. Len(times) # 0
  BY <1>3, ErrorFacts
<1>5. CallFaithful(p)'
  BY <1>1, <1>2, <1>3, <1>4 DEF CallFaithful, Counted, LastTime
<1>6. RestFaithful'
  BY <1>2 DEF RestFaithful, Resting
<1> QED
  BY <1>2, <1>5, <1>6 DEF Uncontended

LEMMA CompareUncontended ==
  ASSUME IInv, Uncontended, NEW p \in Pump, Compare(p)
  PROVE  Uncontended'
<1>1. /\ pc[p] = "compare" /\ UNCHANGED <<errorCount, lastErrorTime, times>>
      /\ \/ errorCount < MaxErrorCount /\ pc' = [pc EXCEPT ![p] = "idle"] /\ killed' = killed
         \/ pc' = [pc EXCEPT ![p] = "dead"] /\ killed' = TRUE
  BY DEF Compare, Goto
<1>2. PICK to \in {"idle", "dead"} :
         /\ pc' = [pc EXCEPT ![p] = to] /\ (killed => killed')
         /\ to = "dead" => killed'
         /\ errorCount < MaxErrorCount \/ killed'
  BY <1>1
<1>3. /\ Alone' /\ pc'[p] = to
      /\ \A q \in Pump \ {p} : Resting(q) /\ CallFaithful(q)'
  BY <1>1, <1>2, OneCall DEF Resting
<1>4. LastTime(Len(times)) /\ CountsSince(times, errorCount, Len(times))
  BY <1>1 DEF Uncontended, CallFaithful
<1>5. CallFaithful(p)'
  BY <1>2, <1>3 DEF CallFaithful, Counted
<1>6. RestFaithful'
  BY <1>1, <1>2, <1>4 DEF RestFaithful, LastTime
<1> QED
  BY <1>3, <1>5, <1>6 DEF Uncontended

(* Until two calls overlap, the handler counts errors as if it ran in one goroutine. *)
Sequential == ~raced => Uncontended

LEMMA StepSequential == IInv /\ TimesOrdered /\ Sequential /\ [Next]_vars => Sequential'
<1> SUFFICES ASSUME IInv, TimesOrdered, Sequential, [Next]_vars, ~raced'
             PROVE  Uncontended'
  BY DEF Sequential
<1>1. ~raced
  BY DEF Next, Handle, Tick, LoadCount, StoreCount, TestWindow, Reset, WriteTime, Compare, vars
<1>2. Uncontended
  BY <1>1 DEF Sequential
<1>3. CASE Tick \/ UNCHANGED vars
  BY <1>2, <1>3 DEF Tick, vars, Uncontended, Alone, RestFaithful, CallFaithful, Counted, Resting, LastTime
<1>4. ASSUME NEW p \in Pump, Handle(p) PROVE Uncontended'
  BY <1>2, <1>4, LoadUncontended, StoreUncontended, TestUncontended, ResetUncontended,
     WriteUncontended, CompareUncontended DEF Handle
<1> QED
  BY <1>3, <1>4 DEF Next

LEMMA AlwaysSequential == Spec => [](IInv /\ TimesOrdered /\ Sequential)
<1>1. ASSUME Init PROVE TimesOrdered /\ Sequential
  <2>1. times = <<>> /\ Len(times) = 0 /\ 1 .. Len(times) = {}
    BY <1>1 DEF Init
  <2>2. /\ errorCount = 0 /\ lastErrorTime = Never /\ MaxErrorCount > 0
        /\ \A p \in Pump : pc[p] = "idle"
    BY <1>1, HandlerAssumption DEF HandlerAssumption, Init
  <2>3. TimesOrdered
    BY <2>1 DEF TimesOrdered
  <2>4. CountsSince(times, errorCount, Len(times))
    BY <2>1, <2>2 DEF CountsSince
  <2>5. RestFaithful
    BY <2>1, <2>2, <2>4 DEF RestFaithful, LastTime
  <2>6. Alone /\ \A p \in Pump : CallFaithful(p)
    BY <2>2 DEF Alone, CallFaithful, Counted, Resting
  <2> QED
    BY <2>3, <2>5, <2>6 DEF Sequential, Uncontended
<1> QED
  BY <1>1, InitIInv, StepIInv, StepOrdered, StepSequential, PTL DEF Spec

(* When the process is killed and no calls ever overlapped, that is the end of a chain of
   MaxErrorCount errors without a pause. *)
THEOREM KilledAfterChainAlways == Spec => KilledAfterChain
<1>1. ASSUME IInv, Sequential, [Next]_vars, ~killed, killed', ~raced
      PROVE  /\ Len(times) >= MaxErrorCount
             /\ \A n \in 1 .. MaxErrorCount - 1 : FromEnd(n - 1) <= FromEnd(n) + Window
  <2> DEFINE m == Len(times)
             c == errorCount
  <2>1. PICK p \in Pump : Compare(p)
    BY <1>1 DEF Next, Handle, Tick, LoadCount, StoreCount, TestWindow, Reset, WriteTime, vars
  <2>2. CountsSince(times, c, m)
    BY <1>1, <2>1 DEF Compare, Goto, Sequential, Uncontended, CallFaithful
  <2>3. c >= MaxErrorCount
    BY <1>1, <2>1 DEF Compare
  <2>4. /\ m \in Nat /\ c \in Nat /\ MaxErrorCount \in Nat /\ Window \in Nat
        /\ \A i \in 1 .. m : times[i] \in Nat
    BY <1>1, ErrorFacts
  <2> HIDE DEF m, c
  <2>5. c <= m /\ \A i \in m - c + 1 .. m : ~Paused(times, i)
    BY <2>2 DEF CountsSince
  <2>6. ASSUME NEW n \in 1 .. MaxErrorCount - 1 PROVE times[m - (n - 1)] <= times[m - n] + Window
    <3>1. /\ m - n \in 1 .. m /\ m - (n - 1) \in m - c + 1 .. m /\ m - (n - 1) \in 1 .. m
          /\ m - (n - 1) > 1 /\ (m - (n - 1)) - 1 = m - n
      BY <2>3, <2>4, <2>5
    <3>2. ~(times[m - (n - 1)] > times[m - n] + Window)
      BY <2>5, <3>1 DEF Paused
    <3> QED
      BY <2>4, <3>1, <3>2
  <2>7. m >= MaxErrorCount
    BY <2>3, <2>4, <2>5
  <2> QED
    BY <2>6, <2>7 DEF m, FromEnd
<1>2. IInv /\ Sequential /\ [Next]_vars =>
        [~killed /\ killed' /\ ~raced =>
            /\ Len(times) >= MaxErrorCount
            /\ \A n \in 1 .. MaxErrorCount - 1 : FromEnd(n - 1) <= FromEnd(n) + Window]_vars
  BY <1>1
<1> QED
  BY <1>2, AlwaysSequential, PTL DEF Spec, KilledAfterChain

(* As long as no two calls overlap, no burst of more than MaxErrorCount errors is survived. *)
THEOREM BurstIsFatalAlways == Spec => []BurstIsFatal
<1>1. ASSUME IInv, TimesOrdered, Sequential, ~raced, \A p \in Pump : pc[p] = "idle",
             Len(times) > MaxErrorCount, FromEnd(0) <= FromEnd(MaxErrorCount) + Window, ~killed
      PROVE  FALSE
  <2> DEFINE m == Len(times)
             c == errorCount
  <2>1. CountsSince(times, c, m) /\ c < MaxErrorCount
    BY <1>1 DEF Sequential, Uncontended, RestFaithful, Resting
  <2>2. /\ m \in Nat /\ c \in Nat /\ MaxErrorCount \in Nat /\ Window \in Nat
        /\ \A i \in 1 .. m : times[i] \in Nat
    BY <1>1, ErrorFacts
  <2>3. m > MaxErrorCount /\ times[m - 0] <= times[m - MaxErrorCount] + Window
    BY <1>1 DEF FromEnd
  <2>4. \A j \in 1 .. m : \A i \in 1 .. j : times[i] <= times[j]
    BY <1>1 DEF TimesOrdered
  <2> HIDE DEF m, c
  <2>5. Paused(times, m - c)
    BY <2>1, <2>2, <2>3 DEF CountsSince
  <2>6. /\ m - 0 = m /\ m \in 1 .. m /\ m - c \in 1 .. m
        /\ (m - c) - 1 \in 1 .. m /\ m - MaxErrorCount \in 1 .. (m - c) - 1
        /\ m - MaxErrorCount \in 1 .. m
    BY <2>1, <2>2, <2>3, <2>5 DEF Paused
  <2>7. times[m - MaxErrorCount] <= times[(m - c) - 1] /\ times[m - c] <= times[m]
    BY <2>4, <2>6
  <2>8. times[m - c] > times[(m - c) - 1] + Window
    BY <2>5 DEF Paused
  <2>9. times[m] <= times[m - MaxErrorCount] + Window
    BY <2>3, <2>6
  <2>10. \A a, b, d, e \in Nat : a <= b /\ d <= e /\ d > b + Window => ~(e <= a + Window)
    BY <2>2
  <2> QED
    BY <2>2, <2>6, <2>7, <2>8, <2>9, <2>10
<1>2. IInv /\ TimesOrdered /\ Sequential => BurstIsFatal
  BY <1>1 DEF BurstIsFatal, EveryBurstIsFatal
<1> QED
  BY <1>2, AlwaysSequential, PTL DEF Spec
=============================================================================
