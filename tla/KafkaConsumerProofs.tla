------------------------ MODULE KafkaConsumerProofs -------------------------
(***************************************************************************)
(* The safety of the Kafka listener (kclient/kconsumer.go), for any number *)
(* of listeners: the invariants of KafkaConsumer, and that it implements   *)
(* util.Component.                                                         *)
(***************************************************************************)
EXTENDS KafkaConsumer, TLAPS

(* Where the pump may be for each state of its client: what the deferred calls leave behind. *)
ClientFollowsPump ==
    \A k \in Kc :
        /\ pump[k] = "unborn" => client[k] = "none"
        /\ client[k] = "open" <=> pump[k] \in Looping \cup {"unwind"}
        /\ pump[k] \in {"send", "exited"} => client[k] = "closed"

ReceivedAfterSend == \A k \in Kc : done[k] = "received" => pump[k] = "exited"

(* A late message is taken at most once because the pump was already past the loop head: it is
   counted on the way out of ReadMessage, to which only the loop head leads back. *)
LateOnlyAfterRead ==
    \A k \in Kc :
        /\ late[k] \in {0, 1}
        /\ late[k] = 1 => quit[k]
        /\ late[k] = 1 => pump[k] \in {"process", "check", "unwind", "send", "exited"}

IInv == TypeOK /\ ClientFollowsPump /\ ReceivedAfterSend /\ LateOnlyAfterRead

LEMMA InitIInv == Init => IInv
  BY DEF Init, IInv, TypeOK, ClientFollowsPump, ReceivedAfterSend, LateOnlyAfterRead,
         PumpStates, Looping

LEMMA StepIInv == IInv /\ [Next]_kcVars => IInv'
<1> SUFFICES ASSUME IInv, [Next]_kcVars PROVE IInv'
  OBVIOUS
<1> USE DEF IInv, TypeOK, ClientFollowsPump, ReceivedAfterSend, LateOnlyAfterRead,
            PumpStates, Looping
<1>1. CASE UNCHANGED kcVars
  BY <1>1 DEF kcVars
<1>2. ASSUME NEW k \in Kc, NewConsumerFails(k) PROVE IInv'
  BY <1>2 DEF NewConsumerFails, Goto
<1>3. ASSUME NEW k \in Kc, SubscribeFails(k) PROVE IInv'
  BY <1>3 DEF SubscribeFails, Goto
<1>4. ASSUME NEW k \in Kc, LaunchOk(k) PROVE IInv'
  BY <1>4 DEF LaunchOk, Goto
<1>5. ASSUME NEW k \in Kc, CheckQuit(k) PROVE IInv'
  BY <1>5 DEF CheckQuit, Goto
<1>6. ASSUME NEW k \in Kc, ReadTimesOut(k) PROVE IInv'
  BY <1>6 DEF ReadTimesOut, Goto
<1>7. ASSUME NEW k \in Kc, ReadFails(k) PROVE IInv'
  BY <1>7 DEF ReadFails, Goto
<1>8. ASSUME NEW k \in Kc, ReadMessage(k) PROVE IInv'
  BY <1>8 DEF ReadMessage, Goto
<1>9. ASSUME NEW k \in Kc, NEW dies \in BOOLEAN, HandleError(k, dies) PROVE IInv'
  BY <1>9 DEF HandleError, Goto
<1>10. ASSUME NEW k \in Kc, NEW ok \in BOOLEAN, ProcessMessage(k, ok) PROVE IInv'
  BY <1>10 DEF ProcessMessage, Goto
<1>11. ASSUME NEW k \in Kc, CloseConsumer(k) PROVE IInv'
  BY <1>11 DEF CloseConsumer, Goto
<1>12. ASSUME NEW k \in Kc, SendDone(k) PROVE IInv'
  BY <1>12 DEF SendDone, Goto
<1>13. ASSUME NEW k \in Kc, Owner(k) PROVE IInv'
  BY <1>13 DEF Owner, RequestQuit, AwaitDone, Launched
<1> QED
  BY <1>1, <1>2, <1>3, <1>4, <1>5, <1>6, <1>7, <1>8, <1>9, <1>10, <1>11, <1>12, <1>13
     DEF Next, Launch, LaunchFails, Pump

LEMMA AlwaysIInv == Safety => []IInv
  BY InitIInv, StepIInv, PTL DEF Safety

-----------------------------------------------------------------------------
(* Every variable of the listener keeps its type. *)
THEOREM TypeCorrect == Spec => []TypeOK
  BY AlwaysIInv, PTL DEF Spec, IInv

(* Close, and a handler whose select took DoneChan, return to a listener that is gone. *)
THEOREM DoneMeansStoppedAlways == Spec => []DoneMeansStopped
<1>1. IInv => DoneMeansStopped
  BY DEF IInv, ClientFollowsPump, ReceivedAfterSend, DoneMeansStopped
<1> QED
  BY <1>1, AlwaysIInv, PTL DEF Spec

(* No path through Launch or through the loop leaks a Kafka client. *)
THEOREM ClientHasPumpAlways == Spec => []ClientHasPump
<1>1. IInv => ClientHasPump
  BY DEF IInv, ClientFollowsPump, ClientHasPump
<1> QED
  BY <1>1, AlwaysIInv, PTL DEF Spec

(* A listener that was asked to quit takes at most one more message. *)
THEOREM AtMostOneLateAlways == Spec => []AtMostOneLate
<1>1. ASSUME IInv, NEW k \in Kc PROVE late[k] <= 1
  <2>1. late[k] = 0 \/ late[k] = 1
    BY <1>1 DEF IInv, LateOnlyAfterRead
  <2> QED
    BY <2>1
<1>2. IInv => AtMostOneLate
  BY <1>1 DEF AtMostOneLate
<1> QED
  BY <1>2, AlwaysIInv, PTL DEF Spec

-----------------------------------------------------------------------------
(* What of "Close returns" is safety. *)

(* Steps the pump has at most left before it is gone, once it is to quit. *)
StepsLeft ==
    [p \in PumpStates \ {"unborn", "failed"} |->
        CASE p = "read" -> 5
          [] p \in {"process", "fault"} -> 4
          [] p = "check" -> 3
          [] p = "unwind" -> 2
          [] p = "send" -> 1
          [] p = "exited" -> 0]

(* Nobody blocks in a receive from a DoneChan that has no pump left to send on it, and only a
   listener that was launched is asked to quit. *)
WaiterHasPump ==
    \A k \in Kc :
        /\ done[k] = "waiting" => pump[k] \notin {"unborn", "failed", "exited"}
        /\ pump[k] = "exited" => done[k] = "received"
        /\ quit[k] => Launched(k)

(* Once quitRequest is raised, whatever the pump does brings it nearer to its end: neither an
   error, nor a message, nor a time-out of ReadMessage gives it another turn of the loop. *)
CloseAdvances ==
    [][\A k \in Kc : quit[k] /\ pump'[k] # pump[k] =>
                        StepsLeft[pump'[k]] < StepsLeft[pump[k]]]_kcVars

LEMMA StepsLeftValues ==
    /\ StepsLeft["read"] = 5
    /\ StepsLeft["process"] = 4
    /\ StepsLeft["fault"] = 4
    /\ StepsLeft["check"] = 3
    /\ StepsLeft["unwind"] = 2
    /\ StepsLeft["send"] = 1
    /\ StepsLeft["exited"] = 0
  BY DEF StepsLeft, PumpStates, Looping

LEMMA InitWaiterHasPump == Init => WaiterHasPump
  BY DEF Init, WaiterHasPump

LEMMA StepWaiterHasPump == IInv /\ WaiterHasPump /\ [Next]_kcVars => WaiterHasPump'
<1> SUFFICES ASSUME IInv, WaiterHasPump, [Next]_kcVars PROVE WaiterHasPump'
  OBVIOUS
<1> USE DEF IInv, TypeOK, PumpStates, Looping, WaiterHasPump, Launched
<1>1. CASE UNCHANGED kcVars
  BY <1>1 DEF kcVars
<1>2. ASSUME NEW k \in Kc, Launch(k) PROVE WaiterHasPump'
  BY <1>2 DEF Launch, LaunchFails, NewConsumerFails, SubscribeFails, LaunchOk, Goto
<1>3. ASSUME NEW k \in Kc, CheckQuit(k) \/ ReadTimesOut(k) \/ ReadFails(k) \/ ReadMessage(k)
      PROVE WaiterHasPump'
  BY <1>3 DEF CheckQuit, ReadTimesOut, ReadFails, ReadMessage, Goto
<1>4. ASSUME NEW k \in Kc, NEW dies \in BOOLEAN, HandleError(k, dies) PROVE WaiterHasPump'
  BY <1>4 DEF HandleError, Goto
<1>5. ASSUME NEW k \in Kc, NEW ok \in BOOLEAN, ProcessMessage(k, ok) PROVE WaiterHasPump'
  BY <1>5 DEF ProcessMessage, Goto
<1>6. ASSUME NEW k \in Kc, CloseConsumer(k) \/ SendDone(k) PROVE WaiterHasPump'
  BY <1>6 DEF CloseConsumer, SendDone, Goto
<1>7. ASSUME NEW k \in Kc, Owner(k) PROVE WaiterHasPump'
  BY <1>7 DEF Owner, RequestQuit, AwaitDone
<1> QED
  BY <1>1, <1>2, <1>3, <1>4, <1>5, <1>6, <1>7 DEF Next, Pump

(* Whoever waits in Close, or in a select on DoneChan, waits for a goroutine that exists: a
   pump goes only by the send that this receive completes. *)
THEOREM WaiterHasPumpAlways == Spec => []WaiterHasPump
  BY InitWaiterHasPump, StepWaiterHasPump, InitIInv, StepIInv, PTL DEF Spec, Safety

LEMMA StepAdvances ==
  ASSUME IInv, WaiterHasPump, [Next]_kcVars, NEW k \in Kc, quit[k], pump'[k] # pump[k]
  PROVE  StepsLeft[pump'[k]] < StepsLeft[pump[k]]
<1> USE StepsLeftValues DEF IInv, TypeOK
<1>1. PICK j \in Kc : Launch(j) \/ Pump(j) \/ Owner(j)
  BY DEF Next, kcVars
<1>2. pump[k] \notin {"unborn", "failed"}
  BY DEF WaiterHasPump, Launched
<1>3. ~Launch(k) /\ ~Owner(k)
  BY <1>2 DEF Launch, LaunchFails, NewConsumerFails, SubscribeFails, LaunchOk, Goto,
              Owner, RequestQuit, AwaitDone
<1>4. \A i \in Kc \ {k} : ~Launch(i) /\ ~Pump(i) /\ ~Owner(i)
  BY DEF Launch, LaunchFails, NewConsumerFails, SubscribeFails, LaunchOk, Owner, RequestQuit,
         AwaitDone, Pump, CheckQuit, ReadTimesOut, ReadFails, ReadMessage, HandleError,
         ProcessMessage, CloseConsumer, SendDone, Goto
<1>5. Pump(k)
  BY <1>1, <1>3, <1>4
<1>6. CASE CheckQuit(k)
  BY <1>6 DEF CheckQuit, Goto
<1>7. CASE ReadTimesOut(k) \/ ReadFails(k) \/ ReadMessage(k)
  BY <1>7 DEF ReadTimesOut, ReadFails, ReadMessage, Goto
<1>8. ASSUME NEW dies \in BOOLEAN, HandleError(k, dies)
      PROVE StepsLeft[pump'[k]] < StepsLeft[pump[k]]
  BY <1>8 DEF HandleError, Goto
<1>9. ASSUME NEW ok \in BOOLEAN, ProcessMessage(k, ok)
      PROVE StepsLeft[pump'[k]] < StepsLeft[pump[k]]
  BY <1>9 DEF ProcessMessage, Goto
<1>10. CASE CloseConsumer(k) \/ SendDone(k)
  BY <1>10 DEF CloseConsumer, SendDone, Goto
<1> QED
  BY <1>5, <1>6, <1>7, <1>8, <1>9, <1>10 DEF Pump

LEMMA StepCloses ==
  IInv /\ WaiterHasPump /\ [Next]_kcVars
    => [\A k \in Kc : quit[k] /\ pump'[k] # pump[k] =>
                         StepsLeft[pump'[k]] < StepsLeft[pump[k]]]_kcVars
  BY StepAdvances

(* Close asks a pump that has at most five steps to go and that no fault can give more. That
   they are taken is what the fairness of the module adds. *)
THEOREM CloseAdvancesAlways == Spec => CloseAdvances
  BY StepCloses, AlwaysIInv, WaiterHasPumpAlways, PTL DEF Spec, Safety, CloseAdvances

-----------------------------------------------------------------------------
(* The refinement. *)

LEMMA InitRefines == Init => Comp!Init
  BY DEF Init, Comp!Init, StatusOf, OwnerOf

(* Steps that change neither what a listener is to its owner nor what its owner knows. *)
LEMMA Stutter ==
  ASSUME \A k \in Kc : StatusOf(k)' = StatusOf(k), \A k \in Kc : OwnerOf(k)' = OwnerOf(k)
  PROVE  UNCHANGED Comp!vars
  BY DEF Comp!vars

LEMMA StepRefines == IInv /\ [Next]_kcVars => [Comp!Next]_Comp!vars
<1> SUFFICES ASSUME IInv, [Next]_kcVars PROVE [Comp!Next]_Comp!vars
  OBVIOUS
<1> USE DEF IInv, TypeOK, PumpStates, Looping, ReceivedAfterSend, StatusOf, OwnerOf
<1>1. CASE UNCHANGED kcVars
  BY <1>1 DEF kcVars, Comp!vars
<1>2. ASSUME NEW k \in Kc, Launch(k) PROVE Comp!Next
  <2>1. PICK s \in {"failed", "check"} : Goto(k, "unborn", s) /\ UNCHANGED <<quit, done>>
    BY <1>2 DEF Launch, LaunchFails, NewConsumerFails, SubscribeFails, LaunchOk
  <2>2. StatusOf(k) = "new" /\ StatusOf(k)' \in {"running", "stopped"}
    BY <2>1 DEF Goto
  <2>3. \A j \in Kc \ {k} : StatusOf(j)' = StatusOf(j)
    BY <2>1 DEF Goto
  <2>4. \A j \in Kc : OwnerOf(j)' = OwnerOf(j)
    BY <2>1
  <2>5. [j \in Kc |-> StatusOf(j)]' = [[j \in Kc |-> StatusOf(j)] EXCEPT ![k] = StatusOf(k)']
    BY <2>3
  <2>6. UNCHANGED [j \in Kc |-> OwnerOf(j)]
    BY <2>4
  <2> HIDE DEF StatusOf, OwnerOf
  <2>7. Comp!Launch(k)
    BY <2>2, <2>5, <2>6 DEF Comp!Launch
  <2> QED
    BY <2>7 DEF Comp!Next
<1>3. ASSUME NEW k \in Kc,
             \/ CheckQuit(k) \/ ReadTimesOut(k) \/ ReadFails(k) \/ ReadMessage(k)
             \/ \E dies \in BOOLEAN : HandleError(k, dies)
             \/ \E ok \in BOOLEAN : ProcessMessage(k, ok)
      PROVE  UNCHANGED Comp!vars
  <2>1. \A j \in Kc : StatusOf(j)' = StatusOf(j)
    BY <1>3 DEF CheckQuit, ReadTimesOut, ReadFails, ReadMessage, HandleError, ProcessMessage, Goto
  <2>2. \A j \in Kc : OwnerOf(j)' = OwnerOf(j)
    BY <1>3 DEF CheckQuit, ReadTimesOut, ReadFails, ReadMessage, HandleError, ProcessMessage
  <2> QED
    BY <2>1, <2>2, Stutter
<1>4. ASSUME NEW k \in Kc, CloseConsumer(k) PROVE Comp!Next
  <2>1. Comp!Stop(k)
    BY <1>4 DEF CloseConsumer, Goto, Comp!Stop
  <2> QED
    BY <2>1 DEF Comp!Next
<1>5. ASSUME NEW k \in Kc, SendDone(k) PROVE Comp!Next
  <2>1. Comp!Tell(k)
    BY <1>5 DEF SendDone, Goto, Comp!Tell
  <2> QED
    BY <2>1 DEF Comp!Next
<1>6. ASSUME NEW k \in Kc, Launched(k), done[k] # "received", RequestQuit(k)
      PROVE  [Comp!Next]_Comp!vars
  <2>1. CASE quit[k]
    BY <2>1, <1>6, Stutter DEF RequestQuit
  <2>2. CASE ~quit[k]
    BY <2>2, <1>6 DEF RequestQuit, Launched, Comp!Ask, Comp!Next
  <2> QED
    BY <2>1, <2>2
<1>7. ASSUME NEW k \in Kc, AwaitDone(k) PROVE UNCHANGED Comp!vars
  BY <1>7, Stutter DEF AwaitDone
<1> QED
  BY <1>1, <1>2, <1>3, <1>4, <1>5, <1>6, <1>7 DEF Next, Pump, Owner

(* The listener does nothing that util.Component rules out: its owner is told that it is down
   only when it is, and it never starts again. *)
THEOREM Refinement == Spec => Comp!Safety
  BY InitRefines, StepRefines, AlwaysIInv, PTL DEF Spec, Safety, Comp!Safety
=============================================================================
