--------------------------- MODULE KafkaConsumer ----------------------------
(***************************************************************************)
(* kclient.KafkaConsumer (consumer/internal/kclient/kconsumer.go): Launch   *)
(* opens a Kafka client and starts a goroutine, the message pump; Close     *)
(* raises the atomic quitRequest and then receives from the unbuffered      *)
(* DoneChan, on which the pump sends once its client is closed.             *)
(*                                                                          *)
(* The operators describe one step of consumer k and constrain every        *)
(* variable of this module, so that the modules that own consumers          *)
(* (SseConsumer, ConsumerService) reuse them; Next closes the module with   *)
(* the most general owner.                                                  *)
(***************************************************************************)
EXTENDS Naturals

CONSTANT Kc       \* the KafkaConsumer values of the process

VARIABLES
    pump,         \* pump[k]: where the goroutine of k is; "failed": Launch returned an error
    quit,         \* quit[k]: k.quitRequest
    client,       \* client[k]: the librdkafka handle, "none", "open" or "closed"
    done,         \* done[k]: the receive side of k.DoneChan, "idle", "waiting" or "received"
    late          \* history: how many messages k's pump took after quitRequest was raised

kcVars == <<pump, quit, client, done, late>>

Looping == {"check", "read", "fault", "process"}
PumpStates == Looping \cup {"unborn", "failed", "unwind", "send", "exited"}

TypeOK ==
    /\ pump \in [Kc -> PumpStates]
    /\ quit \in [Kc -> BOOLEAN]
    /\ client \in [Kc -> {"none", "open", "closed"}]
    /\ done \in [Kc -> {"idle", "waiting", "received"}]
    /\ late \in [Kc -> Nat]

Init ==
    /\ pump = [k \in Kc |-> "unborn"]
    /\ quit = [k \in Kc |-> FALSE]
    /\ client = [k \in Kc |-> "none"]
    /\ done = [k \in Kc |-> "idle"]
    /\ late = [k \in Kc |-> 0]

Goto(k, from, to) ==
    /\ pump[k] = from
    /\ pump' = [pump EXCEPT ![k] = to]

Launched(k) == pump[k] \notin {"unborn", "failed"}

-----------------------------------------------------------------------------
(* Faulty variants of steps below, one slip each; no specification uses them. *)

(* The deferred calls run in the opposite order: DoneChan before the client is closed. *)
CheckQuitSendFirst(k) ==
    /\ \/ ~quit[k] /\ Goto(k, "check", "read")
       \/ quit[k] /\ Goto(k, "check", "send")
    /\ UNCHANGED <<quit, client, done, late>>

(* The pump goes straight back to ReadMessage after a message. *)
ProcessMessageNoCheck(k, ok) ==
    /\ Goto(k, "process", IF ok THEN "read" ELSE "unwind")
    /\ UNCHANGED <<quit, client, done, late>>

(* The loop head forgets to look at quitRequest. *)
CheckQuitNever(k) ==
    /\ Goto(k, "check", "read")
    /\ UNCHANGED <<quit, client, done, late>>

(* A failed subscription keeps the client open. *)
SubscribeFailsNoClose(k) ==
    /\ Goto(k, "unborn", "failed")
    /\ client' = [client EXCEPT ![k] = "open"]
    /\ UNCHANGED <<quit, done, late>>

-----------------------------------------------------------------------------
(* Launch. *)

NewConsumerFails(k) ==
    /\ Goto(k, "unborn", "failed")
    /\ UNCHANGED <<quit, client, done, late>>

SubscribeFails(k) ==
    /\ Goto(k, "unborn", "failed")
    /\ client' = [client EXCEPT ![k] = "closed"]
    /\ UNCHANGED <<quit, done, late>>

LaunchFails(k) == NewConsumerFails(k) \/ SubscribeFails(k)

LaunchOk(k) ==
    /\ Goto(k, "unborn", "check")
    /\ client' = [client EXCEPT ![k] = "open"]
    /\ UNCHANGED <<quit, done, late>>

-----------------------------------------------------------------------------
(* The pump. *)

(* The head of the loop: leave it if a quit was requested, else call ReadMessage. *)
CheckQuit(k) ==
    /\ \/ ~quit[k] /\ Goto(k, "check", "read")
       \/ quit[k] /\ Goto(k, "check", "unwind")
    /\ UNCHANGED <<quit, client, done, late>>

ReadTimesOut(k) ==
    /\ Goto(k, "read", "check")
    /\ UNCHANGED <<quit, client, done, late>>

ReadFails(k) ==
    /\ Goto(k, "read", "fault")
    /\ UNCHANGED <<quit, client, done, late>>

ReadMessage(k) ==
    /\ Goto(k, "read", "process")
    /\ late' = [late EXCEPT ![k] = IF quit[k] THEN @ + 1 ELSE @]
    /\ UNCHANGED <<quit, client, done>>

(* ComponentErrorHandler tells the pump to die, or to go on. *)
HandleError(k, dies) ==
    /\ Goto(k, "fault", IF dies THEN "unwind" ELSE "check")
    /\ UNCHANGED <<quit, client, done, late>>

(* Processor.ProcessMessage succeeds, or stops the pump with an error. *)
ProcessMessage(k, ok) ==
    /\ Goto(k, "process", IF ok THEN "check" ELSE "unwind")
    /\ UNCHANGED <<quit, client, done, late>>

(* The deferred calls run last registered first: the client closes before DoneChan is sent on. *)
CloseConsumer(k) ==
    /\ Goto(k, "unwind", "send")
    /\ client' = [client EXCEPT ![k] = "closed"]
    /\ UNCHANGED <<quit, done, late>>

(* DoneChan has no buffer: the send completes together with a receive. *)
SendDone(k) ==
    /\ Goto(k, "send", "exited")
    /\ done[k] = "waiting"
    /\ done' = [done EXCEPT ![k] = "received"]
    /\ UNCHANGED <<quit, client, late>>

-----------------------------------------------------------------------------
(* The owner of k. *)

(* First half of Close. *)
RequestQuit(k) ==
    /\ quit' = [quit EXCEPT ![k] = TRUE]
    /\ UNCHANGED <<pump, client, done, late>>

(* Second half of Close, or a select with DoneChan among its cases: block in a receive. *)
AwaitDone(k) ==
    /\ done[k] = "idle"
    /\ done' = [done EXCEPT ![k] = "waiting"]
    /\ UNCHANGED <<pump, quit, client, late>>

-----------------------------------------------------------------------------
(* The module on its own: any owner that launches k at most once, closes only a consumer
   it launched, and does not close one whose DoneChan it has already received from. *)

Pump(k) ==
    \/ CheckQuit(k)
    \/ ReadTimesOut(k)
    \/ ReadFails(k)
    \/ ReadMessage(k)
    \/ \E dies \in BOOLEAN : HandleError(k, dies)
    \/ \E ok \in BOOLEAN : ProcessMessage(k, ok)
    \/ CloseConsumer(k)
    \/ SendDone(k)

Launch(k) == LaunchFails(k) \/ LaunchOk(k)

Owner(k) ==
    /\ Launched(k)
    /\ done[k] # "received"
    /\ RequestQuit(k) \/ AwaitDone(k)

Next == \E k \in Kc : Launch(k) \/ Pump(k) \/ Owner(k)

(* The Go scheduler runs every runnable goroutine and ReadMessage returns within WaitTimeout;
   the second conjunct is Close going on from its Store to its receive. *)
Fairness ==
    \A k \in Kc :
        /\ WF_kcVars(Pump(k))
        /\ WF_kcVars(quit[k] /\ AwaitDone(k))

Safety == Init /\ [][Next]_kcVars

Spec == Safety /\ Fairness

-----------------------------------------------------------------------------
(* Properties. *)

(* Whoever received from DoneChan, Close included, finds the pump gone and its Kafka client
   closed: it has left the group and nothing of it can still call the Processor. *)
DoneMeansStopped ==
    \A k \in Kc : done[k] = "received" => pump[k] = "exited" /\ client[k] = "closed"

(* A Kafka client is open exactly while a pump is there to close it: no path through Launch
   or through the loop leaks a group member. *)
ClientHasPump ==
    \A k \in Kc : client[k] = "open" <=> pump[k] \in Looping \cup {"unwind"}

(* Once quitRequest is raised the pump takes at most the one message it was already waiting for. *)
AtMostOneLate == \A k \in Kc : late[k] <= 1

(* The listener is a util.Component. *)
StatusOf(k) ==
    CASE pump[k] = "unborn" -> "new"
      [] pump[k] \in {"failed", "send", "exited"} -> "stopped"
      [] OTHER -> "running"

OwnerOf(k) ==
    CASE done[k] = "received" -> "told"
      [] done[k] # "received" /\ quit[k] -> "asking"
      [] OTHER -> "unaware"

Comp == INSTANCE Component WITH
            status <- [k \in Kc |-> StatusOf(k)],
            owner <- [k \in Kc |-> OwnerOf(k)]

(* Refinement: every behaviour of the listener is one the interface allows, and its promise
   that a component asked to stop does stop is kept. *)
ImplementsComponent == Comp!Spec
=============================================================================
