---------------------------- MODULE SseConsumer -----------------------------
(***************************************************************************)
(* SseConsumerHandler (consumer/internal/handlers/sseconsumer.go): each     *)
(* GET /consume request launches a Kafka listener of its own, whose         *)
(* Processor writes to the request's ResponseWriter from the listener's     *)
(* goroutine.  The handler waits for the request's context or for the       *)
(* listener, whichever ends first.  A listener is named by its request.     *)
(***************************************************************************)
EXTENDS Naturals

CONSTANTS
    Kc,           \* the KafkaConsumer values of the process
    Request       \* the requests, each with a listener of its own

ASSUME RequestAssumption == Request \subseteq Kc

VARIABLES
    pump, quit, client, done, late,   \* the listeners, see KafkaConsumer
    handler,      \* handler[r]: where the handler goroutine of request r is
    ctx           \* ctx[r]: r.Context(), "none", "live" or "cancelled"

kcVars == <<pump, quit, client, done, late>>
httpVars == <<handler, ctx>>
vars == <<kcVars, httpVars>>

KC == INSTANCE KafkaConsumer

Waiting == {"select", "closing"}

TypeOK ==
    /\ KC!TypeOK
    /\ handler \in [Request -> Waiting \cup {"idle", "emit", "launch", "launched", "returned"}]
    /\ ctx \in [Request -> {"none", "live", "cancelled"}]

HttpInit ==
    /\ handler = [r \in Request |-> "idle"]
    /\ ctx = [r \in Request |-> "none"]

Init == KC!Init /\ HttpInit

Goto(r, from, to) ==
    /\ handler[r] = from
    /\ handler' = [handler EXCEPT ![r] = to]

(* The handler returns, and net/http cancels the context of its request. *)
Return(r, from) ==
    /\ Goto(r, from, "returned")
    /\ ctx' = [ctx EXCEPT ![r] = "cancelled"]

-----------------------------------------------------------------------------
(* Faulty variants of steps below, one slip each; no specification uses them. *)

(* When its context ends the handler returns and leaves its listener alone. *)
ContextDoneNoClose(r) ==
    /\ ctx[r] = "cancelled"
    /\ done[r] = "waiting"
    /\ Goto(r, "select", "returned")
    /\ UNCHANGED <<kcVars, ctx>>

(* Close raises the flag and does not wait for the listener. *)
ContextDoneNoWait(r) ==
    /\ ctx[r] = "cancelled"
    /\ done[r] = "waiting"
    /\ Goto(r, "select", "returned")
    /\ KC!RequestQuit(r)
    /\ UNCHANGED ctx

(* The handler waits for its context only. *)
ListenerGoneIgnored(r) ==
    /\ done[r] = "received"
    /\ Return(r, "closing")
    /\ UNCHANGED kcVars

(* The handler looks at its context only when the listener has told it that it is gone. *)
ContextDoneAfterListener(r) ==
    /\ ctx[r] = "cancelled"
    /\ done[r] = "received"
    /\ Goto(r, "select", "closing")
    /\ KC!RequestQuit(r)
    /\ UNCHANGED ctx

(* The handler closes a listener that has already told it that it is gone. *)
ListenerGoneCloses(r) ==
    /\ done[r] = "received"
    /\ \E from \in Waiting : Return(r, from)
    /\ KC!RequestQuit(r)

-----------------------------------------------------------------------------
(* The handler of request r. *)

(* net/http starts a goroutine for the request. *)
Arrive(r) ==
    /\ Goto(r, "idle", "emit")
    /\ ctx' = [ctx EXCEPT ![r] = "live"]
    /\ UNCHANGED kcVars

(* The "retry: 3000" line: the handler gives up on a connection that cannot be written to. *)
EmitRetry(r) ==
    /\ \/ Goto(r, "emit", "launch") /\ UNCHANGED ctx
       \/ Return(r, "emit")
    /\ UNCHANGED kcVars

LaunchFails(r) ==
    /\ Return(r, "launch")
    /\ KC!LaunchFails(r)

LaunchOk(r) ==
    /\ Goto(r, "launch", "launched")
    /\ KC!LaunchOk(r)
    /\ UNCHANGED ctx

EnterSelect(r) ==
    /\ Goto(r, "launched", "select")
    /\ KC!AwaitDone(r)
    /\ UNCHANGED ctx

(* The first case of the select: Close raises quitRequest and receives from DoneChan. The select
   was a receiver until now, so the moment between the two is left out: it only delays the send. *)
ContextDone(r) ==
    /\ ctx[r] = "cancelled"
    /\ done[r] = "waiting"
    /\ Goto(r, "select", "closing")
    /\ KC!RequestQuit(r)
    /\ UNCHANGED ctx

(* The handler has received from DoneChan, in the select or in Close. *)
ListenerGone(r) ==
    /\ done[r] = "received"
    /\ \E from \in Waiting : Return(r, from)
    /\ UNCHANGED kcVars

(* The client disconnects, or the connection's ReadTimeout, which net/http does not lift
   while a handler runs, makes its background read fail: both cancel the context. *)
CancelContext(r) ==
    /\ ctx[r] = "live"
    /\ ctx' = [ctx EXCEPT ![r] = "cancelled"]
    /\ UNCHANGED <<kcVars, handler>>

Handle(r) ==
    \/ EmitRetry(r) \/ LaunchFails(r) \/ LaunchOk(r) \/ EnterSelect(r)
    \/ ContextDone(r) \/ ListenerGone(r)

Listen(r) == KC!Pump(r) /\ UNCHANGED httpVars

Next == \E r \in Request : Arrive(r) \/ Handle(r) \/ CancelContext(r) \/ Listen(r)

(* The goroutines of a request are scheduled; no client is obliged to come or to leave. *)
Fairness == \A r \in Request : WF_vars(Handle(r)) /\ WF_vars(Listen(r))

Safety == Init /\ [][Next]_vars

Spec == Safety /\ Fairness

-----------------------------------------------------------------------------
(* Properties. *)

(* The listener writes to the ResponseWriter only while the handler is there: net/http may reuse
   the connection for another request as soon as the handler has returned. *)
WriterIsLive ==
    \A r \in Request : pump[r] = "process" => handler[r] \in {"launched"} \cup Waiting

(* No request leaves a member of the consumer group behind, whichever way it ends. *)
NoMemberOutlivesRequest ==
    \A r \in Request : handler[r] = "returned" => client[r] # "open"

(* A request ends when its client has gone, and when its listener has: neither goroutine waits
   for the other for ever. *)
RequestEnds ==
    \A r \in Request :
        handler[r] = "select" /\ (ctx[r] = "cancelled" \/ pump[r] = "send")
            ~> handler[r] = "returned"

(* The handler is an owner that KafkaConsumer allows: it launches a listener once, and closes
   only one that was launched and whose DoneChan it has not received from already, which would
   block it for ever. *)
ObeysListenerProtocol == KC!Spec
(* The request as its client knows it. *)
RequestOf(r) ==
    IF handler[r] = "returned" THEN "ended"
    ELSE CASE ctx[r] = "none" -> "none"
           [] ctx[r] = "live" -> "open"
           [] ctx[r] = "cancelled" -> "cut"

MemberOf(r) ==
    IF client[r] = "open" THEN "in"
    ELSE IF pump[r] \in {"unborn", "failed"} THEN "none" ELSE "out"

Req == INSTANCE ConsumeRequest WITH
           req <- [r \in Request |-> RequestOf(r)],
           member <- [r \in Request |-> MemberOf(r)]

(* Refinement: to its client a request is one that ConsumeRequest allows, and its promise that a
   request which was cut off leaves the group and ends is kept. *)
ImplementsConsumeRequest == Req!Spec
=============================================================================
