------------------------------ MODULE Producer ------------------------------
(***************************************************************************)
(* The way of a message from the portal's text field to a topic:            *)
(* MessageProducer.tsx posts it to /api/outbox, which posts it to /produce  *)
(* of the producer (producer/src/server.ts), which answers at once and      *)
(* sends it to Kafka in its own time.  Each callback of the producer runs   *)
(* to its next await; the kafkajs client is described by how it is used.    *)
(***************************************************************************)
EXTENDS Naturals

CONSTANTS
    Message,      \* the messages a user submits
    Fault,        \* what may go wrong, a subset of Faults
    MaxRetries    \* retries of a send by kafkajs, 5 by default

Faults == {"network",     \* a request or its response is lost on the way from the page
           "connect",     \* producer.connect rejects
           "ack",         \* the acknowledgement of a send is lost
           "reject"}      \* producer.send rejects

ASSUME ProducerAssumption == Fault \subseteq Faults /\ MaxRetries \in Nat

VARIABLES
    ui,           \* ui[m]: what the portal knows: "typed", "posted", "delivered" or "failed"
    http,         \* http[m]: the request to /produce: "none", or "answered" with 200
    stage,        \* stage[m]: sendToKafka(m): "none", "connect", "send" or "settled"
    copies,       \* copies[m]: how often m is in its topic
    lostAcks,     \* lostAcks[m]: attempts at sending m whose acknowledgement was lost
    conn,         \* the connection status of the kafkajs producer
    proc,         \* "up", "closing" (server.close was called) or "exited"
    signalled,    \* SIGINT or SIGTERM was delivered, once or more often
    failed        \* history: the messages that could not be connected for, or were rejected

sendVars == <<copies, lostAcks>>
vars == <<ui, http, stage, sendVars, conn, proc, signalled, failed>>

TypeOK ==
    /\ ui \in [Message -> {"typed", "posted", "delivered", "failed"}]
    /\ http \in [Message -> {"none", "answered"}]
    /\ stage \in [Message -> {"none", "connect", "send", "settled"}]
    /\ copies \in [Message -> Nat]
    /\ lostAcks \in [Message -> 0 .. MaxRetries + 1]
    /\ conn \in {"disconnected", "connected", "disconnecting"}
    /\ proc \in {"up", "closing", "exited"}
    /\ signalled \in BOOLEAN
    /\ failed \subseteq Message

Init ==
    /\ ui = [m \in Message |-> "typed"]
    /\ http = [m \in Message |-> "none"]
    /\ stage = [m \in Message |-> "none"]
    /\ copies = [m \in Message |-> 0]
    /\ lostAcks = [m \in Message |-> 0]
    /\ conn = "disconnected"
    /\ proc = "up"
    /\ signalled = FALSE
    /\ failed = {}

-----------------------------------------------------------------------------
(* Faulty variants of steps below, one slip each; no specification uses them. *)

(* The portal posts a message again when it has heard nothing of it. *)
ResponseLostRetries(m) ==
    /\ "network" \in Fault
    /\ ui[m] = "posted" /\ http[m] = "answered"
    /\ http' = [http EXCEPT ![m] = "none"]
    /\ stage' = [stage EXCEPT ![m] = "none"]
    /\ UNCHANGED <<ui, sendVars, conn, proc, signalled, failed>>

(* The message is sent without awaiting the connection. *)
ProduceNoConnect(m) ==
    /\ proc = "up"
    /\ ui[m] = "posted" /\ http[m] = "none"
    /\ http' = [http EXCEPT ![m] = "answered"]
    /\ stage' = [stage EXCEPT ![m] = IF conn = "connected" THEN "send" ELSE "settled"]
    /\ UNCHANGED <<ui, sendVars, conn, proc, signalled, failed>>

(* The server is closed only if no request has connected again meanwhile. *)
DisconnectedUnlessConnected ==
    /\ signalled /\ proc = "up"
    /\ conn' = "disconnected"
    /\ proc' = IF conn = "disconnecting" THEN "closing" ELSE proc
    /\ UNCHANGED <<ui, http, stage, sendVars, signalled, failed>>

-----------------------------------------------------------------------------
(* The portal. *)

Post(m) ==
    /\ ui[m] = "typed"
    /\ ui' = [ui EXCEPT ![m] = "posted"]
    /\ UNCHANGED <<http, stage, sendVars, conn, proc, signalled, failed>>

(* The 200 of the producer becomes a 200 of the outbox, which the page reports as delivered. *)
ReportDelivered(m) ==
    /\ ui[m] = "posted" /\ http[m] = "answered"
    /\ ui' = [ui EXCEPT ![m] = "delivered"]
    /\ UNCHANGED <<http, stage, sendVars, conn, proc, signalled, failed>>

(* The request does not get through, or the producer does not listen any more. *)
Refused(m) ==
    /\ proc # "up" \/ "network" \in Fault
    /\ ui[m] = "posted" /\ http[m] = "none"
    /\ ui' = [ui EXCEPT ![m] = "failed"]
    /\ UNCHANGED <<http, stage, sendVars, conn, proc, signalled, failed>>

ResponseLost(m) ==
    /\ "network" \in Fault
    /\ ui[m] = "posted" /\ http[m] = "answered"
    /\ ui' = [ui EXCEPT ![m] = "failed"]
    /\ UNCHANGED <<http, stage, sendVars, conn, proc, signalled, failed>>

-----------------------------------------------------------------------------
(* POST /produce/:topic/:key. *)

(* The handler: sendToKafka runs to its first await, and the empty result is sent. *)
Produce(m) ==
    /\ proc = "up"
    /\ ui[m] = "posted" /\ http[m] = "none"
    /\ http' = [http EXCEPT ![m] = "answered"]
    /\ stage' = [stage EXCEPT ![m] = "connect"]
    /\ UNCHANGED <<ui, sendVars, conn, proc, signalled, failed>>

(* connect resolves, and send is called at once. *)
Connected(m) ==
    /\ proc # "exited"
    /\ stage[m] = "connect"
    /\ conn' = "connected"
    /\ stage' = [stage EXCEPT ![m] = "send"]
    /\ UNCHANGED <<ui, http, sendVars, proc, signalled, failed>>

(* sendToKafka rejects: the catch of the handler runs, after the response, and nobody reads the
   result that it sets. *)
ConnectFails(m) ==
    /\ proc # "exited"
    /\ "connect" \in Fault
    /\ stage[m] = "connect"
    /\ failed' = failed \cup {m}
    /\ stage' = [stage EXCEPT ![m] = "settled"]
    /\ UNCHANGED <<ui, http, sendVars, conn, proc, signalled>>

(* kafkajs makes one attempt at a send, and so many more until it hears of one. *)
Try(m) ==
    /\ proc # "exited"
    /\ stage[m] = "send"
    /\ copies' = [copies EXCEPT ![m] = @ + 1]

(* The broker appends the message and its acknowledgement arrives. *)
Sent(m) ==
    /\ Try(m)
    /\ stage' = [stage EXCEPT ![m] = "settled"]
    /\ UNCHANGED <<ui, http, lostAcks, conn, proc, signalled, failed>>

(* The acknowledgement is lost. The message is sent again, and appended again, since the producer
   is not an idempotent one; after the last retry send rejects. *)
AckLost(m) ==
    /\ "ack" \in Fault
    /\ Try(m)
    /\ lostAcks' = [lostAcks EXCEPT ![m] = @ + 1]
    /\ stage' = [stage EXCEPT ![m] = IF lostAcks[m] < MaxRetries THEN "send" ELSE "settled"]
    /\ UNCHANGED <<ui, http, conn, proc, signalled, failed>>

(* send rejects, for a fault or because the producer is disconnected: sendToKafka catches that
   itself and resolves, so that the handler takes it for a success. *)
SendRejected(m) ==
    /\ proc # "exited"
    /\ stage[m] = "send"
    /\ \/ conn # "connected" /\ UNCHANGED failed
       \/ "reject" \in Fault /\ failed' = failed \cup {m}
    /\ stage' = [stage EXCEPT ![m] = "settled"]
    /\ UNCHANGED <<ui, http, sendVars, conn, proc, signalled>>

-----------------------------------------------------------------------------
(* exitOnSignal. *)

disconnectKafka == conn' = "disconnecting"

Signal ==
    /\ proc # "exited"
    /\ signalled' = TRUE
    /\ disconnectKafka
    /\ UNCHANGED <<ui, http, stage, sendVars, proc, failed>>

(* disconnect settles, one way or the other, and the server is closed. A request may meanwhile
   have connected again. *)
Disconnected ==
    /\ signalled /\ proc = "up"
    /\ conn' = "disconnected"
    /\ proc' = "closing"
    /\ UNCHANGED <<ui, http, stage, sendVars, signalled, failed>>

(* The server waits for its connections, which have had their responses, and for nothing else. *)
Exit ==
    /\ proc = "closing"
    /\ proc' = "exited"
    /\ UNCHANGED <<ui, http, stage, sendVars, conn, signalled, failed>>

Send(m) == Connected(m) \/ ConnectFails(m) \/ Sent(m) \/ AckLost(m) \/ SendRejected(m)

(* A signal, and how the process ends after it. *)
Stop == Signal \/ Disconnected \/ Exit

Next ==
    \/ \E m \in Message :
        Post(m) \/ ReportDelivered(m) \/ Refused(m) \/ ResponseLost(m) \/ Produce(m) \/ Send(m)
    \/ Stop

(* The event loop runs its callbacks, and Kafka answers. *)
Fairness ==
    /\ \A m \in Message : WF_vars(Produce(m)) /\ WF_vars(Send(m))
    /\ WF_vars(Disconnected)
    /\ WF_vars(Exit)

Spec == Init /\ [][Next]_vars /\ Fairness

-----------------------------------------------------------------------------
(* Properties. *)

(* Only kafkajs repeats a message, once for every acknowledgement it did not get: the page, the
   outbox, the handler and a shutdown send nothing again that they have not heard of. *)
OnlyRetriesRepeat == \A m \in Message : copies[m] <= 1 + lostAcks[m]

(* While the producer is left alone, what was answered with 200 is sent in the end, although nobody
   waits for it: unless it is the very message that Kafka fails to take. *)
EveryMessageSent ==
    \A m \in Message : http[m] = "answered" ~> copies[m] > 0 \/ signalled \/ m \in failed

(* A signal ends the process, whatever is being sent and however many follow it. *)
SignalEndsProcess == signalled ~> proc = "exited"

(* What MessageProducer.tsx:37 tells the user: the message was delivered. *)
StatusIsTrue == \A m \in Message : ui[m] = "delivered" ~> copies[m] > 0
=============================================================================
