-------------------------- MODULE ConsumerService ---------------------------
(***************************************************************************)
(* The consumer process (consumer/main.go, internal/server/server.go): main *)
(* launches the Kafka listener Main, launches the HTTP server, and then     *)
(* waits in gracefulShutdown for a signal, upon which a goroutine closes    *)
(* the listener and shuts the server down, one after the other, while main  *)
(* waits for it or for shutdownWait, whichever comes first.  The requests   *)
(* to /consume are those of SseConsumer.                                    *)
(*                                                                          *)
(* Time passes in ticks.  What blocks until a time-out lets time pass       *)
(* (ReadMessage, a write to a client, waiting for another goroutine);       *)
(* everything else is immediate, Consumer.Close of librdkafka included.     *)
(***************************************************************************)
EXTENDS Naturals

CONSTANTS
    Main,             \* the listener of main.go
    Request,          \* the requests to /consume
    WaitTimeout,      \* KAFKA_WAIT_TIMEOUT: how long ReadMessage waits
    WriteDeadline,    \* how long a write to an SSE client may block: five seconds
    ReadTimeout,      \* SERVER_READ_TIMEOUT: age at which the context of a request ends
    ShutdownWaits     \* APP_SHUTDOWN_WAIT: the values it may be given

ASSUME ServiceAssumption ==
    /\ Main \notin Request
    /\ WaitTimeout \in Nat \ {0}
    /\ WriteDeadline \in Nat \ {0}
    /\ ReadTimeout \in Nat \ {0}
    /\ ShutdownWaits \subseteq Nat

Kc == Request \cup {Main}

VARIABLES
    pump, quit, client, done, late,   \* the listeners, see KafkaConsumer
    handler, ctx,                     \* the requests, see SseConsumer
    main,         \* where main is
    sig,          \* a signal arrived after Notify: sigChan keeps the first, the rest change nothing
    cleanup,      \* where the cleanup goroutine is
    server,       \* the goroutine of ListenAndServe
    busy,         \* busy[k]: ticks that k has spent in its present blocking call
    age,          \* age[r]: ticks since request r arrived
    shutdownWait, \* config.ShutdownWait
    drain         \* ticks since the shutdown began

kcVars == <<pump, quit, client, done, late>>
httpVars == <<handler, ctx>>
procVars == <<main, sig, cleanup, server>>
timeVars == <<busy, age, shutdownWait, drain>>
vars == <<kcVars, httpVars, procVars, timeVars>>

KC == INSTANCE KafkaConsumer
Sse == INSTANCE SseConsumer

Booting == {"launch", "serve", "notify"}
Ended == {"exited", "killed", "fatal"}
Alive == main \notin Ended

TypeOK ==
    /\ Sse!TypeOK
    /\ main \in Booting \cup {"signal", "drain"} \cup Ended
    /\ sig \in BOOLEAN
    /\ cleanup \in {"none", "quit", "await", "closing", "shutdown", "finished"}
    /\ server \in {"none", "starting", "listening", "failed", "closing"}
    /\ busy \in [Kc -> 0 .. WaitTimeout + WriteDeadline]
    /\ age \in [Request -> 0 .. ReadTimeout]
    /\ shutdownWait \in ShutdownWaits
    /\ drain \in 0 .. shutdownWait

Init ==
    /\ Sse!Init
    /\ main = "launch"
    /\ sig = FALSE
    /\ cleanup = "none"
    /\ server = "none"
    /\ busy = [k \in Kc |-> 0]
    /\ age = [r \in Request |-> 0]
    /\ shutdownWait \in ShutdownWaits
    /\ drain = 0

MainGoto(from, to) ==
    /\ main = from
    /\ main' = to

CleanupGoto(from, to) ==
    /\ Alive
    /\ cleanup = from
    /\ cleanup' = to

(* What Shutdown waits for. *)
HttpIdle == \A r \in Request : handler[r] \in {"idle", "returned"}

(* SIGINT or SIGTERM: until Notify has been called it does what it does by default. *)
Deliver ==
    \/ main \in Booting /\ main' = "killed" /\ UNCHANGED sig
    \/ main \notin Booting /\ sig' = TRUE /\ UNCHANGED main

-----------------------------------------------------------------------------
(* Faulty variants of steps below, one slip each; no specification uses them. *)

(* The handler's verdict stops the listener, and nobody is told. *)
ListenerErrorUnheard(k) ==
    /\ \E dies \in BOOLEAN : KC!HandleError(k, dies)
    /\ UNCHANGED <<main, sig>>

(* Only the server is among the closers. *)
BeginShutdownNoListener ==
    /\ sig
    /\ MainGoto("signal", "drain")
    /\ cleanup' = "shutdown"
    /\ server' = "closing"
    /\ UNCHANGED <<kcVars, httpVars, sig, timeVars>>

(* The server is closed, not shut down: its handlers are not waited for. *)
ShutdownDoneAtOnce ==
    /\ CleanupGoto("shutdown", "finished")
    /\ UNCHANGED <<kcVars, httpVars, main, sig, server, timeVars>>

(* main goes on without a listener when it could not be launched. *)
LaunchFatalIgnored ==
    /\ MainGoto("launch", "serve")
    /\ KC!LaunchFails(Main)
    /\ UNCHANGED <<httpVars, sig, cleanup, server, timeVars>>

-----------------------------------------------------------------------------
(* main and gracefulShutdown. *)

LaunchFatal ==
    /\ MainGoto("launch", "fatal")
    /\ KC!LaunchFails(Main)
    /\ UNCHANGED <<httpVars, sig, cleanup, server, timeVars>>

LaunchListener ==
    /\ MainGoto("launch", "serve")
    /\ KC!LaunchOk(Main)
    /\ UNCHANGED <<httpVars, sig, cleanup, server, timeVars>>

(* Server.Launch never fails: ListenAndServe runs in a goroutine, and the handler is not kept. *)
LaunchServer ==
    /\ MainGoto("serve", "notify")
    /\ server' = "starting"
    /\ UNCHANGED <<kcVars, httpVars, sig, cleanup, timeVars>>

Notify ==
    /\ MainGoto("notify", "signal")
    /\ UNCHANGED <<kcVars, httpVars, sig, cleanup, server, timeVars>>

BeginShutdown ==
    /\ sig
    /\ MainGoto("signal", "drain")
    /\ cleanup' = "quit"
    /\ UNCHANGED <<kcVars, httpVars, sig, server, timeVars>>

(* The context ends when the clean up has finished or at its deadline. *)
Exit ==
    /\ cleanup = "finished" \/ drain = shutdownWait
    /\ MainGoto("drain", "exited")
    /\ UNCHANGED <<kcVars, httpVars, sig, cleanup, server, timeVars>>

Boot == LaunchFatal \/ LaunchListener \/ LaunchServer \/ Notify

-----------------------------------------------------------------------------
(* The cleanup goroutine: KafkaConsumer.Close, then Server.Close. *)

QuitListener ==
    /\ CleanupGoto("quit", "await")
    /\ KC!RequestQuit(Main)
    /\ UNCHANGED <<httpVars, main, sig, server, timeVars>>

AwaitListener ==
    /\ CleanupGoto("await", "closing")
    /\ KC!AwaitDone(Main)
    /\ UNCHANGED <<httpVars, main, sig, server, timeVars>>

(* Shutdown stops accepting requests ... *)
ListenerClosed ==
    /\ done[Main] = "received"
    /\ CleanupGoto("closing", "shutdown")
    /\ server' = "closing"
    /\ UNCHANGED <<kcVars, httpVars, main, sig, timeVars>>

(* ... and returns when no handler runs. It does not cancel their contexts. *)
ShutdownDone ==
    /\ HttpIdle
    /\ CleanupGoto("shutdown", "finished")
    /\ UNCHANGED <<kcVars, httpVars, main, sig, server, timeVars>>

Cleanup == QuitListener \/ AwaitListener \/ ListenerClosed \/ ShutdownDone

-----------------------------------------------------------------------------
(* The HTTP server and its requests. *)

(* ListenAndServe cannot bind its address, or Accept fails for good: that is only logged. *)
ListenAndServe ==
    /\ Alive
    /\ \/ server = "starting" /\ server' \in {"listening", "failed"}
       \/ server = "listening" /\ server' = "failed"
    /\ UNCHANGED <<kcVars, httpVars, main, sig, cleanup, timeVars>>

Arrive(r) ==
    /\ Alive
    /\ server = "listening"
    /\ Sse!Arrive(r)
    /\ UNCHANGED <<procVars, timeVars>>

Handle(r) ==
    /\ Alive
    /\ Sse!Handle(r)
    /\ busy' = [busy EXCEPT ![r] = IF handler[r] \in {"emit", "launch"} THEN 0 ELSE @]
    /\ UNCHANGED <<procVars, age, shutdownWait, drain>>

CancelContext(r) ==
    /\ Alive
    /\ Sse!CancelContext(r)
    /\ UNCHANGED <<procVars, timeVars>>

-----------------------------------------------------------------------------
(* The listeners. *)

(* The verdict of the error handler comes with a SIGTERM to the process itself. *)
ListenerError(k) ==
    \/ KC!HandleError(k, FALSE) /\ UNCHANGED <<main, sig>>
    \/ KC!HandleError(k, TRUE) /\ Deliver

(* Counter.ProcessMessage never fails; a write to an SSE client may. *)
ListenerStep(k) ==
    \/ KC!CheckQuit(k)
    \/ KC!ReadMessage(k)
    \/ busy[k] = WaitTimeout /\ KC!ReadTimesOut(k)
    \/ KC!ReadFails(k)
    \/ KC!ProcessMessage(k, TRUE)
    \/ k # Main /\ KC!ProcessMessage(k, FALSE)
    \/ KC!CloseConsumer(k)
    \/ KC!SendDone(k)

Listen(k) ==
    /\ Alive
    /\ \/ ListenerStep(k) /\ UNCHANGED <<main, sig>>
       \/ ListenerError(k)
    /\ busy' = [busy EXCEPT ![k] = 0]
    /\ UNCHANGED <<httpVars, cleanup, server, age, shutdownWait, drain>>

-----------------------------------------------------------------------------
(* The environment: signals and time. *)

Signal ==
    /\ Alive
    /\ Deliver
    /\ UNCHANGED <<kcVars, httpVars, cleanup, server, timeVars>>

(* How long k may stay in a call that lets time pass; 0 if it is in none. *)
CallLimit(k) ==
    CASE pump[k] = "read" -> WaitTimeout
      [] pump[k] = "process" /\ k # Main -> WriteDeadline
      [] k # Main /\ handler[k] = "emit" -> WriteDeadline
      [] OTHER -> 0

ListenerBlocks(k) ==
    \/ busy[k] < CallLimit(k)
    \/ pump[k] \in {"unborn", "failed", "exited"} /\ CallLimit(k) = 0
    \/ pump[k] = "send" /\ done[k] # "waiting"

HandlerBlocks(r) ==
    \/ handler[r] \in {"idle", "returned", "emit"}
    \/ handler[r] = "select" /\ ctx[r] = "live" /\ done[r] = "waiting"
    \/ handler[r] = "closing" /\ done[r] = "waiting"

MainBlocks ==
    \/ main = "signal" /\ ~sig
    \/ /\ main = "drain" /\ drain < shutdownWait
       /\ \/ cleanup = "closing" /\ done[Main] = "waiting"
          \/ cleanup = "shutdown" /\ ~HttpIdle

(* A tick passes when no goroutine has anything to do but wait, and no time-out is due. *)
Tick ==
    /\ MainBlocks
    /\ \A k \in Kc : ListenerBlocks(k)
    /\ \A r \in Request : HandlerBlocks(r) /\ (ctx[r] = "live" => age[r] < ReadTimeout)
    /\ busy' = [k \in Kc |-> IF CallLimit(k) > 0 THEN busy[k] + 1 ELSE busy[k]]
    /\ age' = [r \in Request |-> IF ctx[r] = "live" THEN age[r] + 1 ELSE age[r]]
    /\ drain' = IF main = "drain" THEN drain + 1 ELSE drain
    /\ UNCHANGED <<kcVars, httpVars, procVars, shutdownWait>>

Next ==
    \/ Boot \/ BeginShutdown \/ Exit \/ Cleanup \/ ListenAndServe \/ Signal \/ Tick
    \/ \E r \in Request : Arrive(r) \/ Handle(r) \/ CancelContext(r)
    \/ \E k \in Kc : Listen(k)

(* Every goroutine is scheduled, time-outs fire, and time goes on. The environment owes nothing:
   no signal, no request, no message and no error has to come. *)
Fairness ==
    /\ WF_vars(Boot \/ BeginShutdown \/ Exit)
    /\ WF_vars(Cleanup)
    /\ WF_vars(server = "starting" /\ ListenAndServe)
    /\ \A r \in Request : WF_vars(Handle(r)) /\ WF_vars(age[r] = ReadTimeout /\ CancelContext(r))
    /\ \A k \in Kc : WF_vars(Listen(k))
    /\ SF_vars(Tick)

Safety == Init /\ [][Next]_vars

Spec == Safety /\ Fairness

-----------------------------------------------------------------------------
(* Properties. *)

(* The process never goes on without the listener of main.go: if that has left its loop, a signal
   is on its way to main or the process is being shut down. *)
NeverSilentlyDeaf ==
    Alive /\ pump[Main] \in {"unwind", "send", "exited"} => sig

(* ... and then the process does end, so that it can be restarted. *)
DeafProcessEnds == sig \/ pump[Main] = "unwind" ~> ~Alive

(* When the clean up has run to its end, no member of the consumer group is left in the process. *)
CleanupLeavesNoMember == cleanup = "finished" => \A k \in Kc : client[k] # "open"

(* Even when the deadline cuts the clean up short, the listener of main.go has left the group,
   because it is closed first: all it needs is a deadline above WaitTimeout. *)
MainLeavesGroup ==
    main = "exited" /\ shutdownWait > WaitTimeout => client[Main] = "closed"

(* How long a request may last before its handler minds the end of its context: it does not while
   it writes the first line. *)
ContextMinded == IF ReadTimeout > WriteDeadline THEN ReadTimeout ELSE WriteDeadline

(* No shutdown leaves a member in the group, for the broker to find out by time-out, if its
   deadline leaves room for a read of each listener in turn, in between for a request that
   arrives last, and at the end for a write to its client. *)
EveryMemberLeaves ==
    main = "exited" /\ shutdownWait > 2 * WaitTimeout + ContextMinded + WriteDeadline =>
        \A k \in Kc : client[k] # "open"

(* The end of a background process is not silent (util.go:8-9): when ListenAndServe fails, the
   process hears of it. *)
ServerFailureIsHeard == server = "failed" ~> main # "signal"

(* Main and the handlers are owners that KafkaConsumer allows. *)
ObeysListenerProtocol == KC!Safety
=============================================================================
