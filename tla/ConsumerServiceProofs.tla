----------------------- MODULE ConsumerServiceProofs ------------------------
(***************************************************************************)
(* The safety of the consumer process (main.go), for any number of         *)
(* requests and any time-outs.                                             *)
(***************************************************************************)
EXTENDS ConsumerService, TLAPS

SSP == INSTANCE SseConsumerProofs

(* The steps of a request, as SseConsumerProofs names them. *)
LEMMA SameSteps ==
  ASSUME NEW r \in Request
  PROVE  /\ Sse!Arrive(r) <=> SSP!Arrive(r)
         /\ Sse!CancelContext(r) <=> SSP!CancelContext(r)
         /\ Sse!Handle(r) <=> SSP!Handle(r)
  BY DEF Sse!Arrive, SSP!Arrive, Sse!CancelContext, SSP!CancelContext, Sse!Handle, SSP!Handle,
         Sse!EmitRetry, SSP!EmitRetry, Sse!LaunchFails, SSP!LaunchFails, Sse!LaunchOk, SSP!LaunchOk,
         Sse!EnterSelect, SSP!EnterSelect, Sse!ContextDone, SSP!ContextDone,
         Sse!ListenerGone, SSP!ListenerGone, Sse!Goto, SSP!Goto, Sse!Return, SSP!Return,
         Sse!kcVars, SSP!kcVars, Sse!httpVars, SSP!httpVars, Sse!Waiting, SSP!Waiting,
         Sse!KC!LaunchFails, SSP!KC!LaunchFails, Sse!KC!LaunchOk, SSP!KC!LaunchOk,
         Sse!KC!NewConsumerFails, SSP!KC!NewConsumerFails,
         Sse!KC!SubscribeFails, SSP!KC!SubscribeFails,
         Sse!KC!AwaitDone, SSP!KC!AwaitDone, Sse!KC!RequestQuit, SSP!KC!RequestQuit,
         Sse!KC!Goto, SSP!KC!Goto

LEMMA SamePump ==
  ASSUME NEW k \in Kc
  PROVE  KC!Pump(k) <=> SSP!KC!Pump(k)
  BY DEF KC!Pump, KC!CheckQuit, KC!ReadTimesOut, KC!ReadFails, KC!ReadMessage, KC!HandleError,
         KC!ProcessMessage, KC!CloseConsumer, KC!SendDone, KC!Goto,
         SSP!KC!Pump, SSP!KC!CheckQuit, SSP!KC!ReadTimesOut, SSP!KC!ReadFails,
         SSP!KC!ReadMessage, SSP!KC!HandleError, SSP!KC!ProcessMessage, SSP!KC!CloseConsumer,
         SSP!KC!SendDone, SSP!KC!Goto

LEMMA SameOwner ==
  ASSUME NEW k \in Kc
  PROVE  KC!Launch(k) \/ KC!Owner(k) <=> SSP!KC!Launch(k) \/ SSP!KC!Owner(k)
  BY DEF KC!Launch, KC!LaunchFails, KC!NewConsumerFails, KC!SubscribeFails, KC!LaunchOk, KC!Owner,
         KC!RequestQuit, KC!AwaitDone, KC!Launched, KC!Goto,
         SSP!KC!Launch, SSP!KC!LaunchFails, SSP!KC!NewConsumerFails, SSP!KC!SubscribeFails,
         SSP!KC!LaunchOk, SSP!KC!Owner, SSP!KC!RequestQuit, SSP!KC!AwaitDone, SSP!KC!Launched,
         SSP!KC!Goto

LEMMA Assumption == SSP!RequestAssumption
  BY DEF SSP!RequestAssumption, Kc

-----------------------------------------------------------------------------
(* The invariant. *)

(* What main has reached says whether its listener was launched, and a clean up belongs to a
   shutdown that a signal has begun. *)
MainProgress ==
    /\ main = "launch" => pump[Main] = "unborn"
    /\ main \in {"serve", "notify", "signal", "drain"} => pump[Main] \notin {"unborn", "failed"}
    /\ cleanup # "none" => main \in {"drain"} \cup Ended /\ sig

(* What the cleanup goroutine has done so far. *)
CleanupProgress ==
    /\ cleanup \in {"none", "quit", "await"} => done[Main] = "idle"
    /\ quit[Main] => cleanup \notin {"none", "quit"}
    /\ cleanup \in {"shutdown", "finished"} => done[Main] = "received" /\ server = "closing"
    /\ cleanup = "finished" => HttpIdle

ProcTypes ==
    /\ main \in Booting \cup {"signal", "drain"} \cup Ended
    /\ sig \in BOOLEAN
    /\ cleanup \in {"none", "quit", "await", "closing", "shutdown", "finished"}
    /\ server \in {"none", "starting", "listening", "failed", "closing"}

ServiceInv == ProcTypes /\ MainProgress /\ CleanupProgress /\ NeverSilentlyDeaf

IInv == SSP!IInv /\ ServiceInv

LEMMA InitIInv == Init => IInv
<1> SUFFICES ASSUME Init PROVE IInv
  OBVIOUS
<1>1. SSP!IInv
  BY SSP!InitIInv, Assumption
     DEF Init, Sse!Init, SSP!Init, Sse!KC!Init, SSP!KC!Init, Sse!HttpInit, SSP!HttpInit
<1>2. pump[Main] = "unborn" /\ done[Main] = "idle" /\ ~quit[Main]
  BY DEF Init, Sse!Init, Sse!KC!Init, Kc
<1>3. ServiceInv
  BY <1>2 DEF Init, ServiceInv, ProcTypes, MainProgress, CleanupProgress, NeverSilentlyDeaf,
              Booting, Ended
<1> QED
  BY <1>1, <1>3 DEF IInv

-----------------------------------------------------------------------------
(* The listeners and the requests. *)

(* Main is launched once, and closed once. *)
LEMMA MainObeys ==
  ASSUME IInv, Boot \/ Cleanup
  PROVE  KC!Launch(Main) \/ KC!Owner(Main) \/ UNCHANGED kcVars
<1>1. CASE LaunchFatal \/ LaunchListener
  BY <1>1 DEF LaunchFatal, LaunchListener, KC!Launch
<1>2. CASE QuitListener \/ AwaitListener
  <2>1. Alive /\ cleanup \in {"quit", "await"}
    BY <1>2 DEF QuitListener, AwaitListener, CleanupGoto
  <2>2. pump[Main] \notin {"unborn", "failed"} /\ done[Main] = "idle"
    BY <2>1 DEF IInv, ServiceInv, MainProgress, CleanupProgress, Alive
  <2> QED
    BY <1>2, <2>2 DEF QuitListener, AwaitListener, KC!Owner, KC!Launched
<1> QED
  BY <1>1, <1>2 DEF Boot, Cleanup, LaunchServer, Notify, ListenerClosed, ShutdownDone

LEMMA ListenIsPump ==
  ASSUME NEW k \in Kc, Listen(k)
  PROVE  KC!Pump(k) /\ UNCHANGED httpVars
<1>1. ListenerStep(k) => KC!Pump(k)
  BY DEF ListenerStep, KC!Pump
<1>2. ListenerError(k) => KC!Pump(k)
  BY DEF ListenerError, KC!Pump
<1> QED
  BY <1>1, <1>2 DEF Listen

LEMMA MainIsNoRequest == Main \in Kc \ Request
  BY ServiceAssumption DEF ServiceAssumption, Kc

(* A step that leaves the listeners and the requests alone. *)
LEMMA QuietKeeps ==
  ASSUME SSP!IInv, UNCHANGED <<kcVars, httpVars>>
  PROVE  SSP!IInv'
  BY SSP!StepIInv, Assumption
     DEF SSP!vars, SSP!kcVars, SSP!httpVars, kcVars, httpVars

LEMMA StepSse == IInv /\ [Next]_vars => SSP!IInv'
<1> SUFFICES ASSUME IInv, [Next]_vars PROVE SSP!IInv'
  OBVIOUS
<1>0. SSP!IInv
  BY DEF IInv
<1>1. ASSUME UNCHANGED <<kcVars, httpVars>> PROVE SSP!IInv'
  BY <1>0, <1>1, QuietKeeps
<1>2. CASE UNCHANGED vars
  BY <1>2, <1>1 DEF vars
<1>3. CASE Boot \/ Cleanup
  <2>1. UNCHANGED httpVars
    BY <1>3 DEF Boot, Cleanup, LaunchFatal, LaunchListener, LaunchServer, Notify, QuitListener,
                AwaitListener, ListenerClosed, ShutdownDone
  <2>2. CASE KC!Launch(Main) \/ KC!Owner(Main)
    <3>1. SSP!KC!Launch(Main) \/ SSP!KC!Owner(Main)
      BY <2>2, SameOwner, MainIsNoRequest
    <3>2. UNCHANGED SSP!httpVars
      BY <2>1 DEF httpVars, SSP!httpVars
    <3> QED
      BY <1>0, <3>1, <3>2, MainIsNoRequest, SSP!OtherOwnerKeeps, Assumption
  <2>3. CASE UNCHANGED kcVars
    BY <2>1, <2>3, <1>1
  <2> QED
    BY <1>3, <2>2, <2>3, MainObeys
<1>4. CASE BeginShutdown \/ Exit \/ ListenAndServe \/ Signal \/ Tick
  BY <1>4, <1>1 DEF BeginShutdown, Exit, ListenAndServe, Signal, Tick
<1>5. ASSUME NEW r \in Request, Arrive(r) \/ Handle(r) \/ CancelContext(r) PROVE SSP!IInv'
  <2>1. Sse!Arrive(r) \/ Sse!Handle(r) \/ Sse!CancelContext(r)
    BY <1>5 DEF Arrive, Handle, CancelContext
  <2> QED
    BY <1>0, <2>1, SameSteps, SSP!ArriveKeeps, SSP!HandleKeeps, SSP!CancelKeeps, Assumption
<1>6. ASSUME NEW k \in Kc, Listen(k) PROVE SSP!IInv'
  <2>1. SSP!KC!Pump(k) /\ UNCHANGED SSP!httpVars
    BY <1>6, ListenIsPump, SamePump DEF httpVars, SSP!httpVars
  <2> QED
    BY <1>0, <2>1, SSP!PumpKeeps, Assumption
<1> QED
  BY <1>2, <1>3, <1>4, <1>5, <1>6 DEF Next

-----------------------------------------------------------------------------
(* main and the cleanup goroutine. *)

(* Nothing but main's own launch, its clean up and its pump moves the listener Main. *)
LEMMA RequestLeavesMain ==
  ASSUME SSP!IInv, NEW r \in Request, Arrive(r) \/ Handle(r) \/ CancelContext(r)
  PROVE  /\ pump'[Main] = pump[Main]
         /\ done'[Main] = done[Main]
         /\ quit'[Main] = quit[Main]
  BY MainIsNoRequest
     DEF SSP!IInv, SSP!TypeOK, SSP!KC!TypeOK, Arrive, Handle, CancelContext, kcVars,
         Sse!Arrive, Sse!CancelContext, Sse!Handle, Sse!EmitRetry, Sse!LaunchFails, Sse!LaunchOk,
         Sse!EnterSelect, Sse!ContextDone, Sse!ListenerGone, Sse!kcVars,
         Sse!KC!LaunchFails, Sse!KC!LaunchOk, Sse!KC!NewConsumerFails, Sse!KC!SubscribeFails,
         Sse!KC!AwaitDone, Sse!KC!RequestQuit, Sse!KC!Goto

(* When no handler runs, a request can only arrive. *)
LEMMA IdleStaysIdle ==
  ASSUME HttpIdle, NEW r \in Request, Handle(r) \/ CancelContext(r)
  PROVE  HttpIdle'
  BY DEF HttpIdle, Handle, CancelContext, Sse!CancelContext, Sse!Handle, Sse!EmitRetry,
         Sse!LaunchFails, Sse!LaunchOk, Sse!EnterSelect, Sse!ContextDone, Sse!ListenerGone,
         Sse!Goto, Sse!Return, Sse!Waiting

LEMMA StepService == IInv /\ [Next]_vars => ServiceInv'
<1> SUFFICES ASSUME IInv, [Next]_vars PROVE ServiceInv'
  OBVIOUS
<1>1. SSP!IInv /\ ProcTypes /\ MainProgress /\ CleanupProgress /\ NeverSilentlyDeaf
  BY DEF IInv, ServiceInv
<1>2. /\ pump \in [Kc -> SSP!KC!PumpStates] /\ quit \in [Kc -> BOOLEAN]
      /\ done \in [Kc -> {"idle", "waiting", "received"}]
  BY <1>1 DEF SSP!IInv, SSP!TypeOK, SSP!KC!TypeOK
<1> USE DEF ServiceInv, ProcTypes, MainProgress, CleanupProgress, NeverSilentlyDeaf, Alive, Ended,
            Booting, MainGoto, CleanupGoto
<1>3. CASE UNCHANGED vars
  BY <1>1, <1>3 DEF vars, kcVars, httpVars, procVars, HttpIdle
<1>4. CASE LaunchFatal
  <2>1. done' = done /\ quit' = quit
    BY <1>4 DEF LaunchFatal, KC!LaunchFails, KC!NewConsumerFails, KC!SubscribeFails
  <2> QED
    BY <1>1, <1>4, <2>1 DEF LaunchFatal, httpVars, HttpIdle
<1>5. CASE LaunchListener
  <2>1. pump'[Main] = "check" /\ done' = done /\ quit' = quit
    BY <1>2, <1>5, MainIsNoRequest DEF LaunchListener, KC!LaunchOk, KC!Goto
  <2> QED
    BY <1>1, <1>5, <2>1 DEF LaunchListener, httpVars, HttpIdle
<1>6. CASE LaunchServer
  BY <1>1, <1>6 DEF LaunchServer, kcVars, httpVars, HttpIdle
<1>7. CASE Notify
  BY <1>1, <1>7 DEF Notify, kcVars, httpVars, HttpIdle
<1>8. CASE BeginShutdown
  BY <1>1, <1>8 DEF BeginShutdown, kcVars, httpVars, HttpIdle
<1>9. CASE Exit
  BY <1>1, <1>9 DEF Exit, kcVars, httpVars, HttpIdle
<1>10. CASE QuitListener
  BY <1>1, <1>10 DEF QuitListener, KC!RequestQuit, httpVars, HttpIdle
<1>11. CASE AwaitListener
  BY <1>1, <1>11 DEF AwaitListener, KC!AwaitDone, httpVars, HttpIdle
<1>12. CASE ListenerClosed
  BY <1>1, <1>12 DEF ListenerClosed, kcVars, httpVars, HttpIdle
<1>13. CASE ShutdownDone
  BY <1>1, <1>13 DEF ShutdownDone, kcVars, httpVars, HttpIdle
<1>14. CASE ListenAndServe
  BY <1>1, <1>14 DEF ListenAndServe, kcVars, httpVars, HttpIdle
<1>15. CASE Signal
  BY <1>1, <1>15 DEF Signal, Deliver, kcVars, httpVars, HttpIdle
<1>16. CASE Tick
  BY <1>1, <1>16 DEF Tick, procVars, kcVars, httpVars, HttpIdle
<1>17. ASSUME NEW r \in Request, Arrive(r) PROVE ServiceInv'
  BY <1>1, <1>17, RequestLeavesMain DEF Arrive, procVars
<1>18. ASSUME NEW r \in Request, Handle(r) \/ CancelContext(r) PROVE ServiceInv'
  <2>1. UNCHANGED procVars
    BY <1>18 DEF Handle, CancelContext
  <2>2. cleanup = "finished" => HttpIdle'
    BY <1>1, <1>18, IdleStaysIdle
  <2> QED
    BY <1>1, <1>18, <2>1, <2>2, RequestLeavesMain DEF procVars
<1>19. ASSUME NEW k \in Kc \ {Main}, Listen(k) PROVE ServiceInv'
  <2>1. /\ pump'[Main] = pump[Main] /\ done'[Main] = done[Main] /\ quit'[Main] = quit[Main]
    BY <1>2, <1>19, MainIsNoRequest
       DEF Listen, ListenerStep, ListenerError, KC!CheckQuit, KC!ReadTimesOut, KC!ReadFails,
           KC!ReadMessage, KC!HandleError, KC!ProcessMessage, KC!CloseConsumer, KC!SendDone, KC!Goto
  <2>2. /\ UNCHANGED <<httpVars, cleanup, server>>
        /\ UNCHANGED <<main, sig>> \/ Deliver
    BY <1>19 DEF Listen, ListenerError
  <2>3. HttpIdle' <=> HttpIdle
    BY <2>2 DEF httpVars, HttpIdle
  <2> QED
    BY <1>1, <2>1, <2>2, <2>3 DEF Deliver
<1>20. CASE Listen(Main)
  <2>1. /\ pump[Main] \notin {"unborn", "failed"} /\ pump'[Main] \notin {"unborn", "failed"}
        /\ done'[Main] = done[Main] \/ (done[Main] = "waiting" /\ done'[Main] = "received")
        /\ quit' = quit
    <3>1. CASE ListenerStep(Main)
      BY <1>2, <3>1, MainIsNoRequest
         DEF ListenerStep, KC!CheckQuit, KC!ReadTimesOut, KC!ReadFails, KC!ReadMessage,
             KC!ProcessMessage, KC!CloseConsumer, KC!SendDone, KC!Goto
    <3>2. CASE ListenerError(Main)
      <4>1. \E to \in {"unwind", "check"} : KC!Goto(Main, "fault", to)
        BY <3>2 DEF ListenerError, KC!HandleError
      <4>2. UNCHANGED <<done, quit>>
        BY <3>2 DEF ListenerError, KC!HandleError
      <4> QED
        BY <1>2, <4>1, <4>2, MainIsNoRequest DEF KC!Goto
    <3> QED
      BY <1>20, <3>1, <3>2 DEF Listen
  <2>2. /\ UNCHANGED <<httpVars, cleanup, server>>
        /\ UNCHANGED <<main, sig>> \/ Deliver
    BY <1>20 DEF Listen, ListenerError
  <2>3. HttpIdle' <=> HttpIdle
    BY <2>2 DEF httpVars, HttpIdle
  <2>4. ProcTypes' /\ MainProgress' /\ CleanupProgress'
    BY <1>1, <2>1, <2>2, <2>3 DEF Deliver
  <2>5. CASE ListenerError(Main)
    <3>1. CASE KC!HandleError(Main, FALSE)
      BY <1>2, <2>4, <3>1, MainIsNoRequest DEF KC!HandleError, KC!Goto
    <3>2. CASE Deliver
      BY <2>4, <3>2 DEF Deliver
    <3> QED
      BY <2>5, <3>1, <3>2 DEF ListenerError
  <2>6. CASE ListenerStep(Main) /\ UNCHANGED <<main, sig>>
    <3>1. pump'[Main] \in {"unwind", "send", "exited"}
            => pump[Main] \in {"unwind", "send", "exited"} \/ quit[Main]
      BY <1>2, <2>6, MainIsNoRequest
         DEF ListenerStep, KC!CheckQuit, KC!ReadTimesOut, KC!ReadFails, KC!ReadMessage,
             KC!ProcessMessage, KC!CloseConsumer, KC!SendDone, KC!Goto
    <3>2. quit[Main] => sig
      BY <1>1
    <3> QED
      BY <1>1, <2>4, <2>6, <3>1, <3>2
  <2> QED
    BY <1>20, <2>4, <2>5, <2>6 DEF Listen
<1> QED
  BY <1>3, <1>4, <1>5, <1>6, <1>7, <1>8, <1>9, <1>10, <1>11, <1>12, <1>13, <1>14, <1>15, <1>16,
     <1>17, <1>18, <1>19, <1>20
     DEF Next, Boot, Cleanup

LEMMA AlwaysIInv == Safety => []IInv
<1>1. IInv /\ [Next]_vars => IInv'
  BY StepSse, StepService DEF IInv
<1> QED
  BY <1>1, InitIInv, PTL DEF Safety

-----------------------------------------------------------------------------
(* The process does not go on without the listener of main.go: it is told to terminate. *)
THEOREM NeverSilentlyDeafAlways == Spec => []NeverSilentlyDeaf
  BY AlwaysIInv, PTL DEF Spec, IInv, ServiceInv

LEMMA FinishedIsEmpty ==
  ASSUME IInv, cleanup = "finished", NEW k \in Kc
  PROVE  client[k] # "open"
<1>1. /\ client[k] = "open" => pump[k] \in {"check", "read", "fault", "process", "unwind"}
      /\ done[k] = "received" => pump[k] = "exited"
  BY DEF IInv, SSP!IInv, SSP!KCP!IInv, SSP!KCP!ClientFollowsPump, SSP!KCP!Looping,
              SSP!KCP!ReceivedAfterSend
<1>2. CASE k = Main
  BY <1>1, <1>2 DEF IInv, ServiceInv, CleanupProgress
<1>3. CASE k \in Request
  <2>1. handler[k] \in {"idle", "returned"}
    BY <1>3 DEF IInv, ServiceInv, CleanupProgress, HttpIdle
  <2>2. pump[k] \in {"unborn", "failed", "exited"}
    BY <1>3, <2>1 DEF IInv, SSP!IInv, SSP!HandlerFollowsPump
  <2> QED
    BY <1>1, <2>2
<1> QED
  BY <1>2, <1>3 DEF Kc

(* A clean up that runs to its end leaves no member of the consumer group in the process. *)
THEOREM CleanupLeavesNoMemberAlways == Spec => []CleanupLeavesNoMember
<1>1. IInv => CleanupLeavesNoMember
  BY FinishedIsEmpty DEF CleanupLeavesNoMember
<1> QED
  BY <1>1, AlwaysIInv, PTL DEF Spec

(* The ranges of the clocks, as far as the guards of Tick leave them. *)
TimeTypes ==
    /\ busy \in [Kc -> 0 .. WaitTimeout + WriteDeadline]
    /\ age \in [Request -> 0 .. ReadTimeout]
    /\ shutdownWait \in ShutdownWaits
    /\ drain \in 0 .. shutdownWait

LEMMA StepTime == IInv /\ TimeTypes /\ [Next]_vars => TimeTypes'
<1> SUFFICES ASSUME IInv, TimeTypes, [Next]_vars PROVE TimeTypes'
  OBVIOUS
<1> USE ServiceAssumption DEF ServiceAssumption, TimeTypes
<1>1. CASE UNCHANGED timeVars
  BY <1>1 DEF timeVars
<1>2. ASSUME NEW r \in Request, Handle(r) PROVE TimeTypes'
  BY <1>2 DEF Handle, Kc
<1>3. ASSUME NEW k \in Kc, Listen(k) PROVE TimeTypes'
  BY <1>3 DEF Listen
<1>4. CASE Tick
  <2>1. ASSUME NEW k \in Kc, CallLimit(k) > 0 PROVE busy[k] < CallLimit(k)
    <3>1. pump[k] = "send" => CallLimit(k) = 0
      BY MainIsNoRequest DEF CallLimit, Kc, IInv, SSP!IInv, SSP!HandlerFollowsPump
    <3> QED
      BY <1>4, <2>1, <3>1 DEF Tick, ListenerBlocks
  <2>2. ASSUME NEW k \in Kc PROVE CallLimit(k) \in {0, WaitTimeout, WriteDeadline}
    BY DEF CallLimit
  <2>3. busy' \in [Kc -> 0 .. WaitTimeout + WriteDeadline]
    BY <1>4, <2>1, <2>2 DEF Tick
  <2>4. age' \in [Request -> 0 .. ReadTimeout]
    BY <1>4 DEF Tick
  <2>5. drain' \in 0 .. shutdownWait /\ UNCHANGED shutdownWait
    BY <1>4 DEF Tick, MainBlocks
  <2> QED
    BY <2>3, <2>4, <2>5
<1>5. CASE Boot \/ BeginShutdown \/ Exit \/ Cleanup \/ ListenAndServe \/ Signal
  BY <1>1, <1>5
     DEF Boot, LaunchFatal, LaunchListener, LaunchServer, Notify, BeginShutdown, Exit, Cleanup,
         QuitListener, AwaitListener, ListenerClosed, ShutdownDone, ListenAndServe, Signal
<1>6. ASSUME NEW r \in Request, Arrive(r) \/ CancelContext(r) PROVE TimeTypes'
  BY <1>1, <1>6 DEF Arrive, CancelContext
<1> QED
  BY <1>1, <1>2, <1>3, <1>4, <1>5, <1>6 DEF Next, vars

(* Every variable of the process keeps to its type, for any number of requests and any time-outs.
   The ranges of the clocks are those that the guards of Tick leave, and no result about time-outs. *)
THEOREM TypeCorrect == Spec => []TypeOK
<1>1. Init => TimeTypes
  BY ServiceAssumption DEF ServiceAssumption, Init, TimeTypes
<1>2. IInv /\ TimeTypes => TypeOK
  BY DEF IInv, SSP!IInv, ServiceInv, ProcTypes, TimeTypes, TypeOK, Sse!TypeOK, SSP!TypeOK,
         Sse!KC!TypeOK, SSP!KC!TypeOK, Sse!KC!PumpStates, SSP!KC!PumpStates,
         Sse!KC!Looping, SSP!KC!Looping, Sse!Waiting, SSP!Waiting
<1> QED
  BY <1>1, <1>2, AlwaysIInv, StepTime, PTL DEF Spec, Safety

LEMMA StepObeys == IInv /\ [Next]_vars => [KC!Next]_(KC!kcVars)
<1> SUFFICES ASSUME IInv, [Next]_vars PROVE [KC!Next]_(KC!kcVars)
  OBVIOUS
<1>1. UNCHANGED kcVars => UNCHANGED KC!kcVars
  BY DEF kcVars, KC!kcVars
<1>2. CASE Boot \/ Cleanup
  BY <1>1, <1>2, MainObeys, MainIsNoRequest DEF KC!Next
<1>3. ASSUME NEW r \in Request, Handle(r) PROVE [KC!Next]_(KC!kcVars)
  <2>1. [SSP!KC!Next]_(SSP!kcVars)
    BY <1>3, SameSteps, SSP!HandleObeys, Assumption DEF Handle, IInv
  <2>2. SSP!KC!Next => KC!Next
    BY SameOwner, SamePump DEF SSP!KC!Next, KC!Next
  <2> QED
    BY <2>1, <2>2 DEF SSP!kcVars, KC!kcVars
<1>4. ASSUME NEW r \in Request, Arrive(r) \/ CancelContext(r) PROVE UNCHANGED kcVars
  BY <1>4 DEF Arrive, CancelContext, Sse!Arrive, Sse!CancelContext, Sse!kcVars, kcVars
<1>5. ASSUME NEW k \in Kc, Listen(k) PROVE KC!Next
  BY <1>5, ListenIsPump DEF KC!Next
<1>6. CASE BeginShutdown \/ Exit \/ ListenAndServe \/ Signal \/ Tick
  BY <1>1, <1>6 DEF BeginShutdown, Exit, ListenAndServe, Signal, Tick
<1>7. CASE UNCHANGED vars
  BY <1>1, <1>7 DEF vars
<1> QED
  BY <1>1, <1>2, <1>3, <1>4, <1>5, <1>6, <1>7 DEF Next

(* main and the handlers launch a listener once, close only what was launched, and never wait for
   a listener whose end they have already been told of. *)
THEOREM ProtocolObeyed == Spec => ObeysListenerProtocol
<1>1. Init => KC!Init
  BY DEF Init, Sse!Init, Sse!KC!Init, KC!Init
<1> QED
  BY <1>1, StepObeys, AlwaysIInv, PTL DEF Spec, Safety, KC!Safety, ObeysListenerProtocol

(* What KafkaConsumerProofs shows of any owner therefore holds of main and of the handlers. *)
LEMMA StepListeners == IInv /\ [Next]_vars => [SSP!KCP!Next]_(SSP!KCP!kcVars)
<1>1. KC!Next => SSP!KC!Next
  BY SameOwner, SamePump DEF SSP!KC!Next, KC!Next
<1>2. UNCHANGED KC!kcVars => UNCHANGED SSP!KCP!kcVars
  BY DEF KC!kcVars, SSP!KCP!kcVars
<1> QED
  BY <1>1, <1>2, StepObeys, SSP!ListenerSame, Assumption

LEMMA AlwaysWaiterHasPump == Spec => [](IInv /\ SSP!KCP!WaiterHasPump)
<1>1. Init => SSP!KCP!WaiterHasPump
  BY SSP!KCP!InitWaiterHasPump, Assumption DEF Init, Sse!Init, Sse!KC!Init, SSP!KCP!Init
<1>2. IInv /\ SSP!KCP!WaiterHasPump /\ [Next]_vars => SSP!KCP!WaiterHasPump'
  BY StepListeners, SSP!KCP!StepWaiterHasPump, Assumption DEF IInv, SSP!IInv
<1> QED
  BY <1>1, <1>2, AlwaysIInv, PTL DEF Spec, Safety

(* Whatever signals, errors and requests come together, the clean up and a handler never wait in
   Close, or in a select on DoneChan, for a goroutine that is gone. *)
THEOREM NoWaitInVainAlways == Spec => []SSP!KCP!WaiterHasPump
  BY AlwaysWaiterHasPump, PTL

(* ... and the goroutine they wait for, once asked to quit, gets nearer to its end with every step
   it makes, whatever it finds in the topic: at most five of them are left. *)
THEOREM ShutdownAdvancesAlways == Spec => SSP!KCP!CloseAdvances
<1>1. IInv /\ SSP!KCP!WaiterHasPump /\ [Next]_vars
        => [\A k \in Kc : quit[k] /\ pump'[k] # pump[k] =>
                  SSP!KCP!StepsLeft[pump'[k]] < SSP!KCP!StepsLeft[pump[k]]]_(SSP!KCP!kcVars)
  BY StepListeners, SSP!KCP!StepCloses, Assumption DEF IInv, SSP!IInv
<1> QED
  BY <1>1, AlwaysWaiterHasPump, PTL DEF Spec, Safety, SSP!KCP!CloseAdvances

-----------------------------------------------------------------------------
(* The clocks.  A shutdown gets on: every stage of it has its place in a sum of time-outs. *)

(* The clock of the shutdown starts with it, and runs only once the listener Main was told. *)
DrainBegins ==
    /\ main \notin {"drain", "exited"} => drain = 0
    /\ main = "drain" => cleanup # "none"
    /\ cleanup \notin {"none", "quit"} => quit[Main]
    /\ main = "drain" /\ cleanup \in {"quit", "await"} => drain = 0

CallsAreShort == \A k \in Kc : busy[k] <= CallLimit(k)

GoneIsTold == \A k \in Kc : pump[k] = "exited" => done[k] = "received"

QuitBeforeClosing == \A r \in Request : handler[r] = "closing" => quit[r]

(* The listener Main comes first: it has one call of ReadMessage to come back from. *)
MainClock ==
    /\ cleanup \notin {"shutdown", "finished"} => drain <= WaitTimeout
    /\ pump[Main] = "read" => drain <= busy[Main]
    /\ drain > 0 => quit[Main]

(* A request may arrive until then; its handler minds the end of its context, after which its
   listener has one call of ReadMessage and one write to come back from. *)
RequestClock(r) ==
    /\ ctx[r] = "live" => drain <= WaitTimeout + age[r]
    /\ handler[r] = "emit" => drain <= WaitTimeout + busy[r]
    /\ handler[r] \in {"launch", "launched", "select"} => drain <= WaitTimeout + ContextMinded
    /\ handler[r] = "closing" =>
           /\ pump[r] = "read" => drain <= WaitTimeout + ContextMinded + busy[r]
           /\ pump[r] = "process" => drain <= 2 * WaitTimeout + ContextMinded + busy[r]
           /\ drain <= 2 * WaitTimeout + ContextMinded + WriteDeadline

DrainClock == main = "drain" => MainClock /\ \A r \in Request : RequestClock(r)

Timed == TimeTypes /\ DrainBegins /\ CallsAreShort /\ GoneIsTold /\ QuitBeforeClosing /\ DrainClock

LEMMA Types ==
  ASSUME IInv, TimeTypes
  PROVE  /\ pump \in [Kc -> {"unborn", "failed", "check", "read", "fault", "process", "unwind",
                             "send", "exited"}]
         /\ quit \in [Kc -> BOOLEAN]
         /\ done \in [Kc -> {"idle", "waiting", "received"}]
         /\ handler \in [Request -> {"idle", "emit", "launch", "launched", "select", "closing",
                                     "returned"}]
         /\ ctx \in [Request -> {"none", "live", "cancelled"}]
         /\ busy \in [Kc -> Nat] /\ age \in [Request -> Nat]
         /\ shutdownWait \in Nat /\ drain \in Nat /\ drain <= shutdownWait
         /\ \A r \in Request : age[r] <= ReadTimeout
  BY ServiceAssumption
     DEF ServiceAssumption, IInv, TimeTypes, SSP!IInv, SSP!TypeOK, SSP!KC!TypeOK, SSP!KC!PumpStates,
         SSP!KC!Looping, SSP!Waiting

LEMMA Constants ==
  /\ WaitTimeout \in Nat \ {0} /\ WriteDeadline \in Nat \ {0} /\ ReadTimeout \in Nat \ {0}
  /\ ContextMinded \in Nat /\ ReadTimeout <= ContextMinded /\ WriteDeadline <= ContextMinded
  /\ Main \in Kc /\ Main \notin Request /\ Request \subseteq Kc
  BY ServiceAssumption DEF ServiceAssumption, ContextMinded, Kc

(* One step of a listener. *)
LEMMA PumpMoves ==
  ASSUME IInv, TimeTypes, NEW k \in Kc, Listen(k)
  PROVE  /\ \A x \in Kc \ {k} : pump'[x] = pump[x] /\ done'[x] = done[x] /\ busy'[x] = busy[x]
         /\ quit' = quit /\ busy'[k] = 0
         /\ \/ pump[k] = "check" /\ ~quit[k] /\ pump'[k] = "read"
            \/ pump[k] = "check" /\ quit[k] /\ pump'[k] = "unwind"
            \/ pump[k] = "read" /\ pump'[k] \in {"check", "fault", "process"}
            \/ pump[k] = "fault" /\ pump'[k] \in {"check", "unwind"}
            \/ pump[k] = "process" /\ pump'[k] \in {"check", "unwind"}
            \/ pump[k] = "unwind" /\ pump'[k] = "send"
            \/ pump[k] = "send" /\ pump'[k] = "exited" /\ done'[k] = "received"
         /\ pump'[k] # "exited" => done'[k] = done[k]
         /\ UNCHANGED <<handler, ctx, cleanup, age, shutdownWait, drain>>
         /\ main' = main \/ (main \in Booting /\ main' = "killed")
<1>1. /\ pump \in [Kc -> {"unborn", "failed", "check", "read", "fault", "process", "unwind",
                          "send", "exited"}]
      /\ done \in [Kc -> {"idle", "waiting", "received"}] /\ busy \in [Kc -> Nat]
  BY Types
<1>2. /\ busy' = [busy EXCEPT ![k] = 0]
      /\ UNCHANGED <<handler, ctx, cleanup, age, shutdownWait, drain>>
      /\ UNCHANGED main \/ Deliver
  BY DEF Listen, ListenerError, httpVars
<1>3. /\ \A x \in Kc \ {k} : busy'[x] = busy[x]
      /\ busy'[k] = 0
      /\ main' = main \/ (main \in Booting /\ main' = "killed")
  BY <1>1, <1>2 DEF Deliver
<1>4. KC!Pump(k)
  BY ListenIsPump
<1>5. /\ \A x \in Kc \ {k} : pump'[x] = pump[x] /\ done'[x] = done[x]
      /\ quit' = quit
      /\ \/ pump[k] = "check" /\ ~quit[k] /\ pump'[k] = "read"
         \/ pump[k] = "check" /\ quit[k] /\ pump'[k] = "unwind"
         \/ pump[k] = "read" /\ pump'[k] \in {"check", "fault", "process"}
         \/ pump[k] = "fault" /\ pump'[k] \in {"check", "unwind"}
         \/ pump[k] = "process" /\ pump'[k] \in {"check", "unwind"}
         \/ pump[k] = "unwind" /\ pump'[k] = "send"
         \/ pump[k] = "send" /\ pump'[k] = "exited" /\ done'[k] = "received"
      /\ pump'[k] # "exited" => done'[k] = done[k]
  <2> USE <1>1 DEF KC!Goto
  <2>1. CASE KC!CheckQuit(k)
    BY <2>1 DEF KC!CheckQuit
  <2>2. CASE KC!ReadTimesOut(k) \/ KC!ReadFails(k) \/ KC!ReadMessage(k)
    BY <2>2 DEF KC!ReadTimesOut, KC!ReadFails, KC!ReadMessage
  <2>3. ASSUME NEW dies \in BOOLEAN, KC!HandleError(k, dies)
        PROVE  /\ \A x \in Kc \ {k} : pump'[x] = pump[x]
               /\ pump[k] = "fault" /\ pump'[k] \in {"check", "unwind"}
               /\ quit' = quit /\ done' = done
    BY <2>3 DEF KC!HandleError
  <2>4. ASSUME NEW ok \in BOOLEAN, KC!ProcessMessage(k, ok)
        PROVE  /\ \A x \in Kc \ {k} : pump'[x] = pump[x]
               /\ pump[k] = "process" /\ pump'[k] \in {"check", "unwind"}
               /\ quit' = quit /\ done' = done
    BY <2>4 DEF KC!ProcessMessage
  <2>5. CASE KC!CloseConsumer(k)
    BY <2>5 DEF KC!CloseConsumer
  <2>6. CASE KC!SendDone(k)
    BY <2>6 DEF KC!SendDone
  <2> QED
    BY <1>4, <2>1, <2>2, <2>3, <2>4, <2>5, <2>6 DEF KC!Pump
<1> QED
  BY <1>2, <1>3, <1>5

(* One step of a handler. *)
LEMMA HandlerMoves ==
  ASSUME IInv, TimeTypes, NEW r \in Request, Handle(r)
  PROVE  /\ \A x \in Request \ {r} : handler'[x] = handler[x] /\ ctx'[x] = ctx[x]
         /\ \A x \in Kc \ {r} : /\ pump'[x] = pump[x] /\ done'[x] = done[x]
                                /\ busy'[x] = busy[x] /\ quit'[x] = quit[x]
         /\ \/ /\ handler[r] = "emit" /\ handler'[r] \in {"launch", "returned"}
               /\ busy'[r] = 0 /\ pump'[r] = pump[r]
            \/ /\ handler[r] = "launch" /\ handler'[r] \in {"launched", "returned"}
               /\ busy'[r] = 0 /\ pump'[r] \in {"check", "failed"}
            \/ /\ handler[r] = "launched" /\ handler'[r] = "select"
               /\ busy'[r] = busy[r] /\ pump'[r] = pump[r]
            \/ /\ handler[r] = "select" /\ handler'[r] = "closing" /\ quit'[r]
               /\ busy'[r] = busy[r] /\ pump'[r] = pump[r]
            \/ /\ handler[r] \in {"select", "closing"} /\ handler'[r] = "returned"
               /\ busy'[r] = busy[r] /\ pump'[r] = pump[r]
         /\ ctx'[r] = "live" => ctx[r] = "live"
         /\ done[r] = "received" => done'[r] = "received"
         /\ UNCHANGED <<main, cleanup, age, shutdownWait, drain>>
<1>1. /\ pump \in [Kc -> {"unborn", "failed", "check", "read", "fault", "process", "unwind",
                          "send", "exited"}]
      /\ quit \in [Kc -> BOOLEAN] /\ done \in [Kc -> {"idle", "waiting", "received"}]
      /\ handler \in [Request -> {"idle", "emit", "launch", "launched", "select", "closing",
                                  "returned"}]
      /\ ctx \in [Request -> {"none", "live", "cancelled"}] /\ busy \in [Kc -> Nat]
  BY Types
<1>2. r \in Kc
  BY Constants
<1>3. /\ UNCHANGED <<main, cleanup, age, shutdownWait, drain>>
      /\ busy' = [busy EXCEPT ![r] = IF handler[r] \in {"emit", "launch"} THEN 0 ELSE @]
      /\ Sse!Handle(r)
  BY DEF Handle, procVars
<1>4. /\ \A x \in Kc \ {r} : busy'[x] = busy[x]
      /\ busy'[r] = IF handler[r] \in {"emit", "launch"} THEN 0 ELSE busy[r]
  BY <1>1, <1>2, <1>3
<1> USE <1>1, <1>2, <1>3, <1>4 DEF Sse!Goto, Sse!Return
<1>5. CASE Sse!EmitRetry(r)
  BY <1>5 DEF Sse!EmitRetry, Sse!kcVars
<1>6. CASE Sse!LaunchFails(r)
  BY <1>6 DEF Sse!LaunchFails, Sse!KC!LaunchFails, Sse!KC!NewConsumerFails, Sse!KC!SubscribeFails,
              Sse!KC!Goto
<1>7. CASE Sse!LaunchOk(r)
  BY <1>7 DEF Sse!LaunchOk, Sse!KC!LaunchOk, Sse!KC!Goto
<1>8. CASE Sse!EnterSelect(r)
  BY <1>8 DEF Sse!EnterSelect, Sse!KC!AwaitDone
<1>9. CASE Sse!ContextDone(r)
  BY <1>9 DEF Sse!ContextDone, Sse!KC!RequestQuit
<1>10. CASE Sse!ListenerGone(r)
  BY <1>10 DEF Sse!ListenerGone, Sse!Waiting, Sse!kcVars
<1> QED
  BY <1>5, <1>6, <1>7, <1>8, <1>9, <1>10 DEF Sse!Handle

(* The steps of main, of its cleanup goroutine and of the server. *)
MainStep == Boot \/ BeginShutdown \/ Exit \/ Cleanup \/ ListenAndServe \/ Signal

LEMMA MainMoves ==
  ASSUME IInv, TimeTypes, MainStep
  PROVE  /\ UNCHANGED <<httpVars, timeVars>>
         /\ \A k \in Kc : quit[k] => quit'[k]
         /\ \A k \in Kc : done[k] = "received" => done'[k] = "received"
         /\ \A k \in Kc : k # Main => pump'[k] = pump[k]
         /\ pump'[Main] = pump[Main] \/ pump'[Main] \in {"check", "failed"}
         /\ main # "launch" => pump'[Main] = pump[Main]
<1>1. /\ pump \in [Kc -> {"unborn", "failed", "check", "read", "fault", "process", "unwind",
                          "send", "exited"}]
      /\ quit \in [Kc -> BOOLEAN] /\ done \in [Kc -> {"idle", "waiting", "received"}]
      /\ Main \in Kc
  BY Types, Constants
<1>2. CASE BeginShutdown \/ Exit \/ ListenAndServe \/ Signal \/ LaunchServer \/ Notify
           \/ ListenerClosed \/ ShutdownDone
  BY <1>2 DEF BeginShutdown, Exit, ListenAndServe, Signal, LaunchServer, Notify, ListenerClosed,
              ShutdownDone, kcVars, httpVars, timeVars
<1>3. CASE LaunchFatal \/ LaunchListener
  <2>1. /\ main = "launch" /\ quit' = quit /\ done' = done /\ UNCHANGED <<httpVars, timeVars>>
        /\ \E s \in {"check", "failed"} : pump' = [pump EXCEPT ![Main] = s]
    BY <1>3 DEF LaunchFatal, LaunchListener, MainGoto, KC!LaunchFails, KC!NewConsumerFails,
                KC!SubscribeFails, KC!LaunchOk, KC!Goto
  <2> QED
    BY <1>1, <2>1
<1>4. CASE QuitListener
  BY <1>1, <1>4 DEF QuitListener, KC!RequestQuit, httpVars, timeVars
<1>5. CASE AwaitListener
  BY <1>1, <1>5 DEF AwaitListener, KC!AwaitDone, httpVars, timeVars
<1> QED
  BY <1>2, <1>3, <1>4, <1>5 DEF MainStep, Boot, Cleanup

(* Every step is one of main, of a request, of a listener, of the clock, or none. *)
LEMMA Steps ==
  ASSUME [Next]_vars
  PROVE  \/ MainStep \/ Tick \/ UNCHANGED vars
         \/ \E r \in Request : Arrive(r) \/ Handle(r) \/ CancelContext(r)
         \/ \E k \in Kc : Listen(k)
  BY DEF Next, MainStep

LEMMA StepGone == IInv /\ TimeTypes /\ GoneIsTold /\ [Next]_vars => GoneIsTold'
<1> SUFFICES ASSUME IInv, TimeTypes, GoneIsTold, [Next]_vars, NEW k \in Kc, pump'[k] = "exited"
             PROVE  done'[k] = "received"
  BY DEF GoneIsTold
<1>0. pump[k] = "exited" => done[k] = "received"
  BY DEF GoneIsTold
<1>1. CASE MainStep
  BY <1>0, <1>1, MainMoves
<1>2. CASE Tick \/ UNCHANGED vars
  BY <1>0, <1>2 DEF Tick, vars, kcVars
<1>3. ASSUME NEW r \in Request, Handle(r) PROVE done'[k] = "received"
  BY <1>0, <1>3, HandlerMoves
<1>4. ASSUME NEW r \in Request, Arrive(r) \/ CancelContext(r) PROVE done'[k] = "received"
  BY <1>0, <1>4 DEF Arrive, CancelContext, Sse!Arrive, Sse!CancelContext, Sse!kcVars
<1>5. ASSUME NEW x \in Kc, Listen(x) PROVE done'[k] = "received"
  BY <1>0, <1>5, PumpMoves
<1> QED
  BY <1>1, <1>2, <1>3, <1>4, <1>5, Steps

LEMMA StepQuit == IInv /\ TimeTypes /\ QuitBeforeClosing /\ [Next]_vars => QuitBeforeClosing'
<1> SUFFICES ASSUME IInv, TimeTypes, QuitBeforeClosing, [Next]_vars,
                    NEW x \in Request, handler'[x] = "closing"
             PROVE  quit'[x]
  BY DEF QuitBeforeClosing
<1>0. (handler[x] = "closing" => quit[x]) /\ x \in Kc
  BY Constants DEF QuitBeforeClosing
<1>1. CASE MainStep
  BY <1>0, <1>1, MainMoves DEF httpVars
<1>2. CASE Tick \/ UNCHANGED vars
  BY <1>0, <1>2 DEF Tick, vars, kcVars, httpVars
<1>3. ASSUME NEW r \in Request, Handle(r) PROVE quit'[x]
  BY <1>0, <1>3, HandlerMoves
<1>4. ASSUME NEW r \in Request, Arrive(r) \/ CancelContext(r) PROVE quit'[x]
  <2>1. quit' = quit
    BY <1>4 DEF Arrive, CancelContext, Sse!Arrive, Sse!CancelContext, Sse!kcVars
  <2>2. handler'[x] = handler[x] \/ handler'[x] = "emit"
    BY <1>4, Types DEF Arrive, CancelContext, Sse!Arrive, Sse!CancelContext, Sse!Goto
  <2> QED
    BY <1>0, <2>1, <2>2
<1>5. ASSUME NEW k \in Kc, Listen(k) PROVE quit'[x]
  BY <1>0, <1>5, PumpMoves
<1> QED
  BY <1>1, <1>2, <1>3, <1>4, <1>5, Steps

LEMMA StepBegins == IInv /\ TimeTypes /\ DrainBegins /\ [Next]_vars => DrainBegins'
<1> SUFFICES ASSUME IInv, TimeTypes, DrainBegins, [Next]_vars PROVE DrainBegins'
  OBVIOUS
<1>0. drain \in Nat /\ Main \in Kc /\ quit \in [Kc -> BOOLEAN]
  BY Types, Constants
<1>1. CASE MainStep
  <2>1. drain' = drain /\ (quit[Main] => quit'[Main])
    BY <1>0, <1>1, MainMoves DEF timeVars
  <2>2. CASE Boot
    BY <2>1, <2>2 DEF Boot, LaunchFatal, LaunchListener, LaunchServer, Notify, MainGoto, DrainBegins
  <2>3. CASE BeginShutdown
    BY <2>1, <2>3 DEF BeginShutdown, MainGoto, DrainBegins
  <2>4. CASE Exit
    BY <2>1, <2>4 DEF Exit, MainGoto, DrainBegins
  <2>5. CASE QuitListener
    BY <1>0, <2>1, <2>5 DEF QuitListener, CleanupGoto, KC!RequestQuit, DrainBegins
  <2>6. CASE AwaitListener \/ ListenerClosed \/ ShutdownDone
    BY <2>1, <2>6 DEF AwaitListener, ListenerClosed, ShutdownDone, CleanupGoto, DrainBegins
  <2>7. CASE ListenAndServe
    BY <2>1, <2>7 DEF ListenAndServe, DrainBegins
  <2>8. CASE Signal
    BY <2>1, <2>8 DEF Signal, Deliver, Booting, DrainBegins
  <2> QED
    BY <1>1, <2>2, <2>3, <2>4, <2>5, <2>6, <2>7, <2>8 DEF MainStep, Cleanup
<1>2. CASE Tick
  BY <1>0, <1>2 DEF Tick, MainBlocks, kcVars, procVars, DrainBegins
<1>3. CASE UNCHANGED vars
  BY <1>3 DEF vars, kcVars, procVars, timeVars, DrainBegins
<1>4. ASSUME NEW r \in Request, Arrive(r) \/ Handle(r) \/ CancelContext(r) PROVE DrainBegins'
  <2>1. quit'[Main] = quit[Main]
    BY <1>4, RequestLeavesMain DEF IInv
  <2>2. UNCHANGED <<main, cleanup, drain>>
    BY <1>4 DEF Arrive, Handle, CancelContext, procVars, timeVars
  <2> QED
    BY <2>1, <2>2 DEF DrainBegins
<1>5. ASSUME NEW k \in Kc, Listen(k) PROVE DrainBegins'
  <2>1. /\ UNCHANGED <<quit, cleanup, drain>>
        /\ main' = main \/ (main \in Booting /\ main' = "killed")
    BY <1>5, PumpMoves
  <2> QED
    BY <2>1 DEF DrainBegins, Booting
<1> QED
  BY <1>1, <1>2, <1>3, <1>4, <1>5, Steps

(* A call is cut off at its time-out, and the counting of the next one starts at 0. *)
LEMMA StepCalls == IInv /\ TimeTypes /\ CallsAreShort /\ [Next]_vars => CallsAreShort'
<1> SUFFICES ASSUME IInv, TimeTypes, CallsAreShort, [Next]_vars, NEW k \in Kc
             PROVE  busy'[k] <= CallLimit(k)'
  BY DEF CallsAreShort
<1>0. /\ busy[k] <= CallLimit(k) /\ busy[k] \in Nat
      /\ CallLimit(k) \in Nat /\ CallLimit(k)' \in Nat
  BY Types, Constants DEF CallsAreShort, CallLimit
<1>1. ASSUME busy'[k] = 0 PROVE busy'[k] <= CallLimit(k)'
  BY <1>0, <1>1
<1>2. ASSUME busy'[k] = busy[k], pump'[k] = pump[k],
             k \in Request => (handler'[k] = "emit" <=> handler[k] = "emit")
      PROVE  busy'[k] <= CallLimit(k)'
  <2>1. k # Main => k \in Request
    BY DEF Kc
  <2>2. CallLimit(k)' = CallLimit(k)
    BY <1>2, <2>1 DEF CallLimit
  <2> QED
    BY <1>0, <1>2, <2>2
<1>3. CASE MainStep
  <2>1. busy' = busy /\ handler' = handler /\ (k = Main \/ pump'[k] = pump[k])
    BY <1>3, MainMoves DEF timeVars, httpVars
  <2>2. CASE main = "launch" /\ k = Main
    <3>1. pump[k] = "unborn"
      BY <2>2 DEF IInv, ServiceInv, MainProgress
    <3>2. CallLimit(k) = 0
      BY <2>2, <3>1 DEF CallLimit
    <3> QED
      BY <1>0, <1>1, <2>1, <3>2
  <2> QED
    BY <1>2, <1>3, <2>1, <2>2, MainMoves
<1>4. CASE Tick
  <2>1. CallLimit(k)' = CallLimit(k)
    BY <1>4 DEF Tick, CallLimit, kcVars, httpVars
  <2>2. busy'[k] = IF CallLimit(k) > 0 THEN busy[k] + 1 ELSE busy[k]
    BY <1>4 DEF Tick
  <2>3. ASSUME CallLimit(k) > 0 PROVE busy[k] < CallLimit(k)
    <3>1. pump[k] = "send" => CallLimit(k) = 0
      BY Constants DEF CallLimit, Kc, IInv, SSP!IInv, SSP!HandlerFollowsPump
    <3>2. ListenerBlocks(k)
      BY <1>4 DEF Tick
    <3> QED
      BY <2>3, <3>1, <3>2 DEF ListenerBlocks
  <2> QED
    BY <1>0, <2>1, <2>2, <2>3
<1>5. CASE UNCHANGED vars
  BY <1>2, <1>5 DEF vars, kcVars, httpVars, timeVars
<1>6. ASSUME NEW r \in Request, Arrive(r) PROVE busy'[k] <= CallLimit(k)'
  <2>1. /\ pump' = pump /\ busy' = busy /\ handler[r] = "idle"
        /\ \A x \in Request : x # r => handler'[x] = handler[x]
    BY <1>6, Types DEF Arrive, Sse!Arrive, Sse!Goto, Sse!kcVars, timeVars
  <2>2. CASE k = r
    <3>1. pump[k] = "unborn" /\ k # Main
      BY <2>1, <2>2, Constants DEF IInv, SSP!IInv, SSP!HandlerFollowsPump
    <3>2. CallLimit(k) = 0
      BY <2>1, <2>2, <3>1 DEF CallLimit
    <3> QED
      BY <1>0, <1>1, <2>1, <3>2
  <2> QED
    BY <1>2, <2>1, <2>2
<1>7. ASSUME NEW r \in Request, Handle(r) PROVE busy'[k] <= CallLimit(k)'
  BY <1>1, <1>2, <1>7, HandlerMoves
<1>8. ASSUME NEW r \in Request, CancelContext(r) PROVE busy'[k] <= CallLimit(k)'
  BY <1>2, <1>8 DEF CancelContext, Sse!CancelContext, Sse!kcVars, timeVars
<1>9. ASSUME NEW x \in Kc, Listen(x) PROVE busy'[k] <= CallLimit(k)'
  BY <1>1, <1>2, <1>9, PumpMoves
<1> QED
  BY <1>3, <1>4, <1>5, <1>6, <1>7, <1>8, <1>9, Steps

(* The clock of the listener Main. *)
LEMMA StepMainClock ==
  ASSUME IInv, Timed, [Next]_vars, main' = "drain"
  PROVE  MainClock'
<1>0. /\ drain \in Nat /\ busy[Main] \in Nat /\ Main \in Kc /\ WaitTimeout \in Nat \ {0}
      /\ quit \in [Kc -> BOOLEAN]
  BY Types, Constants DEF Timed
<1>1. main = "drain" => MainClock
  BY DEF Timed, DrainClock
<1>2. CASE MainStep
  <2>1. UNCHANGED <<drain, busy>> /\ (quit[Main] => quit'[Main])
    BY <1>0, <1>2, MainMoves DEF Timed, timeVars
  <2>2. CASE main = "drain"
    <3>1. pump'[Main] = pump[Main]
      BY <1>2, <2>2, MainMoves DEF Timed
    <3>2. cleanup \in {"shutdown", "finished"} => cleanup' \in {"shutdown", "finished"}
      BY <1>2, <2>2 DEF MainStep, Boot, LaunchFatal, LaunchListener, LaunchServer, Notify,
         BeginShutdown, Exit, Cleanup, QuitListener, AwaitListener, ListenerClosed, ShutdownDone,
         ListenAndServe, Signal, MainGoto, CleanupGoto
    <3> QED
      BY <1>1, <2>1, <2>2, <3>1, <3>2 DEF MainClock
  <2>3. CASE main # "drain"
    <3>1. main = "signal"
      BY <1>2, <2>3 DEF MainStep, Boot, LaunchFatal, LaunchListener, LaunchServer, Notify,
         BeginShutdown, Exit, Cleanup, QuitListener, AwaitListener, ListenerClosed, ShutdownDone,
         ListenAndServe, Signal, MainGoto, CleanupGoto, Deliver
    <3>2. drain' = 0
      BY <2>1, <3>1 DEF Timed, DrainBegins
    <3> QED
      BY <1>0, <2>1, <3>2 DEF MainClock
  <2> QED
    BY <2>2, <2>3
<1>3. CASE Tick
  <2>1. main = "drain" /\ MainBlocks /\ ListenerBlocks(Main) /\ drain' = drain + 1
        /\ UNCHANGED <<pump, quit, cleanup, done>>
    BY <1>0, <1>3 DEF Tick, procVars, kcVars
  <2>2. cleanup \in {"closing", "shutdown"} /\ quit[Main]
    BY <2>1 DEF MainBlocks, Timed, DrainBegins
  <2>3. ASSUME pump[Main] = "read" PROVE busy'[Main] = busy[Main] + 1 /\ busy[Main] < WaitTimeout
    BY <1>0, <1>3, <2>1, <2>3 DEF Tick, CallLimit, ListenerBlocks
  <2>4. ASSUME cleanup \notin {"shutdown", "finished"} PROVE pump[Main] = "read"
    <3>1. done[Main] = "waiting"
      BY <2>1, <2>4 DEF MainBlocks
    <3>2. pump[Main] \notin {"unborn", "failed", "exited"}
      BY <1>0, <2>1, <3>1 DEF Timed, GoneIsTold, IInv, ServiceInv, MainProgress
    <3>3. busy[Main] < CallLimit(Main)
      BY <2>1, <3>1, <3>2 DEF ListenerBlocks
    <3> QED
      BY <1>0, <3>3 DEF CallLimit
  <2> QED
    BY <1>0, <1>1, <2>1, <2>2, <2>3, <2>4 DEF MainClock
<1>4. CASE UNCHANGED vars
  BY <1>1, <1>4 DEF vars, kcVars, procVars, timeVars, MainClock
<1>5. ASSUME NEW r \in Request, Arrive(r) \/ Handle(r) \/ CancelContext(r) PROVE MainClock'
  <2>1. /\ UNCHANGED <<main, cleanup, drain>> /\ busy'[Main] = busy[Main]
    BY <1>5, Types, Constants DEF Timed, Arrive, Handle, CancelContext, procVars, timeVars
  <2>2. pump'[Main] = pump[Main] /\ quit'[Main] = quit[Main]
    BY <1>5, RequestLeavesMain DEF IInv
  <2> QED
    BY <1>1, <2>1, <2>2 DEF MainClock
<1>6. ASSUME NEW k \in Kc, Listen(k) PROVE MainClock'
  <2>1. UNCHANGED <<quit, cleanup, drain>> /\ main = "drain"
    BY <1>6, PumpMoves DEF Timed
  <2>2. pump'[Main] = "read" =>
          \/ pump[Main] = "read" /\ busy'[Main] = busy[Main]
          \/ ~quit[Main] /\ busy'[Main] = 0
    <3>1. CASE k = Main
      BY <1>6, <3>1, PumpMoves DEF Timed
    <3>2. CASE k # Main
      BY <1>0, <1>6, <3>2, PumpMoves DEF Timed
    <3> QED
      BY <3>1, <3>2
  <2> QED
    BY <1>0, <1>1, <2>1, <2>2 DEF MainClock
<1> QED
  BY <1>2, <1>3, <1>4, <1>5, <1>6, Steps

(* The clock of a request. *)
LEMMA StepRequestClock ==
  ASSUME IInv, Timed, [Next]_vars, main' = "drain", NEW x \in Request
  PROVE  RequestClock(x)'
<1>0. /\ drain \in Nat /\ busy[x] \in Nat /\ age[x] \in Nat /\ age[x] <= ReadTimeout /\ x \in Kc
      /\ WaitTimeout \in Nat \ {0} /\ WriteDeadline \in Nat \ {0} /\ ReadTimeout \in Nat \ {0}
      /\ ContextMinded \in Nat /\ ReadTimeout <= ContextMinded /\ WriteDeadline <= ContextMinded
  BY Types, Constants DEF Timed
<1>1. main = "drain" => RequestClock(x)
  BY DEF Timed, DrainClock
<1>2. busy[x] <= CallLimit(x) /\ x # Main
  BY <1>0, Constants DEF Timed, CallsAreShort
<1>3. /\ pump[x] = "read" => busy[x] <= WaitTimeout
      /\ pump[x] = "process" => busy[x] <= WriteDeadline
      /\ handler[x] = "emit" => busy[x] <= WriteDeadline
  <2>1. handler[x] = "emit" => pump[x] = "unborn"
    BY DEF IInv, SSP!IInv, SSP!HandlerFollowsPump
  <2> QED
    BY <1>0, <1>2, <2>1 DEF CallLimit
<1>4. ASSUME main = "drain",
             drain' = drain, age'[x] = age[x], busy'[x] = busy[x], handler'[x] = handler[x],
             ctx'[x] = "live" => ctx[x] = "live", pump'[x] = pump[x]
      PROVE  RequestClock(x)'
  BY <1>1, <1>4 DEF RequestClock, ContextMinded
<1>5. CASE MainStep
  <2>1. UNCHANGED <<drain, busy, age, handler, ctx>> /\ pump'[x] = pump[x]
    BY <1>0, <1>2, <1>5, MainMoves DEF Timed, timeVars, httpVars
  <2>2. CASE main # "drain"
    <3>1. main = "signal"
      BY <1>5, <2>2 DEF MainStep, Boot, LaunchFatal, LaunchListener, LaunchServer, Notify,
         BeginShutdown, Exit, Cleanup, QuitListener, AwaitListener, ListenerClosed, ShutdownDone,
         ListenAndServe, Signal, MainGoto, CleanupGoto, Deliver
    <3>2. drain' = 0
      BY <2>1, <3>1 DEF Timed, DrainBegins
    <3>3. busy'[x] \in Nat /\ age'[x] \in Nat /\ ContextMinded' = ContextMinded
      BY <1>0, <2>1 DEF ContextMinded
    <3> QED
      BY <1>0, <3>2, <3>3 DEF RequestClock
  <2> QED
    BY <1>4, <2>1, <2>2
<1>6. CASE Tick
  <2>1. /\ main = "drain" /\ drain' = drain + 1 /\ UNCHANGED <<pump, quit, handler, ctx>>
        /\ HandlerBlocks(x) /\ ListenerBlocks(x) /\ (ctx[x] = "live" => age[x] < ReadTimeout)
        /\ busy'[x] = IF CallLimit(x) > 0 THEN busy[x] + 1 ELSE busy[x]
        /\ age'[x] = IF ctx[x] = "live" THEN age[x] + 1 ELSE age[x]
    BY <1>0, <1>6 DEF Tick, procVars, kcVars, httpVars
  <2>2. RequestClock(x) /\ ContextMinded' = ContextMinded
    BY <1>1, <2>1 DEF ContextMinded
  <2>3. ASSUME ctx'[x] = "live" PROVE drain' <= WaitTimeout + age'[x]
    BY <1>0, <2>1, <2>2, <2>3 DEF RequestClock
  <2>4. ASSUME handler'[x] = "emit" PROVE drain' <= WaitTimeout + busy'[x]
    <3>1. CallLimit(x) = WriteDeadline
      <4>1. pump[x] = "unborn"
        BY <2>1, <2>4 DEF IInv, SSP!IInv, SSP!HandlerFollowsPump
      <4> QED
        BY <1>2, <2>1, <2>4, <4>1 DEF CallLimit
    <3> QED
      BY <1>0, <2>1, <2>2, <2>4, <3>1 DEF RequestClock
  <2>5. ASSUME handler'[x] \in {"launch", "launched", "select"}
        PROVE  drain' <= WaitTimeout + ContextMinded
    <3>1. ctx[x] = "live"
      BY <2>1, <2>5 DEF HandlerBlocks
    <3>2. drain <= WaitTimeout + age[x] /\ age[x] < ReadTimeout
      BY <2>1, <2>2, <3>1 DEF RequestClock
    <3> QED
      BY <1>0, <2>1, <3>2
  <2>6. ASSUME handler'[x] = "closing"
        PROVE  /\ pump'[x] = "read" => drain' <= WaitTimeout + ContextMinded + busy'[x]
               /\ pump'[x] = "process" => drain' <= 2 * WaitTimeout + ContextMinded + busy'[x]
               /\ drain' <= 2 * WaitTimeout + ContextMinded + WriteDeadline
    <3>1. done[x] = "waiting" /\ handler[x] = "closing"
      BY <2>1, <2>6 DEF HandlerBlocks
    <3>2. pump[x] \notin {"unborn", "failed", "exited"}
      BY <1>0, <3>1 DEF Timed, GoneIsTold, IInv, SSP!IInv, SSP!HandlerFollowsPump, SSP!Waiting
    <3>3. busy[x] < CallLimit(x)
      BY <2>1, <3>1, <3>2 DEF ListenerBlocks
    <3>4. \/ pump[x] = "read" /\ CallLimit(x) = WaitTimeout
          \/ pump[x] = "process" /\ CallLimit(x) = WriteDeadline
      BY <1>0, <1>2, <3>1, <3>3 DEF CallLimit
    <3>5. /\ pump[x] = "read" => drain <= WaitTimeout + ContextMinded + busy[x]
          /\ pump[x] = "process" => drain <= 2 * WaitTimeout + ContextMinded + busy[x]
      BY <2>2, <3>1 DEF RequestClock
    <3>6. busy'[x] = busy[x] + 1
      BY <1>0, <2>1, <3>4
    <3> QED
      BY <1>0, <2>1, <3>3, <3>4, <3>5, <3>6
  <2> QED
    BY <2>2, <2>3, <2>4, <2>5, <2>6 DEF RequestClock
<1>7. CASE UNCHANGED vars
  BY <1>4, <1>7 DEF vars, kcVars, httpVars, procVars, timeVars
<1>8. ASSUME NEW r \in Request, Arrive(r) PROVE RequestClock(x)'
  <2>1. /\ UNCHANGED <<main, drain, age, busy, pump>> /\ server = "listening"
        /\ handler' = [handler EXCEPT ![r] = "emit"] /\ ctx' = [ctx EXCEPT ![r] = "live"]
        /\ main = "drain"
    BY <1>8 DEF Arrive, Sse!Arrive, Sse!Goto, Sse!kcVars, procVars, timeVars
  <2>2. CASE x = r
    <3>1. drain <= WaitTimeout
      BY <2>1 DEF IInv, ServiceInv, CleanupProgress, Timed, DrainClock, MainClock
    <3>2. handler'[x] = "emit" /\ ContextMinded' = ContextMinded
      BY <2>1, <2>2, Types DEF Timed, ContextMinded
    <3> QED
      BY <1>0, <2>1, <3>1, <3>2 DEF RequestClock
  <2>3. CASE x # r
    BY <1>4, <2>1, <2>3, Types DEF Timed
  <2> QED
    BY <2>2, <2>3
<1>9. ASSUME NEW r \in Request, Handle(r) PROVE RequestClock(x)'
  <2>1. UNCHANGED <<main, age, drain>> /\ main = "drain"
    BY <1>9, HandlerMoves DEF Timed
  <2>2. CASE x # r
    BY <1>0, <1>4, <1>9, <2>1, <2>2, HandlerMoves DEF Timed
  <2>3. CASE x = r
    <3>1. /\ \/ /\ handler[x] = "emit" /\ handler'[x] \in {"launch", "returned"}
             \/ /\ handler[x] = "launch" /\ handler'[x] \in {"launched", "returned"}
             \/ /\ handler[x] = "launched" /\ handler'[x] = "select"
             \/ /\ handler[x] = "select" /\ handler'[x] = "closing"
                /\ busy'[x] = busy[x] /\ pump'[x] = pump[x]
             \/ /\ handler[x] \in {"select", "closing"} /\ handler'[x] = "returned"
          /\ ctx'[x] = "live" => ctx[x] = "live"
      BY <1>9, <2>3, HandlerMoves DEF Timed
    <3>2. RequestClock(x) /\ ContextMinded' = ContextMinded
      BY <1>1, <2>1 DEF ContextMinded
    <3>3. ctx'[x] = "live" => drain' <= WaitTimeout + age'[x]
      BY <2>1, <3>1, <3>2 DEF RequestClock
    <3>4. handler'[x] \in {"launch", "launched", "select"} => drain' <= WaitTimeout + ContextMinded
      BY <1>0, <1>3, <2>1, <3>1, <3>2 DEF RequestClock
    <3>5. ASSUME handler'[x] = "closing"
          PROVE  /\ drain' <= WaitTimeout + ContextMinded + busy'[x]
                 /\ drain' <= 2 * WaitTimeout + ContextMinded + busy'[x]
                 /\ drain' <= 2 * WaitTimeout + ContextMinded + WriteDeadline
      <4>1. CASE handler[x] = "closing"
        BY <3>1, <3>5, <4>1
      <4>2. CASE handler[x] = "select"
        <5>1. drain' <= WaitTimeout + ContextMinded /\ busy'[x] \in Nat /\ drain' \in Nat
          BY <1>0, <2>1, <3>1, <3>2, <4>2, <3>5 DEF RequestClock
        <5> QED
          BY <1>0, <5>1
      <4> QED
        BY <3>1, <3>5, <4>1, <4>2
    <3>6. handler'[x] # "emit"
      BY <3>1
    <3> QED
      BY <1>0, <3>2, <3>3, <3>4, <3>5, <3>6 DEF RequestClock
  <2> QED
    BY <2>2, <2>3
<1>10. ASSUME NEW r \in Request, CancelContext(r) PROVE RequestClock(x)'
  BY <1>4, <1>10, Types
     DEF Timed, CancelContext, Sse!CancelContext, Sse!kcVars, procVars, timeVars
<1>11. ASSUME NEW k \in Kc, Listen(k) PROVE RequestClock(x)'
  <2>1. UNCHANGED <<drain, age, handler, ctx>> /\ main = "drain"
    BY <1>11, PumpMoves DEF Timed
  <2>2. CASE k # x
    BY <1>0, <1>4, <1>11, <2>1, <2>2, PumpMoves DEF Timed
  <2>3. CASE k = x
    <3>1. /\ busy'[x] = 0
          /\ \/ ~quit[x]
             \/ pump[x] = "read" /\ pump'[x] # "read"
             \/ pump'[x] \notin {"read", "process"}
          /\ pump[x] \notin {"unborn", "failed"}
      BY <1>11, <2>3, PumpMoves DEF Timed
    <3>2. RequestClock(x) /\ ContextMinded' = ContextMinded
      BY <1>1, <2>1 DEF ContextMinded
    <3>3. handler[x] = "closing" => quit[x]
      BY DEF Timed, QuitBeforeClosing
    <3>4. handler[x] # "emit"
      BY <3>1 DEF IInv, SSP!IInv, SSP!HandlerFollowsPump
    <3>5. ASSUME handler'[x] = "closing"
          PROVE  /\ pump'[x] # "read"
                 /\ pump'[x] = "process" => drain' <= 2 * WaitTimeout + ContextMinded
                 /\ drain' <= 2 * WaitTimeout + ContextMinded + WriteDeadline
      BY <1>0, <1>3, <2>1, <3>1, <3>2, <3>3, <3>5 DEF RequestClock
    <3> QED
      BY <1>0, <2>1, <3>1, <3>2, <3>4, <3>5 DEF RequestClock
  <2> QED
    BY <2>2, <2>3
<1> QED
  BY <1>5, <1>6, <1>7, <1>8, <1>9, <1>10, <1>11, Steps

LEMMA AlwaysTimed == Safety => [](IInv /\ Timed)
<1>1. ASSUME Init PROVE Timed
  <2>1. /\ pump = [k \in Kc |-> "unborn"] /\ busy = [k \in Kc |-> 0] /\ main = "launch"
        /\ cleanup = "none" /\ drain = 0 /\ handler = [r \in Request |-> "idle"] /\ TimeTypes
    BY <1>1, ServiceAssumption
       DEF Init, Sse!Init, Sse!KC!Init, Sse!HttpInit, TimeTypes, ServiceAssumption
  <2>2. ASSUME NEW k \in Kc PROVE CallLimit(k) \in Nat
    BY Constants DEF CallLimit
  <2> QED
    BY <2>1, <2>2 DEF Timed, DrainBegins, CallsAreShort, GoneIsTold, QuitBeforeClosing, DrainClock
<1>2. IInv /\ Timed /\ [Next]_vars => Timed'
  <2> SUFFICES ASSUME IInv, Timed, [Next]_vars PROVE Timed'
    OBVIOUS
  <2>1. TimeTypes' /\ DrainBegins' /\ CallsAreShort' /\ GoneIsTold' /\ QuitBeforeClosing'
    BY StepTime, StepBegins, StepCalls, StepGone, StepQuit DEF Timed
  <2>2. DrainClock'
    BY StepMainClock, StepRequestClock DEF DrainClock
  <2> QED
    BY <2>1, <2>2 DEF Timed
<1> QED
  BY <1>1, <1>2, AlwaysIInv, PTL DEF Safety

-----------------------------------------------------------------------------
(* What has been left when the process exits. *)

(* A process that has exited does nothing more. *)
LEMMA ExitIsFinal ==
  ASSUME IInv, Timed, [Next]_vars, main = "exited"
  PROVE  UNCHANGED <<main, client, shutdownWait>>
<1>1. CASE MainStep \/ Tick
  BY <1>1 DEF MainStep, Boot, LaunchFatal, LaunchListener, LaunchServer, Notify, BeginShutdown,
     Exit, Cleanup, QuitListener, AwaitListener, ListenerClosed, ShutdownDone, ListenAndServe,
     Signal, Tick, MainBlocks, MainGoto, CleanupGoto, Alive, Ended
<1>2. CASE UNCHANGED vars
  BY <1>2 DEF vars, kcVars, procVars, timeVars
<1>3. ASSUME NEW r \in Request, Arrive(r) \/ Handle(r) \/ CancelContext(r) PROVE FALSE
  BY <1>3 DEF Arrive, Handle, CancelContext, Alive, Ended
<1>4. ASSUME NEW k \in Kc, Listen(k) PROVE FALSE
  BY <1>4 DEF Listen, Alive, Ended
<1> QED
  BY <1>1, <1>2, <1>3, <1>4, Steps

(* main reaches its exit from the shutdown only, by Exit. *)
LEMMA ExitOnly ==
  ASSUME IInv, Timed, [Next]_vars, main # "exited", main' = "exited"
  PROVE  Exit
<1>1. CASE MainStep
  BY <1>1 DEF MainStep, Boot, LaunchFatal, LaunchListener, LaunchServer, Notify, BeginShutdown,
     Cleanup, QuitListener, AwaitListener, ListenerClosed, ShutdownDone, ListenAndServe,
     Signal, Deliver, MainGoto, CleanupGoto
<1>2. CASE Tick \/ UNCHANGED vars
  BY <1>2 DEF Tick, vars, procVars
<1>3. ASSUME NEW r \in Request, Arrive(r) \/ Handle(r) \/ CancelContext(r) PROVE FALSE
  BY <1>3 DEF Arrive, Handle, CancelContext, procVars
<1>4. ASSUME NEW k \in Kc, Listen(k) PROVE FALSE
  BY <1>4, PumpMoves DEF Timed
<1> QED
  BY <1>1, <1>2, <1>3, <1>4, Steps

(* A listener that has not closed its client has still to come back from a call. *)
LEMMA OpenIsEarly ==
  ASSUME IInv, Timed, main = "drain"
  PROVE  /\ client[Main] # "closed" => drain <= WaitTimeout
         /\ \A r \in Request : client[r] = "open" =>
                drain <= 2 * WaitTimeout + ContextMinded + WriteDeadline
<1>0. /\ drain \in Nat /\ Main \in Kc /\ Request \subseteq Kc
      /\ WaitTimeout \in Nat /\ WriteDeadline \in Nat /\ ContextMinded \in Nat
  BY Types, Constants DEF Timed
<1>1. ASSUME client[Main] # "closed" PROVE drain <= WaitTimeout
  <2>1. pump[Main] # "exited"
    BY <1>0, <1>1 DEF IInv, SSP!IInv, SSP!KCP!IInv, SSP!KCP!ClientFollowsPump
  <2>2. cleanup \notin {"shutdown", "finished"}
    BY <1>0, <2>1 DEF IInv, ServiceInv, CleanupProgress, SSP!IInv, SSP!KCP!IInv,
                      SSP!KCP!ReceivedAfterSend
  <2> QED
    BY <2>2 DEF Timed, DrainClock, MainClock
<1>2. ASSUME NEW r \in Request, client[r] = "open"
      PROVE  drain <= 2 * WaitTimeout + ContextMinded + WriteDeadline
  <2>1. pump[r] \notin {"unborn", "failed", "exited"}
    BY <1>0, <1>2 DEF IInv, SSP!IInv, SSP!KCP!IInv, SSP!KCP!ClientFollowsPump, SSP!KCP!Looping
  <2>2. handler[r] \in {"launched", "select", "closing"}
    BY <2>1, Types DEF Timed, IInv, SSP!IInv, SSP!HandlerFollowsPump
  <2>3. RequestClock(r)
    BY DEF Timed, DrainClock
  <2> QED
    BY <1>0, <2>2, <2>3 DEF RequestClock
<1> QED
  BY <1>1, <1>2

(* The listener of main.go leaves the consumer group in every shutdown whose deadline is above
   WaitTimeout, whatever the requests do: it is closed before the server is shut down. *)
THEOREM MainLeavesGroupAlways == Spec => []MainLeavesGroup
<1>1. Init => MainLeavesGroup
  BY DEF Init, MainLeavesGroup
<1>2. IInv /\ Timed /\ MainLeavesGroup /\ [Next]_vars => MainLeavesGroup'
  <2> SUFFICES ASSUME IInv, Timed, MainLeavesGroup, [Next]_vars, main' = "exited",
                      shutdownWait' > WaitTimeout
               PROVE  client'[Main] = "closed"
    BY DEF MainLeavesGroup
  <2>1. CASE main = "exited"
    BY <2>1, ExitIsFinal DEF MainLeavesGroup
  <2>2. CASE main # "exited"
    <3>1. /\ main = "drain" /\ (cleanup = "finished" \/ drain = shutdownWait)
          /\ UNCHANGED <<client, shutdownWait>>
      BY <2>2, ExitOnly DEF Exit, MainGoto, kcVars, timeVars
    <3>2. cleanup = "finished" => client[Main] = "closed"
      BY Constants DEF IInv, ServiceInv, CleanupProgress, SSP!IInv, SSP!KCP!IInv,
                       SSP!KCP!ReceivedAfterSend, SSP!KCP!ClientFollowsPump
    <3>3. drain = shutdownWait => client[Main] = "closed"
      BY <3>1, OpenIsEarly, Types, Constants DEF Timed
    <3> QED
      BY <3>1, <3>2, <3>3
  <2> QED
    BY <2>1, <2>2
<1> QED
  BY <1>1, <1>2, AlwaysTimed, PTL DEF Spec, Safety

(* No member of the consumer group is left behind by a shutdown whose deadline is above the sum of
   the time-outs that its longest course goes through, for any number of requests. *)
THEOREM EveryMemberLeavesAlways == Spec => []EveryMemberLeaves
<1>1. Init => EveryMemberLeaves
  BY DEF Init, EveryMemberLeaves
<1>2. IInv /\ Timed /\ EveryMemberLeaves /\ [Next]_vars => EveryMemberLeaves'
  <2> DEFINE Sum == 2 * WaitTimeout + ContextMinded + WriteDeadline
  <2>0. WaitTimeout \in Nat /\ WriteDeadline \in Nat /\ ContextMinded \in Nat /\ Sum \in Nat
        /\ WaitTimeout <= Sum
    BY Constants
  <2>a. ContextMinded' = ContextMinded
    BY DEF ContextMinded
  <2> SUFFICES ASSUME IInv, Timed, EveryMemberLeaves, [Next]_vars, main' = "exited",
                      shutdownWait' > Sum, NEW k \in Kc
               PROVE  client'[k] # "open"
    BY <2>a DEF EveryMemberLeaves
  <2>1. CASE main = "exited"
    BY <2>1, ExitIsFinal DEF EveryMemberLeaves
  <2>2. CASE main # "exited"
    <3>1. /\ main = "drain" /\ (cleanup = "finished" \/ drain = shutdownWait)
          /\ UNCHANGED <<client, shutdownWait>>
      BY <2>2, ExitOnly DEF Exit, MainGoto, kcVars, timeVars
    <3>2. cleanup = "finished" => client[k] # "open"
      BY FinishedIsEmpty
    <3>3. drain = shutdownWait => client[k] # "open"
      <4>1. k = Main \/ k \in Request
        BY DEF Kc
      <4>2. client[k] = "open" => drain <= Sum
        BY <2>0, <3>1, <4>1, OpenIsEarly, Types DEF Timed
      <4>3. shutdownWait \in Nat /\ drain \in Nat
        BY Types DEF Timed
      <4> QED
        BY <2>0, <3>1, <4>2, <4>3
    <3> QED
      BY <3>1, <3>2, <3>3
  <2> QED
    BY <2>1, <2>2
<1> QED
  BY <1>1, <1>2, AlwaysTimed, PTL DEF Spec, Safety
=============================================================================
