------------------------- MODULE SseConsumerProofs --------------------------
(***************************************************************************)
(* The safety of a /consume request (handlers/sseconsumer.go), for any     *)
(* number of requests: the handler respects the protocol of its listener,  *)
(* so that the invariants proved of KafkaConsumer hold of it too.          *)
(***************************************************************************)
EXTENDS SseConsumer, TLAPS

KCP == INSTANCE KafkaConsumerProofs

(* Where the listener of a request may be for each place of its handler. *)
HandlerFollowsPump ==
    \A r \in Request :
        /\ handler[r] \in {"idle", "emit", "launch"} => pump[r] = "unborn"
        /\ handler[r] \in {"launched"} \cup Waiting => pump[r] \notin {"unborn", "failed"}
        /\ handler[r] = "returned" => pump[r] \in {"unborn", "failed", "exited"}
        /\ handler[r] \in {"idle", "emit", "launch", "launched"} => done[r] = "idle"

IInv == TypeOK /\ KCP!IInv /\ HandlerFollowsPump

LEMMA InitIInv == Init => IInv
<1> SUFFICES ASSUME Init PROVE IInv
  OBVIOUS
<1>1. KCP!IInv
  BY KCP!InitIInv DEF Init, KC!Init, KCP!Init
<1>2. TypeOK
  BY <1>1 DEF KCP!IInv, KCP!TypeOK, KC!TypeOK, TypeOK, Init, HttpInit, KCP!PumpStates,
     KC!PumpStates, KCP!Looping, KC!Looping
<1>3. HandlerFollowsPump
  BY RequestAssumption DEF HandlerFollowsPump, Init, HttpInit, KC!Init, Waiting, RequestAssumption
<1> QED
  BY <1>1, <1>2, <1>3 DEF IInv

-----------------------------------------------------------------------------
(* What KafkaConsumerProofs says of KCP!Next, said of the instance that the model uses. *)
LEMMA ListenerSame == KC!Next => KCP!Next
  BY DEF KC!Next, KC!Launch, KC!LaunchFails, KC!NewConsumerFails, KC!SubscribeFails, KC!LaunchOk,
         KC!Pump, KC!CheckQuit, KC!ReadTimesOut, KC!ReadFails, KC!ReadMessage, KC!HandleError,
         KC!ProcessMessage, KC!CloseConsumer, KC!SendDone, KC!Owner, KC!RequestQuit, KC!AwaitDone,
         KC!Goto, KC!Launched,
         KCP!Next, KCP!Launch, KCP!LaunchFails, KCP!NewConsumerFails, KCP!SubscribeFails,
         KCP!LaunchOk, KCP!Pump, KCP!CheckQuit, KCP!ReadTimesOut, KCP!ReadFails, KCP!ReadMessage,
         KCP!HandleError, KCP!ProcessMessage, KCP!CloseConsumer, KCP!SendDone, KCP!Owner,
         KCP!RequestQuit, KCP!AwaitDone, KCP!Goto, KCP!Launched

LEMMA ListenerStep == KCP!IInv /\ [KC!Next]_kcVars => KCP!IInv'
<1>1. UNCHANGED kcVars => UNCHANGED KCP!kcVars
  BY DEF kcVars, KCP!kcVars
<1> QED
  BY <1>1, ListenerSame, KCP!StepIInv

LEMMA ListenerTypes == KCP!IInv => KC!TypeOK
  BY DEF KCP!IInv, KCP!TypeOK, KC!TypeOK, KCP!PumpStates, KC!PumpStates, KCP!Looping, KC!Looping

(* A step of an owner that the protocol of the listener allows. *)
LEMMA OwnerStep ==
  ASSUME NEW k \in Kc, KC!Launch(k) \/ KC!Owner(k)
  PROVE  KC!Next
  BY DEF KC!Next

LEMMA PumpStep ==
  ASSUME NEW k \in Kc, KC!Pump(k)
  PROVE  KC!Next
  BY DEF KC!Next

(* Each step of a request leaves its listener alone or is one that the protocol allows. *)
LEMMA HandleObeys ==
  ASSUME IInv, NEW r \in Request, Handle(r)
  PROVE  [KC!Next]_kcVars
<1> r \in Kc
  BY RequestAssumption DEF RequestAssumption
<1>1. CASE EmitRetry(r)
  BY <1>1 DEF EmitRetry
<1>2. CASE LaunchFails(r)
  BY <1>2, OwnerStep DEF LaunchFails, KC!Launch
<1>3. CASE LaunchOk(r)
  BY <1>3, OwnerStep DEF LaunchOk, KC!Launch
<1>4. CASE EnterSelect(r)
  <2>1. KC!Owner(r)
    BY <1>4 DEF EnterSelect, Goto, KC!AwaitDone, KC!Owner, KC!Launched, IInv, HandlerFollowsPump
  <2> QED
    BY <2>1, OwnerStep
<1>5. CASE ContextDone(r)
  <2>1. KC!Owner(r)
    BY <1>5 DEF ContextDone, Goto, KC!Owner, KC!Launched, IInv, HandlerFollowsPump, Waiting
  <2> QED
    BY <2>1, OwnerStep
<1>6. CASE ListenerGone(r)
  BY <1>6 DEF ListenerGone
<1> QED
  BY <1>1, <1>2, <1>3, <1>4, <1>5, <1>6 DEF Handle

LEMMA HandleKeeps ==
  ASSUME IInv, NEW r \in Request, Handle(r)
  PROVE  IInv'
<1>1. KCP!IInv'
  BY HandleObeys, ListenerStep DEF IInv
<1>2. KC!TypeOK'
  BY <1>1, ListenerTypes, PTL
<1> r \in Kc
  BY RequestAssumption DEF RequestAssumption
<1> USE DEF IInv, TypeOK, HandlerFollowsPump, Waiting, Goto, Return, KC!TypeOK, KC!PumpStates,
            KC!Looping
<1>3. CASE EmitRetry(r)
  <2>1. TypeOK'
    BY <1>2, <1>3 DEF EmitRetry
  <2>2. HandlerFollowsPump'
    BY <1>3 DEF EmitRetry, kcVars
  <2> QED
    BY <1>1, <2>1, <2>2
<1>4. CASE LaunchFails(r)
  <2>1. TypeOK'
    BY <1>2, <1>4 DEF LaunchFails
  <2>2. pump' = [pump EXCEPT ![r] = "failed"] /\ done' = done
    BY <1>4 DEF LaunchFails, KC!LaunchFails, KC!NewConsumerFails, KC!SubscribeFails, KC!Goto
  <2>3. HandlerFollowsPump'
    BY <1>4, <2>2 DEF LaunchFails
  <2> QED
    BY <1>1, <2>1, <2>3
<1>5. CASE LaunchOk(r)
  <2>1. TypeOK'
    BY <1>2, <1>5 DEF LaunchOk
  <2>2. pump[r] = "unborn" /\ pump' = [pump EXCEPT ![r] = "check"] /\ done' = done
    BY <1>5 DEF LaunchOk, KC!LaunchOk, KC!Goto
  <2>3. HandlerFollowsPump'
    BY <1>5, <2>2 DEF LaunchOk
  <2> QED
    BY <1>1, <2>1, <2>3
<1>6. CASE EnterSelect(r)
  <2>1. TypeOK'
    BY <1>2, <1>6 DEF EnterSelect
  <2>2. HandlerFollowsPump'
    BY <1>6 DEF EnterSelect, KC!AwaitDone
  <2> QED
    BY <1>1, <2>1, <2>2
<1>7. CASE ContextDone(r)
  <2>1. TypeOK'
    BY <1>2, <1>7 DEF ContextDone
  <2>2. HandlerFollowsPump'
    BY <1>7 DEF ContextDone, KC!RequestQuit
  <2> QED
    BY <1>1, <2>1, <2>2
<1>8. CASE ListenerGone(r)
  <2>1. TypeOK'
    BY <1>2, <1>8 DEF ListenerGone
  <2>2. pump[r] = "exited" /\ UNCHANGED <<pump, done>>
    BY <1>8 DEF ListenerGone, kcVars, KCP!IInv, KCP!ReceivedAfterSend
  <2>3. HandlerFollowsPump'
    BY <1>8, <2>2 DEF ListenerGone
  <2> QED
    BY <1>1, <2>1, <2>3
<1> QED
  BY <1>3, <1>4, <1>5, <1>6, <1>7, <1>8 DEF Handle

LEMMA ArriveKeeps ==
  ASSUME IInv, NEW r \in Request, Arrive(r)
  PROVE  IInv'
<1>1. KCP!IInv' /\ KC!TypeOK'
  <2>1. KCP!IInv'
    BY ListenerStep DEF IInv, Arrive
  <2> QED
    BY <2>1, ListenerTypes, PTL
<1> QED
  BY <1>1 DEF IInv, TypeOK, HandlerFollowsPump, Waiting, Goto, Arrive, kcVars

LEMMA CancelKeeps ==
  ASSUME IInv, NEW r \in Request, CancelContext(r)
  PROVE  IInv'
<1>1. KCP!IInv' /\ KC!TypeOK'
  <2>1. KCP!IInv'
    BY ListenerStep DEF IInv, CancelContext
  <2> QED
    BY <2>1, ListenerTypes, PTL
<1> QED
  BY <1>1 DEF IInv, TypeOK, HandlerFollowsPump, Waiting, CancelContext, kcVars

(* A step of the pump of any listener of the process. *)
LEMMA PumpKeeps ==
  ASSUME IInv, NEW k \in Kc, KC!Pump(k), UNCHANGED httpVars
  PROVE  IInv'
<1>1. KCP!IInv' /\ KC!TypeOK'
  <2>1. KCP!IInv'
    BY PumpStep, ListenerStep DEF IInv
  <2> QED
    BY <2>1, ListenerTypes, PTL
<1>2. \A j \in Kc : /\ pump[j] = "unborn" <=> pump'[j] = "unborn"
                    /\ pump[j] = "failed" <=> pump'[j] = "failed"
                    /\ pump[j] = "exited" => pump'[j] = "exited"
                    /\ done[j] = "idle" => done'[j] = "idle"
  BY DEF IInv, TypeOK, KC!TypeOK, KC!Pump, KC!CheckQuit, KC!ReadTimesOut, KC!ReadFails,
         KC!ReadMessage, KC!HandleError, KC!ProcessMessage, KC!CloseConsumer, KC!SendDone, KC!Goto
<1>3. HandlerFollowsPump'
  BY <1>2, RequestAssumption
     DEF IInv, HandlerFollowsPump, Waiting, httpVars, RequestAssumption
<1> QED
  BY <1>1, <1>3 DEF IInv, TypeOK, httpVars

(* A step of the owner of a listener that belongs to no request. *)
LEMMA OtherOwnerKeeps ==
  ASSUME IInv, NEW k \in Kc \ Request, KC!Launch(k) \/ KC!Owner(k), UNCHANGED httpVars
  PROVE  IInv'
<1>1. KCP!IInv'
  BY OwnerStep, ListenerStep DEF IInv
<1>2. KC!TypeOK'
  BY <1>1, ListenerTypes, PTL
<1>3. \A r \in Request : pump'[r] = pump[r] /\ done'[r] = done[r]
  BY RequestAssumption
     DEF IInv, TypeOK, KC!TypeOK, RequestAssumption, KC!Launch, KC!LaunchFails, KC!NewConsumerFails,
         KC!SubscribeFails, KC!LaunchOk, KC!Owner, KC!RequestQuit, KC!AwaitDone, KC!Goto
<1>4. HandlerFollowsPump'
  BY <1>3 DEF IInv, HandlerFollowsPump, Waiting, httpVars
<1> QED
  BY <1>1, <1>2, <1>4 DEF IInv, TypeOK, httpVars

LEMMA StepIInv == IInv /\ [Next]_vars => IInv'
<1> SUFFICES ASSUME IInv, [Next]_vars PROVE IInv'
  OBVIOUS
<1>1. CASE UNCHANGED vars
  <2>1. KCP!IInv'
    BY <1>1, ListenerStep DEF vars, IInv
  <2>2. KC!TypeOK'
    BY <2>1, ListenerTypes, PTL
  <2> QED
    BY <1>1, <2>1, <2>2 DEF vars, kcVars, httpVars, IInv, TypeOK, HandlerFollowsPump
<1>2. ASSUME NEW r \in Request, Listen(r) PROVE IInv'
  BY <1>2, PumpKeeps, RequestAssumption DEF Listen, RequestAssumption
<1> QED
  BY <1>1, <1>2, ArriveKeeps, CancelKeeps, HandleKeeps DEF Next

LEMMA AlwaysIInv == Safety => []IInv
  BY InitIInv, StepIInv, PTL DEF Safety

-----------------------------------------------------------------------------
(* Every variable of a request and of its listener keeps its type. *)
THEOREM TypeCorrect == Spec => []TypeOK
  BY AlwaysIInv, PTL DEF Spec, IInv

(* The ResponseWriter is not written to once its handler has returned. *)
THEOREM WriterIsLiveAlways == Spec => []WriterIsLive
<1>1. IInv => WriterIsLive
  BY RequestAssumption
     DEF IInv, TypeOK, HandlerFollowsPump, WriterIsLive, Waiting, RequestAssumption
<1> QED
  BY <1>1, AlwaysIInv, PTL DEF Spec

(* No member of the consumer group outlives the request it was launched for. *)
THEOREM NoMemberOutlivesRequestAlways == Spec => []NoMemberOutlivesRequest
<1>1. IInv => NoMemberOutlivesRequest
  BY RequestAssumption
     DEF IInv, KCP!IInv, KCP!ClientFollowsPump, KCP!Looping, HandlerFollowsPump,
         NoMemberOutlivesRequest, RequestAssumption
<1> QED
  BY <1>1, AlwaysIInv, PTL DEF Spec

(* The handler never breaks the protocol of its listener: it does not close one twice, or one
   that it never launched, which would block it for ever. *)
THEOREM ProtocolObeyed == Spec => KC!Safety
<1>1. Init => KC!Init
  BY DEF Init
<1>2. IInv /\ [Next]_vars => [KC!Next]_kcVars
  <2> SUFFICES ASSUME IInv, [Next]_vars PROVE [KC!Next]_kcVars
    OBVIOUS
  <2>1. CASE UNCHANGED vars
    BY <2>1 DEF vars, kcVars
  <2>2. ASSUME NEW r \in Request, Listen(r) PROVE KC!Next
    BY <2>2, PumpStep, RequestAssumption DEF Listen, RequestAssumption
  <2>3. ASSUME NEW r \in Request, Arrive(r) \/ CancelContext(r) PROVE UNCHANGED kcVars
    BY <2>3 DEF Arrive, CancelContext
  <2> QED
    BY <2>1, <2>2, <2>3, HandleObeys DEF Next
<1>3. UNCHANGED kcVars <=> UNCHANGED KC!kcVars
  BY DEF kcVars, KC!kcVars
<1>4. IInv /\ [Next]_vars => [KC!Next]_(KC!kcVars)
  BY <1>2, <1>3
<1> QED
  BY <1>1, <1>4, AlwaysIInv, PTL DEF Spec, Safety, KC!Safety
-----------------------------------------------------------------------------
(* The context of a request follows its handler. *)
ContextFollowsHandler ==
    \A r \in Request :
        /\ ctx[r] = "none" <=> handler[r] = "idle"
        /\ handler[r] = "returned" => ctx[r] = "cancelled"

LEMMA ContextStep == IInv /\ ContextFollowsHandler /\ [Next]_vars => ContextFollowsHandler'
<1> SUFFICES ASSUME IInv, ContextFollowsHandler, [Next]_vars PROVE ContextFollowsHandler'
  OBVIOUS
<1> USE DEF IInv, TypeOK, ContextFollowsHandler, Goto, Return, Waiting
<1>1. CASE UNCHANGED vars
  BY <1>1 DEF vars, httpVars
<1>2. ASSUME NEW r \in Request, Arrive(r) \/ CancelContext(r) \/ Listen(r)
      PROVE  ContextFollowsHandler'
  BY <1>2 DEF Arrive, CancelContext, Listen, httpVars
<1>3. ASSUME NEW r \in Request, Handle(r) PROVE ContextFollowsHandler'
  BY <1>3 DEF Handle, EmitRetry, LaunchFails, LaunchOk, EnterSelect, ContextDone, ListenerGone
<1> QED
  BY <1>1, <1>2, <1>3 DEF Next

RInv == IInv /\ ContextFollowsHandler

LEMMA AlwaysRInv == Safety => []RInv
<1>1. Init => ContextFollowsHandler
  BY DEF Init, HttpInit, ContextFollowsHandler
<1> QED
  BY <1>1, InitIInv, StepIInv, ContextStep, PTL DEF Safety, RInv

(* Nothing of another request changes. *)
Others(r) ==
    \A q \in Request \ {r} :
        /\ handler'[q] = handler[q] /\ ctx'[q] = ctx[q]
        /\ pump'[q] = pump[q] /\ client'[q] = client[q]

(* The steps of ConsumeRequest, as changes of the request and of the member that r stands for. *)
Becomes(r, q, m) == RequestOf(r)' = q /\ MemberOf(r)' = m

AbstractStep(r) ==
    \/ Becomes(r, RequestOf(r), MemberOf(r))
    \/ RequestOf(r) = "none" /\ Becomes(r, "open", MemberOf(r))
    \/ RequestOf(r) \in {"open", "cut"} /\ MemberOf(r) = "none" /\ Becomes(r, RequestOf(r), "in")
    \/ MemberOf(r) = "in" /\ Becomes(r, RequestOf(r), "out")
    \/ RequestOf(r) = "open" /\ Becomes(r, "cut", MemberOf(r))
    \/ RequestOf(r) \in {"open", "cut"} /\ MemberOf(r) # "in" /\ Becomes(r, "ended", MemberOf(r))

LEMMA AbstractStepIsStep ==
  ASSUME NEW r \in Request, Others(r), AbstractStep(r)
  PROVE  [Req!Next]_(Req!vars)
<1> DEFINE req == [q \in Request |-> RequestOf(q)]
           member == [q \in Request |-> MemberOf(q)]
<1>1. \A q \in Request \ {r} : RequestOf(q)' = RequestOf(q) /\ MemberOf(q)' = MemberOf(q)
  <2> SUFFICES ASSUME NEW q \in Request \ {r}
               PROVE  RequestOf(q)' = RequestOf(q) /\ MemberOf(q)' = MemberOf(q)
    OBVIOUS
  <2>1. handler'[q] = handler[q] /\ ctx'[q] = ctx[q] /\ pump'[q] = pump[q] /\ client'[q] = client[q]
    BY DEF Others
  <2>2. RequestOf(q)' = RequestOf(q)
    BY <2>1 DEF RequestOf
  <2> QED
    BY <2>1, <2>2 DEF MemberOf
<1>2. ASSUME NEW a, NEW b, Becomes(r, a, b)
      PROVE  /\ req' = [req EXCEPT ![r] = a]
             /\ member' = [member EXCEPT ![r] = b]
  BY <1>1, <1>2 DEF Becomes
<1>3. /\ req = [req EXCEPT ![r] = RequestOf(r)]
      /\ member = [member EXCEPT ![r] = MemberOf(r)]
  OBVIOUS
<1>4. req[r] = RequestOf(r) /\ member[r] = MemberOf(r)
  OBVIOUS
<1>5. /\ UNCHANGED Req!vars <=> req' = req /\ member' = member
      /\ Req!Begin(r) <=> req[r] = "none" /\ req' = [req EXCEPT ![r] = "open"] /\ member' = member
      /\ Req!Join(r) <=> /\ req[r] \in {"open", "cut"} /\ member[r] = "none"
                         /\ member' = [member EXCEPT ![r] = "in"] /\ req' = req
      /\ Req!Leave(r) <=> member[r] = "in" /\ member' = [member EXCEPT ![r] = "out"] /\ req' = req
      /\ Req!Cut(r) <=> req[r] = "open" /\ req' = [req EXCEPT ![r] = "cut"] /\ member' = member
      /\ Req!End(r) <=> /\ req[r] \in {"open", "cut"} /\ member[r] # "in"
                        /\ req' = [req EXCEPT ![r] = "ended"] /\ member' = member
  BY DEF Req!vars, Req!Begin, Req!Join, Req!Leave, Req!Cut, Req!End, Req!Active
<1> HIDE DEF req, member
<1>6. AbstractStep(r) => \/ req' = req /\ member' = member
                         \/ Req!Begin(r) \/ Req!Join(r) \/ Req!Leave(r) \/ Req!Cut(r) \/ Req!End(r)
  BY <1>2, <1>3, <1>4, <1>5 DEF AbstractStep
<1> QED
  BY <1>5, <1>6 DEF Req!Next

LEMMA RequestActs ==
  ASSUME RInv, NEW r \in Request, Arrive(r) \/ CancelContext(r) \/ Handle(r)
  PROVE  Others(r) /\ AbstractStep(r)
<1> r \in Kc /\ \A q \in Request : q \in Kc
  BY RequestAssumption DEF RequestAssumption
<1> USE DEF RInv, IInv, TypeOK, KC!TypeOK, ContextFollowsHandler, HandlerFollowsPump, Goto, Return,
            Waiting, Others, AbstractStep, Becomes, RequestOf, MemberOf
<1>1. CASE Arrive(r)
  BY <1>1 DEF Arrive, kcVars
<1>2. CASE CancelContext(r)
  BY <1>2 DEF CancelContext, kcVars
<1>3. CASE EmitRetry(r)
  <2>1. client[r] = "none"
    BY <1>3 DEF EmitRetry, KCP!IInv, KCP!ClientFollowsPump
  <2> QED
    BY <1>3, <2>1 DEF EmitRetry, kcVars
<1>4. CASE LaunchFails(r)
  <2>1. /\ pump[r] = "unborn" /\ pump' = [pump EXCEPT ![r] = "failed"]
        /\ client[r] = "none" /\ client'[r] \in {"none", "closed"}
        /\ \A q \in Request \ {r} : client'[q] = client[q]
    BY <1>4 DEF LaunchFails, KC!LaunchFails, KC!NewConsumerFails, KC!SubscribeFails, KC!Goto,
                KCP!IInv, KCP!ClientFollowsPump
  <2>2. handler[r] = "launch" /\ handler' = [handler EXCEPT ![r] = "returned"]
        /\ ctx' = [ctx EXCEPT ![r] = "cancelled"]
    BY <1>4 DEF LaunchFails
  <2>3. Others(r)
    BY <2>1, <2>2
  <2>4. RequestOf(r) \in {"open", "cut"} /\ MemberOf(r) = "none" /\ Becomes(r, "ended", "none")
    <3>1. pump'[r] = "failed" /\ ctx'[r] = "cancelled" /\ handler'[r] = "returned"
      BY <2>1, <2>2
    <3>2. ctx[r] # "none"
      BY <2>2
    <3> QED
      BY <2>1, <2>2, <3>1, <3>2
  <2> QED
    BY <2>3, <2>4
<1>5. CASE LaunchOk(r)
  <2>1. client[r] = "none"
    BY <1>5 DEF LaunchOk, KC!LaunchOk, KC!Goto, KCP!IInv, KCP!ClientFollowsPump
  <2> QED
    BY <1>5, <2>1 DEF LaunchOk, KC!LaunchOk, KC!Goto
<1>6. CASE EnterSelect(r)
  BY <1>6 DEF EnterSelect, KC!AwaitDone
<1>7. CASE ContextDone(r)
  BY <1>7 DEF ContextDone, KC!RequestQuit
<1>8. CASE ListenerGone(r)
  <2>1. pump[r] = "exited" /\ client[r] = "closed"
    BY <1>8 DEF ListenerGone, KCP!IInv, KCP!ReceivedAfterSend, KCP!ClientFollowsPump
  <2> QED
    BY <1>8, <2>1 DEF ListenerGone, kcVars
<1> QED
  BY <1>1, <1>2, <1>3, <1>4, <1>5, <1>6, <1>7, <1>8 DEF Handle

LEMMA ListenActs ==
  ASSUME RInv, NEW r \in Request, Listen(r)
  PROVE  Others(r) /\ AbstractStep(r)
<1> r \in Kc /\ \A q \in Request : q \in Kc
  BY RequestAssumption DEF RequestAssumption
<1> USE DEF RInv, IInv, TypeOK, KC!TypeOK, Others, AbstractStep, Becomes, RequestOf, MemberOf,
            KC!Goto, httpVars
<1>1. CASE KC!CloseConsumer(r)
  <2>1. client[r] = "open"
    BY <1>1 DEF KC!CloseConsumer, KCP!IInv, KCP!ClientFollowsPump
  <2> QED
    BY <1>1, <2>1 DEF Listen, KC!CloseConsumer
<1>2. CASE ~KC!CloseConsumer(r)
  <2>1. /\ pump[r] \notin {"unborn", "failed"} /\ client' = client
        /\ \E to \in KC!PumpStates \ {"unborn", "failed"} : pump' = [pump EXCEPT ![r] = to]
    BY <1>2 DEF Listen, KC!Pump, KC!CheckQuit, KC!ReadTimesOut, KC!ReadFails, KC!ReadMessage,
                KC!HandleError, KC!ProcessMessage, KC!SendDone, KC!PumpStates, KC!Looping
  <2>2. pump'[r] \notin {"unborn", "failed"}
    BY <2>1
  <2> QED
    BY <2>1, <2>2 DEF Listen
<1> QED
  BY <1>1, <1>2

(* A request behaves towards its client as ConsumeRequest says: it joins the group once and ends
   outside it. *)
THEOREM RequestRefined == Spec => Req!Safety
<1>1. Init => Req!Init
  BY RequestAssumption
     DEF Init, HttpInit, KC!Init, Req!Init, RequestOf, MemberOf, RequestAssumption
<1>2. RInv /\ [Next]_vars => [Req!Next]_(Req!vars)
  <2> SUFFICES ASSUME RInv, [Next]_vars PROVE [Req!Next]_(Req!vars)
    OBVIOUS
  <2>1. CASE UNCHANGED vars
    BY <2>1 DEF vars, kcVars, httpVars, Req!vars, RequestOf, MemberOf
  <2> QED
    BY <2>1, RequestActs, ListenActs, AbstractStepIsStep DEF Next
<1> QED
  BY <1>1, <1>2, AlwaysRInv, PTL DEF Spec, Safety, Req!Safety
=============================================================================
