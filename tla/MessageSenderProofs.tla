------------------------ MODULE MessageSenderProofs -------------------------
(***************************************************************************)
(* The safety of the page's sending half and of the producer behind it, for *)
(* any messages, any topics, any faults and any number of signals.          *)
(***************************************************************************)
EXTENDS MessageSender, TLAPS

(* The way of a message: its copies follow the stage that sendToKafka has reached for it, and the
   acknowledgements that were lost meanwhile. *)
OnItsWay ==
    /\ \A x \in Message : http[x] = "none" => stage[x] = "none"
    /\ \A x \in Message : stage[x] \in {"none", "connect"} => lostAcks[x] = 0
    /\ \A x \in Message : stage[x] # "settled" => copies[x] = lostAcks[x]
    /\ \A x \in Message : stage[x] = "send" => lostAcks[x] <= MaxRetries
    /\ \A x \in Message : copies[x] <= 1 + lostAcks[x]

IInv == SenderTypeOK /\ OnItsWay

LEMMA InitIInv == SenderInit => IInv
<1> SUFFICES ASSUME SenderInit PROVE IInv
  OBVIOUS
<1>1. copies = [m \in Message |-> 0] /\ lostAcks = [m \in Message |-> 0]
  BY DEF SenderInit, Init
<1>2. lostAcks \in [Message -> 0 .. MaxRetries + 1]
  BY <1>1, ProducerAssumption DEF ProducerAssumption
<1>3. TypeOK
  <2>1. /\ ui \in [Message -> {"typed", "posted", "delivered", "failed"}]
        /\ http \in [Message -> {"none", "answered"}]
        /\ stage \in [Message -> {"none", "connect", "send", "settled"}]
        /\ copies \in [Message -> Nat]
    BY DEF SenderInit, Init
  <2>2. /\ conn \in {"disconnected", "connected", "disconnecting"}
        /\ proc \in {"up", "closing", "exited"}
        /\ signalled \in BOOLEAN
        /\ failed \subseteq Message
    BY DEF SenderInit, Init
  <2> QED
    BY <1>2, <2>1, <2>2 DEF TypeOK
<1>4. OnItsWay
  BY <1>1, ProducerAssumption DEF ProducerAssumption, SenderInit, Init, OnItsWay
<1>5. SenderTypeOK
  BY <1>3, SenderAssumption
     DEF SenderAssumption, SenderInit, SenderTypeOK, Selector, NewSelector, Pages
<1> QED
  BY <1>4, <1>5 DEF IInv

-----------------------------------------------------------------------------
(* The steps of the producer and of a request. *)

ProducerInv == TypeOK /\ OnItsWay

LEMMA PostKeeps ==
  ASSUME ProducerInv, NEW m \in Message,
         Post(m) \/ ReportDelivered(m) \/ Refused(m) \/ ResponseLost(m) \/ Unserved(m)
  PROVE  ProducerInv'
  BY DEF ProducerInv, TypeOK, OnItsWay, Post, ReportDelivered, Refused, ResponseLost, Unserved,
         sendVars

LEMMA ProduceKeeps ==
  ASSUME ProducerInv, NEW m \in Message, Produce(m)
  PROVE  ProducerInv'
  BY DEF ProducerInv, TypeOK, OnItsWay, Produce, sendVars

(* An attempt at a send is one more copy, and one more lost acknowledgement at most. *)
LEMMA TryKeeps ==
  ASSUME ProducerInv, NEW m \in Message, Sent(m) \/ AckLost(m)
  PROVE  ProducerInv'
<1>0. /\ copies \in [Message -> Nat] /\ lostAcks \in [Message -> 0 .. MaxRetries + 1]
      /\ stage \in [Message -> {"none", "connect", "send", "settled"}] /\ MaxRetries \in Nat
  BY ProducerAssumption DEF ProducerAssumption, ProducerInv, TypeOK
<1>1. /\ stage[m] = "send" /\ copies' = [copies EXCEPT ![m] = @ + 1]
      /\ UNCHANGED <<ui, http, conn, proc, signalled, failed>>
  BY DEF Sent, AckLost, Try
<1>2. copies[m] = lostAcks[m] /\ lostAcks[m] <= MaxRetries /\ lostAcks[m] \in Nat
  BY <1>0, <1>1 DEF ProducerInv, OnItsWay
<1>3. \/ lostAcks' = lostAcks /\ stage' = [stage EXCEPT ![m] = "settled"]
      \/ /\ lostAcks' = [lostAcks EXCEPT ![m] = @ + 1]
         /\ stage' = [stage EXCEPT ![m] = IF lostAcks[m] < MaxRetries THEN "send" ELSE "settled"]
  BY DEF Sent, AckLost
<1>4. /\ copies' \in [Message -> Nat] /\ lostAcks' \in [Message -> 0 .. MaxRetries + 1]
      /\ stage' \in [Message -> {"none", "connect", "send", "settled"}]
  BY <1>0, <1>1, <1>2, <1>3
<1>5. TypeOK'
  BY <1>1, <1>4 DEF ProducerInv, TypeOK
<1>6. \A x \in Message : x # m =>
          stage'[x] = stage[x] /\ copies'[x] = copies[x] /\ lostAcks'[x] = lostAcks[x]
  BY <1>0, <1>1, <1>3
<1>7. /\ http'[m] # "none" /\ stage'[m] \in {"send", "settled"}
      /\ stage'[m] # "settled" => copies'[m] = lostAcks'[m] /\ lostAcks'[m] <= MaxRetries
      /\ copies'[m] <= 1 + lostAcks'[m]
  <2>1. http[m] # "none"
    BY <1>1 DEF ProducerInv, OnItsWay
  <2>2. CASE lostAcks' = lostAcks /\ stage' = [stage EXCEPT ![m] = "settled"]
    BY <1>0, <1>1, <1>2, <2>1, <2>2
  <2>3. CASE /\ lostAcks' = [lostAcks EXCEPT ![m] = @ + 1]
             /\ stage' = [stage EXCEPT ![m] = IF lostAcks[m] < MaxRetries THEN "send" ELSE "settled"]
    BY <1>0, <1>1, <1>2, <2>1, <2>3
  <2> QED
    BY <1>3, <2>2, <2>3
<1>8. OnItsWay'
  <2> SUFFICES ASSUME NEW x \in Message
               PROVE  /\ http'[x] = "none" => stage'[x] = "none"
                      /\ stage'[x] \in {"none", "connect"} => lostAcks'[x] = 0
                      /\ stage'[x] # "settled" => copies'[x] = lostAcks'[x]
                      /\ stage'[x] = "send" => lostAcks'[x] <= MaxRetries
                      /\ copies'[x] <= 1 + lostAcks'[x]
    BY DEF OnItsWay
  <2>1. CASE x = m
    BY <1>7, <2>1
  <2>2. CASE x # m
    BY <1>1, <1>6, <2>2 DEF ProducerInv, OnItsWay
  <2> QED
    BY <2>1, <2>2
<1> QED
  BY <1>5, <1>8 DEF ProducerInv

LEMMA SendKeeps ==
  ASSUME ProducerInv, NEW m \in Message, Send(m)
  PROVE  ProducerInv'
<1>1. CASE Connected(m) \/ ConnectFails(m) \/ SendRejected(m)
  <2>1. UNCHANGED <<copies, lostAcks>>
    BY <1>1 DEF Connected, ConnectFails, SendRejected, sendVars
  <2>2. TypeOK'
    BY <1>1, <2>1 DEF ProducerInv, TypeOK, Connected, ConnectFails, SendRejected
  <2>3. OnItsWay'
    BY <1>1, <2>1, ProducerAssumption
       DEF ProducerAssumption, ProducerInv, TypeOK, OnItsWay, Connected, ConnectFails, SendRejected
  <2> QED
    BY <2>2, <2>3 DEF ProducerInv
<1> QED
  BY <1>1, TryKeeps DEF Send

LEMMA StopKeeps == ProducerInv /\ Stop => ProducerInv'
<1> SUFFICES ASSUME ProducerInv, Stop PROVE TypeOK' /\ OnItsWay'
  BY DEF ProducerInv
<1>1. TypeOK'
  BY DEF ProducerInv, TypeOK, Stop, Signal, Disconnected, Exit, disconnectKafka, sendVars
<1>2. OnItsWay'
  BY DEF ProducerInv, OnItsWay, Stop, Signal, Disconnected, Exit, sendVars
<1> QED
  BY <1>1, <1>2

-----------------------------------------------------------------------------
(* The steps of the page. *)

PageInv ==
    /\ page \in Pages
    /\ selector \in Selector
    /\ topic \in Label
    /\ mine \subseteq Message
    /\ told \in [Message -> {"nothing", "delivered", "failed"}]
    /\ to \in [Message -> Label]
    /\ addr \in BOOLEAN
    /\ selector.chosen \subseteq {topic}

LEMMA IInvIs == IInv <=> ProducerInv /\ PageInv
  BY DEF IInv, SenderTypeOK, ProducerInv, PageInv

LEMMA MountKeeps ==
  ASSUME PageInv, NEW p \in Pages, Mount(p)
  PROVE  PageInv'
  BY SenderAssumption
     DEF PageInv, Mount, NewSelector, Selector, SenderAssumption

(* A selector that shows one label at most hands on the one it shows. *)
LEMMA SelectKeeps ==
  ASSUME PageInv, NEW s \in Selector, NEW l \in Label, s.chosen \in {{}, {l}}, Select(s)
  PROVE  PageInv'
<1>1. /\ selector' = s
      /\ topic' \in Label
      /\ s.chosen \subseteq {topic'}
  BY DEF PageInv, Select, Dispatch
<1> QED
  BY <1>1 DEF PageInv, Select

LEMMA ChooseKeeps == PageInv /\ Choose => PageInv'
<1> SUFFICES ASSUME PageInv, Choose PROVE PageInv'
  OBVIOUS
<1> USE DEF PageInv, Selector
<1>1. ASSUME NEW l \in Label, PickTopic(l) PROVE PageInv'
  BY <1>1, SelectKeeps DEF PickTopic, PickOne
<1>2. ASSUME NEW l \in Label, CreateTopic(l) PROVE PageInv'
  BY <1>2, SelectKeeps DEF CreateTopic, CreateOne
<1>3. CASE ClearTopic
  BY <1>3, SelectKeeps DEF ClearTopic, Clear
<1> QED
  BY <1>1, <1>2, <1>3 DEF Choose

LEMMA ClickKeeps ==
  ASSUME PageInv, NEW m \in Message, Click(m)
  PROVE  PageInv'
  BY DEF PageInv, Click

LEMMA SettleKeeps ==
  ASSUME ProducerInv, PageInv, NEW m \in Message, Settle(m)
  PROVE  PageInv'
<1>1. ui'[m] \in {"delivered", "failed"}
  BY DEF ProducerInv, TypeOK, Settle, Answer, ReportDelivered, Refused, ResponseLost, Unserved
<1> QED
  BY <1>1 DEF PageInv, Settle, Report

-----------------------------------------------------------------------------
LEMMA StepIInv == IInv /\ [SenderNext]_senderVars => IInv'
<1> SUFFICES ASSUME IInv, [SenderNext]_senderVars PROVE ProducerInv' /\ PageInv'
  BY IInvIs DEF IInv, SenderTypeOK, ProducerInv, PageInv
<1>0. ProducerInv /\ PageInv
  BY IInvIs
<1>1. UNCHANGED vars => ProducerInv'
  BY <1>0 DEF vars, sendVars, ProducerInv, TypeOK, OnItsWay
<1>2. UNCHANGED <<pageVars, to, addr>> => PageInv'
  BY <1>0 DEF pageVars, PageInv
<1>3. CASE UNCHANGED senderVars
  BY <1>1, <1>2, <1>3 DEF senderVars
<1>4. CASE Navigate
  <2>1. PICK p \in Pages : Mount(p)
    BY <1>4 DEF Navigate, FollowLink, Load, navigation, BarLinks, MenuLinks, Pages
  <2> QED
    BY <2>1, <1>0, <1>1, MountKeeps DEF Mount
<1>5. CASE Choose
  <2>1. UNCHANGED vars
    BY <1>5 DEF Choose, PickTopic, CreateTopic, ClearTopic, Select
  <2> QED
    BY <2>1, <1>0, <1>1, <1>5, ChooseKeeps
<1>6. ASSUME NEW m \in Message, Click(m) PROVE ProducerInv' /\ PageInv'
  BY <1>0, <1>6, ClickKeeps, PostKeeps DEF Click
<1>7. ASSUME NEW m \in Message, Handle(m) PROVE ProducerInv' /\ PageInv'
  BY <1>0, <1>2, <1>7, ProduceKeeps DEF Handle
<1>8. ASSUME NEW m \in Message, Settle(m) PROVE ProducerInv' /\ PageInv'
  BY <1>0, <1>8, SettleKeeps, PostKeeps DEF Settle, Answer
<1>9. CASE ((\E m \in Message : Send(m)) \/ Stop) /\ UNCHANGED <<pageVars, to, addr>>
  BY <1>0, <1>2, <1>9, SendKeeps, StopKeeps
<1> QED
  BY <1>3, <1>4, <1>5, <1>6, <1>7, <1>8, <1>9 DEF SenderNext

LEMMA AlwaysIInv == SenderSafety => []IInv
  BY InitIInv, StepIInv, PTL DEF SenderSafety

-----------------------------------------------------------------------------
(* Every variable of the page, of the requests and of the producer keeps to its type, and a message
   is posted to the topic that the selector shows, if it shows one. *)
THEOREM SenderTypeCorrect == SenderSpec => []SenderTypeOK
  BY AlwaysIInv, PTL DEF SenderSpec, IInv

(* Between the page and Kafka nothing sends a message again but kafkajs, once for every
   acknowledgement that it did not get: whatever else fails, and whoever hears of it or does not. *)
THEOREM OnlyRetriesRepeatAlways == SenderSpec => []OnlyRetriesRepeat
<1>1. IInv => OnlyRetriesRepeat
  BY DEF IInv, OnItsWay, OnlyRetriesRepeat
<1> QED
  BY <1>1, AlwaysIInv, PTL DEF SenderSpec

-----------------------------------------------------------------------------
(* What the producer has answered with 200 it still has to send, or has sent: until a signal there
   is a connection for whatever calls send, and only Kafka may refuse, message by message. *)
StillOnItsWay ==
    signalled \/
        /\ \A x \in Message : stage[x] = "send" => conn = "connected"
        /\ \A x \in Message : http[x] = "answered" =>
                copies[x] > 0 \/ stage[x] \in {"connect", "send"} \/ x \in failed

(* The safety in EveryMessageSent. *)
NoneForgotten ==
    \A m \in Message :
        http[m] = "answered" =>
            copies[m] > 0 \/ stage[m] \in {"connect", "send"} \/ signalled \/ m \in failed

LEMMA SendIsOnItsWay ==
  ASSUME ProducerInv, StillOnItsWay, NEW m \in Message, Send(m)
  PROVE  StillOnItsWay'
<1> SUFFICES ASSUME ~signalled'
             PROVE  /\ \A x \in Message : stage'[x] = "send" => conn' = "connected"
                    /\ \A x \in Message : http'[x] = "answered" =>
                            copies'[x] > 0 \/ stage'[x] \in {"connect", "send"} \/ x \in failed'
  BY DEF StillOnItsWay
<1>0. /\ ~signalled /\ http' = http
      /\ stage \in [Message -> {"none", "connect", "send", "settled"}]
      /\ copies \in [Message -> Nat]
  BY DEF Send, Connected, ConnectFails, Sent, AckLost, SendRejected, ProducerInv, TypeOK
<1>1. CASE Connected(m)
  BY <1>0, <1>1 DEF StillOnItsWay, Connected, sendVars
<1>2. CASE ConnectFails(m)
  BY <1>0, <1>2 DEF StillOnItsWay, ConnectFails, sendVars
<1>3. CASE Sent(m) \/ AckLost(m)
  <2>1. /\ stage[m] = "send" /\ copies' = [copies EXCEPT ![m] = @ + 1]
        /\ UNCHANGED <<conn, failed>>
    BY <1>3 DEF Sent, AckLost, Try
  <2>2. PICK s \in {"send", "settled"} : stage' = [stage EXCEPT ![m] = s]
    BY <1>3 DEF Sent, AckLost
  <2>3. copies'[m] > 0
    BY <1>0, <2>1
  <2>4. \A x \in Message : x # m => copies'[x] = copies[x] /\ stage'[x] = stage[x]
    BY <1>0, <2>1, <2>2
  <2> QED
    BY <1>0, <2>1, <2>2, <2>3, <2>4 DEF StillOnItsWay
<1>4. CASE SendRejected(m)
  BY <1>0, <1>4 DEF StillOnItsWay, SendRejected, sendVars
<1> QED
  BY <1>1, <1>2, <1>3, <1>4 DEF Send

LEMMA StepOnItsWay == IInv /\ StillOnItsWay /\ [SenderNext]_senderVars => StillOnItsWay'
<1> SUFFICES ASSUME ProducerInv, StillOnItsWay, [SenderNext]_senderVars PROVE StillOnItsWay'
  BY IInvIs
<1>1. CASE UNCHANGED vars
  BY <1>1 DEF vars, sendVars, StillOnItsWay
<1>2. ASSUME NEW m \in Message,
             Post(m) \/ ReportDelivered(m) \/ Refused(m) \/ ResponseLost(m) \/ Unserved(m)
      PROVE  StillOnItsWay'
  BY <1>2 DEF Post, ReportDelivered, Refused, ResponseLost, Unserved, StillOnItsWay, sendVars
<1>3. ASSUME NEW m \in Message, Produce(m) PROVE StillOnItsWay'
  BY <1>3 DEF Produce, StillOnItsWay, ProducerInv, TypeOK, sendVars
<1>4. ASSUME NEW m \in Message, Send(m) PROVE StillOnItsWay'
  BY <1>4, SendIsOnItsWay
<1>5. CASE Stop
  BY <1>5 DEF Stop, Signal, Disconnected, Exit, StillOnItsWay, sendVars
<1>6. Navigate \/ Choose => UNCHANGED vars
  BY DEF Navigate, FollowLink, Load, Mount, Choose, PickTopic, CreateTopic, ClearTopic, Select
<1> QED
  BY <1>1, <1>2, <1>3, <1>4, <1>5, <1>6
     DEF SenderNext, Click, Handle, Settle, Answer, senderVars

(* Until a signal, every message that was answered with 200 is in its topic or in a sendToKafka that
   has yet to settle, unless Kafka refused that very message: a response that came too early loses
   none. *)
THEOREM NoneForgottenAlways == SenderSpec => []NoneForgotten
<1>1. SenderInit => StillOnItsWay
  BY DEF SenderInit, Init, StillOnItsWay
<1>2. StillOnItsWay => NoneForgotten
  BY DEF StillOnItsWay, NoneForgotten
<1> QED
  BY <1>1, <1>2, AlwaysIInv, StepOnItsWay, PTL DEF SenderSpec, SenderSafety

-----------------------------------------------------------------------------
(* What the page calls its own it has posted. *)
OwnArePosted == \A m \in mine : ui[m] # "typed"

LEMMA StepReports ==
  IInv /\ OwnArePosted /\ ReportsMatch /\ [SenderNext]_senderVars => OwnArePosted' /\ ReportsMatch'
<1> SUFFICES ASSUME ProducerInv, PageInv, OwnArePosted, ReportsMatch, [SenderNext]_senderVars
             PROVE  OwnArePosted' /\ ReportsMatch'
  BY IInvIs
<1>0. /\ ui \in [Message -> {"typed", "posted", "delivered", "failed"}]
      /\ told \in [Message -> {"nothing", "delivered", "failed"}]
      /\ mine \subseteq Message
  BY DEF ProducerInv, TypeOK, PageInv
<1>1. CASE UNCHANGED <<ui, mine, told>>
  BY <1>1 DEF OwnArePosted, ReportsMatch
<1>2. CASE Navigate
  <2>1. mine' = {} /\ told' = [m \in Message |-> "nothing"]
    BY <1>2 DEF Navigate, FollowLink, Load, Mount
  <2> QED
    BY <2>1 DEF OwnArePosted, ReportsMatch
<1>3. ASSUME NEW m \in Message, Click(m) PROVE OwnArePosted' /\ ReportsMatch'
  <2>1. /\ ui[m] = "typed" /\ ui' = [ui EXCEPT ![m] = "posted"]
        /\ mine' = mine \cup {m} /\ told' = told
    BY <1>3 DEF Click, Post
  <2>2. m \notin mine /\ told[m] = "nothing"
    BY <2>1 DEF OwnArePosted, ReportsMatch
  <2> QED
    BY <1>0, <2>1, <2>2 DEF OwnArePosted, ReportsMatch
<1>4. ASSUME NEW m \in Message, Settle(m) PROVE OwnArePosted' /\ ReportsMatch'
  <2>1. PICK s \in {"delivered", "failed"} : ui[m] = "posted" /\ ui' = [ui EXCEPT ![m] = s]
    BY <1>4 DEF Settle, Answer, ReportDelivered, Refused, ResponseLost, Unserved
  <2>2. /\ mine' = mine
        /\ told' = IF m \in mine THEN [told EXCEPT ![m] = ui'[m]] ELSE told
    BY <1>4 DEF Settle, Report
  <2> QED
    BY <1>0, <2>1, <2>2 DEF OwnArePosted, ReportsMatch
<1>5. Choose \/ (\E m \in Message : Handle(m)) => UNCHANGED <<ui, mine, told>>
  BY DEF Choose, PickTopic, CreateTopic, ClearTopic, Select, Handle, Produce, pageVars, vars
<1>6. ((\E m \in Message : Send(m)) \/ Stop) /\ UNCHANGED <<pageVars, to, addr>>
        => UNCHANGED <<ui, mine, told>>
  BY DEF Send, Connected, ConnectFails, Sent, AckLost, SendRejected, Stop, Signal, Disconnected, Exit,
         pageVars
<1>7. UNCHANGED senderVars => UNCHANGED <<ui, mine, told>>
  BY DEF senderVars, vars, pageVars
<1> QED
  BY <1>1, <1>2, <1>3, <1>4, <1>5, <1>6, <1>7 DEF SenderNext

(* However the pages are changed while requests are under way: "Status Updates" says nothing of a
   message of another page or of a request that is still under way, and the outcome of every other.
   This is the safety in EveryPostReported. *)
THEOREM ReportsMatchAlways == SenderSpec => []ReportsMatch
<1>1. SenderInit => OwnArePosted /\ ReportsMatch
  BY DEF SenderInit, OwnArePosted, ReportsMatch
<1> QED
  BY <1>1, AlwaysIInv, StepReports, PTL DEF SenderSpec, SenderSafety
=============================================================================
