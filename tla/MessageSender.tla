--------------------------- MODULE MessageSender ----------------------------
(***************************************************************************)
(* The sending half of the portal's page, on top of the way that a message  *)
(* takes from there (Producer).  MessageProducer.tsx keeps the topic that   *)
(* messages are posted to, its SingleSelector keeps the label it shows.     *)
(* Both live as long as the page is mounted: the two pages "/" and          *)
(* "/consumer" (pages/index.tsx, pages/consumer.tsx) mount one of their     *)
(* own, the links of the navigation bar leave it, a request may still be    *)
(* under way then, and its answer finds nobody.                             *)
(*                                                                          *)
(* External: React, Next's router, the browser.                             *)
(***************************************************************************)
EXTENDS Producer, Selectors

CONSTANTS
    Known,        \* knownTopics
    First,        \* initialProducerTopic
    Routable      \* the labels that are one segment of a path as they are

ASSUME SenderAssumption == Known \subseteq Label /\ First \in Label /\ Routable \subseteq Label

VARIABLES
    page,         \* the page that is shown, one of Pages
    selector,     \* the SingleSelector of that page
    topic,        \* currentlySelectedTopic of its MessageProducer
    mine,         \* the messages posted by that MessageProducer
    told,         \* told[m]: what "Status Updates" of that page say of m
    to,           \* to[m]: the topic in the payload of m
    addr          \* NEXT_PUBLIC_PRODUCER_ADDR is set

pageVars == <<page, selector, topic, mine, told>>
senderVars == <<vars, pageVars, to, addr>>

Pages == {"home", "consumer", "about"}

(* The pages that render Consumer. *)
HasSender == {"home", "consumer"}

(* Types, and that MessageProducer posts to the topic that its selector shows, if that shows one. *)
SenderTypeOK ==
    /\ TypeOK
    /\ page \in Pages
    /\ selector \in Selector
    /\ topic \in Label
    /\ selector.chosen \subseteq {topic}
    /\ mine \subseteq Message
    /\ told \in [Message -> {"nothing", "delivered", "failed"}]
    /\ to \in [Message -> Label]
    /\ addr \in BOOLEAN

SenderInit ==
    /\ Init
    /\ page \in Pages
    /\ selector = NewSelector(Known, {First})
    /\ topic = First
    /\ mine = {}
    /\ told = [m \in Message |-> "nothing"]
    /\ to = [m \in Message |-> First]
    /\ addr \in BOOLEAN

-----------------------------------------------------------------------------
(* Faulty variants of steps below, one slip each; no specification uses them. *)

(* onChange sets the topic to what it is given, undefined included. *)
DispatchUndefined(s) ==
    /\ selector' = s
    /\ topic' \in IF s.chosen = {} THEN {"undefined"} ELSE s.chosen

(* The answer to a post is shown by the page that is there, whichever posted it. *)
ReportToAnyPage(m) == told' = [told EXCEPT ![m] = ui'[m]]

(* The outbox does not catch that it knows no address. *)
UnservedHangs(m) == FALSE /\ UNCHANGED senderVars

-----------------------------------------------------------------------------
(* Navigation. *)

(* Another page is rendered: what the last one kept is gone. *)
Mount(p) ==
    /\ page' = p
    /\ selector' = NewSelector(Known, {First})
    /\ topic' = First
    /\ mine' = {}
    /\ told' = [m \in Message |-> "nothing"]
    /\ UNCHANGED <<vars, to, addr>>

navigation == {"consumer", "about"}
BarLinks == navigation
MenuLinks == {"consumer", "about"}

(* A link to the page that is shown renders the same component again, which keeps its state. *)
FollowLink(p) ==
    /\ p # page
    /\ Mount(p)

(* A reload, or an address typed into the browser. *)
Load(p) == Mount(p)

-----------------------------------------------------------------------------
(* The selector of the topic. *)

(* setAndDispatchValue, with the onChange of MessageProducer, which ignores that nothing is chosen. *)
Dispatch(s) ==
    /\ selector' = s
    /\ topic' \in IF s.chosen = {} THEN {topic} ELSE s.chosen

Select(s) ==
    /\ page \in HasSender
    /\ Dispatch(s)
    /\ UNCHANGED <<vars, to, page, mine, told, addr>>

PickTopic(l) == l \in selector.offered /\ Select(PickOne(selector, l))

CreateTopic(l) == IsNew(selector, l) /\ Select(CreateOne(selector, l))

ClearTopic == selector.chosen # {} /\ Select(Clear(selector))

-----------------------------------------------------------------------------
(* The button "Produce" and what becomes of it. *)

Click(m) ==
    /\ page \in HasSender
    /\ Post(m)
    /\ to' = [to EXCEPT ![m] = topic]
    /\ mine' = mine \cup {m}
    /\ UNCHANGED <<page, selector, topic, told, addr>>

(* The request of the outbox has an address to go to and a route of the producer to match. *)
Served(m) == addr /\ to[m] \in Routable

Handle(m) ==
    /\ Served(m)
    /\ Produce(m)
    /\ UNCHANGED <<pageVars, to, addr>>

(* getServiceAddr throws, which Next answers with 500, or Express answers 404 and the outbox 500. *)
Unserved(m) ==
    /\ ~Served(m)
    /\ ui[m] = "posted" /\ http[m] = "none"
    /\ ui' = [ui EXCEPT ![m] = "failed"]
    /\ UNCHANGED <<http, stage, sendVars, conn, proc, signalled, failed>>

(* The then or the catch of produce, whose updateStatus does nothing once its page is unmounted. *)
Report(m) == told' = IF m \in mine THEN [told EXCEPT ![m] = ui'[m]] ELSE told

(* What the request comes to when nothing is lost on the way. *)
Answer(m) == ReportDelivered(m) \/ Unserved(m) \/ (proc # "up" /\ Refused(m))

Settle(m) ==
    /\ Answer(m) \/ Refused(m) \/ ResponseLost(m)
    /\ Report(m)
    /\ UNCHANGED <<page, selector, topic, mine, to, addr>>

-----------------------------------------------------------------------------
Navigate == (\E p \in BarLinks \cup MenuLinks : FollowLink(p)) \/ (\E p \in Pages : Load(p))

Choose == (\E l \in Label : PickTopic(l) \/ CreateTopic(l)) \/ ClearTopic

SenderNext ==
    \/ Navigate
    \/ Choose
    \/ \E m \in Message : Click(m) \/ Handle(m) \/ Settle(m)
    \/ ((\E m \in Message : Send(m)) \/ Stop) /\ UNCHANGED <<pageVars, to, addr>>

(* Requests are handled and answered; nothing has to break, and nobody to click or to navigate. *)
SenderFairness ==
    /\ \A m \in Message : WF_senderVars(Handle(m)) /\ WF_senderVars(Answer(m) /\ Settle(m))
    /\ \A m \in Message : WF_vars(Send(m))
    /\ WF_vars(Disconnected)
    /\ WF_vars(Exit)

SenderSafety == SenderInit /\ [][SenderNext]_senderVars

SenderSpec == SenderSafety /\ SenderFairness

-----------------------------------------------------------------------------
(* Properties. *)

(* However pages are left and entered again while requests are under way, "Status Updates" says of
   the messages of its own page what their requests have come to, and of others nothing. *)
ReportsMatch ==
    \A m \in Message :
        told[m] = IF m \in mine /\ ui[m] # "posted" THEN ui[m] ELSE "nothing"

(* The page says what became of every message it posted, unless it is left first: with an unknown
   address, a topic that no route matches, a producer that stops, or a lost response, too. *)
EveryPostReported == \A m \in Message : m \in mine ~> m \notin mine \/ told[m] # "nothing"
=============================================================================
