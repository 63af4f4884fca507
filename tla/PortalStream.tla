---------------------------- MODULE PortalStream ----------------------------
(***************************************************************************)
(* The way of an event from the consumer service to the page.  The effect   *)
(* of MessageConsumer (portal/components/MessageConsumer.tsx) opens an      *)
(* EventSource of the browser to /api/consume; the handler of that route    *)
(* (portal/pages/api/consume.ts) opens an EventSource of its own, of the    *)
(* npm package, to /consume of the consumer, and copies events.  Both       *)
(* EventSources reconnect by themselves until they are closed.              *)
(*                                                                          *)
(* External: the two EventSources, HTTP, and Next, whose body parser never  *)
(* lets a request through that was aborted before its handler ran.  The     *)
(* consumer service is ConsumeRequest.  Events are numbered as written.     *)
(***************************************************************************)
EXTENDS Naturals, Sequences, SequencesExt

CONSTANTS
    MaxRuns,      \* bound: runs of the effect of MessageConsumer
    MaxHandlers,  \* bound: requests to /api/consume that reach the handler
    MaxRequests,  \* bound: requests to /consume
    MaxEvents     \* bound: events written by the consumer

ASSUME BoundsAssumption ==
    {MaxRuns, MaxHandlers, MaxRequests, MaxEvents} \subseteq Nat \ {0}

Run == 0..MaxRuns          \* run 0 stands for the page before it is mounted
Handler == 1..MaxHandlers
Request == 1..MaxRequests
Event == 1..MaxEvents

VARIABLES
    run,          \* the latest run of the effect
    topics,       \* topics[g]: what run g asks for, "none" or "some"
    es,           \* es[g]: readyState of its EventSource, "none", "connecting", "open" or "closed"
    at,           \* at[g]: the handler whose response it reads, or 0
    res,          \* res[h]: the response of handler h, "none", "live" or "closed"
    asked,        \* asked[h]: the run whose topics are in the query of h, or 0
    via,          \* via[h]: the request to /consume that the EventSource of h reads, or 0
    by,           \* by[r]: the handler that made request r, or 0
    req, member,  \* the requests, see ConsumeRequest
    toPortal,     \* toPortal[r]: events of r that its handler has not copied
    toPage,       \* toPage[h]: events copied by h that the page has not shown
    written,      \* the number of events written
    shown,        \* the log of the page: each event with the run that asked for it
    lost          \* history: the events that went down with a connection

pageVars == <<run, topics, es, at>>
portalVars == <<res, asked, via, by>>
serviceVars == <<req, member>>
vars == <<pageVars, portalVars, serviceVars, toPortal, toPage, written, shown, lost>>

CR == INSTANCE ConsumeRequest

TypeOK ==
    /\ run \in Run
    /\ topics \in [Run -> {"none", "some"}]
    /\ es \in [Run -> {"none", "connecting", "open", "closed"}]
    /\ at \in [Run -> Handler \cup {0}]
    /\ res \in [Handler -> {"none", "live", "closed"}]
    /\ asked \in [Handler -> Run]
    /\ via \in [Handler -> Request \cup {0}]
    /\ by \in [Request -> Handler \cup {0}]
    /\ req \in [Request -> CR!Active \cup {"none", "ended"}]
    /\ member \in [Request -> {"none", "in", "out"}]
    /\ toPortal \in [Request -> Seq(Event)]
    /\ toPage \in [Handler -> Seq(Event)]
    /\ written \in 0..MaxEvents
    /\ shown \in Seq([event : Event, run : Run])
    /\ lost \subseteq Event

Init ==
    /\ run = 0
    /\ topics = [g \in Run |-> "none"]
    /\ es = [g \in Run |-> IF g = 0 THEN "closed" ELSE "none"]
    /\ at = [g \in Run |-> 0]
    /\ res = [h \in Handler |-> "none"]
    /\ asked = [h \in Handler |-> 0]
    /\ via = [h \in Handler |-> 0]
    /\ by = [r \in Request |-> 0]
    /\ CR!Init
    /\ toPortal = [r \in Request |-> <<>>]
    /\ toPage = [h \in Handler |-> <<>>]
    /\ written = 0
    /\ shown = <<>>
    /\ lost = {}

(* Handlers and requests are numbered as they come. *)
Fresh(state) == {x \in DOMAIN state : state[x] = "none" /\ \A y \in 1..(x - 1) : state[y] # "none"}

(* The page still reads the response of h. *)
IsRead(h) == \E g \in Run : at[g] = h

(* The EventSource of run g lets go of its response; what it has not read goes down with it. *)
HangUp(g) ==
    /\ at' = [at EXCEPT ![g] = 0]
    /\ toPage' = [h \in Handler |-> IF h = at[g] THEN <<>> ELSE toPage[h]]
    /\ lost' = lost \cup UNION {ToSet(toPage[h]) : h \in {at[g]} \cap Handler}

Open == {r \in Request : req[r] = "open"}

(* The EventSource of handler h lets go of its request, whose context is cancelled. *)
HangUpRequest(h) ==
    /\ via' = [via EXCEPT ![h] = 0]
    /\ toPortal' = [r \in Request |-> IF r = via[h] THEN <<>> ELSE toPortal[r]]
    /\ lost' = lost \cup UNION {ToSet(toPortal[r]) : r \in {via[h]} \cap Request}
    /\ \/ via[h] \in Open /\ CR!Cut(via[h])
       \/ via[h] \notin Open /\ UNCHANGED serviceVars

-----------------------------------------------------------------------------
(* Faulty variants of steps below, one slip each; no specification uses them. *)

(* The effect has no clean up. *)
SelectTopicsNoCleanup(t) ==
    /\ run < MaxRuns
    /\ run' = run + 1
    /\ topics' = [topics EXCEPT ![run + 1] = t]
    /\ es' = [es EXCEPT ![run + 1] = "connecting"]
    /\ UNCHANGED <<at, toPage, lost, portalVars, serviceVars, toPortal, written, shown>>

(* The handler opens its EventSource again when its response is gone. *)
UpConnectAfterClose(h, r) ==
    /\ res[h] \in {"live", "closed"}
    /\ via[h] = 0
    /\ CR!Begin(r)
    /\ via' = [via EXCEPT ![h] = r]
    /\ by' = [by EXCEPT ![r] = h]
    /\ UNCHANGED <<pageVars, res, asked, toPortal, toPage, written, shown, lost>>

(* The listener for events is added whenever the EventSource opens. *)
CopyTwice(h) ==
    LET r == via[h] IN
    /\ r # 0 /\ toPortal[r] # <<>>
    /\ toPortal' = [toPortal EXCEPT ![r] = Tail(@)]
    /\ \/ IsRead(h) /\ toPage' = [toPage EXCEPT ![h] = @ \o <<Head(toPortal[r]), Head(toPortal[r])>>]
                    /\ UNCHANGED lost
       \/ ~IsRead(h) /\ lost' = lost \cup {Head(toPortal[r])} /\ UNCHANGED toPage
    /\ UNCHANGED <<pageVars, portalVars, serviceVars, written, shown>>

(* The end of a request overtakes the events before it. *)
UpEndAtOnce(h) ==
    /\ via[h] # 0 /\ req[via[h]] = "ended"
    /\ via' = [via EXCEPT ![h] = 0]
    /\ toPortal' = [toPortal EXCEPT ![via[h]] = <<>>]
    /\ UNCHANGED <<pageVars, res, asked, by, serviceVars, toPage, written, shown, lost>>

-----------------------------------------------------------------------------
(* The page. *)

(* MessageConsumer is mounted, or its topics are set: the clean up of the last run of the effect
   closes its EventSource, and the effect runs. A click's effects run before other events. *)
SelectTopics(t) ==
    /\ run < MaxRuns
    /\ run' = run + 1
    /\ topics' = [topics EXCEPT ![run + 1] = t]
    /\ es' = [es EXCEPT ![run] = "closed", ![run + 1] = "connecting"]
    /\ HangUp(run)
    /\ UNCHANGED <<portalVars, serviceVars, toPortal, written, shown>>

(* MessageConsumer is unmounted. *)
LeavePage ==
    /\ es[run] # "closed"
    /\ es' = [es EXCEPT ![run] = "closed"]
    /\ HangUp(run)
    /\ UNCHANGED <<run, topics, portalVars, serviceVars, toPortal, written, shown>>

(* The headers of the response have come. *)
Opened(g) ==
    /\ es[g] = "connecting"
    /\ at[g] # 0
    /\ es' = [es EXCEPT ![g] = "open"]
    /\ UNCHANGED <<run, topics, at, portalVars, serviceVars, toPortal, toPage, written, shown, lost>>

(* The listener for "streamer" adds an event to the log. *)
Show(g) ==
    LET h == at[g] IN
    /\ es[g] = "open"
    /\ h # 0 /\ toPage[h] # <<>>
    /\ shown' = Append(shown, [event |-> Head(toPage[h]), run |-> asked[h]])
    /\ toPage' = [toPage EXCEPT ![h] = Tail(@)]
    /\ UNCHANGED <<pageVars, portalVars, serviceVars, toPortal, written, lost>>

(* The connection to the portal breaks: the EventSource goes on to connect again. *)
Lose(g) ==
    /\ at[g] # 0
    /\ es' = [es EXCEPT ![g] = "connecting"]
    /\ HangUp(g)
    /\ UNCHANGED <<run, topics, portalVars, serviceVars, toPortal, written, shown>>

-----------------------------------------------------------------------------
(* The handler of /api/consume. *)

(* Without topics it answers 400, on which an EventSource closes for good. *)
Refuse(g) ==
    /\ es[g] = "connecting"
    /\ topics[g] = "none" /\ at[g] = 0
    /\ es' = [es EXCEPT ![g] = "closed"]
    /\ UNCHANGED <<run, topics, at, portalVars, serviceVars, toPortal, toPage, written, shown, lost>>

(* The headers are flushed whether or not the EventSource of the handler will ever open. *)
Accept(g, h) ==
    /\ es[g] = "connecting"
    /\ topics[g] # "none"
    /\ at[g] = 0
    /\ at' = [at EXCEPT ![g] = h]
    /\ res' = [res EXCEPT ![h] = "live"]
    /\ asked' = [asked EXCEPT ![h] = g]
    /\ UNCHANGED <<run, topics, es, via, by, serviceVars, toPortal, toPage, written, shown, lost>>

(* The EventSource of h connects, at once or again after a request has ended. *)
UpConnect(h, r) ==
    /\ res[h] = "live"
    /\ via[h] = 0
    /\ CR!Begin(r)
    /\ via' = [via EXCEPT ![h] = r]
    /\ by' = [by EXCEPT ![r] = h]
    /\ UNCHANGED <<pageVars, res, asked, toPortal, toPage, written, shown, lost>>

(* The listener for "streamer" copies an event to the response, whoever reads that. *)
Copy(h) ==
    LET r == via[h] IN
    /\ r # 0 /\ toPortal[r] # <<>>
    /\ toPortal' = [toPortal EXCEPT ![r] = Tail(@)]
    /\ \/ IsRead(h) /\ toPage' = [toPage EXCEPT ![h] = Append(@, Head(toPortal[r]))] /\ UNCHANGED lost
       \/ ~IsRead(h) /\ lost' = lost \cup {Head(toPortal[r])} /\ UNCHANGED toPage
    /\ UNCHANGED <<pageVars, portalVars, serviceVars, written, shown>>

(* The consumer has ended the request, and all of its events have been read. *)
UpEnd(h) ==
    /\ via[h] # 0 /\ req[via[h]] = "ended"
    /\ toPortal[via[h]] = <<>>
    /\ via' = [via EXCEPT ![h] = 0]
    /\ UNCHANGED <<pageVars, res, asked, by, serviceVars, toPortal, toPage, written, shown, lost>>

(* The connection to the consumer breaks. *)
UpLose(h) ==
    /\ via[h] # 0
    /\ HangUpRequest(h)
    /\ UNCHANGED <<pageVars, res, asked, by, toPage, written, shown>>

(* The response is closed by its reader: the listener for "close" closes the EventSource. *)
CloseRes(h) ==
    /\ res[h] = "live"
    /\ ~IsRead(h)
    /\ res' = [res EXCEPT ![h] = "closed"]
    /\ HangUpRequest(h)
    /\ UNCHANGED <<pageVars, asked, by, toPage, written, shown>>

-----------------------------------------------------------------------------
(* The consumer service. *)

(* The listener of request r writes an event, which is lost if the portal has hung up. *)
Write(r) ==
    /\ member[r] = "in"
    /\ written < MaxEvents
    /\ written' = written + 1
    /\ \/ via[by[r]] = r /\ toPortal' = [toPortal EXCEPT ![r] = Append(@, written')] /\ UNCHANGED lost
       \/ via[by[r]] # r /\ lost' = lost \cup {written'} /\ UNCHANGED toPortal
    /\ UNCHANGED <<pageVars, portalVars, serviceVars, toPage, shown>>

(* Its context is also cancelled by the ReadTimeout of the server. *)
Serve(r) ==
    /\ CR!Join(r) \/ CR!Leave(r) \/ CR!Cut(r) \/ CR!End(r)
    /\ UNCHANGED <<pageVars, portalVars, toPortal, toPage, written, shown, lost>>

-----------------------------------------------------------------------------
Page ==
    \/ \E t \in {"none", "some"} : SelectTopics(t)
    \/ LeavePage
    \/ \E g \in Run : Opened(g) \/ Show(g) \/ Lose(g) \/ Refuse(g) \/ (\E h \in Fresh(res) : Accept(g, h))

Portal ==
    \E h \in Handler :
        \/ \E r \in Fresh(req) : UpConnect(h, r)
        \/ Copy(h) \/ UpEnd(h) \/ UpLose(h) \/ CloseRes(h)

Next == Page \/ Portal \/ \E r \in Request : Write(r) \/ Serve(r)

(* What a connection carries arrives as long as it holds, its end included, and requests that were
   cut off end. Nobody has to select or write anything, and no connection has to come about. *)
Fairness ==
    /\ \A g \in Run : WF_vars(Opened(g)) /\ WF_vars(Show(g))
    /\ \A h \in Handler : WF_vars(Copy(h)) /\ WF_vars(CloseRes(h))
    /\ CR!Fairness

Safety == Init /\ [][Next]_vars

Spec == Safety /\ Fairness

-----------------------------------------------------------------------------
(* Properties. *)

(* Across reconnects on either side and changes of topics, the log shows no event twice and none
   after a later one, although several requests may be members of the group at once. *)
ShownOnceInOrder == \A i, j \in DOMAIN shown : i < j => shown[i].event < shown[j].event

(* Nothing that was asked for before the last change of topics is added to the log after it. *)
ShownIsSelected == [][shown' # shown => Last(shown').run = run]_vars

(* An event is shown or goes down with a connection that broke or was closed from the page's side:
   a request that the consumer ends, which the portal replaces by another, loses nothing. *)
EventArrives ==
    \A e \in Event : written >= e ~> e \in lost \/ \E i \in DOMAIN shown : shown[i].event = e

Settled(g) ==
    /\ \A h \in Handler : asked[h] = g => res[h] # "live"
    /\ \A r \in Request : by[r] # 0 /\ asked[by[r]] = g => req[r] = "ended"

(* When the page is left or other topics are selected, no response and no member of the consumer
   group that served the old ones remains in the end, and none comes back by a reconnect. *)
ClosedLeavesGroup == \A g \in Run : es[g] = "closed" ~> []Settled(g)
=============================================================================
