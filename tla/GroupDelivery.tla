--------------------------- MODULE GroupDelivery ----------------------------
(***************************************************************************)
(* Who is given a message.  The listener of main, which counts messages for *)
(* /status, and the listener of every /consume request, which writes them   *)
(* to a page, join the one group of the service (group.id, kconsumer.go).   *)
(* Topics have one partition.  ReadMessage stores the offset of a message   *)
(* when it returns it; what is stored is committed in the background, and   *)
(* when a member closes or its topics are taken from it.  The page chooses  *)
(* its topics with a MultiSelector (MessageConsumer.tsx).                   *)
(*                                                                          *)
(* External: the broker and librdkafka, with its defaults for               *)
(* enable.auto.commit, enable.auto.offset.store and auto.offset.reset       *)
(* ("latest"): a group that has committed nothing begins at the end of a    *)
(* topic.  A request is a ConsumeRequest; the portal, which replaces one by *)
(* the next, is PortalStream, of which the outcome is used here.            *)
(***************************************************************************)
EXTENDS Naturals, Selectors

CONSTANTS
    MainTopics,   \* KAFKA_TOPICS of the consumer
    Known,        \* knownTopics of the page
    FirstTopics,  \* initialConsumerTopics
    MaxMessages,  \* bound: MaxMessages[l] messages of topic l
    MaxRequests,  \* bound: requests to /consume
    MaxStops      \* bound: ends of the consumer process

ASSUME GroupAssumption ==
    /\ MainTopics \cup Known \cup FirstTopics \subseteq Label
    /\ MaxMessages \in [Label -> Nat] /\ {MaxRequests, MaxStops} \subseteq Nat

Main == 0
Request == 1..MaxRequests
Member == {Main} \cup Request
Msg == UNION {{l} \X (1..MaxMessages[l]) : l \in Label}

VARIABLES
    selector,     \* the MultiSelector of the page
    asked,        \* consumerTopics of MessageConsumer
    reader,       \* the request whose events the page reads, or 0
    sub,          \* sub[r]: the topics of request r
    req, member,  \* the requests, see ConsumeRequest
    up,           \* the listener of main is a member
    log,          \* log[l]: how many messages topic l has
    owns,         \* owns[x]: the topics that member x is assigned
    stale,        \* the group has changed since topics were assigned
    at,           \* at[l]: how many messages of l its owner has passed
    stored,       \* stored[l]: the offset stored by its owner, or 0
    committed,    \* committed[l]: the offset of the group, or 0
    held,         \* held[x]: the message that the Processor of x is given, in a set
    taken,        \* history: taken[m]: how often m was taken by a member
    given,        \* history: the messages taken by the listener of a request
    counted,      \* history: the messages in nConsumed, then or now
    skipped,      \* history: messages passed over by auto.offset.reset
    stops, kills  \* ends of the process, and those without a clean up

pageVars == <<selector, asked, reader>>
serviceVars == <<sub, req, member, up, held, stops, kills>>
kafkaVars == <<log, owns, stale, at, stored, committed>>
historyVars == <<taken, given, counted, skipped>>
vars == <<pageVars, serviceVars, kafkaVars, historyVars>>

CR == INSTANCE ConsumeRequest

TypeOK ==
    /\ selector \in Selector
    /\ asked \subseteq Label
    /\ reader \in Member
    /\ sub \in [Request -> SUBSET Label]
    /\ req \in [Request -> CR!Active \cup {"none", "ended"}]
    /\ member \in [Request -> {"none", "in", "out"}]
    /\ up \in BOOLEAN
    /\ owns \in [Member -> SUBSET Label]
    /\ \A x, y \in Member : x # y => owns[x] \cap owns[y] = {}
    /\ stale \in BOOLEAN
    /\ {log, at, stored, committed} \subseteq [Label -> Nat]
    /\ \A l \in Label : stored[l] <= at[l] /\ at[l] <= log[l]
    /\ held \in [Member -> SUBSET Msg]
    /\ taken \in [Msg -> Nat]
    /\ UNION {given, counted, skipped} \subseteq Msg
    /\ stops \in 0..MaxStops /\ kills \in 0..stops

Init ==
    /\ selector = NewSelector(Known, FirstTopics)
    /\ asked = FirstTopics
    /\ reader = 0
    /\ sub = [r \in Request |-> {}]
    /\ CR!Init
    /\ up = FALSE
    /\ log = [l \in Label |-> 0]
    /\ owns = [x \in Member |-> {}]
    /\ stale = FALSE
    /\ at = log /\ stored = log /\ committed = log
    /\ held = [x \in Member |-> {}]
    /\ taken = [m \in Msg |-> 0]
    /\ given = {} /\ counted = {} /\ skipped = {}
    /\ stops = 0 /\ kills = 0

InGroup(x) == IF x = Main THEN up ELSE member[x] = "in"
Topics(x) == IF x = Main THEN MainTopics ELSE sub[x]

(* What the owners of topics ls have stored is committed. *)
Commit(ls) ==
    committed' = [l \in Label |-> IF l \in ls /\ stored[l] > 0 THEN stored[l] ELSE committed[l]]

(* The owners of topics ls lose them, and with them what they have stored. *)
Release(ls) ==
    /\ owns' = [x \in Member |-> owns[x] \ ls]
    /\ stored' = [l \in Label |-> IF l \in ls THEN 0 ELSE stored[l]]
    /\ at' = [l \in Label |-> IF l \in ls THEN 0 ELSE at[l]]
    /\ stale' = TRUE

Owned == UNION {owns[x] : x \in Member}

-----------------------------------------------------------------------------
(* Faulty variants of steps below, one slip each; no specification uses them. *)

(* The new label is and MessageConsumer is not told. *)
DispatchNothing(s) ==
    /\ selector' = s
    /\ UNCHANGED <<asked, reader>>

(* The offset of a message is stored when the next one is read. *)
ReadStoresLate(x, l) ==
    /\ InGroup(x) /\ l \in owns[x] /\ held[x] = {}
    /\ at[l] < log[l]
    /\ at' = [at EXCEPT ![l] = @ + 1]
    /\ stored' = [stored EXCEPT ![l] = at[l]]
    /\ held' = [held EXCEPT ![x] = {<<l, at'[l]>>}]
    /\ taken' = [taken EXCEPT ![<<l, at'[l]>>] = @ + 1]
    /\ given' = IF x = Main THEN given ELSE given \cup held'[x]
    /\ UNCHANGED <<pageVars, sub, req, member, up, stops, kills, log, owns, stale, committed,
                   counted, skipped>>

(* The offset that is stored is the one after the next. *)
ReadStoresTwo(x, l) ==
    /\ InGroup(x) /\ l \in owns[x] /\ held[x] = {}
    /\ at[l] < log[l]
    /\ at' = [at EXCEPT ![l] = @ + 1]
    /\ stored' = [stored EXCEPT ![l] = at[l] + 2]
    /\ held' = [held EXCEPT ![x] = {<<l, at'[l]>>}]
    /\ taken' = [taken EXCEPT ![<<l, at'[l]>>] = @ + 1]
    /\ given' = IF x = Main THEN given ELSE given \cup held'[x]
    /\ UNCHANGED <<pageVars, sub, req, member, up, stops, kills, log, owns, stale, committed,
                   counted, skipped>>

(* A listener that closes does not commit what it has stored. *)
LeaveUncommitted(r) ==
    /\ CR!Leave(r)
    /\ sub' = [sub EXCEPT ![r] = {}]
    /\ Release(owns[r])
    /\ UNCHANGED committed

(* The listener is not launched again. *)
BootWithoutListener == up /\ UNCHANGED vars

-----------------------------------------------------------------------------
(* The page. *)

(* setAndDispatchValue, with the onChange of MessageConsumer and its effect, which closes the
   EventSource. An empty list is not ignored. *)
Dispatch(s) ==
    /\ selector' = s
    /\ asked' = s.chosen
    /\ reader' = 0

Select(s) == Dispatch(s) /\ UNCHANGED <<serviceVars, kafkaVars, historyVars>>

PickTopic(l) == l \in InMenu(selector) /\ Select(Add(selector, l))

CreateTopic(l) == IsNew(selector, l) /\ Select(CreateAndAdd(selector, l))

RemoveTopic(l) == l \in selector.chosen /\ Select(Remove(selector, l))

ClearTopics == selector.chosen # {} /\ Select(Clear(selector))

(* The page is entered again. *)
Enter ==
    /\ selector' = NewSelector(Known, FirstTopics)
    /\ asked' = FirstTopics
    /\ reader' = 0
    /\ UNCHANGED <<serviceVars, kafkaVars, historyVars>>

Page ==
    \/ \E l \in Label : PickTopic(l) \/ CreateTopic(l) \/ RemoveTopic(l)
    \/ ClearTopics \/ Enter

-----------------------------------------------------------------------------
(* Requests. *)

(* The portal asks for what the page is asking for, if the page reads nothing or what it read
   has ended. Without topics it refuses. Requests are numbered in their order. *)
Begin(r) ==
    /\ up
    /\ reader = 0
    /\ asked # {}
    /\ \A q \in 1..(r - 1) : req[q] # "none"
    /\ CR!Begin(r)
    /\ sub' = [sub EXCEPT ![r] = asked]
    /\ reader' = r
    /\ UNCHANGED <<selector, asked, up, held, stops, kills, kafkaVars, historyVars>>

Join(r) ==
    /\ CR!Join(r)
    /\ stale' = TRUE
    /\ UNCHANGED <<pageVars, sub, up, held, stops, kills, log, owns, at, stored, committed, historyVars>>

(* closeConsumer: the client commits and leaves. *)
Leave(r) ==
    /\ CR!Leave(r)
    /\ sub' = [sub EXCEPT ![r] = {}]
    /\ Commit(owns[r]) /\ Release(owns[r])

(* The pump of a request ends by itself or because it was asked to. *)
Close(r) ==
    /\ held[r] = {}
    /\ Leave(r)
    /\ UNCHANGED <<pageVars, up, held, stops, kills, log, historyVars>>

(* The handler returns. That its context was cancelled before (CR!Cut) makes no difference to what
   it may do, and is left out. *)
End(r) ==
    /\ CR!End(r)
    /\ reader' = IF reader = r THEN 0 ELSE reader
    /\ UNCHANGED <<selector, asked, sub, up, held, stops, kills, kafkaVars, historyVars>>

-----------------------------------------------------------------------------
(* The pumps. *)

(* ReadMessage returns the next message, whose offset librdkafka stores. *)
Read(x, l) ==
    /\ InGroup(x) /\ l \in owns[x] /\ held[x] = {}
    /\ at[l] < log[l]
    /\ at' = [at EXCEPT ![l] = @ + 1]
    /\ stored' = [stored EXCEPT ![l] = at'[l]]
    /\ held' = [held EXCEPT ![x] = {<<l, at'[l]>>}]
    /\ taken' = [taken EXCEPT ![<<l, at'[l]>>] = @ + 1]
    /\ given' = IF x = Main THEN given ELSE given \cup held'[x]
    /\ UNCHANGED <<pageVars, sub, req, member, up, stops, kills, log, owns, stale, committed,
                   counted, skipped>>

(* ProcessMessage of the counter. *)
Count ==
    /\ held[Main] # {}
    /\ counted' = counted \cup held[Main]
    /\ held' = [held EXCEPT ![Main] = {}]
    /\ UNCHANGED <<pageVars, sub, req, member, up, stops, kills, kafkaVars, taken, given, skipped>>

(* ProcessMessage of a request, whose event is shown if the page still reads it. *)
Emit(r) ==
    /\ held[r] # {}
    /\ held' = [held EXCEPT ![r] = {}]
    /\ UNCHANGED <<pageVars, sub, req, member, up, stops, kills, kafkaVars, taken, given, counted, skipped>>

(* The event cannot be written: the pump ends, with the offset stored all the same. *)
EmitFails(r) ==
    /\ held[r] # {}
    /\ held' = [held EXCEPT ![r] = {}]
    /\ Leave(r)
    /\ UNCHANGED <<pageVars, up, stops, kills, log, historyVars>>

-----------------------------------------------------------------------------
(* The consumer process. *)

(* main launches its listener, and then the server. *)
Boot ==
    /\ ~up
    /\ up' = TRUE
    /\ stale' = TRUE
    /\ UNCHANGED <<pageVars, sub, req, member, held, stops, kills, log, owns, at, stored, committed,
                   historyVars>>

(* The process ends, after a clean up that has closed every listener, or at once. *)
Exit(clean) ==
    /\ up /\ stops < MaxStops
    /\ stops' = stops + 1
    /\ \/ clean /\ (\A x \in Member : held[x] = {}) /\ Commit(Owned) /\ UNCHANGED kills
       \/ ~clean /\ kills' = kills + 1 /\ UNCHANGED committed
    /\ up' = FALSE
    /\ req' = [r \in Request |-> IF req[r] \in CR!Active THEN "ended" ELSE req[r]]
    /\ member' = [r \in Request |-> IF member[r] = "in" THEN "out" ELSE member[r]]
    /\ held' = [x \in Member |-> {}]
    /\ sub' = [r \in Request |-> {}]
    /\ reader' = 0
    /\ Release(Label)
    /\ UNCHANGED <<selector, asked, log, historyVars>>

-----------------------------------------------------------------------------
(* Kafka. *)

Publish(l) ==
    /\ log[l] < MaxMessages[l]
    /\ log' = [log EXCEPT ![l] = @ + 1]
    /\ UNCHANGED <<pageVars, serviceVars, owns, stale, at, stored, committed, historyVars>>

AutoCommit(l) ==
    /\ l \in Owned /\ stored[l] > committed[l]
    /\ Commit({l})
    /\ UNCHANGED <<pageVars, serviceVars, log, owns, stale, at, stored, historyVars>>

Assignments ==
    {o \in [Member -> SUBSET Label] :
        \A l \in Label :
            LET Subscribers == {x \in Member : InGroup(x) /\ l \in Topics(x)}
                Owners == {x \in Member : l \in o[x]} IN
            IF Subscribers = {} THEN Owners = {} ELSE \E x \in Subscribers : Owners = {x}}

(* All topics are taken from their owners, who commit, and are assigned anew. *)
Rebalance ==
    /\ stale
    /\ stale' = FALSE
    /\ Commit(Owned)
    /\ owns' \in Assignments
    /\ stored' = [l \in Label |-> 0]
    /\ at' = [l \in Label |-> IF \A x \in Member : l \notin owns'[x] THEN 0
                             ELSE IF committed'[l] > 0 THEN committed'[l] ELSE log[l]]
    /\ skipped' = skipped \cup {m \in Msg : at'[m[1]] >= m[2] /\ taken[m] = 0}
    /\ UNCHANGED <<pageVars, serviceVars, log, taken, given, counted>>

-----------------------------------------------------------------------------
Next ==
    \/ Page
    \/ \E r \in Request : Begin(r) \/ Join(r) \/ Close(r) \/ End(r) \/ Emit(r) \/ EmitFails(r)
    \/ \E x \in Member, l \in Label : Read(x, l)
    \/ Count
    \/ Boot \/ (\E clean \in BOOLEAN : Exit(clean))
    \/ (\E l \in Label : Publish(l) \/ AutoCommit(l))
    \/ Rebalance

(* Pumps run, the process is started again, and the broker assigns topics. *)
Fairness ==
    /\ \A l \in Label : WF_vars(\E x \in Member : Read(x, l))
    /\ \A r \in Request : WF_vars(Emit(r) \/ EmitFails(r))
    /\ WF_vars(Count)
    /\ WF_vars(Boot)
    /\ WF_vars(Rebalance)

Safety == Init /\ [][Next]_vars

Spec == Safety /\ Fairness

-----------------------------------------------------------------------------
(* Properties. *)

(* One group, many members that come and go, and a page that changes its mind: a message is taken
   by one of them, once, and so counted for /status or emitted to a page, never both. A kill of the
   process may repeat what was not committed yet. *)
TakenOnce == \A m \in Msg : taken[m] <= 1 + kills

(* Once a message of a topic was taken, none that comes after it is passed over, whoever the topic
   is given to: every way to leave the group and every rebalance commits first. *)
NoneSkippedAfterFirst ==
    \A l \in Label : \A i, j \in 1..MaxMessages[l] :
        i < j /\ taken[<<l, i>>] > 0 /\ <<l, j>> \in skipped => kills > 0

(* What the request that the page reads is about to emit, and the page to show, is of a topic that
   the selector displays, although requests of earlier choices are still members of the group. *)
ShownIsDisplayed == reader # 0 => \A m \in held[reader] : m[1] \in selector.chosen

(* A message of a topic of main gets into the count behind /status, except where it was there
   before the group, a request took it, or the process was killed. *)
EvidentUnlessShared ==
    \A m \in Msg :
        m[1] \in MainTopics /\ m[2] <= log[m[1]] ~>
            m \in counted \cup skipped \cup given \/ kills > 0
=============================================================================
