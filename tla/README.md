# Kafkloud in TLA+

Kafkloud passes messages from a web page to Kafka and back: a **portal** (Next.js) posts a message
to the **producer** (Express, kafkajs), which sends it to a topic of the **streamer** (Kafka); the
**consumer** (Go, librdkafka) counts messages and streams them to browsers over SSE; **seer**
(FastAPI, confluent-kafka) learns statements and answers questions, topic to topic. No program logic
is shared: the parts meet only over HTTP and Kafka. What is difficult is inside each process:
goroutines, threads and callbacks that have to start, fail and stop together.

Every module here is translated from the source at the lines `PROJECT.json` names under `map`.

## Inventory

| part | state | operations | talks to |
|---|---|---|---|
| Kafka listener `kclient.KafkaConsumer` | librdkafka client, `quitRequest`, `DoneChan`, pump goroutine | `Launch`, pump loop, `Close` | Processor (counter or SSE request), error handler |
| error handler `newErrorHandler` | `errorCount`, `lastErrorTime`, no lock | one closure, called from every pump | SIGTERM to its own process |
| `/consume` `SseConsumerHandler` | request context, its own listener, `ResponseWriter` | handler goroutine: emit, launch, select, close | listener, net/http |
| consumer process `main.go`, `server.go` | boot progress, signal channel, shutdown context, HTTP server | `main`, `gracefulShutdown`, `Server.Launch/Close` | all of the above |
| `/status` and the counter | `nConsumed` | `ProcessMessage`, `StatusHandler` | main's listener |
| producer `server.ts` | kafkajs connection, sends under way | `POST /produce`, `sendToKafka`, `exitOnSignal` | Kafka, portal |
| consumer group | partitions of each member, offsets stored and committed | join, read, commit, leave, rebalance | main's listener, listeners of requests, Kafka |
| portal, selectors | options offered, options chosen | choose, create, remove, clear | `MessageProducer`, `MessageConsumer` |
| portal, pages and navigation | the page that is mounted, and its state | links, reload | the two halves of the page |
| portal, sending | the topic to post to, what the page says of a message | `MessageProducer`, `/api/outbox` | producer |
| portal, receiving | selected topics, two `EventSource`s, log | `MessageConsumer`, `/api/consume`, `/api/status` | consumer |
| seer `kafka.py`, `fastapi.py` | polling thread, cancel flag, positions, stored and committed offsets, producer queue | `_poll`, `run` with its `finally`, lifespan | Kafka, database, language model |
| seer HTTP endpoints, `seer.py`, `cli.py` | none | `load`, `accept`, `ask` | database, language model |
| streamer | topics, groups | Kafka itself; two Python sample clients | all |
| configuration, `cmd/timeout`, k8s, Dockerfiles, tests | none | | |

### What is hard, and what would make it right

* **The rendezvous on `DoneChan`.** It has no buffer: the pump's last act waits for a receiver,
  `Close` waits for the pump, and an SSE handler waits for either. Right: `Close` always returns,
  and only to a listener that has left the group; nobody waits for a send that happened already.
* **Two ways for a request to end.** The client goes (or the read time-out of the server cancels
  the context), or the listener does. Right: the handler returns in both cases, nothing writes to
  its `ResponseWriter` afterwards, no member of the group stays behind.
* **A shutdown against the clock.** The clean up closes the listener, then waits for the server's
  handlers; `os.Exit` comes at a deadline. Right: what the deadline can cut off is known.
* **A background component that ends by itself.** A listener tells the process with a SIGTERM to
  itself; the HTTP server tells nobody.
* **An unlocked counter** called from several goroutines, with a time window and a reset.
* **Answers before outcomes.** `/produce` responds before it sends; a signal disconnects while
  sends are under way.
* **Offsets by hand.** Seer stores an offset after it handled a message; Kafka commits it later;
  the answer is delivered later still; any exception ends the thread for good.
* **Two connections in a row that both come back.** The page's EventSource reads the portal's
  response, the portal's reads the consumer's; each reconnects by itself, and only the close of one
  ends the other. Right: the page shows what is selected, once and in order, and a page that is left
  leaves nothing in the consumer group.
* **One group for two purposes.** main's listener counts messages for `/status`; every `/consume`
  request is a member of the same group, comes and goes with a page, and makes the broker assign
  the topics anew; offsets are stored before a message is processed. Right: a message is taken
  once, none is passed over after the first commit, and what is not counted was given to a page.
* **State kept twice.** A selector keeps what it shows, its parent what it uses, a request under way
  what it was given; a page that is left takes two of these with it. Right: the page
  says what became of what it posted, and of nothing that another page did.

`PROJECT.json` lists these, and the smaller ones, under `hazards`, with the properties about each.

## Modules

```
Component            KafkaConsumer  <----  SseConsumer  <----  ConsumerService
  (util.go)  <= implements  |    INSTANCE               INSTANCE (both)
                                         |
ErrorHandler     Seer                     `= implements =>  ConsumeRequest  <----  PortalStream
                                                                    ^
Producer  <----  MessageSender  ---->  Selectors  <----  GroupDelivery
           EXTENDS              EXTENDS           EXTENDS  (INSTANCE ConsumeRequest)
```

| module | models | proofs |
|---|---|---|
| `Component` | the interface `util.Component`, as an abstract specification | |
| `KafkaConsumer` | `kconsumer.go`: one operator per step of a listener and of its owner | `KafkaConsumerProofs` |
| `SseConsumer` | `sseconsumer.go`: requests, each with a listener | `SseConsumerProofs` |
| `ConsumeRequest` | `GET /consume` as its client knows it, as an abstract specification | |
| `PortalStream` | `MessageConsumer.tsx` and `/api/consume`, on top of `ConsumeRequest` | `PortalStreamProofs` |
| `ConsumerService` | `main.go`, `server.go`: boot, signals, shutdown, with time | `ConsumerServiceProofs` |
| `ErrorHandler` | the closure of `newErrorHandler`, load by load and store by store, with time | `ErrorHandlerProofs` |
| `Seer` | `kafka.py`, the lifespan of `fastapi.py`, librdkafka's background work | `SeerProofs` |
| `Producer` | `server.ts`, `outbox.ts`, the post of `MessageProducer.tsx` | |
| `Selectors` | `SingleSelector.tsx`, `MultiSelector.tsx`, `createOption`, as operators on a selector's state | |
| `MessageSender` | the sending half of the page: `MessageProducer.tsx`, its selector, the navigation (`navbar.tsx`, `pages/`), `getServiceAddr`; extends `Producer` | `MessageSenderProofs` |
| `GroupDelivery` | the consumer group of the service: main's listener and `/consume` requests, offsets, rebalances, restarts, and the page's choice of topics | `GroupDeliveryProofs` |

`MC*.tla` and the `.cfg` files instantiate them. Each module also holds *faulty variants*: copies of
one step with one slip, against which each property was tried. No specification uses them.

### How they correspond to the code

**KafkaConsumer.** `pump[k]` is the program counter of the goroutine: `check` (head of the loop,
`quitRequest.Load`), `read` (inside `ReadMessage`), `fault` (error, handler not called yet),
`process` (inside `ProcessMessage`), `unwind` (left the loop, deferred calls to run), `send`
(client closed, sending on `DoneChan`), `exited`. `failed` is a `Launch` that returned an error. The
rendezvous is `SendDone`, enabled only when `done[k] = "waiting"`. The steps leave nothing
unconstrained, so that the two modules above reuse them unchanged. `late` is a history variable.

**SseConsumer.** A listener has the name of its request. `ContextDone` is the first case of the
`select`: it raises `quitRequest` and keeps waiting on the same channel, which merges the
step between leaving the `select` and the receive of `Close`; in that moment the pump could only
have waited longer. When both cases are ready, either is taken, as in Go. `CancelContext` is
external: net/http cancels a request's context when the client disconnects and when the background
read of the connection hits `ReadTimeout`.

**ConsumeRequest.** A request is `open`, then `cut` when its context is cancelled, and `ended` when
its handler has returned; it joins the consumer group at most once. `SseConsumer` implements it, and
`PortalStream` uses it instead of the goroutines behind it.

**PortalStream.** A run of the effect of `MessageConsumer` owns one EventSource of the browser
(`es`, `at`); a handler of `/api/consume` owns a response (`res`) and an EventSource of the npm
package (`via`: the request it reads, 0 while it waits to connect again). Both EventSources, HTTP and
Next are external. An EventSource that was answered 400, as without topics, is closed for
good; one whose response ends or breaks connects again; a closed one does nothing more, which is
why nothing of an old run is shown. Next's body parser waits for the end of the request, which
never comes of one that was aborted before, so that no handler begins with a response that is closed
already. React's StrictMode, which mounts a component twice, is one more `SelectTopics`. The text of
the events, and with it the unfinished `retry: 3000` line, is not part of the module.

**ConsumerService.** `main` runs `launch`, `serve`, `notify`, `signal` (blocked on `sigChan`),
`drain` (blocked on the context), and ends `exited`, `killed` (a signal before `Notify`) or `fatal`.
The error handler's verdict is a free choice here; its SIGTERM is delivered in the same step.
`shutdownWait` is the one setting that runs vary; `Init` chooses it, as `configs.Load` does.
Time: `Tick` is enabled only if everything that can run is blocked in something that takes time,
so code is immediate and only `ReadMessage`, writes to a client and waiting take time. librdkafka's
`Consumer.Close` and the polling interval of `Server.Shutdown` (half a second at most) count as
immediate.

**ErrorHandler.** `errorCount++` is `LoadCount` and `StoreCount`. A `time.Time` is three words:
the read of `lastErrorTime` while another goroutine writes the first value may see half of it, and
then the test of the window may go either way (`Torn`). Later torn reads mix two times that are
close together and are not modelled apart. The clock ticks between any two steps.

**Seer.** `thread` is the program counter of the polling thread: `loop` (test of `cancel_flag`),
`poll`, `handle`, `deliver`, `store`, then `unsubscribe`, `flush`, `close` of the `finally` clause,
`dead`. `pos` is what has been read, `stored` what `store_offsets` has put aside, `committed` what
the broker knows. There is one partition per topic and one process at a time; an eviction of the
consumer, and its return to the group, inside one start of the process show only as a failing
`store_offsets`. The commit that ends `close` may fail as well (`commit`: the broker is away, or the
membership was lost after `session.timeout.ms`, 6 s); then the next start begins where the last
commit in the background left the group. What may fail is the constant `Fault`; `failed` is the history
of what did, `lost` that of the questions of which an answer was dropped, given up or killed.

**Producer.** Each callback of `server.ts` runs to its next `await`, so an action is a callback.
The handler's local `result` is assigned after the response was sent and read by nobody, so it is left
out. Of the kafkajs client the module knows: `connect` and `send` resolve or reject, `send` on a
disconnected producer rejects, `disconnect` settles, and a send whose acknowledgement was lost is tried
again up to `MaxRetries` times. The producer is not created as an idempotent one
(`server.ts:15-20`), so that each try may append the message once more (`AckLost`), and `send` rejects
after the last. Signals come any number of times. `failed` is the set of the messages that could not
be connected for, or were refused.

**Selectors.** A selector is a record of the labels it offers and the ones it shows as chosen; the
operators say what a selector becomes. `Value` is the table of `createOption`, which drops case
and every character that is not of a word, so that two labels may have one value: react-select, which
is external, tells options apart by it. Labels keep no order: the one that Backspace removes is one
that the mouse can remove. `isLoading` is set and reset in one event.

**MessageSender.** `selector` is the state of `SingleSelector`, `topic` that of `MessageProducer`;
`Dispatch` sets the first and hands the second on, which ignores an empty choice: once the selector was
cleared it shows nothing, and `topic` is what it showed last. `mine` are the
messages whose promises this mount of `MessageProducer` owns: `Mount` empties it, and an answer to any
other message changes nothing that is shown. "/" and "/consumer" render the same component under two
routes, so a link from one to the other mounts it anew; a link to the page that is shown does not. The
panel of the navigation bar for small screens can be opened by nothing, and is no action. `Served` is
what a request needs to get to the handler of the producer: an address in the environment, and a topic
that makes one segment of a path. Messages are told apart by name only.

**GroupDelivery.** A topic is one partition, a message its place in `log`. A member takes a message in
`Read`, which stores its offset, as librdkafka does by default, before the Processor has it in
`held`. `Commit` happens in the background, when a member leaves, and when partitions are revoked;
`Release` is what a leaving member, or a process that ends, gives up. `Rebalance` assigns every topic
with subscribers to one of them, which begins at the group's offset or, without one, at the end of
the topic. `Close` is the pump of a request that ends, `EmitFails` the one whose write fails, which
ends with the offset of its message stored. `Exit(TRUE)` is a shutdown that has closed all
listeners, `Exit(FALSE)` a kill or a shutdown cut off by its deadline. Between the page and a request
the portal's reconnecting streams are reduced to their outcome, one request at a time that the page
reads. Requests are numbered in the order they come; a request whose context is cancelled may do what
an open one may, so that `Cut` is left out.

## Runs

| run | bounds | shows |
|---|---|---|
| `listener` | 2 listeners | `Close` returns and only to a stopped listener, at most one late message, no leaked client, refinement of `Component` with its liveness |
| `errors` | 2 goroutines, 3 errors, window 1, 6 calls, 5 ticks | while calls do not overlap, the process is terminated only by a chain of errors and always by a burst of one more than the constant; overlapping calls never make the handler stricter |
| `errors_lost` | 2 goroutines, 2 errors | **violation**: a lost update lets a burst pass |
| `sse` | 2 requests | writer, membership, termination of requests, the protocol of the listener and the refinement of `ConsumeRequest`, both with their liveness |
| `portal` | 2 runs of the effect, 2 handlers, 2 requests, 2 events | the page shows nothing twice, out of order, or of topics no longer selected; only broken or closed connections lose events; what was left leaves the group |
| `service` | 1 request; 5 s ticks: wait 1, write 1, read 3; shutdown 1, 4 or 7 | boot, signals, dying listeners, and what each deadline can cut off |
| `service_unheard` | shutdown 4 | **violation**: the end of `ListenAndServe` is not heard of |
| `seer` | 2 messages per topic, 2 starts, 2 kinds of faults of 8 | at least once; orderly death, but for a last commit that fails; one acceptance per start; which faults repeat an answer, and that an answer that is dropped, given up or killed is the only one lost |
| `seer_dead` | 1 message, error events | **violation**: questions after an error event are never looked at |
| `sender` | 2 messages, 3 topics of which 1 is known, 2 have one value and 1 has a slash; all faults, 1 retry, any number of signals, with an address or without | the selector shows no topic but the one that is posted to; only a retry of kafkajs appends a message again; what is accepted is sent unless Kafka refuses that message or a signal came; a signal ends the process; Status Updates are of the page's own posts, and in the end say what became of every one |
| `group` | 2 topics, one of which main counts too, 2 messages, 2 requests, 1 end of the process | a message is taken once unless the process is killed; none is passed over after the first one taken; a page shows what it displays; what is not counted was passed over at first, or given to a page |
| `producer_status` | 2 messages, no fault, any number of signals | **violation**: "delivered" for a message that is discarded |

A violation is a disagreement between the code and what a comment, a string or a README of the
repository says; `findings` in `PROJECT.json` quotes each.

Some of what the passing runs show may surprise a reader of the code:

* The window of the error handler moves with every error, so `MaxErrorCount` errors terminate the
  process however long they take, as long as no pause between two of them exceeds the window
  (`KilledAfterChain` says no more than that), and the error that ends a pause is not counted
  (`BurstIsFatal` needs one more).
* With the default time-outs a shutdown can be cut off while a request still holds a member of the
  group: `EveryMemberLeaves` needs a deadline above 30 s, and the default is 20 s.
* A crash between `store_offsets` and the delivery of an answer loses that answer, and a full queue
  drops it, yet the question counts as handled and is never read again. Of these two faults
  `EveryQuestionAnswered` excuses the question (`lost`) and no other; it says nothing once an exception
  (`poll`, `seer`, `store`) has ended the thread, which nobody may start again. An error of the language model stops seer, and the question in hand is
  answered after the next start.
* An orderly end of seer whose last commit fails repeats, after the next start, what was stored since the
  commit before: an answer comes twice without a crash (`AnsweredOnce` names the four causes).
* The producer can append a message twice, although nothing posts it twice: kafkajs tries again what it got
  no acknowledgement of (`OnlyRetriesRepeat`).
* A selector that was cleared does not stop "Produce": the message goes to the topic that was shown
  last, although the page says "deliver to the selected topic" (`MessageProducer.tsx:65`).
  `SenderTypeOK` says no more than that a selector which shows a topic shows the one that is posted to.
* A page that consumes a topic of main (`seer-answer` is the page's first choice, and among the topics
  of `consumer-dpl.yaml`) takes its messages from the count: `/status` is evidence of a message,
  as `README.md:68` has it, only if no page asked for its topic (`EvidentUnlessShared`). And every
  rebalance before the group's first commit passes over what was not yet read.
* The response of `/api/consume` is flushed before its EventSource has connected, so the page says
  "consumer opened" whether or not the consumer is there.
* The consumer's `ReadTimeout` ends every `/consume` request after a while. The portal connects
  again with a new member of the group; `EventArrives` says that this loses no event that was
  written, which is not to say that no message of the topic is lost in between.
* `sendToKafka` catches the rejection of `send`, so that the handler takes a message that Kafka refused
  for delivered. Nobody reads what it notes, as the response has gone out before.

### Why the bounds are enough

Listeners share nothing but the error handler, and requests nothing but the process, so two
listeners (main's and one request's, or two requests') have every interleaving of two owners.
`ConsumerService` has one request beside main's listener: `Shutdown` waits for the conjunction over
the requests, none of which influences another. A tick of five seconds divides all the default
time-outs. Both bounds on the deadline are tight. `MainLeavesGroup` needs
`shutdownWait > WaitTimeout`, since main's listener may have just begun to wait for a message when
the signal comes. `EveryMemberLeaves` needs
`2*WaitTimeout + max(ReadTimeout, WriteDeadline) + WriteDeadline`: that wait, then a request that
arrived just before the server stopped accepting, whose handler minds the end of its context after
its `ReadTimeout`, or later if its first line takes longer to write, and whose listener has then just
begun to wait for a message, and has that one to write. (With `ReadTimeout` in place of the maximum the
bound holds of the default time-outs, but not when the first line may take longer than the
request: the proof asked for the maximum, and TLC has the counterexample at ticks of read 1, write 2.)
Both bounds are proved; a deadline equal to the bound violates the property in both cases. In `ErrorHandler` the
clock and the calls leave room for two pauses and for a chain longer than the window. In `Seer` two
messages give a successor to the one in hand, and two kinds of faults are one in the first process
and another while it dies or in the next one. In `PortalStream` a second handler and a second
request are what a reconnect or a new selection brings, and old and new overlap; a third of each
shows no new kind of overlap, as handlers do not know of each other and each has one request at a
time. (`ShownOnceInOrder` was also checked with three handlers, and with three requests.)
In `MessageSender` two messages and two topics of which one has to be created give a post before and
one after every change of the selector, and each of the two may be under way when the page is left. In
`GroupDelivery` the second request is one of a later choice or of a page entered again while the first
is still a member; two messages have one behind the other, which an offset that is lost or too far
would show; a second process begins with what the first has committed. Only the topic that main and
the page share has messages there: those of the other are taken by requests alone.
`MaxRuns`, `MaxHandlers`, `MaxMessages`, `MaxStops`, `MaxRequests`, `MaxEvents`, `MaxCalls`, `MaxTime`, `MaxFaults`, `MaxLog`,
and `MaxStarts` are the only caps on the environment (`MaxRetries` is a setting of kafkajs, 5
by default: one retry already appends twice, and the last one rejects); the goroutines of `errors` are
symmetric, and that run checks no liveness. `CHECK_DEADLOCK` is off everywhere: a process that has
ended, or that nobody asks anything of, does rest.

### Fairness

Weak fairness for every goroutine, thread or callback: the schedulers of Go, Python and
Node run what can run, and `ReadMessage` and `poll` have time-outs. Never for the environment: no
message, request, error, fault or signal has to come. Four assumptions are more:

* `ConsumerService` has strong fairness of `Tick`, since listeners that are handed messages for ever
  disable it for ever only by taking no time;
* `Seer` has strong fairness of `PollMessage(t)`: a `poll` that may return a message of a topic
  or nothing does return it in the end, as the broker serves both partitions;
* `Opened`, `Show`, `Copy` and `CloseRes` of `PortalStream` happen: what was sent on a connection that
  holds arrives, and so does its close. That a request is wound up once it is cut off is the
  fairness of `ConsumeRequest`, which the run `sse` checks of `SseConsumer`;
* `Rebalance` and `Boot` of `GroupDelivery` happen: the broker assigns topics, and a process that
  ended is started again by the deployment. `Answer` of `MessageSender` does: what was not lost is
  answered;
* `Deliver` and `Start` of `Seer` and `Send` of `Producer` happen: Kafka answers or the fault that
  says otherwise does, and the deployment restarts a process that has ended.

## Proofs

TLAPS checks these for every value of the constants: any set of listeners or requests, any
time-outs, any limits, topics of any length, any faults, any bounds on runs, handlers and events.

| theorem | argument |
|---|---|
| `KafkaConsumerProofs`: `TypeCorrect`, `DoneMeansStoppedAlways`, `ClientHasPumpAlways`, `AtMostOneLateAlways` | the client's state follows from the pump's place (`ClientFollowsPump`); `received` implies `exited`, a place no step leaves (`ReceivedAfterSend`). A late message is counted on leaving `read`, and the only way back to `read` is the loop head, which is closed once `quit` holds: so `late = 1` excludes `read` (`LateOnlyAfterRead`). `late <= 1` alone is not inductive |
| `KafkaConsumerProofs!Refinement` | each step is a step of `Component` or a stutter, by cases, on top of the invariant |
| `KafkaConsumerProofs`: `WaiterHasPumpAlways`, `CloseAdvancesAlways` | the safety in "`Close` returns". A pump exits only by the send that somebody's receive completes (`exited` implies `received`), so who waits has a pump to wait for; and once `quit` is raised each place of the pump has a number of steps left, at most five, that every step of it lowers (`StepsLeft`), because the loop head has closed the only way round |
| `SseConsumerProofs`: `TypeCorrect`, `WriterIsLiveAlways`, `NoMemberOutlivesRequestAlways`, `ProtocolObeyed` | the handler's place bounds the pump's and the channel's (`HandlerFollowsPump`): it returns only before a launch, after a failed one, or after it received. The invariant of the listener is used through an instance of `KafkaConsumerProofs` |
| `SseConsumerProofs!RequestRefined` | the steps of `ConsumeRequest` as changes of one request's image (`AbstractStep`); each action of the handler and of the pump is shown to make one of them and to leave the other requests alone. It needs in addition that the context follows the handler |
| `PortalStreamProofs!ShownOnceInOrderAlways` | the events on the way make one increasing sequence: those shown come before those at the page, before those at the portal, and none is later than `written` (`Precedes`, `UpTo`, `InOrder`). That all streams together stay in one order, although several handlers and requests exist at once, holds because the page reads one response and a handler one request; what is let go is emptied (`Unused`). Each move takes a head and appends it, and the lemmas on sequences say what that does to the order |
| `PortalStreamProofs!NothingVanishesAlways` | the safety in `EventArrives`: an event that was written is shown, or went down with a connection, or is on a connection that has its reader. The liveness property adds that the reader comes to it |
| `PortalStreamProofs`: `OpenIsReadAlways`, `SettledForGoodAlways` | the safety in `ClosedLeavesGroup`: a request that was not cut off is read by the handler that made it, whose response lives (`ReadsOwn`), and a closed run of the effect that nothing serves any more is never served again, since handlers begin with a response and requests with a handler of an `EventSource` that is not closed. That it comes to that is the liveness |
| `PortalStreamProofs`: `TypeCorrect`, `ShownIsSelectedAlways` | only the EventSource of the latest run is not closed, and a response that it reads answers its own query (`OnlyLatestReads`); a handler begins with a response that nobody reads yet |
| `ConsumerServiceProofs`: `TypeCorrect`, `NeverSilentlyDeafAlways`, `CleanupLeavesNoMemberAlways`, `ProtocolObeyed` | the requests' invariant through an instance of `SseConsumerProofs`, main's progress, and what the clean up has done so far; once the server is closing and no handler runs, none can start. The ranges of the clocks in the type are those that the guards of `Tick` leave; what the time-outs come to is in the last row of this module |
| `ConsumerServiceProofs`: `NoWaitInVainAlways`, `ShutdownAdvancesAlways` | the same two of the whole process: each step of `main`, the clean up and the handlers is one that the listener's protocol allows (`StepListeners`), so that what is proved of any owner holds of these |
| `ConsumerServiceProofs`: `MainLeavesGroupAlways`, `EveryMemberLeavesAlways` | every stage of a shutdown has its place in a sum of time-outs. The clock of the shutdown starts with it and runs only once `quit` of main's listener is up (`DrainBegins`), so that it is never ahead of the one read that listener is in (`MainClock`); until then a request may arrive, and from then on the clock is ahead by no more than the request's age, the time of its first write, and after `quit` that of one read and one write (`RequestClock`). None of this is inductive without: a call's clock stays below its time-out (`CallsAreShort`), and a pump that has gone has told (`GoneIsTold`) |
| `ErrorHandlerProofs`: `TypeCorrect`, `NeverOverCountsAlways` | a goroutine between its load and its store holds a count of errors that were counted before it (`count[p] <= Len(times)`), so its store is at most one more than that |
| `ErrorHandlerProofs`: `KilledAfterChainAlways`, `BurstIsFatalAlways` | while calls have not overlapped, what a call has loaded and stored so far is what the recorded times say: the last error time is that of the last error, and the count is that of the errors since the last pause longer than the window (`CountsSince`, `Paused`), counted over times that never decrease (`TimesOrdered`). The invariant `Sequential` says this at each place in the call. With overlapping calls it says nothing, as it must (run `errors_lost`) |
| `SeerProofs`: `TypeCorrect`, `CommittedIsHandledAlways`, `NeverUncommittedAlways` | `committed <= stored <= pos <= log`; everything below `stored` is handled; while the thread may read, nothing is read that is not stored, and with a message in hand, it is the only such one (`OneInHand`). An exception leaves a gap, and the thread never reads past it |
| `SeerProofs`: `AcceptedOncePerStartAlways`, `AnsweredOnceAlways` | a statement that lies ahead of what is stored (`Ahead`) was accepted by earlier starts only, as long as the thread may read or has one in hand (`AcceptedInTurn`). Copies of an answer are counted in the producer's queue and at the broker together: without a crash, a failed store, a failed last commit or a retry there is at most one, none while the question lies ahead, and a process that is down has committed what it stored (`AnsweredInTurn`) |
| `SeerProofs!CleanDeathAlways` | the queue is empty from the flush on (`FlushedThenClosed`): only the loop adds to it, and the loop has been left. What is stored is committed by `Close`, unless that commit failed |
| `SeerProofs!NoAnswerLostAlways` | the safety in `EveryQuestionAnswered`: whatever fails, a question that was stored has its answer at the broker or in the queue of a process that still flushes it, unless an answer to that very question was dropped, given up or killed (`lost`) |
| `MessageSenderProofs`: `SenderTypeCorrect`, `OnlyRetriesRepeatAlways` | the selector shows at most what `MessageProducer` keeps; a request is handled once, and until its one `sendToKafka` settles a message has as many copies as acknowledgements were lost, and none before it is sent (`OnItsWay`). `OnlyRetriesRepeat` alone is not inductive: a message that has settled must never come to a send again |
| `MessageSenderProofs`: `NoneForgottenAlways`, `ReportsMatchAlways` | the safety in `EveryMessageSent`: until a signal, a message answered with 200 is in its topic or in a `sendToKafka` that has yet to settle, unless Kafka refused that very message (`StillOnItsWay`); and Status Updates say exactly what the requests of the page that is shown have come to: what it calls its own it has posted (`OwnArePosted`), and it never speaks of another page's |
| `GroupDeliveryProofs`: `TypeCorrect`, `TakenOnceAlways`, `NoneSkippedAfterFirstAlways` | the *reach* of a topic is the offset its owner has stored, or else the committed one. An owner that has a reach stands at it (`OffsetsAgree`), so that it takes what is beyond; whoever leaves commits first, so that leaving, rebalancing and committing keep every reach (`ReachKept`), and only a kill moves it back (`TakenInReach`). Up to the reach and after the first message taken nothing is missing (`NoGap`), and what was passed over lies below (`SkippedBelow`). That the counts are small is not inductive without the offsets |
| `GroupDeliveryProofs!ShownIsDisplayedAlways` | a member owns and holds only what it subscribed, and the request that is read subscribed what the selector shows (`GivenIsAsked`) |
| `GroupDeliveryProofs!PassedIsSeenAlways` | the safety in `EvidentUnlessShared`: without kills, each message below the group's offset is counted or in the hands of main's listener, was given to a request, or was passed over by `auto.offset.reset`. An offset is stored only past what was taken, and what is taken is used at once (`TakenIsUsed`, `PassedIsTaken`) |

Assumptions on the constants are the ASSUMEs of the modules, which TLC evaluates in the runs.

Only model-checked: everything temporal but safety (`RequestEnds`, `DeafProcessEnds`, `EventArrives`,
`ClosedLeavesGroup`, `EveryQuestionAnswered`, `EveryMessageSent`, `SignalEndsProcess`,
`EveryPostReported`, `EvidentUnlessShared`, the liveness half of `Component` and of
`ConsumeRequest`), since it needs fairness and ENABLED. Every invariant and every action property of
the passing runs is proved. Of most liveness properties the safety is proved too, under the names
above: what is promised is either there already or still on a way that leads to it. What the runs
add is that somebody goes that way to its end.

## Not modelled

* The framing of SSE events: planned, see below. The sum of bytes behind `/status` is modelled as the
  set of the messages in it, and its JSON not at all.
* What the database and the language model compute; `seer`'s HTTP endpoints, which are stateless.
* `GroupDelivery`: a commit that fails when a member leaves or partitions are revoked, an eviction
  without a commit, and an error of `consumer.Close` (`kconsumer.go:114-118`, logged and passed over):
  librdkafka's last commit is assumed to succeed. Without that a message may be taken twice
  without a kill.
* `PortalStream`: an unknown address of the consumer (`consume.ts:15-19`), which throws: the page gets
  a 500, and its `EventSource` closes for good, so that there is nothing to follow.
* `ConsumerService`: a connection that is accepted just before `Shutdown` (`server.go:60`) and served
  after it. In the model no request arrives once the server is closing.
* The read of `/status` while main's listener writes (a data race on a counter that only grows), and the
  two readings of it that `tests/producer-consumer-test.sh:50` compares: no action of the module reads
  the count.
* The text of messages and log lines. (`seer` hands on `str(data)` of a byte string; no
  property here tells payloads apart.)
* The parsing of the configuration, `cmd/timeout`, `cli.py`, the Python sample clients, page layout, log windows and their `Clear` buttons,
  deployment files: no behaviour beyond a single pass.

## Plan

Done: 1 `KafkaConsumer` with `Component`; 2 `SseConsumer`; 3 `ConsumerService`; 4 `ErrorHandler`;
5 `Seer`; 6 `Producer`; 7 `ConsumeRequest` and `PortalStream`; 8 `Selectors` and
`MessageSender`; 9 `GroupDelivery`; and the proofs above.

Next, in this order:

1. `QuestionAnswering`: the abstract service that `Seer` implements under restarts (a question
   is answered at least once unless it is given up), and the proof that it does, on top of
   `NoAnswerLostAlways`.
2. `SseStream`: the bytes of `emit` as lines, and `EventSource`'s parser, checked as a pure algorithm
   against the events that were meant.
