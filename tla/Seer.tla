-------------------------------- MODULE Seer --------------------------------
(***************************************************************************)
(* The seer service (seer/app/kafka.py, seer/app/fastapi.py): a thread of   *)
(* the FastAPI process polls statements and questions from Kafka, has the   *)
(* Seer accept or answer each, produces the answers, and stores the offset  *)
(* of a message once it is done with it; librdkafka commits stored offsets  *)
(* in the background and delivers produced answers in its own time.         *)
(*                                                                          *)
(* One partition per topic. What may go wrong is a parameter.               *)
(***************************************************************************)
EXTENDS Naturals, FiniteSets

CONSTANTS
    Fault,        \* what may go wrong, a subset of Faults
    MaxFaults,    \* bound: kinds of faults in one behaviour
    MaxLog,       \* bound: messages published to a topic
    MaxStarts     \* bound: times the process is started

Topic == {"statement", "question"}

Faults == {"poll",        \* poll returns an error event
           "seer",        \* the vector database or the language model raises
           "queue",       \* the producer's queue is full
           "store",       \* the partition is no longer assigned
           "delivery",    \* an answer is given up
           "retry",       \* a retried answer is appended twice
           "commit",      \* the last commit fails: the broker is away, or the membership lost
           "crash"}       \* the process is killed

ASSUME SeerAssumption ==
    /\ Fault \subseteq Faults
    /\ MaxFaults \in Nat
    /\ MaxLog \in Nat
    /\ MaxStarts \in Nat \ {0}

Offset == 0 .. MaxLog - 1
None == [topic |-> "none", offset |-> 0]

VARIABLES
    log,          \* log[t]: how many messages topic t holds
    committed,    \* committed[t]: the offset that the group "seer" has committed
    answered,     \* answered[i]: copies of the answer to question i in seer-answer
    proc,         \* the process: "up", "stopping" or "down"
    starts,       \* times it was started
    thread,       \* where the polling thread is
    cancelFlag,
    pos, stored,  \* the consumer's position and its stored offsets
    msg,          \* the message in hand, or None
    queue,        \* queue[i]: copies of the answer to question i that await delivery
    failed,       \* history: what has gone wrong so far
    handled,      \* history: handled[t]: the offsets whose handling has ended well
    accepted,     \* history: accepted[i]: times statement i entered the database
    lost          \* history: the questions of which an answer was dropped, given up or killed

kafkaVars == <<log, committed, answered>>
procVars == <<proc, starts, cancelFlag>>
vars == <<kafkaVars, procVars, thread, pos, stored, msg, queue, failed, handled, accepted, lost>>

TypeOK ==
    /\ log \in [Topic -> 0 .. MaxLog]
    /\ committed \in [Topic -> 0 .. MaxLog]
    /\ answered \in [Offset -> Nat]
    /\ proc \in {"up", "stopping", "down"}
    /\ starts \in 1 .. MaxStarts
    /\ thread \in {"loop", "poll", "handle", "deliver", "store",
                   "unsubscribe", "flush", "close", "dead"}
    /\ cancelFlag \in BOOLEAN
    /\ pos \in [Topic -> 0 .. MaxLog]
    /\ stored \in [Topic -> 0 .. MaxLog]
    /\ msg \in [topic : Topic, offset : Offset] \cup {None}
    /\ queue \in [Offset -> Nat]
    /\ failed \subseteq Fault
    /\ handled \in [Topic -> SUBSET Offset]
    /\ accepted \in [Offset -> Nat]
    /\ lost \subseteq Offset

Init ==
    /\ log = [t \in Topic |-> 0]
    /\ committed = [t \in Topic |-> 0]
    /\ answered = [i \in Offset |-> 0]
    /\ proc = "up"
    /\ starts = 1
    /\ thread = "loop"
    /\ cancelFlag = FALSE
    /\ pos = [t \in Topic |-> 0]
    /\ stored = [t \in Topic |-> 0]
    /\ msg = None
    /\ queue = [i \in Offset |-> 0]
    /\ failed = {}
    /\ handled = [t \in Topic |-> {}]
    /\ accepted = [i \in Offset |-> 0]
    /\ lost = {}

Goto(from, to) ==
    /\ thread = from
    /\ thread' = to

Fails(fault) ==
    /\ fault \in Fault
    /\ Cardinality(failed \cup {fault}) <= MaxFaults
    /\ failed' = failed \cup {fault}

(* An exception leaves the loop for the finally clause, and the message in hand is not stored. *)
Raise(from, fault) ==
    /\ Fails(fault)
    /\ Goto(from, "unsubscribe")
    /\ msg' = None

Handled(m) == handled' = [handled EXCEPT ![m.topic] = @ \cup {m.offset}]

-----------------------------------------------------------------------------
(* Faulty variants of steps below, one slip each; no specification uses them. *)

(* The offset is stored when the message is taken, as librdkafka does by default. *)
PollMessageStores(t) ==
    /\ pos[t] < log[t]
    /\ Goto("poll", "handle")
    /\ msg' = [topic |-> t, offset |-> pos[t]]
    /\ pos' = [pos EXCEPT ![t] = @ + 1]
    /\ stored' = [stored EXCEPT ![t] = pos[t] + 1]
    /\ UNCHANGED <<kafkaVars, procVars, queue, failed, handled, accepted, lost>>

(* The offset that is stored is one too far. *)
StoreOffsetPastNext ==
    /\ Goto("store", "loop")
    /\ stored' = [stored EXCEPT ![msg.topic] = msg.offset + 2]
    /\ msg' = None
    /\ UNCHANGED <<kafkaVars, procVars, pos, queue, failed, handled, accepted, lost>>

(* The outstanding answers are not waited for. *)
FlushAtOnce ==
    /\ Goto("flush", "close")
    /\ UNCHANGED <<kafkaVars, procVars, pos, stored, msg, queue, failed, handled, accepted, lost>>

(* _poll returns once the answer is handed over, and does not come to store_offsets. *)
DeliverAnswerNoStore ==
    /\ Goto("deliver", "loop")
    /\ queue' = [queue EXCEPT ![msg.offset] = @ + 1]
    /\ Handled(msg)
    /\ msg' = None
    /\ UNCHANGED <<kafkaVars, procVars, pos, stored, failed, accepted, lost>>

(* A statement that could not be accepted is tried again at once. *)
AcceptFailsRetries ==
    /\ msg.topic = "statement"
    /\ Fails("seer")
    /\ Goto("handle", "handle")
    /\ \E n \in {0, 1} : accepted' = [accepted EXCEPT ![msg.offset] = @ + n]
    /\ UNCHANGED <<kafkaVars, procVars, pos, stored, msg, queue, handled, lost>>

(* The assignment is moved to the beginning of the topic. *)
StartFromBeginning ==
    /\ proc = "down"
    /\ starts < MaxStarts
    /\ starts' = starts + 1
    /\ proc' = "up"
    /\ thread' = "loop"
    /\ cancelFlag' = FALSE
    /\ pos' = [t \in Topic |-> 0]
    /\ stored' = [t \in Topic |-> 0]
    /\ UNCHANGED <<kafkaVars, msg, queue, failed, handled, accepted, lost>>

-----------------------------------------------------------------------------
(* The environment. *)

Publish(t) ==
    /\ log[t] < MaxLog
    /\ log' = [log EXCEPT ![t] = @ + 1]
    /\ UNCHANGED <<committed, answered, procVars, thread, pos, stored, msg,
                   queue, failed, handled, accepted, lost>>

(* SIGTERM: the lifespan resumes after its yield and cancels the loop; then it joins the thread. *)
Shutdown ==
    /\ starts < MaxStarts
    /\ proc = "up"
    /\ proc' = "stopping"
    /\ cancelFlag' = TRUE
    /\ UNCHANGED <<kafkaVars, starts, thread, pos, stored, msg,
                   queue, failed, handled, accepted, lost>>

Join ==
    /\ proc = "stopping"
    /\ thread = "dead"
    /\ proc' = "down"
    /\ queue' = [i \in Offset |-> 0]
    /\ UNCHANGED <<kafkaVars, starts, cancelFlag, thread, pos, stored, msg,
                   failed, handled, accepted, lost>>

(* The process is killed: what is in its memory is gone, the producer's queue included. *)
Crash ==
    /\ Fails("crash")
    /\ starts < MaxStarts
    /\ proc # "down"
    /\ proc' = "down"
    /\ thread' = "dead"
    /\ msg' = None
    /\ queue' = [i \in Offset |-> 0]
    /\ lost' = lost \cup {i \in Offset : queue[i] > 0}
    /\ UNCHANGED <<kafkaVars, starts, cancelFlag, pos, stored, handled, accepted>>

(* A new process reads on from what the group has committed, from the beginning if nothing. *)
Start ==
    /\ proc = "down"
    /\ starts < MaxStarts
    /\ starts' = starts + 1
    /\ proc' = "up"
    /\ thread' = "loop"
    /\ cancelFlag' = FALSE
    /\ pos' = committed
    /\ stored' = committed
    /\ UNCHANGED <<kafkaVars, msg, queue, failed, handled, accepted, lost>>

-----------------------------------------------------------------------------
(* KafkaSeer.run and _poll. *)

CheckCancel ==
    /\ Goto("loop", IF cancelFlag THEN "unsubscribe" ELSE "poll")
    /\ UNCHANGED <<kafkaVars, procVars, pos, stored, msg, queue, failed, handled, accepted, lost>>

PollNothing ==
    /\ Goto("poll", "loop")
    /\ UNCHANGED <<kafkaVars, procVars, pos, stored, msg, queue, failed, handled, accepted, lost>>

PollError ==
    /\ Raise("poll", "poll")
    /\ UNCHANGED <<kafkaVars, procVars, pos, stored, queue, handled, accepted, lost>>

PollMessage(t) ==
    /\ pos[t] < log[t]
    /\ Goto("poll", "handle")
    /\ msg' = [topic |-> t, offset |-> pos[t]]
    /\ pos' = [pos EXCEPT ![t] = @ + 1]
    /\ UNCHANGED <<kafkaVars, procVars, stored, queue, failed, handled, accepted, lost>>

Accept ==
    /\ msg.topic = "statement"
    /\ Goto("handle", "store")
    /\ accepted' = [accepted EXCEPT ![msg.offset] = @ + 1]
    /\ Handled(msg)
    /\ UNCHANGED <<kafkaVars, procVars, pos, stored, msg, queue, failed, lost>>

(* The database may have taken the statement before it raised. *)
AcceptFails ==
    /\ msg.topic = "statement"
    /\ Raise("handle", "seer")
    /\ \E n \in {0, 1} : accepted' = [accepted EXCEPT ![msg.offset] = @ + n]
    /\ UNCHANGED <<kafkaVars, procVars, pos, stored, queue, handled, lost>>

Ask ==
    /\ msg.topic = "question"
    /\ Goto("handle", "deliver")
    /\ UNCHANGED <<kafkaVars, procVars, pos, stored, msg, queue, failed, handled, accepted, lost>>

AskFails ==
    /\ msg.topic = "question"
    /\ Raise("handle", "seer")
    /\ UNCHANGED <<kafkaVars, procVars, pos, stored, queue, handled, accepted, lost>>

(* _deliver_answers of the one answer: a BufferError is logged and the answer dropped. *)
DeliverAnswer ==
    /\ Goto("deliver", "store")
    /\ \/ queue' = [queue EXCEPT ![msg.offset] = @ + 1] /\ UNCHANGED <<failed, lost>>
       \/ Fails("queue") /\ lost' = lost \cup {msg.offset} /\ UNCHANGED queue
    /\ Handled(msg)
    /\ UNCHANGED <<kafkaVars, procVars, pos, stored, msg, accepted>>

StoreOffset ==
    /\ Goto("store", "loop")
    /\ stored' = [stored EXCEPT ![msg.topic] = msg.offset + 1]
    /\ msg' = None
    /\ UNCHANGED <<kafkaVars, procVars, pos, queue, failed, handled, accepted, lost>>

StoreFails ==
    /\ Raise("store", "store")
    /\ UNCHANGED <<kafkaVars, procVars, pos, stored, queue, handled, accepted, lost>>

(* The finally clause: unsubscribe, flush, and close, which commits what was stored if it can. *)
Unsubscribe ==
    /\ Goto("unsubscribe", "flush")
    /\ UNCHANGED <<kafkaVars, procVars, pos, stored, msg, queue, failed, handled, accepted, lost>>

Flush ==
    /\ \A i \in Offset : queue[i] = 0
    /\ Goto("flush", "close")
    /\ UNCHANGED <<kafkaVars, procVars, pos, stored, msg, queue, failed, handled, accepted, lost>>

Close ==
    /\ Goto("close", "dead")
    /\ \/ committed' = stored /\ UNCHANGED failed
       \/ Fails("commit") /\ UNCHANGED committed
    /\ UNCHANGED <<log, answered, procVars, pos, stored, msg, queue, handled, accepted, lost>>

-----------------------------------------------------------------------------
(* librdkafka in the background. *)

AutoCommit ==
    /\ proc # "down" /\ thread # "dead"
    /\ committed # stored
    /\ committed' = stored
    /\ UNCHANGED <<log, answered, procVars, thread, pos, stored, msg,
                   queue, failed, handled, accepted, lost>>

(* An answer is appended to seer-answer, or given up: its callback only logs that. *)
Deliver(i) ==
    /\ queue[i] > 0
    /\ queue' = [queue EXCEPT ![i] = @ - 1]
    /\ \/ /\ answered' = [answered EXCEPT ![i] = @ + 1]
          /\ UNCHANGED <<failed, lost>>
       \/ /\ Fails("delivery")
          /\ lost' = lost \cup {i}
          /\ UNCHANGED answered
       \/ /\ Fails("retry")
          /\ answered' = [answered EXCEPT ![i] = @ + 2]
          /\ UNCHANGED lost
    /\ UNCHANGED <<log, committed, procVars, thread, pos, stored, msg, handled, accepted>>

Poll ==
    \/ CheckCancel \/ PollNothing \/ PollError \/ Accept \/ AcceptFails \/ Ask \/ AskFails
    \/ DeliverAnswer \/ StoreOffset \/ StoreFails \/ Unsubscribe \/ Flush \/ Close

Next ==
    \/ Poll
    \/ \E t \in Topic : Publish(t) \/ PollMessage(t)
    \/ Shutdown \/ Join \/ Crash \/ Start
    \/ AutoCommit
    \/ \E i \in Offset : Deliver(i)

(* The thread runs, poll finds what a topic holds sooner or later, answers are delivered unless
   they are given up, and a process that has ended is started again. Nobody has to stop it. *)
Fairness ==
    /\ WF_vars(Poll \/ \E t \in Topic : PollMessage(t))
    /\ \A t \in Topic : SF_vars(PollMessage(t))
    /\ \A i \in Offset : WF_vars(Deliver(i))
    /\ WF_vars(Join)
    /\ WF_vars(Start)

Safety == Init /\ [][Next]_vars

Spec == Safety /\ Fairness

-----------------------------------------------------------------------------
(* Properties. *)

(* At least once: no message is passed over by the committed offset unless its handling ended
   well, whatever fails and whenever the process is killed. *)
CommittedIsHandled ==
    \A t \in Topic : \A i \in Offset : i < committed[t] => i \in handled[t]

(* The committed offset never goes back to what is committed already. *)
NeverUncommitted == [][\A t \in Topic : committed'[t] >= committed[t]]_vars

(* A thread that has ended of itself, by an exception or by the cancel flag, leaves nothing to do
   again but the message it had in hand, unless its last commit failed, and no answer behind. *)
CleanDeath ==
    thread = "dead" /\ proc # "down" =>
        /\ committed = stored \/ "commit" \in failed
        /\ \A i \in Offset : queue[i] = 0

(* A statement enters the database once more only after the process was started again. *)
AcceptedOncePerStart == \A i \in Offset : accepted[i] <= starts

(* Through any number of restarts every question is answered, unless the thread ends by an exception
   and nobody restarts it, or its own answer finds the queue full, is given up or is killed. *)
EveryQuestionAnswered ==
    \A i \in Offset :
        log["question"] > i ~>
            answered[i] > 0 \/ i \in lost \/ failed \cap {"poll", "seer", "store"} # {}

(* What it takes to give an answer twice: a crash, an offset that is not stored, a last commit that
   fails, or a retry. Errors of Kafka, of the database or of the language model do not, nor does a
   full queue. *)
AnsweredOnce ==
    failed \cap {"crash", "store", "commit", "retry"} = {} => \A i \in Offset : answered[i] <= 1

(* What seer/README.md says of seer-questions (lines 22-24): questions that seer attempts to
   answer. *)
EveryQuestionAttempted ==
    \A i \in Offset : log["question"] > i ~> i \in handled["question"]
=============================================================================
