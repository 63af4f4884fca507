----------------------------- MODULE SeerProofs -----------------------------
(***************************************************************************)
(* Seer reads at least once (seer/app/kafka.py), for topics of any length, *)
(* any number of restarts and any faults: store_offsets comes last in      *)
(* _poll, and an exception on the way leaves the loop for good.            *)
(***************************************************************************)
EXTENDS Seer, TLAPS

KafkaTypes ==
    /\ log \in [Topic -> 0 .. MaxLog]
    /\ committed \in [Topic -> 0 .. MaxLog]
    /\ pos \in [Topic -> 0 .. MaxLog]
    /\ stored \in [Topic -> 0 .. MaxLog]
    /\ handled \in [Topic -> SUBSET Offset]

MayRead == {"loop", "poll"}
InHand == {"handle", "deliver", "store"}

ProcTypes ==
    /\ proc \in {"up", "stopping", "down"}
    /\ thread \in MayRead \cup InHand \cup {"unsubscribe", "flush", "close", "dead"}
    /\ proc = "down" => thread = "dead"

(* Offsets are ordered: committed, stored, read, published. *)
OffsetsOrdered ==
    \A t \in Topic : committed[t] <= stored[t] /\ stored[t] <= pos[t] /\ pos[t] <= log[t]

(* Nothing is stored before its handling has ended well. *)
StoredIsHandled == \A t \in Topic : \A i \in Offset : i < stored[t] => i \in handled[t]

(* Between two messages there is nothing read that is not stored, and a message in hand is the
   only such one: an exception leaves a gap, but the thread does not read on after it. *)
OneInHand ==
    /\ thread \in MayRead => pos = stored
    /\ thread \in InHand =>
        /\ msg \in [topic : Topic, offset : Offset]
        /\ stored[msg.topic] = msg.offset
        /\ pos = [stored EXCEPT ![msg.topic] = msg.offset + 1]
    /\ thread = "store" => msg.offset \in handled[msg.topic]
    /\ thread = "deliver" => msg.topic = "question"

IInv == KafkaTypes /\ ProcTypes /\ OffsetsOrdered /\ StoredIsHandled /\ OneInHand

LEMMA InitIInv == Init => IInv
  BY SeerAssumption
     DEF Init, IInv, KafkaTypes, ProcTypes, OffsetsOrdered, StoredIsHandled, OneInHand, Topic,
         Offset, MayRead, InHand, SeerAssumption

LEMMA StepIInv == IInv /\ [Next]_vars => IInv'
<1> SUFFICES ASSUME IInv, [Next]_vars PROVE IInv'
  OBVIOUS
<1> USE SeerAssumption DEF SeerAssumption, IInv, KafkaTypes, ProcTypes, OffsetsOrdered,
        StoredIsHandled, OneInHand, MayRead, InHand, Offset
<1>1. CASE UNCHANGED vars
  BY <1>1 DEF vars, kafkaVars, procVars
<1>2. ASSUME NEW t \in Topic, Publish(t) PROVE IInv'
  BY <1>2 DEF Publish, procVars
<1>3. CASE Shutdown
  BY <1>3 DEF Shutdown, kafkaVars
<1>4. CASE Join
  BY <1>4 DEF Join, kafkaVars
<1>5. CASE Crash
  BY <1>5 DEF Crash, kafkaVars
<1>6. CASE Start
  BY <1>6 DEF Start, kafkaVars
<1>7. CASE CheckCancel \/ PollNothing
  BY <1>7 DEF CheckCancel, PollNothing, Goto, kafkaVars, procVars
<1>8. CASE PollError \/ AcceptFails \/ AskFails \/ StoreFails
  BY <1>8 DEF PollError, AcceptFails, AskFails, StoreFails, Raise, Goto, kafkaVars, procVars
<1>9. ASSUME NEW t \in Topic, PollMessage(t) PROVE IInv'
  BY <1>9 DEF PollMessage, Goto, kafkaVars, procVars
<1>10. CASE Accept
  BY <1>10 DEF Accept, Handled, Goto, kafkaVars, procVars
<1>11. CASE Ask
  BY <1>11 DEF Ask, Goto, kafkaVars, procVars
<1>12. CASE DeliverAnswer
  BY <1>12 DEF DeliverAnswer, Handled, Goto, kafkaVars, procVars
<1>13. CASE StoreOffset
  <2> DEFINE t0 == msg.topic
             i0 == msg.offset
  <2>1. t0 \in Topic /\ i0 \in Offset /\ thread' = "loop"
    BY <1>13 DEF StoreOffset, Goto
  <2>2. stored' = [stored EXCEPT ![t0] = i0 + 1] /\ pos' = stored'
    BY <1>13 DEF StoreOffset, Goto
  <2>3. UNCHANGED <<log, committed, handled, proc>> /\ i0 \in handled[t0] /\ stored[t0] = i0
    BY <1>13 DEF StoreOffset, Goto, kafkaVars, procVars
  <2>4. proc # "down"
    BY <1>13 DEF StoreOffset, Goto
  <2>5. KafkaTypes' /\ ProcTypes'
    BY <2>1, <2>2, <2>3, <2>4
  <2>6. OffsetsOrdered'
    BY <2>1, <2>2, <2>3, <1>13 DEF StoreOffset
  <2>7. StoredIsHandled'
    BY <2>1, <2>2, <2>3
  <2>8. OneInHand'
    BY <2>1, <2>2
  <2> QED
    BY <2>5, <2>6, <2>7, <2>8
<1>14. CASE Unsubscribe \/ Flush
  BY <1>14 DEF Unsubscribe, Flush, Goto, kafkaVars, procVars
<1>15. CASE Close
  <2>1. committed' = stored \/ committed' = committed
    BY <1>15 DEF Close
  <2> QED
    BY <1>15, <2>1 DEF Close, Goto, procVars
<1>16. CASE AutoCommit
  BY <1>16 DEF AutoCommit, procVars
<1>17. ASSUME NEW i \in Offset, Deliver(i) PROVE IInv'
  BY <1>17 DEF Deliver, procVars
<1> QED
  BY <1>1, <1>2, <1>3, <1>4, <1>5, <1>6, <1>7, <1>8, <1>9, <1>10, <1>11, <1>12, <1>13, <1>14,
     <1>15, <1>16, <1>17 DEF Next, Poll

LEMMA AlwaysIInv == Safety => []IInv
  BY InitIInv, StepIInv, PTL DEF Safety

-----------------------------------------------------------------------------
(* Seer passes over no statement and no question: what the group has committed was accepted, or
   answered and given to the producer. *)
THEOREM CommittedIsHandledAlways == Spec => []CommittedIsHandled
<1>1. IInv => CommittedIsHandled
  BY SeerAssumption
     DEF SeerAssumption, IInv, KafkaTypes, OffsetsOrdered, StoredIsHandled, CommittedIsHandled,
         Offset
<1> QED
  BY <1>1, AlwaysIInv, PTL DEF Spec

(* The group's committed offset never goes back, whenever and however often seer is restarted. *)
THEOREM NeverUncommittedAlways == Spec => NeverUncommitted
<1>1. IInv /\ [Next]_vars => [\A t \in Topic : committed'[t] >= committed[t]]_vars
  <2> SUFFICES ASSUME IInv, [Next]_vars, NEW t \in Topic
               PROVE  committed'[t] >= committed[t]
    OBVIOUS
  <2>1. committed' \in {committed, stored}
    BY DEF Next, Poll, Publish, Shutdown, Join, Crash, Start, CheckCancel, PollNothing, PollError,
           AcceptFails, AskFails, StoreFails, PollMessage, Accept, Ask, DeliverAnswer,
           StoreOffset, Unsubscribe, Flush, Close, AutoCommit, Deliver, vars, kafkaVars
  <2>2. committed[t] \in Nat /\ stored[t] \in Nat /\ committed[t] <= stored[t]
    BY SeerAssumption DEF IInv, KafkaTypes, OffsetsOrdered, SeerAssumption
  <2> QED
    BY <2>1, <2>2
<1> QED
  BY <1>1, AlwaysIInv, PTL DEF Spec, Safety, NeverUncommitted

-----------------------------------------------------------------------------
(* The variables that at-least-once does not depend on. *)

RestTypes ==
    /\ answered \in [Offset -> Nat]
    /\ starts \in 1 .. MaxStarts
    /\ cancelFlag \in BOOLEAN
    /\ msg \in [topic : Topic, offset : Offset] \cup {None}
    /\ queue \in [Offset -> Nat]
    /\ failed \subseteq Fault
    /\ accepted \in [Offset -> Nat]
    /\ lost \subseteq Offset

LEMMA InitRest == Init => RestTypes
<1>1. 1 \in 1 .. MaxStarts
  BY SeerAssumption DEF SeerAssumption
<1>2. Init => cancelFlag \in BOOLEAN /\ msg = None /\ failed = {} /\ lost = {}
  BY DEF Init
<1>3. Init => /\ answered \in [Offset -> Nat]
              /\ queue \in [Offset -> Nat]
              /\ accepted \in [Offset -> Nat]
  BY DEF Init
<1> QED
  BY <1>1, <1>2, <1>3 DEF Init, RestTypes

LEMMA StepRest == IInv /\ RestTypes /\ [Next]_vars => RestTypes'
<1> SUFFICES ASSUME IInv, RestTypes, [Next]_vars PROVE RestTypes'
  OBVIOUS
<1> USE SeerAssumption DEF SeerAssumption, RestTypes
<1>1. CASE UNCHANGED vars
  BY <1>1 DEF vars, kafkaVars, procVars
<1>2. ASSUME NEW t \in Topic, Publish(t) PROVE RestTypes'
  BY <1>2 DEF Publish, procVars
<1>3. CASE Shutdown \/ Join
  <2>1. queue' \in [Offset -> Nat]
    BY <1>3 DEF Shutdown, Join
  <2>2. cancelFlag' \in BOOLEAN
    BY <1>3 DEF Shutdown, Join
  <2> QED
    BY <1>3, <2>1, <2>2 DEF Shutdown, Join, kafkaVars
<1>4. CASE Crash
  BY <1>4 DEF Crash, Fails, kafkaVars
<1>5. CASE CheckCancel \/ PollNothing \/ Unsubscribe \/ Flush \/ Close \/ AutoCommit
  <2>1. failed' \subseteq Fault
    BY <1>5 DEF CheckCancel, PollNothing, Unsubscribe, Flush, Close, AutoCommit, Fails
  <2> QED
    BY <1>5, <2>1
       DEF CheckCancel, PollNothing, Unsubscribe, Flush, Close, AutoCommit, kafkaVars, procVars
<1>6. CASE PollError \/ AcceptFails \/ AskFails \/ StoreFails
  BY <1>6 DEF PollError, AcceptFails, AskFails, StoreFails, Raise, Fails, kafkaVars, procVars
<1>7. ASSUME NEW t \in Topic, PollMessage(t) PROVE RestTypes'
  <2>1. pos[t] \in Offset
    <3>1. pos[t] \in 0 .. MaxLog /\ log[t] \in 0 .. MaxLog /\ pos[t] < log[t]
      BY <1>7 DEF PollMessage, IInv, KafkaTypes
    <3> QED
      BY <3>1 DEF Offset
  <2> QED
    BY <1>7, <2>1 DEF PollMessage, kafkaVars, procVars
<1>8. CASE Accept \/ Ask \/ StoreOffset
  BY <1>8 DEF Accept, Ask, StoreOffset, kafkaVars, procVars
<1>9. CASE DeliverAnswer
  <2>1. msg.offset \in Offset
    BY <1>9 DEF DeliverAnswer, Goto, IInv, OneInHand, InHand
  <2> QED
    BY <1>9, <2>1 DEF DeliverAnswer, Fails, kafkaVars, procVars
<1>10. ASSUME NEW i \in Offset, Deliver(i) PROVE RestTypes'
  <2>1. queue' \in [Offset -> Nat]
    BY <1>10 DEF Deliver
  <2> QED
    BY <1>10, <2>1 DEF Deliver, Fails, procVars
<1>11. CASE Start
  <2>1. starts' \in 1 .. MaxStarts
    BY <1>11 DEF Start
  <2> QED
    BY <1>11, <2>1 DEF Start, kafkaVars
<1> QED
  BY <1>1, <1>2, <1>3, <1>4, <1>5, <1>6, <1>7, <1>8, <1>9, <1>10, <1>11 DEF Next, Poll

(* Every variable of seer and of its topics keeps to its type: what is in hand was polled, and what
   went wrong is what may. *)
THEOREM TypeCorrect == Spec => []TypeOK
<1>1. IInv /\ RestTypes => TypeOK
  BY DEF IInv, KafkaTypes, ProcTypes, RestTypes, TypeOK, MayRead, InHand
<1> QED
  BY <1>1, InitRest, AlwaysIInv, StepRest, PTL DEF Spec, Safety

-----------------------------------------------------------------------------
(* The flush that precedes close has left nothing in the queue, and nothing is added to it. *)
FlushedThenClosed ==
    /\ thread = "close" => \A i \in Offset : queue[i] = 0
    /\ CleanDeath

LEMMA InitFlushed == Init => FlushedThenClosed
  BY DEF Init, FlushedThenClosed, CleanDeath

LEMMA StepFlushed == FlushedThenClosed /\ [Next]_vars => FlushedThenClosed'
<1> SUFFICES ASSUME FlushedThenClosed, [Next]_vars PROVE FlushedThenClosed'
  OBVIOUS
<1> USE DEF FlushedThenClosed, CleanDeath
<1>1. CASE UNCHANGED vars
  BY <1>1 DEF vars, kafkaVars, procVars
<1>2. ASSUME NEW t \in Topic, Publish(t) \/ PollMessage(t) PROVE FlushedThenClosed'
  BY <1>2 DEF Publish, PollMessage, Goto, procVars
<1>3. CASE Shutdown \/ Join \/ Crash \/ Start
  BY <1>3 DEF Shutdown, Join, Crash, Start, kafkaVars
<1>4. CASE CheckCancel \/ PollNothing \/ PollError \/ AcceptFails \/ AskFails \/ StoreFails
  BY <1>4 DEF CheckCancel, PollNothing, PollError, AcceptFails, AskFails, StoreFails, Raise, Goto
<1>5. CASE Accept \/ Ask \/ DeliverAnswer \/ StoreOffset
  BY <1>5 DEF Accept, Ask, DeliverAnswer, StoreOffset, Goto
<1>6. CASE Unsubscribe \/ Flush
  BY <1>6 DEF Unsubscribe, Flush, Goto
<1>7. CASE Close
  <2>1. \A i \in Offset : queue'[i] = 0
    BY <1>7 DEF Close, Goto
  <2>2. committed' = stored' \/ "commit" \in failed'
    BY <1>7 DEF Close, Fails
  <2>3. thread' = "dead"
    BY <1>7 DEF Close, Goto
  <2> QED
    BY <2>1, <2>2, <2>3
<1>8. CASE AutoCommit
  BY <1>8 DEF AutoCommit, procVars
<1>9. ASSUME NEW i \in Offset, Deliver(i) PROVE FlushedThenClosed'
  BY <1>9 DEF Deliver, procVars
<1> QED
  BY <1>1, <1>2, <1>3, <1>4, <1>5, <1>6, <1>7, <1>8, <1>9 DEF Next, Poll

(* However its thread came to an end, seer leaves no answer in the producer's queue, and nothing
   stored that is not committed unless that last commit failed. *)
THEOREM CleanDeathAlways == Spec => []CleanDeath
<1>1. FlushedThenClosed => CleanDeath
  BY DEF FlushedThenClosed
<1> QED
  BY <1>1, InitFlushed, StepFlushed, PTL DEF Spec, Safety

-----------------------------------------------------------------------------
(* What a start of the process does at most once. *)

(* Offset i of topic t lies ahead of this process: neither is it stored nor is its handling over. *)
Ahead(t, i) == i >= stored[t] /\ ~(thread = "store" /\ msg = [topic |-> t, offset |-> i])

(* What lies ahead of a thread that still runs has been accepted by earlier starts only. *)
AcceptedInTurn ==
    /\ AcceptedOncePerStart
    /\ thread \in MayRead \cup InHand =>
        \A i \in Offset : Ahead("statement", i) => accepted[i] < starts

LEMMA StepAccepted == IInv /\ RestTypes /\ AcceptedInTurn /\ [Next]_vars => AcceptedInTurn'
<1> SUFFICES ASSUME IInv, RestTypes, AcceptedInTurn, [Next]_vars PROVE AcceptedInTurn'
  OBVIOUS
<1>0. /\ accepted \in [Offset -> Nat] /\ starts \in Nat /\ "statement" \in Topic
      /\ \A i \in Offset : i \in Nat
      /\ stored \in [Topic -> 0 .. MaxLog] /\ \A t \in Topic : stored[t] \in Nat
  BY SeerAssumption DEF SeerAssumption, IInv, KafkaTypes, RestTypes, Offset, Topic
<1> USE DEF AcceptedInTurn, AcceptedOncePerStart, Ahead, MayRead, InHand
<1>1. CASE UNCHANGED vars
  BY <1>1 DEF vars, kafkaVars, procVars
<1>2. ASSUME NEW t \in Topic, Publish(t) PROVE AcceptedInTurn'
  BY <1>2 DEF Publish, procVars
<1>3. CASE Shutdown \/ Join \/ Crash
  BY <1>3 DEF Shutdown, Join, Crash
<1>4. CASE Start
  <2>1. starts' = starts + 1 /\ accepted' = accepted
    BY <1>4 DEF Start
  <2>2. \A i \in Offset : accepted[i] <= starts
    OBVIOUS
  <2>3. \A i \in Offset : accepted'[i] < starts'
    BY <1>0, <2>1, <2>2
  <2> QED
    BY <1>0, <2>1, <2>3
<1>5. CASE CheckCancel \/ PollNothing \/ Ask
  BY <1>5 DEF CheckCancel, PollNothing, Ask, Goto, procVars
<1>6. CASE PollError \/ AskFails \/ StoreFails
  BY <1>6 DEF PollError, AskFails, StoreFails, Raise, Goto, procVars
<1>7. ASSUME NEW t \in Topic, PollMessage(t) PROVE AcceptedInTurn'
  BY <1>7 DEF PollMessage, Goto, procVars
<1>8. CASE Accept \/ AcceptFails
  <2> DEFINE i0 == msg.offset
  <2>1. /\ thread = "handle" /\ msg.topic = "statement"
        /\ msg \in [topic : Topic, offset : Offset] /\ stored["statement"] = i0
    BY <1>8 DEF Accept, AcceptFails, Raise, Goto, IInv, OneInHand
  <2>2. i0 \in Offset /\ accepted[i0] < starts
    BY <1>0, <2>1
  <2>3. PICK n \in {0, 1} : accepted' = [accepted EXCEPT ![i0] = @ + n]
    BY <1>8 DEF Accept, AcceptFails
  <2>4. starts' = starts /\ stored' = stored
    BY <1>8 DEF Accept, AcceptFails, procVars
  <2>5. AcceptedOncePerStart'
    BY <1>0, <2>2, <2>3, <2>4
  <2>6. CASE AcceptFails
    BY <2>5, <2>6 DEF AcceptFails, Raise, Goto
  <2>7. CASE Accept
    <3>1. thread' = "store" /\ msg' = msg /\ msg = [topic |-> "statement", offset |-> i0]
      BY <2>1, <2>7 DEF Accept, Goto
    <3>2. ASSUME NEW i \in Offset, Ahead("statement", i)' PROVE accepted'[i] < starts'
      <4>1. i # i0 /\ i >= stored["statement"]
        BY <2>4, <3>1, <3>2
      <4> QED
        BY <1>0, <2>1, <2>2, <2>3, <2>4, <4>1
    <3> QED
      BY <2>5, <3>2
  <2> QED
    BY <1>8, <2>6, <2>7
<1>9. CASE DeliverAnswer
  <2>1. msg.topic = "question" \/ msg.topic = "statement"
    BY <1>9 DEF DeliverAnswer, Goto, IInv, OneInHand, Topic
  <2> QED
    BY <1>9 DEF DeliverAnswer, Goto, procVars
<1>10. CASE StoreOffset
  <2>1. /\ thread = "store" /\ thread' = "loop" /\ accepted' = accepted /\ starts' = starts
        /\ stored' = [stored EXCEPT ![msg.topic] = msg.offset + 1]
        /\ msg \in [topic : Topic, offset : Offset] /\ stored[msg.topic] = msg.offset
    BY <1>10 DEF StoreOffset, Goto, procVars, IInv, OneInHand
  <2>2. msg.topic \in Topic /\ msg.offset \in Offset /\ msg.offset \in Nat
    BY <1>0, <2>1
  <2>3. ASSUME NEW i \in Offset, i >= stored'["statement"] PROVE Ahead("statement", i)
    <3>1. CASE msg.topic = "statement"
      <4>1. i >= msg.offset + 1 /\ i # msg.offset
        BY <1>0, <2>1, <2>2, <2>3, <3>1
      <4> QED
        BY <1>0, <2>1, <2>2, <3>1, <4>1
    <3>2. CASE msg.topic # "statement"
      BY <1>0, <2>1, <2>2, <2>3, <3>2
    <3> QED
      BY <3>1, <3>2
  <2> QED
    BY <2>1, <2>3
<1>11. CASE Unsubscribe \/ Flush \/ Close
  BY <1>11 DEF Unsubscribe, Flush, Close, Goto, procVars
<1>12. CASE AutoCommit
  BY <1>12 DEF AutoCommit, procVars
<1>13. ASSUME NEW i \in Offset, Deliver(i) PROVE AcceptedInTurn'
  BY <1>13 DEF Deliver, procVars
<1> QED
  BY <1>1, <1>2, <1>3, <1>4, <1>5, <1>6, <1>7, <1>8, <1>9, <1>10, <1>11, <1>12, <1>13
     DEF Next, Poll

(* Between two starts no statement enters the database twice, whatever fails. *)
THEOREM AcceptedOncePerStartAlways == Spec => []AcceptedOncePerStart
<1>1. Init => AcceptedInTurn
  BY DEF Init, AcceptedInTurn, AcceptedOncePerStart
<1>2. AcceptedInTurn => AcceptedOncePerStart
  BY DEF AcceptedInTurn
<1> QED
  BY <1>1, <1>2, InitRest, AlwaysIInv, StepRest, StepAccepted, PTL DEF Spec, Safety

-----------------------------------------------------------------------------
(* Nothing that makes an answer be given twice has happened. *)
NoRepeat == failed \cap {"crash", "store", "commit", "retry"} = {}

(* Copies of the answer to question i, delivered or not. *)
Copies(i) == answered[i] + queue[i]

(* There is one copy of an answer at most and none to a question that lies ahead; a process that
   has ended has committed whatever it answered. *)
AnsweredInTurn ==
    NoRepeat =>
        /\ proc = "down" => stored = committed
        /\ \A i \in Offset : Copies(i) <= 1 /\ (Ahead("question", i) => Copies(i) = 0)

LEMMA StepAnswered ==
  IInv /\ RestTypes /\ FlushedThenClosed /\ AnsweredInTurn /\ [Next]_vars => AnsweredInTurn'
<1> SUFFICES ASSUME IInv, RestTypes, FlushedThenClosed, AnsweredInTurn, [Next]_vars, NoRepeat'
             PROVE  /\ proc' = "down" => stored' = committed'
                    /\ \A i \in Offset :
                          Copies(i)' <= 1 /\ (Ahead("question", i)' => Copies(i)' = 0)
  BY DEF AnsweredInTurn
<1> DEFINE Goal == /\ proc' = "down" => stored' = committed'
                   /\ \A i \in Offset :
                         Copies(i)' <= 1 /\ (Ahead("question", i)' => Copies(i)' = 0)
<1>0. /\ answered \in [Offset -> Nat] /\ queue \in [Offset -> Nat] /\ "question" \in Topic
      /\ \A i \in Offset : i \in Nat
      /\ stored \in [Topic -> 0 .. MaxLog] /\ \A t \in Topic : stored[t] \in Nat
  BY SeerAssumption DEF SeerAssumption, IInv, KafkaTypes, RestTypes, Offset, Topic
<1>a. failed \subseteq failed'
  BY DEF Next, Poll, Publish, Shutdown, Join, Crash, Start, CheckCancel, PollNothing, PollError,
         AcceptFails, AskFails, StoreFails, PollMessage, Accept, Ask, DeliverAnswer, StoreOffset,
         Unsubscribe, Flush, Close, AutoCommit, Deliver, Raise, Fails, vars
<1>b. NoRepeat
  BY <1>a DEF NoRepeat
<1>c. /\ proc = "down" => stored = committed
      /\ \A i \in Offset : Copies(i) <= 1 /\ (Ahead("question", i) => Copies(i) = 0)
  BY <1>b DEF AnsweredInTurn
<1> USE DEF Ahead, Copies
<1>1. CASE UNCHANGED vars
  BY <1>c, <1>1 DEF vars, kafkaVars, procVars
<1>2. ASSUME NEW t \in Topic, Publish(t) PROVE Goal
  BY <1>c, <1>2 DEF Publish, procVars
<1>3. CASE Shutdown
  BY <1>c, <1>3 DEF Shutdown, kafkaVars
<1>4. CASE Join
  <2>1. committed = stored /\ \A i \in Offset : queue[i] = 0
    BY <1>b, <1>4 DEF Join, FlushedThenClosed, CleanDeath, NoRepeat
  <2>2. \A i \in Offset : queue'[i] = 0
    BY <1>4 DEF Join
  <2> QED
    BY <1>c, <1>4, <2>1, <2>2 DEF Join, kafkaVars
<1>5. CASE Crash
  BY <1>5 DEF Crash, Fails, NoRepeat
<1>6. CASE Start
  BY <1>c, <1>6 DEF Start, kafkaVars, IInv, ProcTypes
<1>7. CASE CheckCancel \/ PollNothing \/ Ask
  BY <1>c, <1>7 DEF CheckCancel, PollNothing, Ask, Goto, procVars, kafkaVars
<1>8. CASE PollError \/ AskFails \/ AcceptFails
  BY <1>c, <1>8 DEF PollError, AskFails, AcceptFails, Raise, Goto, procVars, kafkaVars
<1>9. CASE StoreFails
  BY <1>9 DEF StoreFails, Raise, Fails, NoRepeat
<1>10. ASSUME NEW t \in Topic, PollMessage(t) PROVE Goal
  BY <1>c, <1>10 DEF PollMessage, Goto, procVars, kafkaVars
<1>11. CASE Accept
  BY <1>c, <1>11 DEF Accept, Goto, procVars, kafkaVars
<1>12. CASE DeliverAnswer
  <2> DEFINE i0 == msg.offset
  <2>1. /\ thread = "deliver" /\ thread' = "store" /\ msg' = msg
        /\ UNCHANGED <<proc, stored, committed, answered>>
        /\ msg \in [topic : Topic, offset : Offset] /\ stored[msg.topic] = i0
    BY <1>12 DEF DeliverAnswer, Goto, procVars, kafkaVars, IInv, OneInHand, InHand
  <2>2. msg = [topic |-> "question", offset |-> i0] /\ i0 \in Offset
    BY <2>1, <1>12 DEF IInv, OneInHand
  <2>3. answered[i0] + queue[i0] = 0
    BY <1>0, <1>c, <2>1, <2>2
  <2>4. queue' = [queue EXCEPT ![i0] = @ + 1] \/ queue' = queue
    BY <1>12 DEF DeliverAnswer
  <2>5. ASSUME NEW i \in Offset PROVE Copies(i)' <= 1 /\ (Ahead("question", i)' => Copies(i)' = 0)
    <3>1. CASE i = i0
      <4>1. ~Ahead("question", i)'
        BY <2>1, <2>2, <3>1
      <4> QED
        BY <1>0, <2>1, <2>3, <2>4, <3>1, <4>1
    <3>2. CASE i # i0
      <4>1. queue'[i] = queue[i] /\ answered'[i] = answered[i]
        BY <1>0, <2>1, <2>4, <3>2
      <4> QED
        BY <1>c, <2>1, <2>2, <3>2, <4>1
    <3> QED
      BY <3>1, <3>2
  <2> QED
    BY <1>c, <2>1, <2>5
<1>13. CASE StoreOffset
  <2>1. /\ thread = "store" /\ thread' = "loop"
        /\ UNCHANGED <<proc, committed, answered, queue>>
        /\ stored' = [stored EXCEPT ![msg.topic] = msg.offset + 1]
        /\ msg \in [topic : Topic, offset : Offset] /\ stored[msg.topic] = msg.offset
    BY <1>13 DEF StoreOffset, Goto, procVars, kafkaVars, IInv, OneInHand, InHand
  <2>2. msg.topic \in Topic /\ msg.offset \in Offset /\ msg.offset \in Nat
    BY <1>0, <2>1
  <2>3. ASSUME NEW i \in Offset, i >= stored'["question"] PROVE Ahead("question", i)
    <3>1. CASE msg.topic = "question"
      <4>1. i >= msg.offset + 1 /\ i # msg.offset
        BY <1>0, <2>1, <2>2, <2>3, <3>1
      <4> QED
        BY <1>0, <2>1, <2>2, <3>1, <4>1
    <3>2. CASE msg.topic # "question"
      BY <1>0, <2>1, <2>2, <2>3, <3>2
    <3> QED
      BY <3>1, <3>2
  <2>4. proc # "down"
    BY <2>1 DEF IInv, ProcTypes
  <2> QED
    BY <1>c, <2>1, <2>3, <2>4
<1>14. CASE Unsubscribe \/ Flush
  BY <1>c, <1>14 DEF Unsubscribe, Flush, Goto, procVars, kafkaVars
<1>15. CASE Close
  <2>1. committed' = stored
    BY <1>15 DEF Close, Fails, NoRepeat
  <2> QED
    BY <1>c, <1>15, <2>1 DEF Close, Goto, procVars
<1>16. CASE AutoCommit
  BY <1>c, <1>16 DEF AutoCommit, procVars
<1>17. ASSUME NEW j \in Offset, Deliver(j) PROVE Goal
  <2>1. queue[j] > 0 /\ queue' = [queue EXCEPT ![j] = @ - 1]
        /\ UNCHANGED <<proc, stored, committed, thread, msg>>
    BY <1>17 DEF Deliver, procVars
  <2>2. answered' = answered \/ answered' = [answered EXCEPT ![j] = @ + 1]
    BY <1>17 DEF Deliver, Fails, NoRepeat
  <2>3. \A i \in Offset : Copies(i)' <= Copies(i)
    BY <1>0, <2>1, <2>2
  <2>4. \A i \in Offset : Copies(i) \in Nat /\ Copies(i)' \in Nat
    BY <1>0, <2>1, <2>2
  <2>5. \A i \in Offset : Ahead("question", i)' => Ahead("question", i)
    BY <2>1
  <2> HIDE DEF Copies, Ahead
  <2> QED
    BY <1>c, <2>1, <2>3, <2>4, <2>5
<1> QED
  BY <1>1, <1>2, <1>3, <1>4, <1>5, <1>6, <1>7, <1>8, <1>9, <1>10, <1>11, <1>12, <1>13, <1>14,
     <1>15, <1>16, <1>17 DEF Next, Poll

(* Unless the process is killed, an offset cannot be stored, the commit of a close fails or Kafka
   takes an answer twice, no question is answered twice, whatever else fails and however often seer
   is stopped and started. *)
THEOREM AnsweredOnceAlways == Spec => []AnsweredOnce
<1>1. Init => AnsweredInTurn
  BY DEF Init, AnsweredInTurn, Copies
<1>2. IInv /\ RestTypes /\ AnsweredInTurn => AnsweredOnce
  <2> SUFFICES ASSUME IInv, RestTypes, AnsweredInTurn, NoRepeat, NEW i \in Offset
               PROVE  answered[i] <= 1
    BY DEF AnsweredOnce, NoRepeat
  <2>1. answered[i] \in Nat /\ queue[i] \in Nat
    BY DEF RestTypes
  <2>2. answered[i] + queue[i] <= 1
    BY DEF AnsweredInTurn, Copies
  <2> QED
    BY <2>1, <2>2
<1> QED
  BY <1>1, <1>2, InitRest, AlwaysIInv, StepRest, InitFlushed, StepFlushed, StepAnswered, PTL
     DEF Spec, Safety

-----------------------------------------------------------------------------
(* A question that has an answer on its way, or whose answer is known to be lost. *)
Settled(i) == Copies(i) > 0 \/ i \in lost

(* So it is with every question whose offset is stored, or about to be. *)
AnsweredBehind ==
    /\ \A i \in Offset : i < stored["question"] => Settled(i)
    /\ thread = "store" /\ msg.topic = "question" => Settled(msg.offset)

LEMMA StepBehind ==
  IInv /\ RestTypes /\ FlushedThenClosed /\ AnsweredBehind /\ [Next]_vars => AnsweredBehind'
<1> DEFINE Goal == /\ \A i \in Offset : i < stored'["question"] => Settled(i)'
                   /\ thread' = "store" /\ msg'.topic = "question" => Settled(msg.offset)'
<1> SUFFICES ASSUME IInv, RestTypes, FlushedThenClosed, AnsweredBehind, [Next]_vars
             PROVE  Goal
  BY DEF AnsweredBehind
<1>0. /\ answered \in [Offset -> Nat] /\ queue \in [Offset -> Nat] /\ "question" \in Topic
      /\ \A i \in Offset : i \in Nat
      /\ stored \in [Topic -> 0 .. MaxLog] /\ \A t \in Topic : stored[t] \in Nat
  BY SeerAssumption DEF SeerAssumption, IInv, KafkaTypes, RestTypes, Offset, Topic
<1>c. /\ \A i \in Offset : i < stored["question"] => Settled(i)
      /\ thread = "store" /\ msg.topic = "question" => Settled(msg.offset)
  BY DEF AnsweredBehind
<1> USE DEF Settled, Copies
<1>1. CASE UNCHANGED vars
  BY <1>c, <1>1 DEF vars, kafkaVars, procVars
<1>2. ASSUME NEW t \in Topic, Publish(t) PROVE Goal
  BY <1>c, <1>2 DEF Publish, procVars
<1>3. CASE Shutdown
  BY <1>c, <1>3 DEF Shutdown, kafkaVars
<1>4. CASE Join
  <2>1. /\ \A i \in Offset : queue[i] = 0 /\ queue'[i] = 0
        /\ thread' = "dead"
        /\ UNCHANGED <<answered, stored, lost>>
    BY <1>4 DEF Join, FlushedThenClosed, CleanDeath, kafkaVars
  <2> QED
    BY <1>c, <2>1
(* What is killed with the queue is lost. *)
<1>5. CASE Crash
  <2>1. /\ thread' = "dead" /\ UNCHANGED <<answered, stored>>
        /\ lost' = lost \cup {i \in Offset : queue[i] > 0}
        /\ \A i \in Offset : queue'[i] = 0
    BY <1>5 DEF Crash, kafkaVars
  <2>2. ASSUME NEW i \in Offset, Settled(i) PROVE Settled(i)'
    BY <1>0, <2>1, <2>2
  <2> QED
    BY <1>c, <2>1, <2>2
(* A new process begins at what is committed, which is stored. *)
<1>6. CASE Start
  <2>1. stored'["question"] <= stored["question"] /\ stored'["question"] \in Nat
    BY <1>0, <1>6, SeerAssumption DEF Start, IInv, KafkaTypes, OffsetsOrdered, SeerAssumption
  <2>2. UNCHANGED <<answered, queue, lost>> /\ thread' = "loop"
    BY <1>6 DEF Start, kafkaVars
  <2>3. ASSUME NEW i \in Offset, i < stored'["question"] PROVE Settled(i)'
    <3>1. i < stored["question"]
      BY <1>0, <2>1, <2>3
    <3> QED
      BY <1>c, <2>2, <3>1
  <2> QED
    BY <2>2, <2>3
<1>7. CASE CheckCancel \/ PollNothing \/ Ask
  BY <1>c, <1>7 DEF CheckCancel, PollNothing, Ask, Goto, procVars, kafkaVars
<1>8. CASE PollError \/ AskFails \/ AcceptFails \/ StoreFails
  BY <1>c, <1>8 DEF PollError, AskFails, AcceptFails, StoreFails, Raise, Goto, procVars, kafkaVars
<1>9. ASSUME NEW t \in Topic, PollMessage(t) PROVE Goal
  BY <1>c, <1>9 DEF PollMessage, Goto, procVars, kafkaVars
<1>10. CASE Accept
  BY <1>c, <1>10 DEF Accept, Goto, procVars, kafkaVars
<1>11. CASE DeliverAnswer
  <2> DEFINE i0 == msg.offset
  <2>1. thread = "deliver" /\ msg' = msg /\ UNCHANGED <<stored, answered>>
    BY <1>11 DEF DeliverAnswer, Goto, procVars, kafkaVars
  <2>2. i0 \in Offset
    BY <2>1 DEF IInv, OneInHand, InHand
  <2>3. \/ queue' = [queue EXCEPT ![i0] = @ + 1] /\ lost' = lost
        \/ queue' = queue /\ lost' = lost \cup {i0}
    BY <1>11 DEF DeliverAnswer
  <2>4. \A i \in Offset : Settled(i) => Settled(i)'
    BY <1>0, <2>1, <2>2, <2>3
  <2>5. Settled(i0)'
    BY <1>0, <2>1, <2>2, <2>3
  <2> HIDE DEF Settled
  <2> QED
    BY <1>c, <2>1, <2>4, <2>5
(* The question that was in hand is the only one that is now stored and was not. *)
<1>12. CASE StoreOffset
  <2>1. /\ thread = "store" /\ thread' = "loop"
        /\ UNCHANGED <<answered, queue, lost>>
        /\ stored' = [stored EXCEPT ![msg.topic] = msg.offset + 1]
        /\ msg \in [topic : Topic, offset : Offset] /\ stored[msg.topic] = msg.offset
    BY <1>12 DEF StoreOffset, Goto, procVars, kafkaVars, IInv, OneInHand, InHand
  <2>2. msg.topic \in Topic /\ msg.offset \in Offset /\ msg.offset \in Nat
    BY <1>0, <2>1
  <2>3. ASSUME NEW i \in Offset, i < stored'["question"] PROVE Settled(i)
    <3>1. CASE msg.topic = "question"
      <4>1. i < stored["question"] \/ i = msg.offset
        BY <1>0, <2>1, <2>2, <2>3, <3>1
      <4> QED
        BY <1>c, <2>1, <3>1, <4>1
    <3>2. CASE msg.topic # "question"
      BY <1>0, <1>c, <2>1, <2>2, <2>3, <3>2
    <3> QED
      BY <3>1, <3>2
  <2> QED
    BY <2>1, <2>3
<1>13. CASE Unsubscribe \/ Flush
  BY <1>c, <1>13 DEF Unsubscribe, Flush, Goto, procVars, kafkaVars
<1>14. CASE Close
  BY <1>c, <1>14 DEF Close, Goto, procVars
<1>15. CASE AutoCommit
  BY <1>c, <1>15 DEF AutoCommit, procVars
(* What leaves the queue arrives, or is given up. *)
<1>16. ASSUME NEW j \in Offset, Deliver(j) PROVE Goal
  <2>1. queue[j] > 0 /\ queue' = [queue EXCEPT ![j] = @ - 1] /\ UNCHANGED <<stored, thread, msg>>
    BY <1>16 DEF Deliver, procVars
  <2>2. \/ answered' = [answered EXCEPT ![j] = @ + 1] /\ lost' = lost
        \/ answered' = [answered EXCEPT ![j] = @ + 2] /\ lost' = lost
        \/ answered' = answered /\ lost' = lost \cup {j}
    BY <1>16 DEF Deliver
  <2>3. \A i \in Offset : Settled(i) => Settled(i)'
    BY <1>0, <2>1, <2>2
  <2>4. thread = "store" => msg.offset \in Offset
    BY DEF IInv, OneInHand, InHand
  <2> HIDE DEF Settled
  <2> QED
    BY <1>c, <2>1, <2>3, <2>4
<1> QED
  BY <1>1, <1>2, <1>3, <1>4, <1>5, <1>6, <1>7, <1>8, <1>9, <1>10, <1>11, <1>12, <1>13, <1>14,
     <1>15, <1>16 DEF Next, Poll

(* The queue dies with the process. *)
QueueOfProcess == proc = "down" => \A i \in Offset : queue[i] = 0

LEMMA StepQueue == IInv /\ QueueOfProcess /\ [Next]_vars => QueueOfProcess'
<1> SUFFICES ASSUME IInv, QueueOfProcess, [Next]_vars, proc' = "down"
             PROVE  \A i \in Offset : queue'[i] = 0
  BY DEF QueueOfProcess
<1>1. CASE UNCHANGED vars
  BY <1>1 DEF vars, procVars, QueueOfProcess
<1>2. CASE Join \/ Crash
  BY <1>2 DEF Join, Crash
<1>3. CASE Shutdown \/ Start
  BY <1>3 DEF Shutdown, Start
<1>4. CASE DeliverAnswer
  <2>1. proc = "down" /\ thread = "deliver"
    BY <1>4 DEF DeliverAnswer, Goto, procVars
  <2> QED
    BY <2>1 DEF IInv, ProcTypes
<1>5. ASSUME NEW j \in Offset, Deliver(j) PROVE FALSE
  <2>1. proc = "down" /\ queue[j] > 0
    BY <1>5 DEF Deliver, procVars
  <2> QED
    BY <2>1 DEF QueueOfProcess
<1>6. CASE Poll /\ ~DeliverAnswer
  BY <1>6 DEF Poll, CheckCancel, PollNothing, PollError, Accept, AcceptFails, Ask, AskFails,
              StoreOffset, StoreFails, Unsubscribe, Flush, Close, procVars, QueueOfProcess
<1>7. ASSUME NEW t \in Topic, Publish(t) \/ PollMessage(t) PROVE UNCHANGED <<proc, queue>>
  BY <1>7 DEF Publish, PollMessage, procVars
<1>8. CASE AutoCommit
  BY <1>8 DEF AutoCommit, procVars, QueueOfProcess
<1> QED
  BY <1>1, <1>2, <1>3, <1>4, <1>5, <1>6, <1>7, <1>8 DEF Next, QueueOfProcess

(* The safety in EveryQuestionAnswered. *)
NoAnswerLost ==
    \A i \in Offset :
        i < stored["question"] =>
            answered[i] > 0 \/ i \in lost \/ (queue[i] > 0 /\ proc # "down")

(* Whatever fails: a question that will not be read again has its answer at the broker, or in the
   queue of a process that flushes it before it ends, unless it is one of those whose own answer was
   dropped by a full queue, given up by Kafka or killed with the process. *)
THEOREM NoAnswerLostAlways == Spec => []NoAnswerLost
<1>1. Init => AnsweredBehind /\ QueueOfProcess
  <2>1. \A i \in Offset : ~(i < 0)
    BY SeerAssumption DEF Offset, SeerAssumption
  <2> QED
    BY <2>1 DEF Init, AnsweredBehind, QueueOfProcess, Topic
<1>2. RestTypes /\ AnsweredBehind /\ QueueOfProcess => NoAnswerLost
  <2> SUFFICES ASSUME RestTypes, AnsweredBehind, QueueOfProcess,
                      NEW i \in Offset, i < stored["question"]
               PROVE  answered[i] > 0 \/ i \in lost \/ (queue[i] > 0 /\ proc # "down")
    BY DEF NoAnswerLost
  <2>1. answered[i] \in Nat /\ queue[i] \in Nat
    BY DEF RestTypes
  <2>2. (answered[i] + queue[i] > 0 \/ i \in lost) /\ (proc = "down" => queue[i] = 0)
    BY DEF AnsweredBehind, QueueOfProcess, Settled, Copies
  <2> QED
    BY <2>1, <2>2
<1> QED
  BY <1>1, <1>2, InitRest, AlwaysIInv, StepRest, InitFlushed, StepFlushed, StepBehind, StepQueue, PTL
     DEF Spec, Safety
=============================================================================
