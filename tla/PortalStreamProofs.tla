------------------------- MODULE PortalStreamProofs -------------------------
(***************************************************************************)
(* What the page shows (MessageConsumer.tsx, /api/consume), for any number *)
(* of runs of its effect, of handlers, of requests and of events.           *)
(***************************************************************************)
EXTENDS PortalStream, SequenceTheorems, TLAPS

(* Only the EventSource of the latest run is open, and it reads a response to its own query. *)
OnlyLatestReads ==
    /\ \A g \in Run : g < run => es[g] = "closed"
    /\ \A g \in Run : g > run => es[g] = "none"
    /\ \A g \in Run : at[g] # 0 => /\ es[g] \in {"connecting", "open"}
                                   /\ asked[at[g]] = g
                                   /\ res[at[g]] # "none"

LEMMA RunFacts == MaxRuns \in Nat /\ MaxHandlers \in Nat /\ MaxRequests \in Nat /\ MaxEvents \in Nat
  BY BoundsAssumption DEF BoundsAssumption

IInv == TypeOK /\ OnlyLatestReads

LEMMA InitIInv == Init => IInv
<1> SUFFICES ASSUME Init PROVE IInv
  OBVIOUS
<1>1. 0 \in Run /\ <<>> \in Seq(Event) /\ <<>> \in Seq([event : Event, run : Run])
      /\ 0 \in 0..MaxEvents
  BY RunFacts DEF Run
<1>2. TypeOK
  BY <1>1 DEF Init, TypeOK, CR!Init
<1>3. \A g \in Run : ~(g < 0) /\ (g > 0 => g # 0)
  BY RunFacts DEF Run
<1>4. OnlyLatestReads
  BY <1>3 DEF Init, OnlyLatestReads
<1> QED
  BY <1>2, <1>4 DEF IInv

-----------------------------------------------------------------------------
(* Type correctness, action by action. *)

LEMMA Elements ==
  ASSUME NEW S, NEW s \in Seq(S)
  PROVE  ToSet(s) \subseteq S
<1>1. DOMAIN s = 1..Len(s)
  OBVIOUS
<1>2. \A i \in 1..Len(s) : s[i] \in S
  OBVIOUS
<1> QED
  BY <1>1, <1>2 DEF ToSet

LEMMA HangUpTypes ==
  ASSUME TypeOK, NEW g \in Run, HangUp(g)
  PROVE  /\ at' \in [Run -> Handler \cup {0}]
         /\ toPage' \in [Handler -> Seq(Event)]
         /\ lost' \subseteq Event
<1>1. \A h \in Handler : ToSet(toPage[h]) \subseteq Event
  BY Elements DEF TypeOK
<1>2. <<>> \in Seq(Event)
  OBVIOUS
<1>3. UNION {ToSet(toPage[h]) : h \in {at[g]} \cap Handler} \subseteq Event
  BY <1>1
<1>4. lost' \subseteq Event
  BY <1>3 DEF HangUp, TypeOK
<1>5. toPage' \in [Handler -> Seq(Event)]
  BY <1>2 DEF HangUp, TypeOK
<1> QED
  BY <1>4, <1>5 DEF HangUp, TypeOK

LEMMA ServiceTypes ==
  ASSUME TypeOK, NEW r \in Request,
         CR!Begin(r) \/ CR!Join(r) \/ CR!Leave(r) \/ CR!Cut(r) \/ CR!End(r)
  PROVE  /\ req' \in [Request -> CR!Active \cup {"none", "ended"}]
         /\ member' \in [Request -> {"none", "in", "out"}]
  BY DEF TypeOK, CR!Active, CR!Begin, CR!Join, CR!Leave, CR!Cut, CR!End

LEMMA HangUpRequestTypes ==
  ASSUME TypeOK, NEW h \in Handler, HangUpRequest(h)
  PROVE  /\ via' \in [Handler -> Request \cup {0}]
         /\ toPortal' \in [Request -> Seq(Event)]
         /\ lost' \subseteq Event
         /\ req' \in [Request -> CR!Active \cup {"none", "ended"}]
         /\ member' \in [Request -> {"none", "in", "out"}]
<1>1. \A r \in Request : ToSet(toPortal[r]) \subseteq Event
  BY Elements DEF TypeOK
<1>2. /\ req' \in [Request -> CR!Active \cup {"none", "ended"}]
      /\ member' \in [Request -> {"none", "in", "out"}]
  <2>1. CASE via[h] \in Open /\ CR!Cut(via[h])
    BY <2>1, ServiceTypes DEF Open
  <2>2. CASE UNCHANGED serviceVars
    BY <2>2 DEF serviceVars, TypeOK
  <2> QED
    BY <2>1, <2>2 DEF HangUpRequest
<1>3. <<>> \in Seq(Event)
  OBVIOUS
<1>4. UNION {ToSet(toPortal[r]) : r \in {via[h]} \cap Request} \subseteq Event
  BY <1>1
<1>5. lost' \subseteq Event
  BY <1>4 DEF HangUpRequest, TypeOK
<1>6. toPortal' \in [Request -> Seq(Event)]
  BY <1>3 DEF HangUpRequest, TypeOK
<1> QED
  BY <1>2, <1>5, <1>6 DEF HangUpRequest, TypeOK
LEMMA PageTypes == TypeOK /\ Page => TypeOK'
<1> SUFFICES ASSUME TypeOK, Page PROVE TypeOK'
  OBVIOUS
<1> USE RunFacts DEF pageVars, portalVars, serviceVars
<1>1. ASSUME NEW t \in {"none", "some"}, SelectTopics(t) PROVE TypeOK'
  <2>1. run \in Run /\ run < MaxRuns
    BY <1>1 DEF SelectTopics, TypeOK
  <2>2. run + 1 \in Run
    BY <2>1, RunFacts DEF Run
  <2>3. /\ at' \in [Run -> Handler \cup {0}]
        /\ toPage' \in [Handler -> Seq(Event)]
        /\ lost' \subseteq Event
    BY <1>1, <2>1, HangUpTypes DEF SelectTopics
  <2>4. /\ run' = run + 1
        /\ topics' \in [Run -> {"none", "some"}]
        /\ es' \in [Run -> {"none", "connecting", "open", "closed"}]
        /\ UNCHANGED <<portalVars, serviceVars, toPortal, written, shown>>
    BY <1>1 DEF SelectTopics, TypeOK
  <2> QED
    BY <2>2, <2>3, <2>4 DEF TypeOK
<1>2. CASE LeavePage
  BY <1>2, HangUpTypes DEF LeavePage, TypeOK
<1>3. ASSUME NEW g \in Run, Opened(g) \/ Refuse(g) PROVE TypeOK'
  BY <1>3 DEF Opened, Refuse, TypeOK
<1>4. ASSUME NEW g \in Run, Lose(g) PROVE TypeOK'
  BY <1>4, HangUpTypes DEF Lose, TypeOK
<1>5. ASSUME NEW g \in Run, Show(g) PROVE TypeOK'
  <2>1. at[g] \in Handler /\ toPage[at[g]] \in Seq(Event) /\ toPage[at[g]] # <<>>
    BY <1>5 DEF Show, TypeOK
  <2>2. Head(toPage[at[g]]) \in Event /\ Tail(toPage[at[g]]) \in Seq(Event)
    BY <2>1
  <2>3. [event |-> Head(toPage[at[g]]), run |-> asked[at[g]]] \in [event : Event, run : Run]
    BY <2>1, <2>2 DEF TypeOK
  <2>4. shown' \in Seq([event : Event, run : Run])
    <3> DEFINE e == [event |-> Head(toPage[at[g]]), run |-> asked[at[g]]]
               S == [event : Event, run : Run]
    <3>1. shown' = Append(shown, e) /\ shown \in Seq(S) /\ e \in S
      BY <1>5, <2>3 DEF Show, TypeOK
    <3> HIDE DEF e, S
    <3>2. shown' \in Seq(S)
      BY <3>1
    <3> QED
      BY <3>2 DEF S
  <2> QED
    BY <1>5, <2>1, <2>2, <2>4 DEF Show, TypeOK
<1>6. ASSUME NEW g \in Run, NEW h \in Fresh(res), Accept(g, h) PROVE TypeOK'
  BY <1>6 DEF Accept, Fresh, TypeOK
<1> QED
  BY <1>1, <1>2, <1>3, <1>4, <1>5, <1>6 DEF Page

LEMMA PortalTypes == TypeOK /\ Portal => TypeOK'
<1> SUFFICES ASSUME TypeOK, NEW h \in Handler,
                    \/ \E r \in Fresh(req) : UpConnect(h, r)
                    \/ Copy(h) \/ UpEnd(h) \/ UpLose(h) \/ CloseRes(h)
             PROVE  TypeOK'
  BY DEF Portal
<1> USE DEF pageVars, portalVars, serviceVars
<1>1. ASSUME NEW r \in Fresh(req), UpConnect(h, r) PROVE TypeOK'
  <2>1. r \in Request
    BY DEF Fresh, TypeOK
  <2> QED
    BY <1>1, <2>1, ServiceTypes DEF UpConnect, TypeOK
<1>2. CASE Copy(h)
  <2>1. via[h] \in Request /\ toPortal[via[h]] \in Seq(Event) /\ toPortal[via[h]] # <<>>
    BY <1>2 DEF Copy, TypeOK
  <2>2. Head(toPortal[via[h]]) \in Event /\ Tail(toPortal[via[h]]) \in Seq(Event)
    BY <2>1
  <2>3. Append(toPage[h], Head(toPortal[via[h]])) \in Seq(Event)
    <3>1. toPage[h] \in Seq(Event)
      BY DEF TypeOK
    <3> QED
      BY <2>2, <3>1
  <2> QED
    BY <1>2, <2>1, <2>2, <2>3 DEF Copy, TypeOK
<1>3. CASE UpEnd(h)
  BY <1>3 DEF UpEnd, TypeOK
<1>4. CASE UpLose(h)
  BY <1>4, HangUpRequestTypes DEF UpLose, TypeOK
<1>5. CASE CloseRes(h)
  BY <1>5, HangUpRequestTypes DEF CloseRes, TypeOK
<1> QED
  BY <1>1, <1>2, <1>3, <1>4, <1>5

LEMMA ConsumerTypes ==
  ASSUME TypeOK, NEW r \in Request, Write(r) \/ Serve(r)
  PROVE  TypeOK'
<1> USE RunFacts DEF pageVars, portalVars, serviceVars
<1>1. CASE Write(r)
  <2>0. written \in 0..MaxEvents /\ written < MaxEvents /\ written' = written + 1
    BY <1>1 DEF Write, TypeOK
  <2>1. written' \in Event /\ written' \in 0..MaxEvents
    BY <2>0 DEF Event
  <2>2. toPortal' \in [Request -> Seq(Event)]
    <3>1. toPortal[r] \in Seq(Event)
      BY DEF TypeOK
    <3>2. Append(toPortal[r], written') \in Seq(Event)
      BY <2>1, <3>1
    <3> QED
      BY <1>1, <3>2 DEF Write, TypeOK
  <2> QED
    BY <1>1, <2>1, <2>2 DEF Write, TypeOK
<1>2. CASE Serve(r)
  BY <1>2, ServiceTypes DEF Serve, TypeOK
<1> QED
  BY <1>1, <1>2

LEMMA StepTypes == TypeOK /\ [Next]_vars => TypeOK'
<1>1. TypeOK /\ UNCHANGED vars => TypeOK'
  BY DEF TypeOK, vars, pageVars, portalVars, serviceVars
<1> QED
  BY <1>1, PageTypes, PortalTypes, ConsumerTypes DEF Next
-----------------------------------------------------------------------------
(* The latest run, action by action. *)

LEMMA StepLatest == IInv /\ [Next]_vars => OnlyLatestReads'
<1> SUFFICES ASSUME IInv, [Next]_vars PROVE OnlyLatestReads'
  OBVIOUS
<1> USE DEF IInv, pageVars, portalVars, serviceVars
<1>1. CASE UNCHANGED vars
  BY <1>1 DEF vars, OnlyLatestReads
<1>2. ASSUME NEW t \in {"none", "some"}, SelectTopics(t) PROVE OnlyLatestReads'
  <2>1. /\ run \in Run /\ run < MaxRuns /\ run' = run + 1
        /\ es' = [es EXCEPT ![run] = "closed", ![run + 1] = "connecting"]
        /\ at' = [at EXCEPT ![run] = 0]
        /\ asked' = asked /\ res' = res
    BY <1>2 DEF SelectTopics, HangUp, TypeOK
  <2>2. run + 1 \in Run /\ run \in Nat /\ \A g \in Run : g \in Nat
    BY <2>1, RunFacts DEF Run
  <2>3. \A g \in Run : /\ g < run + 1 <=> g < run \/ g = run
                       /\ g > run + 1 => g > run /\ g # run + 1
    BY <2>2
  <2>4. run + 1 > run
    BY <2>2
  <2>5. es \in [Run -> {"none", "connecting", "open", "closed"}] /\ at \in [Run -> Handler \cup {0}]
    BY DEF TypeOK
  <2>6. at[run + 1] = 0
    BY <2>2, <2>4 DEF OnlyLatestReads
  <2>7. \A g \in Run : g > run + 1 => es'[g] = "none"
    BY <2>1, <2>2, <2>3, <2>5 DEF OnlyLatestReads
  <2>8. \A g \in Run : g < run + 1 => es'[g] = "closed"
    BY <2>1, <2>2, <2>3, <2>4, <2>5 DEF OnlyLatestReads
  <2>9. ASSUME NEW g \in Run, at'[g] # 0
        PROVE  es'[g] \in {"connecting", "open"} /\ asked'[at'[g]] = g /\ res'[at'[g]] # "none"
    <3>1. g # run /\ g # run + 1 /\ at'[g] = at[g]
      BY <2>1, <2>2, <2>5, <2>6, <2>9
    <3> QED
      BY <2>1, <2>5, <2>9, <3>1 DEF OnlyLatestReads
  <2> QED
    BY <2>1, <2>7, <2>8, <2>9 DEF OnlyLatestReads
<1>3. CASE LeavePage
  <2>1. run \in Run /\ ~(run > run) /\ ~(run < run)
    BY RunFacts DEF TypeOK, Run
  <2> QED
    BY <1>3, <2>1 DEF LeavePage, HangUp, OnlyLatestReads, TypeOK
<1>4. ASSUME NEW g \in Run, Opened(g) \/ Refuse(g) \/ Show(g) \/ Lose(g) PROVE OnlyLatestReads'
  <2>1. CASE Opened(g)
    BY <1>4, <2>1 DEF Opened, OnlyLatestReads, TypeOK
  <2>2. CASE Refuse(g)
    BY <1>4, <2>2 DEF Refuse, OnlyLatestReads, TypeOK
  <2>3. CASE Show(g)
    BY <1>4, <2>3 DEF Show, OnlyLatestReads, TypeOK
  <2>4. CASE Lose(g)
    <3>1. ~(g < run) /\ ~(g > run)
      BY <2>4 DEF Lose, OnlyLatestReads
    <3>2. /\ run' = run /\ asked' = asked /\ res' = res
          /\ at' = [at EXCEPT ![g] = 0] /\ es' = [es EXCEPT ![g] = "connecting"]
      BY <2>4 DEF Lose, HangUp
    <3>3. at'[g] = 0
      BY <3>2 DEF TypeOK
    <3> QED
      BY <3>1, <3>2, <3>3 DEF OnlyLatestReads, TypeOK
  <2> QED
    BY <1>4, <2>1, <2>2, <2>3, <2>4
<1>5. ASSUME NEW g \in Run, NEW h \in Fresh(res), Accept(g, h) PROVE OnlyLatestReads'
  <2>1. h \in Handler /\ res[h] = "none" /\ h # 0
    BY RunFacts DEF Fresh, TypeOK, Handler
  <2>2. \A q \in Run : at[q] # h
    BY <2>1 DEF OnlyLatestReads
  <2> QED
    BY <1>5, <2>1, <2>2 DEF Accept, OnlyLatestReads, TypeOK
<1>6. ASSUME NEW h \in Handler, NEW r \in Fresh(req), UpConnect(h, r) PROVE OnlyLatestReads'
  BY <1>6 DEF UpConnect, OnlyLatestReads
<1>7. ASSUME NEW h \in Handler, Copy(h) \/ UpEnd(h) \/ UpLose(h) \/ CloseRes(h)
      PROVE  OnlyLatestReads'
  BY <1>7 DEF Copy, UpEnd, UpLose, CloseRes, OnlyLatestReads, TypeOK
<1>8. ASSUME NEW r \in Request, Write(r) \/ Serve(r) PROVE OnlyLatestReads'
  BY <1>8 DEF Write, Serve, OnlyLatestReads
<1> QED
  BY <1>1, <1>2, <1>3, <1>4, <1>5, <1>6, <1>7, <1>8 DEF Next, Page, Portal

LEMMA AlwaysIInv == Safety => []IInv
<1>1. IInv /\ [Next]_vars => IInv'
  BY StepTypes, StepLatest DEF IInv
<1> QED
  BY <1>1, InitIInv, PTL DEF Safety

-----------------------------------------------------------------------------
(* Every variable of the page, of the portal and of the requests keeps its type. *)
THEOREM TypeCorrect == Spec => []TypeOK
  BY AlwaysIInv, PTL DEF Spec, IInv

(* The page adds nothing to its log that the topics now selected did not ask for. *)
THEOREM ShownIsSelectedAlways == Spec => ShownIsSelected
<1>1. ASSUME IInv, [Next]_vars, shown' # shown
      PROVE  Last(shown').run = run
  <2>1. PICK g \in Run : Show(g)
    BY <1>1
       DEF Next, Page, Portal, SelectTopics, LeavePage, Opened, Lose, Refuse, Accept, UpConnect, Copy,
           UpEnd, UpLose, CloseRes, Write, Serve, vars
  <2> DEFINE e == [event |-> Head(toPage[at[g]]), run |-> asked[at[g]]]
             S == [event : Event, run : Run]
  <2>2. es[g] = "open" /\ at[g] # 0 /\ shown' = Append(shown, e)
    BY <2>1 DEF Show
  <2>3. g \in Int /\ run \in Int /\ ~(g < run) /\ ~(g > run)
    BY <1>1, <2>2, RunFacts DEF IInv, OnlyLatestReads, TypeOK, Run
  <2>4. asked[at[g]] = run
    BY <1>1, <2>2, <2>3 DEF IInv, OnlyLatestReads
  <2>5. shown \in Seq(S)
    BY <1>1 DEF IInv, TypeOK
  <2>6. e.run = run
    BY <2>4
  <2> HIDE DEF e, S
  <2>7. shown'[Len(shown')] = e
    BY <2>2, <2>5
  <2> QED
    BY <2>6, <2>7 DEF Last
<1> QED
  BY <1>1, AlwaysIInv, PTL DEF Spec, Safety, ShownIsSelected

-----------------------------------------------------------------------------
(* Sequences of events. *)

Increasing(s) == \A i \in 1 .. Len(s) : \A j \in 1 .. Len(s) : i < j => s[i] < s[j]
Precedes(s, t) == \A i \in 1 .. Len(s) : \A j \in 1 .. Len(t) : s[i] < t[j]
UpTo(s, n) == \A i \in 1 .. Len(s) : s[i] <= n

LEMMA EventIsNat == Event \subseteq Nat
  BY RunFacts DEF Event

LEMMA TakeFirst ==
  ASSUME NEW s \in Seq(Event), s # <<>>
  PROVE  /\ Len(s) \in Nat /\ Len(s) > 0 /\ Head(s) = s[1] /\ Head(s) \in Event
         /\ Tail(s) \in Seq(Event) /\ Len(Tail(s)) = Len(s) - 1
         /\ \A i \in 1 .. Len(Tail(s)) : Tail(s)[i] = s[i + 1]
  OBVIOUS

LEMMA PutLast ==
  ASSUME NEW s \in Seq(Event), NEW e \in Event
  PROVE  /\ Len(s) \in Nat /\ Append(s, e) \in Seq(Event) /\ Len(Append(s, e)) = Len(s) + 1
         /\ Append(s, e)[Len(s) + 1] = e
         /\ \A i \in 1 .. Len(s) : Append(s, e)[i] = s[i]
  OBVIOUS

LEMMA Numbers ==
  ASSUME NEW s \in Seq(Event)
  PROVE  Len(s) \in Nat /\ \A i \in 1 .. Len(s) : s[i] \in Nat
<1>1. \A i \in 1 .. Len(s) : s[i] \in Event
  OBVIOUS
<1>2. Len(s) \in Nat
  OBVIOUS
<1> QED
  BY <1>1, <1>2, EventIsNat

LEMMA Empty ==
  /\ Increasing(<<>>)
  /\ \A s : Precedes(<<>>, s) /\ Precedes(s, <<>>)
  /\ \A n : UpTo(<<>>, n)
<1>1. 1 .. Len(<<>>) = {}
  OBVIOUS
<1> QED
  BY <1>1 DEF Increasing, Precedes, UpTo

(* What is left of a sequence when its first event is taken. *)
LEMMA TailKeeps ==
  ASSUME NEW s \in Seq(Event), s # <<>>
  PROVE  /\ Increasing(s) => Increasing(Tail(s))
         /\ \A n : UpTo(s, n) => UpTo(Tail(s), n)
         /\ \A t : Precedes(t, s) => Precedes(t, Tail(s))
         /\ \A t : Precedes(s, t) => Precedes(Tail(s), t)
<1>1. ASSUME NEW i \in 1 .. Len(Tail(s))
      PROVE  i + 1 \in 1 .. Len(s) /\ Tail(s)[i] = s[i + 1] /\ i \in Nat
  BY <1>1, TakeFirst
<1>2. Increasing(s) => Increasing(Tail(s))
  <2> SUFFICES ASSUME Increasing(s), NEW i \in 1 .. Len(Tail(s)), NEW j \in 1 .. Len(Tail(s)), i < j
               PROVE  Tail(s)[i] < Tail(s)[j]
    BY DEF Increasing
  <2>1. i + 1 < j + 1
    BY <1>1
  <2> QED
    BY <1>1, <2>1 DEF Increasing
<1>3. ASSUME NEW n, UpTo(s, n) PROVE UpTo(Tail(s), n)
  BY <1>1, <1>3 DEF UpTo
<1>4. ASSUME NEW t, Precedes(t, s) PROVE Precedes(t, Tail(s))
  BY <1>1, <1>4 DEF Precedes
<1>5. ASSUME NEW t, Precedes(s, t) PROVE Precedes(Tail(s), t)
  BY <1>1, <1>5 DEF Precedes
<1> QED
  BY <1>2, <1>3, <1>4, <1>5

(* The first event of s moves to the end of t. *)
LEMMA MoveKeeps ==
  ASSUME NEW s \in Seq(Event), s # <<>>, NEW t \in Seq(Event), Precedes(t, s),
         Increasing(s), Increasing(t)
  PROVE  /\ Increasing(Append(t, Head(s)))
         /\ Precedes(Append(t, Head(s)), Tail(s))
         /\ \A u : Precedes(u, t) /\ Precedes(u, s) => Precedes(u, Append(t, Head(s)))
         /\ \A u : Precedes(t, u) /\ Precedes(s, u) => Precedes(Append(t, Head(s)), u)
         /\ \A n : UpTo(t, n) /\ UpTo(s, n) => UpTo(Append(t, Head(s)), n)
<1> DEFINE e == s[1]
           z == Append(t, e)
           m == Len(t)
<1>1. /\ m \in Nat /\ Len(z) = m + 1 /\ z[m + 1] = e /\ \A i \in 1 .. m : z[i] = t[i]
      /\ Head(s) = e /\ 1 \in 1 .. Len(s) /\ Len(s) \in Nat
  BY TakeFirst, PutLast
<1>2. \A i \in 1 .. m : t[i] < e
  BY <1>1 DEF Precedes
<1>3. /\ Len(Tail(s)) = Len(s) - 1
      /\ \A j \in 1 .. Len(Tail(s)) : Tail(s)[j] = s[j + 1] /\ j + 1 \in 1 .. Len(s) /\ 1 < j + 1
  BY <1>1, TakeFirst
<1>4. \A j \in 1 .. Len(Tail(s)) : e < Tail(s)[j]
  BY <1>1, <1>3 DEF Increasing
<1> HIDE DEF z, e, m
<1>5. \A i \in 1 .. Len(z) : (i \in 1 .. m /\ z[i] = t[i]) \/ (i = m + 1 /\ z[i] = e)
  BY <1>1
<1>6. Increasing(z)
  <2> SUFFICES ASSUME NEW i \in 1 .. Len(z), NEW j \in 1 .. Len(z), i < j
               PROVE  z[i] < z[j]
    BY DEF Increasing
  <2>1. i \in 1 .. m /\ z[i] = t[i]
    BY <1>1, <1>5
  <2>2. CASE j \in 1 .. m
    BY <1>1, <2>1, <2>2 DEF Increasing, m
  <2>3. CASE j = m + 1
    BY <1>1, <1>2, <2>1, <2>3
  <2> QED
    BY <1>5, <2>2, <2>3
<1>7. Precedes(z, Tail(s))
  <2> SUFFICES ASSUME NEW i \in 1 .. Len(z), NEW j \in 1 .. Len(Tail(s)) PROVE z[i] < Tail(s)[j]
    BY DEF Precedes
  <2>1. CASE i \in 1 .. m /\ z[i] = t[i]
    BY <1>3, <2>1 DEF Precedes, m
  <2>2. CASE z[i] = e
    BY <1>4, <2>2
  <2> QED
    BY <1>5, <2>1, <2>2
<1>8. ASSUME NEW u, Precedes(u, t), Precedes(u, s) PROVE Precedes(u, z)
  <2>1. \A i \in 1 .. Len(u) : u[i] < e /\ \A j \in 1 .. m : u[i] < t[j]
    BY <1>1, <1>8 DEF Precedes, m, e
  <2> QED
    BY <1>5, <2>1 DEF Precedes
<1>9. ASSUME NEW u, Precedes(t, u), Precedes(s, u) PROVE Precedes(z, u)
  <2>1. \A j \in 1 .. Len(u) : e < u[j] /\ \A i \in 1 .. m : t[i] < u[j]
    BY <1>1, <1>9 DEF Precedes, m, e
  <2> QED
    BY <1>5, <2>1 DEF Precedes
<1>10. ASSUME NEW n, UpTo(t, n), UpTo(s, n) PROVE UpTo(z, n)
  <2>1. e <= n /\ \A i \in 1 .. m : t[i] <= n
    BY <1>1, <1>10 DEF UpTo, m, e
  <2> QED
    BY <1>5, <2>1 DEF UpTo
<1>11. z = Append(t, Head(s))
  BY <1>1 DEF z
<1> QED
  BY <1>6, <1>7, <1>8, <1>9, <1>10, <1>11

(* The next event is written at the end of s. *)
LEMMA WriteKeeps ==
  ASSUME NEW n \in Nat, n + 1 \in Event, NEW s \in Seq(Event), UpTo(s, n)
  PROVE  /\ Increasing(s) => Increasing(Append(s, n + 1))
         /\ UpTo(Append(s, n + 1), n + 1)
         /\ \A t \in Seq(Event) : UpTo(t, n) /\ Precedes(t, s) => Precedes(t, Append(s, n + 1))
<1> DEFINE z == Append(s, n + 1)
           m == Len(s)
<1>1. m \in Nat /\ Len(z) = m + 1 /\ z[m + 1] = n + 1 /\ \A i \in 1 .. m : z[i] = s[i]
  BY PutLast
<1>2. \A i \in 1 .. m : s[i] \in Nat /\ s[i] <= n
  BY Numbers DEF UpTo
<1> HIDE DEF z
<1>3. Increasing(s) => Increasing(z)
  BY <1>1, <1>2 DEF Increasing
<1>4. UpTo(z, n + 1)
  BY <1>1, <1>2 DEF UpTo
<1>5. ASSUME NEW t \in Seq(Event), UpTo(t, n), Precedes(t, s) PROVE Precedes(t, z)
  <2>1. \A i \in 1 .. Len(t) : t[i] \in Nat /\ t[i] <= n
    BY <1>5, Numbers DEF UpTo
  <2> QED
    BY <1>1, <1>5, <2>1 DEF Precedes
<1> QED
  BY <1>3, <1>4, <1>5 DEF z

-----------------------------------------------------------------------------
(* An event on its way, from the consumer to the log of the page. *)

ShownEvents == [i \in 1 .. Len(shown) |-> shown[i].event]

(* Nothing waits where nobody reads. *)
Unused ==
    /\ \A h \in Handler : ~IsRead(h) => toPage[h] = <<>>
    /\ \A h \in Handler : res[h] = "none" => via[h] = 0
    /\ \A r \in Request : req[r] = "none" => toPortal[r] = <<>> /\ member[r] # "in"

Numbered ==
    /\ UpTo(ShownEvents, written)
    /\ \A h \in Handler : UpTo(toPage[h], written)
    /\ \A r \in Request : UpTo(toPortal[r], written)

(* Events are in order in each place, and on the way that the page reads an event that is further
   is earlier. *)
InOrder ==
    /\ Increasing(ShownEvents)
    /\ \A h \in Handler : Increasing(toPage[h])
    /\ \A r \in Request : Increasing(toPortal[r])
    /\ \A h \in Handler : IsRead(h) =>
          /\ Precedes(ShownEvents, toPage[h])
          /\ via[h] # 0 => /\ Precedes(ShownEvents, toPortal[via[h]])
                           /\ Precedes(toPage[h], toPortal[via[h]])

StreamInv == Unused /\ Numbered /\ InOrder

LEMMA EventsOf ==
  ASSUME NEW s \in Seq([event : Event, run : Run])
  PROVE  [i \in 1 .. Len(s) |-> s[i].event] \in Seq(Event)
<1> DEFINE S == [event : Event, run : Run]
<1>1. (\A x \in S : x.event \in Event) /\ s \in Seq(S)
  OBVIOUS
<1> HIDE DEF S
<1>2. Len(s) \in Nat /\ \A i \in 1 .. Len(s) : s[i] \in S
  BY <1>1
<1> QED
  BY <1>1, <1>2

LEMMA ShownType == TypeOK => ShownEvents \in Seq(Event)
  BY EventsOf DEF ShownEvents, TypeOK

LEMMA OneReader ==
  ASSUME IInv, NEW g \in Run, at[g] # 0
  PROVE  g = run
<1>1. ~(g < run) /\ ~(g > run)
  BY DEF IInv, OnlyLatestReads
<1>2. g \in Nat /\ run \in Nat
  BY RunFacts DEF IInv, TypeOK, Run
<1> QED
  BY <1>1, <1>2

LEMMA OnlyRunReads ==
  ASSUME IInv, NEW h \in Handler
  PROVE  IsRead(h) <=> at[run] = h
<1>1. h # 0 /\ run \in Run
  BY RunFacts DEF Handler, IInv, TypeOK
<1> QED
  BY <1>1, OneReader DEF IsRead

(* After the page has hung up, it reads nothing. *)
LEMMA HungUp ==
  ASSUME IInv, Unused, HangUp(run), NEW h \in Handler
  PROVE  ~IsRead(h)' /\ toPage'[h] = <<>>
<1>1. \A g \in Run : at'[g] = 0
  BY OneReader DEF HangUp, IInv, TypeOK
<1>2. h # 0
  BY RunFacts DEF Handler
<1>3. ~IsRead(h)'
  BY <1>1, <1>2 DEF IsRead
<1>4. toPage'[h] = <<>>
  BY OnlyRunReads DEF HangUp, Unused
<1> QED
  BY <1>3, <1>4

LEMMA HangUpKeeps ==
  ASSUME IInv, StreamInv, HangUp(run),
         UNCHANGED <<portalVars, serviceVars, toPortal, written, shown>>
  PROVE  StreamInv'
<1>1. \A h \in Handler : toPage'[h] = <<>>
  BY HungUp DEF StreamInv
<1>2. \A h \in Handler : ~IsRead(h)'
  BY HungUp DEF StreamInv
<1>3. ShownEvents' = ShownEvents
  BY DEF ShownEvents
<1>4. Unused'
  BY <1>1 DEF StreamInv, Unused, portalVars, serviceVars
<1>5. Numbered'
  BY <1>1, <1>3, Empty DEF StreamInv, Numbered
<1>6. InOrder'
  BY <1>1, <1>2, <1>3, Empty DEF StreamInv, InOrder
<1> QED
  BY <1>4, <1>5, <1>6 DEF StreamInv

LEMMA ShowKeeps ==
  ASSUME IInv, StreamInv, NEW g \in Run, Show(g)
  PROVE  StreamInv' /\ ShownEvents' = Append(ShownEvents, Head(toPage[at[g]]))
<1> DEFINE h == at[g]
           s == toPage[h]
           t == ShownEvents
<1>1. /\ h \in Handler /\ g = run /\ IsRead(h) /\ s \in Seq(Event) /\ s # <<>>
      /\ toPage' = [toPage EXCEPT ![h] = Tail(s)]
      /\ toPage'[h] = Tail(s) /\ \A x \in Handler : x # h => toPage'[x] = toPage[x]
  BY OneReader DEF Show, IInv, TypeOK, IsRead
<1>2. t \in Seq(Event) /\ Head(s) \in Event
  BY <1>1, TakeFirst, ShownType DEF IInv
<1>3. ShownEvents' = Append(t, Head(s))
  <2> DEFINE e == [event |-> Head(s), run |-> asked[h]]
             S == [event : Event, run : Run]
             f == Head(s)
  <2>1. e.event = f
    OBVIOUS
  <2>2. shown \in Seq(S) /\ e \in S /\ shown' = Append(shown, e)
    BY <1>1, <1>2 DEF Show, IInv, TypeOK
  <2> HIDE DEF e, S, f
  <2>3. /\ Len(shown) \in Nat /\ Len(shown') = Len(shown) + 1 /\ shown'[Len(shown) + 1] = e
        /\ \A i \in 1 .. Len(shown) : shown'[i] = shown[i]
    BY <2>2
  <2>4. /\ ShownEvents' \in Seq(Event) /\ Len(ShownEvents') = Len(shown) + 1
        /\ ShownEvents'[Len(shown) + 1] = f
        /\ \A i \in 1 .. Len(shown) : ShownEvents'[i] = shown[i].event
    <3>1. TypeOK'
      BY <1>1, StepTypes DEF IInv, Next, Page
    <3>2. ShownEvents' = [i \in 1 .. Len(shown') |-> shown'[i].event]
      BY DEF ShownEvents
    <3>3. ShownEvents' \in Seq(Event)
      BY <3>1, <3>2, EventsOf DEF TypeOK
    <3> QED
      BY <2>1, <2>3, <3>2, <3>3
  <2>5. /\ Append(t, f) \in Seq(Event) /\ Len(Append(t, f)) = Len(shown) + 1
        /\ Append(t, f)[Len(shown) + 1] = f
        /\ \A i \in 1 .. Len(shown) : Append(t, f)[i] = shown[i].event
    <3>1. Len(t) = Len(shown) /\ \A i \in 1 .. Len(shown) : t[i] = shown[i].event
      BY <2>3 DEF ShownEvents
    <3>2. f \in Event
      BY <1>2 DEF f
    <3> HIDE DEF t
    <3> QED
      BY <1>2, <3>1, <3>2, PutLast
  <2> HIDE DEF t
  <2>6. \A i \in 1 .. Len(shown) + 1 : ShownEvents'[i] = Append(t, f)[i]
    BY <2>3, <2>4, <2>5
  <2>7. ShownEvents' = Append(t, f)
    BY <2>4, <2>5, <2>6, SeqEqual
  <2> QED
    BY <2>7 DEF f
<1>4. /\ Increasing(s) /\ Increasing(t) /\ Precedes(t, s)
      /\ UpTo(t, written) /\ UpTo(s, written)
  BY <1>1 DEF StreamInv, InOrder, Numbered
<1>5. /\ UNCHANGED <<at, via, res, req, member, toPortal, written>>
      /\ \A x \in Handler : (IsRead(x)' <=> IsRead(x)) /\ (IsRead(x) => x = h)
  BY <1>1, OnlyRunReads DEF Show, pageVars, portalVars, serviceVars, IsRead
<1> HIDE DEF h, s, t
<1>6. Unused'
  BY <1>1, <1>5 DEF StreamInv, Unused
<1>7. Numbered'
  <2>1. UpTo(ShownEvents', written) /\ UpTo(Tail(s), written)
    BY <1>1, <1>2, <1>3, <1>4, MoveKeeps, TailKeeps
  <2> QED
    BY <1>1, <1>5, <2>1 DEF StreamInv, Numbered
<1>8. InOrder'
  <2>1. Increasing(ShownEvents') /\ Precedes(ShownEvents', Tail(s)) /\ Increasing(Tail(s))
    BY <1>1, <1>2, <1>3, <1>4, MoveKeeps, TailKeeps
  <2>2. ASSUME via[h] # 0
        PROVE  Precedes(ShownEvents', toPortal[via[h]]) /\ Precedes(Tail(s), toPortal[via[h]])
    <3>1. Precedes(t, toPortal[via[h]]) /\ Precedes(s, toPortal[via[h]])
      BY <1>1, <2>2 DEF StreamInv, InOrder, t, s
    <3> QED
      BY <1>1, <1>2, <1>3, <1>4, <3>1, MoveKeeps, TailKeeps
  <2> QED
    BY <1>1, <1>5, <2>1, <2>2 DEF StreamInv, InOrder
<1> QED
  BY <1>3, <1>6, <1>7, <1>8 DEF StreamInv, h, s, t

LEMMA CopyKeeps ==
  ASSUME IInv, StreamInv, NEW h \in Handler, Copy(h)
  PROVE  StreamInv'
<1> DEFINE r == via[h]
           s == toPortal[r]
           t == toPage[h]
           b == ShownEvents
<1>1. /\ r \in Request /\ r # 0 /\ s \in Seq(Event) /\ s # <<>> /\ t \in Seq(Event)
      /\ toPortal' = [toPortal EXCEPT ![r] = Tail(s)]
      /\ toPortal'[r] = Tail(s) /\ \A x \in Request : x # r => toPortal'[x] = toPortal[x]
  BY DEF Copy, IInv, TypeOK
<1>2. /\ UNCHANGED <<at, via, res, req, member, written>> /\ ShownEvents' = b
      /\ \A x \in Handler : IsRead(x)' <=> IsRead(x)
  BY DEF Copy, pageVars, portalVars, serviceVars, IsRead, ShownEvents
<1>3. /\ \/ IsRead(h) /\ toPage' = [toPage EXCEPT ![h] = Append(t, Head(s))]
         \/ ~IsRead(h) /\ toPage' = toPage
      /\ toPage \in [Handler -> Seq(Event)]
  BY DEF Copy, IInv, TypeOK
<1>4. Increasing(s) /\ Increasing(t) /\ UpTo(s, written) /\ UpTo(t, written)
  BY <1>1 DEF StreamInv, InOrder, Numbered
<1>5. IsRead(h) => Precedes(b, t) /\ Precedes(b, s) /\ Precedes(t, s)
  BY <1>1 DEF StreamInv, InOrder
<1>6. \A x \in Handler : IsRead(x) /\ IsRead(h) => x = h
  BY OnlyRunReads
<1> HIDE DEF r, s, t, b
<1>7. Unused'
  <2>1. req[r] # "none"
    BY <1>1 DEF StreamInv, Unused, s
  <2>2. \A x \in Handler : ~IsRead(x)' => toPage'[x] = <<>>
    BY <1>2, <1>3 DEF StreamInv, Unused
  <2> QED
    BY <1>1, <1>2, <2>1, <2>2 DEF StreamInv, Unused
<1>8. Numbered'
  <2>1. UpTo(Tail(s), written)
    BY <1>1, <1>4, TailKeeps
  <2>2. IsRead(h) => UpTo(Append(t, Head(s)), written)
    BY <1>1, <1>4, <1>5, MoveKeeps
  <2>3. \A x \in Handler : UpTo(toPage'[x], written)
    BY <1>3, <2>2 DEF StreamInv, Numbered
  <2> QED
    BY <1>1, <1>2, <2>1, <2>3 DEF StreamInv, Numbered, b
<1>9. InOrder'
  <2>1. Increasing(Tail(s))
    BY <1>1, <1>4, TailKeeps
  <2>2. \A x \in Request : Increasing(toPortal'[x])
    BY <1>1, <2>1 DEF StreamInv, InOrder
  <2>3. IsRead(h) => /\ Increasing(Append(t, Head(s)))
                     /\ Precedes(b, Append(t, Head(s)))
                     /\ Precedes(b, Tail(s)) /\ Precedes(Append(t, Head(s)), Tail(s))
    BY <1>1, <1>4, <1>5, MoveKeeps, TailKeeps
  <2>4. \A x \in Handler : Increasing(toPage'[x])
    BY <1>3, <2>3 DEF StreamInv, InOrder
  <2>5. ASSUME NEW x \in Handler, IsRead(x)
        PROVE  /\ Precedes(b, toPage'[x])
               /\ via[x] # 0 => /\ Precedes(b, toPortal'[via[x]])
                                /\ Precedes(toPage'[x], toPortal'[via[x]])
    <3>1. CASE IsRead(h)
      <4>1. x = h /\ toPage'[x] = Append(t, Head(s)) /\ toPortal'[via[x]] = Tail(s)
        BY <1>1, <1>3, <1>6, <2>5, <3>1 DEF r
      <4> QED
        BY <2>3, <3>1, <4>1
    <3>2. CASE ~IsRead(h)
      <4>1. /\ toPage'[x] = toPage[x] /\ Precedes(b, toPage[x])
            /\ via[x] # 0 => /\ Precedes(b, toPortal[via[x]])
                             /\ Precedes(toPage[x], toPortal[via[x]])
        BY <1>3, <2>5, <3>2 DEF StreamInv, InOrder, b
      <4>2. CASE via[x] = r
        BY <1>1, <4>1, <4>2, TailKeeps DEF s
      <4>3. CASE via[x] # r /\ via[x] # 0
        <5>1. via[x] \in Request
          BY <4>3 DEF IInv, TypeOK
        <5> QED
          BY <1>1, <4>1, <4>3, <5>1
      <4>4. CASE via[x] = 0
        BY <4>1, <4>4
      <4> QED
        BY <4>2, <4>3, <4>4
    <3> QED
      BY <3>1, <3>2
  <2> QED
    BY <1>2, <2>2, <2>4, <2>5 DEF StreamInv, InOrder, b
<1> QED
  BY <1>7, <1>8, <1>9 DEF StreamInv

LEMMA HangUpRequestKeeps ==
  ASSUME IInv, StreamInv, NEW h \in Handler, HangUpRequest(h),
         UNCHANGED <<at, by, asked, toPage, written, shown>>,
         res' = res \/ res' = [res EXCEPT ![h] = "closed"]
  PROVE  StreamInv'
<1>1. /\ via \in [Handler -> Request \cup {0}] /\ via' = [via EXCEPT ![h] = 0]
      /\ \A r \in Request : toPortal'[r] = toPortal[r] \/ toPortal'[r] = <<>>
  BY DEF HangUpRequest, IInv, TypeOK
<1>2. /\ \A x \in Handler : IsRead(x)' <=> IsRead(x)
      /\ ShownEvents' = ShownEvents
  BY DEF IsRead, ShownEvents
<1>3. \A r \in Request : (req'[r] = "none" <=> req[r] = "none") /\ member'[r] = member[r]
  BY DEF HangUpRequest, CR!Cut, serviceVars, Open, IInv, TypeOK
<1>4. \A x \in Handler : res'[x] = "none" => (res[x] = "none" /\ x # h) \/ via'[x] = 0
  BY <1>1 DEF IInv, TypeOK
<1>5. Unused'
  BY <1>1, <1>2, <1>3, <1>4 DEF StreamInv, Unused
<1>6. Numbered'
  BY <1>1, <1>2, Empty DEF StreamInv, Numbered
<1>7. InOrder'
  <2>1. ASSUME NEW x \in Handler, IsRead(x), via'[x] # 0
        PROVE  /\ Precedes(ShownEvents, toPortal'[via'[x]])
               /\ Precedes(toPage[x], toPortal'[via'[x]])
    <3>1. via'[x] = via[x] /\ via[x] \in Request
      BY <1>1, <2>1
    <3> QED
      BY <1>1, <2>1, <3>1, Empty DEF StreamInv, InOrder
  <2> QED
    BY <1>1, <1>2, <2>1, Empty DEF StreamInv, InOrder
<1> QED
  BY <1>5, <1>6, <1>7 DEF StreamInv

LEMMA WriteOneKeeps ==
  ASSUME IInv, StreamInv, NEW r \in Request, Write(r)
  PROVE  StreamInv'
<1>1. /\ written \in Nat /\ written' = written + 1 /\ written + 1 \in Event
      /\ UNCHANGED <<at, via, res, req, member, toPage, shown>>
      /\ toPortal' = toPortal \/ toPortal' = [toPortal EXCEPT ![r] = Append(@, written + 1)]
      /\ toPortal \in [Request -> Seq(Event)] /\ toPage \in [Handler -> Seq(Event)]
  BY RunFacts DEF Write, IInv, TypeOK, Event, pageVars, portalVars, serviceVars
<1>2. req[r] # "none"
  BY DEF Write, StreamInv, Unused
<1>3. /\ \A x \in Handler : IsRead(x)' <=> IsRead(x)
      /\ ShownEvents' = ShownEvents /\ ShownEvents \in Seq(Event)
  BY <1>1, ShownType DEF IsRead, ShownEvents, IInv
<1> DEFINE s == toPortal[r]
           z == Append(s, written + 1)
<1>4. s \in Seq(Event) /\ UpTo(s, written) /\ Increasing(s)
  BY <1>1 DEF StreamInv, Numbered, InOrder
<1>5. /\ Increasing(z) /\ UpTo(z, written + 1)
      /\ \A t \in Seq(Event) : UpTo(t, written) /\ Precedes(t, s) => Precedes(t, z)
  BY <1>1, <1>4, WriteKeeps
<1>6. \A x \in Request : toPortal'[x] = toPortal[x] \/ (x = r /\ toPortal'[x] = z)
  BY <1>1
<1> HIDE DEF s, z
<1>7. Unused'
  BY <1>1, <1>2, <1>3, <1>6 DEF StreamInv, Unused
<1>8. Numbered'
  <2>1. ASSUME NEW u \in Seq(Event), UpTo(u, written) PROVE UpTo(u, written + 1)
    <3>1. \A i \in 1 .. Len(u) : u[i] \in Nat /\ u[i] <= written
      BY <2>1, Numbers DEF UpTo
    <3> QED
      BY <1>1, <3>1 DEF UpTo
  <2>2. UpTo(ShownEvents, written + 1)
    BY <1>3, <2>1 DEF StreamInv, Numbered
  <2>3. \A h \in Handler : UpTo(toPage[h], written + 1)
    BY <1>1, <2>1 DEF StreamInv, Numbered
  <2>4. \A x \in Request : UpTo(toPortal'[x], written + 1)
    BY <1>1, <1>5, <1>6, <2>1 DEF StreamInv, Numbered
  <2> QED
    BY <1>1, <1>3, <2>2, <2>3, <2>4 DEF Numbered
<1>9. InOrder'
  <2>1. ASSUME NEW x \in Handler, IsRead(x), via[x] # 0
        PROVE  /\ Precedes(ShownEvents, toPortal'[via[x]])
               /\ Precedes(toPage[x], toPortal'[via[x]])
    <3>1. /\ Precedes(ShownEvents, toPortal[via[x]]) /\ UpTo(ShownEvents, written)
          /\ Precedes(toPage[x], toPortal[via[x]]) /\ UpTo(toPage[x], written)
      BY <2>1 DEF StreamInv, InOrder, Numbered
    <3>2. via[x] \in Request /\ toPage[x] \in Seq(Event)
      BY <1>1, <2>1 DEF IInv, TypeOK
    <3> QED
      BY <1>3, <1>5, <1>6, <3>1, <3>2 DEF s
  <2> QED
    BY <1>1, <1>3, <1>5, <1>6, <2>1 DEF StreamInv, InOrder
<1> QED
  BY <1>7, <1>8, <1>9 DEF StreamInv

LEMMA AcceptKeeps ==
  ASSUME IInv, StreamInv, NEW g \in Run, NEW h \in Fresh(res), Accept(g, h)
  PROVE  StreamInv'
<1>1. /\ h \in Handler /\ h # 0 /\ res[h] = "none" /\ at[g] = 0
      /\ at' = [at EXCEPT ![g] = h] /\ at \in [Run -> Handler \cup {0}]
      /\ res' = [res EXCEPT ![h] = "live"] /\ res \in [Handler -> {"none", "live", "closed"}]
      /\ UNCHANGED <<via, req, member, toPortal, toPage, written, shown>>
  BY RunFacts DEF Accept, Fresh, IInv, TypeOK, Handler, serviceVars
<1>2. ~IsRead(h)
  BY <1>1 DEF IsRead, IInv, OnlyLatestReads
<1>3. toPage[h] = <<>> /\ via[h] = 0
  BY <1>1, <1>2 DEF StreamInv, Unused
<1>4. /\ \A x \in Handler : IsRead(x)' <=> IsRead(x) \/ x = h
      /\ ShownEvents' = ShownEvents
  <2>1. ASSUME NEW x \in Handler PROVE IsRead(x)' <=> IsRead(x) \/ x = h
    <3>1. x # 0
      BY RunFacts DEF Handler
    <3> QED
      BY <1>1, <3>1 DEF IsRead
  <2> QED
    BY <1>1, <2>1 DEF ShownEvents
<1>5. Unused' /\ Numbered'
  BY <1>1, <1>4 DEF StreamInv, Unused, Numbered
<1>6. InOrder'
  BY <1>1, <1>3, <1>4, Empty DEF StreamInv, InOrder
<1> QED
  BY <1>5, <1>6 DEF StreamInv

LEMMA ConnectKeeps ==
  ASSUME IInv, StreamInv, NEW h \in Handler, NEW r \in Fresh(req), UpConnect(h, r)
  PROVE  StreamInv'
<1>1. /\ r \in Request /\ req[r] = "none" /\ req' = [req EXCEPT ![r] = "open"]
      /\ via' = [via EXCEPT ![h] = r] /\ res[h] = "live"
      /\ via \in [Handler -> Request \cup {0}] /\ req \in [Request -> CR!Active \cup {"none", "ended"}]
      /\ UNCHANGED <<at, res, member, toPortal, toPage, written, shown>>
  BY DEF UpConnect, CR!Begin, Fresh, IInv, TypeOK, pageVars
<1>2. toPortal[r] = <<>>
  BY <1>1 DEF StreamInv, Unused
<1>3. /\ \A x \in Handler : IsRead(x)' <=> IsRead(x)
      /\ ShownEvents' = ShownEvents
  BY <1>1 DEF IsRead, ShownEvents
<1>4. Unused' /\ Numbered'
  BY <1>1, <1>3 DEF StreamInv, Unused, Numbered
<1>5. InOrder'
  <2>1. \A x \in Handler : via'[x] = via[x] \/ via'[x] = r
    BY <1>1
  <2> QED
    BY <1>1, <1>2, <1>3, <2>1, Empty DEF StreamInv, InOrder
<1> QED
  BY <1>4, <1>5 DEF StreamInv

LEMMA StepStream == IInv /\ StreamInv /\ [Next]_vars => StreamInv'
<1> SUFFICES ASSUME IInv, StreamInv, [Next]_vars PROVE StreamInv'
  OBVIOUS
<1>1. ASSUME UNCHANGED <<at, via, res, req, member, toPortal, toPage, written, shown>>
      PROVE  StreamInv'
  BY <1>1 DEF StreamInv, Unused, Numbered, InOrder, IsRead, ShownEvents
<1>2. CASE UNCHANGED vars
  BY <1>1, <1>2 DEF vars, pageVars, portalVars, serviceVars
<1>3. ASSUME NEW t \in {"none", "some"}, SelectTopics(t) PROVE StreamInv'
  BY <1>3, HangUpKeeps DEF SelectTopics
<1>4. CASE LeavePage
  BY <1>4, HangUpKeeps DEF LeavePage
<1>5. ASSUME NEW g \in Run, Opened(g) \/ Refuse(g) PROVE StreamInv'
  BY <1>1, <1>5 DEF Opened, Refuse, portalVars, serviceVars
<1>6. ASSUME NEW g \in Run, Show(g) PROVE StreamInv'
  BY <1>6, ShowKeeps
<1>7. ASSUME NEW g \in Run, Lose(g) PROVE StreamInv'
  BY <1>7, OneReader, HangUpKeeps DEF Lose
<1>8. ASSUME NEW g \in Run, NEW h \in Fresh(res), Accept(g, h) PROVE StreamInv'
  BY <1>8, AcceptKeeps
<1>9. ASSUME NEW h \in Handler, NEW r \in Fresh(req), UpConnect(h, r) PROVE StreamInv'
  BY <1>9, ConnectKeeps
<1>10. ASSUME NEW h \in Handler, Copy(h) PROVE StreamInv'
  BY <1>10, CopyKeeps
<1>11. ASSUME NEW h \in Handler, UpEnd(h) PROVE StreamInv'
  <2>1. /\ via' = [via EXCEPT ![h] = 0] /\ via \in [Handler -> Request \cup {0}]
        /\ UNCHANGED <<at, res, req, member, toPortal, toPage, written, shown>>
    BY <1>11 DEF UpEnd, IInv, TypeOK, pageVars, serviceVars
  <2>2. \A x \in Handler : via'[x] = via[x] \/ via'[x] = 0
    BY <2>1
  <2> QED
    BY <2>1, <2>2 DEF StreamInv, Unused, Numbered, InOrder, IsRead, ShownEvents
<1>12. ASSUME NEW h \in Handler, UpLose(h) \/ CloseRes(h) PROVE StreamInv'
  BY <1>12, HangUpRequestKeeps DEF UpLose, CloseRes, pageVars
<1>13. ASSUME NEW r \in Request, Write(r) PROVE StreamInv'
  BY <1>13, WriteOneKeeps
<1>14. ASSUME NEW r \in Request, Serve(r) PROVE StreamInv'
  <2>1. \A x \in Request : req'[x] = "none" => req[x] = "none" /\ member'[x] = member[x]
    BY <1>14 DEF Serve, CR!Join, CR!Leave, CR!Cut, CR!End, CR!Active, IInv, TypeOK, StreamInv, Unused
  <2>2. UNCHANGED <<at, via, res, toPortal, toPage, written, shown>>
    BY <1>14 DEF Serve, pageVars, portalVars
  <2>3. Unused'
    BY <2>1, <2>2 DEF StreamInv, Unused, IsRead
  <2> QED
    BY <2>2, <2>3 DEF StreamInv, Numbered, InOrder, IsRead, ShownEvents
<1> QED
  BY <1>2, <1>3, <1>4, <1>5, <1>6, <1>7, <1>8, <1>9, <1>10, <1>11, <1>12, <1>13, <1>14
     DEF Next, Page, Portal

LEMMA AlwaysStream == Safety => [](IInv /\ StreamInv)
<1>1. ASSUME Init PROVE StreamInv
  <2>1. shown = <<>> /\ ShownEvents = <<>>
    BY <1>1 DEF Init, ShownEvents
  <2>2. /\ \A h \in Handler : toPage[h] = <<>> /\ via[h] = 0
        /\ \A r \in Request : toPortal[r] = <<>> /\ member[r] # "in"
    BY <1>1 DEF Init, CR!Init
  <2> QED
    BY <2>1, <2>2, Empty DEF StreamInv, Unused, Numbered, InOrder
<1> QED
  BY <1>1, StepTypes, StepLatest, InitIInv, StepStream, PTL DEF Safety, IInv

(* Across any number of reconnects on either side and of changes of topics, the page shows no event
   twice and none after a later one. *)
THEOREM ShownOnceInOrderAlways == Spec => []ShownOnceInOrder
<1>1. IInv /\ StreamInv => ShownOnceInOrder
  <2> SUFFICES ASSUME IInv, StreamInv, NEW i \in DOMAIN shown, NEW j \in DOMAIN shown, i < j
               PROVE  shown[i].event < shown[j].event
    BY DEF ShownOnceInOrder
  <2>1. Len(shown) \in Nat /\ DOMAIN shown = 1 .. Len(shown)
    <3> DEFINE S == [event : Event, run : Run]
    <3>1. shown \in Seq(S)
      BY DEF IInv, TypeOK
    <3> HIDE DEF S
    <3> QED
      BY <3>1
  <2>2. /\ ShownEvents = [k \in 1 .. Len(shown) |-> shown[k].event]
        /\ Len(ShownEvents) = Len(shown)
    BY <2>1 DEF ShownEvents
  <2>3. ShownEvents[i] < ShownEvents[j]
    BY <2>1, <2>2 DEF StreamInv, InOrder, Increasing
  <2> QED
    BY <2>1, <2>2, <2>3
<1> QED
  BY <1>1, AlwaysStream, PTL DEF Spec

-----------------------------------------------------------------------------
(* Where an event is once it has been written. *)

LEMMA TailElements ==
  ASSUME NEW s \in Seq(Event), s # <<>>, NEW e \in ToSet(s)
  PROVE  e = Head(s) \/ e \in ToSet(Tail(s))
<1>1. PICK i \in DOMAIN s : s[i] = e
  BY DEF ToSet
<1>2. DOMAIN s = 1 .. Len(s) /\ i \in 1 .. Len(s)
  OBVIOUS
<1>3. CASE i = 1
  BY <1>1, <1>3, TakeFirst
<1>4. CASE i # 1
  <2>1. i - 1 \in 1 .. Len(Tail(s)) /\ (i - 1) + 1 = i
    BY <1>2, <1>4, TakeFirst
  <2>2. Tail(s)[i - 1] = e /\ DOMAIN Tail(s) = 1 .. Len(Tail(s))
    BY <1>1, <2>1, TakeFirst
  <2> QED
    BY <2>1, <2>2 DEF ToSet
<1> QED
  BY <1>3, <1>4

LEMMA AppendSet ==
  ASSUME NEW s \in Seq(Event), NEW e \in Event
  PROVE  ToSet(s) \cup {e} \subseteq ToSet(Append(s, e))
<1> DEFINE z == Append(s, e)
<1>1. /\ DOMAIN s = 1 .. Len(s) /\ DOMAIN z = 1 .. Len(s) + 1 /\ Len(s) \in Nat
      /\ z[Len(s) + 1] = e /\ \A i \in 1 .. Len(s) : z[i] = s[i]
  BY PutLast
<1> HIDE DEF z
<1>2. e \in ToSet(z)
  BY <1>1 DEF ToSet
<1>3. ASSUME NEW x \in ToSet(s) PROVE x \in ToSet(z)
  BY <1>1, <1>3 DEF ToSet
<1> QED
  BY <1>2, <1>3 DEF z

(* Event e is on a connection whose reader will come to it. *)
OnItsWay(e) ==
    \/ \E h \in Handler : IsRead(h) /\ e \in ToSet(toPage[h])
    \/ \E h \in Handler : via[h] # 0 /\ e \in ToSet(toPortal[via[h]])

Accounted(e) == e \in lost \/ e \in ToSet(ShownEvents) \/ OnItsWay(e)

(* No event vanishes on the way from the consumer to the page. *)
NothingVanishes == \A e \in 1 .. written : Accounted(e)

RequestsHaveHandlers == \A r \in Request : req[r] # "none" => by[r] \in Handler

LEMMA StepHandlers == IInv /\ RequestsHaveHandlers /\ [Next]_vars => RequestsHaveHandlers'
<1> SUFFICES ASSUME IInv, RequestsHaveHandlers, [Next]_vars PROVE RequestsHaveHandlers'
  OBVIOUS
<1>1. ASSUME NEW h \in Handler, NEW r \in Fresh(req), UpConnect(h, r) PROVE RequestsHaveHandlers'
  <2>1. /\ by' = [by EXCEPT ![r] = h] /\ by \in [Request -> Handler \cup {0}]
        /\ req' = [req EXCEPT ![r] = "open"]
        /\ req \in [Request -> CR!Active \cup {"none", "ended"}]
    BY <1>1 DEF UpConnect, CR!Begin, IInv, TypeOK
  <2>2. ASSUME NEW x \in Request, x # r PROVE by'[x] = by[x] /\ req'[x] = req[x]
    BY <2>1, <2>2
  <2>3. r \in Request => by'[r] = h
    BY <2>1
  <2>4. ASSUME NEW x \in Request, req'[x] # "none" PROVE by'[x] \in Handler
    BY <2>2, <2>3, <2>4 DEF RequestsHaveHandlers
  <2> QED
    BY <2>4 DEF RequestsHaveHandlers
<1>2. ASSUME NEW h \in Handler, UpLose(h) \/ CloseRes(h) PROVE RequestsHaveHandlers'
  <2>1. by' = by /\ (req' = req \/ (via[h] \in Open /\ CR!Cut(via[h])))
    BY <1>2 DEF UpLose, CloseRes, HangUpRequest, serviceVars
  <2>2. req \in [Request -> CR!Active \cup {"none", "ended"}]
    BY DEF IInv, TypeOK
  <2>3. ASSUME NEW x \in Request, req'[x] # "none" PROVE req[x] # "none"
    BY <2>1, <2>2, <2>3 DEF CR!Cut, Open
  <2>4. \A x \in Request : req'[x] # "none" => by'[x] \in Handler
    BY <2>1, <2>3 DEF RequestsHaveHandlers
  <2> QED
    BY <2>4 DEF RequestsHaveHandlers
<1>3. ASSUME NEW r \in Request, Serve(r) PROVE RequestsHaveHandlers'
  <2>1. by' = by /\ (CR!Join(r) \/ CR!Leave(r) \/ CR!Cut(r) \/ CR!End(r))
    BY <1>3 DEF Serve, portalVars
  <2>2. req \in [Request -> CR!Active \cup {"none", "ended"}]
    BY DEF IInv, TypeOK
  <2>3. ASSUME NEW x \in Request, req'[x] # "none" PROVE req[x] # "none"
    BY <2>1, <2>2, <2>3 DEF CR!Join, CR!Leave, CR!Cut, CR!End, CR!Active
  <2>4. \A x \in Request : req'[x] # "none" => by'[x] \in Handler
    BY <2>1, <2>3 DEF RequestsHaveHandlers
  <2> QED
    BY <2>4 DEF RequestsHaveHandlers
<1>4. CASE UNCHANGED <<by, req>>
  BY <1>4 DEF RequestsHaveHandlers
<1>5. ASSUME NEW g \in Run, NEW h \in Fresh(res), Accept(g, h) PROVE UNCHANGED <<by, req>>
  BY <1>5 DEF Accept, serviceVars
<1>6. CASE UNCHANGED vars \/ \E t \in {"none", "some"} : SelectTopics(t)
  BY <1>4, <1>6 DEF vars, portalVars, serviceVars, SelectTopics
<1>7. CASE LeavePage \/ \E g \in Run : Opened(g) \/ Show(g) \/ Lose(g) \/ Refuse(g)
  BY <1>4, <1>7 DEF portalVars, serviceVars, LeavePage, Opened, Show, Lose, Refuse
<1>8. ASSUME NEW h \in Handler, Copy(h) \/ UpEnd(h) PROVE UNCHANGED <<by, req>>
  BY <1>8 DEF portalVars, serviceVars, Copy, UpEnd
<1>9. ASSUME NEW r \in Request, Write(r) PROVE UNCHANGED <<by, req>>
  BY <1>9 DEF portalVars, serviceVars, Write
<1> QED
  BY <1>1, <1>2, <1>3, <1>4, <1>5, <1>6, <1>7, <1>8, <1>9 DEF Next, Page, Portal

LEMMA StepVanishes ==
  IInv /\ StreamInv /\ RequestsHaveHandlers /\ NothingVanishes /\ [Next]_vars => NothingVanishes'
<1> SUFFICES ASSUME IInv, StreamInv, RequestsHaveHandlers, NothingVanishes, [Next]_vars
             PROVE  NothingVanishes'
  OBVIOUS
<1>0. \A e \in 1 .. written : e \in lost \/ e \in ToSet(ShownEvents) \/ OnItsWay(e)
  BY DEF NothingVanishes, Accounted
<1>1. ASSUME UNCHANGED <<at, via, toPortal, toPage, written, shown, lost>> PROVE NothingVanishes'
  BY <1>0, <1>1 DEF NothingVanishes, Accounted, OnItsWay, IsRead, ShownEvents
<1>2. CASE UNCHANGED vars
  BY <1>1, <1>2 DEF vars, pageVars, portalVars
<1>3. ASSUME HangUp(run), UNCHANGED <<via, toPortal, written, shown>> PROVE NothingVanishes'
  <2>1. ASSUME NEW e \in 1 .. written, OnItsWay(e) PROVE e \in lost' \/ OnItsWay(e)'
    <3>1. CASE \E h \in Handler : IsRead(h) /\ e \in ToSet(toPage[h])
      <4>1. at[run] \in Handler /\ e \in ToSet(toPage[at[run]])
        BY <3>1, OnlyRunReads
      <4> QED
        BY <1>3, <4>1 DEF HangUp
    <3>2. CASE \E h \in Handler : via[h] # 0 /\ e \in ToSet(toPortal[via[h]])
      BY <1>3, <3>2 DEF OnItsWay
    <3> QED
      BY <2>1, <3>1, <3>2 DEF OnItsWay
  <2>2. lost \subseteq lost' /\ ShownEvents' = ShownEvents
    BY <1>3 DEF HangUp, ShownEvents
  <2> QED
    BY <1>0, <1>3, <2>1, <2>2 DEF NothingVanishes, Accounted
<1>4. ASSUME NEW t \in {"none", "some"}, SelectTopics(t) PROVE NothingVanishes'
  BY <1>3, <1>4 DEF SelectTopics, portalVars
<1>5. CASE LeavePage
  BY <1>3, <1>5 DEF LeavePage, portalVars
<1>6. ASSUME NEW g \in Run, Lose(g) PROVE NothingVanishes'
  BY <1>3, <1>6, OneReader DEF Lose, portalVars
<1>7. ASSUME NEW g \in Run, Opened(g) \/ Refuse(g) PROVE NothingVanishes'
  BY <1>1, <1>7 DEF Opened, Refuse, portalVars
<1>8. ASSUME NEW g \in Run, Show(g) PROVE NothingVanishes'
  <2> DEFINE h == at[g]
             s == toPage[h]
  <2>1. /\ h \in Handler /\ s \in Seq(Event) /\ s # <<>>
        /\ toPage' = [toPage EXCEPT ![h] = Tail(s)] /\ toPage \in [Handler -> Seq(Event)]
        /\ UNCHANGED <<at, via, toPortal, written, lost>>
    BY <1>8 DEF Show, IInv, TypeOK, pageVars, portalVars
  <2>2. ShownEvents' = Append(ShownEvents, Head(s)) /\ ShownEvents \in Seq(Event)
    BY <1>8, ShowKeeps, ShownType DEF IInv
  <2>3. ToSet(ShownEvents) \cup {Head(s)} \subseteq ToSet(ShownEvents')
    BY <2>1, <2>2, TakeFirst, AppendSet
  <2> HIDE DEF h, s
  <2>4. ASSUME NEW e \in 1 .. written, NEW x \in Handler, IsRead(x), e \in ToSet(toPage[x])
        PROVE  e \in ToSet(ShownEvents') \/ (IsRead(x)' /\ e \in ToSet(toPage'[x]))
    <3>1. IsRead(x)'
      BY <2>1, <2>4 DEF IsRead
    <3>2. CASE x = h
      BY <2>1, <2>3, <2>4, <3>1, <3>2, TailElements DEF s
    <3>3. CASE x # h
      BY <2>1, <2>4, <3>1, <3>3
    <3> QED
      BY <3>2, <3>3
  <2> QED
    BY <1>0, <2>1, <2>3, <2>4 DEF NothingVanishes, Accounted, OnItsWay
<1>9. ASSUME NEW g \in Run, NEW h \in Fresh(res), Accept(g, h) PROVE NothingVanishes'
  <2>1. at[g] = 0 /\ at' = [at EXCEPT ![g] = h] /\ at \in [Run -> Handler \cup {0}]
        /\ UNCHANGED <<via, toPortal, toPage, written, shown, lost>>
    BY <1>9 DEF Accept, IInv, TypeOK
  <2>2. \A x \in Handler : x # 0
    BY RunFacts DEF Handler
  <2>3. \A x \in Handler : IsRead(x) => IsRead(x)'
    BY <2>1, <2>2 DEF IsRead
  <2> QED
    BY <1>0, <2>1, <2>3 DEF NothingVanishes, Accounted, OnItsWay, ShownEvents
<1>10. ASSUME NEW h \in Handler, NEW r \in Fresh(req), UpConnect(h, r) PROVE NothingVanishes'
  <2>1. via[h] = 0 /\ via' = [via EXCEPT ![h] = r] /\ via \in [Handler -> Request \cup {0}]
        /\ UNCHANGED <<at, toPortal, toPage, written, shown, lost>>
    BY <1>10 DEF UpConnect, IInv, TypeOK, pageVars
  <2> QED
    BY <1>0, <2>1 DEF NothingVanishes, Accounted, OnItsWay, ShownEvents, IsRead
<1>11. ASSUME NEW h \in Handler, Copy(h) PROVE NothingVanishes'
  <2> DEFINE r == via[h]
             s == toPortal[r]
  <2>1. /\ r \in Request /\ s \in Seq(Event) /\ s # <<>>
        /\ toPortal' = [toPortal EXCEPT ![r] = Tail(s)] /\ toPortal \in [Request -> Seq(Event)]
        /\ UNCHANGED <<at, via, written, shown>> /\ ShownEvents' = ShownEvents
        /\ toPage \in [Handler -> Seq(Event)] /\ via \in [Handler -> Request \cup {0}]
    BY <1>11 DEF Copy, IInv, TypeOK, pageVars, portalVars, ShownEvents
  <2>2. \A x \in Handler : IsRead(x)' <=> IsRead(x)
    BY <2>1 DEF IsRead
  <2>3. /\ \/ IsRead(h) /\ toPage' = [toPage EXCEPT ![h] = Append(toPage[h], Head(s))] /\ lost' = lost
           \/ lost' = lost \cup {Head(s)} /\ toPage' = toPage
    BY <1>11, <2>1 DEF Copy
  <2>4. ToSet(toPage[h]) \cup {Head(s)} \subseteq ToSet(Append(toPage[h], Head(s)))
    BY <2>1, TakeFirst, AppendSet
  <2> HIDE DEF r, s
  <2>5. Head(s) \in lost' \/ (IsRead(h)' /\ Head(s) \in ToSet(toPage'[h]))
    BY <2>1, <2>2, <2>3, <2>4
  <2>6. ASSUME NEW e, NEW x \in Handler, IsRead(x), e \in ToSet(toPage[x])
        PROVE  IsRead(x)' /\ e \in ToSet(toPage'[x])
    BY <2>1, <2>2, <2>3, <2>4, <2>6
  <2>7. ASSUME NEW e, NEW x \in Handler, via[x] # 0, e \in ToSet(toPortal[via[x]])
        PROVE  e = Head(s) \/ e \in ToSet(toPortal'[via[x]])
    <3>1. CASE via[x] = r
      BY <2>1, <2>7, <3>1, TailElements DEF s
    <3>2. CASE via[x] # r
      BY <2>1, <2>7, <3>2
    <3> QED
      BY <3>1, <3>2
  <2> QED
    BY <1>0, <2>1, <2>3, <2>5, <2>6, <2>7 DEF NothingVanishes, Accounted, OnItsWay
<1>12. ASSUME NEW h \in Handler, UpEnd(h) PROVE NothingVanishes'
  <2>1. via' = [via EXCEPT ![h] = 0] /\ via \in [Handler -> Request \cup {0}]
        /\ toPortal[via[h]] = <<>>
        /\ UNCHANGED <<at, toPortal, toPage, written, shown, lost>>
    BY <1>12 DEF UpEnd, IInv, TypeOK, pageVars
  <2>2. ToSet(<<>>) = {}
    BY DEF ToSet
  <2> QED
    BY <1>0, <2>1, <2>2 DEF NothingVanishes, Accounted, OnItsWay, ShownEvents, IsRead
<1>13. ASSUME NEW h \in Handler, UpLose(h) \/ CloseRes(h) PROVE NothingVanishes'
  <2>1. /\ via' = [via EXCEPT ![h] = 0] /\ via \in [Handler -> Request \cup {0}]
        /\ toPortal' = [r \in Request |-> IF r = via[h] THEN <<>> ELSE toPortal[r]]
        /\ lost' = lost \cup UNION {ToSet(toPortal[r]) : r \in {via[h]} \cap Request}
        /\ UNCHANGED <<at, toPage, written, shown>>
    BY <1>13 DEF UpLose, CloseRes, HangUpRequest, IInv, TypeOK, pageVars
  <2>2. ASSUME NEW e, NEW x \in Handler, via[x] # 0, e \in ToSet(toPortal[via[x]])
        PROVE  e \in lost' \/ (via'[x] # 0 /\ e \in ToSet(toPortal'[via'[x]]))
    <3>1. via[x] \in Request
      BY <2>1, <2>2
    <3>2. CASE via[x] = via[h]
      BY <2>1, <2>2, <3>1, <3>2
    <3>3. CASE via[x] # via[h]
      BY <2>1, <2>2, <3>1, <3>3
    <3> QED
      BY <3>2, <3>3
  <2> QED
    BY <1>0, <2>1, <2>2 DEF NothingVanishes, Accounted, OnItsWay, ShownEvents, IsRead
<1>14. ASSUME NEW r \in Request, Write(r) PROVE NothingVanishes'
  <2> DEFINE e0 == written + 1
             z == Append(toPortal[r], e0)
  <2>1. /\ written \in Nat /\ written' = e0 /\ e0 \in Event
        /\ UNCHANGED <<at, via, toPage, shown>> /\ ShownEvents' = ShownEvents
        /\ toPortal \in [Request -> Seq(Event)] /\ via \in [Handler -> Request \cup {0}]
    BY <1>14, RunFacts DEF Write, IInv, TypeOK, Event, pageVars, portalVars, ShownEvents
  <2>2. by[r] \in Handler
    BY <1>14 DEF Write, StreamInv, Unused, RequestsHaveHandlers
  <2>3. /\ \/ via[by[r]] = r /\ toPortal' = [toPortal EXCEPT ![r] = z] /\ lost' = lost
           \/ lost' = lost \cup {e0} /\ toPortal' = toPortal
    BY <1>14, <2>1 DEF Write
  <2>4. ToSet(toPortal[r]) \cup {e0} \subseteq ToSet(z)
    BY <2>1, AppendSet
  <2>5. r # 0
    BY RunFacts DEF Request
  <2>6. \A e \in 1 .. e0 : e = e0 \/ e \in 1 .. written
    BY <2>1
  <2> HIDE DEF e0, z
  <2>7. e0 \in lost' \/ \E h \in Handler : via'[h] # 0 /\ e0 \in ToSet(toPortal'[via'[h]])
    BY <2>1, <2>2, <2>3, <2>4, <2>5
  <2>8. ASSUME NEW e \in 1 .. written
        PROVE  \/ e \in lost' \/ e \in ToSet(ShownEvents')
               \/ \E h \in Handler : IsRead(h)' /\ e \in ToSet(toPage'[h])
               \/ \E h \in Handler : via'[h] # 0 /\ e \in ToSet(toPortal'[via'[h]])
    <3>1. \A x \in Request : ToSet(toPortal[x]) \subseteq ToSet(toPortal'[x])
      BY <2>1, <2>3, <2>4
    <3>2. \A x \in Handler : via[x] # 0 => via[x] \in Request
      BY <2>1
    <3>3. \A x \in Handler : IsRead(x)' <=> IsRead(x)
      BY <2>1 DEF IsRead
    <3>4. CASE e \in lost \/ e \in ToSet(ShownEvents)
      BY <2>1, <2>3, <3>4
    <3>5. CASE OnItsWay(e)
      BY <2>1, <3>1, <3>2, <3>3, <3>5 DEF OnItsWay
    <3> QED
      BY <1>0, <3>4, <3>5
  <2> QED
    BY <2>1, <2>6, <2>7, <2>8 DEF NothingVanishes, Accounted, OnItsWay
<1>15. ASSUME NEW r \in Request, Serve(r) PROVE NothingVanishes'
  BY <1>1, <1>15 DEF Serve, pageVars, portalVars
<1> QED
  BY <1>2, <1>4, <1>5, <1>6, <1>7, <1>8, <1>9, <1>10, <1>11, <1>12, <1>13, <1>14, <1>15
     DEF Next, Page, Portal

(* What an event may come to: it is shown, it goes down with a connection that broke or was closed
   from the page's side, or it is on a connection that still has its reader. *)
THEOREM NothingVanishesAlways == Spec => []NothingVanishes
<1>1. ASSUME Init PROVE NothingVanishes /\ RequestsHaveHandlers
  BY <1>1 DEF Init, NothingVanishes, RequestsHaveHandlers, CR!Init
<1> QED
  BY <1>1, AlwaysStream, StepHandlers, StepVanishes, PTL DEF Spec, Safety

-----------------------------------------------------------------------------
(* What is left of a run of the effect that was closed. *)

(* A request that was not cut off is read by the handler that made it, while its response lives. *)
OpenIsRead ==
    \A r \in Request : req[r] = "open" => by[r] \in Handler /\ via[by[r]] = r /\ res[by[r]] = "live"

(* A handler reads a request of its own. Handlers without a response have made none. *)
ReadsOwn ==
    /\ \A h \in Handler : via[h] # 0 => by[via[h]] = h /\ res[h] = "live"
    /\ \A r \in Request : by[r] # 0 => res[by[r]] # "none"
    /\ \A r \in Request : by[r] = 0 <=> req[r] = "none"

OwnInv == OpenIsRead /\ ReadsOwn

LEMMA HangUpRequestOwn ==
  ASSUME TypeOK, OwnInv, NEW h \in Handler, HangUpRequest(h), by' = by,
         \A k \in Handler : k # h => res'[k] = res[k],
         res'[h] \in {res[h], "closed"}, res' \in [Handler -> {"none", "live", "closed"}]
  PROVE  OwnInv'
<1>1. /\ via' = [via EXCEPT ![h] = 0] /\ via \in [Handler -> Request \cup {0}]
      /\ req \in [Request -> CR!Active \cup {"none", "ended"}]
      /\ by \in [Request -> Handler \cup {0}]
  BY DEF HangUpRequest, TypeOK
<1>2. \A r \in Request : /\ req'[r] = "open" => req[r] = "open" /\ via[h] # r
                         /\ req'[r] = "none" <=> req[r] = "none"
  <2>1. CASE via[h] \in Open /\ CR!Cut(via[h])
    BY <1>1, <2>1 DEF Open, CR!Cut
  <2>2. CASE via[h] \notin Open /\ UNCHANGED serviceVars
    BY <2>2 DEF Open, serviceVars
  <2> QED
    BY <2>1, <2>2 DEF HangUpRequest
<1>3. OpenIsRead'
  <2> SUFFICES ASSUME NEW r \in Request, req'[r] = "open"
               PROVE  by[r] \in Handler /\ via'[by[r]] = r /\ res'[by[r]] = "live"
    BY DEF OpenIsRead
  <2>1. by[r] \in Handler /\ via[by[r]] = r /\ res[by[r]] = "live"
    BY <1>2 DEF OwnInv, OpenIsRead
  <2>2. by[r] # h
    BY <1>2, <2>1
  <2> QED
    BY <1>1, <2>1, <2>2
<1>4. ReadsOwn'
  <2>1. ASSUME NEW k \in Handler, via'[k] # 0 PROVE by[via'[k]] = k /\ res'[k] = "live"
    <3>1. k # h /\ via'[k] = via[k]
      BY <1>1, <2>1
    <3> QED
      BY <2>1, <3>1 DEF OwnInv, ReadsOwn
  <2>2. ASSUME NEW r \in Request, by[r] # 0 PROVE res'[by[r]] # "none"
    BY <1>1, <2>2 DEF OwnInv, ReadsOwn
  <2>3. \A r \in Request : by[r] = 0 <=> req'[r] = "none"
    BY <1>2 DEF OwnInv, ReadsOwn
  <2> QED
    BY <2>1, <2>2, <2>3 DEF ReadsOwn
<1> QED
  BY <1>3, <1>4 DEF OwnInv

LEMMA StepOwn == IInv /\ OwnInv /\ [Next]_vars => OwnInv'
<1> SUFFICES ASSUME IInv, OwnInv, [Next]_vars PROVE OwnInv'
  OBVIOUS
<1>0. /\ TypeOK
      /\ via \in [Handler -> Request \cup {0}] /\ by \in [Request -> Handler \cup {0}]
      /\ res \in [Handler -> {"none", "live", "closed"}]
      /\ req \in [Request -> CR!Active \cup {"none", "ended"}]
      /\ 0 \notin Handler /\ 0 \notin Request
  BY DEF IInv, TypeOK, Handler, Request
<1>1. ASSUME UNCHANGED <<via, by, res, req>> PROVE OwnInv'
  BY <1>1 DEF OwnInv, OpenIsRead, ReadsOwn
<1>2. ASSUME NEW t \in {"none", "some"}, SelectTopics(t) PROVE OwnInv'
  BY <1>1, <1>2 DEF SelectTopics, portalVars, serviceVars
<1>3. CASE LeavePage
  BY <1>1, <1>3 DEF LeavePage, portalVars, serviceVars
<1>4. ASSUME NEW g \in Run, Opened(g) \/ Show(g) \/ Lose(g) \/ Refuse(g) PROVE OwnInv'
  BY <1>1, <1>4 DEF Opened, Show, Lose, Refuse, portalVars, serviceVars
<1>5. ASSUME NEW g \in Run, NEW h \in Fresh(res), Accept(g, h) PROVE OwnInv'
  <2>1. /\ h \in Handler /\ res' = [res EXCEPT ![h] = "live"] /\ UNCHANGED <<via, by, req>>
    BY <1>0, <1>5 DEF Fresh, Accept, serviceVars
  <2> QED
    BY <1>0, <2>1 DEF OwnInv, OpenIsRead, ReadsOwn
<1>6. ASSUME NEW h \in Handler, NEW r \in Fresh(req), UpConnect(h, r) PROVE OwnInv'
  <2>1. /\ r \in Request /\ req[r] = "none" /\ res[h] = "live" /\ via[h] = 0
        /\ via' = [via EXCEPT ![h] = r] /\ by' = [by EXCEPT ![r] = h]
        /\ req' = [req EXCEPT ![r] = "open"] /\ res' = res
    BY <1>0, <1>6 DEF Fresh, UpConnect, CR!Begin
  <2>2. by[r] = 0
    BY <2>1 DEF OwnInv, ReadsOwn
  <2>3. \A k \in Handler : via[k] # r
    BY <1>0, <2>1, <2>2 DEF OwnInv, ReadsOwn
  <2>4. OpenIsRead'
    <3> SUFFICES ASSUME NEW q \in Request, req'[q] = "open"
                 PROVE  by'[q] \in Handler /\ via'[by'[q]] = q /\ res[by'[q]] = "live"
      BY <2>1 DEF OpenIsRead
    <3>1. CASE q = r
      BY <1>0, <2>1, <3>1
    <3>2. CASE q # r
      <4>1. by[q] \in Handler /\ via[by[q]] = q /\ res[by[q]] = "live"
        BY <1>0, <2>1, <3>2 DEF OwnInv, OpenIsRead
      <4>2. by[q] # h
        BY <1>0, <2>1, <4>1
      <4> QED
        BY <1>0, <2>1, <3>2, <4>1, <4>2
    <3> QED
      BY <3>1, <3>2
  <2>5. ReadsOwn'
    <3>1. ASSUME NEW k \in Handler, via'[k] # 0 PROVE by'[via'[k]] = k /\ res[k] = "live"
      BY <1>0, <2>1, <2>3, <3>1 DEF OwnInv, ReadsOwn
    <3>2. \A q \in Request : /\ by'[q] # 0 => res[by'[q]] # "none"
                             /\ by'[q] = 0 <=> req'[q] = "none"
      BY <1>0, <2>1 DEF OwnInv, ReadsOwn
    <3> QED
      BY <2>1, <3>1, <3>2 DEF ReadsOwn
  <2> QED
    BY <2>4, <2>5 DEF OwnInv
<1>7. ASSUME NEW h \in Handler, Copy(h) PROVE OwnInv'
  BY <1>1, <1>7 DEF Copy, portalVars, serviceVars
<1>8. ASSUME NEW h \in Handler, UpEnd(h) PROVE OwnInv'
  <2>1. /\ via[h] # 0 /\ req[via[h]] = "ended" /\ via' = [via EXCEPT ![h] = 0]
        /\ UNCHANGED <<by, res, req>>
    BY <1>8 DEF UpEnd, serviceVars
  <2>2. \A r \in Request : req[r] = "open" => by[r] # h
    BY <2>1 DEF OwnInv, OpenIsRead
  <2> QED
    BY <1>0, <2>1, <2>2 DEF OwnInv, OpenIsRead, ReadsOwn
<1>9. ASSUME NEW h \in Handler, UpLose(h) \/ CloseRes(h) PROVE OwnInv'
  <2>1. /\ HangUpRequest(h) /\ by' = by
        /\ \A k \in Handler : k # h => res'[k] = res[k]
        /\ res'[h] \in {res[h], "closed"} /\ res' \in [Handler -> {"none", "live", "closed"}]
    BY <1>0, <1>9 DEF UpLose, CloseRes
  <2> QED
    BY <1>0, <2>1, HangUpRequestOwn
<1>10. ASSUME NEW r \in Request, Write(r) PROVE OwnInv'
  BY <1>1, <1>10 DEF Write, portalVars, serviceVars
<1>11. ASSUME NEW r \in Request, Serve(r) PROVE OwnInv'
  <2>1. /\ UNCHANGED <<via, by, res>>
        /\ \A q \in Request : /\ req'[q] = "open" => req[q] = "open"
                              /\ req'[q] = "none" <=> req[q] = "none"
    BY <1>0, <1>11 DEF Serve, portalVars, CR!Join, CR!Leave, CR!Cut, CR!End, CR!Active
  <2> QED
    BY <2>1 DEF OwnInv, OpenIsRead, ReadsOwn
<1>12. CASE UNCHANGED vars
  BY <1>1, <1>12 DEF vars, portalVars, serviceVars
<1> QED
  BY <1>2, <1>3, <1>4, <1>5, <1>6, <1>7, <1>8, <1>9, <1>10, <1>11, <1>12 DEF Next, Page, Portal

LEMMA AlwaysOwn == Safety => [](IInv /\ OwnInv)
<1>1. Init => OwnInv
  BY DEF Init, OwnInv, OpenIsRead, ReadsOwn, CR!Init
<1> QED
  BY <1>1, AlwaysIInv, StepOwn, PTL DEF Safety

(* No request is left to itself: while the consumer has not been told that its client is gone, the
   handler of /api/consume that made the request reads it, and the response of that handler has not
   been closed. Whatever ends the one cuts off the other. *)
THEOREM OpenIsReadAlways == Spec => []OpenIsRead
  BY AlwaysOwn, PTL DEF Spec, OwnInv

-----------------------------------------------------------------------------
(* A run whose EventSource is closed keeps it closed, and once nothing serves it nothing ever will:
   the safety in ClosedLeavesGroup. *)
Gone(g) == es[g] = "closed" /\ Settled(g)

SettledForGood == [][\A g \in Run : Gone(g) => Gone(g)']_vars

LEMMA ClosedStaysClosed ==
  ASSUME IInv, [Next]_vars, NEW g \in Run, es[g] = "closed"
  PROVE  es'[g] = "closed"
<1>0. run \in Run /\ es \in [Run -> {"none", "connecting", "open", "closed"}] /\ Run \subseteq Nat
  BY RunFacts DEF IInv, TypeOK, Run
<1>1. ASSUME NEW t \in {"none", "some"}, SelectTopics(t) PROVE es'[g] = "closed"
  <2>1. es' = [es EXCEPT ![run] = "closed", ![run + 1] = "connecting"]
    BY <1>1 DEF SelectTopics
  <2>2. g # run + 1
    <3>1. run \in Nat /\ g \in Nat /\ (g > run => es[g] = "none")
      BY <1>0 DEF IInv, OnlyLatestReads
    <3> QED
      BY <3>1
  <2> QED
    BY <1>0, <2>1, <2>2
<1>2. CASE LeavePage
  BY <1>0, <1>2 DEF LeavePage
<1>3. ASSUME NEW q \in Run, Opened(q) \/ Show(q) \/ Lose(q) \/ Refuse(q) PROVE es'[g] = "closed"
  BY <1>0, <1>3 DEF Opened, Show, Lose, Refuse, pageVars, IInv, OnlyLatestReads
<1>4. ASSUME NEW q \in Run, NEW h \in Fresh(res), Accept(q, h) PROVE es'[g] = "closed"
  BY <1>4 DEF Accept
<1>5. Portal => UNCHANGED es
  BY DEF Portal, UpConnect, Copy, UpEnd, UpLose, CloseRes, pageVars
<1>6. (\E r \in Request : Write(r) \/ Serve(r)) \/ UNCHANGED vars => UNCHANGED es
  BY DEF Write, Serve, vars, pageVars
<1> QED
  BY <1>1, <1>2, <1>3, <1>4, <1>5, <1>6 DEF Next, Page

LEMMA SettledStays ==
  ASSUME IInv, OwnInv, [Next]_vars, NEW g \in Run, Gone(g)
  PROVE  Settled(g)'
<1>0. /\ res \in [Handler -> {"none", "live", "closed"}] /\ asked \in [Handler -> Run]
      /\ by \in [Request -> Handler \cup {0}]
      /\ req \in [Request -> CR!Active \cup {"none", "ended"}]
      /\ 0 \notin Handler
  BY DEF IInv, TypeOK, Handler
<1>1. /\ es[g] = "closed"
      /\ \A h \in Handler : asked[h] = g => res[h] # "live"
      /\ \A r \in Request : by[r] # 0 /\ asked[by[r]] = g => req[r] = "ended"
  BY DEF Gone, Settled
<1>2. ASSUME UNCHANGED <<asked, by>>,
             \A h \in Handler : res'[h] = "live" => res[h] = "live",
             \A r \in Request : req[r] = "ended" => req'[r] = "ended"
      PROVE  Settled(g)'
  BY <1>1, <1>2 DEF Settled
<1>3. ASSUME UNCHANGED <<asked, by, res, req>> PROVE Settled(g)'
  BY <1>2, <1>3
<1>4. ASSUME NEW t \in {"none", "some"}, SelectTopics(t) PROVE Settled(g)'
  BY <1>3, <1>4 DEF SelectTopics, portalVars, serviceVars
<1>5. CASE LeavePage
  BY <1>3, <1>5 DEF LeavePage, portalVars, serviceVars
<1>6. ASSUME NEW q \in Run, Opened(q) \/ Show(q) \/ Lose(q) \/ Refuse(q) PROVE Settled(g)'
  BY <1>3, <1>6 DEF Opened, Show, Lose, Refuse, portalVars, serviceVars
(* A new handler serves a run that is not closed, and has made no request before. *)
<1>7. ASSUME NEW q \in Run, NEW h \in Fresh(res), Accept(q, h) PROVE Settled(g)'
  <2>1. /\ q # g /\ h \in Handler /\ res[h] = "none"
        /\ res' = [res EXCEPT ![h] = "live"] /\ asked' = [asked EXCEPT ![h] = q]
        /\ UNCHANGED <<by, req>>
    BY <1>0, <1>1, <1>7 DEF Fresh, Accept, serviceVars
  <2>2. \A r \in Request : by[r] # 0 => by[r] # h /\ by[r] \in Handler
    BY <1>0, <2>1 DEF OwnInv, ReadsOwn
  <2> QED
    BY <1>0, <1>1, <2>1, <2>2 DEF Settled
(* Only a response that lives connects again. *)
<1>8. ASSUME NEW h \in Handler, NEW r \in Fresh(req), UpConnect(h, r) PROVE Settled(g)'
  <2>1. /\ r \in Request /\ req[r] = "none" /\ res[h] = "live"
        /\ by' = [by EXCEPT ![r] = h] /\ req' = [req EXCEPT ![r] = "open"]
        /\ UNCHANGED <<res, asked>>
    BY <1>0, <1>8 DEF Fresh, UpConnect, CR!Begin, pageVars
  <2>2. asked[h] # g
    BY <1>1, <2>1
  <2> QED
    BY <1>0, <1>1, <2>1, <2>2 DEF Settled
<1>9. ASSUME NEW h \in Handler, Copy(h) \/ UpEnd(h) PROVE Settled(g)'
  BY <1>3, <1>9 DEF Copy, UpEnd, portalVars, serviceVars
<1>10. ASSUME NEW h \in Handler, UpLose(h) \/ CloseRes(h) PROVE Settled(g)'
  <2>1. \A r \in Request : req[r] = "ended" => req'[r] = "ended"
    BY <1>0, <1>10 DEF UpLose, CloseRes, HangUpRequest, CR!Cut, serviceVars
  <2>2. UNCHANGED <<asked, by>> /\ \A k \in Handler : res'[k] = "live" => res[k] = "live"
    BY <1>0, <1>10 DEF UpLose, CloseRes
  <2> QED
    BY <1>2, <2>1, <2>2
<1>11. ASSUME NEW r \in Request, Write(r) PROVE Settled(g)'
  BY <1>3, <1>11 DEF Write, portalVars, serviceVars
<1>12. ASSUME NEW r \in Request, Serve(r) PROVE Settled(g)'
  <2>1. UNCHANGED <<asked, by, res>> /\ \A q \in Request : req[q] = "ended" => req'[q] = "ended"
    BY <1>0, <1>12 DEF Serve, portalVars, CR!Join, CR!Leave, CR!Cut, CR!End, CR!Active
  <2> QED
    BY <1>2, <2>1
<1>13. CASE UNCHANGED vars
  BY <1>3, <1>13 DEF vars, portalVars, serviceVars
<1> QED
  BY <1>4, <1>5, <1>6, <1>7, <1>8, <1>9, <1>10, <1>11, <1>12, <1>13 DEF Next, Page, Portal

(* No reconnect on either side brings back a response or a member of the group for topics that the
   page has closed, once those it had are gone. *)
THEOREM SettledForGoodAlways == Spec => SettledForGood
<1>1. IInv /\ OwnInv /\ [Next]_vars => [\A g \in Run : Gone(g) => Gone(g)']_vars
  <2> SUFFICES ASSUME IInv, OwnInv, [Next]_vars, NEW g \in Run, Gone(g) PROVE Gone(g)'
    OBVIOUS
  <2>1. es'[g] = "closed"
    BY ClosedStaysClosed DEF Gone
  <2> QED
    BY <2>1, SettledStays DEF Gone
<1> QED
  BY <1>1, AlwaysOwn, PTL DEF Spec, Safety, SettledForGood
=============================================================================
