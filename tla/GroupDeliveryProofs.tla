------------------------ MODULE GroupDeliveryProofs -------------------------
(***************************************************************************)
(* Who is given a message, for any topics of any length, any choices of the *)
(* page, any number of requests and any number of restarts and kills.       *)
(***************************************************************************)
EXTENDS GroupDelivery, TLAPS

(* What the group knows to be taken: the offset its owner has stored, or the committed one. *)
Reach(l) == IF stored[l] > 0 THEN stored[l] ELSE committed[l]

(* Offsets of an owner and of the group. *)
OffsetsAgree ==
    \A l \in Label :
        /\ log[l] <= MaxMessages[l]
        /\ committed[l] <= log[l]
        /\ l \in Owned => Reach(l) \in {0, at[l]} /\ committed[l] <= at[l]
        /\ l \notin Owned => stored[l] = 0 /\ at[l] = 0

(* A message beyond the reach is taken only by listeners that were killed. *)
TakenInReach ==
    \A l \in Label : \A i \in 1..MaxMessages[l] :
        /\ taken[<<l, i>>] <= 1 + kills
        /\ i > Reach(l) => taken[<<l, i>>] <= kills

(* Without kills, what was passed over lies before the first message that was taken, and what
   follows that one has been taken up to the reach. *)
NoGap ==
    kills = 0 =>
        \A l \in Label : \A i, j \in 1..MaxMessages[l] :
            taken[<<l, i>>] > 0 /\ i < j =>
                <<l, j>> \notin skipped /\ (j <= Reach(l) => taken[<<l, j>>] > 0)

SkippedBelow ==
    kills = 0 =>
        \A l \in Label : \A j \in 1..MaxMessages[l] :
            <<l, j>> \in skipped =>
                /\ j <= log[l]
                /\ Reach(l) > 0 => j <= Reach(l)
                /\ l \in Owned => j <= at[l]

(* A request is given what it subscribed, and the page reads one that subscribed what it shows. *)
GivenIsAsked ==
    /\ asked = selector.chosen
    /\ \A r \in Request :
        /\ \A m \in held[r] : m[1] \in sub[r]
        /\ owns[r] \subseteq sub[r]
        /\ member[r] # "in" => held[r] = {} /\ owns[r] = {}
        /\ req[r] = "none" => member[r] = "none"
    /\ reader # 0 => sub[reader] \subseteq asked

IInv == TypeOK /\ OffsetsAgree /\ TakenInReach /\ NoGap /\ SkippedBelow /\ GivenIsAsked

-----------------------------------------------------------------------------
(* Messages and members. *)

LEMMA Bounds ==
    /\ MainTopics \subseteq Label /\ Known \subseteq Label /\ FirstTopics \subseteq Label
    /\ MaxMessages \in [Label -> Nat]
    /\ MaxRequests \in Nat /\ MaxStops \in Nat
    /\ Main \in Member /\ Request \subseteq Member /\ Main \notin Request
  BY GroupAssumption DEF GroupAssumption, Main, Member, Request

LEMMA MsgIs ==
  ASSUME NEW l \in Label, NEW i \in 1..MaxMessages[l]
  PROVE  <<l, i>> \in Msg
  BY DEF Msg

LEMMA MsgParts ==
  ASSUME NEW m \in Msg
  PROVE  m[1] \in Label /\ m[2] \in 1..MaxMessages[m[1]] /\ m = <<m[1], m[2]>>
  BY DEF Msg

-----------------------------------------------------------------------------
(* Type correctness in four parts. *)

PageTypes ==
    /\ selector \in Selector
    /\ asked \subseteq Label
    /\ reader \in Member

ServiceTypes ==
    /\ sub \in [Request -> SUBSET Label]
    /\ req \in [Request -> CR!Active \cup {"none", "ended"}]
    /\ member \in [Request -> {"none", "in", "out"}]
    /\ up \in BOOLEAN
    /\ held \in [Member -> SUBSET Msg]
    /\ stops \in 0..MaxStops /\ kills \in 0..stops

Offset == [Label -> Nat]

OffsetTypes ==
    /\ log \in Offset /\ at \in Offset /\ stored \in Offset /\ committed \in Offset
    /\ \A l \in Label : stored[l] <= at[l] /\ at[l] <= log[l]

OwnerTypes ==
    /\ owns \in [Member -> SUBSET Label]
    /\ \A x, y \in Member : x # y => owns[x] \cap owns[y] = {}
    /\ stale \in BOOLEAN

HistoryTypes ==
    /\ taken \in [Msg -> Nat]
    /\ given \subseteq Msg /\ counted \subseteq Msg /\ skipped \subseteq Msg

LEMMA TypeParts == TypeOK <=> PageTypes /\ ServiceTypes /\ OffsetTypes /\ OwnerTypes /\ HistoryTypes
<1>1. {log, at, stored, committed} \subseteq [Label -> Nat]
        <=> log \in Offset /\ at \in Offset /\ stored \in Offset /\ committed \in Offset
  BY DEF Offset
<1>2. UNION {given, counted, skipped} \subseteq Msg
        <=> given \subseteq Msg /\ counted \subseteq Msg /\ skipped \subseteq Msg
  OBVIOUS
<1> QED
  BY <1>1, <1>2, Zenon DEF TypeOK, PageTypes, ServiceTypes, OffsetTypes, OwnerTypes, HistoryTypes

LEMMA InitIInv == Init => IInv
<1> SUFFICES ASSUME Init PROVE IInv
  OBVIOUS
<1>1. \A l \in Label : log[l] = 0 /\ at[l] = 0 /\ stored[l] = 0 /\ committed[l] = 0
  BY DEF Init
<1>2. \A l \in Label : ~(l \in Owned)
  BY DEF Init, Owned
<1>3. TypeOK
  <2>1. ServiceTypes
    <3>1. stops = 0 /\ kills = 0 /\ 0 \in 0..MaxStops /\ 0 \in 0..0
      BY Bounds DEF Init
    <3>2. /\ req = [r \in Request |-> "none"] /\ member = [r \in Request |-> "none"]
          /\ held = [x \in Member |-> {}]
          /\ sub = [r \in Request |-> {}]
          /\ up = FALSE
      BY DEF Init, CR!Init
    <3>3. stops \in 0..MaxStops /\ kills \in 0..stops
      BY <3>1
    <3>4. held \in [Member -> SUBSET Msg] /\ sub \in [Request -> SUBSET Label]
      BY <3>2
    <3> QED
      BY <3>2, <3>3, <3>4 DEF ServiceTypes
  <2>2. PageTypes
    BY Bounds DEF Init, PageTypes, NewSelector, Selector, Main
  <2>3. OffsetTypes
    BY DEF Init, OffsetTypes, Offset
  <2>4. OwnerTypes
    BY DEF Init, OwnerTypes
  <2>5. HistoryTypes
    BY DEF Init, HistoryTypes
  <2> QED
    BY <2>1, <2>2, <2>3, <2>4, <2>5, TypeParts
<1>4. OffsetsAgree
  <2>1. ASSUME NEW l \in Label
        PROVE  /\ log[l] <= MaxMessages[l]
               /\ committed[l] <= log[l]
               /\ l \notin Owned
               /\ stored[l] = 0 /\ at[l] = 0
    <3>1. MaxMessages[l] \in Nat
      BY Bounds
    <3>2. log[l] = 0 /\ at[l] = 0 /\ stored[l] = 0 /\ committed[l] = 0
      BY <1>1
    <3> QED
      BY <1>2, <3>1, <3>2
  <2> QED
    BY <2>1 DEF OffsetsAgree
<1>5. TakenInReach /\ NoGap /\ SkippedBelow
  <2>1. \A l \in Label : \A i \in 1..MaxMessages[l] : taken[<<l, i>>] = 0 /\ <<l, i>> \notin skipped
    BY MsgIs DEF Init
  <2>2. kills = 0
    BY DEF Init
  <2> QED
    BY <2>1, <2>2 DEF TakenInReach, NoGap, SkippedBelow
<1>6. GivenIsAsked
  BY Bounds DEF Init, GivenIsAsked, NewSelector, CR!Init
<1> QED
  BY <1>3, <1>4, <1>5, <1>6 DEF IInv

-----------------------------------------------------------------------------
(* Steps that leave the offsets and the owners alone. *)

OffsetInv == OffsetTypes /\ OwnerTypes /\ HistoryTypes /\ OffsetsAgree /\ TakenInReach /\ NoGap /\ SkippedBelow

LEMMA IInvIs == IInv <=> PageTypes /\ ServiceTypes /\ GivenIsAsked /\ OffsetInv
  BY TypeParts, Zenon DEF IInv, OffsetInv

LEMMA OffsetStutter ==
  ASSUME OffsetInv, UNCHANGED <<log, at, stored, committed, owns, taken, given, skipped, kills>>,
         stale' \in BOOLEAN, counted' \subseteq Msg
  PROVE  OffsetInv'
<1>1. OffsetTypes' /\ OwnerTypes' /\ HistoryTypes'
  BY DEF OffsetInv, OffsetTypes, OwnerTypes, HistoryTypes
<1>2. UNCHANGED <<Owned>> /\ \A l : Reach(l)' = Reach(l)
  BY DEF Owned, Reach
<1> QED
  BY <1>1, <1>2 DEF OffsetInv, OffsetsAgree, TakenInReach, NoGap, SkippedBelow

-----------------------------------------------------------------------------
(* The log grows. *)

LEMMA PublishKeeps ==
  ASSUME OffsetInv, NEW l \in Label, Publish(l)
  PROVE  OffsetInv'
<1>1. /\ log' = [log EXCEPT ![l] = @ + 1]
      /\ log[l] < MaxMessages[l]
      /\ UNCHANGED <<at, stored, committed, owns, stale, taken, given, counted, skipped, kills>>
  BY DEF Publish, serviceVars, historyVars
<1>2. MaxMessages \in [Label -> Nat]
  BY Bounds
<1>3. log' \in Offset /\ \A k \in Label : log[k] <= log'[k] /\ log'[k] <= MaxMessages[k]
  <2>1. log \in [Label -> Nat] /\ \A k \in Label : log[k] <= MaxMessages[k]
    BY DEF OffsetInv, OffsetTypes, OffsetsAgree, Offset
  <2> QED
    BY <1>1, <1>2, <2>1 DEF Offset
<1>4. OffsetTypes' /\ OwnerTypes' /\ HistoryTypes'
  <2>1. \A k \in Label : at[k] \in Nat /\ stored[k] \in Nat /\ log[k] \in Nat /\ log'[k] \in Nat
    BY <1>3 DEF OffsetInv, OffsetTypes, Offset
  <2>2. OffsetTypes'
    BY <1>1, <1>3, <2>1 DEF OffsetInv, OffsetTypes
  <2> QED
    BY <1>1, <2>2 DEF OffsetInv, OwnerTypes, HistoryTypes
<1>5. UNCHANGED <<Owned>> /\ \A k : Reach(k)' = Reach(k)
  BY <1>1 DEF Owned, Reach
<1>6. \A k \in Label : log[k] \in Nat /\ log'[k] \in Nat /\ committed[k] \in Nat
  BY <1>3 DEF OffsetInv, OffsetTypes, Offset
<1>7. OffsetsAgree'
  BY <1>1, <1>3, <1>5, <1>6 DEF OffsetInv, OffsetsAgree
<1>8. TakenInReach' /\ NoGap'
  BY <1>1, <1>5 DEF OffsetInv, TakenInReach, NoGap
<1>9. SkippedBelow'
  BY <1>1, <1>2, <1>3, <1>5, <1>6 DEF OffsetInv, SkippedBelow
<1> QED
  BY <1>4, <1>7, <1>8, <1>9 DEF OffsetInv

-----------------------------------------------------------------------------
(* Offsets are committed, and topics are released. *)

LEMMA CommitReaches ==
  ASSUME OffsetInv, NEW ls, Commit(ls)
  PROVE  /\ committed' \in Offset
         /\ \A l \in Label : committed[l] <= committed'[l] /\ committed'[l] <= Reach(l)
         /\ \A l \in Label : l \in ls \/ l \notin Owned => committed'[l] = Reach(l)
         /\ \A l \in Label : Reach(l) \in Nat /\ Reach(l) <= log[l]
         /\ \A l \in Owned \cap Label : Reach(l) <= at[l]
<1>1. \A l \in Label : /\ stored[l] \in Nat /\ committed[l] \in Nat /\ at[l] \in Nat /\ log[l] \in Nat
                       /\ stored[l] <= at[l] /\ at[l] <= log[l]
  BY DEF OffsetInv, OffsetTypes, Offset
<1>2. \A l \in Label : /\ committed[l] <= log[l]
                       /\ l \in Owned => Reach(l) \in {0, at[l]} /\ committed[l] <= at[l]
                       /\ l \notin Owned => stored[l] = 0
  BY DEF OffsetInv, OffsetsAgree
<1>3. \A l \in Label : committed'[l] = IF l \in ls /\ stored[l] > 0 THEN stored[l] ELSE committed[l]
  BY DEF Commit
<1>4. \A l \in Label : Reach(l) = IF stored[l] > 0 THEN stored[l] ELSE committed[l]
  BY DEF Reach
<1>5. committed' \in Offset
  BY <1>1 DEF Commit, Offset
<1> QED
  BY <1>1, <1>2, <1>3, <1>4, <1>5

(* What was taken and passed over stays consistent while the reach of every topic does. *)
LEMMA ReachKept ==
  ASSUME OffsetInv, UNCHANGED <<log, taken, skipped, kills>>,
         \A l \in Label : Reach(l)' = Reach(l),
         \A l \in Label : l \in Owned' => l \in Owned /\ at'[l] = at[l]
  PROVE  TakenInReach' /\ NoGap' /\ SkippedBelow'
<1>1. TakenInReach'
  BY DEF OffsetInv, TakenInReach
<1>2. NoGap'
  BY DEF OffsetInv, NoGap
<1>3. SkippedBelow'
  BY DEF OffsetInv, SkippedBelow
<1> QED
  BY <1>1, <1>2, <1>3

LEMMA ReleaseTypes ==
  ASSUME OffsetInv, NEW ls, Release(ls), UNCHANGED log,
         committed' \in Offset,
         \A l \in Label : committed'[l] <= log[l],
         \A l \in Label : l \in ls \/ l \notin Owned \/ committed'[l] = committed[l]
  PROVE  /\ OffsetTypes' /\ OwnerTypes' /\ OffsetsAgree'
         /\ \A l \in Label : l \in Owned' => l \in Owned /\ l \notin ls /\ at'[l] = at[l]
<1>1. \A l \in Label : /\ stored'[l] = IF l \in ls THEN 0 ELSE stored[l]
                       /\ at'[l] = IF l \in ls THEN 0 ELSE at[l]
  BY DEF Release
<1>2. owns' = [x \in Member |-> owns[x] \ ls] /\ stale' = TRUE
  BY DEF Release
<1>3. \A l : l \in Owned' <=> l \in Owned /\ l \notin ls
  BY <1>2 DEF Owned
<1>4. OwnerTypes'
  <2>1. \A x \in Member : owns'[x] \subseteq owns[x]
    BY <1>2
  <2>2. owns' \in [Member -> SUBSET Label]
    BY <1>2 DEF OffsetInv, OwnerTypes
  <2> QED
    BY <1>2, <2>1, <2>2 DEF OffsetInv, OwnerTypes
<1>5. OffsetTypes'
  <2>1. at' \in Offset /\ stored' \in Offset
    BY DEF Release, Offset, OffsetInv, OffsetTypes
  <2>2. \A l \in Label : /\ log[l] \in Nat /\ at[l] \in Nat /\ stored[l] \in Nat
                         /\ stored[l] <= at[l] /\ at[l] <= log[l]
    BY DEF OffsetInv, OffsetTypes, Offset
  <2>3. \A l \in Label : stored'[l] <= at'[l] /\ at'[l] <= log[l]
    BY <1>1, <2>2
  <2> QED
    BY <2>1, <2>3 DEF OffsetTypes, OffsetInv
<1>6. OffsetsAgree'
  <2>1. \A l \in Label : l \in Owned' => Reach(l)' = Reach(l) /\ committed'[l] = committed[l]
    BY <1>1, <1>3 DEF Reach
  <2> QED
    BY <1>1, <1>3, <2>1 DEF OffsetInv, OffsetsAgree
<1> QED
  BY <1>1, <1>3, <1>4, <1>5, <1>6

(* Members that commit before they give topics up: a listener that closes, or all of them. *)
LEMMA ReleaseKeeps ==
  ASSUME OffsetInv, NEW cs, NEW ls, \A l \in Label : l \in ls /\ l \in Owned <=> l \in cs /\ l \in Owned,
         Commit(cs), Release(ls),
         UNCHANGED <<log, taken, given, counted, skipped, kills>>
  PROVE  /\ OffsetInv'
         /\ \A l \in Label : Reach(l)' = Reach(l) /\ (l \in Owned' => l \in Owned /\ at'[l] = at[l])
<1>1. \A l \in Label : /\ stored'[l] = IF l \in ls THEN 0 ELSE stored[l]
                       /\ committed'[l] = IF l \in cs /\ stored[l] > 0 THEN stored[l] ELSE committed[l]
                       /\ stored[l] \in Nat
                       /\ l \notin Owned => stored[l] = 0
  BY DEF Release, Commit, OffsetInv, OffsetTypes, Offset, OffsetsAgree
<1>2. \A l \in Label : Reach(l)' = Reach(l)
  BY <1>1 DEF Reach
<1>3. \A l \in Label : l \in ls \/ l \notin Owned \/ committed'[l] = committed[l]
  BY <1>1
<1>4. \A l \in Label : committed'[l] <= log[l]
  <2>1. \A l \in Label : /\ committed'[l] \in Nat /\ log[l] \in Nat
                         /\ committed'[l] <= Reach(l) /\ Reach(l) \in Nat /\ Reach(l) <= log[l]
    BY CommitReaches DEF Offset, OffsetInv, OffsetTypes
  <2> QED
    BY <2>1
<1>5. committed' \in Offset
  BY CommitReaches
<1>6. /\ OffsetTypes' /\ OwnerTypes' /\ OffsetsAgree'
      /\ \A l \in Label : l \in Owned' => l \in Owned /\ at'[l] = at[l]
  BY <1>3, <1>4, <1>5, ReleaseTypes
<1>7. TakenInReach' /\ NoGap' /\ SkippedBelow'
  BY <1>2, <1>6, ReachKept
<1>8. HistoryTypes'
  BY DEF OffsetInv, HistoryTypes
<1> QED
  BY <1>2, <1>6, <1>7, <1>8 DEF OffsetInv

(* The process is killed: what was taken and not committed may be taken once more. *)
LEMMA KillKeeps ==
  ASSUME OffsetInv, Release(Label), kills \in Nat, kills' = kills + 1,
         UNCHANGED <<log, committed, taken, given, counted, skipped>>
  PROVE  OffsetInv'
<1>1. OffsetTypes' /\ OwnerTypes' /\ OffsetsAgree'
  BY ReleaseTypes DEF OffsetInv, OffsetTypes, OffsetsAgree
<1>2. HistoryTypes'
  BY DEF OffsetInv, HistoryTypes
<1>3. TakenInReach'
  <2>1. \A l \in Label : \A i \in 1..MaxMessages[l] :
            taken[<<l, i>>] \in Nat /\ taken[<<l, i>>] <= 1 + kills
    BY MsgIs DEF OffsetInv, HistoryTypes, TakenInReach
  <2>2. ASSUME NEW l \in Label, NEW i \in 1..MaxMessages[l]
        PROVE  taken'[<<l, i>>] <= kills' /\ taken'[<<l, i>>] <= 1 + kills'
    <3>1. taken[<<l, i>>] \in Nat /\ taken[<<l, i>>] <= 1 + kills
      BY <2>1
    <3> QED
      BY <3>1
  <2> QED
    BY <2>2 DEF TakenInReach
<1>4. kills' # 0
  OBVIOUS
<1> QED
  BY <1>1, <1>2, <1>3, <1>4 DEF OffsetInv, NoGap, SkippedBelow

LEMMA AutoCommitKeeps ==
  ASSUME OffsetInv, NEW l \in Label, AutoCommit(l)
  PROVE  OffsetInv' /\ UNCHANGED Owned /\ \A k \in Label : Reach(k)' = Reach(k)
<1>1. /\ Commit({l})
      /\ l \in Owned
      /\ UNCHANGED <<log, owns, stale, at, stored, taken, given, counted, skipped, kills>>
  BY DEF AutoCommit, serviceVars, historyVars
<1>2. /\ committed' \in Offset
      /\ \A k \in Label : /\ committed'[k] \in Nat /\ log[k] \in Nat /\ at[k] \in Nat
                          /\ Reach(k) \in Nat /\ Reach(k) <= log[k]
                          /\ committed'[k] <= Reach(k)
                          /\ k \in Owned => Reach(k) <= at[k]
  BY <1>1, CommitReaches DEF OffsetInv, OffsetTypes, Offset
<1>3. \A k \in Label : Reach(k)' = Reach(k)
  <2>1. \A k \in Label : /\ committed'[k] = IF k \in {l} /\ stored[k] > 0 THEN stored[k] ELSE committed[k]
                         /\ stored[k] \in Nat
    BY <1>1 DEF Commit, OffsetInv, OffsetTypes, Offset
  <2> QED
    BY <1>1, <2>1 DEF Reach
<1>4. UNCHANGED Owned
  BY <1>1 DEF Owned
<1>5. OffsetTypes' /\ OwnerTypes' /\ HistoryTypes'
  BY <1>1, <1>2 DEF OffsetInv, OffsetTypes, OwnerTypes, HistoryTypes
<1>6. OffsetsAgree'
  <2>1. ASSUME NEW k \in Label
        PROVE  committed'[k] <= log[k] /\ (k \in Owned => committed'[k] <= at[k])
    BY <1>2
  <2> QED
    BY <1>1, <1>3, <1>4, <2>1 DEF OffsetInv, OffsetsAgree
<1>7. TakenInReach' /\ NoGap' /\ SkippedBelow'
  BY <1>1, <1>3, <1>4, ReachKept
<1> QED
  BY <1>3, <1>4, <1>5, <1>6, <1>7 DEF OffsetInv

-----------------------------------------------------------------------------
(* A message is read. *)

LEMMA ReadKeeps ==
  ASSUME OffsetInv, kills \in Nat, NEW x \in Member, NEW l \in Label, Read(x, l)
  PROVE  OffsetInv' /\ <<l, at[l] + 1>> \in Msg
<1> DEFINE n == at[l] + 1
<1>1. /\ l \in owns[x] /\ at[l] < log[l]
      /\ at' = [at EXCEPT ![l] = n]
      /\ stored' = [stored EXCEPT ![l] = at'[l]]
      /\ taken' = [taken EXCEPT ![<<l, at'[l]>>] = @ + 1]
      /\ UNCHANGED <<log, owns, stale, committed, counted, skipped, kills>>
  BY DEF Read
<1>2. \A k \in Label : /\ at[k] \in Nat /\ stored[k] \in Nat /\ committed[k] \in Nat /\ log[k] \in Nat
                       /\ stored[k] <= at[k] /\ at[k] <= log[k]
  BY DEF OffsetInv, OffsetTypes, Offset
<1>3. \A k \in Label : /\ log[k] <= MaxMessages[k] /\ committed[k] <= log[k]
                       /\ k \in Owned => Reach(k) \in {0, at[k]} /\ committed[k] <= at[k]
                       /\ k \notin Owned => stored[k] = 0 /\ at[k] = 0
  BY DEF OffsetInv, OffsetsAgree
<1>4. l \in Owned /\ UNCHANGED Owned
  BY <1>1 DEF Owned
<1>5. /\ at'[l] = n /\ stored'[l] = n /\ n \in 1..MaxMessages[l] /\ n <= log[l] /\ n # 0
      /\ Reach(l) \in Nat /\ Reach(l) < n
  <2>1. at \in [Label -> Nat] /\ stored \in [Label -> Nat]
    BY DEF OffsetInv, OffsetTypes, Offset
  <2>2. at'[l] = n /\ stored'[l] = n
    BY <1>1, <2>1
  <2>3. n \in Nat /\ n # 0 /\ n <= log[l] /\ MaxMessages[l] \in Nat /\ log[l] <= MaxMessages[l]
    BY <1>1, <1>2, <1>3, Bounds
  <2>4. Reach(l) \in Nat /\ Reach(l) < n
    BY <1>2, <1>3, <1>4 DEF Reach
  <2>5. n \in 1..MaxMessages[l]
    BY <1>2, <2>3
  <2> QED
    BY <2>2, <2>3, <2>4, <2>5
<1>6. <<l, n>> \in Msg
  BY <1>5, MsgIs
<1>7. taken' = [taken EXCEPT ![<<l, n>>] = @ + 1] /\ taken \in [Msg -> Nat]
  BY <1>1, <1>5 DEF OffsetInv, HistoryTypes
<1>8. Reach(l)' = n /\ \A k \in Label : k # l => Reach(k)' = Reach(k)
  <2>1. \A k \in Label : k # l => stored'[k] = stored[k]
    BY <1>1 DEF OffsetInv, OffsetTypes, Offset
  <2> QED
    BY <1>1, <1>5, <2>1 DEF Reach
<1> HIDE DEF n
<1>9. OffsetTypes'
  <2>1. at' \in Offset /\ stored' \in Offset
    BY <1>1, <1>5 DEF OffsetInv, OffsetTypes, Offset
  <2>2. \A k \in Label : stored'[k] <= at'[k] /\ at'[k] <= log[k]
    BY <1>1, <1>2, <1>5 DEF OffsetInv, OffsetTypes, Offset
  <2> QED
    BY <1>1, <2>1, <2>2 DEF OffsetInv, OffsetTypes
<1>10. OwnerTypes' /\ HistoryTypes'
  <2>1. taken' \in [Msg -> Nat]
    BY <1>6, <1>7
  <2>2. given' \subseteq Msg
    <3>1. held' = [held EXCEPT ![x] = {<<l, n>>}] /\ (given' = given \/ given' = given \cup held'[x])
      BY <1>5 DEF Read
    <3>2. held'[x] \subseteq held[x] \cup {<<l, n>>} /\ held[x] = {}
      BY <3>1 DEF Read
    <3> QED
      BY <1>6, <3>1, <3>2 DEF OffsetInv, HistoryTypes
  <2> QED
    BY <1>1, <2>1, <2>2 DEF OffsetInv, OwnerTypes, HistoryTypes
<1>11. OffsetsAgree'
  <2>1. \A k \in Label : k # l => at'[k] = at[k] /\ stored'[k] = stored[k]
    BY <1>1 DEF OffsetInv, OffsetTypes, Offset
  <2>2. committed[l] <= n
    BY <1>2, <1>3, <1>4 DEF n
  <2> QED
    BY <1>1, <1>3, <1>4, <1>5, <1>8, <2>1, <2>2 DEF OffsetsAgree
<1>12. \A k \in Label : \A i \in 1..MaxMessages[k] :
           /\ <<k, i>> # <<l, n>> => taken'[<<k, i>>] = taken[<<k, i>>]
           /\ <<k, i>> = <<l, n>> => taken'[<<k, i>>] = taken[<<k, i>>] + 1
           /\ taken[<<k, i>>] \in Nat
  BY <1>7, MsgIs
<1>13. TakenInReach'
  <2> SUFFICES ASSUME NEW k \in Label, NEW i \in 1..MaxMessages[k]
               PROVE  /\ taken'[<<k, i>>] <= 1 + kills
                      /\ i > Reach(k)' => taken'[<<k, i>>] <= kills
    BY <1>1 DEF TakenInReach
  <2>1. /\ taken[<<k, i>>] <= 1 + kills
        /\ i > Reach(k) => taken[<<k, i>>] <= kills
        /\ taken[<<k, i>>] \in Nat
    BY <1>12 DEF OffsetInv, TakenInReach
  <2>2. CASE k = l /\ i = n
    BY <1>5, <1>8, <1>12, <2>1, <2>2
  <2>3. CASE k = l /\ i # n
    <3>1. taken'[<<k, i>>] = taken[<<k, i>>]
      BY <1>12, <2>3
    <3> QED
      BY <1>5, <1>8, <2>1, <2>3, <3>1
  <2>4. CASE k # l
    <3>1. taken'[<<k, i>>] = taken[<<k, i>>]
      BY <1>12, <2>4
    <3> QED
      BY <1>8, <2>1, <2>4, <3>1
  <2> QED
    BY <2>2, <2>3, <2>4
<1>14. NoGap'
  <2> SUFFICES ASSUME kills = 0,
                      NEW k \in Label, NEW i \in 1..MaxMessages[k], NEW j \in 1..MaxMessages[k],
                      taken'[<<k, i>>] > 0, i < j
               PROVE  /\ <<k, j>> \notin skipped
                      /\ j <= Reach(k)' => taken'[<<k, j>>] > 0
    BY <1>1 DEF NoGap
  <2>1. taken[<<k, i>>] > 0 => /\ <<k, j>> \notin skipped
                               /\ j <= Reach(k) => taken[<<k, j>>] > 0
    BY DEF OffsetInv, NoGap
  <2>2. taken[<<k, j>>] > 0 => taken'[<<k, j>>] > 0
    BY <1>12
  <2>3. CASE k = l /\ i = n
    <3>1. <<l, j>> \in skipped => j <= at[l]
      BY <1>4, <2>3 DEF OffsetInv, SkippedBelow
    <3>2. at[l] < n /\ at[l] \in Nat
      BY <1>2 DEF n
    <3> QED
      BY <1>5, <1>8, <2>3, <3>1, <3>2
  <2>4. CASE <<k, i>> # <<l, n>>
    <3>1. taken[<<k, i>>] > 0
      BY <1>12, <2>4
    <3>2. CASE k # l
      BY <1>8, <2>1, <2>2, <3>1, <3>2
    <3>3. CASE k = l /\ j <= Reach(k)
      BY <2>1, <2>2, <3>1, <3>3
    <3>4. CASE k = l /\ j = n
      <4>1. taken'[<<k, j>>] > 0
        BY <1>12, <3>4
      <4> QED
        BY <2>1, <3>1, <4>1
    <3>5. CASE k = l /\ j > n
      BY <1>5, <1>8, <2>1, <3>1, <3>5
    <3>6. CASE k = l /\ Reach(k) < j /\ j < n
      (* What was taken is within the reach, which is then how far the owner is. *)
      <4>1. /\ i > Reach(l) => taken[<<l, i>>] <= 0
            /\ taken[<<l, i>>] \in Nat
        BY <1>12, <3>6 DEF OffsetInv, TakenInReach
      <4>2. Reach(l) > 0
        BY <1>5, <3>1, <3>6, <4>1
      <4>3. Reach(l) = at[l] /\ at[l] \in Nat
        BY <1>2, <1>3, <1>4, <4>2
      <4> QED
        BY <3>6, <4>3 DEF n
    <3> QED
      BY <1>5, <3>2, <3>3, <3>4, <3>5, <3>6
  <2> QED
    BY <2>3, <2>4
<1>15. SkippedBelow'
  <2> SUFFICES ASSUME kills = 0,
                      NEW k \in Label, NEW j \in 1..MaxMessages[k], <<k, j>> \in skipped
               PROVE  /\ j <= log[k]
                      /\ Reach(k)' > 0 => j <= Reach(k)'
                      /\ k \in Owned => j <= at'[k]
    BY <1>1, <1>4 DEF SkippedBelow
  <2>1. /\ j <= log[k]
        /\ Reach(k) > 0 => j <= Reach(k)
        /\ k \in Owned => j <= at[k]
    BY DEF OffsetInv, SkippedBelow
  <2>2. CASE k = l
    <3>1. j <= at[l] /\ at[l] < n /\ at[l] \in Nat
      BY <1>2, <1>4, <2>1, <2>2 DEF n
    <3> QED
      BY <1>5, <1>8, <2>1, <2>2, <3>1
  <2>3. CASE k # l
    <3>1. at'[k] = at[k]
      BY <1>1, <2>3 DEF OffsetInv, OffsetTypes, Offset
    <3> QED
      BY <1>8, <2>1, <2>3, <3>1
  <2> QED
    BY <2>2, <2>3
<1> QED
  BY <1>6, <1>9, <1>10, <1>11, <1>13, <1>14, <1>15 DEF OffsetInv, n

-----------------------------------------------------------------------------
(* Topics are assigned anew. *)

LEMMA RebalanceKeeps ==
  ASSUME OffsetInv, kills \in Nat, Rebalance
  PROVE  OffsetInv'
<1>1. /\ Commit(Owned)
      /\ owns' \in Assignments /\ stale' = FALSE
      /\ UNCHANGED <<log, taken, given, counted, kills>>
  BY DEF Rebalance, serviceVars
<1>2. /\ stored' = [l \in Label |-> 0]
      /\ at' = [l \in Label |-> IF \A x \in Member : l \notin owns'[x] THEN 0
                               ELSE IF committed'[l] > 0 THEN committed'[l] ELSE log[l]]
      /\ skipped' = skipped \cup {m \in Msg : at'[m[1]] >= m[2] /\ taken[m] = 0}
  BY <1>1 DEF Rebalance
<1>3. /\ committed' \in Offset
      /\ \A l \in Label : /\ committed'[l] = Reach(l)
                           /\ Reach(l) \in Nat /\ Reach(l) <= log[l] /\ log[l] \in Nat
  BY <1>1, CommitReaches DEF OffsetInv, OffsetTypes, Offset
<1>4. \A l \in Label : Reach(l)' = Reach(l)
  <2>1. \A l \in Label : stored'[l] = 0
    BY <1>2
  <2> QED
    BY <1>3, <2>1 DEF Reach
<1>5. \A l : l \in Owned' <=> ~(\A x \in Member : l \notin owns'[x])
  BY DEF Owned
<1>6. \A l \in Label : /\ stored'[l] = 0 /\ committed'[l] \in Nat
                       /\ l \notin Owned' => at'[l] = 0
                       /\ l \in Owned' /\ Reach(l) > 0 => at'[l] = Reach(l)
                       /\ l \in Owned' /\ Reach(l) = 0 => at'[l] = log[l]
  BY <1>2, <1>3, <1>5
<1>7. \A l \in Label : at'[l] \in Nat /\ at'[l] <= log[l] /\ (l \in Owned' => committed'[l] <= at'[l])
  BY <1>3, <1>6
<1>8. OffsetTypes'
  <2>1. at' \in Offset /\ stored' \in Offset
    BY <1>2, <1>7 DEF Offset
  <2> QED
    BY <1>1, <1>3, <1>6, <1>7, <2>1 DEF OffsetInv, OffsetTypes
<1>9. OwnerTypes'
  <2>1. owns' \in [Member -> SUBSET Label]
    BY <1>1 DEF Assignments
  <2>2. ASSUME NEW x \in Member, NEW y \in Member, x # y, NEW l \in Label,
               l \in owns'[x], l \in owns'[y]
        PROVE  FALSE
    <3>1. \/ {z \in Member : l \in owns'[z]} = {}
          \/ \E z \in Member : {w \in Member : l \in owns'[w]} = {z}
      BY <1>1 DEF Assignments
    <3> QED
      BY <2>2, <3>1
  <2> QED
    BY <1>1, <2>1, <2>2 DEF OwnerTypes
<1>10. HistoryTypes'
  BY <1>1, <1>2 DEF OffsetInv, HistoryTypes
<1>11. OffsetsAgree'
  <2>1. \A l \in Label : log[l] <= MaxMessages[l]
    BY DEF OffsetInv, OffsetsAgree
  <2> QED
    BY <1>1, <1>3, <1>4, <1>6, <1>7, <2>1 DEF OffsetsAgree
<1>12. TakenInReach'
  BY <1>1, <1>4 DEF OffsetInv, TakenInReach
<1>13. ASSUME NEW l \in Label, NEW j \in 1..MaxMessages[l], <<l, j>> \in skipped', <<l, j>> \notin skipped
       PROVE  j <= at'[l] /\ taken[<<l, j>>] = 0 /\ l \in Owned'
  <2>1. at'[l] >= j /\ taken[<<l, j>>] = 0
    BY <1>2, <1>13
  <2> QED
    BY <1>6, <1>7, <2>1
<1>14. NoGap'
  <2> SUFFICES ASSUME kills = 0,
                      NEW l \in Label, NEW i \in 1..MaxMessages[l], NEW j \in 1..MaxMessages[l],
                      taken[<<l, i>>] > 0, i < j
               PROVE  /\ <<l, j>> \notin skipped'
                      /\ j <= Reach(l) => taken[<<l, j>>] > 0
    BY <1>1, <1>4 DEF NoGap
  <2>1. /\ <<l, j>> \notin skipped
        /\ j <= Reach(l) => taken[<<l, j>>] > 0
    BY DEF OffsetInv, NoGap
  <2>2. Reach(l) > 0
    <3>1. /\ i > Reach(l) => taken[<<l, i>>] <= 0
          /\ taken[<<l, i>>] \in Nat
      BY MsgIs DEF OffsetInv, TakenInReach, HistoryTypes
    <3> QED
      BY <1>3, <3>1
  <2>3. ASSUME <<l, j>> \in skipped' PROVE FALSE
    <3>1. j <= at'[l] /\ taken[<<l, j>>] = 0 /\ l \in Owned'
      BY <1>13, <2>1, <2>3
    <3> QED
      BY <1>6, <2>1, <2>2, <3>1
  <2> QED
    BY <2>1, <2>3
<1>15. SkippedBelow'
  <2> SUFFICES ASSUME kills = 0,
                      NEW l \in Label, NEW j \in 1..MaxMessages[l], <<l, j>> \in skipped'
               PROVE  /\ j <= log[l]
                      /\ Reach(l) > 0 => j <= Reach(l)
                      /\ l \in Owned' => j <= at'[l]
    BY <1>1, <1>4 DEF SkippedBelow
  <2>1. CASE <<l, j>> \in skipped
    <3>1. j <= log[l] /\ (Reach(l) > 0 => j <= Reach(l))
      BY <2>1 DEF OffsetInv, SkippedBelow
    <3> QED
      BY <1>3, <1>6, <3>1
  <2>2. CASE <<l, j>> \notin skipped
    <3>1. j <= at'[l] /\ l \in Owned'
      BY <1>13, <2>2
    <3> QED
      BY <1>3, <1>6, <1>7, <3>1
  <2> QED
    BY <2>1, <2>2
<1> QED
  BY <1>8, <1>9, <1>10, <1>11, <1>12, <1>14, <1>15 DEF OffsetInv

-----------------------------------------------------------------------------
(* The page. *)

GivenInv == PageTypes /\ ServiceTypes /\ GivenIsAsked

LEMMA GivenStutter ==
  ASSUME GivenInv, UNCHANGED <<pageVars, serviceVars, owns>>
  PROVE  GivenInv'
  BY DEF GivenInv, PageTypes, ServiceTypes, GivenIsAsked, pageVars, serviceVars

LEMMA ChoiceKeeps ==
  ASSUME GivenInv, UNCHANGED <<serviceVars, owns>>,
         selector' \in Selector, asked' = selector'.chosen, reader' = 0
  PROVE  GivenInv'
<1>1. PageTypes'
  BY Bounds DEF PageTypes, Selector, Main
<1>2. ServiceTypes' /\ GivenIsAsked'
  BY DEF GivenInv, ServiceTypes, GivenIsAsked, serviceVars
<1> QED
  BY <1>1, <1>2 DEF GivenInv

LEMMA PageKeeps ==
  ASSUME GivenInv, Page
  PROVE  GivenInv' /\ UNCHANGED <<kafkaVars, historyVars, kills>>
<1>1. ASSUME NEW s \in Selector, Select(s)
      PROVE  GivenInv' /\ UNCHANGED <<kafkaVars, historyVars, kills>>
  <2>1. UNCHANGED <<serviceVars, owns>> /\ selector' = s /\ asked' = s.chosen /\ reader' = 0
    BY <1>1 DEF Select, Dispatch, kafkaVars
  <2> QED
    BY <1>1, <2>1, ChoiceKeeps DEF Select, serviceVars
<1>2. selector \in Selector
  BY DEF GivenInv, PageTypes
<1>3. ASSUME NEW l \in Label, PickTopic(l) \/ CreateTopic(l) \/ RemoveTopic(l)
      PROVE  \E s \in Selector : Select(s)
  <2>1. CASE PickTopic(l)
    <3>1. Add(selector, l) \in Selector
      BY <1>2 DEF Selector, Add
    <3> QED
      BY <2>1, <3>1 DEF PickTopic
  <2>2. CASE CreateTopic(l)
    <3>1. CreateAndAdd(selector, l) \in Selector
      BY <1>2 DEF Selector, CreateAndAdd, Add
    <3> QED
      BY <2>2, <3>1 DEF CreateTopic
  <2>3. CASE RemoveTopic(l)
    <3>1. Remove(selector, l) \in Selector
      BY <1>2 DEF Selector, Remove
    <3> QED
      BY <2>3, <3>1 DEF RemoveTopic
  <2> QED
    BY <1>3, <2>1, <2>2, <2>3
<1>4. CASE ClearTopics
  <2>1. Clear(selector) \in Selector
    BY <1>2 DEF Selector, Clear
  <2> QED
    BY <1>1, <1>4, <2>1 DEF ClearTopics
<1>5. CASE Enter
  <2>1. /\ selector' \in Selector /\ asked' = selector'.chosen /\ reader' = 0
        /\ UNCHANGED <<serviceVars, owns>>
    BY <1>5, Bounds DEF Enter, NewSelector, Selector, kafkaVars
  <2> QED
    BY <1>5, <2>1, ChoiceKeeps DEF Enter, serviceVars
<1> QED
  BY <1>1, <1>3, <1>4, <1>5 DEF Page

-----------------------------------------------------------------------------
(* Requests and what they are given. *)

LEMMA BeginKeeps ==
  ASSUME GivenInv, NEW r \in Request, Begin(r)
  PROVE  GivenInv'
<1>1. /\ sub' = [sub EXCEPT ![r] = asked] /\ reader' = r
      /\ req[r] = "none" /\ req' = [req EXCEPT ![r] = "open"]
      /\ UNCHANGED <<selector, asked, member, up, held, stops, kills, owns>>
  BY DEF Begin, CR!Begin, kafkaVars
<1>2. held[r] = {} /\ owns[r] = {} /\ sub'[r] = asked /\ r # 0
  BY <1>1, Bounds DEF GivenInv, GivenIsAsked, ServiceTypes, Main
<1>3. PageTypes' /\ ServiceTypes'
  BY <1>1, Bounds DEF GivenInv, PageTypes, ServiceTypes, CR!Active
<1>4. GivenIsAsked'
  <2> SUFFICES ASSUME NEW q \in Request
               PROVE  /\ \A m \in held[q] : m[1] \in sub'[q]
                      /\ owns[q] \subseteq sub'[q]
                      /\ member[q] # "in" => held[q] = {} /\ owns[q] = {}
                      /\ req'[q] = "none" => member[q] = "none"
    BY <1>1, <1>2 DEF GivenInv, GivenIsAsked
  <2> QED
    BY <1>1, <1>2 DEF GivenInv, GivenIsAsked, ServiceTypes
<1> QED
  BY <1>3, <1>4 DEF GivenInv

LEMMA JoinKeeps ==
  ASSUME GivenInv, NEW r \in Request, Join(r)
  PROVE  GivenInv'
<1>1. /\ req[r] \in CR!Active /\ member' = [member EXCEPT ![r] = "in"]
      /\ UNCHANGED <<pageVars, sub, req, up, held, stops, kills, owns>>
  BY DEF Join, CR!Join
<1>2. req[r] # "none"
  BY <1>1 DEF CR!Active
<1>3. PageTypes' /\ ServiceTypes'
  BY <1>1 DEF GivenInv, PageTypes, ServiceTypes, pageVars
<1>4. GivenIsAsked'
  BY <1>1, <1>2 DEF GivenInv, GivenIsAsked, ServiceTypes, pageVars
<1> QED
  BY <1>3, <1>4 DEF GivenInv

(* A listener closes, having processed its message or failed to. *)
LEMMA LeaveKeeps ==
  ASSUME GivenInv, NEW r \in Request, Leave(r), held'[r] = {},
         held' \in [Member -> SUBSET Msg], \A x \in Member : held'[x] \subseteq held[x],
         UNCHANGED <<pageVars, up, stops, kills>>
  PROVE  GivenInv'
<1>1. /\ sub' = [sub EXCEPT ![r] = {}]
      /\ member[r] = "in" /\ member' = [member EXCEPT ![r] = "out"] /\ req' = req
      /\ owns' = [x \in Member |-> owns[x] \ owns[r]]
  BY DEF Leave, CR!Leave, Release
<1>2. PageTypes' /\ ServiceTypes'
  BY <1>1 DEF GivenInv, PageTypes, ServiceTypes, pageVars
<1>3. \A q \in Request : q # r => /\ sub'[q] = sub[q] /\ member'[q] = member[q]
                                  /\ owns'[q] \subseteq owns[q] /\ held'[q] \subseteq held[q]
  BY <1>1, Bounds DEF GivenInv, ServiceTypes
<1>4. owns'[r] = {} /\ sub'[r] = {} /\ req[r] # "none"
  BY <1>1, Bounds DEF GivenInv, ServiceTypes, GivenIsAsked
<1>5. \A q \in Request : /\ \A m \in held'[q] : m[1] \in sub'[q]
                         /\ owns'[q] \subseteq sub'[q]
                         /\ member'[q] # "in" => held'[q] = {} /\ owns'[q] = {}
                         /\ req'[q] = "none" => member'[q] = "none"
  BY <1>1, <1>3, <1>4 DEF GivenInv, GivenIsAsked
<1>6. asked' = selector'.chosen /\ (reader' # 0 => sub'[reader'] \subseteq asked')
  BY <1>3, <1>4, Bounds DEF GivenInv, GivenIsAsked, PageTypes, pageVars, Member, Main
<1>7. GivenIsAsked'
  BY <1>5, <1>6, Zenon DEF GivenIsAsked
<1> QED
  BY <1>2, <1>7 DEF GivenInv

LEMMA EndKeeps ==
  ASSUME GivenInv, NEW r \in Request, End(r)
  PROVE  GivenInv'
<1>1. /\ req' = [req EXCEPT ![r] = "ended"] /\ reader' = (IF reader = r THEN 0 ELSE reader)
      /\ UNCHANGED <<selector, asked, sub, member, up, held, stops, kills, owns>>
  BY DEF End, CR!End, kafkaVars
<1>2. PageTypes' /\ ServiceTypes'
  BY <1>1, Bounds DEF GivenInv, PageTypes, ServiceTypes, Main
<1>3. GivenIsAsked'
  BY <1>1 DEF GivenInv, GivenIsAsked, ServiceTypes
<1> QED
  BY <1>2, <1>3 DEF GivenInv

LEMMA ReadGives ==
  ASSUME GivenInv, NEW x \in Member, NEW l \in Label, Read(x, l), <<l, at[l] + 1>> \in Msg, at'[l] = at[l] + 1
  PROVE  GivenInv'
<1>1. /\ l \in owns[x] /\ InGroup(x)
      /\ held' = [held EXCEPT ![x] = {<<l, at[l] + 1>>}]
      /\ UNCHANGED <<pageVars, sub, req, member, up, stops, kills, owns>>
  BY DEF Read
<1>2. PageTypes' /\ ServiceTypes'
  BY <1>1 DEF GivenInv, PageTypes, ServiceTypes, pageVars
<1>3. ASSUME NEW q \in Request
      PROVE  /\ \A m \in held'[q] : m[1] \in sub[q]
             /\ member[q] # "in" => held'[q] = {}
  <2>1. CASE q = x
    <3>1. held'[q] = {<<l, at[l] + 1>>}
      BY <1>1, <2>1 DEF GivenInv, ServiceTypes
    <3>2. l \in sub[q] /\ member[q] = "in"
      BY <1>1, <2>1, Bounds DEF GivenInv, GivenIsAsked, InGroup
    <3> QED
      BY <3>1, <3>2
  <2>2. CASE q # x
    BY <1>1, <2>2, Bounds DEF GivenInv, GivenIsAsked, ServiceTypes
  <2> QED
    BY <2>1, <2>2
<1>4. GivenIsAsked'
  BY <1>1, <1>3 DEF GivenInv, GivenIsAsked, pageVars
<1> QED
  BY <1>2, <1>4 DEF GivenInv

(* A message that was processed is let go of. *)
LEMMA LetGoKeeps ==
  ASSUME GivenInv, NEW x \in Member, held' = [held EXCEPT ![x] = {}],
         UNCHANGED <<pageVars, sub, req, member, up, stops, kills, owns>>
  PROVE  GivenInv'
<1>1. PageTypes' /\ ServiceTypes'
  BY DEF GivenInv, PageTypes, ServiceTypes, pageVars
<1>2. \A q \in Member : held'[q] \subseteq held[q]
  BY DEF GivenInv, ServiceTypes
<1>3. GivenIsAsked'
  BY <1>2, Bounds DEF GivenInv, GivenIsAsked, pageVars
<1> QED
  BY <1>1, <1>3 DEF GivenInv

-----------------------------------------------------------------------------
(* The process and the broker. *)

LEMMA BootKeeps ==
  ASSUME GivenInv, Boot
  PROVE  GivenInv'
<1>1. up' = TRUE /\ UNCHANGED <<pageVars, sub, req, member, held, stops, kills, owns>>
  BY DEF Boot
<1> QED
  BY <1>1 DEF GivenInv, PageTypes, ServiceTypes, GivenIsAsked, pageVars

LEMMA ExitGives ==
  ASSUME GivenInv, OwnerTypes, NEW clean \in BOOLEAN, Exit(clean)
  PROVE  GivenInv'
<1>1. /\ stops < MaxStops /\ stops' = stops + 1
      /\ kills' \in {kills, kills + 1}
      /\ up' = FALSE
      /\ req' = [r \in Request |-> IF req[r] \in CR!Active THEN "ended" ELSE req[r]]
      /\ member' = [r \in Request |-> IF member[r] = "in" THEN "out" ELSE member[r]]
      /\ held' = [x \in Member |-> {}]
      /\ sub' = [r \in Request |-> {}]
      /\ reader' = 0
      /\ owns' = [x \in Member |-> owns[x] \ Label]
      /\ UNCHANGED <<selector, asked>>
  BY DEF Exit, Release
<1>2. stops' \in 0..MaxStops /\ kills' \in 0..stops'
  BY <1>1, Bounds DEF GivenInv, ServiceTypes
<1>3. PageTypes'
  BY <1>1, Bounds DEF GivenInv, PageTypes, Main
<1>4. ServiceTypes'
  <2>1. req' \in [Request -> CR!Active \cup {"none", "ended"}]
    BY <1>1 DEF GivenInv, ServiceTypes
  <2>2. member' \in [Request -> {"none", "in", "out"}]
    BY <1>1 DEF GivenInv, ServiceTypes
  <2>3. held' \in [Member -> SUBSET Msg] /\ sub' \in [Request -> SUBSET Label] /\ up' \in BOOLEAN
    BY <1>1
  <2> QED
    BY <1>2, <2>1, <2>2, <2>3 DEF ServiceTypes
<1>5. \A x \in Member : owns'[x] = {}
  BY <1>1 DEF OwnerTypes
<1>6. GivenIsAsked'
  <2>1. \A r \in Request : req'[r] = "none" => member'[r] = "none"
    BY <1>1 DEF GivenInv, GivenIsAsked
  <2>2. \A r \in Request : held'[r] = {} /\ owns'[r] = {}
    BY <1>1, <1>5, Bounds
  <2>3. asked' = selector'.chosen /\ reader' = 0
    BY <1>1 DEF GivenInv, GivenIsAsked
  <2> QED
    BY <2>1, <2>2, <2>3 DEF GivenIsAsked
<1> QED
  BY <1>3, <1>4, <1>6 DEF GivenInv

LEMMA RebalanceGives ==
  ASSUME GivenInv, Rebalance
  PROVE  GivenInv'
<1>1. owns' \in Assignments /\ UNCHANGED <<pageVars, serviceVars>>
  BY DEF Rebalance
<1>2. ASSUME NEW r \in Request, NEW l \in owns'[r]
      PROVE  l \in sub[r] /\ member[r] = "in"
  <2>1. l \in Label /\ r \in Member /\ r # Main
    BY <1>1, Bounds DEF Assignments
  <2>2. \E y \in {x \in Member : InGroup(x) /\ l \in Topics(x)} : {x \in Member : l \in owns'[x]} = {y}
    BY <1>1, <2>1 DEF Assignments
  <2>3. InGroup(r) /\ l \in Topics(r)
    BY <2>1, <2>2
  <2> QED
    BY <2>1, <2>3 DEF InGroup, Topics
<1>3. \A r \in Request : owns'[r] \subseteq sub[r] /\ (member[r] # "in" => owns'[r] = {})
  BY <1>2
<1> QED
  BY <1>1, <1>3 DEF GivenInv, PageTypes, ServiceTypes, GivenIsAsked, pageVars, serviceVars

-----------------------------------------------------------------------------
(* The invariant, action by action. *)

LEMMA KillsIsNat == GivenInv => kills \in Nat
  BY Bounds DEF GivenInv, ServiceTypes

LEMMA CloseKeeps ==
  ASSUME GivenInv, OffsetInv, NEW r \in Request, Close(r) \/ EmitFails(r)
  PROVE  GivenInv' /\ OffsetInv'
<1>1. /\ Leave(r)
      /\ UNCHANGED <<pageVars, up, stops, kills, log, taken, given, counted, skipped>>
  BY DEF Close, EmitFails, historyVars
<1>2. held'[r] = {} /\ held' \in [Member -> SUBSET Msg] /\ \A x \in Member : held'[x] \subseteq held[x]
  BY Bounds DEF Close, EmitFails, GivenInv, ServiceTypes
<1>3. GivenInv'
  BY <1>1, <1>2, LeaveKeeps
<1>4. OffsetInv'
  BY <1>1, ReleaseKeeps DEF Leave
<1> QED
  BY <1>3, <1>4

LEMMA RequestKeeps ==
  ASSUME GivenInv, OffsetInv, NEW r \in Request,
         Begin(r) \/ Join(r) \/ Close(r) \/ End(r) \/ Emit(r) \/ EmitFails(r)
  PROVE  GivenInv' /\ OffsetInv'
<1>1. CASE Begin(r)
  <2>1. OffsetInv'
    BY <1>1, OffsetStutter DEF Begin, kafkaVars, historyVars, OffsetInv, OwnerTypes, HistoryTypes
  <2> QED
    BY <1>1, <2>1, BeginKeeps
<1>2. CASE Join(r)
  <2>1. OffsetInv'
    BY <1>2, OffsetStutter DEF Join, historyVars, OffsetInv, OwnerTypes, HistoryTypes
  <2> QED
    BY <1>2, <2>1, JoinKeeps
<1>3. CASE Close(r) \/ EmitFails(r)
  BY <1>3, CloseKeeps
<1>4. CASE End(r)
  <2>1. OffsetInv'
    BY <1>4, OffsetStutter DEF End, kafkaVars, historyVars, OffsetInv, OwnerTypes, HistoryTypes
  <2> QED
    BY <1>4, <2>1, EndKeeps
<1>5. CASE Emit(r)
  <2>1. OffsetInv'
    BY <1>5, OffsetStutter DEF Emit, kafkaVars, OffsetInv, OwnerTypes, HistoryTypes
  <2>2. GivenInv'
    BY <1>5, LetGoKeeps, Bounds DEF Emit, kafkaVars
  <2> QED
    BY <2>1, <2>2
<1> QED
  BY <1>1, <1>2, <1>3, <1>4, <1>5

LEMMA CountKeeps ==
  ASSUME GivenInv, OffsetInv, Count
  PROVE  GivenInv' /\ OffsetInv'
<1>1. counted' \subseteq Msg
  BY Bounds DEF Count, GivenInv, ServiceTypes, OffsetInv, HistoryTypes
<1>2. OffsetInv'
  BY <1>1, OffsetStutter DEF Count, kafkaVars, OffsetInv, OwnerTypes
<1>3. GivenInv'
  BY LetGoKeeps, Bounds DEF Count, kafkaVars
<1> QED
  BY <1>2, <1>3

LEMMA ExitKeeps ==
  ASSUME GivenInv, OffsetInv, NEW clean \in BOOLEAN, Exit(clean)
  PROVE  GivenInv' /\ OffsetInv'
<1>1. GivenInv'
  BY ExitGives DEF OffsetInv
<1>2. /\ Release(Label) /\ kills \in Nat
      /\ log' = log /\ taken' = taken /\ given' = given /\ counted' = counted /\ skipped' = skipped
  BY KillsIsNat DEF Exit, historyVars
<1>3. CASE Commit(Owned) /\ kills' = kills
  BY <1>1, <1>2, <1>3, ReleaseKeeps
<1>4. CASE kills' = kills + 1 /\ committed' = committed
  BY <1>1, <1>2, <1>4, KillKeeps
<1> QED
  BY <1>3, <1>4 DEF Exit

LEMMA IInvParts == IInv <=> GivenInv /\ OffsetInv
  BY IInvIs, Zenon DEF GivenInv

LEMMA NextIInv == IInv /\ [Next]_vars => IInv'
<1>0. IInv' <=> GivenInv' /\ OffsetInv'
  BY IInvParts, PTL
<1> SUFFICES ASSUME GivenInv, OffsetInv, [Next]_vars
             PROVE  GivenInv' /\ OffsetInv'
  BY <1>0, IInvParts, Zenon
<1>1. CASE Page
  <2>1. GivenInv' /\ UNCHANGED <<kafkaVars, historyVars, kills>>
    BY <1>1, PageKeeps
  <2>2. OffsetInv'
    BY <2>1, OffsetStutter DEF kafkaVars, historyVars, OffsetInv, OwnerTypes, HistoryTypes
  <2> QED
    BY <2>1, <2>2
<1>2. ASSUME NEW r \in Request, Begin(r) \/ Join(r) \/ Close(r) \/ End(r) \/ Emit(r) \/ EmitFails(r)
      PROVE  GivenInv' /\ OffsetInv'
  BY <1>2, RequestKeeps
<1>3. ASSUME NEW x \in Member, NEW l \in Label, Read(x, l)
      PROVE  GivenInv' /\ OffsetInv'
  <2>1. OffsetInv' /\ <<l, at[l] + 1>> \in Msg
    BY <1>3, KillsIsNat, ReadKeeps
  <2>2. at'[l] = at[l] + 1
    BY <1>3 DEF Read, OffsetInv, OffsetTypes, Offset
  <2>3. GivenInv'
    BY <1>3, <2>1, <2>2, ReadGives
  <2> QED
    BY <2>1, <2>3
<1>4. CASE Count
  BY <1>4, CountKeeps
<1>5. CASE Boot
  <2>1. OffsetInv'
    BY <1>5, OffsetStutter DEF Boot, historyVars, OffsetInv, HistoryTypes
  <2> QED
    BY <1>5, <2>1, BootKeeps
<1>6. ASSUME NEW clean \in BOOLEAN, Exit(clean)
      PROVE  GivenInv' /\ OffsetInv'
  BY <1>6, ExitKeeps
<1>7. ASSUME NEW l \in Label, Publish(l) \/ AutoCommit(l)
      PROVE  GivenInv' /\ OffsetInv'
  <2>1. GivenInv'
    BY <1>7, GivenStutter DEF Publish, AutoCommit
  <2> QED
    BY <1>7, <2>1, PublishKeeps, AutoCommitKeeps
<1>8. CASE Rebalance
  BY <1>8, KillsIsNat, RebalanceKeeps, RebalanceGives
<1>9. CASE UNCHANGED vars
  BY <1>9, GivenStutter, OffsetStutter
     DEF vars, kafkaVars, historyVars, serviceVars, OffsetInv, OwnerTypes, HistoryTypes
<1> QED
  BY <1>1, <1>2, <1>3, <1>4, <1>5, <1>6, <1>7, <1>8, <1>9 DEF Next

LEMMA IInvAlways == Spec => []IInv
  BY InitIInv, NextIInv, PTL DEF Spec, Safety

(* The group, the requests, the page and the offsets are always of their types, and a topic never
   has two owners (Assignments is all that hands topics out). *)
THEOREM TypeCorrect == Spec => []TypeOK
  BY IInvAlways, PTL DEF IInv

(* A message is taken once, whoever joins, leaves, closes or is cut off, and at most once more for
   every kill of the process. *)
THEOREM TakenOnceAlways == Spec => []TakenOnce
<1>1. IInv => TakenOnce
  <2> SUFFICES ASSUME IInv, NEW m \in Msg PROVE taken[m] <= 1 + kills
    BY DEF TakenOnce
  <2>1. m[1] \in Label /\ m[2] \in 1..MaxMessages[m[1]] /\ m = <<m[1], m[2]>>
    BY MsgParts
  <2>2. taken[<<m[1], m[2]>>] <= 1 + kills
    BY <2>1 DEF IInv, TakenInReach
  <2> QED
    BY <2>1, <2>2
<1> QED
  BY <1>1, IInvAlways, PTL

(* auto.offset.reset skips only what is older than anything the group has taken. *)
THEOREM NoneSkippedAfterFirstAlways == Spec => []NoneSkippedAfterFirst
<1>1. IInv => NoneSkippedAfterFirst
  <2> SUFFICES ASSUME IInv, NEW l \in Label,
                      NEW i \in 1..MaxMessages[l], NEW j \in 1..MaxMessages[l],
                      i < j, taken[<<l, i>>] > 0, <<l, j>> \in skipped
               PROVE  kills > 0
    BY DEF NoneSkippedAfterFirst
  <2>1. kills # 0
    BY DEF IInv, NoGap
  <2>2. kills \in Nat
    BY KillsIsNat, IInvParts
  <2> QED
    BY <2>1, <2>2
<1> QED
  BY <1>1, IInvAlways, PTL

(* What the page is about to show is of a topic that its selector displays. *)
THEOREM ShownIsDisplayedAlways == Spec => []ShownIsDisplayed
<1>1. IInv => ShownIsDisplayed
  BY Bounds DEF IInv, TypeOK, GivenIsAsked, ShownIsDisplayed, Member, Main
<1> QED
  BY <1>1, IInvAlways, PTL

-----------------------------------------------------------------------------
(* Where a message has gone, as long as the process was not killed. *)

(* Main counts what it takes, and a request is given it. *)
TakenIsUsed ==
    kills = 0 => \A m \in Msg : taken[m] > 0 => m \in counted \cup given \cup held[Main]

(* How far the owner of a topic is, or its next owner will be. *)
Passed(l) == IF l \in Owned THEN at[l] ELSE Reach(l)

PassedIsTaken ==
    kills = 0 =>
        \A l \in Label : \A j \in 1..MaxMessages[l] :
            j <= Passed(l) => taken[<<l, j>>] > 0 \/ <<l, j>> \in skipped

(* The safety in EvidentUnlessShared. *)
PassedIsSeen ==
    kills = 0 =>
        \A m \in Msg :
            m[2] <= Reach(m[1]) => m \in counted \cup given \cup skipped \cup held[Main]

LEMMA ReachInPassed ==
  ASSUME OffsetInv, NEW l \in Label
  PROVE  Reach(l) \in Nat /\ Passed(l) \in Nat /\ at[l] \in Nat /\ Reach(l) <= Passed(l)
<1>1. stored[l] \in Nat /\ committed[l] \in Nat /\ at[l] \in Nat
  BY DEF OffsetInv, OffsetTypes, Offset
<1>2. l \in Owned => Reach(l) \in {0, at[l]}
  BY DEF OffsetInv, OffsetsAgree
<1>3. Reach(l) \in Nat
  BY <1>1 DEF Reach
<1> QED
  BY <1>1, <1>2, <1>3 DEF Passed

(* Who leaves or commits passes over nothing. *)
LEMMA PassedKept ==
  ASSUME OffsetInv, PassedIsTaken, UNCHANGED <<taken, skipped, kills>>,
         \A l \in Label : Reach(l)' = Reach(l) /\ (l \in Owned' => l \in Owned /\ at'[l] = at[l])
  PROVE  PassedIsTaken'
<1> SUFFICES ASSUME kills = 0, NEW l \in Label, NEW j \in 1..MaxMessages[l], j <= Passed(l)'
             PROVE  j <= Passed(l)
  BY DEF PassedIsTaken
<1>1. Reach(l) \in Nat /\ Passed(l) \in Nat /\ Reach(l) <= Passed(l)
  BY ReachInPassed
<1>2. Passed(l)' = (IF l \in Owned' THEN at'[l] ELSE Reach(l)')
  BY DEF Passed
<1>3. Passed(l)' = Passed(l) \/ Passed(l)' = Reach(l)
  BY <1>2 DEF Passed
<1> QED
  BY <1>1, <1>3

LEMMA ReadPasses ==
  ASSUME OffsetInv, PassedIsTaken, NEW x \in Member, NEW l \in Label, Read(x, l), <<l, at[l] + 1>> \in Msg
  PROVE  PassedIsTaken'
<1>1. /\ l \in owns[x] /\ at' = [at EXCEPT ![l] = at[l] + 1] /\ at'[l] = at[l] + 1
      /\ taken' = [taken EXCEPT ![<<l, at[l] + 1>>] = @ + 1]
      /\ \A k \in Label : k # l => at'[k] = at[k] /\ stored'[k] = stored[k]
      /\ UNCHANGED <<owns, committed, skipped, kills>>
  BY DEF Read, OffsetInv, OffsetTypes, Offset
<1>2. l \in Owned /\ Owned' = Owned
  BY <1>1 DEF Owned
<1>3. Passed(l) = at[l] /\ Passed(l)' = at[l] + 1
  BY <1>1, <1>2 DEF Passed
<1>4. \A k \in Label : k # l => Passed(k)' = Passed(k)
  BY <1>1, <1>2 DEF Passed, Reach
<1>5. ASSUME NEW k \in Label, NEW j \in 1..MaxMessages[k]
      PROVE  /\ taken[<<k, j>>] > 0 => taken'[<<k, j>>] > 0
             /\ k = l /\ j = at[l] + 1 => taken'[<<k, j>>] > 0
  <2>1. <<k, j>> \in Msg /\ taken \in [Msg -> Nat]
    BY MsgIs DEF OffsetInv, HistoryTypes
  <2>2. taken[<<k, j>>] \in Nat
    BY <2>1
  <2>3. CASE k = l /\ j = at[l] + 1
    <3>1. taken'[<<k, j>>] = taken[<<k, j>>] + 1
      BY <1>1, <2>1, <2>3
    <3> QED
      BY <2>2, <3>1
  <2>4. CASE <<k, j>> # <<l, at[l] + 1>>
    BY <1>1, <2>1, <2>4
  <2> QED
    BY <2>3, <2>4
<1> SUFFICES ASSUME kills = 0, NEW k \in Label, NEW j \in 1..MaxMessages[k], j <= Passed(k)'
             PROVE  taken'[<<k, j>>] > 0 \/ <<k, j>> \in skipped
  BY <1>1 DEF PassedIsTaken
<1>6. j <= Passed(k) => taken[<<k, j>>] > 0 \/ <<k, j>> \in skipped
  BY DEF PassedIsTaken
<1>7. CASE k = l
  <2>1. j <= at[l] \/ j = at[l] + 1
    BY <1>3, <1>7, ReachInPassed
  <2> QED
    BY <1>3, <1>5, <1>6, <1>7, <2>1
<1>8. CASE k # l
  BY <1>4, <1>5, <1>6, <1>8
<1> QED
  BY <1>7, <1>8

(* What an owner begins behind was taken, or is passed over now. *)
LEMMA RebalancePasses ==
  ASSUME OffsetInv, PassedIsTaken, Rebalance
  PROVE  PassedIsTaken'
<1>1. /\ Commit(Owned)
      /\ stored' = [l \in Label |-> 0]
      /\ skipped' = skipped \cup {m \in Msg : at'[m[1]] >= m[2] /\ taken[m] = 0}
      /\ UNCHANGED <<taken, kills>>
  BY DEF Rebalance, serviceVars
<1>2. \A l \in Label : Reach(l)' = Reach(l)
  <2>1. \A l \in Label : stored'[l] = 0 /\ committed'[l] = Reach(l)
    BY <1>1, CommitReaches
  <2> QED
    BY <2>1 DEF Reach
<1> SUFFICES ASSUME kills = 0, NEW l \in Label, NEW j \in 1..MaxMessages[l], j <= Passed(l)'
             PROVE  taken[<<l, j>>] > 0 \/ <<l, j>> \in skipped'
  BY <1>1 DEF PassedIsTaken
<1>3. <<l, j>> \in Msg /\ taken[<<l, j>>] \in Nat
  BY MsgIs DEF OffsetInv, HistoryTypes
<1>4. Passed(l)' = (IF l \in Owned' THEN at'[l] ELSE Reach(l)')
  BY DEF Passed
<1>5. CASE l \in Owned'
  <2>1. at'[l] \in Nat
    BY CommitReaches, <1>1 DEF Rebalance, Offset, OffsetInv, OffsetTypes
  <2> QED
    BY <1>1, <1>3, <1>4, <1>5, <2>1
<1>6. CASE l \notin Owned'
  <2>1. j <= Passed(l)
    BY <1>2, <1>4, <1>6, ReachInPassed
  <2> QED
    BY <1>1, <2>1 DEF PassedIsTaken
<1> QED
  BY <1>5, <1>6

LEMMA ReadUses ==
  ASSUME GivenInv, OffsetInv, TakenIsUsed, NEW x \in Member, NEW l \in Label, Read(x, l),
         <<l, at[l] + 1>> \in Msg
  PROVE  TakenIsUsed'
<1> DEFINE m0 == <<l, at[l] + 1>>
<1>1. /\ held[x] = {} /\ held' = [held EXCEPT ![x] = {m0}]
      /\ taken' = [taken EXCEPT ![m0] = @ + 1]
      /\ given' = IF x = Main THEN given ELSE given \cup held'[x]
      /\ UNCHANGED <<counted, kills>>
  BY DEF Read, OffsetInv, OffsetTypes, Offset
<1>2. /\ held'[x] = {m0} /\ \A y \in Member : y # x => held'[y] = held[y]
      /\ taken \in [Msg -> Nat] /\ Main \in Member
  BY <1>1, Bounds DEF GivenInv, ServiceTypes, OffsetInv, HistoryTypes
<1> SUFFICES ASSUME kills = 0, NEW m \in Msg, taken'[m] > 0
             PROVE  m \in counted \cup given' \cup held'[Main]
  BY <1>1 DEF TakenIsUsed
<1>3. CASE m = m0
  BY <1>1, <1>2, <1>3
<1>4. CASE m # m0
  <2>1. m \in counted \cup given \cup held[Main]
    BY <1>1, <1>2, <1>4 DEF TakenIsUsed
  <2> QED
    BY <1>1, <1>2, <2>1
<1> QED
  BY <1>3, <1>4

(* What main holds is counted before it is let go of, unless the process is killed. *)
LEMMA LetGoUses ==
  ASSUME TakenIsUsed, UNCHANGED taken, kills' = kills, given' = given,
         held'[Main] = held[Main] \/ held[Main] \subseteq counted',
         counted \subseteq counted'
  PROVE  TakenIsUsed'
  BY DEF TakenIsUsed

LEMMA StepSeen ==
  IInv /\ TakenIsUsed /\ PassedIsTaken /\ [Next]_vars => TakenIsUsed' /\ PassedIsTaken'
<1> SUFFICES ASSUME GivenInv, OffsetInv, TakenIsUsed, PassedIsTaken, [Next]_vars
             PROVE  TakenIsUsed' /\ PassedIsTaken'
  BY IInvParts, Zenon
<1>0. held \in [Member -> SUBSET Msg] /\ kills \in Nat
  BY KillsIsNat DEF GivenInv, ServiceTypes
<1>1. ASSUME UNCHANGED <<held, counted, given, taken, skipped, kills, owns, at, stored, committed>>
      PROVE  TakenIsUsed' /\ PassedIsTaken'
  <2>1. UNCHANGED Owned /\ \A l : Reach(l)' = Reach(l)
    BY <1>1 DEF Owned, Reach
  <2>2. PassedIsTaken'
    BY <1>1, <2>1, PassedKept
  <2> QED
    BY <1>1, <2>2, LetGoUses
<1>2. CASE Page
  BY <1>1, <1>2, PageKeeps
     DEF Page, PickTopic, CreateTopic, RemoveTopic, ClearTopics, Enter, Select, serviceVars,
         kafkaVars, historyVars
<1>3. ASSUME NEW r \in Request, Begin(r) \/ Join(r) \/ End(r) PROVE TakenIsUsed' /\ PassedIsTaken'
  BY <1>1, <1>3 DEF Begin, Join, End, kafkaVars, historyVars
<1>4. ASSUME NEW r \in Request, Close(r) \/ EmitFails(r) PROVE TakenIsUsed' /\ PassedIsTaken'
  <2>1. Leave(r) /\ UNCHANGED <<kills, log, taken, given, counted, skipped>> /\ held'[Main] = held[Main]
    BY <1>0, <1>4, Bounds DEF Close, EmitFails, historyVars
  <2>2. \A l \in Label : Reach(l)' = Reach(l) /\ (l \in Owned' => l \in Owned /\ at'[l] = at[l])
    BY <2>1, ReleaseKeeps DEF Leave
  <2> QED
    BY <2>1, <2>2, PassedKept, LetGoUses
<1>5. ASSUME NEW r \in Request, Emit(r) PROVE TakenIsUsed' /\ PassedIsTaken'
  <2>1. /\ held'[Main] = held[Main]
        /\ UNCHANGED <<counted, given, taken, skipped, kills, owns, at, stored, committed>>
    BY <1>0, <1>5, Bounds DEF Emit, kafkaVars
  <2>2. UNCHANGED Owned /\ \A l : Reach(l)' = Reach(l)
    BY <2>1 DEF Owned, Reach
  <2> QED
    BY <2>1, <2>2, PassedKept, LetGoUses
<1>6. ASSUME NEW x \in Member, NEW l \in Label, Read(x, l) PROVE TakenIsUsed' /\ PassedIsTaken'
  BY <1>0, <1>6, ReadKeeps, ReadPasses, ReadUses
<1>7. CASE Count
  <2>1. /\ held[Main] \subseteq counted' /\ counted \subseteq counted'
        /\ UNCHANGED <<given, taken, skipped, kills, owns, at, stored, committed>>
    BY <1>7 DEF Count, kafkaVars
  <2>2. UNCHANGED Owned /\ \A l : Reach(l)' = Reach(l)
    BY <2>1 DEF Owned, Reach
  <2> QED
    BY <2>1, <2>2, PassedKept, LetGoUses
<1>8. CASE Boot
  BY <1>1, <1>8 DEF Boot, historyVars
<1>9. ASSUME NEW clean \in BOOLEAN, Exit(clean) PROVE TakenIsUsed' /\ PassedIsTaken'
  <2>1. Release(Label) /\ UNCHANGED <<log, taken, given, counted, skipped>>
    BY <1>9 DEF Exit, historyVars
  <2>2. CASE Commit(Owned) /\ kills' = kills /\ \A x \in Member : held[x] = {}
    <3>1. held[Main] \subseteq counted'
      BY <2>2, Bounds
    <3>2. \A l \in Label : Reach(l)' = Reach(l) /\ (l \in Owned' => l \in Owned /\ at'[l] = at[l])
      BY <2>1, <2>2, ReleaseKeeps
    <3> QED
      BY <2>1, <2>2, <3>1, <3>2, PassedKept, LetGoUses
  <2>3. CASE kills' = kills + 1
    <3>1. kills' # 0
      BY <1>0, <2>3
    <3> QED
      BY <3>1 DEF TakenIsUsed, PassedIsTaken
  <2> QED
    BY <1>9, <2>2, <2>3 DEF Exit
<1>10. ASSUME NEW l \in Label, Publish(l) PROVE TakenIsUsed' /\ PassedIsTaken'
  BY <1>1, <1>10 DEF Publish, serviceVars, historyVars
<1>11. ASSUME NEW l \in Label, AutoCommit(l) PROVE TakenIsUsed' /\ PassedIsTaken'
  <2>1. UNCHANGED <<held, counted, given, taken, skipped, kills, at>>
    BY <1>11 DEF AutoCommit, serviceVars, historyVars
  <2>2. Owned' = Owned /\ \A k \in Label : Reach(k)' = Reach(k)
    BY <1>11, AutoCommitKeeps
  <2> QED
    BY <2>1, <2>2, PassedKept, LetGoUses
<1>12. CASE Rebalance
  BY <1>12, RebalancePasses, LetGoUses DEF Rebalance, serviceVars
<1>13. CASE UNCHANGED vars
  BY <1>1, <1>13 DEF vars, serviceVars, kafkaVars, historyVars
<1> QED
  BY <1>2, <1>3, <1>4, <1>5, <1>6, <1>7, <1>8, <1>9, <1>10, <1>11, <1>12, <1>13 DEF Next

(* Unless the process is killed, the offset of the group passes no message unseen: each is in the
   count or about to be, was given to a request, or was there before the group. *)
THEOREM PassedIsSeenAlways == Spec => []PassedIsSeen
<1>1. Init => TakenIsUsed /\ PassedIsTaken
  <2> SUFFICES ASSUME Init PROVE TakenIsUsed /\ PassedIsTaken
    OBVIOUS
  <2>1. TakenIsUsed
    BY DEF Init, TakenIsUsed
  <2>2. \A l \in Label : Passed(l) = 0
    BY DEF Init, Passed, Reach
  <2>3. \A l \in Label : \A j \in 1..MaxMessages[l] : ~(j <= 0)
    BY Bounds
  <2> QED
    BY <2>1, <2>2, <2>3 DEF PassedIsTaken
<1>2. IInv /\ TakenIsUsed /\ PassedIsTaken => PassedIsSeen
  <2> SUFFICES ASSUME OffsetInv, TakenIsUsed, PassedIsTaken, kills = 0,
                      NEW m \in Msg, m[2] <= Reach(m[1])
               PROVE  m \in counted \cup given \cup skipped \cup held[Main]
    BY IInvParts, Zenon DEF PassedIsSeen
  <2>1. m[1] \in Label /\ m[2] \in 1..MaxMessages[m[1]] /\ m = <<m[1], m[2]>>
    BY MsgParts
  <2>2. m[2] <= Passed(m[1])
    <3>1. m[2] \in Nat
      BY <2>1, Bounds
    <3>2. Reach(m[1]) \in Nat /\ Passed(m[1]) \in Nat /\ Reach(m[1]) <= Passed(m[1])
      BY <2>1, ReachInPassed
    <3> QED
      BY <3>1, <3>2
  <2>3. taken[m] > 0 \/ m \in skipped
    BY <2>1, <2>2 DEF PassedIsTaken
  <2> QED
    BY <2>3 DEF TakenIsUsed
<1> QED
  BY <1>1, <1>2, IInvAlways, StepSeen, PTL DEF Spec, Safety
=============================================================================
