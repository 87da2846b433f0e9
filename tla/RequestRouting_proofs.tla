------------------------ MODULE RequestRouting_proofs ------------------------
(***************************************************************************)
(* The start barrier and the routing of requests, for every capacity of    *)
(* the pairs and every set of requests of TMS.                             *)
(***************************************************************************)
EXTENDS RequestRouting, FiniteSetTheorems, TLAPS

-----------------------------------------------------------------------------
(* The barrier.  Why nobody is missing: the counter is the number of       *)
(* services that counted themselves, and there are six of them.            *)

Counted == {s \in Services : svc[s] = "counted"}

\* What a step of the start-up preserves.
BarrierInv ==
  /\ BarrierTypeOK
  /\ cnt = Cardinality(Counted)
  /\ main = "run" => cnt >= Needed

\* The six services are six.
LEMMA SixServices == IsFiniteSet(Services) /\ Cardinality(Services) = 6
<1> DEFINE A == {"broadcast"}  B == A \union {"fep"}  C == B \union {"bdaudio"}
           D == C \union {"ioinput"}  E == D \union {"train"}  F == E \union {"udp"}
<1>1. IsFiniteSet(A) /\ Cardinality(A) = 1
  BY FS_Singleton
<1>2. IsFiniteSet(B) /\ Cardinality(B) = 2
  <2>1. "fep" \notin A
    OBVIOUS
  <2> QED  BY <1>1, <2>1, FS_AddElement
<1>3. IsFiniteSet(C) /\ Cardinality(C) = 3
  <2>1. "bdaudio" \notin B
    OBVIOUS
  <2> QED  BY <1>2, <2>1, FS_AddElement
<1>4. IsFiniteSet(D) /\ Cardinality(D) = 4
  <2>1. "ioinput" \notin C
    OBVIOUS
  <2> QED  BY <1>3, <2>1, FS_AddElement
<1>5. IsFiniteSet(E) /\ Cardinality(E) = 5
  <2>1. "train" \notin D
    OBVIOUS
  <2> QED  BY <1>4, <2>1, FS_AddElement
<1>6. IsFiniteSet(F) /\ Cardinality(F) = 6
  <2>1. "udp" \notin E
    OBVIOUS
  <2> QED  BY <1>5, <2>1, FS_AddElement
<1>7. Services = F
  BY DEF Services, Created
<1> QED  BY <1>6, <1>7

LEMMA CountedBound ==
  IsFiniteSet(Counted) /\ Cardinality(Counted) \in 0..6
<1>1. Counted \subseteq Services
  BY DEF Counted
<1>2. IsFiniteSet(Counted) /\ Cardinality(Counted) <= 6
  BY <1>1, SixServices, FS_Subset
<1>3. Cardinality(Counted) \in Nat
  BY <1>2, FS_CardinalityType
<1> QED  BY <1>2, <1>3

LEMMA BarrierStart == BarrierInit => BarrierInv
<1> SUFFICES ASSUME BarrierInit PROVE BarrierInv
  OBVIOUS
<1>1. Counted = {}
  BY DEF BarrierInit, Counted
<1>2. Cardinality(Counted) = 0
  BY <1>1, FS_EmptySet
<1>3. BarrierTypeOK
  <2>1. svc \in [Services -> {"off", "begun", "connected", "counted", "gone"}]
    BY DEF BarrierInit
  <2>2. main = "train" /\ cnt = 0 /\ aborted = FALSE /\ missed = FALSE
    BY DEF BarrierInit
  <2>3. cnt \in 0..6
    BY <2>2
  <2> QED  BY <2>1, <2>2, <2>3, Zenon DEF BarrierTypeOK
<1>4. cnt = 0 /\ main # "run"
  BY DEF BarrierInit
<1> QED  BY <1>2, <1>3, <1>4 DEF BarrierInv

\* A step that lets no service count itself leaves the number as it is.
LEMMA SameCount ==
  ASSUME BarrierInv, BarrierTypeOK', cnt' = cnt,
         \A s \in Services : svc'[s] = "counted" <=> svc[s] = "counted",
         main' = "run" => main = "run" \/ cnt >= Needed
  PROVE  BarrierInv'
<1>1. Counted' = Counted
  BY DEF Counted
<1> QED  BY <1>1 DEF BarrierInv

LEMMA CountStep ==
  ASSUME BarrierInv, NEW s \in Services, Count(s)
  PROVE  BarrierInv'
<1>1. s \notin Counted /\ Counted' = Counted \union {s}
  BY DEF BarrierInv, BarrierTypeOK, Count, Counted
<1>2. Cardinality(Counted') = Cardinality(Counted) + 1
  BY <1>1, CountedBound, FS_AddElement
<1>3. cnt' = Cardinality(Counted')
  BY <1>2 DEF BarrierInv, Count
<1>4. Cardinality(Counted') \in 0..6
  BY CountedBound, SixServices, <1>1, FS_Subset, FS_CardinalityType DEF Counted
<1>5. BarrierTypeOK'
  BY <1>3, <1>4 DEF BarrierInv, BarrierTypeOK, Count, Needed
<1>6. main' = "run" => cnt' >= Needed
  BY DEF BarrierInv, BarrierTypeOK, Count, Needed
<1> QED  BY <1>3, <1>5, <1>6 DEF BarrierInv

LEMMA CreateStep ==
  ASSUME BarrierInv, NEW s \in Services, Create(s),
         main' \in {"train", "udp", "look", "wait", "asleep", "run"},
         main' = "run" => main = "run"
  PROVE  BarrierInv'
<1>1. PICK outcome \in {"begun", "gone"} : svc' = [svc EXCEPT ![s] = outcome]
  BY DEF Create
<1>2. BarrierTypeOK'
  BY <1>1 DEF BarrierInv, BarrierTypeOK, Create
<1>3. \A t \in Services : svc'[t] = "counted" <=> svc[t] = "counted"
  BY <1>1 DEF BarrierInv, BarrierTypeOK, Create
<1>4. cnt' = cnt
  BY DEF Create
<1> QED  BY <1>2, <1>3, <1>4, SameCount

\* Every step of the start-up preserves it.
LEMMA BarrierStep == BarrierInv /\ [BarrierNext]_barrier => BarrierInv'
<1> SUFFICES ASSUME BarrierInv, [BarrierNext]_barrier PROVE BarrierInv'
  OBVIOUS
<1>1. CASE MainCreate
  BY <1>1, CreateStep DEF MainCreate, Services
<1>2. CASE TrainCreate
  <2>1. main' = main /\ \E s \in Created : Create(s)
    BY <1>2 DEF TrainCreate, Created
  <2> QED  BY <2>1, CreateStep DEF Services, BarrierInv, BarrierTypeOK
<1>3. CASE Look
  <2>1. BarrierTypeOK'
    BY <1>3 DEF BarrierInv, BarrierTypeOK, Look
  <2> QED  BY <1>3, <2>1, SameCount DEF Look, BarrierInv, BarrierTypeOK, Needed
<1>4. CASE Wait \/ WakeUnasked
  <2>1. BarrierTypeOK'
    BY <1>4 DEF BarrierInv, BarrierTypeOK, Wait, WakeUnasked
  <2> QED  BY <1>4, <2>1, SameCount DEF Wait, WakeUnasked
<1>5. ASSUME NEW s \in Services, Connect(s) \/ Fail(s) PROVE BarrierInv'
  <2>1. BarrierTypeOK'
    BY <1>5 DEF BarrierInv, BarrierTypeOK, Connect, Fail
  <2>2. \A t \in Services : svc'[t] = "counted" <=> svc[t] = "counted"
    BY <1>5 DEF BarrierInv, BarrierTypeOK, Connect, Fail
  <2> QED  BY <1>5, <2>1, <2>2, SameCount DEF Connect, Fail
<1>6. ASSUME NEW s \in Services, Count(s) PROVE BarrierInv'
  BY <1>6, CountStep
<1>7. CASE LoopFails
  <2>1. BarrierTypeOK'
    BY <1>7 DEF BarrierInv, BarrierTypeOK, LoopFails
  <2> QED  BY <1>7, <2>1, SameCount DEF LoopFails
<1>8. CASE UNCHANGED barrier
  <2>1. BarrierTypeOK'
    BY <1>8 DEF barrier, BarrierInv, BarrierTypeOK
  <2> QED  BY <1>8, <2>1, SameCount DEF barrier
<1> QED
  BY <1>1, <1>2, <1>3, <1>4, <1>5, <1>6, <1>7, <1>8
     DEF BarrierNext, MainSteps, Mishap, ServiceSteps

LEMMA AllCounted == BarrierInv => NobodyMissing
<1> SUFFICES ASSUME BarrierInv, main = "run" PROVE \A s \in Services : svc[s] = "counted"
  BY DEF NobodyMissing
<1>1. Cardinality(Counted) = Cardinality(Services)
  BY CountedBound, SixServices DEF BarrierInv, Needed
<1>2. Counted \subseteq Services
  BY DEF Counted
<1>3. Counted = Services
  BY <1>1, <1>2, SixServices, FS_Subset
<1> QED  BY <1>3 DEF Counted

\* Why main sleeps: what SleepsForAReason says of the services, said of the counter.
FullMissed == main \in {"wait", "asleep"} /\ cnt >= Needed => missed

LEMMA FullMissedStep == BarrierInv /\ FullMissed /\ [BarrierNext]_barrier => FullMissed'
<1> SUFFICES ASSUME BarrierInv, FullMissed, [BarrierNext]_barrier PROVE FullMissed'
  OBVIOUS
<1>1. cnt \in 0..6
  BY DEF BarrierInv, BarrierTypeOK
<1>2. CASE UNCHANGED <<main, cnt, missed>>
  BY <1>2 DEF FullMissed
<1>3. CASE MainCreate \/ WakeUnasked
  BY <1>3 DEF MainCreate, WakeUnasked, FullMissed
<1>4. CASE Look \/ Wait
  BY <1>1, <1>4 DEF Look, Wait, FullMissed, Needed
<1>5. ASSUME NEW s \in Services, Count(s) PROVE FullMissed'
  <2>1. cnt' \in 0..6
    BY <1>5, CountStep DEF BarrierInv, BarrierTypeOK
  <2>2. CASE main = "asleep"
    BY <1>5, <2>2 DEF Count, FullMissed
  <2>3. CASE main # "asleep"
    <3>1. cnt' >= Needed => cnt' = Needed
      BY <2>1 DEF Needed
    <3>2. main' = main /\ missed' = (missed \/ (main = "wait" /\ cnt' = Needed))
      BY <1>5, <2>3 DEF Count
    <3> QED  BY <2>3, <3>1, <3>2, Zenon DEF FullMissed
  <2> QED  BY <2>2, <2>3
<1> QED
  BY <1>2, <1>3, <1>4, <1>5
     DEF BarrierNext, MainSteps, Mishap, ServiceSteps, TrainCreate, Create, Connect, Fail,
         LoopFails, barrier

LEMMA SleepReason == BarrierInv /\ FullMissed => SleepsForAReason
<1> SUFFICES ASSUME BarrierInv, FullMissed, main \in {"wait", "asleep"},
                    \A s \in Services : svc[s] = "counted"
             PROVE  missed
  BY DEF SleepsForAReason
<1>1. Counted = Services
  BY DEF Counted
<1>2. cnt = 6
  BY <1>1, SixServices DEF BarrierInv
<1> QED  BY <1>2 DEF FullMissed, Needed

-----------------------------------------------------------------------------
(* The domains.                                                            *)

LEMMA MessageFields ==
  ASSUME NEW r \in Messages
  PROVE  /\ r.op \in {"play", "stop", "clock"}
         /\ r = Clock \/ (r \in Requests /\ r # Clock)
BY DEF Messages, Clock, Requests

\* A message that is sent is a message, and a pair takes it only if it fits.
LEMMA SendTyped ==
  ASSUME TypeOK, NEW s \in Sources, NEW r \in Messages, Send(s, r)
  PROVE  pair' \in [Sources -> Seq(Messages)] /\ \A t \in Sources : Len(pair'[t]) <= PairMax
BY RoutingAssumption DEF TypeOK, Send, Fits

LEMMA PostTyped ==
  ASSUME TypeOK, NEW r \in Messages, Post(r)
  PROVE  inbox' \in Seq(Messages) /\ Len(inbox') <= InboxMax
BY InboxAssumption DEF TypeOK, Post, Room

\* What is played has a row.
JobRowed == job.op \in {"play", "begin"} => job.bd \in Rowed

\* One step of the thread that announces.
LEMMA AnnouncerTyped ==
  ASSUME TypeOK, JobRowed, (Serve /\ Head(inbox) # Clock) \/ Over \/ Clear \/ Begin
  PROVE  /\ inbox' \in Seq(Messages) /\ Len(inbox') <= InboxMax
         /\ type' \in Rowed \union {None}
         /\ job' \in [op : {"play", "stop", "timer", "begin", "none"},
                       dev : {"tms", "pisc", "none"}, bd : Rowed \union {"urgent", None}]
         /\ JobRowed'
<1> USE DEF TypeOK, JobRowed
<1>1. CASE Serve /\ Head(inbox) # Clock
  <2>1. Head(inbox) \in Messages /\ Tail(inbox) \in Seq(Messages) /\ Len(Tail(inbox)) <= InboxMax
    BY <1>1, InboxAssumption DEF Serve
  <2>2. Head(inbox) \in Requests
    BY <1>1, <2>1 DEF Messages
  <2> QED  BY <1>1, <2>1, <2>2 DEF Serve, Requests
<1>2. CASE Over
  BY <1>2 DEF Over, Tick, None
<1>3. CASE Clear
  BY <1>3 DEF Clear, Idle
<1>4. CASE Begin
  BY <1>4 DEF Begin, Idle
<1> QED  BY <1>1, <1>2, <1>3, <1>4

\* Only the input thread speaks of the call, and of nothing else.
SendersApart ==
  /\ \A i \in 1..Len(pair["ioinput"]) : IsOcc(pair["ioinput"][i])
  /\ \A s \in {"udp", "fep"} : \A i \in 1..Len(pair[s]) : ~IsOcc(pair[s][i])

\* The strengthening: what a step needs to know of the state before it.
Inv == BarrierInv /\ TypeOK /\ JobRowed /\ SendersApart /\ RequestFollowsKey

\* The barrier's variables take the barrier's steps.
LEMMA StepOfBarrier == [Next]_vars => [BarrierNext]_barrier
<1> SUFFICES ASSUME [Next]_vars PROVE [BarrierNext]_barrier
  OBVIOUS
<1>1. ASSUME NEW s \in Sources, Forward(s) PROVE UNCHANGED barrier
  BY <1>1 DEF Forward
<1>2. CASE UNCHANGED vars
  BY <1>2 DEF vars
<1>3. CASE StartUp(MainSteps) \/ StartUp(Mishap) \/ \E s \in Services : StartUp(ServiceSteps(s))
  BY <1>3 DEF StartUp, BarrierNext, Running
<1>4. CASE UdpSend \/ FepSend \/ InputEdge
  BY <1>4 DEF UdpSend, FepSend, InputEdge
<1>5. CASE InputThread
  BY <1>5 DEF InputThread, InputStart, InputRead, InputSettled
<1>6. CASE BroadcastThread \/ AudioOver
  BY <1>6 DEF BroadcastThread, ServeClock, ServeRequest, Announce, AudioOver
<1> QED  BY <1>1, <1>2, <1>3, <1>4, <1>5, <1>6 DEF Next, Route

\* Every variable stays in its domain.
LEMMA TypeStep ==
  ASSUME Inv, BarrierInv', [Next]_vars
  PROVE  TypeOK' /\ JobRowed'
<1> USE DEF Inv
<1>1. ASSUME UNCHANGED <<announcer, requests>>, KeyTypeOK' PROVE TypeOK' /\ JobRowed'
  BY <1>1 DEF TypeOK, JobRowed, BarrierInv, announcer, requests
<1>2. ASSUME UNCHANGED <<announcer, served>>, KeyTypeOK', lost' \in BOOLEAN,
             NEW s \in Sources, NEW r \in Messages, Send(s, r)
      PROVE  TypeOK' /\ JobRowed'
  <2>1. pair' \in [Sources -> Seq(Messages)] /\ \A t \in Sources : Len(pair'[t]) <= PairMax
    BY <1>2, SendTyped
  <2> QED  BY <1>2, <2>1 DEF TypeOK, JobRowed, BarrierInv, announcer
<1>3. KeyTypeOK
  BY DEF TypeOK
<1>4. UNCHANGED keyInput => KeyTypeOK'
  BY <1>3 DEF KeyTypeOK, keyInput
<1>5. CASE UNCHANGED vars
  BY <1>1, <1>4, <1>5 DEF vars
<1>6. CASE StartUp(MainSteps) \/ StartUp(Mishap) \/ \E s \in Services : StartUp(ServiceSteps(s))
  BY <1>1, <1>4, <1>6 DEF StartUp
<1>7. CASE UdpSend
  <2>1. PICK r \in UdpRequests : Send("udp", r)
    BY <1>7 DEF UdpSend
  <2>2. r \in Messages /\ "udp" \in Sources
    BY RoutingAssumption DEF Messages, Sources
  <2> QED  BY <1>2, <1>4, <1>7, <2>1, <2>2 DEF UdpSend, TypeOK
<1>8. CASE FepSend
  <2>1. Clock \in Messages /\ "fep" \in Sources
    BY DEF Messages, Sources
  <2> QED  BY <1>2, <1>4, <1>8, <2>1 DEF FepSend, TypeOK
<1>9. CASE InputEdge
  BY <1>1, <1>3, <1>9 DEF InputEdge, Edge, KeyTypeOK, Level
<1>10. CASE InputStart \/ InputRead
  BY <1>1, <1>3, <1>10 DEF InputStart, InputRead, KeyStart, KeyRead, Read, KeyTypeOK, Level
<1>11. CASE InputSettled
  <2>1. KeyTypeOK'
    BY <1>3, <1>11 DEF InputSettled, KeySettled, Read, KeyTypeOK, Level
  <2>2. CASE Calls
    <3>1. OccRequest(level') \in Messages /\ "ioinput" \in Sources
      BY DEF OccRequest, Play, Stop, Messages, Requests, Rowed, Sources
    <3>2. lost' \in BOOLEAN /\ Send("ioinput", OccRequest(level')) /\ UNCHANGED <<announcer, served>>
      BY <1>11, <2>2 DEF InputSettled
    <3> QED  BY <1>2, <2>1, <3>1, <3>2
  <2>3. CASE ~Calls
    BY <1>1, <1>11, <2>1, <2>3 DEF InputSettled, requests
  <2> QED  BY <2>2, <2>3
<1>12. ASSUME NEW s \in Sources, Forward(s) PROVE TypeOK' /\ JobRowed'
  <2> DEFINE r == Head(pair[s])
  <2>1. r \in Messages /\ Tail(pair[s]) \in Seq(Messages) /\ Len(Tail(pair[s])) <= PairMax
    BY <1>12, RoutingAssumption DEF Forward, TypeOK
  <2>2. inbox' \in Seq(Messages) /\ Len(inbox') <= InboxMax
    BY <1>12, <2>1, PostTyped DEF Forward
  <2>3. pair' \in [Sources -> Seq(Messages)] /\ \A t \in Sources : Len(pair'[t]) <= PairMax
    BY <1>12, <2>1 DEF Forward, TypeOK
  <2>4. lost' \in BOOLEAN /\ UNCHANGED <<keyInput, type, job, served>>
    BY <1>12 DEF Forward
  <2> QED  BY <1>4, <2>2, <2>3, <2>4 DEF TypeOK, JobRowed, BarrierInv
<1>13. CASE ServeClock
  <2>1. inbox' \in Seq(Messages) /\ Len(inbox') <= InboxMax
    <3>1. inbox \in Seq(Messages) /\ inbox # << >> /\ inbox' = Tail(inbox)
      BY <1>13 DEF ServeClock, TypeOK
    <3> QED  BY <3>1, InboxAssumption DEF TypeOK
  <2>2. UNCHANGED <<keyInput, type, job, pair, served, lost>>
    BY <1>13 DEF ServeClock, requests
  <2> QED  BY <1>4, <2>1, <2>2 DEF TypeOK, JobRowed, BarrierInv
<1>14. CASE ServeRequest \/ Announce \/ AudioOver
  <2>1. (Serve /\ Head(inbox) # Clock) \/ Over \/ Clear \/ Begin
    BY <1>14 DEF ServeRequest, Announce, AudioOver
  <2>2. UNCHANGED <<keyInput, pair, lost>>
    BY <1>14 DEF ServeRequest, Announce, AudioOver, requests
  <2>3. served' \in {"play", "stop"}
    <3>1. CASE ServeRequest
      <4>1. inbox \in Seq(Messages) /\ inbox # << >> /\ Head(inbox) # Clock
        BY <3>1 DEF ServeRequest, TypeOK
      <4>2. Head(inbox) \in Messages
        BY <4>1
      <4>3. Head(inbox).op \in {"play", "stop"}
        BY <4>1, <4>2 DEF Messages, Requests
      <4> QED  BY <3>1, <4>3 DEF ServeRequest, TypeOK
    <3>2. CASE Announce \/ AudioOver
      BY <3>2 DEF Announce, AudioOver, requests, TypeOK
    <3> QED  BY <1>14, <3>1, <3>2
  <2> QED  BY <1>4, <2>1, <2>2, <2>3, AnnouncerTyped DEF TypeOK, JobRowed, BarrierInv
<1> QED
  BY <1>5, <1>6, <1>7, <1>8, <1>9, <1>10, <1>11, <1>12, <1>13, <1>14
     DEF Next, InputThread, Route, BroadcastThread

-----------------------------------------------------------------------------
(* The routing.                                                            *)

\* Who speaks of the call does not change.
LEMMA ApartStep ==
  ASSUME Inv, [Next]_vars
  PROVE  SendersApart'
<1> USE DEF Inv
<1>1. CASE UNCHANGED pair
  BY <1>1 DEF SendersApart
<1>2. CASE UdpSend
  <2>1. PICK r \in UdpRequests : Send("udp", r)
    BY <1>2 DEF UdpSend
  <2>2. ~IsOcc(r)
    BY RoutingAssumption DEF IsOcc
  <2> QED  BY <2>1, <2>2 DEF Send, SendersApart, TypeOK, Sources
<1>3. CASE FepSend
  <2>1. ~IsOcc(Clock) /\ Send("fep", Clock)
    BY <1>3 DEF IsOcc, Clock, FepSend, None
  <2> QED  BY <2>1 DEF Send, SendersApart, TypeOK, Sources
<1>4. CASE InputSettled /\ Calls
  <2>1. IsOcc(OccRequest(level')) /\ Send("ioinput", OccRequest(level'))
    BY <1>4 DEF IsOcc, OccRequest, Play, Stop, InputSettled
  <2> QED  BY <2>1 DEF Send, SendersApart, TypeOK, Sources
<1>5. ASSUME NEW s \in Sources, Forward(s) PROVE SendersApart'
  <2>1. pair \in [Sources -> Seq(Messages)] /\ pair[s] # << >>
        /\ pair' = [pair EXCEPT ![s] = Tail(@)]
    BY <1>5 DEF Forward, TypeOK
  <2>2. \A i \in 1..Len(pair'[s]) : i + 1 \in 1..Len(pair[s]) /\ pair'[s][i] = pair[s][i + 1]
    BY <2>1
  <2> QED  BY <2>1, <2>2 DEF SendersApart, Sources
<1>6. [Next]_vars => \/ UNCHANGED pair \/ UdpSend \/ FepSend \/ (InputSettled /\ Calls)
                     \/ \E s \in Sources : Forward(s)
  BY DEF Next, StartUp, InputEdge, InputThread, InputStart, InputRead, InputSettled,
         Route, BroadcastThread, ServeClock, ServeRequest, Announce, AudioOver,
         requests, vars
<1> QED  BY <1>1, <1>2, <1>3, <1>4, <1>5, <1>6

\* A message for the call enters the inbox behind everything there.
LEMMA ToldByInbox ==
  ASSUME TypeOK, NEW r \in Messages, IsOcc(r), inbox' = Append(inbox, r),
         pair'["ioinput"] = << >>
  PROVE  ToldLast(r.op)'
<1> DEFINE n == Len(inbox) + 1
<1>1. n \in 1..Len(inbox') /\ inbox'[n] = r /\ (n + 1)..Len(inbox') = {}
  BY DEF TypeOK
<1> QED  BY <1>1 DEF ToldLast, OccAt, IsOcc

\* A message for something else does not change what is told.
LEMMA ToldBesides ==
  ASSUME TypeOK, NEW r \in Messages, ~IsOcc(r), inbox' = Append(inbox, r),
         NEW op, ToldLast(op), pair'["ioinput"] = pair["ioinput"], served' = served
  PROVE  ToldLast(op)'
<1> DEFINE n == Len(inbox) + 1
<1>1. Len(inbox') = n /\ inbox'[n] = r /\ n \in Nat
      /\ \A i \in 1..Len(inbox) : inbox'[i] = inbox[i]
  BY DEF TypeOK
<1>2. \A i \in 1..Len(inbox') : OccAt(i)' <=> i \in 1..Len(inbox) /\ OccAt(i)
  BY <1>1 DEF OccAt, IsOcc
<1>3. CASE pair["ioinput"] # << >>
  BY <1>3 DEF ToldLast
<1>4. CASE pair["ioinput"] = << >> /\ \E i \in 1..Len(inbox) : OccAt(i)
  <2>1. PICK i \in 1..Len(inbox) :
          OccAt(i) /\ inbox[i].op = op /\ \A j \in (i + 1)..Len(inbox) : ~OccAt(j)
    BY <1>4 DEF ToldLast
  <2>2. i \in 1..Len(inbox') /\ OccAt(i)' /\ inbox'[i].op = op
    BY <1>1, <1>2, <2>1
  <2>3. \A j \in (i + 1)..Len(inbox') : ~OccAt(j)'
    BY <1>1, <1>2, <2>1
  <2> QED  BY <1>4, <2>2, <2>3 DEF ToldLast
<1>5. CASE pair["ioinput"] = << >> /\ \A i \in 1..Len(inbox) : ~OccAt(i)
  <2>1. served = op
    BY <1>5 DEF ToldLast
  <2>2. \A i \in 1..Len(inbox') : ~OccAt(i)'
    BY <1>2, <1>5
  <2> QED  BY <1>5, <2>1, <2>2 DEF ToldLast
<1> QED  BY <1>3, <1>4, <1>5

\* Nor does the broadcast thread's reading its next message.
LEMMA ToldAfterRead ==
  ASSUME TypeOK, inbox # << >>, inbox' = Tail(inbox),
         served' = IF IsOcc(Head(inbox)) THEN Head(inbox).op ELSE served,
         pair' = pair, NEW op, ToldLast(op)
  PROVE  ToldLast(op)'
<1>1. Len(inbox) \in Nat /\ Len(inbox) >= 1 /\ Len(inbox') = Len(inbox) - 1
      /\ Head(inbox) = inbox[1]
      /\ \A i \in 1..Len(inbox') : inbox'[i] = inbox[i + 1]
  BY DEF TypeOK
<1>2. \A i \in 1..Len(inbox') : OccAt(i)' <=> OccAt(i + 1)
  BY <1>1 DEF OccAt, IsOcc
<1>3. CASE pair["ioinput"] # << >>
  BY <1>3 DEF ToldLast
<1>4. CASE pair["ioinput"] = << >> /\ \E i \in 1..Len(inbox) : OccAt(i)
  <2>1. PICK i \in 1..Len(inbox) :
          OccAt(i) /\ inbox[i].op = op /\ \A j \in (i + 1)..Len(inbox) : ~OccAt(j)
    BY <1>4 DEF ToldLast
  <2>2. CASE i = 1
    <3>1. served' = op
      BY <1>1, <2>1, <2>2 DEF OccAt
    <3>2. \A j \in 1..Len(inbox') : ~OccAt(j)'
      BY <1>1, <1>2, <2>1, <2>2
    <3> QED  BY <1>4, <3>1, <3>2 DEF ToldLast
  <2>3. CASE i # 1
    <3>1. i - 1 \in 1..Len(inbox') /\ OccAt(i - 1)' /\ inbox'[i - 1].op = op
      BY <1>1, <1>2, <2>1, <2>3
    <3>2. \A j \in ((i - 1) + 1)..Len(inbox') : ~OccAt(j)'
      BY <1>1, <1>2, <2>1, <2>3
    <3> QED  BY <1>4, <3>1, <3>2 DEF ToldLast
  <2> QED  BY <2>2, <2>3
<1>5. CASE pair["ioinput"] = << >> /\ \A i \in 1..Len(inbox) : ~OccAt(i)
  <2>1. served = op /\ ~IsOcc(Head(inbox))
    BY <1>1, <1>5 DEF ToldLast, OccAt
  <2>2. \A i \in 1..Len(inbox') : ~OccAt(i)'
    BY <1>1, <1>2, <1>5
  <2> QED  BY <1>5, <2>1, <2>2 DEF ToldLast
<1> QED  BY <1>3, <1>4, <1>5

\* main forwards a request for the call.
LEMMA ForwardCall ==
  ASSUME Inv, Forward("ioinput")
  PROVE  RequestFollowsKey'
<1> DEFINE q == pair["ioinput"]
<1>0. q \in Seq(Messages) /\ q # << >>
  BY DEF Forward, Inv, TypeOK, Sources
<1>1. PICK r \in Messages : r = Head(q) /\ r = q[1]
  BY <1>0
<1>2. pair'["ioinput"] = Tail(q) /\ stored' = stored /\ IsOcc(r) /\ Post(r)
      /\ lost' = (lost \/ (~Room /\ r.bd = "occ" /\ Tail(q) = << >>))
  BY <1>0, <1>1 DEF Forward, Inv, TypeOK, SendersApart, keyInput, Sources
<1>3. ASSUME ~lost', NEW op, op = OccRequest(stored).op PROVE ToldLast(op)'
  <2>4. q[Len(q)].op = op
    BY <1>0, <1>2, <1>3 DEF Inv, RequestFollowsKey, ToldLast
  <2>5. CASE Tail(q) # << >>
    <3>1. Tail(q)[Len(Tail(q))] = q[Len(q)]
      BY <1>0, <2>5
    <3> QED  BY <1>2, <2>4, <2>5, <3>1 DEF ToldLast
  <2>6. CASE Tail(q) = << >>
    <3>1. Len(q) = 1
      <4>1. Len(Tail(q)) = Len(q) - 1 /\ Len(q) \in Nat
        BY <1>0
      <4>2. Len(Tail(q)) = Len(<< >>)
        BY <2>6
      <4> QED  BY <4>1, <4>2
    <3>2. inbox' = Append(inbox, r)
      BY <1>2, <1>3, <2>6 DEF Post, IsOcc
    <3>3. r.op = op
      BY <1>1, <2>4, <3>1
    <3>4. ASSUME NEW m \in Messages, m = r PROVE ToldLast(m.op)'
      BY <1>2, <2>6, <3>2, <3>4, ToldByInbox DEF Inv
    <3> QED  BY <3>3, <3>4
  <2> QED  BY <2>5, <2>6
<1>4. stored' = stored
  BY <1>2
<1>5. ASSUME ~lost' PROVE ToldLast(OccRequest(stored).op)'
  <2>1. OccRequest(stored).op = OccRequest(stored').op
    BY <1>4
  <2> QED  BY <1>3, <1>5, <2>1 DEF ToldLast, OccRequest
<1> QED  BY <1>5 DEF RequestFollowsKey

\* What is told last stays what the input thread believes.
LEMMA KeyStep ==
  ASSUME Inv, [Next]_vars
  PROVE  RequestFollowsKey'
<1> USE DEF Inv
<1>1. ASSUME UNCHANGED <<stored, served, lost, inbox>>, pair'["ioinput"] = pair["ioinput"]
      PROVE  RequestFollowsKey'
  BY <1>1 DEF RequestFollowsKey, ToldLast, OccAt
<1>2. CASE UdpSend \/ FepSend
  <2>1. pair'["ioinput"] = pair["ioinput"]
    BY <1>2 DEF UdpSend, FepSend, Send, TypeOK, Sources
  <2> QED  BY <1>1, <1>2, <2>1 DEF UdpSend, FepSend, keyInput, announcer
<1>3. CASE InputSettled /\ Calls
  <2>1. stored' = level'
    BY <1>3 DEF InputSettled, KeySettled, Calls
  <2>2. lost' \/ pair'["ioinput"] = Append(pair["ioinput"], OccRequest(stored'))
    BY <1>3, <2>1 DEF InputSettled, Send, TypeOK, Sources
  <2>3. ASSUME ~lost' PROVE ToldLast(OccRequest(stored).op)'
    <3>1. pair'["ioinput"] = Append(pair["ioinput"], OccRequest(stored'))
          /\ pair["ioinput"] \in Seq(Messages)
      BY <2>2, <2>3 DEF TypeOK, Sources
    <3>2. pair'["ioinput"] # << >>
          /\ pair'["ioinput"][Len(pair'["ioinput"])] = OccRequest(stored')
      BY <3>1
    <3> QED  BY <3>2 DEF ToldLast, OccRequest
  <2> QED  BY <2>3 DEF RequestFollowsKey
<1>4. CASE InputSettled /\ ~Calls
  <2>1. stored' = stored
    BY <1>4 DEF InputSettled, KeySettled, Calls
  <2> QED  BY <1>1, <1>4, <2>1 DEF InputSettled, announcer
<1>5. ASSUME NEW s \in {"udp", "fep"}, Forward(s) PROVE RequestFollowsKey'
  <2> DEFINE r == Head(pair[s])
  <2>1. pair[s] \in Seq(Messages) /\ pair[s] # << >> /\ Post(r) /\ UNCHANGED <<stored, served>>
        /\ pair'["ioinput"] = pair["ioinput"]
    BY <1>5 DEF Forward, TypeOK, Sources, keyInput
  <2>2. r \in Messages /\ ~IsOcc(r)
    BY <2>1 DEF SendersApart
  <2>3. lost' = lost
    <3>1. lost' = (lost \/ (~Room /\ r.bd = "occ" /\ Tail(pair[s]) = << >>))
      BY <1>5 DEF Forward
    <3> QED  BY <3>1, <2>2 DEF IsOcc, TypeOK
  <2>4. CASE inbox' = inbox
    BY <1>1, <2>1, <2>3, <2>4
  <2>5. CASE inbox' = Append(inbox, r)
    <3>1. ~lost => ToldLast(OccRequest(stored).op)'
      <4> SUFFICES ASSUME ~lost PROVE ToldLast(OccRequest(stored).op)'
        OBVIOUS
      <4>1. ToldLast(OccRequest(stored).op)
        BY DEF RequestFollowsKey
      <4>2. ASSUME NEW op, op = OccRequest(stored).op PROVE ToldLast(op)'
        BY <4>1, <4>2, <2>1, <2>2, <2>5, ToldBesides
      <4> QED  BY <4>2, <2>1 DEF ToldLast, OccRequest
    <3> QED  BY <2>1, <2>3, <3>1 DEF RequestFollowsKey, OccRequest
  <2> QED  BY <2>1, <2>4, <2>5 DEF Post
<1>6. CASE Forward("ioinput")
  BY <1>6, ForwardCall
<1>7. CASE ServeClock \/ ServeRequest
  <2>1. inbox # << >> /\ inbox' = Tail(inbox) /\ UNCHANGED <<stored, pair, lost>>
    BY <1>7 DEF ServeClock, ServeRequest, Serve, keyInput, requests
  <2>2. served' = IF IsOcc(Head(inbox)) THEN Head(inbox).op ELSE served
    BY <1>7 DEF ServeClock, ServeRequest, requests, IsOcc, Clock, None
  <2>3. ASSUME ~lost, NEW op, op = OccRequest(stored).op PROVE ToldLast(op)'
    BY <2>1, <2>2, <2>3, ToldAfterRead DEF RequestFollowsKey
  <2> QED  BY <2>1, <2>3 DEF RequestFollowsKey, ToldLast, OccRequest
<1>8. [Next]_vars => \/ UNCHANGED <<stored, served, lost, inbox, pair>>
                     \/ UdpSend \/ FepSend \/ InputSettled
                     \/ (\E s \in Sources : Forward(s)) \/ ServeClock \/ ServeRequest
  BY DEF Next, StartUp, InputEdge, Edge, InputThread, InputStart, KeyStart, InputRead,
         KeyRead, Route, BroadcastThread, Announce, Clear, Begin, AudioOver, Over,
         requests, keyInput, announcer, vars
<1> QED  BY <1>1, <1>2, <1>3, <1>4, <1>5, <1>6, <1>7, <1>8 DEF Sources

LEMMA Start == Init => Inv
<1> SUFFICES ASSUME Init PROVE Inv
  OBVIOUS
<1>1. BarrierInv
  BY BarrierStart DEF Init
<1>2. inbox = << >> /\ served = "stop" /\ stored = 1 /\ \A s \in Sources : pair[s] = << >>
  BY DEF Init, AnnouncerInit, KeyInit
<1>3. TypeOK /\ JobRowed
  <2>1. pair \in [Sources -> Seq(Messages)] /\ \A s \in Sources : Len(pair[s]) <= PairMax
    BY RoutingAssumption DEF Init
  <2>2. inbox \in Seq(Messages) /\ Len(inbox) <= InboxMax
    BY <1>2, InboxAssumption
  <2>3. KeyTypeOK
    BY DEF Init, KeyInit, KeyTypeOK, Level
  <2>4. job = Idle /\ type = None /\ served = "stop" /\ lost = FALSE
    BY DEF Init, AnnouncerInit
  <2> QED  BY <1>1, <2>1, <2>2, <2>3, <2>4 DEF TypeOK, JobRowed, Idle, None, BarrierInv
<1>4. SendersApart
  BY <1>2 DEF SendersApart, Sources
<1>5. RequestFollowsKey
  BY <1>2 DEF RequestFollowsKey, ToldLast, OccRequest, Stop, OccAt, Sources
<1> QED  BY <1>1, <1>3, <1>4, <1>5 DEF Inv

LEMMA Step == Inv /\ [Next]_vars => Inv'
<1> SUFFICES ASSUME Inv, [Next]_vars PROVE Inv'
  OBVIOUS
<1>1. BarrierInv'
  BY StepOfBarrier, BarrierStep DEF Inv
<1> QED  BY <1>1, TypeStep, ApartStep, KeyStep DEF Inv

-----------------------------------------------------------------------------
(* The key.  An edge clears nothing, and what clears the edge reads the    *)
(* level at the same moment.                                               *)

LEMMA KeyBegins == KeyInit => EdgeNotForgotten
BY DEF KeyInit, EdgeNotForgotten

LEMMA EdgeStep ==
  ASSUME Inv, EdgeNotForgotten, [Next]_vars
  PROVE  EdgeNotForgotten'
<1>1. KeyTypeOK
  BY DEF Inv, TypeOK
<1>2. CASE UNCHANGED keyInput
  BY <1>2 DEF EdgeNotForgotten, keyInput
<1>3. CASE Edge
  BY <1>3 DEF Edge, EdgeNotForgotten
<1>4. CASE KeyStart
  BY <1>4 DEF KeyStart, EdgeNotForgotten
<1>5. CASE KeyRead
  \* The level is the pin's, or misread: if it is not the one stored, it is new.
  BY <1>1, <1>5 DEF KeyRead, Read, KeyTypeOK, EdgeNotForgotten
<1>6. CASE KeySettled
  <2>1. CASE level # stored
    BY <1>1, <1>6, <2>1 DEF KeySettled, Read, KeyTypeOK, EdgeNotForgotten
  <2>2. CASE level = stored
    BY <1>6, <2>2 DEF KeySettled, EdgeNotForgotten
  <2> QED  BY <2>1, <2>2
<1>7. [Next]_vars => UNCHANGED keyInput \/ Edge \/ KeyStart \/ KeyRead \/ KeySettled
  BY DEF Next, StartUp, UdpSend, FepSend, InputEdge, InputThread, InputStart, InputRead,
         InputSettled, Route, Forward, BroadcastThread, ServeClock, ServeRequest, Announce,
         AudioOver, vars
<1> QED  BY <1>2, <1>3, <1>4, <1>5, <1>6, <1>7

-----------------------------------------------------------------------------
(* The theorems.                                                           *)

\* Every variable stays in its domain and no pair ever holds more than it can.
THEOREM TypeCorrect == Spec => []TypeOK
<1>1. Inv => TypeOK
  BY DEF Inv
<1> QED  BY Start, Step, <1>1, PTL DEF Spec

\* main's event loop begins only after all six services have counted themselves,
\* in whatever order they start, signal and wake main.
THEOREM AllServicesUp == Spec => []NobodyMissing
<1>1. Inv => NobodyMissing
  BY AllCounted DEF Inv
<1> QED  BY Start, Step, <1>1, PTL DEF Spec

\* Whatever the capacities, the last request for the call under way is the one for
\* the level believed, unless it was lost.
THEOREM KeyIsFollowed == Spec => []RequestFollowsKey
<1>1. Inv => RequestFollowsKey
  BY DEF Inv
<1> QED  BY Start, Step, <1>1, PTL DEF Spec

\* main is never left asleep with all six services counted but for the one
\* reason: the last signal fell between its look and its wait.
THEOREM SleepHasReason == Spec => []SleepsForAReason
<1>1. Init => FullMissed
  BY DEF Init, BarrierInit, FullMissed
<1>2. Inv /\ FullMissed /\ [Next]_vars => FullMissed'
  BY StepOfBarrier, FullMissedStep DEF Inv
<1>3. Inv /\ FullMissed => SleepsForAReason
  BY SleepReason DEF Inv
<1> QED  BY Start, Step, <1>1, <1>2, <1>3, PTL DEF Spec

\* Wherever the edges fall between the poll, the read, the 50 ms and the second
\* read, a level that is not the one believed is still to be reported or read.
THEOREM EdgeKept == Spec => []EdgeNotForgotten
<1>1. Init => EdgeNotForgotten
  BY KeyBegins DEF Init
<1>2. Inv /\ EdgeNotForgotten /\ [Next]_vars => EdgeNotForgotten'
  BY EdgeStep
<1> QED  BY Start, Step, <1>1, <1>2, PTL DEF Spec

\* The routing adds nothing to the start-up: its start-up is the barrier's.
THEOREM StartsLikeTheBarrier == Spec => BarrierSpec
<1>1. Init => BarrierInit
  BY DEF Init
<1> QED  BY <1>1, StepOfBarrier, PTL DEF Spec, BarrierSpec
=============================================================================
