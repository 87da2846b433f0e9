--------------------------- MODULE RequestRouting ---------------------------
(***************************************************************************)
(* How a request to play or to stop reaches the broadcast thread.  The UDP *)
(* thread, the audio clock and the input thread each have a message pair   *)
(* to main, which forwards what it reads to the pair of the broadcast      *)
(* thread (Announcer).  No send waits: one that finds its pair full, or    *)
(* without a peer, loses the message.  main forwards once it has seen all  *)
(* services start (StartBarrier); the input thread asks for the operating  *)
(* control call by the level of a pin (KeyInput).                          *)
(***************************************************************************)
EXTENDS StartBarrier, KeyInput, Announcer

CONSTANTS
  PairMax,     \* messages a pair to main holds
  UdpRequests  \* what the rules of TMS may ask for

ASSUME RoutingAssumption ==
  /\ PairMax \in Nat \ {0}
  /\ UdpRequests \subseteq {r \in Requests : r.dev = "tms" /\ r.bd # "occ"}

Sources == {"udp", "fep", "ioinput"}

\* The clock of the audio unit, which the broadcast thread answers with audio.
Clock == [op |-> "clock", dev |-> "fep", bd |-> None]

VARIABLES
  pair,    \* each source's messages main has not read
  served,  \* history: the last request for the call the broadcast thread read
  lost     \* history: the last request for the call was lost

requests == <<pair, served, lost>>
vars == <<barrier, keyInput, announcer, requests>>

Running == ~aborted
Connected(s) == svc[s] \in {"connected", "counted"}
Fits(s) == Connected(s) /\ Len(pair[s]) < PairMax

\* nn_send without waiting.
Send(s, r) == pair' = IF Fits(s) THEN [pair EXCEPT ![s] = Append(@, r)] ELSE pair

-----------------------------------------------------------------------------
\* OCC_OCCStatusSet: the level is low while the call is on.
OccRequest(lvl) == IF lvl = 0 THEN Play("pisc", "occ") ELSE Stop("pisc", "occ")

\* TMS's rules ask through the UDP thread (TmsDispatch).
UdpSend ==
  /\ Running /\ svc["udp"] # "off"
  /\ \E r \in UdpRequests : Send("udp", r)
  /\ UNCHANGED <<barrier, keyInput, announcer, served, lost>>

\* A packet from the audio unit.
FepSend ==
  /\ Running /\ Connected("fep")
  /\ Send("fep", Clock)
  /\ UNCHANGED <<barrier, keyInput, announcer, served, lost>>

\* The input thread is created once its service is connected.
InputStart ==
  /\ Running /\ Connected("ioinput")
  /\ KeyStart
  /\ UNCHANGED <<barrier, announcer, requests>>

InputEdge == Running /\ Edge /\ UNCHANGED <<barrier, announcer, requests>>

InputRead == Running /\ KeyRead /\ UNCHANGED <<barrier, announcer, requests>>

InputSettled ==
  /\ Running
  /\ KeySettled
  /\ IF Calls
       THEN Send("ioinput", OccRequest(level')) /\ lost' = ~Fits("ioinput")
       ELSE UNCHANGED <<pair, lost>>
  /\ UNCHANGED <<barrier, announcer, served>>

\* Main_Handle_NanomsgEvent: one message of one pair.
Forward(s) ==
  /\ Running /\ main = "run" /\ pair[s] # << >>
  /\ LET r == Head(pair[s])  rest == Tail(pair[s]) IN
       /\ pair' = [pair EXCEPT ![s] = rest]
       /\ Post(r)
       /\ lost' = (lost \/ (~Room /\ r.bd = "occ" /\ rest = << >>))
  /\ UNCHANGED <<barrier, keyInput, type, job, served>>

\* _BROADCAST_UDPNanomsgHandle: the clock is answered with audio.
ServeClock ==
  /\ Running /\ job = Idle /\ inbox # << >> /\ Head(inbox) = Clock
  /\ inbox' = Tail(inbox)
  /\ UNCHANGED <<barrier, keyInput, type, job, requests>>

\* ... a request is taken up.
ServeRequest ==
  /\ Running /\ inbox # << >> /\ Head(inbox) # Clock
  /\ Serve
  /\ served' = IF Head(inbox).bd = "occ" THEN Head(inbox).op ELSE served
  /\ UNCHANGED <<barrier, keyInput, pair, lost>>

Announce ==
  /\ Running /\ (Clear \/ Begin)
  /\ UNCHANGED <<barrier, keyInput, requests>>

AudioOver == Running /\ Over /\ UNCHANGED <<barrier, keyInput, requests>>

StartUp(step) == Running /\ step /\ UNCHANGED <<keyInput, announcer, requests>>

Init ==
  /\ BarrierInit /\ KeyInit /\ AnnouncerInit
  /\ pair = [s \in Sources |-> << >>] /\ served = "stop" /\ lost = FALSE

Route == \E s \in Sources : Forward(s)
InputThread == InputStart \/ InputRead \/ InputSettled
BroadcastThread == ServeClock \/ ServeRequest \/ Announce

Next ==
  \/ StartUp(MainSteps) \/ StartUp(Mishap) \/ \E s \in Services : StartUp(ServiceSteps(s))
  \/ UdpSend \/ FepSend \/ InputEdge \/ InputThread
  \/ Route \/ BroadcastThread \/ AudioOver

\* The threads go on, and main reads every pair that stays readable.  The
\* broadcast thread goes on as far as it does not wait for the decoder to stop:
\* nothing is assumed of that.
Fairness ==
  /\ WF_vars(StartUp(MainSteps)) /\ WF_vars(InputThread)
  /\ WF_vars(BroadcastThread /\ ~MayHang)
  /\ \A s \in Services : WF_vars(StartUp(ServiceSteps(s)))
  /\ \A s \in Sources : WF_vars(Forward(s))

Spec == Init /\ [][Next]_vars /\ Fairness

-----------------------------------------------------------------------------
(* Properties.                                                             *)

Messages == Requests \union {Clock}

\* Every variable stays in its domain, every pair within its limit.
TypeOK ==
  /\ BarrierTypeOK /\ KeyTypeOK
  /\ inbox \in Seq(Messages) /\ Len(inbox) <= InboxMax
  /\ type \in Rowed \union {None}
  /\ job \in [op : {"play", "stop", "timer", "begin", "none"},
              dev : {"tms", "pisc", "none"}, bd : Rowed \union {"urgent", None}]
  /\ pair \in [Sources -> Seq(Messages)] /\ \A s \in Sources : Len(pair[s]) <= PairMax
  /\ served \in {"play", "stop"} /\ lost \in BOOLEAN

\* Of what is under way to the broadcast thread and what it read, the last
\* request for the operating control call says op.
IsOcc(r) == r.bd = "occ"
OccAt(i) == i \in 1..Len(inbox) /\ IsOcc(inbox[i])
ToldLast(op) ==
  LET q == pair["ioinput"] IN
    \/ q # << >> /\ q[Len(q)].op = op
    \/ /\ q = << >>
       /\ \E i \in 1..Len(inbox) :
            OccAt(i) /\ inbox[i].op = op /\ \A j \in (i + 1)..Len(inbox) : ~OccAt(j)
    \/ q = << >> /\ (\A i \in 1..Len(inbox) : ~OccAt(i)) /\ served = op

\* Two hops and two other senders between them, the last request for the call on
\* its way is the one for the level the input thread believes, unless that
\* request itself was lost: an older one never comes after it, and the level is
\* never believed without its request.
RequestFollowsKey == ~lost => ToldLast(OccRequest(stored).op)

\* Wherever the edges of the key fall, one that the thread has not answered is
\* reported again, or the level is read once more before it is believed: unless
\* the last read failed and its 0 was not the level.
EdgeNotForgotten ==
  stored # pin /\ ~misread => pending \/ (input = "settle" /\ level # stored)

\* When the key comes to rest the broadcast thread hears it, however often the
\* level changed while the pin settled and whatever it had to be told before,
\* and a call that was ended is not current any more: unless the pin cannot be
\* read, or that thread is waiting for an announcement to stop, which it may for
\* ever, or the request is lost.
CallFollowsKey ==
  \A l \in Level :
    <>[](pin = l) =>
      <>[]( \/ main # "run" \/ aborted \/ lost \/ misread \/ input = "closed" \/ MayHang
            \/ served = OccRequest(l).op /\ (l = 1 => type # "occ") )
=============================================================================
