------------------------------ MODULE SendLoop ------------------------------
(***************************************************************************)
(* What the train sends.  The timers of the train service's loop           *)
(* (TimerLoop) store the process data, the time and the displays' texts in *)
(* the buffer of the UDP endpoint (UdpEndpoint), which the UDP thread      *)
(* sends; a frame of TMS makes that thread store texts as well.            *)
(***************************************************************************)
EXTENDS TimerLoop, UdpEndpoint

CONSTANTS
  Frames,  \* how many frames the callback of each timer may store
  Texts    \* ... and how many a frame received may

ASSUME FramesAssumption ==
  /\ Frames \in [Timers -> SUBSET Nat] /\ Texts \subseteq Nat
  /\ \A t \in Timers : Frames[t] # {}
  /\ 0 \in Texts
  /\ Writers = {"train", "udp"} /\ Reader = "udp"

VARIABLE todo  \* frames each thread has yet to store

vars == <<timers, endpoint, todo>>

Init == TimerInit /\ EndpointInit /\ todo = [w \in Writers |-> 0]

-----------------------------------------------------------------------------
Loads(w) ==
  /\ todo[w] > 0
  /\ Store(w) \/ Refuse(w)
  /\ todo' = [todo EXCEPT ![w] = @ - 1]
  /\ UNCHANGED timers

Stores(w) ==
  WriterStep(w) /\ UNCHANGED <<timers, todo>>

\* The callback is entered, stores its frames, and arms its timer.
\* TrainManage_Timer500msCallBack, _Timer1sCallBack, _Timer5sCallBack,
\* DEV_STATUS_TimerOut_Handle.
Call ==
  /\ Extracted
  /\ \E n \in Frames[hand] : todo' = [todo EXCEPT !["train"] = n]
  /\ UNCHANGED endpoint

Return ==
  /\ todo["train"] = 0 /\ wat["train"] = "idle"
  /\ Rearm
  /\ UNCHANGED <<endpoint, todo>>

TrainNext ==
  \/ Loads("train") \/ Stores("train") \/ Call \/ Return
  \/ (Setup \/ SiftUp \/ Inserted \/ Begin \/ Pop \/ SiftDown \/ Served)
     /\ UNCHANGED <<endpoint, todo>>

\* TMS_StationInfoSet stores the texts; other frames store none.
ReadFrame ==
  /\ Read
  /\ \E n \in Texts : todo' = [todo EXCEPT !["udp"] = n]
  /\ UNCHANGED timers

UdpNext ==
  \/ lat = "frame" /\ Loads("udp")
  \/ Stores("udp")
  \/ ReadFrame
  \/ todo["udp"] = 0 /\ Frame /\ UNCHANGED <<timers, todo>>
  \/ (Poll \/ Skip \/ Send \/ SendFails \/ Subtract \/ Keep \/ Unwatch \/ LoopBuild \/ LoopRegister)
     /\ UNCHANGED <<timers, todo>>

Clock == Tick /\ UNCHANGED <<endpoint, todo>>

\* A frame outside the buffer has overwritten what the code keeps behind it.
Next == ~spilled /\ (TrainNext \/ UdpNext \/ Clock)

Spec == Init /\ [][Next]_vars

\* The threads run and time passes; a datagram is not refused for ever.
FairSpec ==
  /\ Spec
  /\ WF_vars(~spilled /\ TrainNext) /\ WF_vars(~spilled /\ UdpNext) /\ WF_vars(~spilled /\ Clock)
  /\ SF_vars(~spilled /\ Send /\ UNCHANGED <<timers, todo>>)

-----------------------------------------------------------------------------
InTree == {tree[i] : i \in DOMAIN tree}

\* Every variable stays in its domain.  In particular what is left of a datagram
\* is within the half of the buffer that datagrams are read to, whatever their
\* lengths; of the offset of what is stored the code ensures no such thing.
TypeOK ==
  /\ tree \in Seq(Timers) /\ index \in [Timers -> Nat]
  /\ expire \in [Timers -> Int] /\ place \in Places
  /\ pos \in Nat /\ hand \in Timers \union {None}
  /\ seen \in Int /\ left \in Nat
  /\ off \in Int /\ mask \in BOOLEAN /\ reg \in BOOLEAN
  /\ wat \in [Writers -> {"idle", "copy", "load", "add", "watch", "build", "register"}]
  /\ size \in [Writers -> Nat] /\ tmp \in [Writers -> Int]
  /\ lat \in {"poll", "frame", "write", "left", "keep", "unwatch", "build", "register"}
  /\ out \in BOOLEAN /\ sent \in Int /\ rest \in 0..Half
  /\ spilled \in BOOLEAN /\ tangled \in BOOLEAN /\ todo \in [Writers -> Nat]

\* The timer served is due, and no timer that waits is due before it: the heap
\* keeps its order through every insertion and extraction, and no timer is lost.
EarliestFirst ==
  place \in {"down", "call"} =>
    /\ expire[hand] <= seen
    /\ InTree = Timers \ {hand}
    /\ \A t \in InTree : expire[hand] <= expire[t]

\* Unless threads met in the endpoint since, what is stored there is watched, so
\* that its loop will send it.
Watched == ~Inside /\ ~tangled /\ off > 0 => mask /\ reg

\* Whatever the lengths of the datagrams, there is room to read a whole chunk.
ReadKeepsRoom == lat = "poll" => Half - rest >= Chunk

\* While no threads meet in the endpoint a frame is neither lost nor sent again,
\* although its offset is loaded and stored in separate steps: storing adds the
\* frame's size, sending takes all there is.
CountKept ==
  [][~tangled => \/ off' = off \/ \E w \in Writers : off' = off + size[w]
                 \/ lat = "keep" /\ off' = 0]_vars

\* A pass leaves no timer behind that was due when it began, although it serves
\* no more than the heap held then.
PassClears == [][place = "pass" /\ place' = "loop" => \A t \in Timers : expire[t] > seen]_vars

\* Every timer is served again and again, while all frames fit the buffer.
TimersRecur == \A t \in Timers : []<>(hand = t \/ spilled)

\* A frame stored while no other thread is inside leaves, or another thread
\* comes across it, or a frame goes past the end of the buffer.
FramesLeave == (~Inside /\ ~tangled /\ off > 0) ~> (off = 0 \/ tangled \/ spilled)

-----------------------------------------------------------------------------
(* The heap, as the callbacks see it.                                      *)

InPass == place \in {"pass", "down", "call"} \/ (place = "up" /\ hand # None)

Q == INSTANCE TimerQueue WITH
       armed <- InTree,
       hand  <- IF place \in {"down", "call"} THEN hand ELSE None,
       pass  <- InPass,
       seen  <- IF InPass THEN seen ELSE 0

\* The heap and the budget of a pass are hidden: every timer waits until it is
\* served, the earliest is served first, and a pass ends when none is due.
ImplementsQueue == Q!Spec
=============================================================================
