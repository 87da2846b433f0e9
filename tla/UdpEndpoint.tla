---------------------------- MODULE UdpEndpoint -----------------------------
(***************************************************************************)
(* An endpoint of the UDP network (evnet) and the thread whose event loop  *)
(* serves it (evio, udp_service).  Frames to send are stored in one buffer *)
(* by any thread, without a lock: its loop sends all that is stored as one *)
(* datagram when the socket is watched for writing.  Every load and store  *)
(* of what the threads share is a step.  A frame is its size: the guard    *)
(* does not ask for it, so a frame may be copied past the buffer's end.    *)
(* What the program does then is anyone's guess, and the model ends.       *)
(***************************************************************************)
EXTENDS Integers, FiniteSets

CONSTANTS
  Writers,   \* the threads that store frames
  Reader,    \* the one among them that runs the loop
  Sizes,     \* the sizes of each thread's frames
  Capacity,  \* EV_BUFFER_SIZE, in the unit of the sizes
  Chunk,     \* what is read at once
  Half,      \* EV_HALFBUF_SIZE, in the unit of Chunk
  Lengths    \* bound: the lengths of datagrams, in the same unit

ASSUME EndpointAssumption ==
  /\ Reader \in Writers
  /\ Sizes \in [Writers -> SUBSET (Nat \ {0})] /\ \A w \in Writers : Sizes[w] # {}
  /\ Capacity \in Nat \ {0}
  /\ Chunk \in Nat \ {0} /\ Half \in Nat /\ Half >= 2 * Chunk
  /\ Lengths \subseteq Nat /\ Lengths # {}

VARIABLES
  off,      \* u32WriteOffset: how much is stored
  mask,     \* iEvents has EPOLLOUT
  reg,      \* ... and so has the registration in the kernel
  wat,      \* where each thread is in storing a frame
  size,     \* the size of the frame each is storing
  tmp,      \* the offset, or the mask, each has read
  lat,      \* where the loop is
  out,      \* epoll_wait reported that the socket can be written
  sent,     \* how much the last sendto took
  rest,     \* iReadOffset: what is left of a datagram
  spilled,  \* a frame was copied outside the buffer
  tangled   \* history: the last to enter found another thread inside

endpoint == <<off, mask, reg, wat, size, tmp, lat, out, sent, rest, spilled, tangled>>

EndpointInit ==
  /\ off = 0 /\ mask = TRUE /\ reg = TRUE
  /\ wat = [w \in Writers |-> "idle"]
  /\ size = [w \in Writers |-> 0] /\ tmp = [w \in Writers |-> 0]
  /\ lat = "poll" /\ out = FALSE /\ sent = 0 /\ rest = 0
  /\ spilled = FALSE /\ tangled = FALSE

stores == <<wat, size, tmp>>

Storing == {w \in Writers : wat[w] # "idle"}
Sending == lat \in {"left", "keep", "unwatch", "build", "register"}
Inside == Storing # {} \/ Sending

-----------------------------------------------------------------------------
\* EV_NET_EventUDP_WriteData, by w, reads the offset three times: for its guard,
Store(w) ==
  /\ wat[w] = "idle" /\ off < Capacity
  /\ wat' = [wat EXCEPT ![w] = "copy"]
  /\ \E n \in Sizes[w] : size' = [size EXCEPT ![w] = n]
  /\ tangled' = Inside
  /\ UNCHANGED <<off, mask, reg, tmp, lat, out, sent, rest, spilled>>

\* which a full buffer does not pass,
Refuse(w) == wat[w] = "idle" /\ off >= Capacity /\ UNCHANGED endpoint

\* for where the frame is copied,
Copy(w) ==
  /\ wat[w] = "copy"
  /\ spilled' = ~(off >= 0 /\ off + size[w] <= Capacity)
  /\ wat' = [wat EXCEPT ![w] = "load"]
  /\ UNCHANGED <<off, mask, reg, size, tmp, lat, out, sent, rest, tangled>>

\* and for what the size is added to.
Load(w) ==
  /\ wat[w] = "load"
  /\ tmp' = [tmp EXCEPT ![w] = off]
  /\ wat' = [wat EXCEPT ![w] = "add"]
  /\ UNCHANGED <<off, mask, reg, size, lat, out, sent, rest, spilled, tangled>>

Add(w) ==
  /\ wat[w] = "add"
  /\ off' = tmp[w] + size[w]
  /\ wat' = [wat EXCEPT ![w] = "watch"]
  /\ size' = [size EXCEPT ![w] = 0] /\ tmp' = [tmp EXCEPT ![w] = 0]
  /\ UNCHANGED <<mask, reg, lat, out, sent, rest, spilled, tangled>>

\* EVIO_Event_Watch_Write: the mask, then the kernel told what the mask is.
\* Fault: the mask is taken to be set when frames are stored already.
WatchFirst(w) ==
  /\ wat[w] = "watch"
  /\ mask' = (mask \/ off \in Sizes[w])
  /\ wat' = [wat EXCEPT ![w] = "build"]
  /\ UNCHANGED <<off, reg, size, tmp, lat, out, sent, rest, spilled, tangled>>
Watch(w) ==
  /\ wat[w] = "watch"
  /\ mask' = TRUE
  /\ wat' = [wat EXCEPT ![w] = "build"]
  /\ UNCHANGED <<off, reg, size, tmp, lat, out, sent, rest, spilled, tangled>>

Build(w) ==
  /\ wat[w] = "build"
  /\ wat' = [wat EXCEPT ![w] = "register"]
  /\ tmp' = [tmp EXCEPT ![w] = IF mask THEN 1 ELSE 0]
  /\ UNCHANGED <<off, mask, reg, size, lat, out, sent, rest, spilled, tangled>>

Register(w) ==
  /\ wat[w] = "register"
  /\ reg' = (tmp[w] = 1)
  /\ wat' = [wat EXCEPT ![w] = "idle"] /\ tmp' = [tmp EXCEPT ![w] = 0]
  /\ UNCHANGED <<off, mask, size, lat, out, sent, rest, spilled, tangled>>

WriterStep(w) == Copy(w) \/ Load(w) \/ Add(w) \/ Watch(w) \/ Build(w) \/ Register(w)

-----------------------------------------------------------------------------
\* epoll_wait times out, or reports that the socket can be written.
Poll ==
  /\ lat = "poll"
  /\ lat' = "write" /\ out' = reg
  /\ UNCHANGED <<off, mask, reg, stores, sent, rest, spilled, tangled>>

\* recvfrom at the offset takes what there is room for.  Then the frames'
\* callback: a chunk at once, and what is left of this read stays.
\* Fault: a short datagram leaves the offset where the read put it.
LeftAsRead(len) == IF len >= Chunk THEN len - Chunk ELSE rest + len
Left(len) == IF len >= Chunk THEN len - Chunk ELSE 0

\* Fault: it takes the datagram whatever its length.
ReceivedWhole(n) == n
Received(n) == IF n < Half - rest THEN n ELSE Half - rest

\* ... or that a datagram has come, too.  An empty one dispatches nothing.
Read ==
  /\ lat = "poll"
  /\ \E n \in Lengths :
       rest' = IF Received(n) = 0 THEN rest ELSE Left(Received(n))
  /\ lat' = "frame" /\ out' = reg
  /\ UNCHANGED <<off, mask, reg, stores, sent, spilled, tangled>>

\* A frame may make the loop's own thread store frames; then the socket is
\* written in the same round.
\* Fault: one event a round.
FrameAlone ==
  /\ lat = "frame" /\ wat[Reader] = "idle"
  /\ lat' = "poll" /\ out' = FALSE
  /\ UNCHANGED <<off, mask, reg, stores, sent, rest, spilled, tangled>>
Frame ==
  /\ lat = "frame" /\ wat[Reader] = "idle"
  /\ lat' = "write"
  /\ UNCHANGED <<off, mask, reg, stores, out, sent, rest, spilled, tangled>>

\* The socket is written if the mask has it still.
Skip ==
  /\ lat = "write" /\ ~(out /\ mask)
  /\ lat' = "poll" /\ out' = FALSE
  /\ UNCHANGED <<off, mask, reg, stores, sent, rest, spilled, tangled>>

\* _EV_NET_EventUDPWriteToBuffer: all that is stored is one datagram.
Send ==
  /\ lat = "write" /\ out /\ mask /\ off >= 0
  /\ sent' = off /\ lat' = "left" /\ out' = FALSE /\ tangled' = Inside
  /\ UNCHANGED <<off, mask, reg, stores, rest, spilled>>

\* sendto fails.
SendFails ==
  /\ lat = "write" /\ out /\ mask
  /\ lat' = "poll" /\ out' = FALSE
  /\ UNCHANGED <<off, mask, reg, stores, sent, rest, spilled, tangled>>

\* Fault: the loop takes the first frame for all of them.
SubtractOne ==
  /\ lat = "left"
  /\ sent' = IF off > 1 THEN off - 1 ELSE 0
  /\ lat' = "keep"
  /\ UNCHANGED <<off, mask, reg, stores, out, rest, spilled, tangled>>

\* The offset is read again for what is left of it.
Subtract ==
  /\ lat = "left"
  /\ sent' = off - sent /\ lat' = "keep"
  /\ UNCHANGED <<off, mask, reg, stores, out, rest, spilled, tangled>>

Keep ==
  /\ lat = "keep"
  /\ off' = sent
  /\ lat' = IF sent = 0 THEN "unwatch" ELSE "poll"
  /\ sent' = 0
  /\ UNCHANGED <<mask, reg, stores, out, rest, spilled, tangled>>

Unwatch ==
  /\ lat = "unwatch"
  /\ mask' = FALSE /\ lat' = "build"
  /\ UNCHANGED <<off, reg, stores, out, sent, rest, spilled, tangled>>

LoopBuild ==
  /\ lat = "build"
  /\ sent' = IF mask THEN 1 ELSE 0
  /\ lat' = "register"
  /\ UNCHANGED <<off, mask, reg, stores, out, rest, spilled, tangled>>

LoopRegister ==
  /\ lat = "register"
  /\ reg' = (sent = 1)
  /\ sent' = 0 /\ lat' = "poll"
  /\ UNCHANGED <<off, mask, stores, out, rest, spilled, tangled>>

LoopSteps ==
  \/ Poll \/ Read \/ Frame \/ Skip \/ Send \/ SendFails
  \/ Subtract \/ Keep \/ Unwatch \/ LoopBuild \/ LoopRegister
=============================================================================
