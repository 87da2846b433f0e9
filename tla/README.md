# Formal models of PisSystem

PisSystem is the firmware of a train's passenger information controller
(PISC). A train has two such controllers, of which one is to be master; the
master reads process data from the train management system (TMS), plays station
announcements and passes the driver's calls (OCC) to the loudspeakers. The
program is C, about ten thousand lines under `src/src`, in a dozen POSIX threads
that share memory, mostly without locks.

This directory holds TLA+ models of the parts where threads, time-outs and the
other controller meet, the TLC configurations that check them, and proofs of
their main safety properties for every value of their parameters.

## 1. Inventory

| Component (files) | State | Operations | Interacts with | What is hard | Correct when |
|---|---|---|---|---|---|
| **Arbitration** (`manage/dev_master.c`, `operate_device/pisc.c`, `teminal_device/pisc_local.c`) | role type, master flag, own key, the other side's key and master bit | decide, set type, set flag, promote (registers the devices again) | called from the status timer's thread and the UDP thread | two threads, no lock; type and flag are two variables | one master; the flag follows the type; a role change has a reason |
| **Device status** (`manage/dev_status.c`) | status and timeout counter of each device | 1 s tick, mark OK, mark ERROR, register | UDP thread clears, timer counts; ERROR arbitrates | 8-bit counter, load and store in two threads | dead is declared after silence only, and always |
| **Process-data matrix** (`process_matrix/pis_datproc_matrix.c`) | device table, backup table, two row counters | register, look up by device, command and mode, compare with the backup, store it | dispatches into pisc.c and tms.c | edges against a backup; the mode read several times; fixed tables | every edge is seen once; the tables suffice |
| **Broadcast manager** (`manage/broadcast.c`) | current announcement, priorities | play, stop, 1 s timer, audio clock | requests from TMS (UDP thread) and keys (input thread); commands the decoder | waits for the decoder inside a handler | an announcement plays and ends; the urgent goes first |
| **MP3 decoder** (`manage/mp3_decoder.c`) | playlist, index, three flags, codec context | open, decode a packet, close, drain; set list, stop | flags and ring shared with the broadcast thread | three flags changed one by one | no audio left behind; no file opened over one that plays; a stop returns |
| **Ring buffer** (`lib/kring_buffer.c`) | memory, two 32-bit counters | put, get, length, reset | decoder, sound card, broadcast | wrap of memory and of counters | a bounded FIFO of bytes |
| **TMS** (`operate_device/tms.c`) | rows of bit comparisons, station data | handlers per changed byte | arbitration (only the master acts), broadcast | stale backup after a role change; stop asked for by what another thread plays | each request is sent once |
| **OCC and key inputs** (`operate_device/occ.c`, `manage/ioinput_manage.c`) | last level of each pin | debounce, call back | broadcast | an edge during the debouncing | the stored level follows the pin |
| **UDP** (`udp_service.c`, `port_layer/*.c`, `net/evnet.c`) | read and write buffers with offsets | read, frame, write | event loop; writers in other threads | offsets after a long datagram; a write guard that does not ask for the size | reading never runs out of room; what is stored is sent |
| **Event loop** (`evio/evio.c`) | descriptors, watch masks | timers that are due, poll, call back, watch | every service thread has one | masks changed from other threads | no lost watch |
| **Timers** (`timer/evtimer.c`, `mini-heap/mini-heap.c`) | binary heap with indices | insert, extract, pass | event loop | timers armed again while a pass serves others | the earliest is served first, and none is left out |
| **Start-up and routing** (`main.c`, `manage/sys_service.c`) | start counter, message pairs | start barrier, forward a message | all threads | lost wake-up; a thread that fails to start; full pairs | the main thread starts; no request is lost |
| Hash, packet format, INI files, drivers, displays | | | | sequential, or pure input and output | not modelled |
| nanomsg, zlog, libav headers | | | | vendored | not modelled |

`PROJECT.json` lists every component with its sources, and under "hazards" what
is hard to test, each at its line.

## 2. Modules

| Module | Models |
|---|---|
| `MasterSlave` | arbitration, device status of the other controller, the matrix for its frames, start-up |
| `MasterSlave_proofs` | theorems about it |
| `KRingBuffer` | the ring buffer |
| `ByteFifo` | what the ring buffer promises: a bounded queue of bytes |
| `KRingBuffer_proofs` | the ring implements the queue, and what that rests on |
| `Announcer` | what the broadcast thread promises those who send it requests |
| `Mp3Broadcast`, `MCMp3Broadcast` | broadcast manager and decoder thread; playlists and priorities for TLC |
| `Mp3Broadcast_proofs` | theorems about it, and that it implements `Announcer` |
| `TmsDispatch`, `MCTmsDispatch` | a frame of TMS through the rows of its table; two frames for TLC |
| `TmsDispatch_proofs` | theorems about it |
| `StartBarrier` | the start of the six services |
| `KeyInput` | the input thread and the pin of the operating control call |
| `RequestRouting`, `MCRequestRouting` | these two, `Announcer` and main's forwarding between them |
| `RequestRouting_proofs` | theorems about it |
| `TimerQueue` | what a loop promises its timers |
| `TimerLoop` | a thread's timers: heap and pass |
| `UdpEndpoint` | an endpoint with its buffers, the threads that store frames and the loop that sends |
| `SendLoop`, `MCSendLoop` | these two: what the train's timers and the UDP thread send |
| `SendLoop_proofs` | theorems about it |

`RequestRouting` EXTENDS `StartBarrier`, `KeyInput` and `Announcer`; `SendLoop` EXTENDS `TimerLoop`
and `UdpEndpoint`; `TmsDispatch` EXTENDS `Announcer`. The parts have actions and no
specification of their own where they do not stand alone: the module that composes
them says which thread does what, and its invariants speak of both. `ByteFifo`,
`Announcer` and `TimerQueue` are the abstract specifications. `Announcer` is
used twice: `Mp3Broadcast` is shown to implement it, and `TmsDispatch` and
`RequestRouting` use it in the place of the broadcast thread.

### MasterSlave

One controller. `Sys` is the train-system thread (start-up, then the status
timer), `Udp` the UDP thread (one frame of the other controller after another).
Each has a place (`pc`), a place to return to (`ret`: MasterProcess is called from
four sites) and one local (`tmp`). A step is one read or one write of shared
state, or several that no other thread can see apart:

* `TickLoad`, `TickStore`, `MarkError`: `DEV_STATUS_TimerOut_Handle`. The increment
  is a load and a store; the frame's clearing can fall between.
* `Receive`, `MarkOk`, `MatchMaster`, `MatchSlave`, `KeyRow`, `MasterRow`, `BackupRow`:
  a frame through `CTRL_UDPORT_ReadAFrameData` and `PisDataProc_Matrix_Dispatch`.
  The mode loop reads the master flag once per mode; a flag that changes between
  the reads makes it run past the table (`fault = "wild"`).
* `MasterProcess`, `SetType`, `WriteType`, `ReadBit`, `SetMasterFlag`, `WriteFlag`, `PISC_Init`, `TMS_Init`:
  `DEV_MASTER_MasterProcess` and its callees, for either thread. `Decide` is the decision itself. Type
  and flag are each compared in one step and written in another, so that both threads may find
  the flag different and register the devices twice for one promotion.
* `BootKey`, `BootSlave`, `BootRegister`: `PISC_LOCAL_ProcessDataInit` and the two
  registrations after it.
* `PeerChanges`: the other controller stops or starts (environment). A frame can
  carry any key and master bit; a lost frame is one never received.

Abstractions: a registration is one step (`gu8DevIndex++` by two threads at once is
not split); the flag is a variable of its own although it shares its byte with
other bit-fields; only the other controller's row of the status table is kept,
because no other row feeds the arbitration. `fault` ends the run of the process:
exit, a write past the backup table, or the dispatcher out of its table.
`overlap`, `masterFrame`, `inits` and `quiet` are history variables, which only
properties read.

Two facts about this build shape the model: the device number is the constant 1
and the own key is set at start-up and never changed. So the branch of
`DEV_MASTER_MasterProcess` for "no key on either side, the other one has number
1" cannot be taken; `Decide` keeps it all the same.

### KRingBuffer and ByteFifo

Every call holds the mutex, so a call is a step. The arithmetic is unsigned and
wraps at `CntMod`, the differences too. The memory starts with any contents
(malloc). `moved` is what the last call moved: the result of a get, the accepted
part of a put. `ImplementsFifo` is `ByteFifo!Spec` under the mapping `q <- Stored`,
the bytes between the counters.

### Mp3Broadcast

`b` is where the broadcast thread stands, `d` the decoder thread. Every flag is
read and written under the mutex, one at a time, so every access is a step.

* `TmsPlay`, `TmsStop`, `OccKey`: requests. `TmsStop` reads the current type and sends
  in one step; what may happen between the two is in `TmsDispatch`.
* `Handle`, `Timer`, `FepAudio`: what the broadcast thread's event loop calls; `Handle`
  includes the priority decision of `BROADCAST_Process`. `StopProcess`, `StopClear`,
  `StopWait`, `StopEnd` are `BROADCAST_StopProcess` with `MP3_Decoder_Stop`, whose loop waits
  for the decoder; `SetList` ... `SetRunFlag` are `MP3_Decoder_SetDecodeList` and the
  signal. While it is there it handles nothing else.
* `StopEnd`, `SetType`: the end of `BROADCAST_StopProcess` and the setting of the new type,
  two writes of a variable that the UDP thread reads.
* `DTop` ... `DEndRun`: one turn of `MP3_Decoder_Service_ThreadHandle`, line by line.

Abstractions: audio is counted in packets; a file has any number of them up to
`MaxPackets`, or is missing, so that its container does not open, or broken, so that opening it may fail
after the container is open (`Opens`, `opened = "partly"`): nobody closes that context, the next file is
opened over it, or the decoder sleeps with it; there is one TMS and one PISC number; the controller
is master throughout; the codec flag of the current announcement is that of its
type; the `pthread_cond_wait`, which the code calls without a loop, does not wake
spuriously; the file names of a list and its terminator
are written in one step (`SetList`); an announcement whose rule gives no file does not
occur. `raced` and
`orphan` are history variables.

`ImplementsAnnouncer` is `Announcer`'s specification with `job` replaced by `Doing`: from the
outside the thread is busy from the acceptance of a request to the setting of the type,
and the playlist, the flags and the decoder are hidden.

### TmsDispatch

The UDP thread in `PisDataProc_Matrix_Dispatch` with a frame of TMS. `row` is the row whose
handler is called next; each handler is one step, so that the status timer's thread can
change the master flag (`Promote`, `Demote`) between any two, as it can in the code. The handler of the
stop reads the current type (`StopLook`, `StopPass`) and sends (`StopSend`) in steps of their own: the broadcast thread
may go on to another announcement between them. (The emergency handler asks for the current type as well, but for one that
has no row and is never current.)
`TmsRows` is `gtTmsMasterMsgDataProc` with the slave's table as its last row; a frame holds
the bytes that handlers read, each at its offset in the packet. `Stored` is the
backup as it is made: `u16DatLen + 6` bytes of a frame that has 21 bytes of header, so
the last 15 bytes of data are never stored. The length is what each frame states of itself (`Lengths`):
the 51 bytes of the structure as it is built, or the 60 that the comments of `tms.h` give it; any
length from 51 up in the proofs. A frame that states less than its handlers read is left out. `FollowMaster` is what a slave takes over from the
frames of the master. `prev`, `steady`, `sure`, `asked`, `heard` are history variables: the frame
stored before, how long this controller has been master, whether the direction came from
TMS undisturbed, the requests made for this frame, what was current when a stop was sent.

Abstractions: date and time go to the clock of the operating system and are left out;
the work mode is always automatic, as nothing in this build changes it; a request goes
straight to the broadcast thread (`RequestRouting` has the way through main); TMS is the only
sender, so the driver's call is not among what it stops.

### StartBarrier, KeyInput, RequestRouting

* `StartBarrier`: `MainCreate` and `TrainCreate` create services, which `Connect` and `Count`
  themselves or `Fail`; a failed service returns (train, broadcast) or aborts the process. The UDP service's loop
  is a thread of its own that may abort after the service was counted (`LoopFails`); main's loop is assumed to
  find the program running.
  `Look` and `Wait` are main's loop around `pthread_cond_wait`, without the lock around the
  look. `missed` remembers that the last signal came between the two.
* `KeyInput`: `KeyRead` and `KeySettled` are the two halves of `IOInput_InputThreadCheck` around its 50
  ms of sleep; either read may fail, which leaves a 0 (`misread`), and the pin's file may not open, so that
  nobody polls it (`input = "closed"`); `Edge` is the pin, which may change at any time. How the driver reports an
  edge (a file just opened has one to report, a read clears it) is external.
* `RequestRouting`: `UdpSend`, `FepSend` and `InputSettled` send to main through a pair each, `Forward`
  is `Main_Handle_NanomsgEvent`, `ServeClock` and `ServeRequest` the broadcast thread. No send waits: a full
  pair, or one without a peer, loses the message. `served` and `lost` are history.

Abstractions: a thread is created when its service is; the other pins, which have no
handler, only take time; the audio clock is answered without audio.

### TimerLoop, UdpEndpoint, SendLoop

* `TimerLoop`: the heap of `mini-heap.c`, one swap at a time (`SiftUp`, `SiftDown`), with the index of each
  timer; `Begin`, `Pop`, `Served` are the pass of `_EVIO_EvTimer_Run`, `Rearm` the end of each callback.
  Instants are kept relative to the clock, so that a `Tick` lowers them all. Time may
  pass in every step.
* `TimerQueue`: the same loop as a set of armed timers, without heap, index or budget: a pass serves
  one that no armed one is due before, and ends when none is due by the instant it read. `ImplementsQueue` is
  this specification with the heap's contents for the set; the hand shows from the root's removal to the end
  of the callback, so that sifting, the removal's own included, is hidden.
* `UdpEndpoint`: `Store`, `Copy`, `Load`, `Add`, `Watch`, `Build`, `Register` are `EV_NET_EventUDP_WriteData` with
  `EVIO_Event_Watch_Write`, each load and store a step; `Send`, `Subtract`, `Keep`, `Unwatch`, `LoopBuild`,
  `LoopRegister` the loop's side of the same variables; `Poll`, `Read`, `Frame`, `Skip` its round. `tangled` is
  a history variable: the last to enter found another thread inside.
* `SendLoop`: the train service's callbacks (`Call`, `Loads`, `Stores`, `Return`) and the UDP thread, which
  stores frames too when a frame of TMS brings new texts.

The offset is read three times to store a frame: for the guard, for where the frame is copied,
and for what its size is added to. A frame is its size, any of `Sizes` for its thread. The guard
asks whether the offset is below the capacity and not whether the frame fits, so a frame may
be copied past the end of the buffer, or, when two threads have made the offset negative, before its
beginning (`spilled`). What the program does with the bytes it has then overwritten is not defined by its
source: the behaviour ends there, and the liveness properties name it as one outcome.

Abstractions: a tick is 500 ms, so the 5 ms for which `epoll_wait` sleeps at most are below it; the
bytes of frames are left out; a read is measured in chunks of 1024 bytes. The FEP audio port (chunk
512) and the audio port (its writer under a mutex) are endpoints of the same code. The
socket is watched for writing from its creation, so the first round sends an empty
datagram.

## 3. What the runs check

| Run | Expectation | Shows |
|---|---|---|
| `ms_safety` | holds | `FlagFollowsType`: as long as the handlers of the two threads never overlapped, decided role and visible role agree. `Survival`: the process ends only at a computable number of promotions, or for a role change inside the dispatcher. `ViewTracksPeer`: no edge of the other side's bits is missed while frames go through the slave table. `ErrorMeansSilence`: no early time-out, across the counter's wrap. `DemotionNeedsPeerKey`: a master steps down only for the key of a controller that is alive. `PromotionNeedsReason`: a slave takes over only from a dead controller or one that does not show its key. `DeadPeerIsNoticed`, `SerialTakeover`: silence is noticed for good and, without overlap, leads to taking over. |
| `peer_key` | violated | a master does not step down for a key it compares with an outdated backup: two masters |
| `registry` | violated | each promotion uses up table rows; two threads promoting at once use them twice |
| `takeover` | violated | with overlapping handlers the survivor may stay slave for ever |
| `kring` | holds | the ring is a bounded FIFO across both wraps |
| `announcements` | holds | `FilesInStep`, `NothingLeftBehind`: given that lists reach a sleeping decoder, only a file that is fully open is decoded and none is opened over one that plays, a sleeping decoder has left open nothing but what a failed opening leaves, and no audio survives an announcement. `StopSilences`: no decoder works without a current announcement, but for the release of the OCC key. `IndexInList`: no name beyond the current list is opened. `AnnouncementEnds`: what nobody stops ends by itself. `ImplementsAnnouncer`: requests are served one at a time and in order, and an announcement ends before another begins. |
| `stop_returns` | violated | stop and decoder wait for each other |
| `start_plays` | violated | a start that meets the decoder's last steps is lost |
| `urgent` | violated | a station announcement displaces the driver's call |
| `tms` | holds | `OncePerRise`: a controller that was master for two frames in a row asks for an announcement once when its trigger rises, and else not, whatever the backup was and although it is shorter than a frame, by as much as the frame's length says. `StationsCurrent`, `DirectionCurrent`: stations and direction are those of TMS; the direction only if no change of role fell into a frame. `StopComesNext`: a stop that is sent when nothing waits before it is the next thing done to what is current at that moment, which need not be what the handler saw a step before and the stop names. `StopIsHeard`: it is taken up, or what was current is over; that it returns is not claimed. |
| `requests` | holds | `NobodyMissing`, `MainStarts`: main begins its loop with all six services there, and does begin, unless one fails, the UDP loop aborts, or the last signal is missed. `SleepsForAReason`: with all six counted, main sleeps for that signal alone. `EdgeNotForgotten`: when the pin is not what is believed, its edge is pending or is being debounced, unless the last read failed. `RequestFollowsKey`, `CallFollowsKey`: across debouncing and two hops, the last request for the call is the one for the level believed, and when the key rests the broadcast thread has heard it, unless that request was lost, the pin could not be read, or that thread waits for an announcement to stop, which `stop_returns` shows it may do for ever. |
| `loops` | holds | `EarliestFirst`: the timer served is due, none that waits is due before it, and the heap loses none. `ImplementsQueue`: the heap and a pass's budget do what `TimerQueue` promises; in particular no pass leaves a timer that is due. `TimersRecur`: each timer is served for ever, while frames fit the buffer. `Watched`, `FramesLeave`: what a thread alone in the endpoint stored is watched and leaves, unless another thread or a frame past the end comes first. `CountKept`: until threads meet, no step loses a frame or sends one again. `ReadKeepsRoom`: no datagram leaves the reader without room. |

The six violated properties quote comments of the code; `PROJECT.json` "findings"
says for each what the comment says and what the code does.

Every property of a passing run has a mutant in its module, commented "Fault:", that
it must catch.

### Bounds

* `ms_safety`: time-out after 2 ticks (5 in the code), counter modulo 3 (256), so that
  it wraps soon after the time-out; 2 PISC and 1 TMS registered; tables of 14 rows
  (20), room for the two registrations of the start and for two promotions before the
  process ends. That is enough for slave, master, slave, master in one run. The tables
  bound the run by themselves: no further bound is needed.
* `peer_key`, `registry`, `takeover`: tables of 11 rows; one promotion and one demotion after the
  start. `takeover` has a time-out of 1 and a counter modulo 2.
* `kring`: 4 bytes, counters modulo 8, two byte values, chunks up to 5 (one more than
  fits): every position of both counters, every fill, both wraps.
* `announcements`: `MaxPackets` 2, `RingMax` 1 (so that packets are dropped when the ring is
  full), `InboxMax` 1, three playlists: one file, a broken one before it, and a missing and a broken one
  only, whose index ends beyond a list of one and which may leave a context half open for the next list. The violated runs of the module use one packet.
* `tms`: two frames, each with either of the two lengths: with 51 the byte of the cyclic announcement is never
  stored and its row never sees it fall, with 60 it does. They are before a station and in it, and differ in the watched bytes except
  `start` and `end`, in any order and any number; no frame closes the doors (`closed` is 0,
  no property is about them, and it would cost half as many states again); two requests waiting. Promotions and demotions are unbounded.
* `requests`: two requests at the broadcast thread, one in each pair to main, so that each of
  them is full when the other senders are quick; one announcement that gets in the way;
  two services that may fail (`MayFail`), of which one returns and one aborts, before or after it was counted; the
  proofs are for any. The key
  changes any number of times.
* `loops`: three of the four timers, with periods of 1, 2 and 3 ticks in place of 1, 2, 2
  and 10. A pass then leaves two in the heap, so that its root never has a right child: the
  proofs cover that comparison, for any number of timers. With all four, TLC finds no violation of
  `EarliestFirst` either (7.6 million states, too many to check liveness beside it), nor, when nothing is
  sent, of `ImplementsQueue` (172 thousand); no configuration is kept for these. `Lag` 1: a timer may be served a tick late,
  so that another comes due in the same pass. The timers are the one that sends process
  data (a frame), the one that watches the devices (none) and the one that sends displays (none or two).
  A frame of the train is one unit, one of texts two, the buffer two: so two short frames or a
  long one fill it, and a long one behind a short one passes its end. Datagrams of 0, 1, 4
  and 7 against a chunk of 2 and a buffer of 4: less than a chunk, twice one, and more than fits.

Deadlock is not checked where the system may stop: `MasterSlave` ends with `fault`;
`Mp3Broadcast` has the deadlock that `stop_returns` shows; in `TmsDispatch` and `RequestRouting`
something can always happen, but the process may have been aborted; `SendLoop` ends when a frame
has been copied outside the buffer. `KRingBuffer` is checked for deadlock.

### Fairness

`MasterSlave`: weak fairness of each thread's own steps; both are event loops of a
running process, and the timer restarts itself. Nothing makes frames arrive or the
other controller start or stop. `Mp3Broadcast`: weak fairness of the steps of both
threads, strong fairness of the audio clock and the timer: clock messages keep coming
from the amplifiers, the timer restarts itself, and the event loop serves both when
it returns to them, but other requests may keep it busy in between, so they are
enabled again and again and not continuously. `TmsDispatch`: weak fairness of what the broadcast
thread is sure to get on with (`Sure`); nothing makes TMS send. To end an announcement on request means to
wait for the decoder, and `stop_returns` shows that this may last for ever: where the thread does so (`MayHang`) no
fairness is assumed, neither there nor in `RequestRouting`, and it may return or not.
`RequestRouting`: weak fairness of main, of each service's start, of the input thread and, but for that wait, the broadcast
thread, and of main's reading of each pair, since `epoll` reports every readable pair in
every round. `SendLoop`: weak fairness of both threads and of the clock, and strong
fairness of a send that succeeds: a socket does not refuse for ever.

## 4. What is proved

TLAPS checks, for every value of the constants that satisfies the assumptions:

* `MasterSlave_proofs` (under `ConstantsAssumption`: a positive time-out below the
  counter's range, positive tables, any number of devices): `TypeCorrect`, `RolesAgree`,
  `EndsForAReason`, `ViewIsCurrent`, `NoEarlyTimeout`, `DemotionHasReason`,
  `PromotionHasReason`, all from `Invariance`, `Spec => []IndInv`.
* `KRingBuffer_proofs` (under `SizeAssumption`: the size divides the range of the
  counters): `TypeCorrect`, `NeverOverfull` and `Implementation`,
  `Spec => ImplementsFifo`.
* `Mp3Broadcast_proofs` (priorities in a byte, any playlists that are not empty, any bounds):
  `TypeCorrect`, `FilesStayInStep`, `SleepIsClean`, `StopsAreSilent`, `IndexStaysInList`,
  `Implementation`.
* `TmsDispatch_proofs` (any set of frames, any lengths from the structure's up): `TypeCorrect`, `AskedOnce`,
  `StationsFollow`, `DirectionFollows`, `StopGoesFirst`, `UsesAnnouncer`.
* `RequestRouting_proofs` (any capacities, any requests of TMS, any set of services that may
  fail): `TypeCorrect`, `AllServicesUp`, `SleepHasReason`, `EdgeKept`, `KeyIsFollowed`,
  `StartsLikeTheBarrier`.
* `SendLoop_proofs` (any finite set of timers, any periods, any sizes and numbers of frames, any capacity, any chunk that
  fits the reader's half of the buffer twice): `TypeCorrect`, `EarliestServed`, `PassesClear`, `StoredIsWatched`,
  `CountsKept`, `RoomToRead`, `Implementation`.

**The invariant of MasterSlave.** None of the properties is inductive. `Accounts`
counts table rows against registrations begun, with what each thread still owes, and
gives `Survival`. `SerialRole` says that without overlap one thread is idle and the
flag lags behind the type only between `WriteType` and `WriteFlag`; there the local holds
what the flag will be. `SerialReason` carries the reason of a role change, up or down, from the
decision to the write of the flag: several steps, in which neither the other side's key nor its
status may change unless handlers overlap. `SerialSilence` bounds the counter by the silence.
`ViewInStep` says, for each place of a frame's way through the rows, which of the two
bits has been taken over already. The proof has one lemma per conjunct and in it one
step per action.

**The ring.** `Distance`, `Advance` and the `Offset` lemmas state the modular arithmetic once:
a difference of counters is the number of bytes between them if the counters are at
most a size apart, and offsets of a run of counters do not meet. `PutAppends` and
`GetTakes` show that the two `memcpy` pieces are concatenation and removal on `Stored`;
`StepRefines` puts them together.

**The announcements.** The
invariant has three parts besides the types: `JobInStep` (where the broadcast thread stands
says what it is doing), `SilentWithout` (no current announcement, then no run flag or the
file told to end) and `DecoderInStep` (at each place of the decoder, which of file and
audio there is, while every list was given to a sleeping decoder). For
`Implementation` every action of the decoder, and the steps from list to signal,
map to stutters of `Announcer`. `IndexStaysInList` needs a fourth part, `IndexInStep`: the
index is compared with the list before a file is opened and counted up only after, so between
the two (`Opening`) it is strictly inside.

**The dispatcher.** `UsesAnnouncer`: the broadcast thread's part of every
behaviour is one of `Announcer`. `OncePerRise` speaks of the moment between frames; the
invariant says for each row what has been asked so far (`AskedSoFar`: at most once for a row
already passed, and never for one that is still to come), that what a settled master
compares with is the frame before as far as it is stored (`BackupIsPrev`), and likewise
for stations and direction.

**Routing.** The counter equals the number of services that have counted, so six means
all; `SleepHasReason` is therefore proved of the counter (`FullMissed`). For the key, requests for the call sit in only one of the pairs, and at each step
the last of those under way, or the last served when there is none, says what is stored.

**The loops.** The heap's
invariant is local (each element against its parent, but for the one being sifted, whose
parent is against its children); that the root is then the earliest is an induction over
positions by their least counterexample (`RootIsEarliest`), and that no timer is lost is
counting (`HeapHolds`). The endpoint's says what a thread that is alone inside
leaves at each of its places; `CountsKept` is a statement of steps from the same invariant.
`Implementation` (`Spec => ImplementsQueue`) takes the heap as the set of its elements: a swap leaves
the set alone (`HeapIsHidden`, `SiftingIsHidden`), taking the root serves a first timer by
`RootIsEarliest`, and a pass may end because `ServedClears` says that none is due by then,
whatever its budget. The steps of the UDP thread and of the endpoint are stutters.

**Only model-checked**: liveness, which is out of the prover's reach under fairness:
`DeadPeerIsNoticed`, `SerialTakeover`, `AnnouncementEnds`, `StopIsHeard`, `MainStarts`, `CallFollowsKey`,
`TimersRecur`, `FramesLeave`. Every safety and action property of the passing runs, and each of the
three refinements, is proved.

## 5. Seen in the code, not stated as properties

* Only the first file of a playlist that opens is ever played: nothing advances the index at the end
  of a file, though the comment at `mp3_decoder.c:517` says so.
* The release of the OCC key clears the current type whatever it is (`orphan`).
* `SetBroadCastOperateDevId` writes the device type (`broadcast.c:373-375`).
* Door announcements have no audio callback (`broadcast.c:117-121`), which line 528
  would call; no sender asks for them in this build. The urgent type has no row.
* A demoted controller never ends its announcement: the timer acts on a master only
  (`broadcast.c:620`), and the stop at the demotion is commented out
  (`pisc_local.c:223-225`).
* Both controllers would send the source number 1 and wait for number 2
  (`pisc_local.c:29,115-118`), so two boxes of this very build do not see each other.
* The row for closed doors watches byte 21, the open doors, while its handler reads byte 22
  (`tms.c:71,127`); the current station is set from the next one (`tms.c:173-176`).
* The urgent type that the cycle broadcast asks for has no row, so nothing plays
  (`broadcast.c:75-126`).
* Whether that row ever sees its flag fall depends on the length the frame states: with the 51 bytes of the
  structure the byte is beyond the backup, with the 60 of its comment it is within (`pis_datproc_matrix.c:96`, `tms.h:28`).
* A frame is copied past the end of the write buffer when it is longer than what is left (`evnet.c:106-111`);
  the model reaches it (`spilled`) and goes no further. No comment promises that it cannot happen.
* A file that fails to open half-way leaves its context open (`mp3_decoder.c:190-240`).
* A read of a pin that fails counts as the level of a call (`ioinput_manage.c:232-235`).
* A stop names one type and ends whatever is current when it is read (`broadcast.c:672`), which may have changed
  since the handler looked (`tms.c:368-371`); a play still queued when TMS asks for a stop is not stopped.
* When the last of the six signals falls between main's look and its wait, main sleeps
  for ever (`main.c:331-334`); when a service fails to start, too.
* A request for the call that is lost leaves the call as it is until the key changes
  again (`RequestRouting`, `lost`).
* When threads meet in an endpoint, what they stored may stay unwatched until the
  next frame is stored, or the kernel may report a writable socket that the loop skips
  again and again (`evio.c:159-177`, `SendLoop`, `tangled`).
* After a datagram of more than one chunk the rest of it is dispatched as the head of
  the next (`udp_service.c:35`); of several frames sent as one datagram the receiver
  dispatches the first.

## 6. Not modelled

* Messaging library, logging library, codec headers: vendored, nine tenths of the lines under
  `src/src`. What the program needs of them is a bounded queue (nanomsg) and an open that
  succeeds or fails and packets that come or end (codec); the rest of them has no part in
  the program's own logic. A model of that logic therefore covers a small share
  of the lines of the tree, most of them in the files that section 1 names.
* String hash: not built into the program. TCP in `evnet.c`, removal of timers and of
  descriptors (`evtimer.c:41-125`, `evio.c:138-157`), the thread variant of the status timer:
  reached by nothing that runs.
* Packet format, INI files, configuration: sequential layout and parsing without shared state; their
  results are constants of the modules.
* Drivers: device files and ioctl calls. The sound card's threads move samples between the ring
  and the card, which `KRingBuffer` and `Mp3Broadcast` cover on the ring's side.
* Contents of displays and audio packets; the bytes of frames in the endpoints, and what a frame
  copied past the write buffer destroys; the taking of buffers at start-up.

What could follow: the buffers taken by three threads at start-up; the composition of
`MasterSlave` and `TmsDispatch`, which now share only the master flag as each sees it.
