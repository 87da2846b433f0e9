---------------------------- MODULE TmsDispatch ----------------------------
(***************************************************************************)
(* A process-data frame of the train management system on its way through  *)
(* the rows of operate_device/tms.c.  The UDP thread compares each row's   *)
(* byte with the frame it stored last and calls the handlers one after     *)
(* another; every handler asks again whether this controller is master,    *)
(* while the status timer's thread may change that between any two.        *)
(* Requests go to the broadcast thread (Announcer), whose current type the *)
(* stop handler reads in one statement and acts on in another.             *)
(***************************************************************************)
EXTENDS Integers, Announcer

CONSTANTS
  Frames,  \* the frames TMS may send
  Lengths  \* u16DatLen: the length of its data that a frame states of itself

(* The layout of T_TMS_RECVPACKT, as far as a handler reads it.            *)
Offset == [dir |-> 3, nex |-> 5, start |-> 6, end |-> 7, side |-> 20,
           open |-> 21, closed |-> 22, pre |-> 29, arr |-> 30, stop |-> 31,
           code |-> 32, trig |-> 34, cyc |-> 37]
Fields == DOMAIN Offset
Byte == 0..255
Frame == [Fields -> Byte]

\* sizeof(T_TMS_RECVPACKT), and PIS_PACK_HEADINFO_SIZE.
DatLen == 51
Header == 21

ASSUME FramesAssumption == Frames \subseteq Frame
\* A frame has all the bytes the handlers read; it may have more.
ASSUME LengthsAssumption == Lengths \subseteq Nat /\ \A n \in Lengths : n >= DatLen

(* gtTmsMasterMsgDataProc, without the rows of date and time, which set the *)
(* clock of the operating system.  The two questions of the stop handler   *)
(* are rows of their own.  The last row is the whole slave table.          *)
Row(field, judge, handler) ==
  [field |-> field, judge |-> judge, handler |-> handler]

\* Fault: the rows of the stations compare like the others.
TmsRowsUnequal ==
  << Row("dir",   "unequal",  "direction"),
     Row("nex",   "unequal",  "station"),
     Row("nex",   "unequal",  "station"),
     Row("start", "unequal",  "station"),
     Row("end",   "unequal",  "station"),
     Row("open",  "unequal",  "doors"),
     Row("pre",   "unequal",  "pre"),
     Row("arr",   "unequal",  "arr"),
     Row("stop",  "unequal",  "stopPre"),
     Row("stop",  "unequal",  "stopArr"),
     Row("trig",  "unequal",  "urgent"),
     Row("cyc",   "unequal",  "cycle"),
     Row("dir",   "whatever", "store") >>

TmsRows ==
  << Row("dir",   "unequal",  "direction"),
     Row("nex",   "whatever", "station"),   \* four rows, one for each station;
     Row("nex",   "whatever", "station"),   \* which byte is watched does not
     Row("start", "whatever", "station"),   \* matter to a WHATEVER row
     Row("end",   "whatever", "station"),
     Row("open",  "unequal",  "doors"),
     Row("pre",   "unequal",  "pre"),
     Row("arr",   "unequal",  "arr"),
     Row("stop",  "unequal",  "stopPre"),
     Row("stop",  "unequal",  "stopArr"),
     Row("trig",  "unequal",  "urgent"),
     Row("cyc",   "unequal",  "cycle"),
     Row("dir",   "whatever", "store") >>

Last == 13

VARIABLES
  flag,     \* b8MasterFlag, written by either thread
  frame,    \* the frame being dispatched
  backup,   \* acDataBackUp of TMS: what is stored of an earlier one
  row,      \* the row whose handler is called next; 0 between frames
  stopping, \* the type the stop handler has found current and not yet stopped
  dir,      \* b8RunDir
  station,  \* tStationInfo
  stage,    \* b8PreFlag and b8ArrFlag: which of the two was asked for last
  doors,    \* b8OpenLeftDoorFlag, b8OpenRightDoorFlag
  prev,     \* history: the frame dispatched before, if it was stored
  steady,   \* history: frames stored since the last loss of the flag, at most 2
  sure,     \* history: TMS set the direction, and since then no change of role
            \* fell into a frame and the other controller set no direction
  asked,    \* history: requests to play made for the frame, by type
  heard     \* history: what was current when a stop was sent and nothing was
            \* waiting before it

local   == <<dir, station, stage, doors>>
history == <<prev, steady, sure, asked, heard>>
vars == <<announcer, flag, frame, backup, row, stopping, local, history>>

-----------------------------------------------------------------------------
Reset == [x \in Fields |-> 0]
Unasked == [bd \in Mp3Types |-> 0]

\* Fault: less of a frame is stored than its triggers need.
StoredShort(f, len) ==
  [x \in Fields |-> IF Offset[x] < 30 THEN f[x] ELSE backup[x]]

\* PisDataProc_Matrix_CompareUpdateProcessData copies u16DatLen + 6 bytes of a
\* frame that is u16DatLen + PIS_PACK_HEADINFO_SIZE bytes long; the rest of the
\* backup stays as it was.
Stored(f, len) ==
  [x \in Fields |-> IF Header + Offset[x] < len + 6 THEN f[x] ELSE backup[x]]

\* PisDataProc_Matrix_Dispatch, for one row.
Fires(n, f) ==
  TmsRows[n].judge = "whatever" \/ f[TmsRows[n].field] # backup[TmsRows[n].field]

\* The next row after n whose handler is called; the last one always is.
Next1(n, f, m) ==
  /\ m \in (n + 1)..Last /\ Fires(m, f)
  /\ \A k \in (n + 1)..(m - 1) : ~Fires(k, f)

Handles(h) == row # 0 /\ TmsRows[row].handler = h
Advance == \E m \in 1..Last : Next1(row, frame, m) /\ row' = m

\* A frame arrives: its table is chosen by the flag.
Receive(f) ==
  /\ row = 0
  /\ frame' = f
  /\ prev' = IF steady > 0 THEN frame ELSE Reset
  /\ asked' = Unasked
  /\ IF flag THEN \E m \in 1..Last : Next1(0, f, m) /\ row' = m ELSE row' = Last
  /\ UNCHANGED <<announcer, flag, backup, stopping, local, steady, sure, heard>>

-----------------------------------------------------------------------------
(* The handlers.                                                           *)

\* TMS_RUNDIR_UP is 1; everything else counts as down.
DirOf(byte) == IF byte = 1 THEN "up" ELSE "down"

\* _TMS_RunDirectionSet
RunDirectionSet ==
  /\ Handles("direction") /\ Advance
  /\ dir' = IF flag THEN DirOf(frame.dir) ELSE dir
  /\ sure' = (sure \/ flag)
  /\ UNCHANGED <<announcer, flag, frame, backup, stopping, station, stage, doors,
                 prev, steady, asked, heard>>

\* _TMS_StationInfoSet.  The current station is set from the next one.
StationsOf(f) ==
  [start |-> f.start, end |-> f.end, nex |-> f.nex, cur |-> f.nex]

StationInfoSet ==
  /\ Handles("station") /\ Advance
  /\ station' = IF flag THEN StationsOf(frame) ELSE station
  /\ UNCHANGED <<announcer, flag, frame, backup, stopping, dir, stage, doors,
                 history>>

\* _TMS_CloseDoor_StatusSet
CloseDoorStatusSet ==
  /\ Handles("doors") /\ Advance
  /\ doors' = IF flag /\ frame.closed # 0 THEN {} ELSE doors
  /\ UNCHANGED <<announcer, flag, frame, backup, stopping, dir, station, stage,
                 history>>

\* TMS_SendNanoMsgToBroadCast, when cond.
Tell(cond, r) ==
  /\ IF cond THEN Post(r) ELSE UNCHANGED inbox
  /\ UNCHANGED <<type, job>>

Count(cond, bd) ==
  asked' = IF cond THEN [asked EXCEPT ![bd] = @ + 1] ELSE asked

DoorsOf(side) == CASE side = 1 -> {"left"} [] side = 2 -> {"right"}
                   [] side = 3 -> {"left", "right"} [] OTHER -> {}

\* _TMS_PreBroadCast_TriggerSet
PreTriggerSet ==
  /\ Handles("pre") /\ Advance
  /\ LET ask == flag /\ frame.pre # 0 IN
       /\ Tell(ask, Play("tms", "pre"))
       /\ Count(ask, "pre")
       /\ stage' = IF ask THEN "pre" ELSE stage
       /\ doors' = IF ask THEN DoorsOf(frame.side) ELSE doors
  /\ UNCHANGED <<flag, frame, backup, stopping, dir, station, prev, steady, sure,
                 heard>>

\* _TMS_ArrBroadCast_TriggerSet
ArrTriggerSet ==
  /\ Handles("arr") /\ Advance
  /\ LET ask == flag /\ frame.arr # 0 IN
       /\ Tell(ask, Play("tms", "arr"))
       /\ Count(ask, "arr")
       /\ stage' = IF ask THEN "arr" ELSE stage
  /\ UNCHANGED <<flag, frame, backup, stopping, dir, station, doors, prev, steady,
                 sure, heard>>

(* _TMS_StopBroadCast_TriggerSet, which does not ask for the flag: twice it *)
(* asks for the current type and, if that is the one, sends a stop for it. *)
(* Between the two the broadcast thread may go on to another announcement. *)

StopLook(h, bd) ==
  /\ Handles(h) /\ stopping = None
  /\ frame.stop # 0 /\ type = bd
  /\ stopping' = bd
  /\ UNCHANGED <<announcer, flag, frame, backup, row, local, history>>

StopPass(h, bd) ==
  /\ Handles(h) /\ stopping = None
  /\ frame.stop = 0 \/ type # bd
  /\ Advance
  /\ UNCHANGED <<announcer, flag, frame, backup, stopping, local, history>>

StopSend ==
  /\ stopping # None
  /\ stopping' = None
  /\ Tell(TRUE, Stop("tms", stopping)) /\ Advance
  /\ heard' = IF inbox = << >> /\ job = Idle THEN type ELSE heard
  /\ UNCHANGED <<flag, frame, backup, local, prev, steady, sure, asked>>

StopTrigger ==
  \/ StopLook("stopPre", "pre") \/ StopPass("stopPre", "pre")
  \/ StopLook("stopArr", "arr") \/ StopPass("stopArr", "arr")
  \/ StopSend

\* _TMS_EmergencyBroadCastTrigger.  A type without a row is never current, so the
\* answer to its question for the current type cannot be overtaken.
EmergencyTrigger ==
  /\ Handles("urgent") /\ Advance
  /\ LET ask  == flag /\ frame.trig # 0 /\ frame.code # 0
         stop == flag /\ frame.trig = 0 /\ type = "urgent" IN
       Tell(ask \/ stop, IF ask THEN Play("tms", "urgent") ELSE Stop("tms", "urgent"))
  /\ UNCHANGED <<flag, frame, backup, stopping, local, history>>

\* _TMS_CycleBroadCastTrigger, which does not ask for the flag either.
CycleTrigger ==
  /\ Handles("cycle") /\ Advance
  /\ Tell(TRUE, IF frame.cyc # 0 THEN Play("tms", "urgent") ELSE Stop("tms", "urgent"))
  /\ UNCHANGED <<flag, frame, backup, stopping, local, history>>

\* Fault: a slave stores the frame too.
StoreAlways ==
  /\ Handles("store")
  /\ row' = 0
  /\ \E len \in Lengths : backup' = Stored(frame, len)
  /\ steady' = IF ~flag THEN 0 ELSE IF steady < 2 THEN steady + 1 ELSE 2
  /\ asked' = IF steady' = 2 THEN asked ELSE Unasked
  /\ UNCHANGED <<announcer, flag, frame, stopping, local, prev, sure, heard>>

\* _TMS_RecivAFrameDataPackHandle: a master stores the frame.
Store ==
  /\ Handles("store")
  /\ row' = 0
  /\ IF flag THEN \E len \in Lengths : backup' = Stored(frame, len)
             ELSE UNCHANGED backup
  /\ steady' = IF ~flag THEN 0 ELSE IF steady < 2 THEN steady + 1 ELSE 2
  /\ asked' = IF steady' = 2 THEN asked ELSE Unasked
  /\ UNCHANGED <<announcer, flag, frame, stopping, local, prev, sure, heard>>

Handler ==
  \/ RunDirectionSet \/ StationInfoSet \/ CloseDoorStatusSet
  \/ PreTriggerSet \/ ArrTriggerSet
  \/ StopTrigger \/ EmergencyTrigger \/ CycleTrigger \/ Store

-----------------------------------------------------------------------------
(* The rest of the controller.                                             *)

\* _PISC_UpateLocalProcessToMaster: a slave takes over what the master says of
\* the journey, which is what TMS told it.
FollowMaster(f) ==
  /\ row = 0 /\ ~flag
  /\ dir' = DirOf(f.dir)
  /\ station' = StationsOf(f)
  /\ sure' = FALSE
  /\ UNCHANGED <<announcer, flag, frame, backup, row, stopping, stage, doors, prev,
                 steady, asked, heard>>

\* PISC_LOCAL_SetMasterFlag, called by the arbitration (MasterSlave).
Promote ==
  /\ ~flag /\ flag' = TRUE
  /\ sure' = (sure /\ row = 0)
  /\ UNCHANGED <<announcer, frame, backup, row, stopping, local, prev, steady,
                 asked, heard>>

Demote ==
  /\ flag /\ flag' = FALSE
  /\ steady' = 0 /\ prev' = Reset
  /\ sure' = (sure /\ row = 0)
  /\ UNCHANGED <<announcer, frame, backup, row, stopping, local, asked, heard>>

Broadcast(step) ==
  /\ step
  /\ heard' = IF type' # type THEN None ELSE heard
  /\ UNCHANGED <<flag, frame, backup, row, stopping, local, prev, steady, sure,
                 asked>>

Init ==
  /\ AnnouncerInit
  /\ flag = FALSE /\ frame = Reset /\ backup = Reset
  /\ row = 0 /\ stopping = None
  /\ dir = None /\ station = StationsOf(Reset) /\ stage = None /\ doors = {}
  /\ prev = Reset /\ steady = 0 /\ sure = FALSE /\ asked = Unasked /\ heard = None

Next ==
  \/ \E f \in Frames : Receive(f) \/ FollowMaster(f)
  \/ Handler
  \/ Promote \/ Demote
  \/ Broadcast(Work) \/ Broadcast(Over)

Spec == Init /\ [][Next]_vars

\* The broadcast thread gets on with its requests, as far as it does not wait for
\* the decoder to stop: nothing is assumed of that.
FairSpec == Spec /\ WF_vars(Broadcast(Sure))

-----------------------------------------------------------------------------
(* Properties.                                                             *)

Directions == {"up", "down", None}
Stations == [{"start", "end", "nex", "cur"} -> Byte]

\* Every variable stays in its domain; in particular no handler asks twice for
\* one frame.
TypeOK ==
  /\ inbox \in Seq(Requests) /\ Len(inbox) <= InboxMax
  /\ type \in Rowed \union {None}
  /\ job \in [op : {"play", "stop", "timer", "begin", "none"},
              dev : {"tms", "pisc", "none"}, bd : Rowed \union {"urgent", None}]
  /\ flag \in BOOLEAN /\ frame \in Frame /\ backup \in Frame /\ row \in 0..Last
  /\ stopping \in Mp3Types \union {None}
  /\ dir \in Directions /\ station \in Stations
  /\ stage \in Mp3Types \union {None} /\ doors \subseteq {"left", "right"}
  /\ prev \in Frame /\ steady \in 0..2 /\ sure \in BOOLEAN
  /\ asked \in [Mp3Types -> 0..1] /\ heard \in Rowed \union {None}

\* A controller that was master for two frames in a row asks for an announcement
\* once and only once when its trigger rises from the first to the second, and
\* for nothing when it does not: whatever the backup was before, however the
\* controller came to be master, and although it stores less than a whole frame.
OncePerRise ==
  row = 0 /\ steady = 2 =>
    \A bd \in Mp3Types :
      asked[bd] = IF frame[bd] # 0 /\ frame[bd] # prev[bd] THEN 1 ELSE 0

\* After those two frames the stations are those of the frame, whatever the
\* controller took over as a slave: their rows do not look at the backup.
StationsCurrent ==
  row = 0 /\ steady = 2 => station = StationsOf(frame)

\* The direction hangs on the backup.  It is that of the last frame stored
\* unless a change of role fell into a frame or the other controller set it: then
\* an edge is swallowed and the direction stays wrong until TMS changes it again.
DirectionCurrent ==
  row = 0 /\ steady >= 1 /\ sure => dir = DirOf(frame.dir)

\* A stop that was sent when nothing was waiting before it is the next thing the
\* broadcast thread does to what is current at that moment: whatever TMS asks for
\* meanwhile, nothing else is taken up before that has ended.  It need not be what
\* the handler found and the stop names.
StopComesNext == heard # None => type = heard /\ job.op \in {"stop", "timer", "none"}

\* And the stop is taken up, whatever else keeps coming, or what it was to end is
\* over by itself.  That a stop taken up also returns is not claimed.
StopIsHeard == heard # None ~> heard = None \/ job.op = "stop"
=============================================================================
