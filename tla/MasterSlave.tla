---------------------------- MODULE MasterSlave ----------------------------
(***************************************************************************)
(* Redundancy of the train controller (PISC): one controller deciding      *)
(* whether it is master or slave, from the frames of the other controller  *)
(* and from a timeout counter.                                             *)
(*                                                                         *)
(* Two threads share the state without a lock:                             *)
(*   Sys  the TrainSystem event loop: start-up (manage/sys_service.c) and  *)
(*        the 1 s status timer (manage/dev_status.c);                      *)
(*   Udp  the UDP event loop: one process-data frame of the other          *)
(*        controller at a time (port_layer/ctrl_udport.c), dispatched      *)
(*        through the process matrix to operate_device/pisc.c.             *)
(* Both call DEV_MASTER_MasterProcess (manage/dev_master.c), whose reads   *)
(* and writes are separate steps here: they interleave as the threads do.  *)
(*                                                                         *)
(* The other controller and the network are the environment: it is up or   *)
(* down, and a frame that is handled carries any key and any master flag.  *)
(* A lost frame is a frame that is never handled.                          *)
(***************************************************************************)
EXTENDS Integers, FiniteSets

CONSTANTS
  TimeoutMax,   \* DEV_STATUS_TIMEOUT_MAXCNT: ticks of silence before ERROR
  CntMod,       \* u8DevTimeoutCnt is a uint8_t: it counts modulo CntMod
  DevMax,       \* DEV_MAXCNT: rows of the matrix table and of the backup table
  PiscValid,    \* valid PISC devices in pisc.conf, numbered from 1
  TmsValid      \* valid TMS devices in pisc.conf

ASSUME ConstantsAssumption ==
  /\ TimeoutMax \in Nat \ {0}
  /\ CntMod \in Nat /\ CntMod > TimeoutMax
  /\ DevMax \in Nat \ {0}
  /\ PiscValid \in Nat
  /\ TmsValid \in Nat

VARIABLES
  status,       \* u8DevStatus of the other controller
  cnt,          \* its u8DevTimeoutCnt
  type,         \* gu8MasterSlaveType
  flag,         \* b8MasterFlag
  localKey,     \* b8ActiveFlag
  otherKey,     \* gu8OtherPiscKeyStatus
  otherMaster,  \* gu8OtherPiscMasterStatus
  backup,       \* acDataBackUp of the other controller, its two flag bits
  rows,         \* gu8DevIndex: rows of gatDevMatrixTable in use
  slots,        \* static i of MatrixInit_ProcessData: backup rows in use
  fault,        \* how the process ended, "none" while it runs (see Faults)
  pc, ret,      \* where each thread is, and where MasterProcess returns to
  tmp,          \* the local each thread works with: loaded count, type or flag
  frame,        \* the frame the Udp thread handles, or handled last
  table,        \* the master mode the row table was selected for
  base,         \* gucTempBufBackup: the backup copied when dispatch began
  peerUp        \* environment: the other controller is running

\* History variables: no guard reads them, only properties do.
VARIABLES
  overlap,      \* at some time both threads were inside a handler
  masterFrame,  \* some frame was dispatched through the master table
  inits,        \* PISC_Init/TMS_Init sequences begun
  quiet         \* ticks since the last frame, at most TimeoutMax

devVars   == <<status, cnt>>
roleVars  == <<type, flag, localKey>>
peerVars  == <<otherKey, otherMaster, backup>>
regVars   == <<rows, slots, fault>>
udpVars   == <<frame, table, base>>
vars == <<devVars, roleVars, peerVars, regVars, pc, ret, tmp, udpVars, peerUp,
          overlap, masterFrame, inits, quiet>>

-----------------------------------------------------------------------------
Sys == "sys"
Udp == "udp"
Thread == {Sys, Udp}

Bit == {0, 1}
Frame == [key : Bit, master : Bit]
NoFrame == [key |-> 0, master |-> 0]

\* DEV_STATUS_*
DevOk == 1
DevError == 2

\* "exit": exit(0) was called.  "overrun": a write past the backup table.
\* "wild": the dispatcher ran past its mode table.
Faults == {"none", "exit", "overrun", "wild"}

\* The types of manage/dev_master.h; the low bit is the master flag.
NoType              == 0
MasterTypeKey       == 17
MasterTypeOtherErr  == 33
MasterTypeIdLow     == 49
SlaveTypeInit       == 16
SlaveTypeOtherKey   == 32
SlaveTypeIdHigh     == 80
MasterTypes == {MasterTypeKey, MasterTypeOtherErr, MasterTypeIdLow}
SlaveTypes  == {SlaveTypeInit, SlaveTypeOtherKey, SlaveTypeIdHigh}
Types == {NoType} \cup MasterTypes \cup SlaveTypes

\* Fault: the mask tests bit 4, which only some master types have.
MasterBitWrongMask(t) == (t \div 16) % 2

\* gu8MasterSlaveType & 0x01
MasterBit(t) == t % 2

\* gu8DevId is 1 and no code changes it; the other controller is the next id.
DevId == 1
OtherDevId == DevId + 1

\* Fault: the local key is read with the wrong sense.
DecideKeyInverted(cur, st, peerKey, key, otherId, peerMaster) ==
  CASE st # DevOk                             -> MasterTypeOtherErr
    [] st = DevOk /\ peerKey = 1              -> SlaveTypeOtherKey
    [] st = DevOk /\ peerKey = 0 /\ key = 0   -> MasterTypeKey
    [] OTHER                                  -> SlaveTypeIdHigh

\* Fault: the own key is looked at first.
DecideOwnKeyFirst(cur, st, peerKey, key, otherId, peerMaster) ==
  CASE st # DevOk              -> MasterTypeOtherErr
    [] st = DevOk /\ key = 1   -> MasterTypeKey
    [] OTHER                   -> SlaveTypeOtherKey

\* Fault: a dead controller leaves the type as it was.
DecideKeepsType(cur, st, peerKey, key, otherId, peerMaster) ==
  CASE st # DevOk                             -> cur
    [] st = DevOk /\ peerKey = 1              -> SlaveTypeOtherKey
    [] st = DevOk /\ peerKey = 0 /\ key = 1   -> MasterTypeKey
    [] OTHER                                  -> SlaveTypeIdHigh

\* DEV_MASTER_MasterProcess: the type its inputs call for.
Decide(cur, st, peerKey, key, otherId, peerMaster) ==
  CASE st # DevOk                                -> MasterTypeOtherErr
    [] st = DevOk /\ peerKey = 1                 -> SlaveTypeOtherKey
    [] st = DevOk /\ peerKey = 0 /\ key = 1      -> MasterTypeKey
    [] st = DevOk /\ peerKey = 0 /\ key = 0 /\ otherId = 1 ->
         IF peerMaster = 0 THEN MasterTypeIdLow ELSE cur
    [] OTHER                                     -> SlaveTypeIdHigh

-----------------------------------------------------------------------------
Move(t, loc) ==
  /\ pc' = [pc EXCEPT ![t] = loc]
  /\ overlap' = (overlap \/ \A u \in Thread : pc'[u] # "idle")

Goto(t, loc) == Move(t, loc) /\ UNCHANGED ret

Call(t, loc, back) == Move(t, loc) /\ ret' = [ret EXCEPT ![t] = back]

Return(t) == Move(t, ret[t]) /\ ret' = [ret EXCEPT ![t] = "idle"]

\* A local that is out of scope counts as 0.
Forget(t) == tmp' = [tmp EXCEPT ![t] = 0]

At(t, loc) == fault = "none" /\ pc[t] = loc

-----------------------------------------------------------------------------
(***************************************************************************)
(* DEV_MASTER_MasterProcess and what it calls, for either thread.          *)
(***************************************************************************)
MasterProcess(t) ==
  /\ At(t, "decide")
  /\ tmp' = [tmp EXCEPT ![t] = Decide(type, status, otherKey, localKey,
                                      OtherDevId, otherMaster)]
  /\ Goto(t, "setType")
  /\ UNCHANGED <<devVars, roleVars, peerVars, regVars, udpVars, peerUp,
                 masterFrame, inits, quiet>>

\* _DEV_MASTER_Set_MasterSlaveType: nothing to do when the type stays.
SetType(t) ==
  /\ At(t, "setType")
  /\ IF tmp[t] = type THEN Return(t) /\ Forget(t)
                      ELSE Goto(t, "writeType") /\ UNCHANGED tmp
  /\ UNCHANGED <<devVars, roleVars, peerVars, regVars, udpVars, peerUp,
                 masterFrame, inits, quiet>>

WriteType(t) ==
  /\ At(t, "writeType")
  /\ type' = tmp[t]
  /\ Goto(t, "readBit") /\ Forget(t)
  /\ UNCHANGED <<devVars, flag, localKey, peerVars, regVars, udpVars,
                 peerUp, masterFrame, inits, quiet>>

\* The global is read again for the argument of PISC_LOCAL_SetMasterFlag.
ReadBit(t) ==
  /\ At(t, "readBit")
  /\ tmp' = [tmp EXCEPT ![t] = MasterBit(type)]
  /\ Goto(t, "setFlag")
  /\ UNCHANGED <<devVars, roleVars, peerVars, regVars, udpVars, peerUp,
                 masterFrame, inits, quiet>>

\* PISC_LOCAL_SetMasterFlag: nothing to do when the flag stays.
SetMasterFlag(t) ==
  /\ At(t, "setFlag")
  /\ IF tmp[t] = flag THEN Return(t) /\ Forget(t)
                      ELSE Goto(t, "writeFlag") /\ UNCHANGED tmp
  /\ UNCHANGED <<devVars, roleVars, peerVars, regVars, udpVars, peerUp,
                 masterFrame, inits, quiet>>

\* A promotion runs PISC_Init and TMS_Init again.
WriteFlag(t) ==
  /\ At(t, "writeFlag")
  /\ flag' = tmp[t]
  /\ Forget(t)
  /\ IF tmp[t] = 1
     THEN Goto(t, "regPisc") /\ inits' = inits + 1
     ELSE Return(t) /\ UNCHANGED inits
  /\ UNCHANGED <<devVars, type, localKey, peerVars, regVars, udpVars, peerUp,
                 masterFrame, quiet>>

(***************************************************************************)
(* Registration of one device type.  DEV_STATUS_InitDevValid gives every   *)
(* valid device a backup row and then clears sizeof(row) bytes from the    *)
(* data field of the NEXT row: four bytes more than the row has left, so   *)
(* taking row DevMax - 2 already writes past the table.                    *)
(* AddDeviceToMatrixTable then takes a matrix row, or exits when there is  *)
(* none.                                                                   *)
(***************************************************************************)
\* Fault: every registration skips a backup row.
SlotsAfterSkipping(n) == slots + n + 1

SlotsAfter(n) == slots + n

\* PisDataProc_Matrix_AddDeviceToMatrixTable exits when no row is left.
TableFull == rows >= DevMax

Register(valid) ==
  /\ slots' = SlotsAfter(valid)
  /\ fault' = IF valid > 0 /\ SlotsAfter(valid) >= DevMax - 1 THEN "overrun"
              ELSE IF TableFull THEN "exit" ELSE "none"
  /\ rows' = IF TableFull THEN rows ELSE rows + 1

PISC_Init(t) ==
  /\ At(t, "regPisc")
  /\ Register(PiscValid)
  /\ Goto(t, "regTms")
  /\ UNCHANGED <<devVars, roleVars, peerVars, tmp, udpVars, peerUp,
                 masterFrame, inits, quiet>>

TMS_Init(t) ==
  /\ At(t, "regTms")
  /\ Register(TmsValid)
  /\ Return(t)
  /\ UNCHANGED <<devVars, roleVars, peerVars, tmp, udpVars, peerUp,
                 masterFrame, inits, quiet>>

-----------------------------------------------------------------------------
(***************************************************************************)
(* Start-up in the Sys thread: PISC_LOCAL_ProcessDataInit inserts the key  *)
(* (which arbitrates), makes the controller a slave, and the service then  *)
(* registers both devices once more.                                       *)
(***************************************************************************)
BootKey ==
  /\ At(Sys, "boot")
  /\ localKey' = 1
  /\ Call(Sys, "decide", "bootSlave")
  /\ UNCHANGED <<devVars, type, flag, peerVars, regVars, tmp, udpVars, peerUp,
                 masterFrame, inits, quiet>>

\* DEV_MASTER_Init_SlaveType
BootSlave ==
  /\ At(Sys, "bootSlave")
  /\ type' = SlaveTypeInit
  /\ Call(Sys, "readBit", "bootReg")
  /\ UNCHANGED <<devVars, flag, localKey, peerVars, regVars, tmp, udpVars,
                 peerUp, masterFrame, inits, quiet>>

BootRegister ==
  /\ At(Sys, "bootReg")
  /\ inits' = inits + 1
  /\ Call(Sys, "regPisc", "idle")
  /\ UNCHANGED <<devVars, roleVars, peerVars, regVars, tmp, udpVars, peerUp,
                 masterFrame, quiet>>

-----------------------------------------------------------------------------
(***************************************************************************)
(* DEV_STATUS_TimerOut_Handle, for the row of the other controller: a load *)
(* and a store of the counter, then the status, then the arbitration.      *)
(***************************************************************************)
TickLoad ==
  /\ At(Sys, "idle")
  /\ tmp' = [tmp EXCEPT ![Sys] = cnt]
  /\ Goto(Sys, "tickStore")
  /\ UNCHANGED <<devVars, roleVars, peerVars, regVars, udpVars, peerUp,
                 masterFrame, inits, quiet>>

\* Fault: the counter has no width.
TickStoreWide ==
  /\ At(Sys, "tickStore")
  /\ cnt' = tmp[Sys] + 1
  /\ quiet' = IF quiet < TimeoutMax THEN quiet + 1 ELSE quiet
  /\ Goto(Sys, IF cnt' >= TimeoutMax THEN "markError" ELSE "idle")
  /\ Forget(Sys)
  /\ UNCHANGED <<status, roleVars, peerVars, regVars, udpVars, peerUp,
                 masterFrame, inits>>

TickStore ==
  /\ At(Sys, "tickStore")
  /\ cnt' = (tmp[Sys] + 1) % CntMod
  /\ quiet' = IF quiet < TimeoutMax THEN quiet + 1 ELSE quiet
  /\ Goto(Sys, IF cnt' >= TimeoutMax THEN "markError" ELSE "idle")
  /\ Forget(Sys)
  /\ UNCHANGED <<status, roleVars, peerVars, regVars, udpVars, peerUp,
                 masterFrame, inits>>

\* Fault: the arbitration runs but the status is never written.
MarkErrorForgets ==
  /\ At(Sys, "markError")
  /\ Call(Sys, "decide", "idle")
  /\ UNCHANGED <<devVars, roleVars, peerVars, regVars, tmp, udpVars, peerUp,
                 masterFrame, inits, quiet>>

MarkError ==
  /\ At(Sys, "markError")
  /\ status' = DevError
  /\ Call(Sys, "decide", "idle")
  /\ UNCHANGED <<cnt, roleVars, peerVars, regVars, tmp, udpVars, peerUp,
                 masterFrame, inits, quiet>>

-----------------------------------------------------------------------------
(***************************************************************************)
(* One process-data frame of the other controller.                         *)
(***************************************************************************)

\* Fault: a frame does not clear the timeout counter.
ReceiveKeepsCount(f) ==
  /\ At(Udp, "idle")
  /\ peerUp
  /\ frame' = f
  /\ quiet' = 0
  /\ Goto(Udp, "setOk")
  /\ UNCHANGED <<devVars, roleVars, peerVars, regVars, tmp, table, base,
                 peerUp, masterFrame, inits>>

\* CTRL_UDPORT_ReadAFrameData: any frame proves the device alive.
\* DEV_STATUS_SetDevStatus clears the counter first and then sets the status.
Receive(f) ==
  /\ At(Udp, "idle")
  /\ peerUp
  /\ frame' = f
  /\ cnt' = 0
  /\ quiet' = 0
  /\ Goto(Udp, "setOk")
  /\ UNCHANGED <<status, roleVars, peerVars, regVars, tmp, table, base,
                 peerUp, masterFrame, inits>>

MarkOk ==
  /\ At(Udp, "setOk")
  /\ status' = DevOk
  /\ Goto(Udp, IF rows = 0 THEN "idle" ELSE "modeMaster")
  /\ UNCHANGED <<cnt, roleVars, peerVars, regVars, tmp, udpVars, peerUp,
                 masterFrame, inits, quiet>>

\* The backup of a device that pisc.conf does not list stays empty.
HasBackup == PiscValid >= OtherDevId

\* PisDataProc_Matrix_Dispatch reads the master flag once per row of the mode
\* table (master row, then slave row), and copies the backup when a row fits.
UseTable(mode) ==
  /\ table' = mode
  /\ base' = IF HasBackup THEN backup ELSE NoFrame
  /\ masterFrame' = (masterFrame \/ mode = 1)
  /\ Goto(Udp, "keyRow")

MatchMaster ==
  /\ At(Udp, "modeMaster")
  /\ IF flag = 1
     THEN UseTable(1)
     ELSE Goto(Udp, "modeSlave") /\ UNCHANGED <<table, base, masterFrame>>
  /\ UNCHANGED <<devVars, roleVars, peerVars, regVars, tmp, frame, peerUp,
                 inits, quiet>>

\* A flag that changed between the two reads fits neither row: the row after
\* them has a NULL table, and nothing ends the loop.
MatchSlave ==
  /\ At(Udp, "modeSlave")
  /\ IF flag = 0
     THEN UseTable(0) /\ UNCHANGED fault
     ELSE /\ fault' = "wild"
          /\ Goto(Udp, "idle")
          /\ UNCHANGED <<table, base, masterFrame>>
  /\ UNCHANGED <<devVars, roleVars, peerVars, rows, slots, tmp, frame, peerUp,
                 inits, quiet>>

\* The UNEQUAL row of bit 6: PISC_SetOtherPisc_KeyStatus arbitrates on a change.
KeyRow ==
  /\ At(Udp, "keyRow")
  /\ IF frame.key # base.key /\ otherKey # frame.key
     THEN otherKey' = frame.key /\ Call(Udp, "decide", "masterRow")
     ELSE Goto(Udp, "masterRow") /\ UNCHANGED otherKey
  /\ UNCHANGED <<devVars, roleVars, otherMaster, backup, regVars, tmp, udpVars,
                 peerUp, masterFrame, inits, quiet>>

\* The UNEQUAL row of bit 7: PISC_SetOtherPisc_MasterStatus.
MasterRow ==
  /\ At(Udp, "masterRow")
  /\ IF frame.master # base.master /\ otherMaster # frame.master
     THEN otherMaster' = frame.master /\ Call(Udp, "decide", "tail")
     ELSE Goto(Udp, "tail") /\ UNCHANGED otherMaster
  /\ UNCHANGED <<devVars, roleVars, otherKey, backup, regVars, tmp, udpVars,
                 peerUp, masterFrame, inits, quiet>>

\* Fault: the slave table has no row that stores the backup.
BackupRowMissing ==
  /\ At(Udp, "tail")
  /\ table' = 0 /\ base' = NoFrame
  /\ Goto(Udp, "idle")
  /\ UNCHANGED <<devVars, roleVars, peerVars, regVars, tmp, frame, peerUp,
                 masterFrame, inits, quiet>>

\* Only the slave table ends with the row that stores the frame as backup.
BackupRow ==
  /\ At(Udp, "tail")
  /\ backup' = IF table = 0 /\ HasBackup THEN frame ELSE backup
  /\ table' = 0 /\ base' = NoFrame
  /\ Goto(Udp, "idle")
  /\ UNCHANGED <<devVars, roleVars, otherKey, otherMaster, regVars, tmp, frame,
                 peerUp, masterFrame, inits, quiet>>

-----------------------------------------------------------------------------
\* Environment: the other controller stops, or starts again.
PeerChanges ==
  /\ fault = "none"
  /\ peerUp' = ~peerUp
  /\ UNCHANGED <<devVars, roleVars, peerVars, regVars, pc, ret, tmp, udpVars,
                 overlap, masterFrame, inits, quiet>>

-----------------------------------------------------------------------------
Arbitrate(t) ==
  \/ MasterProcess(t) \/ SetType(t) \/ WriteType(t)
  \/ ReadBit(t) \/ SetMasterFlag(t) \/ WriteFlag(t)
  \/ PISC_Init(t) \/ TMS_Init(t)

SysStep ==
  \/ BootKey \/ BootSlave \/ BootRegister
  \/ TickLoad \/ TickStore \/ MarkError
  \/ Arbitrate(Sys)

\* The Udp thread going on with the frame it has begun.
UdpStep ==
  \/ MarkOk \/ MatchMaster \/ MatchSlave \/ KeyRow \/ MasterRow \/ BackupRow
  \/ Arbitrate(Udp)

Next ==
  \/ SysStep
  \/ UdpStep
  \/ \E f \in Frame : Receive(f)
  \/ PeerChanges

Init ==
  /\ status = DevOk /\ cnt = 0
  /\ type = NoType /\ flag = 0 /\ localKey = 0
  /\ otherKey = 0 /\ otherMaster = 0 /\ backup = NoFrame
  /\ rows = 0 /\ slots = 0 /\ fault = "none"
  /\ pc = [t \in Thread |-> IF t = Sys THEN "boot" ELSE "idle"]
  /\ ret = [t \in Thread |-> "idle"]
  /\ tmp = [t \in Thread |-> 0]
  /\ frame = NoFrame /\ table = 0 /\ base = NoFrame
  /\ peerUp = TRUE
  /\ overlap = FALSE /\ masterFrame = FALSE /\ inits = 0 /\ quiet = 0

Spec == Init /\ [][Next]_vars

\* Both threads are event loops of a running process: each goes on whenever it
\* can. Nothing makes a frame arrive or the other controller start or stop.
FairSpec == Spec /\ WF_vars(SysStep) /\ WF_vars(UdpStep)

-----------------------------------------------------------------------------
(***************************************************************************)
(* Properties                                                              *)
(***************************************************************************)
BootLocs == {"boot", "bootSlave", "bootReg"}
ArbLocs  == {"decide", "setType", "writeType", "readBit", "setFlag", "writeFlag",
             "regPisc", "regTms"}
SysLocs  == BootLocs \cup ArbLocs \cup {"idle", "tickStore", "markError"}
UdpLocs  == ArbLocs \cup {"idle", "setOk", "modeMaster", "modeSlave", "keyRow",
                          "masterRow", "tail"}
SysRets  == {"idle", "bootSlave", "bootReg"}
UdpRets  == {"idle", "masterRow", "tail"}

\* The timeout counter stays a uint8_t and every other variable keeps the
\* values its C type and the code's assignments allow.
TypeOK ==
  /\ status \in {DevOk, DevError}
  /\ cnt \in 0..(CntMod - 1)
  /\ type \in Types
  /\ flag \in Bit /\ localKey \in Bit
  /\ otherKey \in Bit /\ otherMaster \in Bit
  /\ backup \in Frame
  /\ rows \in 0..DevMax /\ slots \in Nat
  /\ fault \in Faults
  /\ pc \in [Thread -> SysLocs \cup UdpLocs]
  /\ pc[Sys] \in SysLocs /\ pc[Udp] \in UdpLocs
  /\ ret \in [Thread -> SysRets \cup UdpRets]
  /\ ret[Sys] \in SysRets /\ ret[Udp] \in UdpRets
  /\ tmp \in [Thread -> Nat]
  /\ frame \in Frame /\ table \in Bit /\ base \in Frame
  /\ peerUp \in BOOLEAN
  /\ overlap \in BOOLEAN /\ masterFrame \in BOOLEAN
  /\ inits \in Nat /\ quiet \in 0..TimeoutMax

\* The system is between handlers, start-up is over, and the two threads were
\* never inside handlers at the same time.
SerialIdle == ~overlap /\ fault = "none" /\ \A t \in Thread : pc[t] = "idle"

\* The role the arbitration decided (gu8MasterSlaveType) and the role the rest
\* of the program reads (b8MasterFlag) agree between handlers, although they
\* are two variables written in separate steps by two threads.
FlagFollowsType == SerialIdle => (flag = 1 <=> type \in MasterTypes)

\* The process ends only for one of three reasons: so many promotions that the
\* backup table, or the matrix table, is used up, or a role change that
\* overlapped the dispatcher's lookup of its mode table.
Survival ==
  /\ fault = "overrun" => inits * (PiscValid + TmsValid) >= DevMax - 1
  /\ fault = "exit"    => 2 * inits > DevMax
  /\ fault = "wild"    => overlap

\* As long as every frame went through the slave table, what the arbitration
\* knows of the other controller is what its stored frame says: no edge of the
\* key bit or of the master bit has been missed.
ViewTracksPeer ==
  (~masterFrame /\ HasBackup /\ pc[Udp] = "idle" /\ fault = "none")
     => otherKey = backup.key /\ otherMaster = backup.master

\* After start-up the master steps down for one reason only: the other
\* controller has the key ("the other side has the key: become slave") and is
\* there to act on it; a dead controller's key is not obeyed.
DemotionNeedsPeerKey ==
  [][(flag = 1 /\ flag' = 0 /\ ~overlap' /\ ret[Sys] = "idle")
       => otherKey = 1 /\ status = DevOk]_vars

\* No slave becomes master beside a controller that has the key: as far as its
\* frames say it has none, or none of them has come for TimeoutMax ticks.
PromotionNeedsReason ==
  [][(flag = 0 /\ flag' = 1 /\ ~overlap') => otherKey = 0 \/ quiet = TimeoutMax]_vars

\* The other controller is declared dead only after TimeoutMax ticks without a
\* frame, whatever the counter did at its wrap-around in between.
ErrorMeansSilence ==
  (~overlap /\ status = DevError /\ pc[Udp] # "setOk") => quiet = TimeoutMax

\* A controller that stays silent is declared dead for good.
DeadPeerIsNoticed ==
  <>[]~peerUp => <>[](status = DevError \/ fault # "none")

\* ... and this controller becomes and stays master, if no two handlers of its
\* threads ever overlapped.
SerialTakeover ==
  <>[]~peerUp => <>[](flag = 1 \/ fault # "none" \/ overlap)

-----------------------------------------------------------------------------
(***************************************************************************)
(* The inductive invariant behind the safety properties.                   *)
(***************************************************************************)

\* What the local of a thread holds, by where the thread is.
LocalsOK ==
  \A t \in Thread :
    /\ pc[t] \in {"setType", "writeType"} => tmp[t] \in Types
    /\ pc[t] \in {"setFlag", "writeFlag"} => tmp[t] \in Bit

\* Every registration begun has been entered in both tables, or is still owed.
OwedRows(t) ==
  IF pc[t] = "regPisc" THEN 2 ELSE IF pc[t] = "regTms" THEN 1 ELSE 0
OwedSlots(t) ==
  IF pc[t] = "regPisc" THEN PiscValid + TmsValid
  ELSE IF pc[t] = "regTms" THEN TmsValid ELSE 0

Accounts ==
  fault \in {"none", "wild"} =>
    /\ rows + OwedRows(Sys) + OwedRows(Udp) = 2 * inits
    /\ slots + OwedSlots(Sys) + OwedSlots(Udp) = inits * (PiscValid + TmsValid)

\* Without overlap the flag lags behind the type only inside SetType.
Lagging(t) == pc[t] \in {"readBit", "setFlag", "writeFlag"}

SerialRole ==
  ~overlap =>
    /\ \E t \in Thread : pc[t] = "idle"
    /\ (\A t \in Thread : ~Lagging(t)) => (flag = 1 <=> type \in MasterTypes)
    /\ \A t \in Thread :
         pc[t] \in {"setFlag", "writeFlag"} => (tmp[t] = 1 <=> type \in MasterTypes)
    /\ pc[Udp] = "modeSlave" => flag = 0

\* Without overlap an arbitration has the reason for its outcome until it is
\* over: a master is made beside a dead controller or one without the key, a
\* slave, after start-up, beside a live one with the key.
AfterBoot(t) == t = Sys => ret[t] = "idle"

Reason(master, t) ==
  IF master THEN status = DevError \/ otherKey = 0
            ELSE AfterBoot(t) => status = DevOk /\ otherKey = 1

Called(t) ==
  /\ pc[t] \in {"setType", "writeType"} => Reason(tmp[t] \in MasterTypes, t)
  /\ pc[t] = "readBit" => Reason(type \in MasterTypes, t)
  /\ pc[t] \in {"setFlag", "writeFlag"} => Reason(tmp[t] = 1, t)

SerialReason == ~overlap => \A t \in Thread : Called(t)

KeyInserted == pc[Sys] # "boot" => localKey = 1

\* Without overlap the counter never runs ahead of the silence it measures.
SerialSilence ==
  ~overlap =>
    /\ quiet < TimeoutMax => cnt <= quiet
    /\ pc[Sys] = "tickStore" => tmp[Sys] = cnt
    /\ pc[Sys] = "markError" => quiet = TimeoutMax
    /\ (status = DevError /\ pc[Udp] # "setOk") => quiet = TimeoutMax

\* How far the view has caught up with the frame, by place in the row table.
InArb(t) == pc[t] \in ArbLocs
Through(loc) == pc[Udp] = loc \/ (InArb(Udp) /\ ret[Udp] = loc)

ViewInStep ==
  /\ InArb(Udp) => ret[Udp] \in {"masterRow", "tail"}
  /\ (~masterFrame /\ HasBackup) =>
       /\ pc[Udp] \in {"idle", "setOk", "modeMaster", "modeSlave", "keyRow"}
            => otherKey = backup.key /\ otherMaster = backup.master
       /\ (pc[Udp] = "keyRow" \/ Through("masterRow")) => table = 0 /\ base = backup
       /\ Through("masterRow") => otherKey = frame.key /\ otherMaster = backup.master
       /\ Through("tail") => /\ table = 0
                             /\ otherKey = frame.key /\ otherMaster = frame.master

IndInv ==
  /\ TypeOK /\ LocalsOK
  /\ Accounts /\ SerialRole /\ KeyInserted /\ SerialReason /\ SerialSilence
  /\ ViewInStep /\ Survival

-----------------------------------------------------------------------------
(***************************************************************************)
(* What comments of the code promise and the code does not do.             *)
(***************************************************************************)

\* dev_master.c:57 "the other side has the key, become slave": after a frame
\* with the key set was handled, this controller is no master.
PeerKeyDemotes ==
  (SerialIdle /\ status = DevOk /\ frame.key = 1 /\ HasBackup) => flag = 0

\* pis_datproc_matrix.c:83 "too many dev": two device types are registered, so
\* a table of DevMax rows never fills up and the process never ends.
RegistryNeverFull == rows < DevMax /\ fault \notin {"exit", "overrun"}

\* dev_status.c:251 "the other side has failed, handle master and slave": a
\* controller left alone by the other one becomes master.
DeadPeerTakeover ==
  <>[]~peerUp => <>[](flag = 1 \/ fault # "none")

=============================================================================
