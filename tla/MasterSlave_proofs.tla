------------------------ MODULE MasterSlave_proofs -------------------------
(***************************************************************************)
(* Proofs about MasterSlave, for every timeout, table size and device      *)
(* configuration.  The inductive invariant IndInv is proved one part at a  *)
(* time; each part has one step per action that can disturb it.            *)
(***************************************************************************)
EXTENDS MasterSlave, TLAPS

USE DEF Sys, Udp, Thread

-----------------------------------------------------------------------------
(***************************************************************************)
(* Facts about the operators the actions are built from.                   *)
(***************************************************************************)

\* A uint8_t counter that is counted up once: its bounds, and that the
\* wrap-around never makes it larger.
LEMMA CountUp ==
  ASSUME NEW m \in Nat, NEW c \in 0..(m - 1)
  PROVE  (c + 1) % m \in 0..(m - 1) /\ (c + 1) % m <= c + 1
<1>1. CASE c + 1 = m
  <2>1. (c + 1) % m = 0
    BY <1>1
  <2> QED  BY <2>1
<1>2. CASE c + 1 < m
  <2>1. (c + 1) % m = c + 1
    BY <1>2
  <2> QED  BY <2>1, <1>2
<1> QED  BY <1>1, <1>2

\* The arbitration decides one of the six types, keeping the current one only
\* if that is a type already.
LEMMA DecideType ==
  ASSUME NEW cur \in Types, NEW st, NEW pk \in Bit, NEW key \in Bit,
         NEW id, NEW pm
  PROVE  Decide(cur, st, pk, key, id, pm) \in Types
BY DEF Decide, Types, MasterTypes, SlaveTypes, Bit, NoType, MasterTypeKey,
       MasterTypeOtherErr, MasterTypeIdLow, SlaveTypeInit, SlaveTypeOtherKey,
       SlaveTypeIdHigh

\* With the local key inserted, a slave is made exactly beside a live controller
\* that has the key.
LEMMA DecideWithKey ==
  ASSUME NEW cur, NEW st, NEW pk \in Bit, NEW id, NEW pm
  PROVE  Decide(cur, st, pk, 1, id, pm) \in MasterTypes <=> ~(st = DevOk /\ pk = 1)
BY DEF Decide, MasterTypes, Bit, MasterTypeKey, MasterTypeOtherErr, MasterTypeIdLow,
       SlaveTypeOtherKey

\* The low bit of a type is its master flag.
LEMMA MasterBitOfType ==
  ASSUME NEW t \in Types
  PROVE  MasterBit(t) \in Bit /\ (MasterBit(t) = 1 <=> t \in MasterTypes)
BY DEF MasterBit, Bit, Types, MasterTypes, SlaveTypes, NoType, MasterTypeKey,
       MasterTypeOtherErr, MasterTypeIdLow, SlaveTypeInit, SlaveTypeOtherKey,
       SlaveTypeIdHigh

\* Every step is one of the actions below.
LEMMA NextCases ==
  ASSUME Next
  PROVE  \/ \E t \in Thread : Arbitrate(t)
         \/ BootKey \/ BootSlave \/ BootRegister
         \/ TickLoad \/ TickStore \/ MarkError
         \/ \E f \in Frame : Receive(f)
         \/ MarkOk \/ MatchMaster \/ MatchSlave
         \/ KeyRow \/ MasterRow \/ BackupRow
         \/ PeerChanges
BY DEF Next, SysStep, UdpStep

-----------------------------------------------------------------------------
Typed == TypeOK /\ LocalsOK

LEMMA NoFrameIsFrame == NoFrame \in Frame
BY DEF NoFrame, Frame, Bit

LEMMA FrameBits ==
  ASSUME NEW f \in Frame
  PROVE  f.key \in Bit /\ f.master \in Bit
BY DEF Frame

LEMMA InitTyped == Init => Typed
<1> SUFFICES ASSUME Init PROVE Typed
  OBVIOUS
<1>1. /\ pc \in [Thread -> SysLocs \cup UdpLocs]
      /\ pc[Sys] = "boot" /\ pc[Udp] = "idle"
      /\ pc[Sys] \in SysLocs /\ pc[Udp] \in UdpLocs
  BY DEF Init, SysLocs, UdpLocs, BootLocs
<1>2. /\ ret \in [Thread -> SysRets \cup UdpRets]
      /\ ret[Sys] \in SysRets /\ ret[Udp] \in UdpRets
  BY DEF Init, SysRets, UdpRets
<1>3. /\ 0 \in 0..(CntMod - 1) /\ 0 \in 0..DevMax /\ 0 \in 0..TimeoutMax
  BY ConstantsAssumption DEF ConstantsAssumption
<1>4. tmp \in [Thread -> Nat]
  BY DEF Init
<1>5. TypeOK
  BY <1>1, <1>2, <1>3, <1>4, NoFrameIsFrame
     DEF Init, TypeOK, Faults, Types, Bit
<1>6. LocalsOK
  BY <1>1 DEF LocalsOK
<1> QED  BY <1>5, <1>6 DEF Typed

LEMMA StepTyped ==
  ASSUME Typed, [Next]_vars
  PROVE  Typed'
<1> USE ConstantsAssumption DEF ConstantsAssumption, Typed, TypeOK, LocalsOK
<1> USE DEF devVars, roleVars, peerVars, regVars, udpVars, Goto, Call, Return,
            Move, Forget, At, SysRets, UdpRets
<1>1. ASSUME NEW t \in Thread, Arbitrate(t)
      PROVE  Typed'
  <2>1. CASE MasterProcess(t)
    <3>1. Decide(type, status, otherKey, localKey, OtherDevId, otherMaster) \in Types
      BY DecideType
    <3>2. Decide(type, status, otherKey, localKey, OtherDevId, otherMaster) \in Nat
      BY <3>1 DEF Types, MasterTypes, SlaveTypes, NoType, MasterTypeKey,
          MasterTypeOtherErr, MasterTypeIdLow, SlaveTypeInit,
          SlaveTypeOtherKey, SlaveTypeIdHigh
    <3> QED
      BY <2>1, <3>1, <3>2 DEF MasterProcess, SysLocs, UdpLocs, ArbLocs
  <2>2. CASE SetType(t)
    <3>1. CASE tmp[t] = type
      BY <2>2, <3>1 DEF SetType, SysLocs, UdpLocs, ArbLocs, BootLocs
    <3>2. CASE tmp[t] # type
      BY <2>2, <3>2 DEF SetType, SysLocs, UdpLocs, ArbLocs
    <3> QED  BY <3>1, <3>2
  <2>3. CASE WriteType(t)
    BY <2>3 DEF WriteType, SysLocs, UdpLocs, ArbLocs
  <2>4. CASE ReadBit(t)
    BY <2>4, MasterBitOfType DEF ReadBit, SysLocs, UdpLocs, ArbLocs, Bit
  <2>5. CASE SetMasterFlag(t)
    <3>1. CASE tmp[t] = flag
      BY <2>5, <3>1 DEF SetMasterFlag, SysLocs, UdpLocs, ArbLocs, BootLocs
    <3>2. CASE tmp[t] # flag
      BY <2>5, <3>2 DEF SetMasterFlag, SysLocs, UdpLocs, ArbLocs
    <3> QED  BY <3>1, <3>2
  <2>6. CASE WriteFlag(t)
    <3>1. CASE tmp[t] = 1
      BY <2>6, <3>1 DEF WriteFlag, SysLocs, UdpLocs, ArbLocs
    <3>2. CASE tmp[t] # 1
      BY <2>6, <3>2 DEF WriteFlag, SysLocs, UdpLocs, ArbLocs, BootLocs
    <3> QED  BY <3>1, <3>2
  <2>7. CASE PISC_Init(t)
    BY <2>7 DEF PISC_Init, Register, TableFull, SlotsAfter, Faults, SysLocs, UdpLocs, ArbLocs
  <2>8. CASE TMS_Init(t)
    BY <2>8 DEF TMS_Init, Register, TableFull, SlotsAfter, Faults, SysLocs, UdpLocs,
                ArbLocs, BootLocs
  <2> QED
    BY <1>1, <2>1, <2>2, <2>3, <2>4, <2>5, <2>6, <2>7, <2>8 DEF Arbitrate
<1>2. CASE BootKey
  BY <1>2 DEF BootKey, Bit, SysLocs, ArbLocs
<1>3. CASE BootSlave
  BY <1>3 DEF BootSlave, Types, SlaveTypes, SysLocs, ArbLocs
<1>4. CASE BootRegister
  BY <1>4 DEF BootRegister, SysLocs, ArbLocs
<1>5. CASE TickLoad
  BY <1>5 DEF TickLoad, SysLocs
<1>6. CASE TickStore
  BY <1>6 DEF TickStore, SysLocs
<1>7. CASE MarkError
  BY <1>7 DEF MarkError, DevError, SysLocs, ArbLocs
<1>8. ASSUME NEW f \in Frame, Receive(f)
      PROVE  Typed'
  BY <1>8 DEF Receive, UdpLocs
<1>9. CASE MarkOk
  BY <1>9 DEF MarkOk, DevOk, UdpLocs
<1>10. CASE MatchMaster
  BY <1>10, NoFrameIsFrame DEF MatchMaster, UseTable, Bit, UdpLocs
<1>11. CASE MatchSlave
  BY <1>11, NoFrameIsFrame DEF MatchSlave, UseTable, Bit, Faults, UdpLocs
<1>12. CASE KeyRow
  BY <1>12, FrameBits DEF KeyRow, UdpLocs, ArbLocs
<1>13. CASE MasterRow
  BY <1>13, FrameBits DEF MasterRow, UdpLocs, ArbLocs
<1>14. CASE BackupRow
  BY <1>14, NoFrameIsFrame DEF BackupRow, Bit, UdpLocs
<1>15. CASE PeerChanges
  BY <1>15 DEF PeerChanges
<1>16. CASE UNCHANGED vars
  BY <1>16 DEF vars
<1> QED
  BY <1>1, <1>2, <1>3, <1>4, <1>5, <1>6, <1>7, <1>8, <1>9, <1>10, <1>11,
     <1>12, <1>13, <1>14, <1>15, <1>16, NextCases

-----------------------------------------------------------------------------
(***************************************************************************)
(* The tables: every registration is entered or owed, and the process does *)
(* not end before a table is used up.                                      *)
(***************************************************************************)

LEMMA StepAccounts ==
  ASSUME Typed, Accounts, Survival, SerialRole, [Next]_vars
  PROVE  Accounts' /\ Survival'
<1> USE ConstantsAssumption DEF ConstantsAssumption, Typed, TypeOK
<1> USE DEF devVars, roleVars, peerVars, regVars, udpVars, Goto, Call, Return,
            Move, At, OwedRows, OwedSlots, SysRets, UdpRets
<1>1. ASSUME NEW t \in Thread, Arbitrate(t)
      PROVE  Accounts' /\ Survival'
  <2>1. CASE MasterProcess(t)
    BY <2>1 DEF MasterProcess, Accounts, Survival
  <2>2. CASE SetType(t)
    BY <2>2 DEF SetType, Accounts, Survival
  <2>3. CASE WriteType(t)
    BY <2>3 DEF WriteType, Accounts, Survival
  <2>4. CASE ReadBit(t)
    BY <2>4 DEF ReadBit, Accounts, Survival
  <2>5. CASE SetMasterFlag(t)
    BY <2>5 DEF SetMasterFlag, Accounts, Survival
  <2>6. CASE WriteFlag(t)
    <3>1. CASE tmp[t] = 1
      BY <2>6, <3>1 DEF WriteFlag, Accounts, Survival
    <3>2. CASE tmp[t] # 1
      BY <2>6, <3>2 DEF WriteFlag, Accounts, Survival
    <3> QED  BY <3>1, <3>2
  <2>7. CASE PISC_Init(t)
    BY <2>7 DEF PISC_Init, Register, TableFull, SlotsAfter, Accounts, Survival
  <2>8. CASE TMS_Init(t)
    BY <2>8 DEF TMS_Init, Register, TableFull, SlotsAfter, Accounts, Survival
  <2> QED
    BY <1>1, <2>1, <2>2, <2>3, <2>4, <2>5, <2>6, <2>7, <2>8 DEF Arbitrate
<1>2. CASE BootKey
  BY <1>2 DEF BootKey, Accounts, Survival
<1>3. CASE BootSlave
  BY <1>3 DEF BootSlave, Accounts, Survival
<1>4. CASE BootRegister
  BY <1>4 DEF BootRegister, Accounts, Survival
<1>5. CASE TickLoad
  BY <1>5 DEF TickLoad, Accounts, Survival
<1>6. CASE TickStore
  BY <1>6 DEF TickStore, Accounts, Survival
<1>7. CASE MarkError
  BY <1>7 DEF MarkError, Accounts, Survival
<1>8. ASSUME NEW f \in Frame, Receive(f)
      PROVE  Accounts' /\ Survival'
  BY <1>8 DEF Receive, Accounts, Survival
<1>9. CASE MarkOk
  BY <1>9 DEF MarkOk, Accounts, Survival
<1>10. CASE MatchMaster
  BY <1>10 DEF MatchMaster, UseTable, Accounts, Survival
<1>11. CASE MatchSlave
  BY <1>11 DEF MatchSlave, UseTable, SerialRole, Accounts, Survival
<1>12. CASE KeyRow
  BY <1>12 DEF KeyRow, Accounts, Survival
<1>13. CASE MasterRow
  BY <1>13 DEF MasterRow, Accounts, Survival
<1>14. CASE BackupRow
  BY <1>14 DEF BackupRow, Accounts, Survival
<1>15. CASE PeerChanges
  BY <1>15 DEF PeerChanges, Accounts, Survival
<1>16. CASE UNCHANGED vars
  BY <1>16 DEF vars, Accounts, Survival
<1> QED
  BY <1>1, <1>2, <1>3, <1>4, <1>5, <1>6, <1>7, <1>8, <1>9, <1>10, <1>11,
     <1>12, <1>13, <1>14, <1>15, <1>16, NextCases

-----------------------------------------------------------------------------
(***************************************************************************)
(* Without overlap: flag and type agree, and a demotion has its reason.    *)
(***************************************************************************)

\* What a step without overlap says of the two threads: there was none before
\* it, and a thread that ends the step inside a handler is alone there.
LEMMA Alone ==
  ASSUME Typed, NEW t \in Thread, NEW loc, Move(t, loc), ~overlap'
  PROVE  /\ ~overlap
         /\ loc # "idle" => \A u \in Thread \ {t} : pc[u] = "idle"
         /\ pc'[t] = loc
         /\ \A u \in Thread \ {t} : pc'[u] = pc[u]
         /\ \E u \in Thread : pc'[u] = "idle"
BY DEF Typed, TypeOK, Move

LEMMA StepSerialRole ==
  ASSUME Typed, SerialRole, [Next]_vars
  PROVE  SerialRole'
<1> USE DEF Typed, TypeOK, LocalsOK
<1> USE DEF devVars, roleVars, peerVars, regVars, udpVars, Goto, Call, Return,
            At, Lagging, SysRets, UdpRets
<1> SUFFICES ASSUME ~overlap'
             PROVE  SerialRole'
  BY DEF SerialRole
<1>1. ASSUME NEW t \in Thread, Arbitrate(t)
      PROVE  SerialRole'
  <2>1. CASE MasterProcess(t)
    BY <2>1, Alone DEF MasterProcess, SerialRole
  <2>2. CASE SetType(t)
    <3>1. CASE tmp[t] = type
      BY <2>2, <3>1, Alone DEF SetType, SerialRole
    <3>2. CASE tmp[t] # type
      BY <2>2, <3>2, Alone DEF SetType, SerialRole
    <3> QED  BY <3>1, <3>2
  <2>3. CASE WriteType(t)
    BY <2>3, Alone DEF WriteType, SerialRole
  <2>4. CASE ReadBit(t)
    BY <2>4, Alone, MasterBitOfType DEF ReadBit, SerialRole
  <2>5. CASE SetMasterFlag(t)
    <3>1. CASE tmp[t] = flag
      BY <2>5, <3>1, Alone DEF SetMasterFlag, SerialRole
    <3>2. CASE tmp[t] # flag
      BY <2>5, <3>2, Alone DEF SetMasterFlag, SerialRole
    <3> QED  BY <3>1, <3>2
  <2>6. CASE WriteFlag(t)
    <3>1. CASE tmp[t] = 1
      BY <2>6, <3>1, Alone DEF WriteFlag, SerialRole
    <3>2. CASE tmp[t] # 1
      BY <2>6, <3>2, Alone DEF WriteFlag, SerialRole
    <3> QED  BY <3>1, <3>2
  <2>7. CASE PISC_Init(t)
    BY <2>7, Alone DEF PISC_Init, SerialRole
  <2>8. CASE TMS_Init(t)
    BY <2>8, Alone DEF TMS_Init, SerialRole
  <2> QED
    BY <1>1, <2>1, <2>2, <2>3, <2>4, <2>5, <2>6, <2>7, <2>8 DEF Arbitrate
<1>2. CASE BootKey
  BY <1>2, Alone DEF BootKey, SerialRole
<1>3. CASE BootSlave
  BY <1>3, Alone DEF BootSlave, SerialRole
<1>4. CASE BootRegister
  BY <1>4, Alone DEF BootRegister, SerialRole
<1>5. CASE TickLoad
  BY <1>5, Alone DEF TickLoad, SerialRole
<1>6. CASE TickStore
  BY <1>6, Alone DEF TickStore, SerialRole
<1>7. CASE MarkError
  BY <1>7, Alone DEF MarkError, SerialRole
<1>8. ASSUME NEW f \in Frame, Receive(f)
      PROVE  SerialRole'
  BY <1>8, Alone DEF Receive, SerialRole
<1>9. CASE MarkOk
  BY <1>9, Alone DEF MarkOk, SerialRole
<1>10. CASE MatchMaster
  BY <1>10, Alone DEF MatchMaster, UseTable, SerialRole, Bit
<1>11. CASE MatchSlave
  BY <1>11, Alone DEF MatchSlave, UseTable, SerialRole
<1>12. CASE KeyRow
  BY <1>12, Alone DEF KeyRow, SerialRole
<1>13. CASE MasterRow
  BY <1>13, Alone DEF MasterRow, SerialRole
<1>14. CASE BackupRow
  BY <1>14, Alone DEF BackupRow, SerialRole
<1>15. CASE PeerChanges
  BY <1>15 DEF PeerChanges, SerialRole
<1>16. CASE UNCHANGED vars
  BY <1>16 DEF vars, SerialRole
<1> QED
  BY <1>1, <1>2, <1>3, <1>4, <1>5, <1>6, <1>7, <1>8, <1>9, <1>10, <1>11,
     <1>12, <1>13, <1>14, <1>15, <1>16, NextCases

LEMMA StepKeyInserted ==
  ASSUME Typed, KeyInserted, [Next]_vars
  PROVE  KeyInserted'
<1> USE DEF Typed, TypeOK, KeyInserted
<1> USE DEF devVars, roleVars, peerVars, regVars, udpVars, Goto, Call, Return,
            Move, At, SysRets, UdpRets
<1>1. ASSUME NEW t \in Thread, Arbitrate(t)
      PROVE  KeyInserted'
  BY <1>1 DEF Arbitrate, MasterProcess, SetType, WriteType, ReadBit, SetMasterFlag, WriteFlag,
              PISC_Init, TMS_Init
<1>2. CASE BootKey \/ BootSlave \/ BootRegister
  BY <1>2 DEF BootKey, BootSlave, BootRegister
<1>3. CASE TickLoad \/ TickStore \/ MarkError
  BY <1>3 DEF TickLoad, TickStore, MarkError
<1>4. ASSUME NEW f \in Frame, Receive(f)
      PROVE  KeyInserted'
  BY <1>4 DEF Receive
<1>5. CASE MarkOk \/ MatchMaster \/ MatchSlave
  BY <1>5 DEF MarkOk, MatchMaster, MatchSlave, UseTable
<1>6. CASE KeyRow \/ MasterRow \/ BackupRow
  BY <1>6 DEF KeyRow, MasterRow, BackupRow
<1>7. CASE PeerChanges \/ UNCHANGED vars
  BY <1>7 DEF PeerChanges, vars
<1> QED
  BY <1>1, <1>2, <1>3, <1>4, <1>5, <1>6, <1>7, NextCases

\* The thread that steps without overlap is the only one inside a handler, so
\* only its own place and local are in question, and nobody changes what its
\* reason rests on.
LEMMA StepSerialReason ==
  ASSUME Typed, SerialRole, KeyInserted, SerialReason, [Next]_vars
  PROVE  SerialReason'
<1> USE DEF Typed, TypeOK, LocalsOK, AfterBoot, Called, Reason
<1> USE DEF devVars, roleVars, peerVars, regVars, udpVars, Goto, Call, Return,
            At, SysRets, UdpRets, DevOk, DevError
<1> SUFFICES ASSUME ~overlap', NEW u \in Thread
             PROVE  Called(u)'
  BY DEF SerialReason
<1>1. ASSUME NEW t \in Thread, Arbitrate(t)
      PROVE  Called(u)'
  <2>a. ~overlap
    BY <1>1 DEF Arbitrate, MasterProcess, SetType, WriteType, ReadBit, SetMasterFlag, WriteFlag,
                PISC_Init, TMS_Init, Move
  <2>b. pc[t] # "idle"
    BY <1>1 DEF Arbitrate, MasterProcess, SetType, WriteType, ReadBit, SetMasterFlag, WriteFlag,
                PISC_Init, TMS_Init
  <2>c. \A v \in Thread \ {t} : pc[v] = "idle"
    BY <2>a, <2>b DEF SerialRole
  <2>d. pc[Sys] # "boot" /\ localKey = 1
    BY <1>1, <2>c DEF KeyInserted, Arbitrate, MasterProcess, SetType, WriteType,
                      ReadBit, SetMasterFlag, WriteFlag, PISC_Init, TMS_Init
  <2>e. CASE u # t
    <3>1. pc'[u] = "idle"
      BY <1>1, <2>c, <2>e DEF Arbitrate, MasterProcess, SetType, WriteType,
            ReadBit, SetMasterFlag, WriteFlag, PISC_Init, TMS_Init, Move
    <3> QED  BY <3>1
  <2>f. CASE u = t
    <3>0. Called(t)
      BY <2>a DEF SerialReason
    <3>1. CASE MasterProcess(t)
      <4>1. /\ pc'[t] = "setType"
            /\ tmp'[t] = Decide(type, status, otherKey, localKey, OtherDevId, otherMaster)
            /\ status' = status /\ otherKey' = otherKey
        BY <3>1 DEF MasterProcess, Move
      <4>2. tmp'[t] \in MasterTypes <=> ~(status = DevOk /\ otherKey = 1)
        BY <4>1, <2>d, DecideWithKey
      <4>3. MasterTypes' = MasterTypes
        OBVIOUS
      <4> QED
        BY <4>1, <4>2, <4>3, <2>f DEF Bit
    <3>2. CASE SetType(t)
      <4>1. CASE tmp[t] = type
        BY <3>2, <4>1, <2>f DEF SetType, Move
      <4>2. CASE tmp[t] # type
        BY <3>0, <3>2, <4>2, <2>f DEF SetType, Move
      <4> QED  BY <4>1, <4>2
    <3>3. CASE WriteType(t)
      BY <3>0, <3>3, <2>f DEF WriteType, Move
    <3>4. CASE ReadBit(t)
      BY <3>0, <3>4, <2>f, MasterBitOfType DEF ReadBit, Move
    <3>5. CASE SetMasterFlag(t)
      <4>1. CASE tmp[t] = flag
        BY <3>5, <4>1, <2>f DEF SetMasterFlag, Move
      <4>2. CASE tmp[t] # flag
        BY <3>0, <3>5, <4>2, <2>f DEF SetMasterFlag, Move
      <4> QED  BY <4>1, <4>2
    <3>6. CASE WriteFlag(t)
      BY <3>6, <2>f DEF WriteFlag, Move
    <3>7. CASE PISC_Init(t) \/ TMS_Init(t)
      BY <3>7, <2>f DEF PISC_Init, TMS_Init, Move
    <3> QED
      BY <1>1, <3>1, <3>2, <3>3, <3>4, <3>5, <3>6, <3>7 DEF Arbitrate
  <2> QED
    BY <2>e, <2>f
<1>2. CASE BootKey \/ BootRegister
  BY <1>2 DEF BootKey, BootRegister, Move, SerialRole, SerialReason
<1>3. CASE BootSlave
  <2>1. pc[Udp] = "idle" /\ pc'[Udp] = "idle" /\ pc'[Sys] = "readBit"
    BY <1>3, Alone DEF BootSlave
  <2>2. type' \notin MasterTypes /\ ret'[Sys] = "bootReg"
    BY <1>3 DEF BootSlave, MasterTypes, SlaveTypeInit, MasterTypeKey,
                MasterTypeOtherErr, MasterTypeIdLow
  <2> QED  BY <2>1, <2>2
<1>4. CASE TickLoad \/ TickStore
  BY <1>4 DEF TickLoad, TickStore, Move, Forget, SerialReason
<1>5. CASE MarkError
  <2>1. pc[Udp] = "idle" /\ pc'[Udp] = "idle" /\ pc'[Sys] = "decide"
    BY <1>5, Alone DEF MarkError
  <2> QED  BY <2>1
<1>6. ASSUME NEW f \in Frame, Receive(f)
      PROVE  Called(u)'
  BY <1>6 DEF Receive, Move, SerialReason
<1>7. CASE MarkOk
  <2>1. ~overlap /\ pc[Sys] = "idle" /\ pc'[Sys] = "idle"
    BY <1>7 DEF MarkOk, Move, SerialRole
  <2>2. pc'[Udp] \in {"idle", "modeMaster"}
    BY <1>7 DEF MarkOk, Move
  <2> QED  BY <2>1, <2>2
<1>8. CASE MatchMaster \/ MatchSlave
  BY <1>8 DEF MatchMaster, MatchSlave, UseTable, Move, SerialReason
<1>9. CASE KeyRow \/ MasterRow
  <2>1. pc[Sys] = "idle" /\ pc'[Sys] = "idle"
    BY <1>9 DEF KeyRow, MasterRow, Move
  <2> QED
    BY <1>9, <2>1 DEF KeyRow, MasterRow, Move
<1>10. CASE BackupRow
  BY <1>10 DEF BackupRow, Move, SerialReason
<1>11. CASE PeerChanges \/ UNCHANGED vars
  BY <1>11 DEF PeerChanges, vars, SerialReason
<1> QED
  BY <1>1, <1>2, <1>3, <1>4, <1>5, <1>6, <1>7, <1>8, <1>9, <1>10, <1>11, NextCases

-----------------------------------------------------------------------------
(***************************************************************************)
(* Without overlap: the counter measures the silence.                      *)
(***************************************************************************)
LEMMA StepSerialSilence ==
  ASSUME Typed, SerialSilence, [Next]_vars
  PROVE  SerialSilence'
<1> USE ConstantsAssumption DEF ConstantsAssumption, Typed, TypeOK, LocalsOK
<1> USE DEF devVars, roleVars, peerVars, regVars, udpVars, Goto, Call, Return,
            At, SysRets, UdpRets, DevOk, DevError
<1>1. ASSUME NEW t \in Thread, Arbitrate(t)
      PROVE  SerialSilence'
  <2>1. CASE MasterProcess(t)
    BY <2>1, Alone DEF MasterProcess, SerialSilence
  <2>2. CASE SetType(t)
    <3>1. CASE tmp[t] = type
      BY <2>2, <3>1, Alone DEF SetType, Forget, SerialSilence
    <3>2. CASE tmp[t] # type
      BY <2>2, <3>2, Alone DEF SetType, SerialSilence
    <3> QED  BY <3>1, <3>2
  <2>3. CASE WriteType(t)
    BY <2>3, Alone DEF WriteType, SerialSilence
  <2>4. CASE ReadBit(t)
    BY <2>4, Alone DEF ReadBit, SerialSilence
  <2>5. CASE SetMasterFlag(t)
    <3>1. CASE tmp[t] = flag
      BY <2>5, <3>1, Alone DEF SetMasterFlag, Forget, SerialSilence
    <3>2. CASE tmp[t] # flag
      BY <2>5, <3>2, Alone DEF SetMasterFlag, SerialSilence
    <3> QED  BY <3>1, <3>2
  <2>6. CASE WriteFlag(t)
    <3>1. CASE tmp[t] = 1
      BY <2>6, <3>1, Alone DEF WriteFlag, SerialSilence
    <3>2. CASE tmp[t] # 1
      BY <2>6, <3>2, Alone DEF WriteFlag, Forget, SerialSilence
    <3> QED  BY <3>1, <3>2
  <2>7. CASE PISC_Init(t)
    BY <2>7, Alone DEF PISC_Init, SerialSilence
  <2>8. CASE TMS_Init(t)
    BY <2>8, Alone DEF TMS_Init, SerialSilence
  <2> QED
    BY <1>1, <2>1, <2>2, <2>3, <2>4, <2>5, <2>6, <2>7, <2>8 DEF Arbitrate
<1>2. CASE BootKey
  BY <1>2, Alone DEF BootKey, SerialSilence
<1>3. CASE BootSlave
  BY <1>3, Alone DEF BootSlave, SerialSilence
<1>4. CASE BootRegister
  BY <1>4, Alone DEF BootRegister, SerialSilence
<1>5. CASE TickLoad
  BY <1>5, Alone DEF TickLoad, SerialSilence
<1>6. CASE TickStore
  BY <1>6, Alone, CountUp DEF TickStore, SerialSilence
<1>7. CASE MarkError
  BY <1>7, Alone DEF MarkError, SerialSilence
<1>8. ASSUME NEW f \in Frame, Receive(f)
      PROVE  SerialSilence'
  BY <1>8, Alone DEF Receive, SerialSilence
<1>9. CASE MarkOk
  BY <1>9, Alone DEF MarkOk, SerialSilence
<1>10. CASE MatchMaster
  BY <1>10, Alone DEF MatchMaster, UseTable, SerialSilence
<1>11. CASE MatchSlave
  BY <1>11, Alone DEF MatchSlave, UseTable, SerialSilence
<1>12. CASE KeyRow
  BY <1>12, Alone DEF KeyRow, SerialSilence
<1>13. CASE MasterRow
  BY <1>13, Alone DEF MasterRow, SerialSilence
<1>14. CASE BackupRow
  BY <1>14, Alone DEF BackupRow, SerialSilence
<1>15. CASE PeerChanges
  BY <1>15 DEF PeerChanges, SerialSilence
<1>16. CASE UNCHANGED vars
  BY <1>16 DEF vars, SerialSilence
<1> QED
  BY <1>1, <1>2, <1>3, <1>4, <1>5, <1>6, <1>7, <1>8, <1>9, <1>10, <1>11,
     <1>12, <1>13, <1>14, <1>15, <1>16, NextCases


-----------------------------------------------------------------------------
(***************************************************************************)
(* The view of the other controller follows the row table step by step.    *)
(***************************************************************************)
LEMMA StepViewInStep ==
  ASSUME Typed, ViewInStep, [Next]_vars
  PROVE  ViewInStep'
<1> USE ConstantsAssumption DEF ConstantsAssumption, Typed, TypeOK, LocalsOK
<1> USE DEF devVars, roleVars, peerVars, regVars, udpVars, Goto, Call, Return,
            At, SysRets, UdpRets, Move, InArb, ArbLocs, Through
<1>1. ASSUME NEW t \in Thread, Arbitrate(t)
      PROVE  ViewInStep'
  <2>1. CASE MasterProcess(t)
    BY <2>1 DEF MasterProcess, ViewInStep
  <2>2. CASE SetType(t)
    <3>1. CASE tmp[t] = type
      BY <2>2, <3>1 DEF SetType, ViewInStep
    <3>2. CASE tmp[t] # type
      BY <2>2, <3>2 DEF SetType, ViewInStep
    <3> QED  BY <3>1, <3>2
  <2>3. CASE WriteType(t)
    BY <2>3 DEF WriteType, ViewInStep
  <2>4. CASE ReadBit(t)
    BY <2>4 DEF ReadBit, ViewInStep
  <2>5. CASE SetMasterFlag(t)
    <3>1. CASE tmp[t] = flag
      BY <2>5, <3>1 DEF SetMasterFlag, ViewInStep
    <3>2. CASE tmp[t] # flag
      BY <2>5, <3>2 DEF SetMasterFlag, ViewInStep
    <3> QED  BY <3>1, <3>2
  <2>6. CASE WriteFlag(t)
    <3>1. CASE tmp[t] = 1
      BY <2>6, <3>1 DEF WriteFlag, ViewInStep
    <3>2. CASE tmp[t] # 1
      BY <2>6, <3>2 DEF WriteFlag, ViewInStep
    <3> QED  BY <3>1, <3>2
  <2>7. CASE PISC_Init(t)
    BY <2>7 DEF PISC_Init, ViewInStep
  <2>8. CASE TMS_Init(t)
    BY <2>8 DEF TMS_Init, ViewInStep
  <2> QED
    BY <1>1, <2>1, <2>2, <2>3, <2>4, <2>5, <2>6, <2>7, <2>8 DEF Arbitrate
<1>2. CASE BootKey
  BY <1>2 DEF BootKey, ViewInStep
<1>3. CASE BootSlave
  BY <1>3 DEF BootSlave, ViewInStep
<1>4. CASE BootRegister
  BY <1>4 DEF BootRegister, ViewInStep
<1>5. CASE TickLoad
  BY <1>5 DEF TickLoad, ViewInStep
<1>6. CASE TickStore
  BY <1>6 DEF TickStore, ViewInStep
<1>7. CASE MarkError
  BY <1>7 DEF MarkError, ViewInStep
<1>8. ASSUME NEW f \in Frame, Receive(f)
      PROVE  ViewInStep'
  BY <1>8 DEF Receive, ViewInStep
<1>9. CASE MarkOk
  BY <1>9 DEF MarkOk, ViewInStep
<1>10. CASE MatchMaster
  BY <1>10 DEF MatchMaster, UseTable, ViewInStep
<1>11. CASE MatchSlave
  BY <1>11 DEF MatchSlave, UseTable, ViewInStep
<1>12. CASE KeyRow
  BY <1>12 DEF KeyRow, ViewInStep
<1>13. CASE MasterRow
  BY <1>13 DEF MasterRow, ViewInStep
<1>14. CASE BackupRow
  BY <1>14 DEF BackupRow, ViewInStep
<1>15. CASE PeerChanges
  BY <1>15 DEF PeerChanges, ViewInStep
<1>16. CASE UNCHANGED vars
  BY <1>16 DEF vars, ViewInStep
<1> QED
  BY <1>1, <1>2, <1>3, <1>4, <1>5, <1>6, <1>7, <1>8, <1>9, <1>10, <1>11,
     <1>12, <1>13, <1>14, <1>15, <1>16, NextCases

-----------------------------------------------------------------------------
(***************************************************************************)
(* The theorems.                                                           *)
(***************************************************************************)

LEMMA InitInv == Init => IndInv
<1> SUFFICES ASSUME Init PROVE IndInv
  OBVIOUS
<1>1. TypeOK /\ LocalsOK
  BY InitTyped DEF Typed
<1>2. pc[Sys] = "boot" /\ pc[Udp] = "idle"
  BY DEF Init
<1>3. Accounts /\ Survival
  BY <1>2, ConstantsAssumption
     DEF ConstantsAssumption, Init, Accounts, Survival, OwedRows, OwedSlots
<1>4. type \notin MasterTypes
  BY DEF Init, NoType, MasterTypes, MasterTypeKey, MasterTypeOtherErr,
         MasterTypeIdLow
<1>5. SerialRole /\ KeyInserted /\ SerialReason
  BY <1>2, <1>4 DEF Init, SerialRole, KeyInserted, SerialReason, Called
<1>6. SerialSilence
  BY <1>2 DEF Init, SerialSilence, DevOk, DevError
<1>7. ViewInStep
  BY <1>2, NoFrameIsFrame
     DEF Init, ViewInStep, InArb, ArbLocs, Through, NoFrame
<1> QED
  BY <1>1, <1>3, <1>5, <1>6, <1>7 DEF IndInv

LEMMA StepInv == IndInv /\ [Next]_vars => IndInv'
BY StepTyped, StepAccounts, StepSerialRole, StepKeyInserted,
   StepSerialReason, StepSerialSilence, StepViewInStep
   DEF IndInv, Typed

\* IndInv holds in every state either thread and the network can reach.
THEOREM Invariance == Spec => []IndInv
BY InitInv, StepInv, PTL DEF Spec

\* Type correctness, the one-byte timeout counter included.
THEOREM TypeCorrect == Spec => []TypeOK
<1>1. IndInv => TypeOK
  BY DEF IndInv
<1> QED  BY <1>1, Invariance, PTL

\* The flag the program reads agrees with the type the arbitration decided,
\* whenever the two threads never overlapped.
THEOREM RolesAgree == Spec => []FlagFollowsType
<1>1. IndInv => FlagFollowsType
  BY DEF IndInv, SerialRole, FlagFollowsType, SerialIdle, Lagging
<1> QED  BY <1>1, Invariance, PTL

\* The number of promotions the process survives, for every table size and
\* device configuration.
THEOREM EndsForAReason == Spec => []Survival
<1>1. IndInv => Survival
  BY DEF IndInv
<1> QED  BY <1>1, Invariance, PTL

\* A controller that only ever was a slave has missed no edge of the other
\* controller's key and master bits, overlap or not.
THEOREM ViewIsCurrent == Spec => []ViewTracksPeer
<1>1. IndInv => ViewTracksPeer
  BY DEF IndInv, ViewInStep, ViewTracksPeer
<1> QED  BY <1>1, Invariance, PTL

\* A controller is declared dead after TimeoutMax silent ticks, never earlier.
THEOREM NoEarlyTimeout == Spec => []ErrorMeansSilence
<1>1. IndInv => ErrorMeansSilence
  BY DEF IndInv, SerialSilence, ErrorMeansSilence
<1> QED  BY <1>1, Invariance, PTL

\* Only WriteFlag writes the flag.
LEMMA FlagChanges ==
  ASSUME [Next]_vars, flag' # flag
  PROVE  \E t \in Thread : WriteFlag(t)
<1> USE DEF roleVars
<1>1. ASSUME NEW t \in Thread, Arbitrate(t)
      PROVE  WriteFlag(t)
  BY <1>1 DEF Arbitrate, MasterProcess, SetType, WriteType, ReadBit, SetMasterFlag,
              PISC_Init, TMS_Init
<1>2. CASE BootKey \/ BootSlave \/ BootRegister
  BY <1>2 DEF BootKey, BootSlave, BootRegister
<1>3. CASE TickLoad \/ TickStore \/ MarkError
  BY <1>3 DEF TickLoad, TickStore, MarkError
<1>4. ASSUME NEW f \in Frame, Receive(f)
      PROVE  FALSE
  BY <1>4 DEF Receive
<1>5. CASE MarkOk \/ MatchMaster \/ MatchSlave
  BY <1>5 DEF MarkOk, MatchMaster, MatchSlave
<1>6. CASE KeyRow \/ MasterRow \/ BackupRow
  BY <1>6 DEF KeyRow, MasterRow, BackupRow
<1>7. CASE PeerChanges \/ UNCHANGED vars
  BY <1>7 DEF PeerChanges, vars
<1> QED
  BY <1>1, <1>2, <1>3, <1>4, <1>5, <1>6, <1>7, NextCases

\* A change of the flag without overlap has the reason the invariant keeps.
LEMMA FlagReason ==
  ASSUME IndInv, [Next]_vars, flag' # flag, ~overlap'
  PROVE  /\ ~overlap /\ pc[Udp] # "setOk"
         /\ \E t \in Thread : Reason(flag' = 1, t)
<1>1. PICK t \in Thread : WriteFlag(t)
  BY FlagChanges
<1>2. ~overlap /\ pc[t] = "writeFlag" /\ flag' = tmp[t]
  BY <1>1 DEF WriteFlag, Goto, Return, Move, At
<1>3. pc[Udp] # "setOk"
  BY <1>2 DEF IndInv, SerialRole
<1>4. Reason(tmp[t] = 1, t)
  BY <1>2 DEF IndInv, SerialReason, Called
<1> QED  BY <1>2, <1>3, <1>4

\* A master steps down only beside a live controller that has the key.
THEOREM DemotionHasReason == Spec => DemotionNeedsPeerKey
<1>1. ASSUME IndInv, [Next]_vars, flag = 1, flag' = 0, ~overlap',
             ret[Sys] = "idle"
      PROVE  otherKey = 1 /\ status = DevOk
  <2>1. PICK t \in Thread : Reason(flag' = 1, t)
    BY <1>1, FlagReason
  <2> QED
    BY <1>1, <2>1 DEF Reason, AfterBoot
<1>2. IndInv /\ [Next]_vars
        => [(flag = 1 /\ flag' = 0 /\ ~overlap' /\ ret[Sys] = "idle")
              => otherKey = 1 /\ status = DevOk]_vars
  BY <1>1
<1> QED  BY <1>2, Invariance, PTL DEF Spec, DemotionNeedsPeerKey

\* A slave becomes master only beside a controller without the key, or one that
\* has been silent for TimeoutMax ticks.
THEOREM PromotionHasReason == Spec => PromotionNeedsReason
<1>1. ASSUME IndInv, [Next]_vars, flag = 0, flag' = 1, ~overlap'
      PROVE  otherKey = 0 \/ quiet = TimeoutMax
  <2>1. PICK t \in Thread : Reason(flag' = 1, t)
    BY <1>1, FlagReason
  <2>2. ~overlap /\ pc[Udp] # "setOk"
    BY <1>1, FlagReason
  <2> QED
    BY <1>1, <2>1, <2>2 DEF Reason, IndInv, SerialSilence
<1>2. IndInv /\ [Next]_vars
        => [(flag = 0 /\ flag' = 1 /\ ~overlap')
              => otherKey = 0 \/ quiet = TimeoutMax]_vars
  BY <1>1
<1> QED  BY <1>2, Invariance, PTL DEF Spec, PromotionNeedsReason

=============================================================================
