-------------------------- MODULE TmsDispatch_proofs --------------------------
(***************************************************************************)
(* Proofs about TmsDispatch, for any frames TMS may send, of any lengths,  *)
(* and any length of the message pair.                                     *)
(***************************************************************************)
EXTENDS TmsDispatch, TLAPS

-----------------------------------------------------------------------------
(* The table and the layout.                                               *)

LEMMA RowFacts ==
  ASSUME NEW n \in 1..Last
  PROVE  /\ TmsRows[n].handler = "direction" <=> n = 1
         /\ TmsRows[n].handler = "station" <=> n \in 2..5
         /\ TmsRows[n].handler = "doors" <=> n = 6
         /\ TmsRows[n].handler = "pre" <=> n = 7
         /\ TmsRows[n].handler = "arr" <=> n = 8
         /\ TmsRows[n].handler = "stopPre" <=> n = 9
         /\ TmsRows[n].handler = "stopArr" <=> n = 10
         /\ TmsRows[n].handler = "urgent" <=> n = 11
         /\ TmsRows[n].handler = "cycle" <=> n = 12
         /\ TmsRows[n].handler = "store" <=> n = 13
         /\ TmsRows[n].judge = "whatever" <=> n \in 2..5 \union {13}
<1>1. n \in {1, 2, 3, 4, 5, 6, 7, 8, 9, 10, 11, 12, 13}
  BY DEF Last
<1> QED BY <1>1 DEF TmsRows, Row

LEMMA WatchedFields ==
  /\ Fields = {"dir", "nex", "start", "end", "side", "open", "closed", "pre", "arr", "stop", "code", "trig", "cyc"}
  /\ TmsRows[1].field = "dir" /\ TmsRows[7].field = "pre" /\ TmsRows[8].field = "arr"
BY DEF Fields, Offset, TmsRows, Row

\* The bytes of the direction and of the two triggers are among those stored.
LEMMA StoredFields ==
  ASSUME NEW f \in Frame, backup \in Frame, NEW len \in Lengths
  PROVE  /\ Stored(f, len) \in Frame
         /\ Stored(f, len).dir = f.dir /\ Stored(f, len).pre = f.pre /\ Stored(f, len).arr = f.arr
<1>1. Offset.dir = 3 /\ Offset.pre = 29 /\ Offset.arr = 30
  BY DEF Offset
<1>2. "dir" \in Fields /\ "pre" \in Fields /\ "arr" \in Fields
  BY WatchedFields
<1>3. len \in Nat /\ len >= 51
  BY LengthsAssumption DEF DatLen
<1> QED BY <1>1, <1>2, <1>3 DEF Stored, Frame, Header, Byte

-----------------------------------------------------------------------------
(* The inductive invariant.                                                *)

AnnouncerTypes ==
  /\ inbox \in Seq(Requests) /\ Len(inbox) <= InboxMax
  /\ type \in Rowed \union {None}
  /\ job \in [op : {"play", "stop", "timer", "begin", "none"},
              dev : {"tms", "pisc", "none"}, bd : Rowed \union {"urgent", None}]
  /\ job.op \in {"play", "begin"} => job.bd \in Rowed

DispatchTypes ==
  /\ flag \in BOOLEAN /\ frame \in Frame /\ backup \in Frame /\ row \in 0..Last
  /\ dir \in Directions /\ station \in Stations
  /\ stage \in Mp3Types \union {None} /\ doors \subseteq {"left", "right"}
  /\ prev \in Frame /\ steady \in 0..2 /\ sure \in BOOLEAN
  /\ asked \in [Mp3Types -> 0..1] /\ heard \in Rowed \union {None}
  /\ stopping \in Mp3Types \union {None}
  /\ stopping # None => row \in {9, 10}

\* The handler to be called is that of a row that fires.
RowFires == row # 0 => Fires(row, frame)

\* Who has stored a frame and not lost the flag since compares with that frame,
\* as far as the direction and the triggers go.
SameTriggers(f, g) == f.dir = g.dir /\ \A bd \in Mp3Types : f[bd] = g[bd]
BackupIsPrev ==
  steady >= 1 => flag /\ SameTriggers(backup, IF row = 0 THEN frame ELSE prev)

\* What the frame in hand has made the controller ask for so far.
Rising(bd) == frame[bd] # 0 /\ frame[bd] # prev[bd]
RowOf(bd) == IF bd = "pre" THEN 7 ELSE 8
AskedSoFar ==
  \A bd \in Mp3Types :
    /\ row # 0 /\ row <= RowOf(bd) => asked[bd] = 0
    /\ steady >= 1 /\ row > RowOf(bd) => asked[bd] = IF Rising(bd) THEN 1 ELSE 0
    /\ steady = 2 /\ row = 0 => asked[bd] = IF Rising(bd) THEN 1 ELSE 0

StationsSoFar ==
  (steady >= 1 /\ row >= 3) \/ (steady = 2 /\ row = 0) => station = StationsOf(frame)

\* The direction is that of the backup until its row has been passed by a master.
DirectionSoFar ==
  sure => IF flag /\ row > 1 THEN dir = DirOf(frame.dir) ELSE dir = DirOf(backup.dir)

\* The stop that was heard is the next request, or is being served; it may name
\* another announcement than the one it finds.
IsStop(r) == \E bd \in Mp3Types : r = Stop("tms", bd)
StopIsNext ==
  heard # None =>
    /\ type = heard
    /\ IsStop(job) \/ (job \in {Idle, Tick} /\ inbox # << >> /\ IsStop(Head(inbox)))

IndInv ==
  /\ AnnouncerTypes /\ DispatchTypes /\ RowFires /\ BackupIsPrev
  /\ AskedSoFar /\ StationsSoFar /\ DirectionSoFar /\ StopIsNext

-----------------------------------------------------------------------------
(* The announcer.                                                          *)

LEMMA PostKeeps ==
  ASSUME AnnouncerTypes, NEW r \in Requests, Post(r)
  PROVE  /\ inbox' \in Seq(Requests) /\ Len(inbox') <= InboxMax
         /\ inbox # << >> => inbox' # << >> /\ Head(inbox') = Head(inbox)
         /\ inbox = << >> => inbox' # << >> /\ Head(inbox') = r
<1> USE InboxAssumption
<1>1. inbox \in Seq(Requests) /\ Len(inbox) \in Nat /\ Len(inbox) <= InboxMax
  BY DEF AnnouncerTypes
<1>2. CASE Room
  <2>1. inbox' = Append(inbox, r)
    BY <1>2 DEF Post
  <2>2. inbox' \in Seq(Requests) /\ Len(inbox') = Len(inbox) + 1
    BY <1>1, <2>1
  <2>3. inbox # << >> => Head(inbox') = Head(inbox)
    BY <1>1, <2>1
  <2>4. inbox = << >> => Head(inbox') = r
    BY <2>1
  <2>5. inbox' # << >> BY <1>1, <2>2
  <2> QED BY <1>1, <1>2, <2>2, <2>3, <2>4, <2>5 DEF Room
<1>3. CASE ~Room
  <2>1. inbox' = inbox
    BY <1>3 DEF Post
  <2>2. inbox # << >>
    BY <1>1, <1>3 DEF Room
  <2> QED BY <1>1, <2>1, <2>2
<1> QED BY <1>2, <1>3

LEMMA RequestsMade ==
  ASSUME NEW bd \in Rowed \union {"urgent"}
  PROVE  Play("tms", bd) \in Requests /\ Stop("tms", bd) \in Requests
BY DEF Play, Stop, Requests

\* A handler that tells the broadcast thread something, or nothing, leaves what
\* was next there.
LEMMA TellKeeps ==
  ASSUME AnnouncerTypes, StopIsNext, NEW c \in BOOLEAN, NEW r \in Requests, Tell(c, r)
  PROVE  /\ AnnouncerTypes'
         /\ heard' = heard => StopIsNext'
         /\ inbox = << >> /\ c => inbox' # << >> /\ Head(inbox') = r
         /\ UNCHANGED <<type, job>>
<1>1. UNCHANGED <<type, job>>
  BY DEF Tell
<1>2. CASE c
  <2>1. Post(r) BY <1>2 DEF Tell
  <2> QED BY <1>1, <1>2, <2>1, PostKeeps DEF AnnouncerTypes, StopIsNext
<1>3. CASE ~c
  <2>1. inbox' = inbox BY <1>3 DEF Tell
  <2> QED BY <1>1, <1>3, <2>1 DEF AnnouncerTypes, StopIsNext
<1> QED BY <1>2, <1>3

LEMMA WorkKeeps ==
  ASSUME AnnouncerTypes, StopIsNext, heard \in Rowed \union {None}, Work \/ Over,
         heard' = IF type' # type THEN None ELSE heard
  PROVE  AnnouncerTypes' /\ StopIsNext'
<1>1. None \notin Mp3Types /\ None \notin Rowed /\ Mp3Types \subseteq Rowed
  BY DEF None, Mp3Types, Rowed
<1>2. CASE Serve
  <2>1. /\ job = Idle /\ inbox # << >> /\ inbox' = Tail(inbox) /\ type' = type
        /\ \/ job' = Head(inbox) /\ (Head(inbox).op = "play" => Head(inbox).bd \in Rowed)
           \/ Head(inbox).op = "play" /\ job' = job
    BY <1>2 DEF Serve
  <2>2. Head(inbox) \in Requests /\ inbox' \in Seq(Requests) /\ Len(inbox') <= InboxMax
    BY <2>1, InboxAssumption DEF AnnouncerTypes
  <2>3. Head(inbox).op # "begin" /\ Head(inbox) \in [op : {"play", "stop", "timer", "begin", "none"},
              dev : {"tms", "pisc", "none"}, bd : Rowed \union {"urgent", None}]
    BY <2>2 DEF Requests
  <2>4. AnnouncerTypes'
    BY <2>1, <2>2, <2>3 DEF AnnouncerTypes
  <2>5. StopIsNext'
    <3>1. CASE heard = None
      BY <3>1, <2>1 DEF StopIsNext
    <3>2. CASE heard # None
      <4>1. IsStop(Head(inbox)) /\ type = heard
        BY <3>2, <2>1 DEF StopIsNext, IsStop, Idle, Stop
      <4>2. Head(inbox).op # "play"
        BY <4>1 DEF IsStop, Stop
      <4> QED BY <4>1, <4>2, <2>1 DEF StopIsNext
    <3> QED BY <3>1, <3>2
  <2> QED BY <2>4, <2>5
<1>3. CASE Clear
  <2>1. /\ job # Idle /\ job.op # "begin" /\ inbox' = inbox
        /\ type' = IF job.op = "stop" /\ job.bd \notin Rowed THEN type ELSE None
        /\ job' = IF job.op = "play" THEN [job EXCEPT !.op = "begin"] ELSE Idle
    BY <1>3 DEF Clear
  <2>2. AnnouncerTypes'
    BY <2>1 DEF AnnouncerTypes, Idle
  <2>3. heard' = None
    <3>1. CASE heard = None
      BY <3>1
    <3>2. CASE heard # None
      <4>1. type = heard /\ heard \in Rowed /\ (IsStop(job) \/ job = Tick)
        BY <3>2, <1>1, <2>1 DEF StopIsNext
      <4>2. ~(job.op = "stop" /\ job.bd \notin Rowed)
        BY <1>1, <4>1 DEF IsStop, Stop, Tick
      <4> QED BY <4>1, <4>2, <2>1, <1>1
    <3> QED BY <3>1, <3>2
  <2> QED BY <2>2, <2>3 DEF StopIsNext
<1>4. CASE Begin
  <2>1. job.op = "begin" /\ type' = job.bd /\ job' = Idle /\ inbox' = inbox
    BY <1>4 DEF Begin
  <2>2. AnnouncerTypes'
    BY <2>1 DEF AnnouncerTypes, Idle
  <2>3. heard = None
    BY <2>1 DEF StopIsNext, IsStop, Stop, Tick, Idle
  <2> QED BY <2>2, <2>3 DEF StopIsNext
<1>5. CASE Over
  <2>1. job = Idle /\ job' = Tick /\ UNCHANGED <<inbox, type>>
    BY <1>5 DEF Over
  <2>2. AnnouncerTypes'
    BY <2>1 DEF AnnouncerTypes, Tick
  <2>3. ~IsStop(Idle)
    BY DEF IsStop, Idle, Stop
  <2> QED BY <2>1, <2>2, <2>3 DEF StopIsNext
<1> QED BY <1>2, <1>3, <1>4, <1>5 DEF Work

-----------------------------------------------------------------------------
(* The rows.                                                               *)

Rows == RowFires /\ BackupIsPrev /\ AskedSoFar /\ StationsSoFar /\ DirectionSoFar

\* Between two handlers no row fires.
LEMMA SkippedRows ==
  ASSUME DispatchTypes, NEW n \in 0..(Last - 1), NEW m \in 1..Last, Next1(n, frame, m)
  PROVE  /\ m > n /\ Fires(m, frame)
         /\ m > 2 => n >= 2
         /\ n < 1 /\ m > 1 => frame.dir = backup.dir
         /\ \A bd \in Mp3Types : n < RowOf(bd) /\ m > RowOf(bd) => frame[bd] = backup[bd]
<1>1. /\ m \in (n + 1)..Last /\ Fires(m, frame)
      /\ \A k \in (n + 1)..(m - 1) : ~Fires(k, frame)
  BY DEF Next1
<1>2. n \in Nat /\ m \in Nat
  BY DEF Last
<1>3. m > 2 => n >= 2
  <2>1. Fires(2, frame) BY RowFacts DEF Fires, Last
  <2> QED BY <2>1, <1>1, <1>2
<1>4. n < 1 /\ m > 1 => frame.dir = backup.dir
  <2>1. ASSUME ~Fires(1, frame) PROVE frame.dir = backup.dir
    BY <2>1, WatchedFields DEF Fires
  <2> QED BY <2>1, <1>1, <1>2
<1>5. ASSUME NEW bd \in Mp3Types, n < RowOf(bd), m > RowOf(bd) PROVE frame[bd] = backup[bd]
  <2>1. RowOf(bd) \in (n + 1)..(m - 1)
    BY <1>2, <1>5 DEF RowOf
  <2>2. ~Fires(RowOf(bd), frame)
    BY <1>1, <2>1
  <2>3. TmsRows[RowOf(bd)].field = bd
    BY WatchedFields DEF RowOf, Mp3Types
  <2> QED BY <2>2, <2>3 DEF Fires
<1> QED BY <1>1, <1>2, <1>3, <1>4, <1>5

\* What the backup holds of the triggers while a frame is compared with it.
LEMMA ComparedWithPrev ==
  ASSUME DispatchTypes, BackupIsPrev, row # 0, steady >= 1, NEW bd \in Mp3Types
  PROVE  flag /\ backup[bd] = prev[bd]
BY DEF DispatchTypes, BackupIsPrev, SameTriggers

\* A handler: what it sets if it is the one of the row, and the next row.
LEMMA AdvanceKeeps ==
  ASSUME DispatchTypes, Rows, row \in 1..(Last - 1), Advance,
         UNCHANGED <<flag, frame, backup, prev, steady>>,
         asked' \in [Mp3Types -> 0..1],
         \A bd \in Mp3Types :
           asked'[bd] = IF row = RowOf(bd) /\ flag /\ frame[bd] # 0 THEN asked[bd] + 1 ELSE asked[bd],
         station' = IF row \in 2..5 /\ flag THEN StationsOf(frame) ELSE station,
         dir' = IF row = 1 /\ flag THEN DirOf(frame.dir) ELSE dir,
         sure' = IF row = 1 THEN sure \/ flag ELSE sure
  PROVE  Rows' /\ row' \in 1..Last
<1>1. PICK m \in 1..Last : Next1(row, frame, m) /\ row' = m
  BY DEF Advance
<1>2. row \in Nat /\ m \in Nat /\ row > 0 /\ m > row /\ m <= Last /\ Fires(m, frame) /\ (m > 2 => row >= 2)
      /\ \A bd \in Mp3Types : row < RowOf(bd) /\ m > RowOf(bd) => frame[bd] = backup[bd]
  BY <1>1, SkippedRows DEF Last
<1>3. RowFires /\ BackupIsPrev /\ AskedSoFar /\ StationsSoFar /\ DirectionSoFar
  BY DEF Rows
<1>4. RowFires'
  BY <1>1, <1>2 DEF RowFires, Fires
<1>5. BackupIsPrev'
  BY <1>1, <1>2, <1>3 DEF BackupIsPrev
<1>6. AskedSoFar'
  <2> SUFFICES ASSUME NEW bd \in Mp3Types
               PROVE  /\ m <= RowOf(bd) => asked'[bd] = 0
                      /\ steady >= 1 /\ m > RowOf(bd) => asked'[bd] = IF Rising(bd) THEN 1 ELSE 0
    BY <1>1, <1>2 DEF AskedSoFar, Rising
  <2>1. /\ row <= RowOf(bd) => asked[bd] = 0
        /\ steady >= 1 /\ row > RowOf(bd) => asked[bd] = IF Rising(bd) THEN 1 ELSE 0
    BY <1>2, <1>3 DEF AskedSoFar
  <2>2. RowOf(bd) \in Nat
    BY DEF RowOf
  <2>3. CASE row > RowOf(bd)
    BY <2>1, <2>2, <2>3, <1>2
  <2>4. CASE row = RowOf(bd)
    <3>1. frame[bd] # backup[bd]
      <4>1. Fires(row, frame) BY <1>2, <1>3 DEF RowFires
      <4>2. TmsRows[row].judge # "whatever" /\ TmsRows[row].field = bd
        BY <2>4, RowFacts, WatchedFields DEF RowOf, Mp3Types, Last
      <4> QED BY <4>1, <4>2 DEF Fires
    <3>2. steady >= 1 => flag /\ backup[bd] = prev[bd]
      BY <1>2, <1>3, ComparedWithPrev
    <3> QED BY <2>1, <2>2, <2>4, <3>1, <3>2, <1>2 DEF Rising
  <2>5. CASE row < RowOf(bd)
    <3>1. steady >= 1 => flag /\ backup[bd] = prev[bd]
      BY <1>2, <1>3, ComparedWithPrev
    <3>2. asked'[bd] = 0
      BY <2>1, <2>2, <2>5, <1>2
    <3>3. m > RowOf(bd) => frame[bd] = backup[bd]
      BY <2>5, <1>2
    <3> QED BY <3>1, <3>2, <3>3 DEF Rising
  <2> QED BY <2>2, <2>3, <2>4, <2>5, <1>2
<1>7. StationsSoFar'
  <2>1. steady >= 1 => flag
    BY <1>2, <1>3 DEF BackupIsPrev
  <2>2. row >= 6 => row >= 3
    BY <1>2
  <2> QED BY <2>1, <2>2, <1>1, <1>2, <1>3 DEF StationsSoFar
<1>8. DirectionSoFar'
  <2>1. row > 1 \/ row = 1
    BY <1>2
  <2>2. CASE row > 1
    <3>1. dir' = dir /\ (sure' <=> sure) /\ row' > 1
      BY <2>2, <1>1, <1>2
    <3> QED BY <2>2, <3>1, <1>3 DEF DirectionSoFar
  <2>3. CASE row = 1
    <3>1. row' > 1 /\ ~(row > 1)
      BY <2>3, <1>1, <1>2
    <3>2. CASE flag
      <4>1. dir' = DirOf(frame.dir)
        BY <2>3, <3>2
      <4> QED BY <3>1, <3>2, <4>1 DEF DirectionSoFar
    <3>3. CASE ~flag
      <4>1. dir' = dir /\ (sure' <=> sure)
        BY <2>3, <3>3
      <4> QED BY <3>1, <3>3, <4>1, <1>3 DEF DirectionSoFar
    <3> QED BY <3>2, <3>3
  <2> QED BY <2>1, <2>2, <2>3
<1> QED BY <1>1, <1>4, <1>5, <1>6, <1>7, <1>8 DEF Rows

LEMMA ReceiveKeeps == ASSUME IndInv, NEW f \in Frames, Receive(f) PROVE IndInv'
<1> USE FramesAssumption
<1>1. AnnouncerTypes /\ DispatchTypes /\ BackupIsPrev /\ StationsSoFar /\ DirectionSoFar /\ StopIsNext
  BY DEF IndInv
<1>2. /\ row = 0 /\ frame' = f /\ prev' = (IF steady > 0 THEN frame ELSE Reset) /\ asked' = Unasked
      /\ UNCHANGED <<inbox, type, job, flag, backup, stopping, dir, station, stage, doors, steady, sure, heard>>
  BY DEF Receive, announcer, local
<1>3. IF flag THEN \E m \in 1..Last : Next1(0, f, m) /\ row' = m ELSE row' = Last
  BY DEF Receive
<1>4. f \in Frame /\ Reset \in Frame
  BY DEF Reset, Frame, Byte
<1>5. row' \in 1..Last /\ Fires(row', f)
  <2>1. CASE flag
    BY <2>1, <1>3 DEF Next1
  <2>2. CASE ~flag
    <3>1. Last \in 1..Last /\ Fires(Last, f)
      BY RowFacts DEF Fires, Last
    <3> QED BY <2>2, <3>1, <1>3
  <2> QED BY <2>1, <2>2
<1>6. flag => /\ row' <= 2
              /\ row' > 1 => f.dir = backup.dir
  <2> SUFFICES ASSUME flag PROVE row' <= 2 /\ (row' > 1 => f.dir = backup.dir)
    OBVIOUS
  <2>1. PICK m \in 1..Last : Next1(0, f, m) /\ row' = m
    BY <1>3
  <2>2. m \in Nat /\ m >= 1 /\ m <= Last /\ \A k \in 1..(m - 1) : ~Fires(k, f)
    BY <2>1 DEF Next1, Last
  <2>3. Fires(2, f)
    BY RowFacts DEF Fires, Last
  <2>4. ~Fires(1, f) => f.dir = backup.dir
    BY WatchedFields DEF Fires
  <2> QED BY <2>1, <2>2, <2>3, <2>4
<1>7. DispatchTypes'
  <2>1. asked' \in [Mp3Types -> 0..1]
    BY <1>2 DEF Unasked
  <2>2. row' \in 0..Last
    BY <1>5 DEF Last
  <2>3. stopping = None
    BY <1>1, <1>2 DEF DispatchTypes
  <2> QED BY <1>1, <1>2, <1>4, <2>1, <2>2, <2>3 DEF DispatchTypes
<1>8. steady >= 1 => flag /\ SameTriggers(backup', prev') /\ prev' = frame
  <2>1. steady >= 1 => steady > 0 BY <1>1 DEF DispatchTypes
  <2> QED BY <2>1, <1>1, <1>2 DEF BackupIsPrev
<1>9. row' # 0 /\ row' \in Nat
  BY <1>5
<1>10. RowFires' /\ BackupIsPrev'
  BY <1>2, <1>5, <1>8, <1>9 DEF RowFires, Fires, BackupIsPrev
<1>11. AskedSoFar'
  <2> SUFFICES ASSUME NEW bd \in Mp3Types
               PROVE  asked'[bd] = 0 /\ ~(steady >= 1 /\ row' > RowOf(bd))
    BY <1>2, <1>9 DEF AskedSoFar
  <2> QED BY <1>2, <1>6, <1>8, <1>9 DEF Unasked, RowOf
<1>12. StationsSoFar'
  BY <1>2, <1>6, <1>8, <1>9 DEF StationsSoFar
<1>13. DirectionSoFar'
  BY <1>1, <1>2, <1>6, <1>9 DEF DirectionSoFar
<1>14. AnnouncerTypes' /\ StopIsNext'
  BY <1>1, <1>2 DEF AnnouncerTypes, StopIsNext
<1> QED BY <1>7, <1>10, <1>11, <1>12, <1>13, <1>14 DEF IndInv

\* The stage and the doors are written by handlers only, and follow no other.
LEMMA HandlerKeeps ==
  ASSUME IndInv, row \in 1..(Last - 1), Advance,
         UNCHANGED <<flag, frame, backup, prev, steady>>,
         asked' \in [Mp3Types -> 0..1],
         \A bd \in Mp3Types :
           asked'[bd] = IF row = RowOf(bd) /\ flag /\ frame[bd] # 0 THEN asked[bd] + 1 ELSE asked[bd],
         station' = IF row \in 2..5 /\ flag THEN StationsOf(frame) ELSE station,
         dir' = IF row = 1 /\ flag THEN DirOf(frame.dir) ELSE dir,
         sure' = IF row = 1 THEN sure \/ flag ELSE sure,
         stage' \in Mp3Types \union {None}, doors' \subseteq {"left", "right"},
         heard' \in Rowed \union {None}, stopping' = None,
         AnnouncerTypes', StopIsNext'
  PROVE  IndInv'
<1>1. DispatchTypes /\ Rows
  BY DEF IndInv, Rows
<1>2. Rows' /\ row' \in 1..Last
  BY <1>1, AdvanceKeeps
<1>3. StationsOf(frame) \in Stations
  BY <1>1, WatchedFields DEF DispatchTypes, StationsOf, Stations, Frame
<1>4. row' \in 0..Last
  BY <1>2 DEF Last
<1>5. DirOf(frame.dir) \in Directions
  BY DEF DirOf, Directions
<1>6. DispatchTypes'
  BY <1>1, <1>3, <1>4, <1>5 DEF DispatchTypes
<1> QED BY <1>2, <1>6 DEF IndInv, Rows

-----------------------------------------------------------------------------
(* The handlers.                                                           *)

\* A handler that neither asks nor sets anything of the journey.
LEMMA QuietKeeps ==
  ASSUME IndInv, row \in 6..(Last - 1), row \notin {7, 8}, Advance,
         UNCHANGED <<flag, frame, backup, prev, steady, asked, station, dir, sure, stage>>,
         doors' \subseteq {"left", "right"}, heard' \in Rowed \union {None}, stopping' = None,
         AnnouncerTypes', StopIsNext'
  PROVE  IndInv'
<1>1. DispatchTypes
  BY DEF IndInv
<1>2. row \in 1..(Last - 1) /\ row # 1 /\ row \notin 2..5 /\ \A bd \in Mp3Types : row # RowOf(bd)
  BY DEF Last, RowOf
<1>3. asked' \in [Mp3Types -> 0..1] /\ stage' \in Mp3Types \union {None}
  BY <1>1 DEF DispatchTypes
<1> QED BY <1>2, <1>3, HandlerKeeps

\* The rows of a handler.
LEMMA RowsOf ==
  ASSUME DispatchTypes, NEW h, Handles(h)
  PROVE  row \in 1..Last /\ TmsRows[row].handler = h
BY DEF Handles, DispatchTypes, Last

LEMMA AnnouncerStays ==
  ASSUME AnnouncerTypes, StopIsNext, UNCHANGED <<announcer, heard>>
  PROVE  AnnouncerTypes' /\ StopIsNext'
BY DEF AnnouncerTypes, StopIsNext, announcer

LEMMA DirectionKeeps == ASSUME IndInv, RunDirectionSet PROVE IndInv'
<1>1. AnnouncerTypes /\ StopIsNext /\ DispatchTypes
  BY DEF IndInv
<1>2. /\ Handles("direction") /\ Advance
      /\ dir' = IF flag THEN DirOf(frame.dir) ELSE dir
      /\ sure' = (sure \/ flag)
      /\ UNCHANGED <<announcer, flag, frame, backup, stopping, station, stage, doors, prev, steady, asked, heard>>
  BY DEF RunDirectionSet
<1>3. row = 1
  BY <1>1, <1>2, RowsOf, RowFacts
<1>4. row \in 1..(Last - 1) /\ row \notin 2..5 /\ \A bd \in Mp3Types : row # RowOf(bd)
  BY <1>3 DEF Last, RowOf
<1>5. AnnouncerTypes' /\ StopIsNext'
  BY <1>1, <1>2, AnnouncerStays
<1>6. asked' \in [Mp3Types -> 0..1] /\ stage' \in Mp3Types \union {None}
      /\ doors' \subseteq {"left", "right"} /\ heard' \in Rowed \union {None}
  BY <1>1, <1>2 DEF DispatchTypes
<1>s. stopping' = None
  BY <1>1, <1>2, <1>3 DEF DispatchTypes
<1> QED BY <1>s, <1>2, <1>3, <1>4, <1>5, <1>6, HandlerKeeps

LEMMA StationKeeps == ASSUME IndInv, StationInfoSet PROVE IndInv'
<1>1. AnnouncerTypes /\ StopIsNext /\ DispatchTypes
  BY DEF IndInv
<1>2. /\ Handles("station") /\ Advance
      /\ station' = IF flag THEN StationsOf(frame) ELSE station
      /\ UNCHANGED <<announcer, flag, frame, backup, stopping, dir, stage, doors, prev, steady, sure, asked, heard>>
  BY DEF StationInfoSet, history
<1>3. row \in 2..5
  BY <1>1, <1>2, RowsOf, RowFacts
<1>4. row \in 1..(Last - 1) /\ row # 1 /\ \A bd \in Mp3Types : row # RowOf(bd)
  BY <1>3 DEF Last, RowOf
<1>5. AnnouncerTypes' /\ StopIsNext'
  BY <1>1, <1>2, AnnouncerStays
<1>6. asked' \in [Mp3Types -> 0..1] /\ stage' \in Mp3Types \union {None}
      /\ doors' \subseteq {"left", "right"} /\ heard' \in Rowed \union {None}
  BY <1>1, <1>2 DEF DispatchTypes
<1>s. stopping' = None
  BY <1>1, <1>2, <1>3 DEF DispatchTypes
<1> QED BY <1>s, <1>2, <1>3, <1>4, <1>5, <1>6, HandlerKeeps

LEMMA CloseDoorKeeps == ASSUME IndInv, CloseDoorStatusSet PROVE IndInv'
<1>1. AnnouncerTypes /\ StopIsNext /\ DispatchTypes
  BY DEF IndInv
<1>2. /\ Handles("doors") /\ Advance
      /\ doors' = IF flag /\ frame.closed # 0 THEN {} ELSE doors
      /\ UNCHANGED <<announcer, flag, frame, backup, stopping, dir, station, stage, prev, steady, sure, asked, heard>>
  BY DEF CloseDoorStatusSet, history
<1>3. row = 6 /\ row \in 6..(Last - 1)
  BY <1>1, <1>2, RowsOf, RowFacts DEF Last
<1>4. AnnouncerTypes' /\ StopIsNext'
  BY <1>1, <1>2, AnnouncerStays
<1>5. doors' \subseteq {"left", "right"} /\ heard' \in Rowed \union {None}
  BY <1>1, <1>2 DEF DispatchTypes
<1>s. stopping' = None
  BY <1>1, <1>2, <1>3 DEF DispatchTypes
<1> QED BY <1>s, <1>2, <1>3, <1>4, <1>5, QuietKeeps

LEMMA PreKeeps == ASSUME IndInv, PreTriggerSet PROVE IndInv'
<1> DEFINE ask == flag /\ frame.pre # 0
<1>1. AnnouncerTypes /\ StopIsNext /\ DispatchTypes /\ AskedSoFar
  BY DEF IndInv
<1>2. /\ Handles("pre") /\ Advance
      /\ Tell(ask, Play("tms", "pre"))
      /\ asked' = IF ask THEN [asked EXCEPT !["pre"] = @ + 1] ELSE asked
      /\ stage' = IF ask THEN "pre" ELSE stage
      /\ doors' = IF ask THEN DoorsOf(frame.side) ELSE doors
      /\ UNCHANGED <<flag, frame, backup, stopping, dir, station, prev, steady, sure, heard>>
  BY DEF PreTriggerSet, Count
<1>3. row = 7
  BY <1>1, <1>2, RowsOf, RowFacts
<1>4. row \in 1..(Last - 1) /\ row # 1 /\ row \notin 2..5 /\ "pre" \in Mp3Types /\ RowOf("pre") = 7
      /\ \A bd \in Mp3Types : row = RowOf(bd) <=> bd = "pre"
  BY <1>3 DEF Last, RowOf, Mp3Types
<1>5. AnnouncerTypes' /\ StopIsNext'
  <2>1. Play("tms", "pre") \in Requests /\ ask \in BOOLEAN
    BY RequestsMade DEF Rowed, Mp3Types
  <2> QED BY <1>1, <1>2, <2>1, TellKeeps
<1>6. asked["pre"] = 0
  BY <1>1, <1>3, <1>4 DEF AskedSoFar
<1>7. asked' \in [Mp3Types -> 0..1]
  BY <1>1, <1>2, <1>4, <1>6 DEF DispatchTypes
<1>8. \A bd \in Mp3Types :
        asked'[bd] = IF row = RowOf(bd) /\ flag /\ frame[bd] # 0 THEN asked[bd] + 1 ELSE asked[bd]
  BY <1>1, <1>2, <1>4 DEF DispatchTypes
<1>9. stage' \in Mp3Types \union {None} /\ doors' \subseteq {"left", "right"} /\ heard' \in Rowed \union {None}
  BY <1>1, <1>2, <1>4 DEF DispatchTypes, DoorsOf
<1>s. stopping' = None
  BY <1>1, <1>2, <1>3 DEF DispatchTypes
<1> QED BY <1>s, <1>2, <1>4, <1>5, <1>7, <1>8, <1>9, HandlerKeeps

LEMMA ArrKeeps == ASSUME IndInv, ArrTriggerSet PROVE IndInv'
<1> DEFINE ask == flag /\ frame.arr # 0
<1>1. AnnouncerTypes /\ StopIsNext /\ DispatchTypes /\ AskedSoFar
  BY DEF IndInv
<1>2. /\ Handles("arr") /\ Advance
      /\ Tell(ask, Play("tms", "arr"))
      /\ asked' = IF ask THEN [asked EXCEPT !["arr"] = @ + 1] ELSE asked
      /\ stage' = IF ask THEN "arr" ELSE stage
      /\ UNCHANGED <<flag, frame, backup, stopping, dir, station, doors, prev, steady, sure, heard>>
  BY DEF ArrTriggerSet, Count
<1>3. row = 8
  BY <1>1, <1>2, RowsOf, RowFacts
<1>4. row \in 1..(Last - 1) /\ row # 1 /\ row \notin 2..5 /\ "arr" \in Mp3Types /\ RowOf("arr") = 8
      /\ \A bd \in Mp3Types : row = RowOf(bd) <=> bd = "arr"
  BY <1>3 DEF Last, RowOf, Mp3Types
<1>5. AnnouncerTypes' /\ StopIsNext'
  <2>1. Play("tms", "arr") \in Requests /\ ask \in BOOLEAN
    BY RequestsMade DEF Rowed, Mp3Types
  <2> QED BY <1>1, <1>2, <2>1, TellKeeps
<1>6. asked["arr"] = 0
  BY <1>1, <1>3, <1>4 DEF AskedSoFar
<1>7. asked' \in [Mp3Types -> 0..1]
  BY <1>1, <1>2, <1>4, <1>6 DEF DispatchTypes
<1>8. \A bd \in Mp3Types :
        asked'[bd] = IF row = RowOf(bd) /\ flag /\ frame[bd] # 0 THEN asked[bd] + 1 ELSE asked[bd]
  BY <1>1, <1>2, <1>4 DEF DispatchTypes
<1>9. stage' \in Mp3Types \union {None} /\ doors' \subseteq {"left", "right"} /\ heard' \in Rowed \union {None}
  BY <1>1, <1>2, <1>4 DEF DispatchTypes
<1>s. stopping' = None
  BY <1>1, <1>2, <1>3 DEF DispatchTypes
<1> QED BY <1>s, <1>2, <1>4, <1>5, <1>7, <1>8, <1>9, HandlerKeeps

\* What the stop handler found current is kept for the step after.
LEMMA StopLookKeeps ==
  ASSUME IndInv, NEW h \in {"stopPre", "stopArr"}, NEW bd \in Mp3Types, StopLook(h, bd)
  PROVE  IndInv'
<1>1. AnnouncerTypes /\ StopIsNext /\ DispatchTypes /\ Rows
  BY DEF IndInv, Rows
<1>2. /\ Handles(h) /\ stopping' = bd
      /\ UNCHANGED <<announcer, flag, frame, backup, row, dir, station, stage, doors, prev, steady, sure, asked, heard>>
  BY DEF StopLook, local, history
<1>3. row \in {9, 10}
  <2>1. row \in 1..Last /\ TmsRows[row].handler = h
    BY <1>1, <1>2, RowsOf
  <2> QED BY <2>1, RowFacts
<1>4. DispatchTypes'
  BY <1>1, <1>2, <1>3 DEF DispatchTypes
<1>5. Rows'
  BY <1>1, <1>2 DEF Rows, RowFires, Fires, BackupIsPrev, AskedSoFar, Rising, StationsSoFar, DirectionSoFar
<1>6. AnnouncerTypes' /\ StopIsNext'
  BY <1>1, <1>2, AnnouncerStays
<1> QED BY <1>4, <1>5, <1>6 DEF IndInv, Rows

LEMMA StopPassKeeps ==
  ASSUME IndInv, NEW h \in {"stopPre", "stopArr"}, NEW bd \in Mp3Types, StopPass(h, bd)
  PROVE  IndInv'
<1>1. AnnouncerTypes /\ StopIsNext /\ DispatchTypes
  BY DEF IndInv
<1>2. /\ Handles(h) /\ Advance /\ stopping' = None
      /\ UNCHANGED <<announcer, flag, frame, backup, dir, station, stage, doors, prev, steady, sure, asked, heard>>
  BY DEF StopPass, local, history
<1>3. row \in {9, 10}
  <2>1. row \in 1..Last /\ TmsRows[row].handler = h
    BY <1>1, <1>2, RowsOf
  <2> QED BY <2>1, RowFacts
<1>4. row \in 6..(Last - 1) /\ row \notin {7, 8}
  BY <1>3 DEF Last
<1>5. AnnouncerTypes' /\ StopIsNext'
  BY <1>1, <1>2, AnnouncerStays
<1>6. heard' \in Rowed \union {None} /\ doors' \subseteq {"left", "right"}
  BY <1>1, <1>2 DEF DispatchTypes
<1> QED BY <1>2, <1>4, <1>5, <1>6, QuietKeeps

\* A stop that finds nothing waiting becomes the next request.
LEMMA StopSendKeeps == ASSUME IndInv, StopSend PROVE IndInv'
<1> DEFINE alone == inbox = << >> /\ job = Idle
<1>1. AnnouncerTypes /\ StopIsNext /\ DispatchTypes
  BY DEF IndInv
<1>2. /\ stopping # None /\ stopping' = None /\ Advance
      /\ Tell(TRUE, Stop("tms", stopping))
      /\ heard' = IF alone THEN type ELSE heard
      /\ UNCHANGED <<flag, frame, backup, dir, station, stage, doors, prev, steady, sure, asked>>
  BY DEF StopSend, local
<1>3. row \in {9, 10} /\ stopping \in Mp3Types
  BY <1>1, <1>2 DEF DispatchTypes
<1>4. row \in 6..(Last - 1) /\ row \notin {7, 8}
  BY <1>3 DEF Last
<1>5. /\ AnnouncerTypes' /\ (heard' = heard => StopIsNext')
      /\ (inbox = << >> => inbox' # << >> /\ Head(inbox') = Stop("tms", stopping))
      /\ UNCHANGED <<type, job>>
  <2>1. Stop("tms", stopping) \in Requests
    BY <1>3, RequestsMade DEF Rowed
  <2> QED BY <1>1, <1>2, <2>1, TellKeeps
<1>6. StopIsNext'
  <2>1. CASE alone
    <3>1. IsStop(Head(inbox'))
      BY <2>1, <1>3, <1>5 DEF IsStop
    <3> QED BY <2>1, <3>1, <1>2, <1>5 DEF StopIsNext
  <2>2. CASE ~alone
    BY <2>2, <1>2, <1>5
  <2> QED BY <2>1, <2>2
<1>7. heard' \in Rowed \union {None} /\ doors' \subseteq {"left", "right"}
  BY <1>1, <1>2 DEF DispatchTypes, AnnouncerTypes
<1> QED BY <1>2, <1>4, <1>5, <1>6, <1>7, QuietKeeps

LEMMA StopKeeps == ASSUME IndInv, StopTrigger PROVE IndInv'
<1>1. "pre" \in Mp3Types /\ "arr" \in Mp3Types
  BY DEF Mp3Types
<1> QED BY <1>1, StopLookKeeps, StopPassKeeps, StopSendKeeps DEF StopTrigger

LEMMA EmergencyKeeps == ASSUME IndInv, EmergencyTrigger PROVE IndInv'
<1> DEFINE ask  == flag /\ frame.trig # 0 /\ frame.code # 0
           stop == flag /\ frame.trig = 0 /\ type = "urgent"
           r    == IF ask THEN Play("tms", "urgent") ELSE Stop("tms", "urgent")
<1>1. AnnouncerTypes /\ StopIsNext /\ DispatchTypes
  BY DEF IndInv
<1>2. /\ Handles("urgent") /\ Advance /\ Tell(ask \/ stop, r)
      /\ UNCHANGED <<flag, frame, backup, stopping, dir, station, stage, doors, prev, steady, sure, asked, heard>>
  BY DEF EmergencyTrigger, local, history
<1>3. row = 11 /\ row \in 6..(Last - 1)
  BY <1>1, <1>2, RowsOf, RowFacts DEF Last
<1>4. AnnouncerTypes' /\ StopIsNext'
  <2>1. r \in Requests /\ (ask \/ stop) \in BOOLEAN
    BY RequestsMade
  <2> HIDE DEF ask, stop, r
  <2> QED BY <1>1, <1>2, <2>1, TellKeeps
<1>5. heard' \in Rowed \union {None} /\ doors' \subseteq {"left", "right"}
  BY <1>1, <1>2 DEF DispatchTypes
<1>s. stopping' = None
  BY <1>1, <1>2, <1>3 DEF DispatchTypes
<1> QED BY <1>s, <1>2, <1>3, <1>4, <1>5, QuietKeeps

LEMMA CycleKeeps == ASSUME IndInv, CycleTrigger PROVE IndInv'
<1> DEFINE r == IF frame.cyc # 0 THEN Play("tms", "urgent") ELSE Stop("tms", "urgent")
<1>1. AnnouncerTypes /\ StopIsNext /\ DispatchTypes
  BY DEF IndInv
<1>2. /\ Handles("cycle") /\ Advance /\ Tell(TRUE, r)
      /\ UNCHANGED <<flag, frame, backup, stopping, dir, station, stage, doors, prev, steady, sure, asked, heard>>
  BY DEF CycleTrigger, local, history
<1>3. row = 12 /\ row \in 6..(Last - 1)
  BY <1>1, <1>2, RowsOf, RowFacts DEF Last
<1>4. AnnouncerTypes' /\ StopIsNext'
  <2>1. r \in Requests
    BY RequestsMade
  <2> HIDE DEF r
  <2> QED BY <1>1, <1>2, <2>1, TellKeeps
<1>5. heard' \in Rowed \union {None} /\ doors' \subseteq {"left", "right"}
  BY <1>1, <1>2 DEF DispatchTypes
<1>s. stopping' = None
  BY <1>1, <1>2, <1>3 DEF DispatchTypes
<1> QED BY <1>s, <1>2, <1>3, <1>4, <1>5, QuietKeeps

LEMMA StoreKeeps == ASSUME IndInv, Store PROVE IndInv'
<1>1. AnnouncerTypes /\ StopIsNext /\ DispatchTypes /\ BackupIsPrev /\ AskedSoFar /\ StationsSoFar /\ DirectionSoFar
  BY DEF IndInv
<1>2. /\ Handles("store") /\ row' = 0
      /\ IF flag THEN \E len \in Lengths : backup' = Stored(frame, len) ELSE backup' = backup
      /\ steady' = IF ~flag THEN 0 ELSE IF steady < 2 THEN steady + 1 ELSE 2
      /\ asked' = IF steady' = 2 THEN asked ELSE Unasked
      /\ UNCHANGED <<announcer, flag, frame, stopping, dir, station, stage, doors, prev, sure, heard>>
  BY DEF Store, local
<1>3. row = 13
  BY <1>1, <1>2, RowsOf, RowFacts
<1>4. backup' \in Frame /\ (flag => SameTriggers(backup', frame)) /\ (~flag => backup' = backup)
  <2>1. frame \in Frame /\ backup \in Frame
    BY <1>1 DEF DispatchTypes
  <2>2. CASE flag
    <3>1. PICK len \in Lengths : backup' = Stored(frame, len)
      BY <1>2, <2>2
    <3> QED BY <2>1, <2>2, <3>1, StoredFields DEF SameTriggers, Mp3Types
  <2>3. CASE ~flag
    BY <1>2, <2>1, <2>3
  <2> QED BY <2>2, <2>3
<1>5. steady \in 0..2 /\ steady' \in 0..2 /\ (steady' >= 1 => flag) /\ (steady' = 2 => steady >= 1)
  BY <1>1, <1>2 DEF DispatchTypes
<1>6. DispatchTypes'
  <2>1. stopping' = None
    BY <1>1, <1>2, <1>3 DEF DispatchTypes
  <2>2. asked' \in [Mp3Types -> 0..1]
    BY <1>1, <1>2 DEF DispatchTypes, Unasked
  <2> QED BY <1>1, <1>2, <1>4, <1>5, <2>1, <2>2 DEF DispatchTypes, Last
<1>7. RowFires' /\ BackupIsPrev'
  BY <1>2, <1>4, <1>5 DEF RowFires, BackupIsPrev
<1>8. AskedSoFar'
  <2> SUFFICES ASSUME NEW bd \in Mp3Types
               PROVE  steady' = 2 => asked[bd] = IF Rising(bd) THEN 1 ELSE 0
    BY <1>2 DEF AskedSoFar, Rising, RowOf
  <2> QED BY <1>1, <1>3, <1>5 DEF AskedSoFar, RowOf
<1>9. StationsSoFar'
  BY <1>1, <1>2, <1>3, <1>5 DEF StationsSoFar
<1>10. DirectionSoFar'
  BY <1>1, <1>2, <1>3, <1>4 DEF DirectionSoFar, SameTriggers
<1>11. AnnouncerTypes' /\ StopIsNext'
  BY <1>1, <1>2, AnnouncerStays
<1> QED BY <1>6, <1>7, <1>8, <1>9, <1>10, <1>11 DEF IndInv

LEMMA HandlersKeep == ASSUME IndInv, Handler PROVE IndInv'
<1>1. "pre" \in Mp3Types /\ "arr" \in Mp3Types
  BY DEF Mp3Types
<1> QED
  BY <1>1, DirectionKeeps, StationKeeps, CloseDoorKeeps, PreKeeps, ArrKeeps, StopKeeps, EmergencyKeeps,
     CycleKeeps, StoreKeeps DEF Handler

-----------------------------------------------------------------------------
(* The rest of the controller, and the theorems.                           *)

LEMMA FollowKeeps == ASSUME IndInv, NEW f \in Frames, FollowMaster(f) PROVE IndInv'
<1> USE FramesAssumption
<1>1. AnnouncerTypes /\ StopIsNext /\ DispatchTypes /\ RowFires /\ BackupIsPrev /\ AskedSoFar
  BY DEF IndInv
<1>2. /\ row = 0 /\ ~flag /\ dir' = DirOf(f.dir) /\ station' = StationsOf(f) /\ sure' = FALSE
      /\ UNCHANGED <<announcer, flag, frame, backup, row, stopping, stage, doors, prev, steady, asked, heard>>
  BY DEF FollowMaster
<1>3. ~(steady >= 1) /\ steady \in 0..2
  BY <1>1, <1>2 DEF BackupIsPrev, DispatchTypes
<1>4. f \in Frame
  OBVIOUS
<1>5. StationsOf(f) \in Stations
  BY <1>4, WatchedFields DEF StationsOf, Stations, Frame
<1>6. DispatchTypes'
  BY <1>1, <1>2, <1>5 DEF DispatchTypes, DirOf, Directions
<1>7. Rows'
  BY <1>1, <1>2, <1>3 DEF Rows, RowFires, Fires, BackupIsPrev, AskedSoFar, Rising, StationsSoFar, DirectionSoFar
<1>8. AnnouncerTypes' /\ StopIsNext'
  BY <1>1, <1>2, AnnouncerStays
<1> QED BY <1>6, <1>7, <1>8 DEF IndInv, Rows

LEMMA RoleKeeps == ASSUME IndInv, Promote \/ Demote PROVE IndInv'
<1>1. AnnouncerTypes /\ StopIsNext /\ DispatchTypes /\ Rows
  BY DEF IndInv, Rows
<1>2. /\ flag' \in BOOLEAN /\ flag' # flag
      /\ steady' = (IF flag THEN 0 ELSE steady)
      /\ sure' = (sure /\ row = 0)
      /\ prev' = (IF flag THEN Reset ELSE prev)
      /\ UNCHANGED <<announcer, frame, backup, row, stopping, dir, station, stage, doors, asked, heard>>
  BY <1>1 DEF Promote, Demote, local, DispatchTypes
<1>3. DispatchTypes'
  <2>1. Reset \in Frame
    BY DEF Reset, Frame, Byte
  <2> QED BY <1>1, <1>2, <2>1 DEF DispatchTypes
<1>4. ~(steady' >= 1)
  BY <1>1, <1>2 DEF Rows, BackupIsPrev, DispatchTypes
<1>5. RowFires' /\ BackupIsPrev' /\ AskedSoFar' /\ StationsSoFar'
  <2>1. steady' # 2 BY <1>3, <1>4
  <2> QED BY <1>1, <1>2, <1>4, <2>1 DEF Rows, RowFires, Fires, BackupIsPrev, AskedSoFar, StationsSoFar
<1>6. DirectionSoFar'
  <2> SUFFICES ASSUME sure, row = 0 PROVE ~(row' > 1) /\ dir' = DirOf(backup'.dir)
    BY <1>2 DEF DirectionSoFar
  <2>1. ~(row > 1) /\ row' = row
    BY <1>2
  <2>2. dir = DirOf(backup.dir)
    BY <1>1, <2>1 DEF Rows, DirectionSoFar
  <2> QED BY <1>2, <2>1, <2>2
<1>7. AnnouncerTypes' /\ StopIsNext'
  BY <1>1, <1>2, AnnouncerStays
<1> QED BY <1>3, <1>5, <1>6, <1>7 DEF IndInv, Rows

LEMMA BroadcastKeeps == ASSUME IndInv, Broadcast(Work) \/ Broadcast(Over) PROVE IndInv'
<1>1. AnnouncerTypes /\ StopIsNext /\ DispatchTypes /\ Rows
  BY DEF IndInv, Rows
<1>2. /\ Work \/ Over
      /\ heard' = (IF type' # type THEN None ELSE heard)
      /\ UNCHANGED <<flag, frame, backup, row, stopping, dir, station, stage, doors, prev, steady, sure, asked>>
  BY DEF Broadcast, local
<1>3. AnnouncerTypes' /\ StopIsNext'
  BY <1>1, <1>2, WorkKeeps DEF DispatchTypes
<1>4. DispatchTypes'
  BY <1>1, <1>2 DEF DispatchTypes
<1>5. Rows'
  BY <1>1, <1>2 DEF Rows, RowFires, Fires, BackupIsPrev, AskedSoFar, Rising, StationsSoFar, DirectionSoFar
<1> QED BY <1>3, <1>4, <1>5 DEF IndInv, Rows

LEMMA InitInd == Init => IndInv
<1> SUFFICES ASSUME Init PROVE IndInv
  OBVIOUS
<1>1. /\ inbox = << >> /\ type = None /\ job = Idle /\ flag = FALSE /\ frame = Reset /\ backup = Reset /\ row = 0
      /\ stopping = None
      /\ dir = None /\ station = StationsOf(Reset) /\ stage = None /\ doors = {}
      /\ prev = Reset /\ steady = 0 /\ sure = FALSE /\ asked = Unasked /\ heard = None
  BY DEF Init, AnnouncerInit
<1>2. Reset \in Frame
  BY DEF Reset, Frame, Byte
<1>3. StationsOf(Reset) \in Stations
  BY <1>2, WatchedFields DEF StationsOf, Stations, Frame
<1>4. AnnouncerTypes
  BY <1>1, InboxAssumption DEF AnnouncerTypes, Idle
<1>5. DispatchTypes
  <2>1. Unasked \in [Mp3Types -> 0..1] /\ 0 \in 0..Last /\ 0 \in 0..2
    BY DEF Unasked, Last
  <2> QED BY <1>1, <1>2, <1>3, <2>1 DEF DispatchTypes, Directions
<1>6. Rows
  BY <1>1 DEF Rows, RowFires, BackupIsPrev, AskedSoFar, RowOf, StationsSoFar, DirectionSoFar
<1> QED BY <1>1, <1>4, <1>5, <1>6 DEF IndInv, Rows, StopIsNext

LEMMA NextInd == IndInv /\ [Next]_vars => IndInv'
<1> SUFFICES ASSUME IndInv, [Next]_vars PROVE IndInv'
  OBVIOUS
<1>1. CASE \E f \in Frames : Receive(f) \/ FollowMaster(f)
  BY <1>1, ReceiveKeeps, FollowKeeps
<1>2. CASE Handler
  BY <1>2, HandlersKeep
<1>3. CASE Promote \/ Demote
  BY <1>3, RoleKeeps
<1>4. CASE Broadcast(Work) \/ Broadcast(Over)
  BY <1>4, BroadcastKeeps
<1>5. CASE UNCHANGED vars
  BY <1>5 DEF vars, announcer, local, history, IndInv, AnnouncerTypes, DispatchTypes, RowFires, Fires,
     BackupIsPrev, AskedSoFar, Rising, StationsSoFar, DirectionSoFar, StopIsNext
<1> QED BY <1>1, <1>2, <1>3, <1>4, <1>5 DEF Next

\* What the rows have done of a frame at each of them, and what is next for the
\* broadcast thread.
THEOREM Invariance == Spec => []IndInv
BY InitInd, NextInd, PTL DEF Spec

\* Types, and that no handler asks twice for one frame.
THEOREM TypeCorrect == Spec => []TypeOK
<1>1. IndInv => TypeOK
  BY DEF IndInv, AnnouncerTypes, DispatchTypes, TypeOK
<1> QED BY <1>1, Invariance, PTL

\* For any frames: a rising trigger makes a settled master ask exactly once,
\* although it stores less than a whole frame.
THEOREM AskedOnce == Spec => []OncePerRise
<1>1. IndInv => OncePerRise
  BY DEF IndInv, AskedSoFar, Rising, OncePerRise
<1> QED BY <1>1, Invariance, PTL

\* For any frames, the stations of a settled master are those TMS sent last.
THEOREM StationsFollow == Spec => []StationsCurrent
<1>1. IndInv => StationsCurrent
  BY DEF IndInv, StationsSoFar, StationsCurrent
<1> QED BY <1>1, Invariance, PTL

\* ... and so is its direction, unless a change of role fell into a frame or the
\* other controller set it.
THEOREM DirectionFollows == Spec => []DirectionCurrent
<1>1. IndInv => DirectionCurrent
  <2> SUFFICES ASSUME IndInv, row = 0, steady >= 1, sure PROVE dir = DirOf(frame.dir)
    BY DEF DirectionCurrent
  <2>1. DispatchTypes /\ BackupIsPrev /\ DirectionSoFar
    BY DEF IndInv
  <2>3. backup.dir = frame.dir
    BY <2>1 DEF BackupIsPrev, SameTriggers
  <2> QED BY <2>1, <2>3 DEF DirectionSoFar
<1> QED BY <1>1, Invariance, PTL

\* For any length of the message pair, after a stop that nothing was waiting before
\* the broadcast thread takes up nothing else until what was current when it was
\* sent has ended, whether or not that is what the stop names.
THEOREM StopGoesFirst == Spec => []StopComesNext
<1>1. IndInv => StopComesNext
  BY DEF IndInv, StopIsNext, StopComesNext, IsStop, Stop, Idle, Tick
<1> QED BY <1>1, Invariance, PTL

\* All that the handlers send, and when, is within what the broadcast thread
\* takes: the announcer's part of every step is a step of its specification.
THEOREM UsesAnnouncer == Spec => AnnouncerSpec
<1>1. Init => AnnouncerInit
  BY DEF Init
<1>2. ASSUME NEW c \in BOOLEAN, NEW r \in Requests, Tell(c, r)
      PROVE  (\E q \in Requests : Ask(q)) \/ UNCHANGED announcer
  BY <1>2 DEF Tell, Post, Ask, announcer
<1>3. ASSUME TypeOK, [Next]_vars PROVE [(\E r \in Requests : Ask(r)) \/ AnnouncerNext]_announcer
  <2>1. CASE \E f \in Frames : Receive(f) \/ FollowMaster(f)
    BY <2>1 DEF Receive, FollowMaster
  <2>2. CASE Handler
    <3>1. CASE RunDirectionSet \/ StationInfoSet \/ CloseDoorStatusSet \/ Store
      BY <3>1 DEF RunDirectionSet, StationInfoSet, CloseDoorStatusSet, Store
    <3>2. CASE PreTriggerSet
      <4>1. Tell(flag /\ frame.pre # 0, Play("tms", "pre"))
        BY <3>2 DEF PreTriggerSet
      <4>2. Play("tms", "pre") \in Requests /\ (flag /\ frame.pre # 0) \in BOOLEAN
        BY RequestsMade DEF Rowed, Mp3Types
      <4> QED BY <4>1, <4>2, <1>2
    <3>3. CASE ArrTriggerSet
      <4>1. Tell(flag /\ frame.arr # 0, Play("tms", "arr"))
        BY <3>3 DEF ArrTriggerSet
      <4>2. Play("tms", "arr") \in Requests /\ (flag /\ frame.arr # 0) \in BOOLEAN
        BY RequestsMade DEF Rowed, Mp3Types
      <4> QED BY <4>1, <4>2, <1>2
    <3>4. CASE StopTrigger
      <4>1. CASE StopSend
        <5>1. Tell(TRUE, Stop("tms", stopping)) /\ stopping \in Mp3Types
          BY <1>3, <4>1 DEF StopSend, TypeOK
        <5>2. Stop("tms", stopping) \in Requests
          BY <5>1, RequestsMade DEF Rowed
        <5> QED BY <5>1, <5>2, <1>2
      <4>2. CASE ~StopSend
        BY <3>4, <4>2 DEF StopTrigger, StopLook, StopPass
      <4> QED BY <4>1, <4>2
    <3>5. CASE EmergencyTrigger
      <4> DEFINE ask  == flag /\ frame.trig # 0 /\ frame.code # 0
                 stop == flag /\ frame.trig = 0 /\ type = "urgent"
                 q    == IF ask THEN Play("tms", "urgent") ELSE Stop("tms", "urgent")
      <4>1. Tell(ask \/ stop, q)
        BY <3>5 DEF EmergencyTrigger
      <4>2. q \in Requests /\ (ask \/ stop) \in BOOLEAN
        BY RequestsMade
      <4> HIDE DEF ask, stop, q
      <4> QED BY <4>1, <4>2, <1>2
    <3>6. CASE CycleTrigger
      <4> DEFINE q == IF frame.cyc # 0 THEN Play("tms", "urgent") ELSE Stop("tms", "urgent")
      <4>1. Tell(TRUE, q)
        BY <3>6 DEF CycleTrigger
      <4>2. q \in Requests
        BY RequestsMade
      <4> HIDE DEF q
      <4> QED BY <4>1, <4>2, <1>2
    <3> QED BY <2>2, <3>1, <3>2, <3>3, <3>4, <3>5, <3>6 DEF Handler
  <2>3. CASE Promote \/ Demote
    BY <2>3 DEF Promote, Demote
  <2>4. CASE Broadcast(Work) \/ Broadcast(Over)
    BY <2>4 DEF Broadcast, AnnouncerNext
  <2>5. CASE UNCHANGED vars
    BY <2>5 DEF vars
  <2> QED BY <1>3, <2>1, <2>2, <2>3, <2>4, <2>5 DEF Next
<1> QED BY <1>1, <1>3, TypeCorrect, PTL DEF Spec, AnnouncerSpec

=============================================================================
