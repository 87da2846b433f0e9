----------------------------- MODULE Announcer -----------------------------
(***************************************************************************)
(* What the broadcast thread promises those who send it requests: it takes *)
(* them one at a time and in order, ends what is current before it begins  *)
(* anything else, and forgets an announcement whose audio is over.  How    *)
(* the decoder is stopped and started in between is in Mp3Broadcast, which *)
(* implements this specification.                                          *)
(***************************************************************************)
EXTENDS Naturals, Sequences

CONSTANT InboxMax  \* requests the message pair holds

ASSUME InboxAssumption == InboxMax \in Nat \ {0}

Mp3Types == {"pre", "arr"}
None == "none"

\* The types _gtBroadCastProcessList has a row for, of those requests can name.
Rowed == Mp3Types \union {"occ"}

Play(dev, bd) == [op |-> "play", dev |-> dev, bd |-> bd]
Stop(dev, bd) == [op |-> "stop", dev |-> dev, bd |-> bd]
Tick == [op |-> "timer", dev |-> "none", bd |-> None]
Idle == [op |-> "none", dev |-> "none", bd |-> None]

VARIABLES
  inbox,  \* requests not yet read
  type,   \* the current type, which the UDP thread reads without asking
  job     \* what the thread is busy with

announcer == <<inbox, type, job>>

AnnouncerInit == inbox = << >> /\ type = None /\ job = Idle

\* A message that finds the pair full is lost: its sender ignores the result.
Room == Len(inbox) < InboxMax

\* Fault: the pair has no limit.
PostRegardless(r) == inbox' = Append(inbox, r)

Post(r) == inbox' = IF Room THEN Append(inbox, r) ELSE inbox

Ask(r) == Room /\ Post(r) /\ UNCHANGED <<type, job>>

\* Fault: the latest request is served first.
ServeLast ==
  /\ job = Idle /\ inbox # << >>
  /\ inbox' = SubSeq(inbox, 1, Len(inbox) - 1)
  /\ LET r == inbox[Len(inbox)] IN
       \/ /\ r.op = "play" => r.bd \in Rowed
          /\ job' = r
       \/ r.op = "play" /\ UNCHANGED job
  /\ UNCHANGED type

\* The next request.  A play may be refused, for its priority, and is if its type
\* has no row.
Serve ==
  /\ job = Idle /\ inbox # << >>
  /\ inbox' = Tail(inbox)
  /\ LET r == Head(inbox) IN
       \/ /\ r.op = "play" => r.bd \in Rowed
          /\ job' = r
       \/ r.op = "play" /\ UNCHANGED job
  /\ UNCHANGED type

\* The one-second timer finds the audio of an announcement over.
Over ==
  /\ job = Idle /\ type \in Mp3Types
  /\ job' = Tick
  /\ UNCHANGED <<inbox, type>>

\* What is current ends; a stop for a type without a row touches nothing.
Clear ==
  /\ job # Idle /\ job.op # "begin"
  /\ type' = IF job.op = "stop" /\ job.bd \notin Rowed THEN type ELSE None
  /\ job' = IF job.op = "play" THEN [job EXCEPT !.op = "begin"] ELSE Idle
  /\ UNCHANGED inbox

Begin ==
  /\ job.op = "begin"
  /\ type' = job.bd
  /\ job' = Idle
  /\ UNCHANGED inbox

Work == Serve \/ Clear \/ Begin

\* Ending an announcement on request means to wait for its decoder, which is not
\* sure to end (MP3_Decoder_Stop); one whose audio is over has ended.
MayHang ==
  job.op \in {"play", "stop"} /\ (IF job.op = "stop" THEN job.bd ELSE type) \in Mp3Types

\* What the thread is sure to get on with.
Sure == Serve \/ (Clear /\ ~MayHang) \/ Begin

AnnouncerNext == Work \/ Over

Requests == [op : {"play", "stop"}, dev : {"tms", "pisc"},
             bd : Rowed \union {"urgent"}]

AnnouncerSpec ==
  AnnouncerInit /\ [][(\E r \in Requests : Ask(r)) \/ AnnouncerNext]_announcer
=============================================================================
