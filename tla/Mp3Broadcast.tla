---------------------------- MODULE Mp3Broadcast ----------------------------
(***************************************************************************)
(* The announcements of manage/broadcast.c and the decoder thread of       *)
(* manage/mp3_decoder.c.                                                   *)
(*                                                                         *)
(* The broadcast thread handles one message or timer tick at a time: play  *)
(* and stop requests, the audio clock (FEPAUDIO), which moves a chunk of   *)
(* decoded audio out of the ring buffer, and the one-second timer, which   *)
(* ends an announcement whose decoding is over.  The decoder thread opens  *)
(* the files of the list it was given and fills the ring.  The two share   *)
(* the list, its index, four flags and the ring; each flag is read and     *)
(* written under the mutex, one at a time, so every access below is a step *)
(* of its own.  `b' is where the broadcast thread stands, `d' the decoder. *)
(***************************************************************************)
EXTENDS Integers, Sequences

CONSTANTS
  Lists,       \* the playlists the rules produce: sequences of Files
  Priority,    \* u8BdPriority of a row, from the configuration file
  MaxPackets,  \* bound: audio packets in a file
  RingMax,     \* packets the ring buffer holds
  InboxMax     \* bound: requests waiting in the socket of the thread

\* A path that opens to audio, one to something the decoder cannot use, and one
\* that does not open.
Files == {"file", "broken", "missing"}

\* The rows of _gtBroadCastProcessList this build can be asked for, for one id.
Rows == ({"tms"} \X {"pre", "arr"}) \union ({"pisc"} \X {"occ", "pre", "arr"})
Mp3Types == {"pre", "arr"}
None == "none"

ASSUME ListsAssumption == Lists \subseteq Seq(Files) \ {<< >>}
ASSUME BoundAssumption ==
  MaxPackets \in Nat /\ RingMax \in Nat \ {0} /\ InboxMax \in Nat \ {0}
ASSUME PriorityAssumption == Priority \in [Rows -> 0..255]

VARIABLES
  inbox,    \* requests sent to the broadcast thread and not yet read
  type,     \* _gtBroadCastCurrent.u8BdType
  b,        \* broadcast thread: where it stands
  job,      \* ... and the request it is handling
  target,   \* ... and the type it is stopping
  list,     \* gtAudioChannel_Left.acFileList, up to its terminator
  index,    \* iCurFileIndex + 1
  eof,      \* iIsCurFileEOF
  isDec,    \* iIsDecoding
  run,      \* u8MP3DecoderRunFlag
  d,        \* decoder thread: where it stands
  opened,   \* the media file: open with its codec, closed, or only partly open
            \* (pFormatCtx is set, and the file cannot be used)
  left,     \* packets not yet decoded of the open file
  ring,     \* packets in the ring buffer
  raced,    \* history: a list was given to a decoder that was not asleep
  orphan    \* history: the OCC release ended a running announcement

flags     == <<eof, isDec, run>>
playlist  == <<list, index>>
audio     == <<opened, left, ring>>
history   == <<raced, orphan>>
broadcast == <<inbox, type, b, job, target>>
vars == <<broadcast, playlist, flags, d, audio, history>>

Play(dev, bd) == [op |-> "play", dev |-> dev, bd |-> bd]
Stop(dev, bd) == [op |-> "stop", dev |-> dev, bd |-> bd]
Tick == [op |-> "timer", dev |-> "none", bd |-> None]
Requests == {Play("pisc", "occ"), Stop("pisc", "occ")}
            \union {Play("tms", bd) : bd \in Mp3Types}
            \union {Stop("tms", bd) : bd \in Mp3Types}

-----------------------------------------------------------------------------
(* Requests: messages of the UDP and the key input threads.                *)

Send(r) ==
  /\ Len(inbox) < InboxMax
  /\ inbox' = Append(inbox, r)
  /\ UNCHANGED <<type, b, job, target, playlist, flags, d, audio, history>>

\* _TMS_PreBroadCast_TriggerSet and its like: any announcement may be asked
\* for; a stop is asked for when the UDP thread reads that type as current.
TmsPlay(bd) == Send(Play("tms", bd))
TmsStop(bd) == type = bd /\ Send(Stop("tms", bd))

\* OCC_OCCStatusSet: the key of the driver's microphone.
OccKey(op) == Send([op |-> op, dev |-> "pisc", bd |-> "occ"])

-----------------------------------------------------------------------------
(* Broadcast thread.                                                       *)

BGoto(place) == b' = place
Job(r, bd) == job' = r /\ target' = bd

\* BROADCAST_GetPriority
GetPriority(dev, bd) ==
  IF <<dev, bd>> \in Rows THEN Priority[<<dev, bd>>] ELSE 255

\* BROADCAST_Process, up to its decision: the request goes ahead if its row is
\* not less urgent than what GetPriority says of the current type, for the
\* device that asks.
Accepted(r) ==
  Priority[<<r.dev, r.bd>>] <= GetPriority(r.dev, type)

\* _BROADCAST_UDPNanomsgHandle: the next request.
Handle ==
  /\ b = "idle" /\ inbox # << >>
  /\ inbox' = Tail(inbox)
  /\ LET r == Head(inbox) IN
       \/ /\ r.op = "play" /\ Accepted(r)
          /\ Job(r, type) /\ BGoto("stop")
       \/ /\ r.op = "play" /\ ~Accepted(r)
          /\ UNCHANGED <<job, target, b>>
       \/ /\ r.op = "stop"
          /\ Job(r, r.bd) /\ BGoto("stop")
  /\ UNCHANGED <<type, playlist, flags, d, audio, history>>

\* BROADCAST_TimerOut_Process, where it acts: u8MP3DecodeFlag is that of the
\* current type's row and u8CycleFlag is never set.
Timer ==
  /\ b = "idle" /\ type \in Mp3Types /\ ~isDec
  /\ Job(Tick, type) /\ BGoto("stop")
  /\ UNCHANGED <<inbox, type, playlist, flags, d, audio, history>>

\* Fault: the chunk is taken without asking the ring for its length.
FepAudioBlind ==
  /\ b = "idle" /\ type \in Mp3Types
  /\ ring' = ring - 1
  /\ UNCHANGED <<broadcast, playlist, flags, d, opened, left, history>>

\* DIAS_AudioSend through _BROADCAST_AudioSyncSendHandle: one chunk of decoded
\* audio goes out, if the current type is an announcement.
FepAudio ==
  /\ b = "idle" /\ type \in Mp3Types /\ ring > 0
  /\ ring' = ring - 1
  /\ UNCHANGED <<broadcast, playlist, flags, d, opened, left, history>>

\* Fault: a stop leaves the decoder alone.
StopProcessSkips ==
  /\ b = "stop"
  /\ BGoto("end")
  /\ orphan' = (orphan \/ (target \notin Mp3Types \union {None} /\ type \in Mp3Types))
  /\ UNCHANGED <<inbox, type, job, target, playlist, flags, d, audio, raced>>

\* BROADCAST_StopProcess(target) into MP3_Decoder_Stop for an announcement (its
\* further rows of the same type find the decoder stopped already).
StopProcess ==
  /\ b = "stop"
  /\ BGoto(IF target \in Mp3Types /\ isDec THEN "clear" ELSE "end")
  /\ orphan' = (orphan \/ (target \notin Mp3Types \union {None} /\ type \in Mp3Types))
  /\ UNCHANGED <<inbox, type, job, target, playlist, flags, d, audio, raced>>

StopClear ==
  /\ b = "clear"
  /\ isDec' = FALSE /\ BGoto("wait")
  /\ UNCHANGED <<inbox, type, job, target, playlist, eof, run, d, audio, history>>

\* The loop that waits for the decoder, 10 ms at a time.
StopWait ==
  /\ b = "wait" /\ eof
  /\ BGoto("end")
  /\ UNCHANGED <<inbox, type, job, target, playlist, flags, d, audio, history>>

\* Fault: what was current stays current when a stop has ended it.
StopEndKeeps ==
  /\ b = "end"
  /\ UNCHANGED type
  /\ BGoto(IF job.op = "play" THEN "set" ELSE "idle")
  /\ Job(IF job.op = "play" THEN job ELSE Tick, None)
  /\ UNCHANGED <<inbox, playlist, flags, d, audio, history>>

\* The end of BROADCAST_StopProcess: its rows name the type it was called for.
StopEnd ==
  /\ b = "end"
  /\ type' = IF target = None THEN type ELSE None
  /\ BGoto(IF job.op = "play" THEN "set" ELSE "idle")
  /\ Job(IF job.op = "play" THEN job ELSE Tick, None)
  /\ UNCHANGED <<inbox, playlist, flags, d, audio, history>>

\* BROADCAST_SetBroadCastType, on the way to play.
SetType ==
  /\ b = "set"
  /\ type' = job.bd
  /\ BGoto(IF job.bd \in Mp3Types THEN "list" ELSE "idle")
  /\ Job(IF job.bd \in Mp3Types THEN job ELSE Tick, None)
  /\ UNCHANGED <<inbox, playlist, flags, d, audio, history>>

\* MP3_Decoder_SetDecodeList: the list, its index, and the two flags.
SetList ==
  /\ b = "list"
  /\ list' \in Lists
  /\ raced' = (raced \/ d # "asleep")
  /\ BGoto("index")
  /\ UNCHANGED <<inbox, type, job, target, index, flags, d, audio, orphan>>

\* Fault: the index of the list before is kept.
SetIndexForgotten ==
  /\ b = "index"
  /\ BGoto("eof")
  /\ UNCHANGED <<inbox, type, job, target, playlist, flags, d, audio, history>>

SetIndex ==
  /\ b = "index"
  /\ index' = 1
  /\ BGoto("eof")
  /\ UNCHANGED <<inbox, type, job, target, list, flags, d, audio, history>>

SetEof ==
  /\ b = "eof"
  /\ eof' = TRUE
  /\ BGoto("decode")
  /\ UNCHANGED <<inbox, type, job, target, playlist, isDec, run, d, audio, history>>

SetIsDecoding ==
  /\ b = "decode"
  /\ isDec' = TRUE
  /\ BGoto("start")
  /\ UNCHANGED <<inbox, type, job, target, playlist, eof, run, d, audio, history>>

\* MP3_Decoder_Set_RunFlag(DECODING) signals the condition the decoder waits for.
SetRunFlag ==
  /\ b = "start"
  /\ run' = TRUE
  /\ d' = IF d = "asleep" THEN "check" ELSE d
  /\ BGoto("idle") /\ Job(Tick, None)
  /\ UNCHANGED <<inbox, type, playlist, eof, isDec, audio, history>>

BroadcastStep ==
  \/ StopProcess \/ StopClear \/ StopWait \/ StopEnd \/ SetType
  \/ SetList \/ SetIndex \/ SetEof \/ SetIsDecoding \/ SetRunFlag

-----------------------------------------------------------------------------
(* Decoder thread, MP3_Decoder_Service_ThreadHandle.                       *)

DGoto(from, to) == d = from /\ d' = to

\* The entry of the list at the index: past its end the string is empty.
Entry == IF index <= Len(list) THEN list[index] ELSE ""

\* The top of the loop: wait once for the condition unless told to run.
DTop ==
  /\ DGoto("top", IF run THEN "check" ELSE "asleep")
  /\ UNCHANGED <<broadcast, playlist, flags, audio, history>>

\* Is there a file at the index?  Is the last one finished?
DCheck ==
  /\ DGoto("check", IF Entry = "" THEN "norun" ELSE "which")
  /\ UNCHANGED <<broadcast, playlist, flags, audio, history>>

DWhich ==
  /\ DGoto("which", IF eof THEN "open" ELSE "decode")
  /\ UNCHANGED <<broadcast, playlist, flags, audio, history>>

\* What opening the file at the index may come to.  A file whose streams or codec
\* are not to be had is left partly open, since nothing closes it then.  The next
\* file is opened over what was left: the library goes on with it or frees it,
\* and which it does is the library's affair.
Opens ==
  CASE opened # "closed"                       -> {"open", "partly", "closed"}
    [] opened = "closed" /\ Entry = "file"     -> {"open"}
    [] opened = "closed" /\ Entry = "broken"   -> {"partly"}
    [] opened = "closed" /\ Entry \notin {"file", "broken"} -> {"closed"}

\* _MP3_Decoder_AVCodecInit opens the file at the index, or fails.
DOpen ==
  /\ opened' \in Opens
  /\ left' \in IF opened' = "open" THEN 0..MaxPackets ELSE {0}
  /\ DGoto("open", IF opened' = "open" THEN "begin" ELSE "next")
  /\ UNCHANGED <<broadcast, playlist, flags, ring, history>>

\* Fault: the end-of-file flag is not cleared for the new file.
DBeginForgotten ==
  /\ DGoto("begin", "top")
  /\ UNCHANGED <<broadcast, playlist, flags, audio, history>>

DBegin ==
  /\ DGoto("begin", "top")
  /\ eof' = FALSE
  /\ UNCHANGED <<broadcast, playlist, isDec, run, audio, history>>

\* A file that cannot be opened is skipped; after the last one decoding ends.
DNext ==
  /\ DGoto("next", "last")
  /\ index' = index + 1
  /\ UNCHANGED <<broadcast, list, flags, audio, history>>

DLast ==
  /\ DGoto("last", IF Entry = "" THEN "nodec" ELSE "top")
  /\ UNCHANGED <<broadcast, playlist, flags, audio, history>>

\* _MP3_Decoder_AVCodec_Decode: a packet into the ring, dropped if it is full,
\* or the end of the file.
DDecode ==
  /\ IF left > 0
     THEN /\ left' = left - 1
          /\ ring' = IF ring < RingMax THEN ring + 1 ELSE ring
          /\ DGoto("decode", "more")
     ELSE /\ DGoto("decode", "done")
          /\ UNCHANGED <<left, ring>>
  /\ UNCHANGED <<broadcast, playlist, flags, opened, history>>

\* What it returned becomes the end-of-file flag.
DSetEof ==
  /\ \/ DGoto("more", "over") /\ eof' = FALSE
     \/ DGoto("done", "over") /\ eof' = TRUE
  /\ UNCHANGED <<broadcast, playlist, isDec, run, audio, history>>

\* Over?  By the end of the file, or by a stop.
DOver ==
  /\ DGoto("over", IF eof THEN "close" ELSE "stopped")
  /\ UNCHANGED <<broadcast, playlist, flags, audio, history>>

DStopped ==
  /\ DGoto("stopped", IF isDec THEN "top" ELSE "close")
  /\ UNCHANGED <<broadcast, playlist, flags, audio, history>>

DClose ==
  /\ DGoto("close", "drain")
  /\ opened' = "closed" /\ left' = 0
  /\ UNCHANGED <<broadcast, playlist, flags, ring, history>>

\* Fault: the decoder does not wait for its audio to be sent.
DDrainHasty ==
  /\ DGoto("drain", "noeof")
  /\ UNCHANGED <<broadcast, playlist, flags, audio, history>>

\* The loop that waits until the ring is empty, 100 ms at a time.
DDrain ==
  /\ ring = 0
  /\ DGoto("drain", "noeof")
  /\ UNCHANGED <<broadcast, playlist, flags, audio, history>>

DEndEof ==
  /\ DGoto("noeof", "nodec")
  /\ eof' = TRUE
  /\ UNCHANGED <<broadcast, playlist, isDec, run, audio, history>>

\* Fault: decoding is never reported over.
DEndDecodingForgotten ==
  /\ DGoto("nodec", "norun")
  /\ UNCHANGED <<broadcast, playlist, flags, audio, history>>

DEndDecoding ==
  /\ DGoto("nodec", "norun")
  /\ isDec' = FALSE
  /\ UNCHANGED <<broadcast, playlist, eof, run, audio, history>>

DEndRun ==
  /\ DGoto("norun", "top")
  /\ run' = FALSE
  /\ UNCHANGED <<broadcast, playlist, eof, isDec, audio, history>>

DecoderStep ==
  \/ DTop \/ DCheck \/ DWhich \/ DOpen \/ DBegin \/ DNext \/ DLast
  \/ DDecode \/ DSetEof \/ DOver \/ DStopped \/ DClose \/ DDrain
  \/ DEndEof \/ DEndDecoding \/ DEndRun

-----------------------------------------------------------------------------
Init ==
  /\ inbox = << >> /\ type = None
  /\ b = "idle" /\ job = Tick /\ target = None
  /\ list = << >> /\ index = 1 /\ eof = TRUE
  /\ isDec = FALSE /\ run = FALSE
  /\ d = "top" /\ opened = "closed" /\ left = 0 /\ ring = 0
  /\ raced = FALSE /\ orphan = FALSE

Next ==
  \/ \E bd \in Mp3Types : TmsPlay(bd) \/ TmsStop(bd)
  \/ \E op \in {"play", "stop"} : OccKey(op)
  \/ Handle \/ Timer \/ FepAudio
  \/ BroadcastStep
  \/ DecoderStep

Spec == Init /\ [][Next]_vars

\* Both threads run.  Messages of the audio clock keep coming and the timer
\* restarts itself; both are served in turn when the broadcast thread is back in
\* its event loop, which other requests may keep busy in between.
FairSpec ==
  /\ Spec
  /\ WF_vars(BroadcastStep) /\ WF_vars(DecoderStep)
  /\ SF_vars(FepAudio) /\ SF_vars(Timer)

-----------------------------------------------------------------------------
(* Properties.                                                             *)

\* Every variable stays in its domain; in particular the ring never gives more
\* than it holds.
TypeOK ==
  /\ inbox \in Seq(Requests) /\ Len(inbox) <= InboxMax
  /\ type \in Mp3Types \union {"occ", None}
  /\ b \in {"idle", "stop", "clear", "wait", "end", "set",
            "list", "index", "eof", "decode", "start"}
  /\ job \in Requests \union {Tick}
  /\ target \in Mp3Types \union {"occ", None}
  /\ list \in Lists \union {<< >>} /\ index \in Nat \ {0}
  /\ eof \in BOOLEAN /\ isDec \in BOOLEAN /\ run \in BOOLEAN
  /\ d \in {"top", "asleep", "check", "which", "open", "begin", "next", "last",
            "decode", "more", "done", "over", "stopped", "close", "drain",
            "noeof", "nodec", "norun"}
  /\ opened \in {"closed", "partly", "open"} /\ left \in 0..MaxPackets /\ ring \in 0..RingMax
  /\ raced \in BOOLEAN /\ orphan \in BOOLEAN

\* As long as every list is given to a sleeping decoder (what the second of
\* sleep, now commented out, was for), the end-of-file flag and the file stay in
\* step, through files that fail and audio that waits: the decoder never opens a
\* file over one that is open and in use, and never decodes from one that is not.
\* (Over one left partly open it does: Opens.)
FilesInStep ==
  ~raced => /\ d = "open" => opened # "open"
            /\ d = "decode" => opened = "open"

\* Under the same condition a decoder that went to sleep has no file in use and
\* left no audio of the last announcement to be heard in the next one, whether its
\* files were played or failed.  What it may leave is a file partly open.
NothingLeftBehind ==
  ~raced /\ d = "asleep" => opened # "open" /\ ring = 0 /\ eof

\* Under the same condition the index never passes the terminator of the list it
\* belongs to, though it is counted up long after the list was looked at and a
\* longer list may have been there before: no name of an older one is opened.
IndexInList == ~raced /\ d # "asleep" => index <= Len(list) + 1

\* When the broadcast thread is back in its loop and no announcement is current,
\* the decoder has been told to stop.  The one way round it is the release of
\* the OCC key, which clears the current type whatever it is.
StopSilences ==
  b = "idle" /\ type \notin Mp3Types => ~isDec \/ orphan

\* An announcement that no request stops or replaces ends by itself: its files
\* are decoded or skipped, its audio is sent, and the timer clears it; unless a
\* list was given to a decoder that was awake.
AnnouncementEnds ==
  type \in Mp3Types /\ b = "idle" ~>
    type \notin Mp3Types \/ (b = "stop" /\ job # Tick) \/ raced

(* The invariant behind the proofs, one part for each place where the two    *)
(* threads depend on each other.                                           *)

\* What a handler of the broadcast thread still owes to its request.
JobInStep ==
  /\ b \in {"stop", "clear", "wait", "end"} =>
       target = IF job.op = "stop" THEN job.bd ELSE type
  /\ b \in {"stop", "clear", "wait", "end"} /\ job.op = "timer" => type # None
  /\ b \in {"clear", "wait"} => target \in Mp3Types
  /\ b \in {"set", "list", "index", "eof", "decode", "start"} => job.op = "play"
  /\ b = "set" => type = None
  /\ b \in {"list", "index", "eof", "decode", "start"} => type \in Mp3Types

\* No decoding without an announcement, wherever the broadcast thread stands.
SilentWithout ==
  /\ type \notin Mp3Types => ~isDec \/ orphan
  /\ b \in {"wait", "end"} /\ target \in Mp3Types => ~isDec
  /\ b = "end" /\ target \notin Mp3Types \union {None} /\ type \in Mp3Types => orphan

\* While no list reached a waking decoder: which file is open, what the flags and
\* the ring say of it, at every place of the decoder thread.
DecoderInStep ==
  ~raced =>
    /\ b \in {"index", "eof", "decode", "start"} => d = "asleep"
    /\ d \in {"which", "open"} \/ opened = "open" => Entry # ""
    /\ d \in {"top", "check", "which"} => (opened = "open" <=> ~eof)
    /\ d \in {"asleep", "open", "next", "last", "nodec", "norun"} => opened # "open" /\ eof
    /\ d \in {"begin", "decode", "more", "done", "over", "stopped", "close"} => opened = "open"
    /\ d \in {"decode", "more", "done", "stopped"} => ~eof
    /\ d \in {"drain", "noeof"} => opened # "open"
    /\ opened # "open" /\ d # "drain" => ring = 0
    /\ d \notin {"top", "asleep"} \/ opened = "open" => run

IndInv == TypeOK /\ JobInStep /\ SilentWithout /\ DecoderInStep

\* What the broadcast thread is busy with, as those who send requests see it: the
\* playlist and the flags are its own affair.
Doing ==
  CASE b \in {"stop", "clear", "wait", "end"} -> job
    [] b = "set" -> [job EXCEPT !.op = "begin"]
    [] OTHER     -> [op |-> "none", dev |-> "none", bd |-> None]

A == INSTANCE Announcer WITH job <- Doing

\* Requests are served one at a time and in order, an announcement ends before
\* another begins, and only a request, a stop or the end of its audio ends it:
\* broadcast.c and mp3_decoder.c together implement Announcer.
ImplementsAnnouncer == A!AnnouncerSpec

-----------------------------------------------------------------------------
(* What the comments of the code say, and the code does not do.            *)

\* mp3_decoder.c:415, "wait for it to close": a stop returns, since the decoder
\* sees it and ends.
StopReturns == b = "wait" ~> b # "wait"

\* broadcast.c:270, "start the playback thread": after it the decoder comes to
\* open a file of the announcement, unless a request stops or replaces it.
StartPlays == b = "start" ~> d = "open" \/ (b = "stop" /\ job # Tick)

\* broadcast.c:217, "the priority of the current broadcast" is what a request is
\* compared with: what is current gives way only to a request whose row is at
\* least as urgent as its own.  (TMS asks for announcements, PISC for OCC.)
Owner(bd) == IF bd = "occ" THEN "pisc" ELSE "tms"
UrgentGoesFirst ==
  [][ Handle /\ Head(inbox).op = "play" /\ b' = "stop" /\ type # None =>
        Priority[<<Head(inbox).dev, Head(inbox).bd>>]
          <= Priority[<<Owner(type), type>>] ]_vars

=============================================================================
