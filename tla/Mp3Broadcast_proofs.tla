------------------------ MODULE Mp3Broadcast_proofs ------------------------
(***************************************************************************)
(* Proofs about Mp3Broadcast, for every set of playlists, every priority,  *)
(* every length of a file and every size of ring and inbox.  IndInv is     *)
(* proved part by part, one step per action; the refinement of Announcer   *)
(* rests on its part JobInStep.                                            *)
(***************************************************************************)
EXTENDS Mp3Broadcast, TLAPS

USE DEF Mp3Types, None, Tick

\* What a request is made of.
LEMMA RequestShape ==
  ASSUME NEW r \in Requests
  PROVE  /\ r.op \in {"play", "stop"} /\ r.bd \in Mp3Types \union {"occ"}
         /\ r \in A!Requests
         /\ r # Tick
BY DEF Requests, Play, Stop, A!Requests, A!Rowed, A!Mp3Types

LEMMA RequestsSent ==
  /\ \A bd \in Mp3Types : Play("tms", bd) \in Requests /\ Stop("tms", bd) \in Requests
  /\ \A op \in {"play", "stop"} :
       [op |-> op, dev |-> "pisc", bd |-> "occ"] \in Requests
BY DEF Requests, Play, Stop

\* Every step is one of the actions below.
LEMMA NextCases ==
  ASSUME Next
  PROVE  \/ \E r \in Requests : Send(r)
         \/ Handle \/ Timer \/ FepAudio \/ StopProcess \/ StopClear
         \/ StopWait \/ StopEnd \/ SetType \/ SetList \/ SetIndex \/ SetEof
         \/ SetIsDecoding \/ SetRunFlag \/ DTop \/ DCheck \/ DWhich \/ DOpen
         \/ DBegin \/ DNext \/ DLast \/ DDecode \/ DSetEof \/ DOver
         \/ DStopped \/ DClose \/ DDrain \/ DEndEof \/ DEndDecoding
         \/ DEndRun
<1>1. ASSUME NEW bd \in Mp3Types, TmsPlay(bd) \/ TmsStop(bd)
      PROVE  \E r \in Requests : Send(r)
  BY <1>1, RequestsSent DEF TmsPlay, TmsStop
<1>2. ASSUME NEW op \in {"play", "stop"}, OccKey(op)
      PROVE  \E r \in Requests : Send(r)
  BY <1>2, RequestsSent DEF OccKey
<1> QED  BY <1>1, <1>2 DEF Next, BroadcastStep, DecoderStep

\* The domains, one group of variables at a time.
BroadcastType ==
  /\ inbox \in Seq(Requests) /\ Len(inbox) <= InboxMax
  /\ type \in Mp3Types \union {"occ", None}
  /\ job \in Requests \union {Tick}
  /\ target \in Mp3Types \union {"occ", None}

PlaceType ==
  /\ b \in {"idle", "stop", "clear", "wait", "end", "set",
            "list", "index", "eof", "decode", "start"}
  /\ d \in {"top", "asleep", "check", "which", "open", "begin", "next", "last",
            "decode", "more", "done", "over", "stopped", "close", "drain",
            "noeof", "nodec", "norun"}

DecoderType ==
  /\ list \in Lists \union {<< >>} /\ index \in Nat \ {0}
  /\ eof \in BOOLEAN /\ isDec \in BOOLEAN /\ run \in BOOLEAN
  /\ opened \in {"closed", "partly", "open"} /\ left \in 0..MaxPackets /\ ring \in 0..RingMax
  /\ raced \in BOOLEAN /\ orphan \in BOOLEAN

LEMMA TypeParts == TypeOK <=> BroadcastType /\ PlaceType /\ DecoderType
BY DEF TypeOK, BroadcastType, PlaceType, DecoderType

\* The requests, the current type and the job.
LEMMA BroadcastTypeStep ==
  ASSUME BroadcastType, PlaceType, DecoderType, [Next]_vars
  PROVE  BroadcastType'
<1> USE BoundAssumption, ListsAssumption
    DEF BoundAssumption, ListsAssumption, BroadcastType
<1>1. CASE UNCHANGED vars
  BY <1>1 DEF vars, broadcast, playlist, flags, audio, history
<1>2. ASSUME NEW r \in Requests, Send(r)
      PROVE  BroadcastType'
  BY <1>2 DEF Send, playlist, flags, audio, history
<1>3. CASE Handle
  <2>1. Head(inbox) \in Requests /\ Tail(inbox) \in Seq(Requests)
        /\ Len(Tail(inbox)) <= InboxMax
    BY <1>3 DEF Handle
  <2>2. Head(inbox).bd \in Mp3Types \union {"occ"}
    BY <2>1, RequestShape
  <2> QED
    BY <1>3, <2>1, <2>2 DEF Handle, BGoto, Job
<1>4. CASE Timer
  BY <1>4 DEF Timer, BGoto, Job, DGoto, broadcast, playlist, flags, audio, history
<1>5. CASE FepAudio
  BY <1>5 DEF FepAudio, BGoto, Job, DGoto, broadcast, playlist, flags, audio, history
<1>6. CASE StopProcess
  BY <1>6 DEF StopProcess, BGoto, Job, DGoto, broadcast, playlist, flags, audio, history
<1>7. CASE StopClear
  BY <1>7 DEF StopClear, BGoto, Job, DGoto, broadcast, playlist, flags, audio, history
<1>8. CASE StopWait
  BY <1>8 DEF StopWait, BGoto, Job, DGoto, broadcast, playlist, flags, audio, history
<1>9. CASE StopEnd
  BY <1>9 DEF StopEnd, BGoto, Job, DGoto, broadcast, playlist, flags, audio, history
<1>10. CASE SetType
  <2>1. job \in Requests => job.bd \in Mp3Types \union {"occ"}
    BY RequestShape
  <2> QED
    BY <1>10, <2>1 DEF SetType, BGoto, Job
<1>11. CASE SetList
  BY <1>11 DEF SetList, BGoto, Job, DGoto, broadcast, playlist, flags, audio, history
<1>12. CASE SetIndex
  BY <1>12 DEF SetIndex, BGoto, Job, DGoto, broadcast, playlist, flags, audio, history
<1>13. CASE SetEof
  BY <1>13 DEF SetEof, BGoto, Job, DGoto, broadcast, playlist, flags, audio, history
<1>14. CASE SetIsDecoding
  BY <1>14 DEF SetIsDecoding, BGoto, Job, DGoto, broadcast, playlist, flags, audio, history
<1>15. CASE SetRunFlag
  BY <1>15 DEF SetRunFlag, BGoto, Job, DGoto, broadcast, playlist, flags, audio, history
<1>16. CASE DTop
  BY <1>16 DEF DTop, BGoto, Job, DGoto, broadcast, playlist, flags, audio, history
<1>17. CASE DCheck
  BY <1>17 DEF DCheck, BGoto, Job, DGoto, broadcast, playlist, flags, audio, history
<1>18. CASE DWhich
  BY <1>18 DEF DWhich, BGoto, Job, DGoto, broadcast, playlist, flags, audio, history
<1>19. CASE DOpen
  BY <1>19 DEF DOpen, BGoto, Job, DGoto, broadcast, playlist, flags, audio, history
<1>20. CASE DBegin
  BY <1>20 DEF DBegin, BGoto, Job, DGoto, broadcast, playlist, flags, audio, history
<1>21. CASE DNext
  BY <1>21 DEF DNext, BGoto, Job, DGoto, broadcast, playlist, flags, audio, history
<1>22. CASE DLast
  BY <1>22 DEF DLast, BGoto, Job, DGoto, broadcast, playlist, flags, audio, history
<1>23. CASE DDecode
  BY <1>23 DEF DDecode, BGoto, Job, DGoto, broadcast, playlist, flags, audio, history
<1>24. CASE DSetEof
  BY <1>24 DEF DSetEof, BGoto, Job, DGoto, broadcast, playlist, flags, audio, history
<1>25. CASE DOver
  BY <1>25 DEF DOver, BGoto, Job, DGoto, broadcast, playlist, flags, audio, history
<1>26. CASE DStopped
  BY <1>26 DEF DStopped, BGoto, Job, DGoto, broadcast, playlist, flags, audio, history
<1>27. CASE DClose
  BY <1>27 DEF DClose, BGoto, Job, DGoto, broadcast, playlist, flags, audio, history
<1>28. CASE DDrain
  BY <1>28 DEF DDrain, BGoto, Job, DGoto, broadcast, playlist, flags, audio, history
<1>29. CASE DEndEof
  BY <1>29 DEF DEndEof, BGoto, Job, DGoto, broadcast, playlist, flags, audio, history
<1>30. CASE DEndDecoding
  BY <1>30 DEF DEndDecoding, BGoto, Job, DGoto, broadcast, playlist, flags, audio, history
<1>31. CASE DEndRun
  BY <1>31 DEF DEndRun, BGoto, Job, DGoto, broadcast, playlist, flags, audio, history
<1> QED
  BY NextCases, <1>1, <1>2, <1>3, <1>4, <1>5, <1>6, <1>7, <1>8, <1>9, <1>10,
     <1>11, <1>12, <1>13, <1>14, <1>15, <1>16, <1>17, <1>18, <1>19, <1>20,
     <1>21, <1>22, <1>23, <1>24, <1>25, <1>26, <1>27, <1>28, <1>29, <1>30,
     <1>31

\* The places of the two threads.
LEMMA PlaceTypeStep ==
  ASSUME BroadcastType, PlaceType, DecoderType, [Next]_vars
  PROVE  PlaceType'
<1> USE BoundAssumption, ListsAssumption
    DEF BoundAssumption, ListsAssumption, PlaceType
<1>1. CASE UNCHANGED vars
  BY <1>1 DEF vars, broadcast, playlist, flags, audio, history
<1>2. ASSUME NEW r \in Requests, Send(r)
      PROVE  PlaceType'
  BY <1>2 DEF Send, playlist, flags, audio, history
<1>3. CASE Handle
  BY <1>3 DEF Handle, BGoto, Job, DGoto, broadcast, playlist, flags, audio, history
<1>4. CASE Timer
  BY <1>4 DEF Timer, BGoto, Job, DGoto, broadcast, playlist, flags, audio, history
<1>5. CASE FepAudio
  BY <1>5 DEF FepAudio, BGoto, Job, DGoto, broadcast, playlist, flags, audio, history
<1>6. CASE StopProcess
  BY <1>6 DEF StopProcess, BGoto, Job, DGoto, broadcast, playlist, flags, audio, history
<1>7. CASE StopClear
  BY <1>7 DEF StopClear, BGoto, Job, DGoto, broadcast, playlist, flags, audio, history
<1>8. CASE StopWait
  BY <1>8 DEF StopWait, BGoto, Job, DGoto, broadcast, playlist, flags, audio, history
<1>9. CASE StopEnd
  BY <1>9 DEF StopEnd, BGoto, Job, DGoto, broadcast, playlist, flags, audio, history
<1>10. CASE SetType
  BY <1>10 DEF SetType, BGoto, Job, DGoto, broadcast, playlist, flags, audio, history
<1>11. CASE SetList
  BY <1>11 DEF SetList, BGoto, Job, DGoto, broadcast, playlist, flags, audio, history
<1>12. CASE SetIndex
  BY <1>12 DEF SetIndex, BGoto, Job, DGoto, broadcast, playlist, flags, audio, history
<1>13. CASE SetEof
  BY <1>13 DEF SetEof, BGoto, Job, DGoto, broadcast, playlist, flags, audio, history
<1>14. CASE SetIsDecoding
  BY <1>14 DEF SetIsDecoding, BGoto, Job, DGoto, broadcast, playlist, flags, audio, history
<1>15. CASE SetRunFlag
  BY <1>15 DEF SetRunFlag, BGoto, Job, DGoto, broadcast, playlist, flags, audio, history
<1>16. CASE DTop
  BY <1>16 DEF DTop, BGoto, Job, DGoto, broadcast, playlist, flags, audio, history
<1>17. CASE DCheck
  BY <1>17 DEF DCheck, BGoto, Job, DGoto, broadcast, playlist, flags, audio, history
<1>18. CASE DWhich
  BY <1>18 DEF DWhich, BGoto, Job, DGoto, broadcast, playlist, flags, audio, history
<1>19. CASE DOpen
  BY <1>19 DEF DOpen, BGoto, Job, DGoto, broadcast, playlist, flags, audio, history
<1>20. CASE DBegin
  BY <1>20 DEF DBegin, BGoto, Job, DGoto, broadcast, playlist, flags, audio, history
<1>21. CASE DNext
  BY <1>21 DEF DNext, BGoto, Job, DGoto, broadcast, playlist, flags, audio, history
<1>22. CASE DLast
  BY <1>22 DEF DLast, BGoto, Job, DGoto, broadcast, playlist, flags, audio, history
<1>23. CASE DDecode
  BY <1>23 DEF DDecode, BGoto, Job, DGoto, broadcast, playlist, flags, audio, history
<1>24. CASE DSetEof
  BY <1>24 DEF DSetEof, BGoto, Job, DGoto, broadcast, playlist, flags, audio, history
<1>25. CASE DOver
  BY <1>25 DEF DOver, BGoto, Job, DGoto, broadcast, playlist, flags, audio, history
<1>26. CASE DStopped
  BY <1>26 DEF DStopped, BGoto, Job, DGoto, broadcast, playlist, flags, audio, history
<1>27. CASE DClose
  BY <1>27 DEF DClose, BGoto, Job, DGoto, broadcast, playlist, flags, audio, history
<1>28. CASE DDrain
  BY <1>28 DEF DDrain, BGoto, Job, DGoto, broadcast, playlist, flags, audio, history
<1>29. CASE DEndEof
  BY <1>29 DEF DEndEof, BGoto, Job, DGoto, broadcast, playlist, flags, audio, history
<1>30. CASE DEndDecoding
  BY <1>30 DEF DEndDecoding, BGoto, Job, DGoto, broadcast, playlist, flags, audio, history
<1>31. CASE DEndRun
  BY <1>31 DEF DEndRun, BGoto, Job, DGoto, broadcast, playlist, flags, audio, history
<1> QED
  BY NextCases, <1>1, <1>2, <1>3, <1>4, <1>5, <1>6, <1>7, <1>8, <1>9, <1>10,
     <1>11, <1>12, <1>13, <1>14, <1>15, <1>16, <1>17, <1>18, <1>19, <1>20,
     <1>21, <1>22, <1>23, <1>24, <1>25, <1>26, <1>27, <1>28, <1>29, <1>30,
     <1>31

\* The playlist, the flags and the audio.
LEMMA DecoderTypeStep ==
  ASSUME BroadcastType, PlaceType, DecoderType, [Next]_vars
  PROVE  DecoderType'
<1> USE BoundAssumption, ListsAssumption
    DEF BoundAssumption, ListsAssumption, DecoderType, DecoderType
<1>1. CASE UNCHANGED vars
  BY <1>1 DEF vars, broadcast, playlist, flags, audio, history
<1>2. ASSUME NEW r \in Requests, Send(r)
      PROVE  DecoderType'
  BY <1>2 DEF Send, playlist, flags, audio, history
<1>3. CASE Handle
  BY <1>3 DEF Handle, BGoto, Job, DGoto, broadcast, playlist, flags, audio, history
<1>4. CASE Timer
  BY <1>4 DEF Timer, BGoto, Job, DGoto, broadcast, playlist, flags, audio, history
<1>5. CASE FepAudio
  BY <1>5 DEF FepAudio, BGoto, Job, DGoto, broadcast, playlist, flags, audio, history
<1>6. CASE StopProcess
  BY <1>6 DEF StopProcess, BGoto, Job, DGoto, broadcast, playlist, flags, audio, history
<1>7. CASE StopClear
  BY <1>7 DEF StopClear, BGoto, Job, DGoto, broadcast, playlist, flags, audio, history
<1>8. CASE StopWait
  BY <1>8 DEF StopWait, BGoto, Job, DGoto, broadcast, playlist, flags, audio, history
<1>9. CASE StopEnd
  BY <1>9 DEF StopEnd, BGoto, Job, DGoto, broadcast, playlist, flags, audio, history
<1>10. CASE SetType
  BY <1>10 DEF SetType, BGoto, Job, DGoto, broadcast, playlist, flags, audio, history
<1>11. CASE SetList
  BY <1>11 DEF SetList, BGoto, Job, DGoto, broadcast, playlist, flags, audio, history
<1>12. CASE SetIndex
  BY <1>12 DEF SetIndex, BGoto, Job, DGoto, broadcast, playlist, flags, audio, history
<1>13. CASE SetEof
  BY <1>13 DEF SetEof, BGoto, Job, DGoto, broadcast, playlist, flags, audio, history
<1>14. CASE SetIsDecoding
  BY <1>14 DEF SetIsDecoding, BGoto, Job, DGoto, broadcast, playlist, flags, audio, history
<1>15. CASE SetRunFlag
  BY <1>15 DEF SetRunFlag, BGoto, Job, DGoto, broadcast, playlist, flags, audio, history
<1>16. CASE DTop
  BY <1>16 DEF DTop, BGoto, Job, DGoto, broadcast, playlist, flags, audio, history
<1>17. CASE DCheck
  BY <1>17 DEF DCheck, BGoto, Job, DGoto, broadcast, playlist, flags, audio, history
<1>18. CASE DWhich
  BY <1>18 DEF DWhich, BGoto, Job, DGoto, broadcast, playlist, flags, audio, history
<1>19. CASE DOpen
  <2>1. opened' \in {"closed", "partly", "open"}
    BY <1>19 DEF DOpen, Opens
  <2>2. left' \in 0..MaxPackets
    BY <1>19 DEF DOpen
  <2> QED
    BY <1>19, <2>1, <2>2 DEF DOpen, broadcast, playlist, flags, history
<1>20. CASE DBegin
  BY <1>20 DEF DBegin, BGoto, Job, DGoto, broadcast, playlist, flags, audio, history
<1>21. CASE DNext
  BY <1>21 DEF DNext, BGoto, Job, DGoto, broadcast, playlist, flags, audio, history
<1>22. CASE DLast
  BY <1>22 DEF DLast, BGoto, Job, DGoto, broadcast, playlist, flags, audio, history
<1>23. CASE DDecode
  BY <1>23 DEF DDecode, BGoto, Job, DGoto, broadcast, playlist, flags, audio, history
<1>24. CASE DSetEof
  BY <1>24 DEF DSetEof, BGoto, Job, DGoto, broadcast, playlist, flags, audio, history
<1>25. CASE DOver
  BY <1>25 DEF DOver, BGoto, Job, DGoto, broadcast, playlist, flags, audio, history
<1>26. CASE DStopped
  BY <1>26 DEF DStopped, BGoto, Job, DGoto, broadcast, playlist, flags, audio, history
<1>27. CASE DClose
  <2>1. left' = 0 /\ opened' = "closed"
    BY <1>27 DEF DClose
  <2>2. left' \in 0..MaxPackets
    BY <2>1
  <2> QED
    BY <1>27, <2>1, <2>2 DEF DClose, playlist, flags, history
<1>28. CASE DDrain
  BY <1>28 DEF DDrain, BGoto, Job, DGoto, broadcast, playlist, flags, audio, history
<1>29. CASE DEndEof
  BY <1>29 DEF DEndEof, BGoto, Job, DGoto, broadcast, playlist, flags, audio, history
<1>30. CASE DEndDecoding
  BY <1>30 DEF DEndDecoding, BGoto, Job, DGoto, broadcast, playlist, flags, audio, history
<1>31. CASE DEndRun
  BY <1>31 DEF DEndRun, BGoto, Job, DGoto, broadcast, playlist, flags, audio, history
<1> QED
  BY NextCases, <1>1, <1>2, <1>3, <1>4, <1>5, <1>6, <1>7, <1>8, <1>9, <1>10,
     <1>11, <1>12, <1>13, <1>14, <1>15, <1>16, <1>17, <1>18, <1>19, <1>20,
     <1>21, <1>22, <1>23, <1>24, <1>25, <1>26, <1>27, <1>28, <1>29, <1>30,
     <1>31

\* The ring holds a number of packets.
LEMMA RingCounts == TypeOK => ring \in Nat /\ (ring > 0 => ring # 0)
<1> SUFFICES ASSUME TypeOK PROVE ring \in Nat
  OBVIOUS
<1>1. ring \in 0..RingMax
  BY DEF TypeOK
<1> QED
  BY <1>1, BoundAssumption DEF BoundAssumption

\* Every action keeps every variable in its domain.
LEMMA TypeStep == TypeOK /\ [Next]_vars => TypeOK'
<1>1. TypeOK' <=> BroadcastType' /\ PlaceType' /\ DecoderType'
  BY DEF TypeOK, BroadcastType, PlaceType, DecoderType
<1> QED
  BY <1>1, TypeParts, BroadcastTypeStep, PlaceTypeStep, DecoderTypeStep

\* A handler of the broadcast thread stays in step with its request.
LEMMA JobStep ==
  ASSUME TypeOK, JobInStep, [Next]_vars
  PROVE  JobInStep'
<1> USE DEF TypeOK, JobInStep
<1>1. CASE UNCHANGED vars
  BY <1>1 DEF vars, broadcast, playlist, flags, audio, history
<1>2. ASSUME NEW r \in Requests, Send(r)
      PROVE  JobInStep'
  BY <1>2 DEF Send, playlist, flags, audio, history
<1>3. CASE Handle
  <2>1. Head(inbox) \in Requests
    BY <1>3 DEF Handle
  <2>2. Head(inbox).op \in {"play", "stop"}
    BY <2>1, RequestShape
  <2> QED
    BY <1>3, <2>2 DEF Handle, BGoto, Job
<1>4. CASE Timer
  BY <1>4 DEF Timer, BGoto, Job, DGoto, broadcast, playlist, flags, audio, history
<1>5. CASE FepAudio
  BY <1>5 DEF FepAudio, BGoto, Job, DGoto, broadcast, playlist, flags, audio, history
<1>6. CASE StopProcess
  BY <1>6 DEF StopProcess, BGoto, Job, DGoto, broadcast, playlist, flags, audio, history
<1>7. CASE StopClear
  BY <1>7 DEF StopClear, BGoto, Job, DGoto, broadcast, playlist, flags, audio, history
<1>8. CASE StopWait
  BY <1>8 DEF StopWait, BGoto, Job, DGoto, broadcast, playlist, flags, audio, history
<1>9. CASE StopEnd
  <2>1. job \in Requests => job.op \in {"play", "stop"} /\ job.bd # None
    BY RequestShape
  <2> QED
    BY <1>9, <2>1 DEF StopEnd, BGoto, Job
<1>10. CASE SetType
  <2>1. job \in Requests => job.op \in {"play", "stop"}
    BY RequestShape
  <2> QED
    BY <1>10, <2>1 DEF SetType, BGoto, Job
<1>11. CASE SetList
  BY <1>11 DEF SetList, BGoto, Job, DGoto, broadcast, playlist, flags, audio, history
<1>12. CASE SetIndex
  BY <1>12 DEF SetIndex, BGoto, Job, DGoto, broadcast, playlist, flags, audio, history
<1>13. CASE SetEof
  BY <1>13 DEF SetEof, BGoto, Job, DGoto, broadcast, playlist, flags, audio, history
<1>14. CASE SetIsDecoding
  BY <1>14 DEF SetIsDecoding, BGoto, Job, DGoto, broadcast, playlist, flags, audio, history
<1>15. CASE SetRunFlag
  BY <1>15 DEF SetRunFlag, BGoto, Job, DGoto, broadcast, playlist, flags, audio, history
<1>16. CASE DTop
  BY <1>16 DEF DTop, BGoto, Job, DGoto, broadcast, playlist, flags, audio, history
<1>17. CASE DCheck
  BY <1>17 DEF DCheck, BGoto, Job, DGoto, broadcast, playlist, flags, audio, history
<1>18. CASE DWhich
  BY <1>18 DEF DWhich, BGoto, Job, DGoto, broadcast, playlist, flags, audio, history
<1>19. CASE DOpen
  BY <1>19 DEF DOpen, BGoto, Job, DGoto, broadcast, playlist, flags, audio, history
<1>20. CASE DBegin
  BY <1>20 DEF DBegin, BGoto, Job, DGoto, broadcast, playlist, flags, audio, history
<1>21. CASE DNext
  BY <1>21 DEF DNext, BGoto, Job, DGoto, broadcast, playlist, flags, audio, history
<1>22. CASE DLast
  BY <1>22 DEF DLast, BGoto, Job, DGoto, broadcast, playlist, flags, audio, history
<1>23. CASE DDecode
  BY <1>23 DEF DDecode, BGoto, Job, DGoto, broadcast, playlist, flags, audio, history
<1>24. CASE DSetEof
  BY <1>24 DEF DSetEof, BGoto, Job, DGoto, broadcast, playlist, flags, audio, history
<1>25. CASE DOver
  BY <1>25 DEF DOver, BGoto, Job, DGoto, broadcast, playlist, flags, audio, history
<1>26. CASE DStopped
  BY <1>26 DEF DStopped, BGoto, Job, DGoto, broadcast, playlist, flags, audio, history
<1>27. CASE DClose
  BY <1>27 DEF DClose, BGoto, Job, DGoto, broadcast, playlist, flags, audio, history
<1>28. CASE DDrain
  BY <1>28 DEF DDrain, BGoto, Job, DGoto, broadcast, playlist, flags, audio, history
<1>29. CASE DEndEof
  BY <1>29 DEF DEndEof, BGoto, Job, DGoto, broadcast, playlist, flags, audio, history
<1>30. CASE DEndDecoding
  BY <1>30 DEF DEndDecoding, BGoto, Job, DGoto, broadcast, playlist, flags, audio, history
<1>31. CASE DEndRun
  BY <1>31 DEF DEndRun, BGoto, Job, DGoto, broadcast, playlist, flags, audio, history
<1> QED
  BY NextCases, <1>1, <1>2, <1>3, <1>4, <1>5, <1>6, <1>7, <1>8, <1>9, <1>10,
     <1>11, <1>12, <1>13, <1>14, <1>15, <1>16, <1>17, <1>18, <1>19, <1>20,
     <1>21, <1>22, <1>23, <1>24, <1>25, <1>26, <1>27, <1>28, <1>29, <1>30,
     <1>31

\* No action leaves the decoder on without an announcement.
LEMMA SilenceStep ==
  ASSUME TypeOK, JobInStep, SilentWithout, [Next]_vars
  PROVE  SilentWithout'
<1> USE DEF TypeOK, JobInStep, SilentWithout
<1>1. CASE UNCHANGED vars
  BY <1>1 DEF vars, broadcast, playlist, flags, audio, history
<1>2. ASSUME NEW r \in Requests, Send(r)
      PROVE  SilentWithout'
  BY <1>2 DEF Send, playlist, flags, audio, history
<1>3. CASE Handle
  BY <1>3 DEF Handle, BGoto, Job, DGoto, broadcast, playlist, flags, audio, history
<1>4. CASE Timer
  BY <1>4 DEF Timer, BGoto, Job, DGoto, broadcast, playlist, flags, audio, history
<1>5. CASE FepAudio
  BY <1>5 DEF FepAudio, BGoto, Job, DGoto, broadcast, playlist, flags, audio, history
<1>6. CASE StopProcess
  BY <1>6 DEF StopProcess, BGoto, Job, DGoto, broadcast, playlist, flags, audio, history
<1>7. CASE StopClear
  BY <1>7 DEF StopClear, BGoto, Job, DGoto, broadcast, playlist, flags, audio, history
<1>8. CASE StopWait
  BY <1>8 DEF StopWait, BGoto, Job, DGoto, broadcast, playlist, flags, audio, history
<1>9. CASE StopEnd
  <2>1. job \in Requests => job.op \in {"play", "stop"} /\ job.bd # None
    BY RequestShape
  <2> QED
    BY <1>9, <2>1 DEF StopEnd, BGoto, Job, flags, history
<1>10. CASE SetType
  BY <1>10 DEF SetType, BGoto, Job, DGoto, broadcast, playlist, flags, audio, history
<1>11. CASE SetList
  BY <1>11 DEF SetList, BGoto, Job, DGoto, broadcast, playlist, flags, audio, history
<1>12. CASE SetIndex
  BY <1>12 DEF SetIndex, BGoto, Job, DGoto, broadcast, playlist, flags, audio, history
<1>13. CASE SetEof
  BY <1>13 DEF SetEof, BGoto, Job, DGoto, broadcast, playlist, flags, audio, history
<1>14. CASE SetIsDecoding
  BY <1>14 DEF SetIsDecoding, BGoto, Job, DGoto, broadcast, playlist, flags, audio, history
<1>15. CASE SetRunFlag
  BY <1>15 DEF SetRunFlag, BGoto, Job, DGoto, broadcast, playlist, flags, audio, history
<1>16. CASE DTop
  BY <1>16 DEF DTop, BGoto, Job, DGoto, broadcast, playlist, flags, audio, history
<1>17. CASE DCheck
  BY <1>17 DEF DCheck, BGoto, Job, DGoto, broadcast, playlist, flags, audio, history
<1>18. CASE DWhich
  BY <1>18 DEF DWhich, BGoto, Job, DGoto, broadcast, playlist, flags, audio, history
<1>19. CASE DOpen
  BY <1>19 DEF DOpen, BGoto, Job, DGoto, broadcast, playlist, flags, audio, history
<1>20. CASE DBegin
  BY <1>20 DEF DBegin, BGoto, Job, DGoto, broadcast, playlist, flags, audio, history
<1>21. CASE DNext
  BY <1>21 DEF DNext, BGoto, Job, DGoto, broadcast, playlist, flags, audio, history
<1>22. CASE DLast
  BY <1>22 DEF DLast, BGoto, Job, DGoto, broadcast, playlist, flags, audio, history
<1>23. CASE DDecode
  BY <1>23 DEF DDecode, BGoto, Job, DGoto, broadcast, playlist, flags, audio, history
<1>24. CASE DSetEof
  BY <1>24 DEF DSetEof, BGoto, Job, DGoto, broadcast, playlist, flags, audio, history
<1>25. CASE DOver
  BY <1>25 DEF DOver, BGoto, Job, DGoto, broadcast, playlist, flags, audio, history
<1>26. CASE DStopped
  BY <1>26 DEF DStopped, BGoto, Job, DGoto, broadcast, playlist, flags, audio, history
<1>27. CASE DClose
  BY <1>27 DEF DClose, BGoto, Job, DGoto, broadcast, playlist, flags, audio, history
<1>28. CASE DDrain
  BY <1>28 DEF DDrain, BGoto, Job, DGoto, broadcast, playlist, flags, audio, history
<1>29. CASE DEndEof
  BY <1>29 DEF DEndEof, BGoto, Job, DGoto, broadcast, playlist, flags, audio, history
<1>30. CASE DEndDecoding
  BY <1>30 DEF DEndDecoding, BGoto, Job, DGoto, broadcast, playlist, flags, audio, history
<1>31. CASE DEndRun
  BY <1>31 DEF DEndRun, BGoto, Job, DGoto, broadcast, playlist, flags, audio, history
<1> QED
  BY NextCases, <1>1, <1>2, <1>3, <1>4, <1>5, <1>6, <1>7, <1>8, <1>9, <1>10,
     <1>11, <1>12, <1>13, <1>14, <1>15, <1>16, <1>17, <1>18, <1>19, <1>20,
     <1>21, <1>22, <1>23, <1>24, <1>25, <1>26, <1>27, <1>28, <1>29, <1>30,
     <1>31

\* Flags, file and ring stay in step with the decoder's place.
LEMMA DecoderStepInv ==
  ASSUME TypeOK, JobInStep, DecoderInStep, [Next]_vars
  PROVE  DecoderInStep'
<1> USE DEF TypeOK, DecoderInStep, Entry
<1>1. CASE UNCHANGED vars
  BY <1>1 DEF vars, broadcast, playlist, flags, audio, history
<1>2. ASSUME NEW r \in Requests, Send(r)
      PROVE  DecoderInStep'
  BY <1>2 DEF Send, playlist, flags, audio, history
<1>3. CASE Handle
  BY <1>3 DEF Handle, BGoto, Job, DGoto, broadcast, playlist, flags, audio, history
<1>4. CASE Timer
  BY <1>4 DEF Timer, BGoto, Job, DGoto, broadcast, playlist, flags, audio, history
<1>5. CASE FepAudio
  <2>1. ring > 0
    BY <1>5 DEF FepAudio
  <2>2. ring # 0
    BY <2>1, RingCounts
  <2>3. raced \/ opened = "open" \/ d = "drain"
    BY <2>2
  <2> QED
    BY <1>5, <2>3 DEF FepAudio, broadcast, playlist, flags, history
<1>6. CASE StopProcess
  BY <1>6 DEF StopProcess, BGoto, Job, DGoto, broadcast, playlist, flags, audio, history
<1>7. CASE StopClear
  BY <1>7 DEF StopClear, BGoto, Job, DGoto, broadcast, playlist, flags, audio, history
<1>8. CASE StopWait
  BY <1>8 DEF StopWait, BGoto, Job, DGoto, broadcast, playlist, flags, audio, history
<1>9. CASE StopEnd
  BY <1>9 DEF StopEnd, BGoto, Job, DGoto, broadcast, playlist, flags, audio, history
<1>10. CASE SetType
  BY <1>10 DEF SetType, BGoto, Job, DGoto, broadcast, playlist, flags, audio, history
<1>11. CASE SetList
  BY <1>11 DEF SetList, BGoto, Job, DGoto, broadcast, playlist, flags, audio, history
<1>12. CASE SetIndex
  BY <1>12 DEF SetIndex, BGoto, Job, DGoto, broadcast, playlist, flags, audio, history
<1>13. CASE SetEof
  BY <1>13 DEF SetEof, BGoto, Job, DGoto, broadcast, playlist, flags, audio, history
<1>14. CASE SetIsDecoding
  BY <1>14 DEF SetIsDecoding, BGoto, Job, DGoto, broadcast, playlist, flags, audio, history
<1>15. CASE SetRunFlag
  BY <1>15 DEF SetRunFlag, BGoto, Job, DGoto, broadcast, playlist, flags, audio, history
<1>16. CASE DTop
  BY <1>16 DEF DTop, BGoto, Job, DGoto, broadcast, playlist, flags, audio, history
<1>17. CASE DCheck
  BY <1>17 DEF DCheck, BGoto, Job, DGoto, broadcast, playlist, flags, audio, history
<1>18. CASE DWhich
  BY <1>18 DEF DWhich, BGoto, Job, DGoto, broadcast, playlist, flags, audio, history
<1>19. CASE DOpen
  <2>1. opened' \in {"closed", "partly", "open"}
    BY <1>19 DEF DOpen, Opens
  <2>2. d = "open" /\ d' = IF opened' = "open" THEN "begin" ELSE "next"
    BY <1>19 DEF DOpen, DGoto
  <2>3. UNCHANGED <<broadcast, playlist, flags, ring, raced>>
    BY <1>19 DEF DOpen, history
  <2> QED
    BY <2>1, <2>2, <2>3 DEF broadcast, playlist, flags
<1>20. CASE DBegin
  BY <1>20 DEF DBegin, BGoto, Job, DGoto, broadcast, playlist, flags, audio, history
<1>21. CASE DNext
  BY <1>21 DEF DNext, BGoto, Job, DGoto, broadcast, playlist, flags, audio, history
<1>22. CASE DLast
  BY <1>22 DEF DLast, BGoto, Job, DGoto, broadcast, playlist, flags, audio, history
<1>23. CASE DDecode
  BY <1>23 DEF DDecode, BGoto, Job, DGoto, broadcast, playlist, flags, audio, history
<1>24. CASE DSetEof
  BY <1>24 DEF DSetEof, BGoto, Job, DGoto, broadcast, playlist, flags, audio, history
<1>25. CASE DOver
  BY <1>25 DEF DOver, BGoto, Job, DGoto, broadcast, playlist, flags, audio, history
<1>26. CASE DStopped
  BY <1>26 DEF DStopped, BGoto, Job, DGoto, broadcast, playlist, flags, audio, history
<1>27. CASE DClose
  BY <1>27 DEF DClose, BGoto, Job, DGoto, broadcast, playlist, flags, audio, history
<1>28. CASE DDrain
  BY <1>28 DEF DDrain, BGoto, Job, DGoto, broadcast, playlist, flags, audio, history
<1>29. CASE DEndEof
  BY <1>29 DEF DEndEof, BGoto, Job, DGoto, broadcast, playlist, flags, audio, history
<1>30. CASE DEndDecoding
  BY <1>30 DEF DEndDecoding, BGoto, Job, DGoto, broadcast, playlist, flags, audio, history
<1>31. CASE DEndRun
  BY <1>31 DEF DEndRun, BGoto, Job, DGoto, broadcast, playlist, flags, audio, history
<1> QED
  BY NextCases, <1>1, <1>2, <1>3, <1>4, <1>5, <1>6, <1>7, <1>8, <1>9, <1>10,
     <1>11, <1>12, <1>13, <1>14, <1>15, <1>16, <1>17, <1>18, <1>19, <1>20,
     <1>21, <1>22, <1>23, <1>24, <1>25, <1>26, <1>27, <1>28, <1>29, <1>30,
     <1>31

-----------------------------------------------------------------------------
(* The index.  It is looked at before a file is opened and counted up      *)
(* after, and what may lie between the two is a new list: given to a       *)
(* decoder that is asleep, with an index of its own before it is woken.    *)

Opening == {"which", "open", "next"}

IndexInStep ==
  ~raced =>
    /\ d # "asleep" \/ b \in {"eof", "decode", "start"} => index <= Len(list) + 1
    /\ d \in Opening => index <= Len(list)

LEMMA IndexStep ==
  ASSUME IndInv, IndexInStep, [Next]_vars
  PROVE  IndexInStep'
<1> DEFINE n == Len(list)
<1>1. index \in Nat \ {0} /\ n \in Nat /\ Len(list') \in Nat
  <2>1. index \in Nat \ {0} /\ list \in Seq(Files) /\ list' \in Seq(Files)
    <3>1. TypeOK /\ TypeOK'
      BY TypeStep DEF IndInv
    <3>2. index \in Nat \ {0} /\ list \in Lists \union {<< >>} /\ list' \in Lists \union {<< >>}
      BY <3>1 DEF TypeOK
    <3>3. << >> \in Seq(Files)
      OBVIOUS
    <3> QED  BY <3>2, <3>3, ListsAssumption, Zenon DEF ListsAssumption
  <2> QED  BY <2>1
<1>2. PlaceType
  BY TypeParts DEF IndInv
<1>3. ASSUME UNCHANGED <<playlist, raced>>,
             d' # "asleep" \/ b' \in {"eof", "decode", "start"} =>
               d # "asleep" \/ b \in {"eof", "decode", "start"},
             d' \in Opening => d \in Opening
      PROVE  IndexInStep'
  BY <1>3 DEF IndexInStep, playlist
<1>4. CASE UNCHANGED vars
  BY <1>3, <1>4 DEF vars, broadcast, history
<1>5. CASE \/ (\E r \in Requests : Send(r)) \/ Handle \/ Timer \/ FepAudio
          \/ StopProcess \/ StopClear \/ StopWait \/ StopEnd \/ SetType
  BY <1>3, <1>5 DEF Send, Handle, Timer, FepAudio, StopProcess, StopClear, StopWait, StopEnd,
                    SetType, BGoto, broadcast, history
<1>6. CASE SetList
  \* From here to the next index the decoder is asleep, or the list raced it.
  <2>1. d = "asleep" \/ raced'
    BY <1>6 DEF SetList
  <2> QED  BY <1>6, <2>1 DEF SetList, BGoto, IndexInStep, Opening
<1>7. CASE SetIndex
  <2>1. raced \/ d = "asleep"
    BY <1>7 DEF SetIndex, IndInv, DecoderInStep
  <2>2. index' = 1 /\ index' <= Len(list') + 1
    BY <1>1, <1>7 DEF SetIndex
  <2> QED  BY <1>7, <2>1, <2>2 DEF SetIndex, IndexInStep, Opening, history
<1>8. CASE SetEof \/ SetIsDecoding
  BY <1>3, <1>8 DEF SetEof, SetIsDecoding, BGoto, history
<1>9. CASE SetRunFlag
  <2>1. raced \/ d = "asleep"
    BY <1>9 DEF SetRunFlag, IndInv, DecoderInStep
  <2> QED  BY <1>9, <2>1 DEF SetRunFlag, BGoto, IndexInStep, Opening, playlist, history
<1>10. CASE DCheck
  <2>1. d = "check" /\ UNCHANGED <<playlist, raced>>
        /\ d' = IF Entry = "" THEN "norun" ELSE "which"
    BY <1>10 DEF DCheck, DGoto, history
  <2>2. Entry # "" => index <= n
    BY DEF Entry
  <2> QED  BY <2>1, <2>2 DEF IndexInStep, Opening, playlist
<1>11. CASE DNext
  <2>1. d = "next" /\ d' = "last" /\ list' = list /\ index' = index + 1 /\ raced' = raced
    BY <1>11 DEF DNext, DGoto, history
  <2>2. ~raced => index <= n
    BY <2>1 DEF IndexInStep, Opening
  <2>3. ~raced => index' <= Len(list') + 1
    BY <1>1, <2>1, <2>2
  <2> QED  BY <2>1, <2>3 DEF IndexInStep, Opening
<1>12. CASE DTop \/ DWhich \/ DOpen \/ DBegin \/ DLast \/ DDecode \/ DSetEof \/ DOver
           \/ DStopped \/ DClose \/ DDrain \/ DEndEof \/ DEndDecoding \/ DEndRun
  BY <1>3, <1>12
     DEF DTop, DWhich, DOpen, DBegin, DLast, DDecode, DSetEof, DOver, DStopped, DClose, DDrain,
         DEndEof, DEndDecoding, DEndRun, DGoto, broadcast, history, Opening
<1> QED
  BY NextCases, <1>4, <1>5, <1>6, <1>7, <1>8, <1>9, <1>10, <1>11, <1>12

-----------------------------------------------------------------------------
LEMMA InitInv == Init => IndInv
<1> SUFFICES ASSUME Init PROVE IndInv
  OBVIOUS
<1>1. BroadcastType
  BY BoundAssumption DEF Init, BroadcastType, BoundAssumption
<1>2. PlaceType
  BY DEF Init, PlaceType
<1>3. DecoderType
  <2>1. 0 \in 0..MaxPackets /\ 0 \in 0..RingMax
    BY BoundAssumption DEF BoundAssumption
  <2>2. list = << >> /\ index \in Nat \ {0} /\ left \in 0..MaxPackets /\ ring \in 0..RingMax
    BY <2>1 DEF Init
  <2>3. /\ eof \in BOOLEAN /\ isDec \in BOOLEAN /\ run \in BOOLEAN
        /\ opened \in {"closed", "partly", "open"} /\ raced \in BOOLEAN /\ orphan \in BOOLEAN
    BY DEF Init
  <2> QED
    BY <2>2, <2>3 DEF DecoderType
<1>4. JobInStep /\ SilentWithout
  BY DEF Init, JobInStep, SilentWithout
<1>5. DecoderInStep
  BY DEF Init, DecoderInStep
<1> QED  BY <1>1, <1>2, <1>3, <1>4, <1>5, TypeParts DEF IndInv

LEMMA StepInv == IndInv /\ [Next]_vars => IndInv'
BY TypeStep, JobStep, SilenceStep, DecoderStepInv DEF IndInv

\* The two threads stay in step: the inductive invariant.
THEOREM Invariance == Spec => []IndInv
BY InitInv, StepInv, PTL DEF Spec

\* Every variable stays in its domain.
THEOREM TypeCorrect == Spec => []TypeOK
BY Invariance, PTL DEF IndInv

\* The decoder never opens a file over one in use and never decodes from one that
\* is not, whatever files fail to open and however far they come, as long as every
\* list is given to a sleeping decoder.
THEOREM FilesStayInStep == Spec => []FilesInStep
<1>1. IndInv => FilesInStep
  BY DEF IndInv, DecoderInStep, FilesInStep
<1> QED  BY <1>1, Invariance, PTL

\* A decoder that went to sleep left no file in use and no audio behind; a file
\* partly open it may have left.
THEOREM SleepIsClean == Spec => []NothingLeftBehind
<1>1. IndInv => NothingLeftBehind
  BY DEF IndInv, DecoderInStep, NothingLeftBehind
<1> QED  BY <1>1, Invariance, PTL

\* Without a current announcement the decoder has been told to stop.
THEOREM StopsAreSilent == Spec => []StopSilences
<1>1. IndInv => StopSilences
  BY DEF IndInv, SilentWithout, StopSilences
<1> QED  BY <1>1, Invariance, PTL

\* For every list the rules produce, the index of a waking decoder is never past
\* the terminator of the list in place, unless a list reached it awake.
THEOREM IndexStaysInList == Spec => []IndexInList
<1>1. Init => IndexInStep
  BY DEF Init, IndexInStep, Opening
<1>2. IndInv /\ IndexInStep /\ [Next]_vars => IndexInStep'
  BY IndexStep
<1>3. IndexInStep => IndexInList
  BY DEF IndexInStep, IndexInList
<1> QED  BY <1>1, <1>2, <1>3, Invariance, PTL DEF Spec

-----------------------------------------------------------------------------
(***************************************************************************)
(* The refinement of Announcer.                                            *)
(***************************************************************************)
ANext == (\E r \in A!Requests : A!Ask(r)) \/ A!AnnouncerNext

LEMMA InitRefines == Init => A!AnnouncerInit
BY DEF Init, Doing, A!AnnouncerInit, A!None, A!Idle

\* The decoder thread and the audio clock are not seen from outside.
LEMMA DecoderIsHidden ==
  ASSUME DecoderStep \/ FepAudio
  PROVE  UNCHANGED A!announcer
<1>1. UNCHANGED broadcast
  BY DEF DecoderStep, FepAudio, DTop, DCheck, DWhich, DOpen, DBegin, DNext, DLast,
         DDecode, DSetEof, DOver, DStopped, DClose, DDrain, DEndEof, DEndDecoding, DEndRun, DGoto
<1> QED
  BY <1>1 DEF broadcast, A!announcer, Doing

\* Nor is what the broadcast thread does between the end of one type and the
\* beginning of the next.
LEMMA StoppingIsHidden ==
  ASSUME StopProcess \/ StopClear \/ StopWait
  PROVE  UNCHANGED A!announcer
<1>1. /\ UNCHANGED <<inbox, type, job>>
      /\ b \in {"stop", "clear", "wait"} /\ b' \in {"clear", "wait", "end"}
  BY DEF StopProcess, StopClear, StopWait, BGoto
<1> QED
  BY <1>1 DEF A!announcer, Doing

LEMMA StartingIsHidden ==
  ASSUME SetList \/ SetIndex \/ SetEof \/ SetIsDecoding \/ SetRunFlag
  PROVE  UNCHANGED A!announcer
<1>1. /\ UNCHANGED <<inbox, type>>
      /\ b \in {"list", "index", "eof", "decode", "start"}
      /\ b' \in {"index", "eof", "decode", "start", "idle"}
  BY DEF SetList, SetIndex, SetEof, SetIsDecoding, SetRunFlag, BGoto
<1> QED
  BY <1>1 DEF A!announcer, Doing

LEMMA SendAsks ==
  ASSUME NEW r \in Requests, Send(r)
  PROVE  ANext
<1>1. Doing' = Doing
  BY DEF Send, Doing
<1>2. A!Ask(r)
  BY <1>1 DEF Send, A!Ask, A!Room, A!Post
<1> QED
  BY <1>2, RequestShape DEF ANext

LEMMA HandleServes ==
  ASSUME TypeOK, Handle
  PROVE  ANext
<1>1. Doing = A!Idle
  BY DEF Handle, Doing, A!Idle, A!None
<1>2. Head(inbox) \in Requests
  BY DEF Handle, TypeOK
<1>3. Head(inbox).op \in {"play", "stop"} /\ Head(inbox).bd \in A!Rowed
  BY <1>2, RequestShape DEF A!Rowed, A!Mp3Types
<1>4. CASE b' = "stop"
  <2>1. Doing' = Head(inbox)
    BY <1>4 DEF Handle, Doing, Job, BGoto
  <2>2. A!Serve
    BY <1>1, <1>3, <2>1 DEF Handle, A!Serve
  <2> QED
    BY <2>2 DEF ANext, A!AnnouncerNext, A!Work
<1>5. CASE b' = "idle"
  <2>1. Head(inbox).op = "play"
    BY <1>5 DEF Handle, BGoto
  <2>2. Doing' = Doing
    BY <1>1, <1>5 DEF Doing, A!Idle, A!None
  <2>3. A!Serve
    BY <1>1, <2>1, <2>2 DEF Handle, A!Serve
  <2> QED
    BY <2>3 DEF ANext, A!AnnouncerNext, A!Work
<1> QED
  BY <1>4, <1>5 DEF Handle, BGoto

LEMMA TimerEnds ==
  ASSUME Timer
  PROVE  ANext
<1>1. Doing = A!Idle /\ Doing' = A!Tick
  BY DEF Timer, Doing, Job, BGoto, A!Idle, A!Tick, A!None
<1>2. A!Over
  BY <1>1 DEF Timer, A!Over, A!Mp3Types
<1> QED
  BY <1>2 DEF ANext, A!AnnouncerNext

LEMMA StopEndClears ==
  ASSUME TypeOK, JobInStep, StopEnd
  PROVE  ANext
<1>1. /\ Doing = job /\ job.op \in {"play", "stop", "timer"}
      /\ job.op \in {"play", "stop"} => job.bd \in A!Rowed
  BY RequestShape DEF StopEnd, Doing, TypeOK, A!Rowed, A!Mp3Types
<1>2. Doing' = IF job.op = "play" THEN [job EXCEPT !.op = "begin"] ELSE A!Idle
  BY DEF StopEnd, Doing, Job, BGoto, A!Idle, A!None
<1>3. type' = None
  BY <1>1 DEF StopEnd, JobInStep, A!Rowed, A!Mp3Types
<1>4. A!Clear
  BY <1>1, <1>2, <1>3 DEF StopEnd, A!Clear, A!Idle, A!None
<1> QED
  BY <1>4 DEF ANext, A!AnnouncerNext, A!Work

LEMMA SetTypeBegins ==
  ASSUME TypeOK, JobInStep, SetType
  PROVE  ANext
<1>1. Doing = [job EXCEPT !.op = "begin"] /\ job \in Requests
  BY DEF SetType, Doing, TypeOK, JobInStep
<1>2. Doing.op = "begin" /\ Doing.bd = job.bd
  BY <1>1 DEF Requests, Play, Stop
<1>3. Doing' = A!Idle
  BY DEF SetType, Doing, BGoto, A!Idle, A!None
<1>4. A!Begin
  BY <1>2, <1>3 DEF SetType, A!Begin
<1> QED
  BY <1>4 DEF ANext, A!AnnouncerNext, A!Work

LEMMA StepRefines ==
  ASSUME IndInv, [Next]_vars
  PROVE  [ANext]_(A!announcer)
<1> USE DEF IndInv
<1>1. CASE UNCHANGED vars
  BY <1>1 DEF vars, broadcast, A!announcer, Doing
<1>2. CASE Next
  <2>1. \/ \E r \in Requests : Send(r)
        \/ Handle \/ Timer \/ StopEnd \/ SetType
        \/ DecoderStep \/ FepAudio
        \/ StopProcess \/ StopClear \/ StopWait
        \/ SetList \/ SetIndex \/ SetEof \/ SetIsDecoding \/ SetRunFlag
    BY <1>2, NextCases DEF DecoderStep
  <2> QED
    BY <2>1, SendAsks, HandleServes, TimerEnds, StopEndClears, SetTypeBegins,
       DecoderIsHidden, StoppingIsHidden, StartingIsHidden
<1> QED  BY <1>1, <1>2

\* Broadcast manager and decoder together implement Announcer: what the other
\* threads see of them is one request at a time, in order, each announcement
\* ended before the next begins.
THEOREM Implementation == Spec => ImplementsAnnouncer
<1>1. Init => A!AnnouncerInit
  BY InitRefines
<1>2. IndInv /\ [Next]_vars => [ANext]_(A!announcer)
  BY StepRefines
<1> QED
  BY <1>1, <1>2, Invariance, PTL
     DEF Spec, ImplementsAnnouncer, A!AnnouncerSpec, ANext
=============================================================================
