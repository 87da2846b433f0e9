---------------------------- MODULE MCMp3Broadcast ----------------------------
(***************************************************************************)
(* Values for the small instances of Mp3Broadcast: an announcement of two  *)
(* files the first of which is broken, one with a single file, one of two  *)
(* with none that plays, the last of them left partly open; and the        *)
(* driver's microphone before the announcements.                           *)
(***************************************************************************)
EXTENDS Mp3Broadcast

MCLists == {<<"broken", "file">>, <<"file">>, <<"missing", "broken">>}

MCPriority == [r \in Rows |-> IF r[2] = "occ" THEN 1 ELSE 3]

===============================================================================
