------------------------------ MODULE MCSendLoop ----------------------------
(* Three of the four timers of the train service, for TLC: the one that    *)
(* sends the process data, the one that watches the devices and sends      *)
(* nothing, and the one that sends displays and time if PISC is master.    *)
EXTENDS SendLoop

MCTimers == {"half", "second", "five"}
MCPeriod == [half |-> 1, second |-> 2, five |-> 3]
MCFrames == [half |-> {1}, second |-> {0}, five |-> {0, 2}]

\* A frame of texts is the longer: alone it fills the buffer, as two others do, and
\* behind one other it passes the end.
MCSizes == [train |-> {1}, udp |-> {2}]
=============================================================================
