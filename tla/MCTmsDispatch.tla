--------------------------- MODULE MCTmsDispatch ---------------------------
(* Two frames of a short journey, for TLC: before a station and in it.     *)
(* Each comes with the length the structure of its data has in this build, *)
(* or with that which the comments of tms.h give it.                       *)
EXTENDS TmsDispatch

With(g) == [x \in Fields |-> IF x \in DOMAIN g THEN g[x] ELSE 0]

MCLengths == {DatLen, 60}

MCFrames ==
  { With([dir |-> 2, nex |-> 1, pre |-> 1, side |-> 3, cyc |-> 1]),
    With([dir |-> 1, arr |-> 1, stop |-> 1, open |-> 1, trig |-> 1, code |-> 1]) }
=============================================================================
