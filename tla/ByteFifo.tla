------------------------------ MODULE ByteFifo ------------------------------
(***************************************************************************)
(* What the ring buffer of lib/kring_buffer.h promises its users: a queue  *)
(* of at most Size bytes.  Put appends what fits and drops the rest of the *)
(* chunk, Get removes what is there, both answer how many bytes they moved *)
(* and neither waits.                                                      *)
(***************************************************************************)
EXTENDS Naturals, Sequences

CONSTANTS
  Size,     \* capacity in bytes
  Chunks,   \* the sequences of bytes that are put
  Counts    \* the byte counts that are asked for

VARIABLES
  q,        \* the bytes stored, oldest first
  moved     \* the bytes the last call moved (put or got)

Smaller(a, b) == IF a < b THEN a ELSE b

Put(chunk) ==
  LET n == Smaller(Len(chunk), Size - Len(q)) IN
  /\ moved' = SubSeq(chunk, 1, n)
  /\ q' = q \o moved'

Get(count) ==
  LET n == Smaller(count, Len(q)) IN
  /\ moved' = SubSeq(q, 1, n)
  /\ q' = SubSeq(q, n + 1, Len(q))

Reset == q' = << >> /\ moved' = << >>

Init == q = << >> /\ moved = << >>

Next ==
  \/ \E chunk \in Chunks : Put(chunk)
  \/ \E count \in Counts : Get(count)
  \/ Reset

Spec == Init /\ [][Next]_<<q, moved>>

=============================================================================
