---------------------------- MODULE KRingBuffer ----------------------------
(***************************************************************************)
(* The ring buffer of lib/kring_buffer.c: Size bytes and two free-running  *)
(* unsigned counters.  Every operation holds the mutex from its first read *)
(* to its last write, so an operation is one step whichever thread calls   *)
(* it (the decoder, the record thread and the broadcast thread do).        *)
(*                                                                         *)
(* The counters count modulo CntMod (2^32 in the code).  All arithmetic    *)
(* below wraps as uint32_t does, the differences included.                 *)
(***************************************************************************)
EXTENDS Integers, Sequences

CONSTANTS
  Size,     \* u32Size, a power of two
  CntMod,   \* number of values of u32In and u32Out
  Byte,     \* the bytes
  MaxLen    \* bound: the largest chunk put or asked for

\* KRingBuffer_Init refuses a size that is no power of two; what the masks
\* need of that is that the size divides the range of the counters.
ASSUME SizeAssumption ==
  /\ Size \in Nat \ {0}
  /\ CntMod \in Nat /\ CntMod > Size /\ CntMod % Size = 0
  /\ MaxLen \in Nat

VARIABLES
  mem,      \* pvFBuffer
  in,       \* u32In
  out,      \* u32Out
  moved     \* the bytes the last call moved: what Get returned, or Put took

vars == <<mem, in, out, moved>>

Chunks == UNION {[1..n -> Byte] : n \in 0..MaxLen}
Counts == 0..MaxLen

-----------------------------------------------------------------------------
\* #define min(a,b)
Min2(a, b) == IF a < b THEN a ELSE b

\* x & (u32Size - 1)
Offset(x) == x % Size

\* _KRingBuffer_Len
Length == (in - out) % CntMod

\* u32Size - u32In + u32Out
Room == (Size - in + out) % CntMod

\* Fault: the second piece goes on where the first one ended.
WrittenStraight(chunk, n) ==
  LET first == Min2(n, Size - Offset(in)) IN
  [i \in 0..(Size - 1) |->
     IF i \in Offset(in)..(Offset(in) + first - 1) THEN chunk[i - Offset(in) + 1]
     ELSE mem[i]]

\* The memory with the first n bytes of chunk at u32In: up to the end of it,
\* then from its beginning.
Written(chunk, n) ==
  LET first == Min2(n, Size - Offset(in)) IN
  [i \in 0..(Size - 1) |->
     IF i \in Offset(in)..(Offset(in) + first - 1) THEN chunk[i - Offset(in) + 1]
     ELSE IF i < n - first THEN chunk[first + i + 1]
     ELSE mem[i]]

\* Fault: the counter stops at its last value instead of wrapping.
PutSaturates(chunk) ==
  LET n == Min2(Len(chunk), Room) IN
  /\ mem' = Written(chunk, n)
  /\ in' = in + n
  /\ moved' = SubSeq(chunk, 1, n)
  /\ UNCHANGED out

\* KRingBuffer_Put: as much of the chunk as there is room for.
Put(chunk) ==
  LET n == Min2(Len(chunk), Room) IN
  /\ mem' = Written(chunk, n)
  /\ in' = (in + n) % CntMod
  /\ moved' = SubSeq(chunk, 1, n)
  /\ UNCHANGED out

\* KRingBuffer_Get: the same two pieces; an empty buffer starts again at 0.
Get(count) ==
  LET n     == Min2(count, Length)
      first == Min2(n, Size - Offset(out))
      last  == (out + n) % CntMod
  IN
  /\ moved' = [i \in 1..n |-> IF i <= first THEN mem[Offset(out) + i - 1]
                              ELSE mem[i - first - 1]]
  /\ out' = IF in = last THEN 0 ELSE last
  /\ in'  = IF in = last THEN 0 ELSE in
  /\ UNCHANGED mem

\* KRingBuffer_Reset
Reset == in' = 0 /\ out' = 0 /\ moved' = << >> /\ UNCHANGED mem

Next ==
  \/ \E chunk \in Chunks : Put(chunk)
  \/ \E count \in Counts : Get(count)
  \/ Reset

\* KRingBuffer_Init: the memory comes from malloc, with any contents.
Init ==
  /\ mem \in [0..(Size - 1) -> Byte]
  /\ in = 0 /\ out = 0 /\ moved = << >>

Spec == Init /\ [][Next]_vars

-----------------------------------------------------------------------------
\* The counters stay in their range.
TypeOK ==
  /\ mem \in [0..(Size - 1) -> Byte]
  /\ in \in 0..(CntMod - 1) /\ out \in 0..(CntMod - 1)
  /\ moved \in Seq(Byte)

\* The ring never holds more bytes than it has, so that Length and Room are true
\* lengths and not wrapped ones.
LengthBounded == Length <= Size

\* The bytes between the counters, oldest first.
Stored == [i \in 1..Length |-> mem[Offset(out + i - 1)]]

\* The ring implements a bounded queue of bytes: what Get returns is what Put
\* took, in order, with no byte lost, repeated or overwritten before it was
\* read, across the wrap of the memory and of the counters.
Fifo == INSTANCE ByteFifo WITH q <- Stored

ImplementsFifo == Fifo!Spec

=============================================================================
