------------------------- MODULE KRingBuffer_proofs -------------------------
(***************************************************************************)
(* Proofs about KRingBuffer, for every size, every counter width that the  *)
(* size divides, every set of bytes and every length of chunk: the lengths *)
(* are never wrapped ones, and the ring implements the queue of ByteFifo.  *)
(***************************************************************************)
EXTENDS KRingBuffer, TLAPS

-----------------------------------------------------------------------------
(***************************************************************************)
(* Division with remainder.                                                *)
(***************************************************************************)

\* Two remainders that differ by a multiple of the divisor are equal.
LEMMA QuotientUnique ==
  ASSUME NEW s \in Nat \ {0}, NEW a \in Int,
         NEW r1 \in 0..(s - 1), NEW r2 \in 0..(s - 1), r1 = s * a + r2
  PROVE  a = 0
<1>1. CASE a >= 1
  <2>1. s * a >= s
    BY <1>1
  <2> QED  BY <2>1
<1>2. CASE a <= -1
  <2>1. s * a <= -s
    BY <1>2
  <2> QED  BY <2>1
<1> QED  BY <1>1, <1>2

\* What \div and % are, for any integer.
LEMMA DivMod ==
  ASSUME NEW s \in Nat \ {0}, NEW x \in Int
  PROVE  /\ x % s \in 0..(s - 1)
         /\ x \div s \in Int
         /\ x = s * (x \div s) + (x % s)
OBVIOUS

\* A remainder is found by writing the number as multiple plus remainder.
LEMMA ModUnique ==
  ASSUME NEW s \in Nat \ {0}, NEW x \in Int, NEW q \in Int,
         NEW r \in 0..(s - 1), x = s * q + r
  PROVE  x % s = r
<1>1. x = s * (x \div s) + (x % s) /\ x \div s \in Int /\ x % s \in 0..(s - 1)
  BY DivMod
<1>2. r = s * ((x \div s) - q) + (x % s)
  BY <1>1
<1>3. (x \div s) - q = 0
  BY <1>1, <1>2, QuotientUnique
<1> QED  BY <1>1, <1>2, <1>3

-----------------------------------------------------------------------------
(***************************************************************************)
(* The counters and the offsets.                                           *)
(***************************************************************************)
Counter == 0..(CntMod - 1)

\* The constants as numbers: the counter range is a multiple of the size.
LEMMA Sizes ==
  /\ Size \in Nat \ {0} /\ CntMod \in Nat \ {0} /\ CntMod > Size
  /\ CntMod \div Size \in Int /\ CntMod = Size * (CntMod \div Size)
<1>1. Size \in Nat \ {0} /\ CntMod \in Nat \ {0} /\ CntMod > Size
      /\ CntMod % Size = 0
  BY SizeAssumption
<1> QED  BY <1>1, DivMod

\* The distance of two counters that wrap.
LEMMA Distance ==
  ASSUME NEW a \in Counter, NEW c \in Counter
  PROVE  (a - c) % CntMod = IF a >= c THEN a - c ELSE a - c + CntMod
<1>1. CASE a >= c
  <2>1. a - c = CntMod * 0 + (a - c) /\ a - c \in 0..(CntMod - 1)
    BY <1>1, Sizes DEF Counter
  <2> QED  BY <2>1, <1>1, Sizes, ModUnique DEF Counter
<1>2. CASE a < c
  <2>1. a - c = CntMod * (-1) + (a - c + CntMod)
        /\ a - c + CntMod \in 0..(CntMod - 1)
    BY <1>2, Sizes DEF Counter
  <2> QED  BY <2>1, <1>2, Sizes, ModUnique DEF Counter
<1> QED  BY <1>1, <1>2 DEF Counter

\* A counter moved on by at most the size of the buffer.
LEMMA Advance ==
  ASSUME NEW c \in Counter, NEW k \in 0..Size
  PROVE  (c + k) % CntMod = IF c + k < CntMod THEN c + k ELSE c + k - CntMod
<1>1. CASE c + k < CntMod
  <2>1. c + k = CntMod * 0 + (c + k) /\ c + k \in 0..(CntMod - 1)
    BY <1>1, Sizes DEF Counter
  <2> QED  BY <2>1, <1>1, Sizes, ModUnique DEF Counter
<1>2. CASE c + k >= CntMod
  <2>1. c + k = CntMod * 1 + (c + k - CntMod)
        /\ c + k - CntMod \in 0..(CntMod - 1)
    BY <1>2, Sizes DEF Counter
  <2> QED  BY <2>1, <1>2, Sizes, ModUnique DEF Counter
<1> QED  BY <1>1, <1>2, Sizes DEF Counter

\* An offset is a place in the memory.
LEMMA OffsetRange ==
  ASSUME NEW x \in Int
  PROVE  Offset(x) \in 0..(Size - 1)
BY Sizes, DivMod DEF Offset

\* Wrapping a counter does not move its offset.
LEMMA OffsetWrap ==
  ASSUME NEW x \in Int
  PROVE  Offset(x % CntMod) = Offset(x)
<1> DEFINE k == CntMod \div Size
           q == x \div CntMod
           y == x % CntMod
           e == y \div Size
           r == y % Size
<1>1. k \in Int /\ CntMod = Size * k
  BY Sizes
<1>2. q \in Int /\ y \in Int /\ x = CntMod * q + y
  BY Sizes, DivMod
<1>3. e \in Int /\ r \in 0..(Size - 1) /\ y = Size * e + r
  BY <1>2, Sizes, DivMod
<1> HIDE DEF k, q, y, e, r
<1>4. x = Size * (k * q + e) + r
  <2>1. x = (Size * k) * q + (Size * e + r)
    BY <1>1, <1>2, <1>3
  <2> QED  BY <2>1, <1>1, <1>2, <1>3, Sizes
<1>5. k * q + e \in Int
  BY <1>1, <1>2, <1>3
<1>6. x % Size = r
  BY <1>3, <1>4, <1>5, Sizes, ModUnique
<1> QED  BY <1>6 DEF Offset, r, y

\* The offset of a position further on.
LEMMA OffsetAdd ==
  ASSUME NEW x \in Int, NEW k \in 0..Size
  PROVE  Offset(x + k) = IF Offset(x) + k < Size THEN Offset(x) + k
                         ELSE Offset(x) + k - Size
<1> DEFINE q == x \div Size
           r == x % Size
<1>1. q \in Int /\ r \in 0..(Size - 1) /\ x = Size * q + r
  BY Sizes, DivMod
<1> HIDE DEF q, r
<1>2. CASE r + k < Size
  <2>1. x + k = Size * q + (r + k) /\ r + k \in 0..(Size - 1)
    BY <1>1, <1>2, Sizes
  <2> QED  BY <2>1, <1>1, <1>2, Sizes, ModUnique DEF Offset, r
<1>3. CASE r + k >= Size
  <2> DEFINE p == q + 1
  <2>1. p \in Int /\ x + k \in Int /\ x + k = Size * p + (r + k - Size)
        /\ r + k - Size \in 0..(Size - 1)
    BY <1>1, <1>3, Sizes
  <2> HIDE DEF p
  <2>2. (x + k) % Size = r + k - Size
    BY <2>1, Sizes, ModUnique
  <2> QED  BY <2>2, <1>1, <1>3, Sizes DEF Offset, r
<1> QED  BY <1>1, <1>2, <1>3, Sizes

-----------------------------------------------------------------------------
(***************************************************************************)
(* The operations.                                                         *)
(***************************************************************************)
IndInv == TypeOK /\ LengthBounded

\* The two lengths are what they seem: bytes stored and bytes free.
LEMMA Lengths ==
  ASSUME IndInv
  PROVE  /\ in \in Counter /\ out \in Counter
         /\ Length \in 0..Size
         /\ Length = IF in >= out THEN in - out ELSE in - out + CntMod
         /\ Room = Size - Length
         /\ in = (out + Length) % CntMod
<1>1. in \in Counter /\ out \in Counter
  BY DEF IndInv, TypeOK, Counter
<1>2. Length = IF in >= out THEN in - out ELSE in - out + CntMod
  BY <1>1, Distance DEF Length
<1>3. Length \in 0..Size
  BY <1>1, <1>2, Sizes DEF Counter, IndInv, LengthBounded
<1>4. Room = Size - Length
  <2>1. CASE in >= out
    <3>1. Size - in + out = CntMod * 0 + (Size - Length)
          /\ Size - Length \in 0..(CntMod - 1) /\ Size - in + out \in Int
      BY <1>1, <1>2, <1>3, <2>1, Sizes DEF Counter
    <3> QED  BY <3>1, Sizes, ModUnique DEF Room
  <2>2. CASE in < out
    <3>1. Size - in + out = CntMod * 1 + (Size - Length)
          /\ Size - Length \in 0..(CntMod - 1) /\ Size - in + out \in Int
      BY <1>1, <1>2, <1>3, <2>2, Sizes DEF Counter
    <3> QED  BY <3>1, Sizes, ModUnique DEF Room
  <2> QED  BY <1>1, <2>1, <2>2 DEF Counter
<1>5. in = (out + Length) % CntMod
  <2>1. (out + Length) % CntMod = IF out + Length < CntMod THEN out + Length
                                  ELSE out + Length - CntMod
    BY <1>1, <1>3, Advance
  <2>2. CASE in >= out
    BY <1>1, <1>2, <2>1, <2>2, Sizes DEF Counter
  <2>3. CASE in < out
    BY <1>1, <1>2, <2>1, <2>3, Sizes DEF Counter
  <2> QED  BY <1>1, <2>2, <2>3 DEF Counter
<1> QED  BY <1>1, <1>2, <1>3, <1>4, <1>5

\* A chunk is a sequence of bytes.
LEMMA ChunkType ==
  ASSUME NEW chunk \in Chunks
  PROVE  chunk \in Seq(Byte) /\ Len(chunk) \in Nat
<1>1. PICK n \in 0..MaxLen : chunk \in [1..n -> Byte]
  BY DEF Chunks
<1>2. n \in Nat
  BY SizeAssumption
<1> QED  BY <1>1, <1>2

\* What Put does to the counters: n more bytes, which there is room for.
LEMMA PutLengths ==
  ASSUME IndInv, NEW chunk \in Chunks, Put(chunk)
  PROVE  LET n == Min2(Len(chunk), Room) IN
         /\ n \in 0..(Size - Length) /\ n <= Len(chunk)
         /\ in' \in Counter /\ out' = out
         /\ Length' = Length + n
<1> DEFINE n == Min2(Len(chunk), Room)
<1>1. n \in 0..(Size - Length) /\ n <= Len(chunk) /\ n \in 0..Size
  BY Lengths, ChunkType, Sizes DEF Min2
<1>2. in' = IF in + n < CntMod THEN in + n ELSE in + n - CntMod
  BY <1>1, Lengths, Advance DEF Put
<1> HIDE DEF n
<1>3. in' \in Counter /\ out' = out
  <2>1. in \in Counter /\ out' = out
    BY Lengths DEF Put
  <2> QED  BY <1>1, <1>2, <2>1, Sizes DEF Counter
<1>4. Length' = IF in' >= out' THEN in' - out' ELSE in' - out' + CntMod
  BY <1>3, Lengths, Distance DEF Length
<1>5. Length' = Length + n
  <2>1. /\ in \in Counter /\ out \in Counter /\ Length \in 0..Size
        /\ Length = IF in >= out THEN in - out ELSE in - out + CntMod
    BY Lengths
  <2> HIDE DEF Length
  <2> QED  BY <1>1, <1>2, <1>3, <1>4, <2>1, Sizes DEF Counter
<1> QED  BY <1>1, <1>3, <1>5 DEF n

\* What Get does to the counters: n bytes less, all of which were stored; the
\* buffer it empties starts again at 0.
LEMMA GetLengths ==
  ASSUME IndInv, NEW count \in Counts, Get(count)
  PROVE  LET n == Min2(count, Length) IN
         /\ n \in 0..Length
         /\ in' \in Counter /\ out' \in Counter
         /\ Length' = Length - n
         /\ Length' # 0 => in' = in /\ out' = (out + n) % CntMod
<1> DEFINE n == Min2(count, Length)
           last == (out + n) % CntMod
<1>1. count \in Nat
  BY SizeAssumption DEF Counts
<1>2. n \in 0..Length /\ n \in 0..Size
  BY <1>1, Lengths, Sizes DEF Min2
<1>3. last = IF out + n < CntMod THEN out + n ELSE out + n - CntMod
  BY <1>2, Lengths, Advance
<1>4. /\ out' = IF in = last THEN 0 ELSE last
      /\ in'  = IF in = last THEN 0 ELSE in
  BY DEF Get
<1> HIDE DEF n, last
<1>5. last \in Counter
  BY <1>2, <1>3, Lengths, Sizes DEF Counter
<1>6. in' \in Counter /\ out' \in Counter
  <2>1. in \in Counter /\ 0 \in Counter
    BY Lengths, Sizes DEF Counter
  <2> QED  BY <1>4, <1>5, <2>1
<1>7. Length' = IF in' >= out' THEN in' - out' ELSE in' - out' + CntMod
  BY <1>6, Distance DEF Length
<1>8. CASE in = last
  <2>1. n = Length
    BY <1>2, <1>3, <1>8, Lengths, Sizes DEF Counter
  <2>2. Length' = 0
    BY <1>4, <1>7, <1>8
  <2> QED  BY <1>2, <1>6, <2>1, <2>2, Lengths DEF n
<1>9. CASE in # last
  <2>1. in' = in /\ out' = last
    BY <1>4, <1>9
  <2>2. Length' = Length - n
    BY <1>2, <1>3, <1>7, <1>9, <2>1, Lengths, Sizes DEF Counter
  <2> QED  BY <1>2, <1>6, <2>1, <2>2 DEF n, last
<1> QED  BY <1>8, <1>9

\* The memory stays a memory of bytes, and what an operation moved is bytes.
LEMMA PutType ==
  ASSUME IndInv, NEW chunk \in Chunks, Put(chunk)
  PROVE  mem' \in [0..(Size - 1) -> Byte] /\ moved' \in Seq(Byte)
<1> DEFINE n == Min2(Len(chunk), Room)
           first == Min2(n, Size - Offset(in))
<1>1. chunk \in Seq(Byte) /\ n \in 0..Len(chunk) /\ n \in 0..Size /\ Len(chunk) \in Nat
  BY PutLengths, ChunkType, Lengths, Sizes
<1>2. Offset(in) \in 0..(Size - 1)
  BY OffsetRange, Lengths, Sizes DEF Counter
<1>3. mem \in [0..(Size - 1) -> Byte]
  BY DEF IndInv, TypeOK
<1> HIDE DEF n
<1>4. first \in 0..n /\ first \in 0..(Size - Offset(in))
  BY <1>1, <1>2, Sizes DEF Min2
<1> HIDE DEF first
<1>5. ASSUME NEW i \in 0..(Size - 1)
      PROVE  (IF i \in Offset(in)..(Offset(in) + first - 1) THEN chunk[i - Offset(in) + 1]
              ELSE IF i < n - first THEN chunk[first + i + 1]
              ELSE mem[i]) \in Byte
  <2>1. CASE i \in Offset(in)..(Offset(in) + first - 1)
    <3>1. i - Offset(in) + 1 \in 1..Len(chunk)
      BY <1>1, <1>2, <1>4, <2>1
    <3> QED  BY <1>1, <2>1, <3>1
  <2>2. CASE i \notin Offset(in)..(Offset(in) + first - 1) /\ i < n - first
    <3>1. first + i + 1 \in 1..Len(chunk)
      BY <1>1, <1>4, <2>2
    <3> QED  BY <1>1, <2>2, <3>1
  <2> QED  BY <1>3, <2>1, <2>2
<1>6. mem' \in [0..(Size - 1) -> Byte]
  BY <1>5 DEF Put, Written, n, first
<1>7. moved' \in Seq(Byte)
  BY <1>1 DEF Put, n
<1> QED  BY <1>6, <1>7

LEMMA GetType ==
  ASSUME IndInv, NEW count \in Counts, Get(count)
  PROVE  mem' \in [0..(Size - 1) -> Byte] /\ moved' \in Seq(Byte)
<1> DEFINE n == Min2(count, Length)
           first == Min2(n, Size - Offset(out))
<1>1. n \in Nat /\ n <= Size
  BY GetLengths, Lengths, Sizes
<1>2. Offset(out) \in 0..(Size - 1)
  BY OffsetRange, Lengths, Sizes DEF Counter
<1>3. mem \in [0..(Size - 1) -> Byte]
  BY DEF IndInv, TypeOK
<1> HIDE DEF n
<1>4. first \in 0..n /\ (first = n \/ first = Size - Offset(out))
      /\ first <= Size - Offset(out)
  BY <1>1, <1>2, Sizes DEF Min2
<1> HIDE DEF first
<1>5. ASSUME NEW i \in 1..n
      PROVE  (IF i <= first THEN mem[Offset(out) + i - 1]
              ELSE mem[i - first - 1]) \in Byte
  <2>1. CASE i <= first
    <3>1. Offset(out) + i - 1 \in 0..(Size - 1)
      BY <1>1, <1>2, <1>4, <2>1, Sizes
    <3> QED  BY <1>3, <2>1, <3>1
  <2>2. CASE i > first
    <3>1. i - first - 1 \in 0..(Size - 1) /\ ~(i <= first)
      BY <1>1, <1>2, <1>4, <2>2, Sizes
    <3> QED  BY <1>3, <3>1
  <2> QED  BY <1>1, <1>4, <2>1, <2>2
<1>6. moved' \in [1..n -> Byte]
  BY <1>5 DEF Get, n, first
<1>7. mem' = mem
  BY DEF Get
<1> QED  BY <1>1, <1>3, <1>6, <1>7

\* The invariant, which is inductive as it stands: the lengths are bounded only
\* because the counters are in range, and what is read is a byte only because
\* the lengths are bounded.
LEMMA IndInvInit == Init => IndInv
<1> SUFFICES ASSUME Init PROVE IndInv
  OBVIOUS
<1>1. in \in Counter /\ out \in Counter /\ in = 0 /\ out = 0
  BY Sizes DEF Init, Counter
<1>2. Length = 0
  BY <1>1, Distance DEF Length
<1>3. moved \in Seq(Byte)
  BY DEF Init
<1> QED  BY <1>1, <1>2, <1>3, Sizes DEF Init, IndInv, TypeOK, LengthBounded, Counter

LEMMA IndInvStep == IndInv /\ [Next]_vars => IndInv'
<1> SUFFICES ASSUME IndInv, [Next]_vars PROVE IndInv'
  OBVIOUS
<1>1. ASSUME NEW chunk \in Chunks, Put(chunk) PROVE IndInv'
  <2>1. in' \in Counter /\ out' \in Counter /\ Length' <= Size
    BY <1>1, PutLengths, Lengths, Sizes
  <2>2. mem' \in [0..(Size - 1) -> Byte] /\ moved' \in Seq(Byte)
    BY <1>1, PutType
  <2> QED  BY <2>1, <2>2 DEF IndInv, TypeOK, LengthBounded, Counter
<1>2. ASSUME NEW count \in Counts, Get(count) PROVE IndInv'
  <2>1. in' \in Counter /\ out' \in Counter /\ Length' <= Size
    BY <1>2, GetLengths, Lengths, Sizes
  <2>2. mem' \in [0..(Size - 1) -> Byte] /\ moved' \in Seq(Byte)
    BY <1>2, GetType
  <2> QED  BY <2>1, <2>2 DEF IndInv, TypeOK, LengthBounded, Counter
<1>3. CASE Reset
  <2>1. in' \in Counter /\ out' \in Counter /\ in' = 0 /\ out' = 0
    BY <1>3, Sizes DEF Reset, Counter
  <2>2. Length' = 0
    BY <2>1, Distance DEF Length
  <2>3. mem' = mem /\ moved' \in Seq(Byte)
    BY <1>3 DEF Reset
  <2> QED  BY <2>1, <2>2, <2>3, Sizes DEF IndInv, TypeOK, LengthBounded, Counter
<1>4. CASE UNCHANGED vars
  BY <1>4 DEF vars, IndInv, TypeOK, LengthBounded, Length
<1> QED  BY <1>1, <1>2, <1>3, <1>4 DEF Next

\* Every behaviour keeps the invariant.
THEOREM Invariance == Spec => []IndInv
<1> QED  BY IndInvInit, IndInvStep, PTL DEF Spec

\* The counters and the memory keep their types, and what is moved is bytes: no
\* read is made outside the memory or outside the chunk.
THEOREM TypeCorrect == Spec => []TypeOK
<1>1. IndInv => TypeOK
  BY DEF IndInv
<1> QED  BY <1>1, Invariance, PTL

\* The ring never holds more than its size, whatever is put and however often
\* the counters have wrapped.
THEOREM NeverOverfull == Spec => []LengthBounded
<1>1. IndInv => LengthBounded
  BY DEF IndInv
<1> QED  BY <1>1, Invariance, PTL

-----------------------------------------------------------------------------
(***************************************************************************)
(* The ring implements the queue.                                          *)
(***************************************************************************)
StoredSeq ==
  /\ Stored \in Seq(Byte) /\ Len(Stored) = Length
  /\ \A j \in 1..Length : Stored[j] = mem[Offset(out + (j - 1))]

\* Sequences of the same length with the same elements are equal.
LEMMA SameSeq ==
  ASSUME NEW S, NEW s \in Seq(S), NEW t \in Seq(S), Len(s) = Len(t),
         \A i \in 1..Len(s) : s[i] = t[i]
  PROVE  s = t
OBVIOUS

\* What a concatenation holds.
LEMMA Concat ==
  ASSUME NEW S, NEW s \in Seq(S), NEW t \in Seq(S)
  PROVE  /\ s \o t \in Seq(S) /\ Len(s \o t) = Len(s) + Len(t)
         /\ \A i \in 1..Len(s) : (s \o t)[i] = s[i]
         /\ \A i \in 1..Len(t) : (s \o t)[Len(s) + i] = t[i]
OBVIOUS

\* The bytes stored are a sequence of the length that is claimed.
LEMMA StoredType == IndInv => StoredSeq
<1> SUFFICES ASSUME IndInv PROVE StoredSeq
  OBVIOUS
<1>1. Length \in Nat /\ mem \in [0..(Size - 1) -> Byte] /\ out \in Int
  BY Lengths, Sizes DEF IndInv, TypeOK
<1>2. ASSUME NEW j \in 1..Length
      PROVE  out + j - 1 = out + (j - 1) /\ mem[Offset(out + j - 1)] \in Byte
  <2>1. out + j - 1 \in Int /\ out + j - 1 = out + (j - 1)
    BY <1>1
  <2>2. Offset(out + j - 1) \in 0..(Size - 1)
    BY <2>1, OffsetRange
  <2> QED  BY <1>1, <2>1, <2>2
<1>3. Stored \in [1..Length -> Byte]
  BY <1>2 DEF Stored
<1>4. Stored \in Seq(Byte) /\ Len(Stored) = Length
  BY <1>1, <1>3
<1>5. ASSUME NEW j \in 1..Length
      PROVE  Stored[j] = mem[Offset(out + (j - 1))]
  BY <1>2 DEF Stored
<1> QED  BY <1>4, <1>5 DEF StoredSeq

LEMMA StoredTypeNext == IndInv' => StoredSeq'
BY StoredType, PTL

\* The offset of the j-th stored byte, and of the first free one.
LEMMA Places ==
  ASSUME IndInv
  PROVE  /\ \A j \in 1..Size :
              Offset(out + (j - 1)) = IF Offset(out) + (j - 1) < Size
                                      THEN Offset(out) + (j - 1)
                                      ELSE Offset(out) + (j - 1) - Size
         /\ Offset(in) = IF Offset(out) + Length < Size THEN Offset(out) + Length
                         ELSE Offset(out) + Length - Size
<1>1. out \in Int /\ Length \in 0..Size /\ in = (out + Length) % CntMod
  BY Lengths, Sizes DEF Counter
<1>2. ASSUME NEW j \in 1..Size
      PROVE  Offset(out + (j - 1)) = IF Offset(out) + (j - 1) < Size
                                     THEN Offset(out) + (j - 1)
                                     ELSE Offset(out) + (j - 1) - Size
  <2>1. j - 1 \in 0..Size
    BY Sizes
  <2> QED  BY <1>1, <2>1, OffsetAdd
<1>3. Offset(in) = Offset(out + Length)
  BY <1>1, Sizes, OffsetWrap
<1> QED  BY <1>1, <1>2, <1>3, OffsetAdd

\* Put appends to the stored bytes what fits of the chunk.
LEMMA PutAppends ==
  ASSUME IndInv, IndInv', NEW chunk \in Chunks, Put(chunk)
  PROVE  Stored' = Stored \o moved'
<1> DEFINE n == Min2(Len(chunk), Room)
           first == Min2(n, Size - Offset(in))
           o == Offset(out)
           w == Offset(in)
           L == Length
<1>1. /\ chunk \in Seq(Byte) /\ n \in 0..Len(chunk) /\ Len(chunk) \in Nat
      /\ n \in 0..(Size - L) /\ L \in 0..Size /\ Length' = L + n /\ out' = out
  BY PutLengths, ChunkType, Lengths, Sizes
<1>2. /\ o \in 0..(Size - 1) /\ w \in 0..(Size - 1)
      /\ w = IF o + L < Size THEN o + L ELSE o + L - Size
  BY OffsetRange, Lengths, Places, Sizes DEF Counter
<1>3. moved' = SubSeq(chunk, 1, n)
  BY DEF Put
<1>4. mem' = [i \in 0..(Size - 1) |->
                IF i \in w..(w + first - 1) THEN chunk[i - w + 1]
                ELSE IF i < n - first THEN chunk[first + i + 1]
                ELSE mem[i]]
  BY DEF Put, Written
<1>5. \A j \in 1..Size : Offset(out + (j - 1)) = IF o + (j - 1) < Size THEN o + (j - 1)
                                                 ELSE o + (j - 1) - Size
  BY Places
<1>6. first = IF n < Size - w THEN n ELSE Size - w
  BY DEF Min2
<1>7. /\ Stored \in Seq(Byte) /\ Len(Stored) = L
      /\ \A j \in 1..L : Stored[j] = mem[Offset(out + (j - 1))]
  BY StoredType DEF StoredSeq
<1>8. /\ Stored' \in Seq(Byte) /\ Len(Stored') = L + n
      /\ \A j \in 1..(L + n) : Stored'[j] = mem'[Offset(out + (j - 1))]
  BY <1>1, StoredTypeNext DEF StoredSeq
<1> HIDE DEF n, first, o, w, L
<1>9. Len(moved') = n /\ \A k \in 1..n : moved'[k] = chunk[k]
  BY <1>1, <1>3
<1>10. ASSUME NEW j \in 1..L
       PROVE  Stored'[j] = Stored[j]
  <2> DEFINE p == Offset(out + (j - 1))
  <2>1. p = IF o + (j - 1) < Size THEN o + (j - 1) ELSE o + (j - 1) - Size
    BY <1>1, <1>5, Sizes
  <2> HIDE DEF p
  <2>2. p \in 0..(Size - 1) /\ p \notin w..(w + first - 1) /\ ~(p < n - first)
    BY <1>1, <1>2, <1>6, <2>1, Sizes
  <2>3. mem'[p] = mem[p]
    BY <1>4, <2>2
  <2> QED  BY <1>1, <1>7, <1>8, <2>3 DEF p
<1>11. ASSUME NEW k \in 1..n
       PROVE  Stored'[L + k] = chunk[k]
  <2> DEFINE j == L + k
             p == Offset(out + (j - 1))
  <2>1. j \in 1..Size /\ j \in 1..(L + n) /\ j = L + k
    BY <1>1, Sizes
  <2> HIDE DEF j
  <2>2. p = IF o + (j - 1) < Size THEN o + (j - 1) ELSE o + (j - 1) - Size
    BY <1>5, <2>1
  <2> HIDE DEF p
  <2>3. mem'[p] = chunk[k]
    <3>1. CASE k <= first
      <4>1. p \in 0..(Size - 1) /\ p \in w..(w + first - 1) /\ p - w + 1 = k
        BY <1>1, <1>2, <1>6, <2>1, <2>2, <3>1, Sizes
      <4> QED  BY <1>4, <4>1
    <3>2. CASE k > first
      <4>1. p \in 0..(Size - 1) /\ p \notin w..(w + first - 1)
            /\ p < n - first /\ first + p + 1 = k
        BY <1>1, <1>2, <1>6, <2>1, <2>2, <3>2, Sizes
      <4> QED  BY <1>4, <4>1
    <3>3. first \in Int
      BY <1>1, <1>2, <1>6, Sizes
    <3> QED  BY <1>1, <3>1, <3>2, <3>3
  <2> QED  BY <1>8, <2>1, <2>3 DEF p, j
<1>12. moved' \in Seq(Byte)
  BY PutType
<1>13. ASSUME NEW j \in 1..(L + n)
       PROVE  Stored'[j] = (Stored \o moved')[j]
  <2>1. CASE j <= L
    <3>1. (Stored \o moved')[j] = Stored[j]
      BY <1>1, <1>7, <1>12, <2>1, Concat
    <3> QED  BY <1>1, <1>10, <2>1, <3>1
  <2>2. CASE j > L
    <3> DEFINE k == j - L
    <3>1. k \in 1..n /\ j = L + k
      BY <1>1, <2>2
    <3> HIDE DEF k
    <3>2. (Stored \o moved')[L + k] = moved'[k]
      BY <1>7, <1>9, <1>12, <3>1, Concat
    <3> QED  BY <1>9, <1>11, <3>1, <3>2
  <2>3. j \in Int /\ L \in Int
    BY <1>1, Sizes
  <2>4. j <= L \/ j > L
    BY <2>3
  <2> QED  BY <2>1, <2>2, <2>4
<1>14. Stored \o moved' \in Seq(Byte) /\ Len(Stored \o moved') = L + n
  BY <1>7, <1>9, <1>12, Concat
<1> QED  BY <1>8, <1>13, <1>14, SameSeq

\* Get takes the oldest bytes away and returns them.
LEMMA GetTakes ==
  ASSUME IndInv, IndInv', NEW count \in Counts, Get(count)
  PROVE  LET n == Min2(count, Length) IN
         moved' = SubSeq(Stored, 1, n) /\ Stored' = SubSeq(Stored, n + 1, Length)
<1> DEFINE n == Min2(count, Length)
           first == Min2(n, Size - Offset(out))
           o == Offset(out)
           L == Length
<1>1. /\ n \in 0..L /\ L \in 0..Size /\ Length' = L - n
      /\ Length' # 0 => in' = in /\ out' = (out + n) % CntMod
  BY GetLengths, Lengths
<1>2. o \in 0..(Size - 1) /\ out \in Int
  BY OffsetRange, Lengths, Sizes DEF Counter
<1>3. moved' = [i \in 1..n |-> IF i <= first THEN mem[o + i - 1]
                               ELSE mem[i - first - 1]]
      /\ mem' = mem
  BY DEF Get
<1>4. \A j \in 1..Size : Offset(out + (j - 1)) = IF o + (j - 1) < Size THEN o + (j - 1)
                                                 ELSE o + (j - 1) - Size
  BY Places
<1>5. first = IF n < Size - o THEN n ELSE Size - o
  BY DEF Min2
<1>6. /\ Stored \in Seq(Byte) /\ Len(Stored) = L
      /\ \A j \in 1..L : Stored[j] = mem[Offset(out + (j - 1))]
  BY StoredType DEF StoredSeq
<1>7. /\ Stored' \in Seq(Byte) /\ Len(Stored') = L - n
      /\ \A j \in 1..(L - n) : Stored'[j] = mem'[Offset(out' + (j - 1))]
  BY <1>1, StoredTypeNext DEF StoredSeq
<1>8. moved' \in Seq(Byte)
  BY GetType
<1> HIDE DEF n, first, o, L
<1>9. moved' = SubSeq(Stored, 1, n)
  <2>1. Len(moved') = n /\ moved' = [i \in 1..n |-> moved'[i]]
    BY <1>1, <1>3
  <2>2. ASSUME NEW i \in 1..n
        PROVE  moved'[i] = Stored[i]
    <3>1. Offset(out + (i - 1)) = IF o + (i - 1) < Size THEN o + (i - 1)
                                  ELSE o + (i - 1) - Size
      BY <1>1, <1>4, Sizes
    <3>2. CASE i <= first
      <4>1. Offset(out + (i - 1)) = o + i - 1
        BY <1>1, <1>2, <1>5, <3>1, <3>2, Sizes
      <4> QED  BY <1>1, <1>3, <1>6, <3>2, <4>1
    <3>3. CASE ~(i <= first)
      <4>1. Offset(out + (i - 1)) = i - first - 1
        BY <1>1, <1>2, <1>5, <3>1, <3>3, Sizes
      <4> QED  BY <1>1, <1>3, <1>6, <3>3, <4>1
    <3> QED  BY <3>2, <3>3
  <2>3. Len(SubSeq(Stored, 1, n)) = n /\ SubSeq(Stored, 1, n) \in Seq(Byte)
        /\ \A i \in 1..n : SubSeq(Stored, 1, n)[i] = Stored[i]
    BY <1>1, <1>6
  <2> QED  BY <1>1, <1>8, <2>1, <2>2, <2>3
<1>10. Stored' = SubSeq(Stored, n + 1, L)
  <2>1. Len(SubSeq(Stored, n + 1, L)) = L - n /\ SubSeq(Stored, n + 1, L) \in Seq(Byte)
        /\ \A j \in 1..(L - n) : SubSeq(Stored, n + 1, L)[j] = Stored[n + j]
    BY <1>1, <1>6
  <2>2. ASSUME NEW j \in 1..(L - n)
        PROVE  Stored'[j] = Stored[n + j]
    <3>1. out' = (out + n) % CntMod
      BY <1>1, <2>2
    <3>2. out' \in Int /\ out + n \in Int /\ j - 1 \in 0..Size /\ n \in 0..Size
      BY <1>1, <1>2, <3>1, Sizes, DivMod
    <3>3. Offset(out') = Offset(out + n)
      BY <3>1, <3>2, OffsetWrap
    <3>4. Offset(out' + (j - 1)) = Offset((out + n) + (j - 1))
      BY <3>2, <3>3, OffsetAdd
    <3>5. (out + n) + (j - 1) = out + ((n + j) - 1) /\ n + j \in 1..L
      BY <1>1, <1>2
    <3>6. Stored'[j] = mem'[Offset(out' + (j - 1))] /\ mem' = mem
      BY <1>3, <1>7
    <3>7. Stored[n + j] = mem[Offset(out + ((n + j) - 1))]
      BY <1>6, <3>5
    <3> QED  BY <3>4, <3>5, <3>6, <3>7
  <2> QED  BY <1>1, <1>7, <2>1, <2>2, SameSeq
<1> QED  BY <1>9, <1>10 DEF n, L

\* Each operation of the ring is that operation of the queue.
LEMMA StepRefines ==
  ASSUME IndInv, IndInv', [Next]_vars
  PROVE  [Fifo!Next]_<<Stored, moved>>
<1>1. ASSUME NEW chunk \in Chunks, Put(chunk) PROVE Fifo!Put(chunk)
  <2>1. Fifo!Smaller(Len(chunk), Size - Len(Stored)) = Min2(Len(chunk), Room)
    BY Lengths, StoredType DEF StoredSeq, Fifo!Smaller, Min2
  <2>2. moved' = SubSeq(chunk, 1, Min2(Len(chunk), Room))
    BY <1>1 DEF Put
  <2> QED  BY <1>1, <2>1, <2>2, PutAppends DEF Fifo!Put
<1>2. ASSUME NEW count \in Counts, Get(count) PROVE Fifo!Get(count)
  <2>1. Fifo!Smaller(count, Len(Stored)) = Min2(count, Length) /\ Len(Stored) = Length
    BY StoredType DEF StoredSeq, Fifo!Smaller, Min2
  <2> QED  BY <1>2, <2>1, GetTakes DEF Fifo!Get
<1>3. CASE Reset
  <2>1. moved' = << >>
    BY <1>3 DEF Reset
  <2>2. in' \in Counter /\ out' \in Counter /\ in' = 0 /\ out' = 0
    BY <1>3, Sizes DEF Reset, Counter
  <2>3. Length' = 0
    BY <2>2, Distance DEF Length
  <2>4. Stored' \in Seq(Byte) /\ Len(Stored') = Length'
    BY StoredTypeNext DEF StoredSeq
  <2>5. Stored' = << >>
    BY <2>3, <2>4
  <2> QED  BY <2>1, <2>5 DEF Fifo!Next, Fifo!Reset
<1>4. CASE UNCHANGED vars
  BY <1>4 DEF vars, Stored, Length
<1> QED  BY <1>1, <1>2, <1>3, <1>4 DEF Next, Fifo!Next

LEMMA InitRefines ==
  ASSUME Init
  PROVE  Fifo!Init
<1>1. IndInv
  BY IndInvInit
<1>2. in \in Counter /\ out \in Counter /\ in = out
  BY Sizes DEF Init, Counter
<1>3. Length = 0
  BY <1>2, Distance DEF Length, Counter
<1>4. Stored = << >>
  BY <1>1, <1>3, StoredType DEF StoredSeq
<1> QED  BY <1>4 DEF Init, Fifo!Init

\* The ring buffer implements the queue of bytes: what comes out is what went
\* in, in order, for every size and across every wrap of the counters.
THEOREM Implementation == Spec => ImplementsFifo
<1>1. Init => Fifo!Init
  BY InitRefines
<1>2. IndInv /\ IndInv' /\ [Next]_vars => [Fifo!Next]_<<Stored, moved>>
  BY StepRefines
<1> QED  BY <1>1, <1>2, Invariance, PTL DEF Spec, ImplementsFifo, Fifo!Spec

=============================================================================
