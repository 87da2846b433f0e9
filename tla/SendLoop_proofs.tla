--------------------------- MODULE SendLoop_proofs ---------------------------
(***************************************************************************)
(* Proofs about SendLoop.  The heap keeps its order and loses no timer;    *)
(* the endpoint watches what was stored while nobody else was inside.      *)
(***************************************************************************)
EXTENDS SendLoop, TLAPS, FiniteSetTheorems, WellFoundedInduction

-----------------------------------------------------------------------------
(* The heap.                                                               *)

Key(i) == expire[tree[i]]
Positions == 1..Len(tree)
In(t) == index[t] \in Positions /\ tree[index[t]] = t

TimerTypes ==
  /\ tree \in Seq(Timers) /\ index \in [Timers -> Nat]
  /\ expire \in [Timers -> Int] /\ place \in Places
  /\ pos \in Nat /\ hand \in Timers \union {None}
  /\ seen \in Int /\ left \in Nat

\* Each element knows its position.
Placed == \A i \in Positions : index[tree[i]] = i

\* Every timer is in the heap, or is the one served, or is not armed yet.
NoneLost ==
  /\ place \in {"setup", "loop", "pass"} => hand = None
  /\ place \in {"down", "call"} =>
       hand # None /\ \A i \in Positions : tree[i] # hand
  /\ \A t \in Timers :
       \/ In(t)
       \/ place \in {"down", "call"} /\ t = hand
       \/ place \in {"setup", "up"} /\ hand = None /\ index[t] = 0

SiftsInside ==
  /\ place = "up" => pos \in Positions
  /\ place = "down" => pos = 1 \/ pos \in Positions

\* No element is earlier than its parent, the one being sifted aside; the
\* elements below that one are not earlier than the one above it.
Ordered ==
  \A i \in Positions : i > 1 =>
    /\ (place = "up" /\ i = pos) \/ (place = "down" /\ Parent(i) = pos) \/ Key(Parent(i)) <= Key(i)
    /\ place \in {"up", "down"} /\ Parent(i) = pos /\ pos > 1 => Key(Parent(pos)) <= Key(i)

ServedFirst ==
  place \in {"down", "call"} =>
    expire[hand] <= seen /\ \A i \in Positions : expire[hand] <= Key(i)

\* The pass may serve at least as many timers as are due.
DueSet == {t \in Timers : In(t) /\ expire[t] <= seen}
Enough ==
  /\ seen <= 0
  /\ place \in {"pass", "down", "call"} \/ (place = "up" /\ hand # None) =>
       Cardinality(DueSet) <= left

TimerInv ==
  TimerTypes /\ Placed /\ NoneLost /\ SiftsInside /\ Ordered /\ ServedFirst /\ Enough

\* A set of naturals has a least element.
Less == {ss \in Nat \X Nat : ss[1] < ss[2]}

LEMMA LeastOf ==
  ASSUME NEW C, C \subseteq Nat, C # {}
  PROVE  \E m \in C : \A k \in C : m <= k
<1>1. IsWellFoundedOn(Less, Nat)
  BY NatLessThanWellFounded DEF OpToRel, Less
<1>2. PICK m \in C : \A k \in C : ~(<<k, m>> \in Less)
  BY <1>1, WFMin
<1>3. ASSUME NEW k \in C PROVE m <= k
  <2>1. ~(k < m) BY <1>2 DEF Less
  <2> QED BY <2>1
<1> QED BY <1>3

\* Halving goes down, and leads to one of two.
LEMMA Halves ==
  ASSUME NEW i \in Nat, i > 1
  PROVE  /\ Parent(i) \in Nat /\ Parent(i) >= 1 /\ Parent(i) < i
         /\ i = 2 * Parent(i) \/ i = 2 * Parent(i) + 1
BY DEF Parent

\* In an ordered heap nothing is earlier than the root.
LEMMA RootIsEarliest ==
  ASSUME TimerTypes, \A i \in Positions : i > 1 => Key(Parent(i)) <= Key(i)
  PROVE  \A i \in Positions : Key(1) <= Key(i)
<1> DEFINE C == {i \in Positions : Key(i) < Key(1)}
<1>1. \A i \in Positions : Key(i) \in Int
  BY DEF TimerTypes, Positions, Key
<1>2. SUFFICES ASSUME C # {} PROVE FALSE
  <2> TAKE i \in Positions
  <2>1. 1 \in Positions BY DEF Positions, TimerTypes
  <2> QED BY <1>1, <2>1
<1>3. C \subseteq Nat BY DEF Positions, TimerTypes
<1>4. PICK m \in C : \A k \in C : m <= k BY <1>2, <1>3, LeastOf
<1>5. m \in Nat /\ m > 1 /\ m <= Len(tree) /\ Len(tree) \in Nat
  <2>1. m \in Positions /\ m \in Nat BY <1>3 
  <2>2. Key(m) < Key(1) OBVIOUS
  <2>3. 1 \in Positions BY <2>1 DEF Positions, TimerTypes
  <2>4. m # 1 BY <1>1, <2>2, <2>3
  <2> QED BY <2>1, <2>4 DEF Positions, TimerTypes
<1>6. Parent(m) \in Positions /\ Parent(m) < m BY <1>5, Halves DEF Positions
<1>7. Key(Parent(m)) <= Key(m) BY <1>5 DEF Positions
<1>8. 1 \in Positions BY <1>5 DEF Positions
<1>9. Key(Parent(m)) < Key(1) BY <1>1, <1>6, <1>7, <1>8
<1>10. Parent(m) \in C BY <1>6, <1>9
<1> QED BY <1>4, <1>5, <1>6, <1>10, Halves

LEMMA TimersStart == TimerInit => TimerInv
<1> SUFFICES ASSUME TimerInit PROVE TimerInv
  OBVIOUS
<1> USE TimersAssumption
<1>1. Len(tree) = 0 /\ Positions = {}
  BY DEF TimerInit, Positions
<1>2. TimerTypes
  BY DEF TimerInit, TimerTypes, Places
<1> QED
  BY <1>1, <1>2 DEF TimerInit, TimerInv, Placed, NoneLost, SiftsInside, Ordered, ServedFirst, Enough

\* A swap of two elements keeps each at the position it knows.
LEMMA SwapKeeps ==
  ASSUME TimerTypes, Placed, NEW i \in Positions, NEW j \in Positions, i # j, Swap(i, j)
  PROVE  /\ tree' \in Seq(Timers) /\ Len(tree') = Len(tree) /\ Positions' = Positions
         /\ index' \in [Timers -> Nat]
         /\ Placed'
         /\ \A t \in Timers : In(t)' <=> In(t)
         /\ \A t \in Timers : ~In(t) => index'[t] = index[t]
         /\ tree'[i] = tree[j] /\ tree'[j] = tree[i]
         /\ \A k \in Positions \ {i, j} : tree'[k] = tree[k]
<1>1. tree' = [tree EXCEPT ![i] = tree[j], ![j] = tree[i]]
      /\ index' = [index EXCEPT ![tree[i]] = j, ![tree[j]] = i]
  BY DEF Swap
<1>2. tree' \in Seq(Timers) /\ Len(tree') = Len(tree)
  BY <1>1 DEF TimerTypes, Positions
<1>3. Positions' = Positions
  BY <1>2 DEF Positions
<1>4. \A k \in Positions : tree[k] \in Timers
  BY DEF TimerTypes, Positions
<1>5. tree[i] # tree[j]
  BY DEF Placed
<1>6. index' \in [Timers -> Nat]
  <2>1. i \in Nat /\ j \in Nat
    BY DEF Positions
  <2>2. index \in [Timers -> Nat]
    BY DEF TimerTypes
  <2> QED BY <1>1, <2>1, <2>2
<1>7. tree'[i] = tree[j] /\ tree'[j] = tree[i] /\ \A k \in Positions \ {i, j} : tree'[k] = tree[k]
  <2>1. DOMAIN tree = Positions
    BY DEF TimerTypes, Positions
  <2> QED BY <1>1, <2>1
<1>8. index'[tree[i]] = j /\ index'[tree[j]] = i
      /\ \A t \in Timers \ {tree[i], tree[j]} : index'[t] = index[t]
  BY <1>1, <1>4, <1>5 DEF TimerTypes
<1>9. Placed'
  <2> SUFFICES ASSUME NEW k \in Positions PROVE index'[tree'[k]] = k
    BY <1>3 DEF Placed
  <2>1. CASE k \in {i, j}
    BY <2>1, <1>7, <1>8
  <2>2. CASE k \notin {i, j}
    <3>1. tree[k] # tree[i] /\ tree[k] # tree[j] /\ index[tree[k]] = k
      BY <2>2 DEF Placed
    <3> QED BY <3>1, <2>2, <1>7, <1>8, <1>4
  <2> QED BY <2>1, <2>2
<1>10. ASSUME NEW t \in Timers PROVE In(t)' <=> In(t)
  <2>1. In(tree[i]) /\ In(tree[j]) BY DEF Placed, In
  <2>2. CASE t \in {tree[i], tree[j]}
    BY <2>1, <2>2, <1>3, <1>7, <1>8 DEF In
  <2>3. CASE t \notin {tree[i], tree[j]}
    BY <2>3, <1>3, <1>7, <1>8 DEF In, Positions, TimerTypes
  <2> QED BY <2>1, <2>2, <2>3
<1>11. ASSUME NEW t \in Timers, ~In(t) PROVE index'[t] = index[t]
  <2>1. In(tree[i]) /\ In(tree[j]) BY DEF Placed, In
  <2> QED BY <2>1, <1>8, <1>11
<1> QED BY <1>2, <1>3, <1>6, <1>7, <1>9, <1>10, <1>11

\* What depends on nothing but who is in the heap and when it expires.
LEMMA DueKept ==
  ASSUME \A t \in Timers : In(t)' <=> In(t), expire' = expire, seen' = seen
  PROVE  DueSet' = DueSet
BY DEF DueSet

LEMMA SiftUpKeeps == ASSUME TimerInv, SiftUp PROVE TimerInv'
<1> DEFINE p == Parent(pos)
<1>1. TimerTypes /\ Placed /\ NoneLost /\ SiftsInside /\ Ordered /\ ServedFirst /\ Enough
  BY DEF TimerInv
<1>2. /\ place = "up" /\ pos \in Positions /\ pos > 1 /\ Key(pos) < Key(p)
      /\ Swap(pos, p) /\ pos' = p
      /\ UNCHANGED <<expire, place, hand, seen, left>>
  BY <1>1 DEF SiftUp, Rises, Earlier, SiftsInside, Key
<1>3. pos \in Nat /\ p \in Positions /\ p < pos /\ p \in Nat /\ p >= 1
  BY <1>1, <1>2, Halves DEF TimerTypes, Positions
<1>4. /\ tree' \in Seq(Timers) /\ Len(tree') = Len(tree) /\ Positions' = Positions
      /\ index' \in [Timers -> Nat]
      /\ Placed'
      /\ \A t \in Timers : In(t)' <=> In(t)
      /\ \A t \in Timers : ~In(t) => index'[t] = index[t]
      /\ tree'[pos] = tree[p] /\ tree'[p] = tree[pos]
      /\ \A k \in Positions \ {pos, p} : tree'[k] = tree[k]
  BY <1>1, <1>2, <1>3, SwapKeeps
<1>5. TimerTypes'
  BY <1>1, <1>2, <1>3, <1>4 DEF TimerTypes
<1>6. NoneLost'
  <2> SUFFICES ASSUME NEW t \in Timers
               PROVE  In(t)' \/ (hand = None /\ index'[t] = 0)
    BY <1>2 DEF NoneLost
  <2> QED BY <1>1, <1>2, <1>4 DEF NoneLost
<1>7. SiftsInside'
  BY <1>2, <1>3, <1>4 DEF SiftsInside
<1>8. Ordered'
  <2>1. \A k \in Positions : Key(k) \in Int
    BY <1>1 DEF TimerTypes, Positions, Key
  <2> DEFINE K(k) == expire[tree'[k]]
  <2>2. K(pos) = Key(p) /\ K(p) = Key(pos) /\ \A k \in Positions \ {pos, p} : K(k) = Key(k)
    BY <1>4 DEF Key
  <2> SUFFICES ASSUME NEW i \in Positions, i > 1
               PROVE  /\ i = p \/ K(Parent(i)) <= K(i)
                      /\ Parent(i) = p /\ p > 1 => K(Parent(p)) <= K(i)
    BY <1>2, <1>4 DEF Ordered, Key, Parent
  <2>3. i \in Nat /\ Parent(i) \in Positions /\ Parent(i) < i
    BY Halves DEF Positions
  <2>4. p > 1 => Parent(p) \in Positions /\ Parent(p) < p
    BY <1>3, Halves DEF Positions
  <2>5. i # pos => Key(Parent(i)) <= Key(i)
    BY <1>1, <1>2 DEF Ordered
  <2>6. p > 1 => Key(Parent(p)) <= Key(p)
    BY <1>1, <1>2, <1>3 DEF Ordered
  <2>7. Parent(i) = pos => Key(p) <= Key(i)
    BY <1>1, <1>2 DEF Ordered
  <2>8. CASE i = pos
    BY <2>8, <2>1, <2>2, <2>3, <2>4, <2>6, <1>2, <1>3
  <2>9. CASE i # pos /\ i # p
    <3>1. K(i) = Key(i) BY <2>9, <2>2
    <3>2. CASE Parent(i) = pos
      BY <3>1, <3>2, <2>7, <2>2, <1>3
    <3>3. CASE Parent(i) = p
      <4>1. Key(p) <= Key(i) BY <3>3, <2>5, <2>9
      <4>2. K(p) <= K(i) BY <4>1, <3>1, <2>1, <2>2, <1>2, <1>3
      <4>3. p > 1 => K(Parent(p)) = Key(Parent(p)) BY <2>2, <2>4, <1>3
      <4> QED BY <3>3, <4>1, <4>2, <4>3, <2>1, <2>4, <2>6, <3>1, <1>3
    <3>4. CASE Parent(i) # pos /\ Parent(i) # p
      BY <3>1, <3>4, <2>2, <2>3, <2>5, <2>9
    <3> QED BY <3>2, <3>3, <3>4
  <2>10. CASE i = p
    BY <2>10, <2>3, <1>3
  <2> QED BY <2>8, <2>9, <2>10
<1>9. ServedFirst' /\ Enough'
  <2>1. DueSet' = DueSet BY <1>2, <1>4, DueKept
  <2> QED BY <2>1, <1>1, <1>2 DEF ServedFirst, Enough
<1> QED BY <1>4, <1>5, <1>6, <1>7, <1>8, <1>9 DEF TimerInv

LEMMA InsertedKeeps == ASSUME TimerInv, Inserted PROVE TimerInv'
<1> USE TimersAssumption
<1>1. TimerTypes /\ Placed /\ NoneLost /\ SiftsInside /\ Ordered /\ ServedFirst /\ Enough
  BY DEF TimerInv
<1>2. /\ place = "up" /\ ~Rises
      /\ place' = IF hand # None THEN "pass"
                  ELSE IF \A t \in Timers : index[t] # 0 THEN "loop" ELSE "setup"
      /\ hand' = None /\ pos' = 0
      /\ UNCHANGED <<tree, index, expire, seen, left>>
  BY DEF Inserted
<1>3. Positions' = Positions /\ \A t \in Timers : In(t)' <=> In(t)
  BY <1>2 DEF Positions, In
<1>4. TimerTypes'
  BY <1>1, <1>2 DEF TimerTypes, Places
<1>5. Placed' /\ SiftsInside'
  BY <1>1, <1>2, <1>3 DEF Placed, SiftsInside
<1>6. NoneLost'
  BY <1>1, <1>2, <1>3 DEF NoneLost
<1>7. Ordered'
  <2> SUFFICES ASSUME NEW i \in Positions, i > 1 PROVE Key(Parent(i)) <= Key(i)
    BY <1>2, <1>3 DEF Ordered, Key, Parent
  <2>1. CASE i # pos
    BY <2>1, <1>1, <1>2 DEF Ordered
  <2>2. CASE i = pos
    <3>1. ~(Key(i) < Key(Parent(i))) BY <2>2, <1>2 DEF Rises, Earlier, Key
    <3>2. Parent(i) \in Positions BY Halves DEF Positions
    <3>3. \A j \in Positions : tree[j] \in Timers
      BY <1>1 DEF TimerTypes, Positions
    <3>4. \A j \in Positions : Key(j) \in Int
      BY <3>3, <1>1 DEF Key, TimerTypes
    <3> QED BY <3>1, <3>2, <3>4
  <2> QED BY <2>1, <2>2
<1>8. DueSet' = DueSet
  BY <1>2, <1>3, DueKept
<1>9. ServedFirst' /\ Enough'
  BY <1>1, <1>2, <1>8 DEF ServedFirst, Enough
<1> QED BY <1>4, <1>5, <1>6, <1>7, <1>9 DEF TimerInv

\* The timers in the heap are as many as its positions, at most.
LEMMA HeapHolds ==
  ASSUME TimerTypes
  PROVE  IsFiniteSet(DueSet) /\ Cardinality(DueSet) \in Nat /\ Cardinality(DueSet) <= Len(tree)
<1> DEFINE n == Len(tree)
           T == {t \in Timers : In(t)}
           f == [i \in 1..n |-> tree[i]]
<1>1. n \in Nat /\ IsFiniteSet(T)
  BY FS_Subset, TimersAssumption DEF TimerTypes
<1>2. IsFiniteSet(1..n) /\ Cardinality(1..n) = n
  <2> HIDE DEF n
  <2>1. n \in Nat
    BY <1>1
  <2> QED BY <2>1, FS_Interval
<1>3. T \subseteq {tree[i] : i \in 1..n}
  BY DEF In, Positions
<1> DEFINE R == {tree[i] : i \in 1..n}
<1>4. f \in Surjection(1..n, R)
  BY DEF Surjection
<1> HIDE DEF f
<1>5. IsFiniteSet(R) /\ Cardinality(R) <= n
  BY <1>2, <1>4, FS_Surjection
<1>6. DueSet \subseteq R
  BY <1>3 DEF DueSet
<1>7. IsFiniteSet(DueSet) /\ Cardinality(DueSet) <= Cardinality(R)
  BY <1>5, <1>6, FS_Subset
<1>8. Cardinality(DueSet) \in Nat /\ Cardinality(R) \in Nat
  BY <1>5, <1>7, FS_CardinalityType
<1> QED BY <1>1, <1>5, <1>7, <1>8

LEMMA BeginKeeps == ASSUME TimerInv, Begin PROVE TimerInv'
<1>1. TimerTypes /\ Placed /\ NoneLost /\ SiftsInside /\ Ordered /\ ServedFirst /\ Enough
  BY DEF TimerInv
<1>2. /\ place = "loop" /\ seen' = 0 /\ left' = Len(tree) /\ place' = "pass"
      /\ UNCHANGED <<tree, index, expire, pos, hand>>
  BY DEF Begin
<1>3. Positions' = Positions /\ \A t \in Timers : In(t)' <=> In(t)
  BY <1>2 DEF Positions, In
<1>4. TimerTypes'
  BY <1>1, <1>2 DEF TimerTypes, Places
<1>5. Placed' /\ SiftsInside' /\ NoneLost' /\ ServedFirst'
  BY <1>1, <1>2, <1>3 DEF Placed, SiftsInside, NoneLost, ServedFirst
<1>6. Ordered'
  BY <1>1, <1>2, <1>3 DEF Ordered, Key, Parent
<1>7. Cardinality(DueSet') <= Len(tree)'
  <2>1. DueSet' = {t \in Timers : In(t) /\ expire[t] <= 0}
    BY <1>2, <1>3 DEF DueSet
  <2>2. (Cardinality(DueSet) <= Len(tree))'
    BY <1>4, HeapHolds, PTL
  <2> QED BY <2>2
<1>8. Enough'
  BY <1>2, <1>7 DEF Enough
<1> QED BY <1>4, <1>5, <1>6, <1>8 DEF TimerInv

LEMMA ServedKeeps == ASSUME TimerInv, Served PROVE TimerInv'
<1>1. TimerTypes /\ Placed /\ NoneLost /\ SiftsInside /\ Ordered /\ ServedFirst /\ Enough
  BY DEF TimerInv
<1>2. /\ place = "pass" /\ place' = "loop" /\ seen' = 0 /\ left' = 0
      /\ UNCHANGED <<tree, index, expire, pos, hand>>
  BY DEF Served
<1>3. Positions' = Positions /\ \A t \in Timers : In(t)' <=> In(t)
  BY <1>2 DEF Positions, In
<1>4. TimerTypes'
  BY <1>1, <1>2 DEF TimerTypes, Places
<1>5. Placed' /\ SiftsInside' /\ NoneLost' /\ ServedFirst' /\ Enough'
  BY <1>1, <1>2, <1>3 DEF Placed, SiftsInside, NoneLost, ServedFirst, Enough
<1>6. Ordered'
  BY <1>1, <1>2, <1>3 DEF Ordered, Key, Parent
<1> QED BY <1>4, <1>5, <1>6 DEF TimerInv

\* Extracted, whatever the callback is about to store.
LEMMA ExtractedKeeps == ASSUME TimerInv, Extracted PROVE TimerInv'
<1>1. TimerTypes /\ Placed /\ NoneLost /\ SiftsInside /\ Ordered /\ ServedFirst /\ Enough
  BY DEF TimerInv
<1>2. /\ place = "down" /\ ~(\E c \in 1..Len(tree) : Below(c))
      /\ place' = "call" /\ pos' = 0
      /\ UNCHANGED <<tree, index, expire, hand, seen, left>>
  BY DEF Extracted
<1>3. Positions' = Positions /\ \A t \in Timers : In(t)' <=> In(t)
  BY <1>2 DEF Positions, In
<1>4. TimerTypes'
  BY <1>1, <1>2 DEF TimerTypes, Places
<1>5. DueSet' = DueSet
  BY <1>2, <1>3, DueKept
<1>6. Placed' /\ SiftsInside' /\ NoneLost' /\ ServedFirst' /\ Enough'
  BY <1>1, <1>2, <1>3, <1>5 DEF Placed, SiftsInside, NoneLost, ServedFirst, Enough, Key
<1>7. Ordered'
  <2> SUFFICES ASSUME NEW i \in Positions, i > 1 PROVE Key(Parent(i)) <= Key(i)
    BY <1>2, <1>3 DEF Ordered, Key, Parent
  <2>1. CASE Parent(i) # pos
    BY <2>1, <1>1, <1>2 DEF Ordered
  <2>2. CASE Parent(i) = pos
    <3>1. pos \in Positions /\ pos \in Nat
      BY <2>2, Halves DEF Positions
    <3>2. i \in Children
      BY <2>2, Halves DEF Children, Positions
    <3>3. \A k \in Positions : Key(k) \in Int
      BY <1>1 DEF TimerTypes, Positions, Key
    <3>4. \A c \in Children : c \in Positions /\ (c = 2 * pos \/ c = 2 * pos + 1)
      BY DEF Children, Positions
    <3>5. SUFFICES ASSUME Key(i) < Key(pos) PROVE FALSE
      BY <2>2, <3>1, <3>3
    <3>6. PICK c \in Children : Key(c) < Key(pos) /\ \A d \in Children \ {c} : IF d < c THEN Key(c) < Key(d) ELSE ~(Key(d) < Key(c))
      <4>1. CASE \A d \in Children \ {i} : IF d < i THEN Key(i) < Key(d) ELSE ~(Key(d) < Key(i))
        BY <4>1, <3>2, <3>5
      <4>2. ASSUME NEW d \in Children \ {i}, ~(IF d < i THEN Key(i) < Key(d) ELSE ~(Key(d) < Key(i)))
            PROVE  \E c \in Children : Key(c) < Key(pos) /\ \A e \in Children \ {c} : IF e < c THEN Key(c) < Key(e) ELSE ~(Key(e) < Key(c))
        <5>1. d \in Positions /\ i \in Positions /\ d \in Nat /\ i \in Nat
          BY <3>4 DEF Positions
        <5>2. \A e \in Children \ {d} : e = i
          BY <3>2, <3>4, <3>1
        <5>3. Key(d) < Key(pos)
          BY <4>2, <5>1, <3>1, <3>3, <3>5
        <5>4. IF i < d THEN Key(d) < Key(i) ELSE ~(Key(i) < Key(d))
          BY <4>2, <5>1, <3>3
        <5> QED BY <5>2, <5>3, <5>4
      <4> QED BY <4>1, <4>2
    <3>7. Below(c)
      BY <3>6 DEF Below, Earlier, Key
    <3> QED BY <3>7, <3>4, <1>2 DEF Positions
  <2> QED BY <2>1, <2>2
<1> QED BY <1>4, <1>6, <1>7 DEF TimerInv

LEMMA SiftDownKeeps == ASSUME TimerInv, SiftDown PROVE TimerInv'
<1>1. TimerTypes /\ Placed /\ NoneLost /\ SiftsInside /\ Ordered /\ ServedFirst /\ Enough
  BY DEF TimerInv
<1>2. PICK c \in 1..Len(tree) : Below(c) /\ Swap(c, pos) /\ pos' = c
  BY DEF SiftDown
<1>3. place = "down" /\ UNCHANGED <<expire, place, hand, seen, left>>
  BY DEF SiftDown
<1>4. c \in Positions /\ pos \in Positions /\ c \in Nat /\ pos \in Nat /\ pos >= 1 /\ c > pos /\ c > 1 /\ Parent(c) = pos
  BY <1>1, <1>2, <1>3 DEF Below, Children, SiftsInside, Positions, Parent, TimerTypes
<1>5. /\ tree' \in Seq(Timers) /\ Len(tree') = Len(tree) /\ Positions' = Positions
      /\ index' \in [Timers -> Nat]
      /\ Placed'
      /\ \A t \in Timers : In(t)' <=> In(t)
      /\ \A t \in Timers : ~In(t) => index'[t] = index[t]
      /\ tree'[c] = tree[pos] /\ tree'[pos] = tree[c]
      /\ \A k \in Positions \ {c, pos} : tree'[k] = tree[k]
  BY <1>1, <1>2, <1>4, SwapKeeps
<1>6. TimerTypes'
  BY <1>1, <1>2, <1>3, <1>4, <1>5 DEF TimerTypes
<1>7. NoneLost'
  <2>1. \A i \in Positions : tree'[i] # hand
    BY <1>1, <1>3, <1>4, <1>5 DEF NoneLost
  <2>2. \A t \in Timers : In(t)' \/ t = hand
    BY <1>1, <1>3, <1>5 DEF NoneLost
  <2> QED BY <2>1, <2>2, <1>1, <1>3, <1>5 DEF NoneLost
<1>8. SiftsInside'
  BY <1>2, <1>3, <1>4, <1>5 DEF SiftsInside
<1> DEFINE K(k) == expire[tree'[k]]
<1>9. \A k \in Positions : Key(k) \in Int
  BY <1>1 DEF TimerTypes, Positions, Key
<1>10. K(c) = Key(pos) /\ K(pos) = Key(c) /\ \A k \in Positions \ {c, pos} : K(k) = Key(k)
  BY <1>5 DEF Key
<1>11. Ordered'
  <2> SUFFICES ASSUME NEW i \in Positions, i > 1
               PROVE  /\ Parent(i) = c \/ K(Parent(i)) <= K(i)
                      /\ Parent(i) = c => K(Parent(c)) <= K(i)
    BY <1>2, <1>3, <1>4, <1>5 DEF Ordered, Key, Parent
  <2>1. i \in Nat /\ Parent(i) \in Positions /\ Parent(i) < i
    BY Halves DEF Positions
  <2>2. Parent(i) # pos => Key(Parent(i)) <= Key(i)
    BY <1>1, <1>3 DEF Ordered
  <2>3. Parent(i) = pos /\ pos > 1 => Key(Parent(pos)) <= Key(i)
    BY <1>1, <1>3 DEF Ordered
  <2>4. Key(c) < Key(pos)
    BY <1>2 DEF Below, Earlier, Key
  <2>5. CASE Parent(i) = c
    <3>1. i # c /\ i # pos BY <2>5, <2>1, <1>4
    <3>2. K(i) = Key(i) BY <3>1, <1>10
    <3>3. Key(c) <= Key(i) BY <2>2, <2>5, <1>4
    <3> QED BY <2>5, <3>2, <3>3, <1>10, <1>4
  <2>6. CASE Parent(i) = pos
    <3>1. CASE i = c
      BY <3>1, <2>4, <1>9, <1>10, <1>4
    <3>2. CASE i # c
      <4>1. i \in Children
        BY <2>6, <2>1, Halves DEF Children, Positions
      <4>2. IF i < c THEN Key(c) < Key(i) ELSE ~(Key(i) < Key(c))
        BY <4>1, <3>2, <1>2 DEF Below, Earlier, Key
      <4>3. K(i) = Key(i) BY <3>2, <2>6, <2>1, <1>10
      <4> QED BY <4>2, <4>3, <2>6, <1>9, <1>10, <1>4
    <3> QED BY <3>1, <3>2
  <2>7. CASE i = pos
    <3>1. Parent(i) # c /\ Parent(i) # pos /\ Parent(c) = pos BY <2>7, <2>1, <1>4
    <3>2. K(Parent(i)) = Key(Parent(i)) BY <3>1, <2>1, <1>10
    <3>3. pos > 1 => Key(Parent(pos)) <= Key(c)
      BY <1>1, <1>3, <1>4 DEF Ordered
    <3> QED BY <3>1, <3>2, <3>3, <2>7, <1>10
  <2>8. CASE Parent(i) # c /\ Parent(i) # pos /\ i # pos
    <3>1. i # c BY <2>8, <1>4
    <3>2. K(i) = Key(i) /\ K(Parent(i)) = Key(Parent(i)) BY <3>1, <2>8, <2>1, <1>10
    <3> QED BY <3>2, <2>8, <2>2
  <2> QED BY <2>5, <2>6, <2>7, <2>8
<1>12. ServedFirst'
  BY <1>1, <1>3, <1>4, <1>5, <1>10 DEF ServedFirst, Key
<1>13. Enough'
  <2>1. DueSet' = DueSet BY <1>3, <1>5, DueKept
  <2> QED BY <2>1, <1>1, <1>3 DEF Enough
<1> QED BY <1>5, <1>6, <1>7, <1>8, <1>11, <1>12, <1>13 DEF TimerInv

LEMMA PopKeeps == ASSUME TimerInv, Pop PROVE TimerInv'
<1> USE TimersAssumption
<1> DEFINE n == Len(tree)
<1>1. TimerTypes /\ Placed /\ NoneLost /\ SiftsInside /\ Ordered /\ ServedFirst /\ Enough
  BY DEF TimerInv
<1>2. /\ place = "pass" /\ left > 0 /\ n > 0 /\ expire[tree[1]] <= seen
      /\ hand' = tree[1] /\ left' = left - 1
      /\ tree' = IF n = 1 THEN <<>> ELSE [i \in 1..(n - 1) |-> IF i = 1 THEN tree[n] ELSE tree[i]]
      /\ index' = IF n = 1 THEN index ELSE [index EXCEPT ![tree[n]] = 1]
      /\ pos' = 1 /\ place' = "down"
      /\ UNCHANGED <<expire, seen>>
  BY DEF Pop, Due
<1>3. n \in Nat /\ \A i \in Positions : tree[i] \in Timers
  BY <1>1 DEF TimerTypes, Positions
<1>20. place' = "down" /\ pos' = 1
  BY <1>2
<1>21. n = 1 \/ n > 1
  <2>1. n \in Nat /\ n > 0 BY <1>2, <1>3
  <2> HIDE DEF n
  <2> QED BY <2>1
<1>4. tree' \in Seq(Timers) /\ Len(tree') = n - 1
  <2>1. CASE n = 1
    BY <2>1, <1>2
  <2>2. CASE n # 1
    <3> DEFINE q == [i \in 1..(n - 1) |-> IF i = 1 THEN tree[n] ELSE tree[i]]
    <3>1. n - 1 \in Nat /\ \A i \in 1..(n - 1) : q[i] \in Timers
      BY <2>2, <1>2, <1>3 DEF Positions
    <3>2. q \in Seq(Timers) /\ Len(q) = n - 1
      BY <3>1
    <3> QED BY <3>2, <2>2, <1>2
  <2> QED BY <2>1, <2>2
<1>5. Positions' = 1..(n - 1) /\ (\A i \in 1..(n - 1) : i \in Positions)
  BY <1>3, <1>4 DEF Positions
<1>6. \A i \in 1..(n - 1) : tree'[i] = IF i = 1 THEN tree[n] ELSE tree[i]
  BY <1>2, <1>3
<1>7. n \in Positions /\ 1 \in Positions
  BY <1>2, <1>3 DEF Positions
<1>8. \A t \in Timers : index'[t] = IF n > 1 /\ t = tree[n] THEN 1 ELSE index[t]
  <2>1. index \in [Timers -> Nat] /\ tree[n] \in Timers
    BY <1>1, <1>3, <1>7 DEF TimerTypes
  <2>2. CASE n = 1
    BY <2>2, <1>2
  <2>3. CASE n # 1
    <3>1. index' = [index EXCEPT ![tree[n]] = 1]
      BY <2>3, <1>2
    <3> QED BY <3>1, <2>1, <2>3, <1>21
  <2> QED BY <2>2, <2>3
<1>9. TimerTypes'
  BY <1>1, <1>2, <1>3, <1>4, <1>7 DEF TimerTypes, Places
<1>10. Placed'
  <2> SUFFICES ASSUME NEW i \in 1..(n - 1) PROVE index'[tree'[i]] = i
    BY <1>5 DEF Placed
  <2>1. CASE i = 1
    BY <2>1, <1>3, <1>6, <1>7, <1>8
  <2>2. CASE i # 1
    <3>1. i \in Positions /\ i # n /\ index[tree[i]] = i /\ index[tree[n]] = n
      BY <1>1, <1>3, <1>5, <1>7 DEF Placed
    <3> QED BY <3>1, <2>2, <1>3, <1>6, <1>8
  <2> QED BY <2>1, <2>2
<1>11. \A i \in 1..(n - 1) : tree'[i] # tree[1]
  <2> TAKE i \in 1..(n - 1)
  <2>1. \A k, m \in Positions : tree[k] = tree[m] => k = m
    BY <1>1 DEF Placed
  <2> QED BY <2>1, <1>2, <1>3, <1>5, <1>6, <1>7
<1>12. \A t \in Timers : In(t)' <=> In(t) /\ t # hand'
  <2> SUFFICES ASSUME NEW t \in Timers
               PROVE  (index'[t] \in 1..(n - 1) /\ tree'[index'[t]] = t) <=> (In(t) /\ t # tree[1])
    BY <1>2, <1>5 DEF In
  <2>1. CASE n = 1
    BY <2>1, <1>1, <1>3 DEF In, Positions, TimerTypes
  <2>2. CASE n > 1 /\ t = tree[n]
    <3>1. In(t) /\ t # tree[1]
      BY <2>2, <1>1, <1>3, <1>7 DEF In, Placed
    <3>2. index'[t] = 1 /\ 1 \in 1..(n - 1) /\ tree'[1] = t
      BY <2>2, <1>3, <1>6, <1>8
    <3> QED BY <3>1, <3>2
  <2>3. CASE n > 1 /\ t # tree[n]
    <3>1. index'[t] = index[t]
      BY <2>3, <1>8
    <3>2. ASSUME index[t] \in 1..(n - 1), tree'[index[t]] = t PROVE In(t) /\ t # tree[1]
      BY <3>2, <2>3, <1>5, <1>6, <1>11 DEF In
    <3>3. ASSUME In(t), t # tree[1] PROVE index[t] \in 1..(n - 1) /\ tree'[index[t]] = t
      BY <3>3, <2>3, <1>3, <1>6 DEF In, Positions
    <3> QED BY <3>1, <3>2, <3>3
  <2> HIDE DEF n
  <2> QED BY <2>1, <2>2, <2>3, <1>21
<1>13. NoneLost'
  <2>1. hand' \in Timers /\ hand' # None
    BY <1>2, <1>3, <1>7
  <2>2. \A i \in Positions' : tree'[i] # hand'
    BY <1>2, <1>5, <1>11
  <2>3. \A t \in Timers : In(t)
    BY <1>1, <1>2 DEF NoneLost
  <2>4. \A t \in Timers : In(t)' \/ t = hand'
    BY <2>3, <1>12
  <2> QED BY <2>1, <2>2, <2>4, <1>2 DEF NoneLost
<1>14. SiftsInside'
  BY <1>2 DEF SiftsInside
<1>15. \A i \in Positions : Key(i) \in Int /\ (i > 1 => Key(Parent(i)) <= Key(i)) /\ Key(1) <= Key(i)
  <2>1. \A i \in Positions : i > 1 => Key(Parent(i)) <= Key(i)
    BY <1>1, <1>2 DEF Ordered
  <2>2. \A i \in Positions : Key(1) <= Key(i)
    BY <1>1, <2>1, RootIsEarliest
  <2> QED BY <2>1, <2>2, <1>1, <1>3 DEF Key, TimerTypes
<1>16. Ordered'
  <2>1. ASSUME NEW i \in 1..(n - 1), i > 1
        PROVE  Parent(i) = 1 \/ expire[tree'[Parent(i)]] <= expire[tree'[i]]
    <3>1. Parent(i) \in 1..(n - 1) /\ i \in Positions
      BY <2>1, <1>3, <1>5, Halves
    <3> QED BY <2>1, <3>1, <1>6, <1>15 DEF Key
  <2>2. expire' = expire BY <1>2
  <2> QED BY <2>1, <2>2, <1>5, <1>20 DEF Ordered, Key, Parent
<1>17. ServedFirst'
  <2>1. \A i \in 1..(n - 1) : Key(1) <= expire[tree'[i]]
    BY <1>5, <1>6, <1>7, <1>15 DEF Key
  <2> QED BY <2>1, <1>2, <1>5 DEF ServedFirst, Key
<1>18. Enough'
  <2>1. In(tree[1]) /\ tree[1] \in DueSet
    BY <1>1, <1>2, <1>3, <1>7 DEF In, Placed, DueSet
  <2>2. DueSet' = DueSet \ {tree[1]}
    BY <1>2, <1>12 DEF DueSet
  <2>3. IsFiniteSet(DueSet) /\ Cardinality(DueSet) \in Nat
    BY <1>1, HeapHolds
  <2>4. Cardinality(DueSet') = Cardinality(DueSet) - 1
    BY <2>1, <2>2, <2>3, FS_RemoveElement
  <2>5. Cardinality(DueSet) <= left
    BY <1>1, <1>2 DEF Enough
  <2> QED BY <2>3, <2>4, <2>5, <1>1, <1>2 DEF Enough, TimerTypes
<1> QED BY <1>9, <1>10, <1>13, <1>14, <1>16, <1>17, <1>18 DEF TimerInv

\* A timer that is in nobody's hand but the loop's is appended.
LEMMA ArmKeeps ==
  ASSUME TimerInv, NEW t \in Timers, ~In(t), Arm(t), UNCHANGED <<hand, seen, left>>,
         \/ place = "setup" /\ hand = None
         \/ place = "call" /\ t = hand
  PROVE  TimerInv'
<1> USE TimersAssumption
<1> DEFINE n == Len(tree)
<1>1. TimerTypes /\ Placed /\ NoneLost /\ SiftsInside /\ Ordered /\ ServedFirst /\ Enough
  BY DEF TimerInv
<1>2. /\ expire' = [expire EXCEPT ![t] = Period[t]] /\ tree' = Append(tree, t)
      /\ index' = [index EXCEPT ![t] = n + 1] /\ pos' = n + 1 /\ place' = "up"
      /\ hand' = hand /\ seen' = seen /\ left' = left
  BY DEF Arm
<1>3. n \in Nat /\ \A i \in Positions : tree[i] \in Timers
  BY <1>1 DEF TimerTypes, Positions
<1>4. tree' \in Seq(Timers) /\ Len(tree') = n + 1 /\ tree'[n + 1] = t
      /\ \A i \in 1..n : tree'[i] = tree[i]
  BY <1>1, <1>2 DEF TimerTypes
<1>5. Positions' = 1..(n + 1) /\ Positions = 1..n
  BY <1>4 DEF Positions
<1>6. index'[t] = n + 1 /\ \A u \in Timers \ {t} : index'[u] = index[u]
  BY <1>1, <1>2 DEF TimerTypes
<1>7. expire'[t] = Period[t] /\ \A u \in Timers \ {t} : expire'[u] = expire[u]
  BY <1>1, <1>2 DEF TimerTypes
<1>8. Period[t] \in Nat \ {0}
  OBVIOUS
<1>9. TimerTypes'
  BY <1>1, <1>2, <1>3, <1>4, <1>8 DEF TimerTypes, Places
<1>10. \A i \in Positions : tree[i] # t
  BY <1>1 DEF Placed, In
<1>11. Placed'
  <2> SUFFICES ASSUME NEW i \in 1..(n + 1) PROVE index'[tree'[i]] = i
    BY <1>5 DEF Placed
  <2>1. CASE i = n + 1
    BY <2>1, <1>4, <1>6
  <2>2. CASE i # n + 1
    <3>1. i \in 1..n BY <2>2, <1>3
    <3> QED BY <3>1, <1>1, <1>3, <1>4, <1>5, <1>6, <1>10 DEF Placed
  <2> QED BY <2>1, <2>2
<1>12. \A u \in Timers : In(u)' <=> In(u) \/ u = t
  <2> TAKE u \in Timers
  <2>1. CASE u = t
    BY <2>1, <1>3, <1>4, <1>5, <1>6 DEF In
  <2>2. CASE u # t
    <3>1. index'[u] = index[u] /\ index[u] \in Nat BY <2>2, <1>1, <1>6 DEF TimerTypes
    <3>2. index[u] = n + 1 => tree'[index[u]] # u BY <2>2, <1>4
    <3> QED BY <2>2, <3>1, <3>2, <1>3, <1>4, <1>5 DEF In
  <2> QED BY <2>1, <2>2
<1>13. NoneLost'
  <2> SUFFICES ASSUME NEW u \in Timers PROVE In(u)' \/ (hand' = None /\ index'[u] = 0)
    BY <1>2 DEF NoneLost
  <2> QED BY <1>1, <1>2, <1>6, <1>12 DEF NoneLost
<1>14. SiftsInside'
  BY <1>2, <1>3, <1>5 DEF SiftsInside
<1>15. Ordered'
  <2>1. ASSUME NEW i \in 1..(n + 1), i > 1, i # n + 1
        PROVE  expire'[tree'[Parent(i)]] <= expire'[tree'[i]] /\ Parent(i) # n + 1
    <3>1. i \in Positions /\ Parent(i) \in Positions
      BY <2>1, <1>3, <1>5, Halves
    <3>2. Key(Parent(i)) <= Key(i)
      BY <2>1, <3>1, <1>1 DEF Ordered
    <3>3. tree'[i] = tree[i] /\ tree'[Parent(i)] = tree[Parent(i)]
      BY <3>1, <1>4, <1>5
    <3>4. expire'[tree[i]] = expire[tree[i]] /\ expire'[tree[Parent(i)]] = expire[tree[Parent(i)]]
      BY <3>1, <1>3, <1>7, <1>10
    <3> QED BY <3>1, <3>2, <3>3, <3>4, <1>3, <1>5 DEF Key
  <2>2. Parent(n + 1) # n + 1
    BY <1>3 DEF Parent
  <2>3. place' = "up" /\ pos' = n + 1
    BY <1>2
  <2>4. ASSUME NEW i \in Positions', i > 1
        PROVE  (i = n + 1 \/ expire'[tree'[Parent(i)]] <= expire'[tree'[i]]) /\ Parent(i) # n + 1
    BY <2>1, <2>2, <2>4, <1>5
  <2> QED BY <2>3, <2>4 DEF Ordered, Key, Parent
<1>16. ServedFirst'
  BY <1>2 DEF ServedFirst
<1>17. Enough'
  <2>1. seen <= 0 /\ seen \in Int BY <1>1 DEF Enough, TimerTypes
  <2>2. ~(expire'[t] <= seen) BY <2>1, <1>7, <1>8
  <2>3. DueSet' = DueSet
    <3> SUFFICES ASSUME NEW u \in Timers
                 PROVE  (In(u)' /\ expire'[u] <= seen) <=> (In(u) /\ expire[u] <= seen)
      BY <1>2 DEF DueSet
    <3> QED BY <2>2, <1>7, <1>12
  <2>4. hand # None => place = "call"
    BY <1>1 DEF NoneLost
  <2> QED BY <2>1, <2>3, <2>4, <1>1, <1>2 DEF Enough
<1> QED BY <1>9, <1>11, <1>13, <1>14, <1>15, <1>16, <1>17 DEF TimerInv

LEMMA SetupKeeps == ASSUME TimerInv, Setup PROVE TimerInv'
<1>1. place = "setup" /\ UNCHANGED <<hand, seen, left>>
  BY DEF Setup
<1>2. PICK t \in Timers : index[t] = 0 /\ Arm(t)
  BY DEF Setup
<1>3. hand = None
  BY <1>1 DEF TimerInv, NoneLost
<1>4. ~In(t)
  BY <1>2 DEF In, Positions
<1> QED BY <1>1, <1>2, <1>3, <1>4, ArmKeeps

LEMMA RearmKeeps == ASSUME TimerInv, Rearm PROVE TimerInv'
<1>1. place = "call" /\ Arm(hand) /\ UNCHANGED <<hand, seen, left>>
  BY DEF Rearm
<1>2. hand \in Timers /\ \A i \in Positions : tree[i] # hand
  BY <1>1 DEF TimerInv, NoneLost, TimerTypes
<1>3. ~In(hand)
  BY <1>2 DEF In
<1> QED BY <1>1, <1>2, <1>3, ArmKeeps

\* All the instants go down together.
LEMMA TickKeeps == ASSUME TimerInv, Tick PROVE TimerInv'
<1>1. TimerTypes /\ Placed /\ NoneLost /\ SiftsInside /\ Ordered /\ ServedFirst /\ Enough
  BY DEF TimerInv
<1>2. /\ expire' = [t \in Timers |-> expire[t] - 1]
      /\ seen' = IF place \in {"setup", "loop"} THEN seen ELSE seen - 1
      /\ UNCHANGED <<tree, index, place, pos, hand, left>>
  BY DEF Tick
<1>3. Positions' = Positions /\ \A t \in Timers : In(t)' <=> In(t)
  BY <1>2 DEF Positions, In
<1>4. TimerTypes'
  BY <1>1, <1>2 DEF TimerTypes
<1>5. Placed' /\ SiftsInside' /\ NoneLost'
  BY <1>1, <1>2, <1>3 DEF Placed, SiftsInside, NoneLost
<1>6. \A i \in Positions : Key(i) \in Int /\ expire'[tree'[i]] = Key(i) - 1
  BY <1>1, <1>2 DEF TimerTypes, Positions, Key
<1>7. Ordered'
  <2>1. ASSUME NEW i \in Positions, i > 1
        PROVE  /\ (place = "up" /\ i = pos) \/ (place = "down" /\ Parent(i) = pos)
                  \/ expire'[tree'[Parent(i)]] <= expire'[tree'[i]]
               /\ place \in {"up", "down"} /\ Parent(i) = pos /\ pos > 1 =>
                    expire'[tree'[Parent(pos)]] <= expire'[tree'[i]]
    <3>1. Parent(i) \in Positions /\ (Parent(i) = pos /\ pos > 1 => Parent(pos) \in Positions)
      BY <2>1, Halves DEF Positions
    <3> QED BY <2>1, <3>1, <1>1, <1>6 DEF Ordered
  <2> QED BY <2>1, <1>2, <1>3 DEF Ordered, Key, Parent
<1>8. ServedFirst'
  <2>1. CASE place \in {"down", "call"}
    <3>1. hand \in Timers /\ expire[hand] \in Int /\ expire'[hand] = expire[hand] - 1
      BY <2>1, <1>1, <1>2 DEF NoneLost, TimerTypes
    <3>2. expire[hand] <= seen /\ seen \in Int /\ \A i \in Positions : expire[hand] <= Key(i)
      BY <2>1, <1>1 DEF ServedFirst, TimerTypes
    <3>3. seen' = seen - 1 /\ hand' = hand
      BY <2>1, <1>2
    <3> QED BY <3>1, <3>2, <3>3, <1>3, <1>6 DEF ServedFirst, Key
  <2>2. CASE place \notin {"down", "call"}
    BY <2>2, <1>2 DEF ServedFirst
  <2> QED BY <2>1, <2>2
<1>9. Enough'
  <2>1. seen \in Int /\ seen <= 0 /\ seen' <= 0
    BY <1>1, <1>2 DEF Enough, TimerTypes
  <2>2. CASE place \in {"setup", "loop"}
    BY <2>1, <2>2, <1>2 DEF Enough
  <2>3. CASE place \notin {"setup", "loop"}
    <3>1. DueSet' = DueSet
      <4> SUFFICES ASSUME NEW t \in Timers
                   PROVE  (In(t)' /\ expire'[t] <= seen') <=> (In(t) /\ expire[t] <= seen)
        BY DEF DueSet
      <4>1. expire[t] \in Int /\ expire'[t] = expire[t] - 1 /\ seen' = seen - 1
        BY <2>3, <1>1, <1>2 DEF TimerTypes
      <4> QED BY <4>1, <2>1, <1>3
    <3> QED BY <2>1, <3>1, <1>1, <1>2 DEF Enough
  <2> QED BY <2>2, <2>3
<1> QED BY <1>4, <1>5, <1>7, <1>8, <1>9 DEF TimerInv

\* A pass ends when no timer is due, whether or not it has served all it may.
LEMMA ServedClears ==
  ASSUME TimerInv, Served
  PROVE  \A t \in Timers : expire[t] > seen
<1>1. TimerTypes /\ Placed /\ NoneLost /\ Ordered /\ Enough
  BY DEF TimerInv
<1>2. place = "pass" /\ ~Due
  BY DEF Served
<1> TAKE t \in Timers
<1>3. In(t)
  BY <1>1, <1>2 DEF NoneLost
<1>4. expire[t] \in Int /\ seen \in Int /\ left \in Nat /\ Len(tree) \in Nat
  BY <1>1 DEF TimerTypes
<1>5. Len(tree) > 0 /\ 1 \in Positions
  BY <1>3, <1>4 DEF In, Positions
<1>6. CASE left = 0
  <2>1. IsFiniteSet(DueSet) /\ Cardinality(DueSet) \in Nat /\ Cardinality(DueSet) <= left
    BY <1>1, <1>2, HeapHolds DEF Enough
  <2>2. DueSet = {}
    BY <2>1, <1>6, FS_EmptySet
  <2> QED BY <2>2, <1>3, <1>4 DEF DueSet
<1>7. CASE left > 0
  <2>1. ~(expire[tree[1]] <= seen)
    BY <1>2, <1>5, <1>7 DEF Due
  <2>2. \A i \in Positions : Key(1) <= Key(i)
    BY <1>1, <1>2, RootIsEarliest DEF Ordered
  <2>3. Key(1) <= expire[t] /\ Key(1) \in Int
    BY <2>2, <1>1, <1>3, <1>5 DEF In, Key, TimerTypes, Positions
  <2> QED BY <2>1, <2>3, <1>4 DEF Key
<1> QED BY <1>4, <1>6, <1>7

-----------------------------------------------------------------------------
(* The endpoint.                                                           *)

EndpointTypes ==
  /\ off \in Int /\ mask \in BOOLEAN /\ reg \in BOOLEAN
  /\ wat \in [Writers -> {"idle", "copy", "load", "add", "watch", "build", "register"}]
  /\ size \in [Writers -> Nat] /\ tmp \in [Writers -> Int]
  /\ lat \in {"poll", "frame", "write", "left", "keep", "unwatch", "build", "register"}
  /\ out \in BOOLEAN /\ sent \in Int /\ rest \in 0..(Half - Chunk)
  /\ spilled \in BOOLEAN /\ tangled \in BOOLEAN

\* Who is inside is there alone, unless somebody entered meanwhile.
OneInside ==
  ~tangled =>
    /\ \A v, w \in Storing : v = w
    /\ Sending => Storing = {}

\* One who stores alone finds everything as it was left.
StoresAlone ==
  ~tangled => \A w \in Writers :
    /\ wat[w] = "add" => tmp[w] = off
    /\ wat[w] = "build" => mask
    /\ wat[w] = "register" => mask /\ tmp[w] = 1

\* The loop, sending alone, leaves nothing.
SendsAlone ==
  ~tangled =>
    /\ lat = "left" => sent = off
    /\ lat = "keep" => sent = 0
    /\ lat \in {"unwatch", "build", "register"} => off = 0

EndpointInv == EndpointTypes /\ OneInside /\ StoresAlone /\ SendsAlone /\ Watched

LEMMA EndpointStarts == EndpointInit => EndpointInv
<1> SUFFICES ASSUME EndpointInit PROVE EndpointInv
  OBVIOUS
<1> USE EndpointAssumption
<1>1. /\ off = 0 /\ mask = TRUE /\ reg = TRUE /\ lat = "poll" /\ out = FALSE /\ sent = 0 /\ rest = 0
      /\ spilled = FALSE /\ tangled = FALSE
      /\ wat = [w \in Writers |-> "idle"]
      /\ size = [w \in Writers |-> 0] /\ tmp = [w \in Writers |-> 0]
  BY DEF EndpointInit
<1>2. EndpointTypes
  <2>1. 0 \in Int /\ 0 \in Nat /\ 0 \in 0..(Half - Chunk)
    OBVIOUS
  <2> QED BY <1>1, <2>1 DEF EndpointTypes
<1>3. Storing = {} /\ ~Sending
  BY <1>1 DEF Storing, Sending
<1>4. OneInside /\ StoresAlone /\ SendsAlone /\ Watched
  BY <1>1, <1>3 DEF OneInside, StoresAlone, SendsAlone, Watched
<1> QED BY <1>2, <1>4 DEF EndpointInv

LEMMA StoreKeeps == ASSUME EndpointInv, NEW w \in Writers, Store(w) PROVE EndpointInv'
<1> USE EndpointAssumption
<1>1. EndpointTypes
  BY DEF EndpointInv
<1>2. /\ wat[w] = "idle"
      /\ wat' = [wat EXCEPT ![w] = "copy"]
      /\ tangled' = Inside
      /\ UNCHANGED <<off, mask, reg, tmp, lat, out, sent, rest, spilled>>
  BY DEF Store
<1>3. EndpointTypes'
  <2>1. PICK n \in Sizes[w] : size' = [size EXCEPT ![w] = n]
    BY DEF Store
  <2>2. n \in Nat
    BY <2>1
  <2>3. size' \in [Writers -> Nat]
    BY <1>1, <2>1, <2>2 DEF EndpointTypes
  <2> QED BY <1>1, <1>2, <2>3 DEF EndpointTypes, Inside
<1>4. Storing' = Storing \union {w}
  BY <1>1, <1>2 DEF Storing, EndpointTypes
<1>5. ~tangled' => Storing = {} /\ ~Sending /\ ~Sending'
  BY <1>2 DEF Inside, Sending
<1>6. OneInside'
  BY <1>4, <1>5 DEF OneInside
<1>7. StoresAlone'
  <2>1. ~tangled' => \A v \in Writers \ {w} : wat'[v] = "idle"
    BY <1>1, <1>2, <1>5 DEF Storing, EndpointTypes
  <2>2. wat'[w] = "copy"
    BY <1>1, <1>2 DEF EndpointTypes
  <2> QED BY <2>1, <2>2 DEF StoresAlone
<1>8. SendsAlone' /\ Watched'
  BY <1>4, <1>5 DEF SendsAlone, Sending, Watched, Inside
<1> QED BY <1>3, <1>6, <1>7, <1>8 DEF EndpointInv

\* A step of one who is inside, who may leave.
LEMMA InsideKeeps ==
  ASSUME EndpointInv, NEW w \in Writers, wat[w] # "idle",
         NEW next \in {"idle", "copy", "load", "add", "watch", "build", "register"},
         wat' = [wat EXCEPT ![w] = next],
         UNCHANGED <<lat, out, sent, rest, tangled>>
  PROVE  /\ OneInside' /\ Storing' \subseteq Storing
         /\ ~tangled => ~Sending /\ \A v \in Writers \ {w} : wat'[v] = "idle"
         /\ SendsAlone'
         /\ next # "idle" => Watched'
         /\ ~tangled /\ next = "idle" => ~Inside'
<1>1. EndpointTypes /\ OneInside
  BY DEF EndpointInv
<1>2. Storing' \subseteq Storing /\ w \in Storing /\ (next # "idle" => w \in Storing')
      /\ (next = "idle" => w \notin Storing')
  BY <1>1 DEF Storing, EndpointTypes
<1>3. Sending' = Sending
  BY DEF Sending
<1>4. OneInside'
  BY <1>1, <1>2, <1>3 DEF OneInside
<1>5. ~tangled => ~Sending /\ \A v \in Writers \ {w} : wat'[v] = "idle"
  BY <1>1, <1>2 DEF OneInside, Storing, EndpointTypes
<1>6. SendsAlone'
  BY <1>5 DEF SendsAlone, Sending
<1>7. next # "idle" => Watched'
  BY <1>2 DEF Watched, Inside
<1>8. ~tangled /\ next = "idle" => ~Inside'
  BY <1>1, <1>2, <1>3, <1>5 DEF Inside, OneInside
<1> QED BY <1>2, <1>4, <1>5, <1>6, <1>7, <1>8

LEMMA WriterKeeps == ASSUME EndpointInv, NEW w \in Writers, WriterStep(w) PROVE EndpointInv'
<1> USE EndpointAssumption
<1>1. EndpointTypes /\ OneInside /\ StoresAlone
  BY DEF EndpointInv
<1>2. CASE Add(w)
  <2>1. /\ wat[w] = "add" /\ off' = tmp[w] + size[w]
        /\ wat' = [wat EXCEPT ![w] = "watch"]
        /\ size' = [size EXCEPT ![w] = 0] /\ tmp' = [tmp EXCEPT ![w] = 0]
        /\ UNCHANGED <<mask, reg, lat, out, sent, rest, spilled, tangled>>
    BY <1>2 DEF Add
  <2>2. OneInside' /\ SendsAlone' /\ Watched'
        /\ (~tangled => \A v \in Writers \ {w} : wat'[v] = "idle")
    BY <2>1, InsideKeeps
  <2>3. EndpointTypes'
    BY <1>1, <2>1 DEF EndpointTypes
  <2>4. StoresAlone'
    BY <1>1, <2>1, <2>2 DEF StoresAlone, EndpointTypes
  <2> QED BY <2>2, <2>3, <2>4 DEF EndpointInv
<1>3. CASE Watch(w)
  <2>1. /\ wat[w] = "watch" /\ mask' = TRUE
        /\ wat' = [wat EXCEPT ![w] = "build"]
        /\ UNCHANGED <<off, reg, size, tmp, lat, out, sent, rest, spilled, tangled>>
    BY <1>3 DEF Watch
  <2>2. OneInside' /\ SendsAlone' /\ Watched'
        /\ (~tangled => \A v \in Writers \ {w} : wat'[v] = "idle")
    BY <2>1, InsideKeeps
  <2>3. EndpointTypes'
    BY <1>1, <2>1 DEF EndpointTypes
  <2>4. StoresAlone'
    BY <1>1, <2>1, <2>2 DEF StoresAlone, EndpointTypes
  <2> QED BY <2>2, <2>3, <2>4 DEF EndpointInv
<1>4. CASE Build(w)
  <2>1. /\ wat[w] = "build"
        /\ wat' = [wat EXCEPT ![w] = "register"]
        /\ tmp' = [tmp EXCEPT ![w] = IF mask THEN 1 ELSE 0]
        /\ UNCHANGED <<off, mask, reg, size, lat, out, sent, rest, spilled, tangled>>
    BY <1>4 DEF Build
  <2>2. OneInside' /\ SendsAlone' /\ Watched'
        /\ (~tangled => \A v \in Writers \ {w} : wat'[v] = "idle")
    BY <2>1, InsideKeeps
  <2>3. EndpointTypes'
    BY <1>1, <2>1 DEF EndpointTypes
  <2>4. ~tangled => mask
    BY <1>1, <2>1 DEF StoresAlone
  <2>5. StoresAlone'
    BY <1>1, <2>1, <2>2, <2>4 DEF StoresAlone, EndpointTypes
  <2> QED BY <2>2, <2>3, <2>5 DEF EndpointInv
<1>5. CASE Register(w)
  <2>1. /\ wat[w] = "register" /\ reg' = (tmp[w] = 1)
        /\ wat' = [wat EXCEPT ![w] = "idle"] /\ tmp' = [tmp EXCEPT ![w] = 0]
        /\ UNCHANGED <<off, mask, size, lat, out, sent, rest, spilled, tangled>>
    BY <1>5 DEF Register
  <2>2. OneInside' /\ SendsAlone'
        /\ (~tangled => \A v \in Writers \ {w} : wat'[v] = "idle")
    BY <2>1, InsideKeeps
  <2>3. EndpointTypes'
    BY <1>1, <2>1 DEF EndpointTypes
  <2>4. ~tangled => mask /\ tmp[w] = 1
    BY <1>1, <2>1 DEF StoresAlone
  <2>5. Watched'
    BY <2>1, <2>4 DEF Watched
  <2>6. StoresAlone'
    BY <1>1, <2>1, <2>2 DEF StoresAlone, EndpointTypes
  <2> QED BY <2>2, <2>3, <2>5, <2>6 DEF EndpointInv
<1>6. CASE Copy(w)
  <2>1. /\ wat[w] = "copy" /\ spilled' \in BOOLEAN
        /\ wat' = [wat EXCEPT ![w] = "load"]
        /\ UNCHANGED <<off, mask, reg, size, tmp, lat, out, sent, rest, tangled>>
    BY <1>6 DEF Copy
  <2>2. OneInside' /\ SendsAlone' /\ Watched'
        /\ (~tangled => \A v \in Writers \ {w} : wat'[v] = "idle")
    BY <2>1, InsideKeeps
  <2>3. EndpointTypes'
    BY <1>1, <2>1 DEF EndpointTypes
  <2>4. StoresAlone'
    BY <1>1, <2>1, <2>2 DEF StoresAlone, EndpointTypes
  <2> QED BY <2>2, <2>3, <2>4 DEF EndpointInv
<1>7. CASE Load(w)
  <2>1. /\ wat[w] = "load"
        /\ wat' = [wat EXCEPT ![w] = "add"] /\ tmp' = [tmp EXCEPT ![w] = off]
        /\ UNCHANGED <<off, mask, reg, size, lat, out, sent, rest, spilled, tangled>>
    BY <1>7 DEF Load
  <2>2. OneInside' /\ SendsAlone' /\ Watched'
        /\ (~tangled => \A v \in Writers \ {w} : wat'[v] = "idle")
    BY <2>1, InsideKeeps
  <2>3. EndpointTypes'
    BY <1>1, <2>1 DEF EndpointTypes
  <2>4. StoresAlone'
    BY <1>1, <2>1, <2>2 DEF StoresAlone, EndpointTypes
  <2> QED BY <2>2, <2>3, <2>4 DEF EndpointInv
<1> QED BY <1>2, <1>3, <1>4, <1>5, <1>6, <1>7 DEF WriterStep

\* The loop outside of the sending.
LEMMA RoundKeeps ==
  ASSUME EndpointInv, Poll \/ Read \/ Frame \/ Skip \/ SendFails
  PROVE  EndpointInv'
<1> USE EndpointAssumption
<1>1. EndpointTypes /\ OneInside /\ StoresAlone /\ Watched
  BY DEF EndpointInv
<1>2. /\ lat \in {"poll", "frame", "write"} /\ lat' \in {"poll", "frame", "write"}
      /\ out' \in BOOLEAN
      /\ UNCHANGED <<off, mask, reg, wat, size, tmp, sent, spilled, tangled>>
  BY <1>1 DEF Poll, Read, Frame, Skip, SendFails, EndpointTypes, stores
<1>3. rest' \in 0..(Half - Chunk)
  <2>1. CASE Read
    <3>1. PICK n \in Lengths : rest' = IF Received(n) = 0 THEN rest ELSE Left(Received(n))
      BY <2>1 DEF Read
    <3>2. n \in Nat /\ rest \in 0..(Half - Chunk)
      BY <1>1 DEF EndpointTypes
    <3>3. Received(n) \in 0..Half
      BY <3>2 DEF Received
    <3>4. Left(Received(n)) \in 0..(Half - Chunk)
      BY <3>3 DEF Left
    <3> QED BY <3>1, <3>2, <3>4
  <2>2. CASE ~Read
    BY <2>2, <1>1 DEF Poll, Frame, Skip, SendFails, EndpointTypes
  <2> QED BY <2>1, <2>2
<1>4. EndpointTypes'
  BY <1>1, <1>2, <1>3 DEF EndpointTypes
<1>5. Storing' = Storing /\ ~Sending /\ ~Sending'
  BY <1>2 DEF Storing, Sending
<1>6. OneInside' /\ StoresAlone' /\ SendsAlone' /\ Watched'
  BY <1>1, <1>2, <1>5 DEF OneInside, StoresAlone, SendsAlone, Watched, Inside
<1> QED BY <1>4, <1>6 DEF EndpointInv

LEMMA SendKeeps == ASSUME EndpointInv, Send PROVE EndpointInv'
<1> USE EndpointAssumption
<1>1. EndpointTypes
  BY DEF EndpointInv
<1>2. /\ lat = "write" /\ off >= 0 /\ sent' = off /\ lat' = "left" /\ out' = FALSE /\ tangled' = Inside
      /\ UNCHANGED <<off, mask, reg, wat, size, tmp, rest, spilled>>
  BY DEF Send, stores
<1>3. EndpointTypes'
  BY <1>1, <1>2 DEF EndpointTypes, Inside
<1>4. Storing' = Storing /\ Sending' /\ (~tangled' => Storing = {})
  BY <1>2 DEF Storing, Sending, Inside
<1>5. ~tangled' => \A w \in Writers : wat'[w] = "idle"
  BY <1>2, <1>4 DEF Storing
<1>6. OneInside' /\ StoresAlone' /\ SendsAlone' /\ Watched'
  BY <1>2, <1>4, <1>5 DEF OneInside, StoresAlone, SendsAlone, Watched, Inside
<1> QED BY <1>3, <1>6 DEF EndpointInv

\* The loop while it sends.
LEMMA SendingKeeps ==
  ASSUME EndpointInv, Subtract \/ Keep \/ Unwatch \/ LoopBuild \/ LoopRegister
  PROVE  EndpointInv'
<1> USE EndpointAssumption
<1>1. EndpointTypes /\ OneInside /\ StoresAlone /\ SendsAlone
  BY DEF EndpointInv
<1>2. Sending /\ UNCHANGED <<wat, size, tmp, out, rest, spilled, tangled>> /\ Storing' = Storing
  BY DEF stores, Subtract, Keep, Unwatch, LoopBuild, LoopRegister, Sending, Storing
<1>3. ~tangled => Storing = {} /\ \A w \in Writers : wat[w] = "idle"
  BY <1>1, <1>2 DEF OneInside, Storing
<1>4. OneInside' /\ StoresAlone'
  BY <1>2, <1>3 DEF OneInside, StoresAlone
<1>5. EndpointTypes'
  <2>1. CASE Subtract BY <2>1, <1>1, <1>2 DEF Subtract, EndpointTypes
  <2>2. CASE Keep BY <2>2, <1>1, <1>2 DEF Keep, EndpointTypes
  <2>3. CASE Unwatch BY <2>3, <1>1, <1>2 DEF Unwatch, EndpointTypes
  <2>4. CASE LoopBuild BY <2>4, <1>1, <1>2 DEF LoopBuild, EndpointTypes
  <2>5. CASE LoopRegister BY <2>5, <1>1, <1>2 DEF LoopRegister, EndpointTypes
  <2> QED BY <2>1, <2>2, <2>3, <2>4, <2>5
<1>6. SendsAlone' /\ Watched'
  <2>1. CASE Subtract
    <3>1. lat = "left" /\ lat' = "keep" /\ sent' = off - sent /\ off' = off
      BY <2>1 DEF Subtract
    <3>2. Sending' BY <3>1 DEF Sending
    <3> QED BY <3>1, <3>2, <1>1, <1>2 DEF SendsAlone, Watched, Inside, EndpointTypes
  <2>2. CASE Keep
    <3>1. lat = "keep" /\ off' = sent /\ lat' = IF sent = 0 THEN "unwatch" ELSE "poll"
      BY <2>2 DEF Keep
    <3>2. ~tangled => off' = 0
      BY <3>1, <1>1 DEF SendsAlone
    <3> QED BY <3>1, <3>2, <1>2 DEF SendsAlone, Watched
  <2>3. CASE Unwatch
    <3>1. lat = "unwatch" /\ lat' = "build" /\ off' = off
      BY <2>3 DEF Unwatch
    <3> QED BY <3>1, <1>1, <1>2 DEF SendsAlone, Watched
  <2>4. CASE LoopBuild
    <3>1. lat = "build" /\ lat' = "register" /\ off' = off
      BY <2>4 DEF LoopBuild
    <3> QED BY <3>1, <1>1, <1>2 DEF SendsAlone, Watched
  <2>5. CASE LoopRegister
    <3>1. lat = "register" /\ lat' = "poll" /\ off' = off
      BY <2>5 DEF LoopRegister
    <3> QED BY <3>1, <1>1, <1>2 DEF SendsAlone, Watched
  <2> QED BY <2>1, <2>2, <2>3, <2>4, <2>5
<1> QED BY <1>4, <1>5, <1>6 DEF EndpointInv

-----------------------------------------------------------------------------
(* The two together.                                                       *)

IndInv == TimerInv /\ EndpointInv /\ todo \in [Writers -> Nat]

LEMMA InitInd == Init => IndInv
<1> SUFFICES ASSUME Init PROVE IndInv
  OBVIOUS
<1> QED BY TimersStart, EndpointStarts DEF Init, IndInv

LEMMA TimersStay == ASSUME TimerInv, UNCHANGED timers PROVE TimerInv'
<1>1. UNCHANGED <<tree, index, expire, place, pos, hand, seen, left>>
  BY DEF timers
<1>2. Positions' = Positions /\ \A t \in Timers : In(t)' <=> In(t)
  BY <1>1 DEF Positions, In
<1>3. DueSet' = DueSet
  BY <1>1, <1>2, DueKept
<1> QED
  BY <1>1, <1>2, <1>3 DEF TimerInv, TimerTypes, Placed, NoneLost, SiftsInside, Ordered, ServedFirst, Enough, Key, Parent

LEMMA EndpointStays == ASSUME EndpointInv, UNCHANGED endpoint PROVE EndpointInv'
<1>1. UNCHANGED <<off, mask, reg, wat, size, tmp, lat, out, sent, rest, spilled, tangled>>
  BY DEF endpoint
<1>2. Storing' = Storing /\ (Sending' <=> Sending)
  BY <1>1 DEF Storing, Sending
<1> QED
  BY <1>1, <1>2 DEF EndpointInv, EndpointTypes, OneInside, StoresAlone, SendsAlone, Watched, Inside

LEMMA LoadsKeeps == ASSUME IndInv, NEW w \in Writers, Loads(w) PROVE IndInv'
<1>1. TimerInv /\ EndpointInv /\ todo \in [Writers -> Nat]
  BY DEF IndInv
<1>2. todo[w] > 0 /\ todo' = [todo EXCEPT ![w] = @ - 1] /\ UNCHANGED timers /\ (Store(w) \/ Refuse(w))
  BY DEF Loads
<1>3. EndpointInv'
  <2>1. CASE Store(w) BY <2>1, <1>1, StoreKeeps
  <2>2. CASE Refuse(w) BY <2>2, <1>1, EndpointStays DEF Refuse
  <2> QED BY <2>1, <2>2, <1>2
<1>4. todo' \in [Writers -> Nat]
  <2>1. todo[w] - 1 \in Nat BY <1>1, <1>2
  <2> QED BY <2>1, <1>1, <1>2
<1> QED BY <1>1, <1>2, <1>3, <1>4, TimersStay DEF IndInv

LEMMA StoresKeeps == ASSUME IndInv, NEW w \in Writers, Stores(w) PROVE IndInv'
BY WriterKeeps, TimersStay DEF IndInv, Stores

LEMMA TrainKeeps == ASSUME IndInv, TrainNext PROVE IndInv'
<1> USE FramesAssumption
<1>1. TimerInv /\ EndpointInv /\ todo \in [Writers -> Nat] /\ "train" \in Writers
  BY DEF IndInv
<1>2. CASE Loads("train") BY <1>1, <1>2, LoadsKeeps
<1>3. CASE Stores("train") BY <1>1, <1>3, StoresKeeps
<1>4. CASE Call
  <2>1. Extracted /\ UNCHANGED endpoint
    BY <1>4 DEF Call
  <2>2. PICK n \in Frames[hand] : todo' = [todo EXCEPT !["train"] = n]
    BY <1>4 DEF Call
  <2>3. hand \in Timers
    BY <1>1, <2>1 DEF TimerInv, NoneLost, TimerTypes, Extracted
  <2>4. n \in Nat
    BY <2>2, <2>3
  <2>5. todo' \in [Writers -> Nat]
    BY <2>2, <2>4, <1>1
  <2> QED BY <1>1, <2>1, <2>5, ExtractedKeeps, EndpointStays DEF IndInv
<1>5. CASE Return
  BY <1>1, <1>5, RearmKeeps, EndpointStays DEF IndInv, Return
<1>6. CASE (Setup \/ SiftUp \/ Inserted \/ Begin \/ Pop \/ SiftDown \/ Served) /\ UNCHANGED <<endpoint, todo>>
  <2>1. TimerInv'
    BY <1>1, <1>6, SetupKeeps, SiftUpKeeps, InsertedKeeps, BeginKeeps, PopKeeps, SiftDownKeeps, ServedKeeps
  <2> QED BY <2>1, <1>1, <1>6, EndpointStays DEF IndInv
<1> QED BY <1>2, <1>3, <1>4, <1>5, <1>6 DEF TrainNext

LEMMA UdpKeeps == ASSUME IndInv, UdpNext PROVE IndInv'
<1> USE FramesAssumption
<1>1. TimerInv /\ EndpointInv /\ todo \in [Writers -> Nat] /\ "udp" \in Writers
  BY DEF IndInv
<1>2. CASE Loads("udp") BY <1>1, <1>2, LoadsKeeps
<1>3. CASE Stores("udp") BY <1>1, <1>3, StoresKeeps
<1>4. CASE ReadFrame
  <2>1. Read /\ UNCHANGED timers
    BY <1>4 DEF ReadFrame
  <2>2. PICK n \in Texts : todo' = [todo EXCEPT !["udp"] = n]
    BY <1>4 DEF ReadFrame
  <2>3. todo' \in [Writers -> Nat]
    BY <2>2, <1>1
  <2> QED BY <1>1, <2>1, <2>3, RoundKeeps, TimersStay DEF IndInv
<1>5. CASE Frame /\ UNCHANGED <<timers, todo>>
  BY <1>1, <1>5, RoundKeeps, TimersStay DEF IndInv
<1>6. CASE (Poll \/ Skip \/ Send \/ SendFails \/ Subtract \/ Keep \/ Unwatch \/ LoopBuild \/ LoopRegister)
           /\ UNCHANGED <<timers, todo>>
  <2>1. EndpointInv'
    BY <1>1, <1>6, RoundKeeps, SendKeeps, SendingKeeps
  <2> QED BY <2>1, <1>1, <1>6, TimersStay DEF IndInv
<1> QED BY <1>2, <1>3, <1>4, <1>5, <1>6 DEF UdpNext

LEMMA NextInd == IndInv /\ [Next]_vars => IndInv'
<1> SUFFICES ASSUME IndInv, [Next]_vars PROVE IndInv'
  OBVIOUS
<1>1. CASE TrainNext BY <1>1, TrainKeeps
<1>2. CASE UdpNext BY <1>2, UdpKeeps
<1>3. CASE Clock BY <1>3, TickKeeps, EndpointStays DEF Clock, IndInv
<1>4. CASE UNCHANGED vars BY <1>4, TimersStay, EndpointStays DEF vars, IndInv
<1> QED BY <1>1, <1>2, <1>3, <1>4 DEF Next

\* The invariant of the two loops: the heap in order and complete, the endpoint
\* as one who is alone inside leaves it.
THEOREM Invariance == Spec => []IndInv
BY InitInd, NextInd, PTL DEF Spec

LEMMA TypesFollow == IndInv => TypeOK
<1> SUFFICES ASSUME IndInv PROVE TypeOK
  OBVIOUS
<1>1. rest \in 0..Half
  BY EndpointAssumption DEF IndInv, EndpointInv, EndpointTypes
<1> QED BY <1>1 DEF IndInv, TimerInv, TimerTypes, EndpointInv, EndpointTypes, TypeOK

\* The variables of the loops have their types; in particular the left-over of a
\* datagram is within the buffer it is read into.
THEOREM TypeCorrect == Spec => []TypeOK
BY Invariance, TypesFollow, PTL

LEMMA EarliestFollows == IndInv => EarliestFirst
<1> SUFFICES ASSUME IndInv, place \in {"down", "call"}
             PROVE  /\ expire[hand] <= seen
                    /\ InTree = Timers \ {hand}
                    /\ \A t \in InTree : expire[hand] <= expire[t]
  BY DEF EarliestFirst
<1>1. TimerTypes /\ NoneLost /\ ServedFirst
  BY DEF IndInv, TimerInv
<1>2. DOMAIN tree = Positions /\ \A i \in Positions : tree[i] \in Timers
  BY <1>1 DEF TimerTypes, Positions
<1>3. \A i \in Positions : tree[i] # hand /\ expire[hand] <= expire[tree[i]]
  BY <1>1 DEF NoneLost, ServedFirst, Key
<1>4. \A t \in Timers \ {hand} : index[t] \in Positions /\ tree[index[t]] = t
  BY <1>1 DEF NoneLost, In
<1>5. InTree = Timers \ {hand}
  BY <1>2, <1>3, <1>4 DEF InTree
<1>6. \A t \in InTree : expire[hand] <= expire[t]
  BY <1>2, <1>3 DEF InTree
<1> QED BY <1>1, <1>5, <1>6 DEF ServedFirst

\* For any timers and periods, the timer that _EVIO_EvTimer_Run serves is due
\* and none that waits is due before it, and the heap loses none.
THEOREM EarliestServed == Spec => []EarliestFirst
BY Invariance, EarliestFollows, PTL

\* Whatever has been stored by one who was alone in the endpoint is watched,
\* by the mask and in the kernel.
THEOREM StoredIsWatched == Spec => []Watched
<1>1. IndInv => Watched
  BY DEF IndInv, EndpointInv
<1> QED BY <1>1, Invariance, PTL

\* For any chunk and any buffer of two chunks and more, a whole chunk can be
\* read whenever the loop reads.
THEOREM RoomToRead == Spec => []ReadKeepsRoom
<1>1. IndInv => ReadKeepsRoom
  BY EndpointAssumption DEF IndInv, EndpointInv, EndpointTypes, ReadKeepsRoom
<1> QED BY <1>1, Invariance, PTL

\* No pass ends with a timer due that was due when it began.
THEOREM PassesClear == Spec => PassClears
<1>1. ASSUME IndInv, [Next]_vars, place = "pass", place' = "loop"
      PROVE  \A t \in Timers : expire[t] > seen
  <2>1. Served
    BY <1>1 DEF Next, TrainNext, UdpNext, Clock, Loads, Stores, Call, Return, ReadFrame, vars, timers,
       Extracted, Rearm, Arm, Setup, SiftUp, Inserted, Begin, Pop, SiftDown, Tick
  <2> QED BY <2>1, <1>1, ServedClears DEF IndInv
<1>2. IndInv /\ [Next]_vars => [place = "pass" /\ place' = "loop" => \A t \in Timers : expire[t] > seen]_vars
  BY <1>1
<1> QED BY <1>2, Invariance, PTL DEF Spec, PassClears

\* What a step does to the offset while no thread met another inside.
LEMMA CountStep ==
  ASSUME EndpointInv, [Next]_vars, ~tangled
  PROVE  \/ off' = off \/ \E w \in Writers : off' = off + size[w]
         \/ lat = "keep" /\ off' = 0
<1>1. ASSUME NEW w \in Writers, Add(w) PROVE off' = off + size[w]
  BY <1>1 DEF Add, EndpointInv, StoresAlone
<1>2. CASE Keep
  BY <1>2 DEF Keep, EndpointInv, SendsAlone
<1>3. \/ off' = off \/ Keep \/ \E w \in Writers : Add(w)
  <2>1. ASSUME NEW w \in Writers, Loads(w) \/ Stores(w) PROVE off' = off \/ Add(w)
    BY <2>1 DEF Loads, Store, Refuse, endpoint, Stores, WriterStep, Copy, Load, Watch, Build,
           Register
  <2>2. CASE TrainNext
    BY <2>1, <2>2, FramesAssumption DEF TrainNext, Call, Return, endpoint
  <2>3. CASE UdpNext
    BY <2>1, <2>3, FramesAssumption
       DEF UdpNext, ReadFrame, Read, Frame, Poll, Skip, Send, SendFails, Subtract, Unwatch,
           LoopBuild, LoopRegister
  <2>4. CASE Clock \/ UNCHANGED vars
    BY <2>4 DEF Clock, vars, endpoint
  <2> QED BY <2>2, <2>3, <2>4 DEF Next
<1> QED BY <1>1, <1>2, <1>3

\* However many threads store, the count is exact until two of them have met:
\* no frame is dropped or counted twice, and the loop leaves none behind.
THEOREM CountsKept == Spec => CountKept
<1>1. IndInv /\ [Next]_vars =>
        [~tangled => \/ off' = off \/ \E w \in Writers : off' = off + size[w]
                     \/ lat = "keep" /\ off' = 0]_vars
  BY CountStep DEF IndInv
<1> QED BY <1>1, Invariance, PTL DEF Spec, CountKept

-----------------------------------------------------------------------------
(***************************************************************************)
(* The refinement of TimerQueue.  What the callbacks see of the heap is    *)
(* who waits in it: sifting moves them about and is not seen.              *)
(***************************************************************************)

\* A timer waits if it is where it knows itself to be.
LEMMA Waiting == TimerInv => InTree = {t \in Timers : In(t)}
<1> SUFFICES ASSUME TimerTypes, Placed PROVE InTree = {t \in Timers : In(t)}
  BY DEF TimerInv
<1>1. DOMAIN tree = Positions /\ \A i \in Positions : tree[i] \in Timers
  BY DEF TimerTypes, Positions
<1>2. \A i \in Positions : In(tree[i])
  BY DEF Placed, In
<1> QED BY <1>1, <1>2 DEF InTree, In

\* Steps that leave the waiting timers and the pass as they are stutter.
LEMMA HeapIsHidden ==
  ASSUME TimerInv, TimerInv', \A t \in Timers : In(t)' <=> In(t),
         UNCHANGED <<expire, seen>>, InPass' = InPass,
         (IF place \in {"down", "call"} THEN hand ELSE None)' =
           IF place \in {"down", "call"} THEN hand ELSE None
  PROVE  UNCHANGED Q!queue
<1>1. InTree = {t \in Timers : In(t)} /\ (InTree = {t \in Timers : In(t)})'
  BY Waiting, PTL
<1>2. InTree' = InTree
  BY <1>1
<1> QED BY <1>2 DEF Q!queue

LEMMA Unmoved ==
  ASSUME UNCHANGED timers
  PROVE  UNCHANGED Q!queue
BY DEF timers, Q!queue, InTree, InPass

\* Outside of insertions, who waits is everyone but the one served.
LEMMA AllButHand ==
  TimerInv => /\ place \in {"loop", "pass"} => InTree = Timers
              /\ place \in {"down", "call"} => InTree = Timers \ {hand}
<1> SUFFICES ASSUME TimerInv
             PROVE  /\ place \in {"loop", "pass"} => InTree = Timers
                    /\ place \in {"down", "call"} => InTree = Timers \ {hand}
  OBVIOUS
<1>1. TimerTypes /\ NoneLost /\ InTree = {t \in Timers : In(t)}
  BY Waiting DEF TimerInv
<1>2. ASSUME place \in {"down", "call"} PROVE ~In(hand)
  BY <1>1, <1>2 DEF NoneLost, In
<1> QED BY <1>1, <1>2 DEF NoneLost

LEMMA ArmWaits ==
  ASSUME TimerTypes, NEW t \in Timers, Arm(t)
  PROVE  InTree' = InTree \union {t}
<1> DEFINE n == Len(tree)
<1>1. tree \in Seq(Timers) /\ tree' = Append(tree, t)
  BY DEF TimerTypes, Arm
<1>2. n \in Nat /\ DOMAIN tree = 1..n /\ DOMAIN tree' = 1..(n + 1)
      /\ tree'[n + 1] = t /\ \A i \in 1..n : tree'[i] = tree[i]
  BY <1>1
<1> HIDE DEF n
<1>3. \A i \in 1..(n + 1) : i \in 1..n \/ i = n + 1
  BY <1>2
<1>4. n + 1 \in 1..(n + 1) /\ \A i \in 1..n : i \in 1..(n + 1)
  BY <1>2
<1> QED BY <1>2, <1>3, <1>4 DEF InTree

LEMMA SetupStarts ==
  ASSUME TimerInv, Setup
  PROVE  \E t \in Timers : Q!Start(t)
<1>1. PICK t \in Timers : index[t] = 0 /\ Arm(t)
  BY DEF Setup
<1>2. place = "setup" /\ hand = None /\ hand' = None /\ place' = "up"
      /\ expire' = [expire EXCEPT ![t] = Period[t]]
  BY <1>1 DEF Setup, Arm, TimerInv, NoneLost
<1>3. ~InPass /\ ~InPass' /\ InPass' = InPass
  BY <1>2 DEF InPass
<1>4. t \notin InTree
  BY <1>1, Waiting DEF In, Positions
<1>5. InTree' = InTree \union {t}
  BY <1>1, ArmWaits DEF TimerInv
<1>6. Q!Start(t)
  BY <1>2, <1>3, <1>4, <1>5 DEF Q!Start, Q!Arm
<1> QED BY <1>6

LEMMA RearmWaitsAgain ==
  ASSUME TimerInv, Rearm
  PROVE  Q!Again
<1>1. /\ place = "call" /\ place' = "up" /\ Arm(hand) /\ UNCHANGED <<hand, seen>>
      /\ expire' = [expire EXCEPT ![hand] = Period[hand]]
  BY DEF Rearm, Arm
<1>2. hand \in Timers /\ hand # None
  BY <1>1 DEF TimerInv, TimerTypes, NoneLost
<1>3. InPass /\ InPass'
  BY <1>1, <1>2 DEF InPass
<1>4. InTree' = InTree \union {hand}
  BY <1>1, <1>2, ArmWaits DEF TimerInv
<1> QED BY <1>1, <1>2, <1>3, <1>4 DEF Q!Again, Q!Arm

LEMMA PopServes ==
  ASSUME TimerInv, Pop
  PROVE  \E t \in Timers : Q!Serve(t)
<1> DEFINE t == tree[1]
<1>1. TimerTypes /\ Placed /\ Ordered /\ TimerInv'
  BY PopKeeps DEF TimerInv
<1>2. /\ place = "pass" /\ place' = "down" /\ hand' = t
      /\ Len(tree) > 0 /\ expire[t] <= seen /\ UNCHANGED <<expire, seen>>
  BY DEF Pop, Due
<1>3. 1 \in Positions /\ DOMAIN tree = Positions /\ \A i \in Positions : tree[i] \in Timers
  BY <1>1, <1>2 DEF TimerTypes, Positions
<1>4. \A i \in Positions : Key(1) <= Key(i)
  BY <1>1, <1>2, RootIsEarliest DEF Ordered
<1>5. t \in InTree /\ \A u \in InTree : expire[t] <= expire[u]
  BY <1>3, <1>4 DEF InTree, Key
<1>6. (/\ place \in {"loop", "pass"} => InTree = Timers
       /\ place \in {"down", "call"} => InTree = Timers \ {hand})'
  BY <1>1, AllButHand, PTL
<1>7. InTree' = InTree \ {t}
  BY <1>2, <1>6, AllButHand
<1>8. InPass /\ InPass'
  BY <1>2 DEF InPass
<1>9. Q!Serve(t)
  BY <1>2, <1>5, <1>7, <1>8 DEF Q!Serve, Q!First
<1> QED BY <1>3, <1>9

LEMMA BeginBegins ==
  ASSUME TimerInv, Begin
  PROVE  Q!Begin
<1>1. place = "loop" /\ place' = "pass" /\ seen' = 0 /\ UNCHANGED <<tree, expire>>
  BY DEF Begin
<1>2. ~InPass /\ InPass' /\ InTree' = InTree /\ InTree = Timers
  BY <1>1, AllButHand DEF InPass, InTree
<1> QED BY <1>1, <1>2 DEF Q!Begin

LEMMA ServedEnds ==
  ASSUME TimerInv, Served
  PROVE  Q!End
<1>1. place = "pass" /\ place' = "loop" /\ UNCHANGED <<tree, expire>>
  BY DEF Served
<1>2. InPass /\ ~InPass' /\ InTree' = InTree /\ InTree = Timers
  BY <1>1, AllButHand DEF InPass, InTree
<1>3. \A t \in Timers : expire[t] > seen
  BY ServedClears
<1> QED BY <1>1, <1>2, <1>3 DEF Q!End

LEMMA TickTicks ==
  ASSUME TimerInv, Tick
  PROVE  Q!Tick
<1>1. UNCHANGED <<tree, place, hand>> /\ place \in Places
  BY DEF Tick, TimerInv, TimerTypes
<1>2. InTree' = InTree /\ InPass' = InPass
  BY <1>1 DEF InTree, InPass
<1>3. InPass => place \notin {"setup", "loop"}
  BY DEF InPass
<1> QED BY <1>1, <1>2, <1>3 DEF Tick, Q!Tick

\* Sifting, the end of an insertion and the call are not seen.
LEMMA SiftingIsHidden ==
  ASSUME TimerInv, SiftUp \/ SiftDown \/ Inserted \/ Extracted
  PROVE  UNCHANGED Q!queue
<1>1. CASE SiftUp \/ SiftDown
  <2>1. TimerInv' /\ UNCHANGED <<expire, place, hand, seen>>
    BY <1>1, SiftUpKeeps, SiftDownKeeps DEF SiftUp, SiftDown
  <2>2. \A t \in Timers : In(t)' <=> In(t)
    <3>1. TimerTypes /\ Placed /\ SiftsInside
      BY DEF TimerInv
    <3>2. PICK i \in Positions, j \in Positions : i # j /\ Swap(i, j)
      <4>1. CASE SiftUp
        <5>1. pos \in Positions /\ pos \in Nat /\ pos > 1 /\ Swap(pos, Parent(pos))
          BY <3>1, <4>1 DEF SiftUp, Rises, SiftsInside, TimerTypes
        <5> QED BY <5>1, Halves DEF Positions
      <4>2. CASE SiftDown
        <5>1. PICK c \in Positions : Below(c) /\ Swap(c, pos)
          BY <4>2 DEF SiftDown, Positions
        <5>2. pos \in Positions /\ c # pos
          BY <3>1, <4>2, <5>1 DEF SiftDown, Below, Children, SiftsInside, Positions, TimerTypes
        <5> QED BY <5>1, <5>2
      <4> QED BY <1>1, <4>1, <4>2
    <3> QED BY <3>1, <3>2, SwapKeeps
  <2>3. InPass' = InPass
    BY <2>1 DEF InPass
  <2> QED BY <2>1, <2>2, <2>3, HeapIsHidden
<1>2. CASE Inserted
  <2>1. UNCHANGED <<tree, expire, seen>> /\ place = "up" /\ place' \in {"pass", "loop", "setup"}
        /\ (place' = "pass" <=> hand # None)
    BY <1>2 DEF Inserted
  <2>2. InTree' = InTree /\ InPass' = InPass
    BY <2>1 DEF InTree, InPass
  <2> QED BY <2>1, <2>2 DEF Q!queue
<1>3. CASE Extracted
  <2>1. UNCHANGED <<tree, expire, seen, hand>> /\ place = "down" /\ place' = "call"
    BY <1>3 DEF Extracted
  <2>2. InTree' = InTree /\ InPass' = InPass
    BY <2>1 DEF InTree, InPass
  <2> QED BY <2>1, <2>2 DEF Q!queue
<1> QED BY <1>1, <1>2, <1>3

LEMMA InitRefines == Init => Q!Init
<1> SUFFICES ASSUME Init PROVE Q!Init
  OBVIOUS
<1>1. tree = << >> /\ expire = Period /\ place = "setup"
  BY DEF Init, TimerInit
<1>2. InTree = {} /\ ~InPass
  BY <1>1 DEF InTree, InPass, Init, TimerInit
<1> QED BY <1>1, <1>2 DEF Q!Init

LEMMA StepRefines == IndInv /\ [Next]_vars => [Q!Next]_(Q!queue)
<1> SUFFICES ASSUME TimerInv, [Next]_vars PROVE [Q!Next]_(Q!queue)
  BY DEF IndInv
<1>1. CASE Setup
  BY <1>1, SetupStarts DEF Q!Next
<1>2. CASE Rearm
  BY <1>2, RearmWaitsAgain DEF Q!Next
<1>3. CASE Pop
  BY <1>3, PopServes DEF Q!Next
<1>4. CASE Begin
  BY <1>4, BeginBegins DEF Q!Next
<1>5. CASE Served
  BY <1>5, ServedEnds DEF Q!Next
<1>6. CASE Tick
  BY <1>6, TickTicks DEF Q!Next
<1>7. CASE SiftUp \/ SiftDown \/ Inserted \/ Extracted
  BY <1>7, SiftingIsHidden
<1>8. CASE UNCHANGED timers
  BY <1>8, Unmoved
<1>9. [Next]_vars =>
        \/ Setup \/ Rearm \/ Pop \/ Begin \/ Served \/ Tick
        \/ SiftUp \/ SiftDown \/ Inserted \/ Extracted \/ UNCHANGED timers
  BY DEF Next, TrainNext, UdpNext, Clock, Loads, Stores, Call, Return, ReadFrame, vars
<1> QED BY <1>1, <1>2, <1>3, <1>4, <1>5, <1>6, <1>7, <1>8, <1>9

\* For any timers and periods, the heap with its swaps and the budget of a pass
\* do what a set of waiting timers does: the earliest is served, each waits again
\* when its callback ends, and a pass ends when none is due.
THEOREM Implementation == Spec => ImplementsQueue
BY InitRefines, StepRefines, Invariance, PTL DEF Spec, ImplementsQueue, Q!Spec

=============================================================================
