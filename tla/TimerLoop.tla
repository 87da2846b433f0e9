----------------------------- MODULE TimerLoop ------------------------------
(***************************************************************************)
(* A thread's event loop and its timers: a heap of pointers ordered by     *)
(* expiry (mini-heap, evtimer) and the pass that serves the ones that are  *)
(* due (evio).  The sifting of the heap is one swap at a time.  Instants   *)
(* are kept relative to the clock, so that time passing lowers them all,   *)
(* and positions count from 1 (from 0 in the code).                        *)
(***************************************************************************)
EXTENDS Integers, Sequences, FiniteSets

CONSTANTS
  Timers,  \* the loop's timers
  Period,  \* what each is armed with
  None,    \* no timer
  Lag      \* bound: how late a timer may get

ASSUME TimersAssumption ==
  /\ IsFiniteSet(Timers) /\ Timers # {} /\ None \notin Timers
  /\ Period \in [Timers -> Nat \ {0}]
  /\ Lag \in Nat

VARIABLES
  tree,    \* the heap's array
  index,   \* u64Index of each timer
  expire,  \* u64Expire of each timer, less the time it is
  place,   \* where the thread is
  pos,     \* ipos, the element being sifted
  hand,    \* the timer that is being served
  seen,    \* the instant the pass read the clock, less the time it is
  left     \* how many more timers the pass may serve

timers == <<tree, index, expire, place, pos, hand, seen, left>>

Places == {"setup", "up", "loop", "pass", "down", "call"}

TimerInit ==
  /\ tree = <<>> /\ index = [t \in Timers |-> 0] /\ expire = Period
  /\ place = "setup" /\ pos = 0 /\ hand = None /\ seen = 0 /\ left = 0

Parent(i) == i \div 2
Earlier(i, j) == expire[tree[i]] < expire[tree[j]]

Swap(i, j) ==
  /\ tree' = [tree EXCEPT ![i] = tree[j], ![j] = tree[i]]
  /\ index' = [index EXCEPT ![tree[i]] = j, ![tree[j]] = i]

-----------------------------------------------------------------------------
\* EVIO_EventTimer_Init and _Start: last in the array, then up.
Arm(t) ==
  /\ expire' = [expire EXCEPT ![t] = Period[t]]
  /\ tree' = Append(tree, t)
  /\ index' = [index EXCEPT ![t] = Len(tree) + 1]
  /\ pos' = Len(tree) + 1
  /\ place' = "up"

Setup ==
  /\ place = "setup"
  /\ \E t \in Timers : index[t] = 0 /\ Arm(t)
  /\ UNCHANGED <<hand, seen, left>>

\* Fault: compared with the element before it in the array.
RisesPast == pos > 1 /\ Earlier(pos, pos - 1)
Rises == pos > 1 /\ Earlier(pos, Parent(pos))

SiftUp ==
  /\ place = "up" /\ Rises
  /\ Swap(pos, Parent(pos)) /\ pos' = Parent(pos)
  /\ UNCHANGED <<expire, place, hand, seen, left>>

\* Served timers return to the pass; the loop begins with all of them armed.
Inserted ==
  /\ place = "up" /\ ~Rises
  /\ place' = IF hand # None THEN "pass"
              ELSE IF \A t \in Timers : index[t] # 0 THEN "loop" ELSE "setup"
  /\ hand' = None /\ pos' = 0
  /\ UNCHANGED <<tree, index, expire, seen, left>>

\* Fault: one timer fewer.
BeginShort ==
  /\ place = "loop"
  /\ seen' = 0 /\ left' = Len(tree) - 1 /\ place' = "pass"
  /\ UNCHANGED <<tree, index, expire, pos, hand>>

\* Fault: a timer already due makes the wait endless.
BeginUndue ==
  /\ place = "loop" /\ expire[tree[1]] > 0
  /\ seen' = 0 /\ left' = Len(tree) /\ place' = "pass"
  /\ UNCHANGED <<tree, index, expire, pos, hand>>

\* epoll_wait returns, after 5 ms at the latest, and the next round begins:
\* _EVIO_EvTimer_Run reads the clock once.
Begin ==
  /\ place = "loop"
  /\ seen' = 0 /\ left' = Len(tree) /\ place' = "pass"
  /\ UNCHANGED <<tree, index, expire, pos, hand>>

Due == left > 0 /\ Len(tree) > 0 /\ expire[tree[1]] <= seen

\* The root leaves, the last element takes its place.
Pop ==
  /\ place = "pass" /\ Due
  /\ hand' = tree[1] /\ left' = left - 1
  /\ tree' = IF Len(tree) = 1 THEN <<>>
             ELSE [i \in 1..(Len(tree) - 1) |-> IF i = 1 THEN tree[Len(tree)] ELSE tree[i]]
  /\ index' = IF Len(tree) = 1 THEN index ELSE [index EXCEPT ![tree[Len(tree)]] = 1]
  /\ pos' = 1 /\ place' = "down"
  /\ UNCHANGED <<expire, seen>>

Children == {2 * pos, 2 * pos + 1} \cap (1..Len(tree))

\* The child to change places with: the right one only if it is the earlier.
Below(c) ==
  /\ c \in Children /\ Earlier(c, pos)
  /\ \A d \in Children \ {c} : IF d < c THEN Earlier(c, d) ELSE ~Earlier(d, c)

SiftDown ==
  /\ place = "down"
  /\ \E c \in 1..Len(tree) : Below(c) /\ Swap(c, pos) /\ pos' = c
  /\ UNCHANGED <<expire, place, hand, seen, left>>

Extracted ==
  /\ place = "down" /\ ~\E c \in 1..Len(tree) : Below(c)
  /\ place' = "call" /\ pos' = 0
  /\ UNCHANGED <<tree, index, expire, hand, seen, left>>

\* Every callback ends by arming its timer again.
Rearm ==
  /\ place = "call"
  /\ Arm(hand)
  /\ UNCHANGED <<hand, seen, left>>

\* The pass is over.
Served ==
  /\ place = "pass" /\ ~Due
  /\ place' = "loop" /\ seen' = 0 /\ left' = 0
  /\ UNCHANGED <<tree, index, expire, pos, hand>>

Tick ==
  /\ \A t \in Timers : expire[t] > -Lag
  /\ expire' = [t \in Timers |-> expire[t] - 1]
  /\ seen' = IF place \in {"setup", "loop"} THEN seen ELSE seen - 1
  /\ UNCHANGED <<tree, index, place, pos, hand, left>>
=============================================================================
