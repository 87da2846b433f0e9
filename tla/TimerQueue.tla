----------------------------- MODULE TimerQueue -----------------------------
(***************************************************************************)
(* What a thread's event loop promises its timers: a pass reads the clock  *)
(* once, serves the timers that are due by it, always one that no other    *)
(* has to come before, and ends only when none of them is due any more.    *)
(* How the next one is found (a heap, one swap at a time) and how many a   *)
(* pass may serve are in TimerLoop, which implements this specification.   *)
(* Instants are relative to the clock.                                     *)
(***************************************************************************)
EXTENDS Integers

CONSTANTS
  Timers,  \* the loop's timers
  Period,  \* what each is armed with
  None,    \* no timer
  Lag      \* bound: how late a timer may get

VARIABLES
  armed,   \* the timers that wait
  expire,  \* the expiry of each, less the time it is
  hand,    \* the timer whose callback runs
  pass,    \* a pass is going on
  seen     \* the instant it read the clock, less the time it is

queue == <<armed, expire, hand, pass, seen>>

Init ==
  /\ armed = {} /\ expire = Period /\ hand = None /\ pass = FALSE /\ seen = 0

Arm(t) ==
  /\ armed' = armed \union {t}
  /\ expire' = [expire EXCEPT ![t] = Period[t]]

\* Before the first pass all timers are armed.
Start(t) ==
  /\ ~pass /\ t \notin armed
  /\ Arm(t)
  /\ UNCHANGED <<hand, pass, seen>>

Begin ==
  /\ ~pass /\ armed = Timers
  /\ pass' = TRUE /\ seen' = 0
  /\ UNCHANGED <<armed, expire, hand>>

First(t) == t \in armed /\ \A u \in armed : expire[t] <= expire[u]

Serve(t) ==
  /\ pass /\ hand = None
  /\ First(t) /\ expire[t] <= seen
  /\ hand' = t /\ armed' = armed \ {t}
  /\ UNCHANGED <<expire, pass, seen>>

\* A callback ends by arming its timer again.
Again ==
  /\ hand # None
  /\ Arm(hand)
  /\ hand' = None
  /\ UNCHANGED <<pass, seen>>

End ==
  /\ pass /\ hand = None
  /\ armed = Timers /\ \A t \in Timers : expire[t] > seen
  /\ pass' = FALSE /\ seen' = 0
  /\ UNCHANGED <<armed, expire, hand>>

Tick ==
  /\ \A t \in Timers : expire[t] > -Lag
  /\ expire' = [t \in Timers |-> expire[t] - 1]
  /\ seen' = IF pass THEN seen - 1 ELSE seen
  /\ UNCHANGED <<armed, hand, pass>>

Next ==
  \/ \E t \in Timers : Start(t) \/ Serve(t)
  \/ Begin \/ Again \/ End \/ Tick

Spec == Init /\ [][Next]_queue
=============================================================================
