------------------------------ MODULE KeyInput ------------------------------
(***************************************************************************)
(* The input thread, for one of its pins: the operating control call.  The *)
(* thread sleeps until the pin's edge is pending, reads the level, lets 50 *)
(* ms pass, and if the level was new reads it once more before it believes *)
(* it.  The other pins only make it take longer.                           *)
(***************************************************************************)
EXTENDS Naturals

Level == {0, 1}

VARIABLES
  pin,      \* the level on the wire
  pending,  \* the driver has an edge to report since the last read
  level,    \* ioLevel
  stored,   \* u8IOLevelBakup
  input,    \* what the thread is at: off, polling, letting the pin settle; or
            \* closed: it polls, but the pin's file did not open
  misread   \* history: the last read failed, and what it gave was not on the wire

keyInput == <<pin, pending, level, stored, input, misread>>

\* A file just opened has an edge to report; the table starts every pin at 1.
KeyInit ==
  /\ pin \in Level /\ pending = TRUE /\ level = 1 /\ stored = 1 /\ input = "off"
  /\ misread = FALSE

\* The thread enters in the table the pins whose files open, and polls.
KeyStart ==
  /\ input = "off" /\ input' \in {"poll", "closed"}
  /\ UNCHANGED <<pin, pending, level, stored, misread>>

Edge ==
  /\ pin' = 1 - pin
  /\ pending' = TRUE
  /\ UNCHANGED <<level, stored, input, misread>>

\* A read reports the level and clears the edge.  One that fails clears it too and
\* leaves zeros in the buffer, which count as level 0.
Read ==
  /\ level' \in {pin, 0}
  /\ pending' = FALSE
  /\ misread' = (level' # pin)

KeyRead ==
  /\ input = "poll" /\ pending
  /\ Read
  /\ input' = "settle"
  /\ UNCHANGED <<pin, stored>>

\* The callback is called: two reads, 50 ms apart, differ from what is stored.
Calls == level # stored /\ level' # stored

\* Fault: the level is stored before it is read once more.
KeySettledEarly ==
  /\ input = "settle" /\ input' = "poll"
  /\ IF level # stored THEN Read ELSE UNCHANGED <<level, pending, misread>>
  /\ stored' = level
  /\ UNCHANGED pin

\* Fault: an edge that comes while the pin settles is thrown away.
KeySettledDeaf ==
  /\ input = "settle" /\ input' = "poll"
  /\ pending' = FALSE
  /\ IF level # stored THEN level' = pin /\ stored' = pin ELSE UNCHANGED <<level, stored>>
  /\ UNCHANGED <<pin, misread>>

\* 50 ms later.
KeySettled ==
  /\ input = "settle" /\ input' = "poll"
  /\ IF level # stored THEN Read /\ stored' = level'
                       ELSE UNCHANGED <<level, pending, stored, misread>>
  /\ UNCHANGED pin

KeyTypeOK ==
  /\ pin \in Level /\ pending \in BOOLEAN /\ level \in Level /\ stored \in Level
  /\ input \in {"off", "poll", "settle", "closed"} /\ misread \in BOOLEAN
=============================================================================
