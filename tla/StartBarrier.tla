---------------------------- MODULE StartBarrier ----------------------------
(***************************************************************************)
(* The start of the program: main creates two services, one of them        *)
(* creates four more, and main begins its event loop once six have counted *)
(* themselves.  It reads the counter without the lock and waits without    *)
(* looking again.                                                          *)
(***************************************************************************)
EXTENDS Naturals, FiniteSets

Created == {"broadcast", "fep", "bdaudio", "ioinput"}  \* by the train service
Services == Created \union {"train", "udp"}

\* A service that cannot start returns, or aborts the program.
Returning == {"train", "broadcast"}

CONSTANT MayFail  \* the services whose start is allowed to fail

ASSUME MayFailAssumption == MayFail \subseteq Services

\* Fault: one fewer.
NeededFewer == 5
Needed == 6

VARIABLES
  main,     \* what main is about to do: create a service, read, wait, run
  cnt,      \* iThread_bStartCnt
  svc,      \* each service: off, begun, connected to main, counted, or gone
  aborted,  \* the process is no more
  missed    \* history: the last signal fell between main's look and its wait

barrier == <<main, cnt, svc, aborted, missed>>

BarrierInit ==
  /\ main = "train" /\ cnt = 0 /\ svc = [s \in Services |-> "off"]
  /\ aborted = FALSE /\ missed = FALSE

\* pthread_create; its result is compared with -1, which it never returns, so a
\* service that could not be created is not noticed.
Create(s) ==
  /\ svc[s] = "off"
  /\ \E outcome \in {"begun", "gone"} :
       (outcome = "gone" => s \in MayFail) /\ svc' = [svc EXCEPT ![s] = outcome]
  /\ UNCHANGED <<cnt, aborted, missed>>

MainCreate ==
  \/ main = "train" /\ Create("train") /\ main' = "udp"
  \/ main = "udp" /\ Create("udp") /\ main' = "look"

\* The four are created in this order.
TrainCreate ==
  /\ svc["train"] = "begun"
  /\ \/ Create("broadcast")
     \/ svc["broadcast"] # "off" /\ Create("fep")
     \/ svc["fep"] # "off" /\ Create("bdaudio")
     \/ svc["bdaudio"] # "off" /\ Create("ioinput")
  /\ UNCHANGED main

\* The service makes its sockets and its event loop.
Connect(s) ==
  /\ svc[s] = "begun"
  /\ s = "train" => \A t \in Created : svc[t] # "off"
  /\ svc' = [svc EXCEPT ![s] = "connected"]
  /\ UNCHANGED <<main, cnt, aborted, missed>>

\* ... or cannot.  The train service gives up before it creates any other.
Fail(s) ==
  /\ s \in MayFail /\ svc[s] = "begun"
  /\ s = "train" => \A t \in Created : svc[t] = "off"
  /\ svc' = [svc EXCEPT ![s] = "gone"]
  /\ aborted' = (s \notin Returning)
  /\ UNCHANGED <<main, cnt, missed>>

\* The loop of the UDP service is a thread of its own.  It aborts the program when
\* it cannot start, which may be after the service counted itself.  (That it finds
\* out only when main runs is left out: nothing happens any more then.)
LoopFails ==
  /\ "udp" \in MayFail /\ svc["udp"] \in {"connected", "counted"} /\ main # "run"
  /\ aborted' = TRUE
  /\ UNCHANGED <<main, cnt, svc, missed>>

\* Fault: a service counts itself and does not signal.
CountSilently(s) ==
  /\ svc[s] = "connected"
  /\ svc' = [svc EXCEPT ![s] = "counted"]
  /\ cnt' = cnt + 1
  /\ missed' = (missed \/ (main = "wait" /\ cnt' = Needed))
  /\ UNCHANGED <<main, aborted>>

\* With the lock held: count and signal, which wakes main only if it waits.
Count(s) ==
  /\ svc[s] = "connected"
  /\ svc' = [svc EXCEPT ![s] = "counted"]
  /\ cnt' = cnt + 1
  /\ main' = IF main = "asleep" THEN "look" ELSE main
  /\ missed' = (missed \/ (main = "wait" /\ cnt' = Needed))
  /\ UNCHANGED aborted

Look ==
  /\ main = "look"
  /\ main' = IF cnt < Needed THEN "wait" ELSE "run"
  /\ UNCHANGED <<cnt, svc, aborted, missed>>

Wait ==
  /\ main = "wait" /\ main' = "asleep"
  /\ UNCHANGED <<cnt, svc, aborted, missed>>

\* A wait may end without a signal.
WakeUnasked ==
  /\ main = "asleep" /\ main' = "look"
  /\ UNCHANGED <<cnt, svc, aborted, missed>>

\* What main and the services go on with, and what may happen besides.
MainSteps == MainCreate \/ Look \/ Wait
ServiceSteps(s) == (s = "train" /\ TrainCreate) \/ Connect(s) \/ Count(s)
Mishap == WakeUnasked \/ LoopFails \/ \E s \in Services : Fail(s)

BarrierNext == ~aborted /\ (MainSteps \/ Mishap \/ \E s \in Services : ServiceSteps(s))

BarrierSpec == BarrierInit /\ [][BarrierNext]_barrier

-----------------------------------------------------------------------------
BarrierTypeOK ==
  /\ main \in {"train", "udp", "look", "wait", "asleep", "run"}
  /\ cnt \in 0..6
  /\ svc \in [Services -> {"off", "begun", "connected", "counted", "gone"}]
  /\ aborted \in BOOLEAN /\ missed \in BOOLEAN

\* main handles no message before all six services have their end of a pair:
\* no request to the broadcast thread is lost because nobody is there to take it.
NobodyMissing == main = "run" => \A s \in Services : svc[s] = "counted"

\* main sleeps, or is about to, with all six counted for one reason only: the
\* last signal fell between its look and its wait.
SleepsForAReason ==
  main \in {"wait", "asleep"} /\ (\A s \in Services : svc[s] = "counted") => missed

\* If every service comes up and no thread aborts the program, main begins its
\* loop, unless it misses the last signal: it is then asleep although all six have
\* counted.
MainStarts ==
  <>(main = "run" \/ missed \/ aborted \/ \E s \in Services : svc[s] = "gone")
=============================================================================
