----------------------------- MODULE InstanceLife -----------------------------
(***************************************************************************)
(* What JobSystem takes for granted of one process of an application: it   *)
(* works on HTTP requests and messages; it stops only with nothing in hand *)
(* (StopClient, StopServer), and whatever ends it otherwise is a crash     *)
(* (CrashClient, CrashServer).  AppLifecycle implements it.                *)
(***************************************************************************)
EXTENDS Naturals

CONSTANT Services  \* the HTTP server and the workers of the process

VARIABLES
  state,  \* up, stopped or crashed
  work    \* work[s]: how many requests or messages s has in hand

vars == <<state, work>>

Nothing == [s \in Services |-> 0]

Init == state = "up" /\ work = Nothing

Take(s) ==
  /\ state = "up"
  /\ work' = [work EXCEPT ![s] = @ + 1]
  /\ UNCHANGED state

Finish(s) ==
  /\ state = "up"
  /\ work[s] > 0
  /\ work' = [work EXCEPT ![s] = @ - 1]
  /\ UNCHANGED state

Stop ==
  /\ state = "up"
  /\ work = Nothing
  /\ state' = "stopped"
  /\ UNCHANGED work

Crash ==
  /\ state = "up"
  /\ state' = "crashed"
  /\ work' = Nothing

Next ==
  \/ \E s \in Services : Take(s) \/ Finish(s)
  \/ Stop
  \/ Crash

Spec == Init /\ [][Next]_vars
===============================================================================
