------------------------------ MODULE JobService ------------------------------
(***************************************************************************)
(* What a user of the job API is promised, without services, topics or     *)
(* handlers.  A job is opened once, gets its lines while it is open, and   *)
(* is closed once, by a delete or by a refusal.  A line is written once,   *)
(* waits, is answered once with the value of its own request, and is       *)
(* dropped only after its job is closed.  Nothing comes back.              *)
(*                                                                         *)
(* JobSystem is shown to implement this specification.                     *)
(***************************************************************************)

CONSTANTS
  Jobs,       \* the jobs users submit
  Ops,        \* the lines of all the jobs
  JobOf,      \* JobOf[o]: the job the line o belongs to
  Answer,     \* Answer[o]: what the line o evaluates to
  Unwritten, Waiting, Dropped   \* the states of a line beside its answer

VARIABLES
  phase,      \* phase[j]: "new", "open" or "closed"
  line        \* line[o]: Unwritten, Waiting, Dropped or an answer

vars == <<phase, line>>

Init ==
  /\ phase = [j \in Jobs |-> "new"]
  /\ line = [o \in Ops |-> Unwritten]

(* A job without lines is never opened.                                    *)
OpenJob(j) ==
  /\ phase[j] = "new"
  /\ \E o \in Ops : JobOf[o] = j
  /\ phase' = [phase EXCEPT ![j] = "open"]
  /\ UNCHANGED line

(* By a delete, or by a refusal of the job.                                *)
CloseJob(j) ==
  /\ phase[j] # "closed"
  /\ phase' = [phase EXCEPT ![j] = "closed"]
  /\ UNCHANGED line

WriteLine(o) ==
  /\ phase[JobOf[o]] = "open"
  /\ line[o] = Unwritten
  /\ line' = [line EXCEPT ![o] = Waiting]
  /\ UNCHANGED phase

AnswerLine(o) ==
  /\ line[o] = Waiting
  /\ line' = [line EXCEPT ![o] = Answer[o]]
  /\ UNCHANGED phase

DropLine(o) ==
  /\ phase[JobOf[o]] = "closed"
  /\ line[o] # Unwritten
  /\ line' = [line EXCEPT ![o] = Dropped]
  /\ UNCHANGED phase

Next ==
  \/ \E j \in Jobs : OpenJob(j) \/ CloseJob(j)
  \/ \E o \in Ops : WriteLine(o) \/ AnswerLine(o) \/ DropLine(o)

Spec == Init /\ [][Next]_vars
==============================================================================
