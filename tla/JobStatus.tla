------------------------------ MODULE JobStatus ------------------------------
(***************************************************************************)
(* GET /api/jobs/{job_id} beside the life of jobs (JobSystem).             *)
(*                                                                         *)
(* The status of a job is kept nowhere: get_job_endpoint_handler reads the *)
(* job, then counts its finished operations in a second call, and compares *)
(* the count with the number of operations the job was created with.       *)
(* Between the two calls operations finish and the job may be deleted.     *)
(***************************************************************************)
EXTENDS JobSystem

CONSTANTS
  Users,   \* those who ask
  NoJob    \* what a user who is not asking asks about

(* A body has finitely many lines: BODY_LIMIT bounds its length.           *)
ASSUME JobStatusAssumption ==
  /\ NoJob \notin Jobs
  /\ IsFiniteSet(Ops)

VARIABLES
  asking,      \* asking[u]: the job whose document the handler of u has read
  knewBetter,  \* knewBetter[u]: it had been reported completed before u asked
  answer,      \* answer[u]: the last answer u got
  completed    \* jobs somebody was told are completed

statusVars == <<asking, knewBetter, answer, completed>>

NoAnswer == [job |-> NoJob, status |-> "InProgress"]

(* Faulty variant: the count does not ask for a result.                    *)
AllCounted(j) == DocsOf(j)

(* What get_total_completed_operations counts.                             *)
Completed(j) == {o \in DocsOf(j) : doc[o] # NoResult}

(* Faulty variant: a third status, for jobs deleted between the two reads. *)
StatusOrDeleted(j, total) ==
  IF j \notin jobs THEN "Deleted"
  ELSE IF total = Cardinality(OpsOf(j)) THEN "Completed" ELSE "InProgress"

(* Job::status                                                             *)
Status(j, total) == IF total = Cardinality(OpsOf(j)) THEN "Completed" ELSE "InProgress"

(* get_job finds the document; when it does not, the answer is an error.   *)
ReadJob(u, j) ==
  /\ asking[u] = NoJob
  /\ j \in jobs
  /\ asking' = [asking EXCEPT ![u] = j]
  /\ knewBetter' = [knewBetter EXCEPT ![u] = j \in completed]
  /\ UNCHANGED <<vars, answer, completed>>

(* get_total_completed_operations, and the answer.                         *)
CountAndAnswer(u) ==
  LET j == asking[u]
      status == Status(j, Cardinality(Completed(j)))
  IN
  /\ j # NoJob
  /\ answer' = [answer EXCEPT ![u] = [job |-> j, status |-> status]]
  /\ completed' = IF status = "Completed" THEN completed \cup {j} ELSE completed
  /\ asking' = [asking EXCEPT ![u] = NoJob]
  /\ UNCHANGED <<vars, knewBetter>>

StatusInit ==
  /\ Init
  /\ asking = [u \in Users |-> NoJob]
  /\ knewBetter = [u \in Users |-> FALSE]
  /\ answer = [u \in Users |-> NoAnswer]
  /\ completed = {}

Ask == \E u \in Users : CountAndAnswer(u) \/ \E j \in Jobs : ReadJob(u, j)

StatusNext ==
  \/ Next /\ UNCHANGED statusVars
  \/ Ask

StatusSpec == StatusInit /\ [][StatusNext]_<<vars, statusVars>>

------------------------------------------------------------------------------
(* Types.                                                                  *)
StatusTypeOK ==
  /\ asking \in [Users -> Jobs \cup {NoJob}]
  /\ knewBetter \in [Users -> BOOLEAN]
  /\ answer \in [Users -> [job : Jobs \cup {NoJob}, status : {"Completed", "InProgress"}]]
  /\ completed \subseteq Jobs

(* Whoever is told that a job is completed finds a result, the right one,  *)
(* on every line of it as long as the job exists, although the answer is   *)
(* put together from two reads (job_controller.rs:160-184).                *)
CompletedKeepsResults ==
  \A j \in completed \cap jobs : \A o \in OpsOf(j) : doc[o] = Answer[o]

(* A job somebody was told is completed is never reported in progress to   *)
(* a user who asks later, unless it is gone from the database by the time  *)
(* the operations are counted (job_controller.rs:160-184, 125-157: the job *)
(* goes before its operations).                                            *)
NoStepBack ==
  [][\A u \in Users :
       LET j == asking[u] IN
       j # NoJob /\ asking'[u] = NoJob /\ knewBetter[u] /\ j \in jobs
         => answer'[u].status = "Completed"]_<<vars, statusVars>>
==============================================================================
