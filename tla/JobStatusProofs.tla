--------------------------- MODULE JobStatusProofs ---------------------------
(***************************************************************************)
(* Theorems about JobStatus, for any numbers of users, jobs, lines,        *)
(* instances, failures, crashes and SIGTERMs.  They rest on the theorems   *)
(* about JobSystem: the users who ask change nothing there.                *)
(***************************************************************************)
EXTENDS JobStatus, JobSystemProofs, FiniteSetTheorems

USE JobSystemAssumption, JobStatusAssumption DEF JobSystemAssumption, JobStatusAssumption

(* The system underneath goes on as if nobody asked.                       *)
LEMMA StatusRefinesSystem == StatusSpec => Spec
<1>1. StatusInit => Init
  BY DEF StatusInit
<1>2. [StatusNext]_<<vars, statusVars>> => [Next]_vars
  BY DEF StatusNext, Ask, CountAndAnswer, ReadJob
<1>3. QED
  BY <1>1, <1>2, PTL DEF StatusSpec, Spec

(* What is known of JobSystem in every state of StatusSpec.                *)
SystemInv == TypeOK /\ LifeCycle /\ MessagesGenuine /\ ResultCorrect

(* What is proved of the system holds of it with status updates.           *)
LEMMA SystemInvCorrect == StatusSpec => []SystemInv
  BY StatusRefinesSystem, TypeCorrect, LifeCycleCorrect, MessagesGenuineCorrect,
     ResultAlwaysCorrect, PTL DEF SystemInv

------------------------------------------------------------------------------
(* Types.                                                                  *)

(* Every step keeps the types.                                             *)
LEMMA NextStatusType ==
  StatusTypeOK /\ SystemInv /\ [StatusNext]_<<vars, statusVars>> => StatusTypeOK'
<1> SUFFICES ASSUME StatusTypeOK, SystemInv, [StatusNext]_<<vars, statusVars>>
             PROVE  StatusTypeOK'
  OBVIOUS
<1>1. CASE UNCHANGED statusVars
  BY <1>1 DEF StatusTypeOK, statusVars
<1>2. ASSUME NEW u \in Users, NEW j \in Jobs, ReadJob(u, j) PROVE StatusTypeOK'
  BY <1>2 DEF StatusTypeOK, ReadJob
<1>3. ASSUME NEW u \in Users, CountAndAnswer(u) PROVE StatusTypeOK'
  <2> DEFINE j == asking[u]
             status == Status(j, Cardinality(Completed(j)))
  <2>1. j \in Jobs /\ status \in {"Completed", "InProgress"}
    BY <1>3 DEF StatusTypeOK, CountAndAnswer, Status
  <2>2. answer' = [answer EXCEPT ![u] = [job |-> j, status |-> status]]
    BY <1>3 DEF CountAndAnswer
  <2>3. [job |-> j, status |-> status]
          \in [job : Jobs \cup {NoJob}, status : {"Completed", "InProgress"}]
    BY <2>1
  <2>4. answer' \in [Users -> [job : Jobs \cup {NoJob}, status : {"Completed", "InProgress"}]]
    BY <2>2, <2>3 DEF StatusTypeOK
  <2>5. completed' \subseteq Jobs /\ asking' \in [Users -> Jobs \cup {NoJob}]
        /\ knewBetter' \in [Users -> BOOLEAN]
    BY <1>3, <2>1 DEF StatusTypeOK, CountAndAnswer
  <2>6. QED
    BY <2>4, <2>5 DEF StatusTypeOK
<1>4. QED
  BY <1>1, <1>2, <1>3 DEF StatusNext, Ask, statusVars

(* The types of the users' state (job_controller.rs:160-184).              *)
THEOREM StatusTypeCorrect == StatusSpec => []StatusTypeOK
<1>1. StatusInit => StatusTypeOK
  BY DEF StatusInit, StatusTypeOK, NoAnswer
<1>2. QED
  BY <1>1, NextStatusType, SystemInvCorrect, PTL DEF StatusSpec

------------------------------------------------------------------------------
(* What a count tells.                                                     *)

(* The count equals the number of lines exactly when every line has the    *)
(* result it should have.                                                  *)
LEMMA CountTells ==
  ASSUME SystemInv, NEW j \in Jobs
  PROVE  Status(j, Cardinality(Completed(j))) = "Completed"
           <=> \A o \in OpsOf(j) : doc[o] = Answer[o]
<1>1. Completed(j) \in SUBSET OpsOf(j) /\ OpsOf(j) \in SUBSET Ops
  BY DEF Completed, DocsOf, OpsOf
<1>2. IsFiniteSet(OpsOf(j))
  BY <1>1, FS_Subset
<1>3. Cardinality(Completed(j)) = Cardinality(OpsOf(j)) <=> Completed(j) = OpsOf(j)
  BY <1>1, <1>2, FS_Subset
<1>4. \A o \in OpsOf(j) : o \in Completed(j) <=> doc[o] = Answer[o]
  BY DEF SystemInv, ResultCorrect, Completed, DocsOf, OpsOf, Answer
<1>5. QED
  BY <1>1, <1>3, <1>4 DEF Status

(* A job asked about, or reported completed, was posted before: it cannot  *)
(* be inserted again.  A user who knows better asks about a job that is    *)
(* reported completed.                                                     *)
AskedWasPosted ==
  /\ \A u \in Users : asking[u] # NoJob =>
       /\ create[asking[u]] # "none"
       /\ knewBetter[u] => asking[u] \in completed
  /\ \A j \in completed : create[j] # "none"

StatusInv == StatusTypeOK /\ AskedWasPosted /\ CompletedKeepsResults

(* A line of a job in the collection keeps its right result.               *)
LEMMA ResultStays ==
  ASSUME SystemInv, [Next]_vars, NEW o \in Ops, JobOf[o] \in jobs, doc[o] = Answer[o]
  PROVE  doc'[o] = Answer[o]
<1>1. doc[o] # NoDoc /\ o \in inserted /\ cleanup[JobOf[o]] = "idle"
  BY DEF SystemInv, LifeCycle, Answer
<1>2. ASSUME NEW q \in Ops, InsertOperation(q) \/ CleanOperation(q) PROVE doc'[o] = doc[o]
  BY <1>1, <1>2 DEF SystemInv, TypeOK, InsertOperation, CleanOperation
<1>3. ASSUME NEW m \in responses, Update(m) PROVE doc'[o] = Answer[o]
  <2>1. PICK q \in Ops : m = AnswerMessage(q)
    BY DEF SystemInv, MessagesGenuine
  <2>2. m.operation_id = q /\ m.result = Answer[q]
    BY <2>1 DEF AnswerMessage
  <2>3. o \in Selected(m) => m.result = Answer[o]
    BY <2>2 DEF Selected
  <2>4. QED
    BY <1>3, <2>3 DEF SystemInv, TypeOK, Update
<1>4. QED
  BY <1>2, <1>3, DocSteps

(* Every step keeps the invariant of the status.                           *)
LEMMA NextStatusInv ==
  SystemInv /\ StatusInv /\ [StatusNext]_<<vars, statusVars>> => StatusInv'
<1> SUFFICES ASSUME SystemInv, StatusInv, [StatusNext]_<<vars, statusVars>>
             PROVE  StatusInv'
  OBVIOUS
<1> USE DEF StatusInv
<1>1. StatusTypeOK'
  BY NextStatusType
<1>2. CASE [Next]_vars /\ UNCHANGED statusVars
  <2>1. UNCHANGED <<asking, knewBetter, answer, completed>>
    BY <1>2 DEF statusVars
  <2>2. AskedWasPosted'
    BY <1>2, <2>1, PostedStays DEF AskedWasPosted, StatusTypeOK, SystemInv
  <2>3. ASSUME NEW j \in completed', j \in jobs', NEW o \in OpsOf(j)
        PROVE  doc'[o] = Answer[o]
    <3>1. j \in completed /\ j \in Jobs /\ o \in Ops /\ JobOf[o] = j
      BY <2>1, <2>3 DEF OpsOf, StatusTypeOK
    <3>2. j \in jobs
      BY <1>2, <2>3, <3>1, NewJobs DEF AskedWasPosted, SystemInv
    <3>3. doc[o] = Answer[o]
      BY <2>3, <3>1, <3>2 DEF CompletedKeepsResults
    <3>4. QED
      BY <1>2, <3>1, <3>2, <3>3, ResultStays
  <2>4. CompletedKeepsResults'
    BY <2>3 DEF CompletedKeepsResults, OpsOf, Answer
  <2>5. QED
    BY <1>1, <2>2, <2>4
<1>3. ASSUME NEW u \in Users, NEW j \in Jobs, ReadJob(u, j) PROVE StatusInv'
  <2>1. UNCHANGED <<vars, completed>> /\ UNCHANGED <<jobs, doc, create>>
    BY <1>3 DEF ReadJob, vars, database, handlers
  <2>2. create[j] # "none"
    BY <1>3 DEF ReadJob, SystemInv, LifeCycle
  <2>3. AskedWasPosted'
    BY <1>3, <2>1, <2>2 DEF AskedWasPosted, StatusTypeOK, ReadJob
  <2>4. CompletedKeepsResults'
    BY <2>1 DEF CompletedKeepsResults, OpsOf, Answer
  <2>5. QED
    BY <1>1, <2>3, <2>4
<1>4. ASSUME NEW u \in Users, CountAndAnswer(u) PROVE StatusInv'
  <2>1. UNCHANGED <<vars, knewBetter>> /\ UNCHANGED <<jobs, doc, create>>
    BY <1>4 DEF CountAndAnswer, vars, database, handlers
  <2>2. asking[u] \in Jobs /\ create[asking[u]] # "none"
    BY <1>4 DEF CountAndAnswer, AskedWasPosted, StatusTypeOK
  <2>3. /\ asking' = [asking EXCEPT ![u] = NoJob]
        /\ \/ completed' = completed
           \/ /\ completed' = completed \cup {asking[u]}
              /\ Status(asking[u], Cardinality(Completed(asking[u]))) = "Completed"
    BY <1>4 DEF CountAndAnswer
  <2>4. AskedWasPosted'
    BY <2>1, <2>2, <2>3 DEF AskedWasPosted, StatusTypeOK
  <2>5. \A j \in completed' \cap jobs : \A o \in OpsOf(j) : doc[o] = Answer[o]
    BY <2>2, <2>3, CountTells DEF CompletedKeepsResults
  <2>6. CompletedKeepsResults'
    BY <2>1, <2>5 DEF CompletedKeepsResults, OpsOf, Answer
  <2>7. QED
    BY <1>1, <2>4, <2>6
<1>5. QED
  BY <1>2, <1>3, <1>4 DEF StatusNext, Ask

(* The invariant of the status.                                            *)
LEMMA StatusInvCorrect == StatusSpec => []StatusInv
<1>1. StatusInit => StatusInv
  BY DEF StatusInit, StatusInv, StatusTypeOK, AskedWasPosted, CompletedKeepsResults, NoAnswer
<1>2. QED
  BY <1>1, NextStatusInv, SystemInvCorrect, PTL DEF StatusSpec

(* Whoever is told that a job is completed finds the right result on every *)
(* line of it as long as the job exists (job_controller.rs:160-184).       *)
THEOREM CompletedKeepsResultsCorrect == StatusSpec => []CompletedKeepsResults
  BY StatusInvCorrect, PTL DEF StatusInv

(* A job reported completed is not reported in progress to a user who asks *)
(* later, unless it is gone when the operations are counted                *)
(* (job_controller.rs:160-184, 125-157).                                   *)
THEOREM NoStepBackCorrect == StatusSpec => NoStepBack
<1> DEFINE Kept ==
      \A u \in Users :
        LET j == asking[u] IN
        j # NoJob /\ asking'[u] = NoJob /\ knewBetter[u] /\ j \in jobs
          => answer'[u].status = "Completed"
<1>1. SystemInv /\ StatusInv /\ [StatusNext]_<<vars, statusVars>>
        => [Kept]_<<vars, statusVars>>
  <2> SUFFICES ASSUME SystemInv, StatusInv, [StatusNext]_<<vars, statusVars>>,
                      ~ UNCHANGED <<vars, statusVars>>,
                      NEW u \in Users, asking[u] # NoJob, asking'[u] = NoJob,
                      knewBetter[u], asking[u] \in jobs
               PROVE  answer'[u].status = "Completed"
    OBVIOUS
  <2>1. CountAndAnswer(u)
    BY DEF StatusInv, StatusTypeOK, StatusNext, Ask, CountAndAnswer, ReadJob, statusVars
  <2>2. asking[u] \in Jobs /\ asking[u] \in completed
    BY DEF StatusInv, StatusTypeOK, AskedWasPosted
  <2>3. \A o \in OpsOf(asking[u]) : doc[o] = Answer[o]
    BY <2>2 DEF StatusInv, CompletedKeepsResults
  <2>4. Status(asking[u], Cardinality(Completed(asking[u]))) = "Completed"
    BY <2>2, <2>3, CountTells
  <2>5. answer'[u] = [job |-> asking[u], status |-> "Completed"]
    BY <2>1, <2>4 DEF CountAndAnswer, StatusInv, StatusTypeOK
  <2>6. QED
    BY <2>5
<1>2. QED
  BY <1>1, SystemInvCorrect, StatusInvCorrect, PTL DEF StatusSpec, NoStepBack
==============================================================================
