--------------------------- MODULE JobSystemProofs ---------------------------
(***************************************************************************)
(* What holds of the job system for any number of jobs, lines, instances,  *)
(* failures, crashes and SIGTERMs: its types, that every result in the     *)
(* database is the value of its own operation's request, the order of a    *)
(* job's life, and that the system implements JobService.                  *)
(***************************************************************************)
EXTENDS JobSystem, TLAPS

USE JobSystemAssumption DEF JobSystemAssumption

(* What a step does to a topic is part of the action that takes it.        *)
USE DEF RequestTopic!TopicInit, RequestTopic!topic, RequestTopic!Send, RequestTopic!Handle,
        RequestTopic!HandleAgain, RequestTopic!Release,
        ResponseTopic!TopicInit, ResponseTopic!topic, ResponseTopic!Send,
        ResponseTopic!Handle, ResponseTopic!HandleAgain, ResponseTopic!Release

------------------------------------------------------------------------------
(* Types.                                                                  *)

(* A failed call is counted within the bound.                              *)
LEMMA FaultType ==
  ASSUME faults \in 0..MaxFaults, stops \in 0..MaxStops, Fault
  PROVE  faults' \in 0..MaxFaults /\ stops' \in 0..MaxStops
  BY DEF Fault

(* The message built from a line has its type.                             *)
LEMMA RequestMessageType ==
  ASSUME NEW o \in Ops
  PROVE  RequestMessage(o) \in RequestMessages
  BY DEF RequestMessage, RequestMessages

(* The server turns request messages into result messages.                 *)
LEMMA ResultMessageType ==
  ASSUME NEW m \in RequestMessages
  PROVE  ResultMessage(m) \in ResultMessages
  BY DEF RequestMessages, ResultMessage, ResultMessages

(* The initial state has the right types.                                  *)
LEMMA InitType == Init => TypeOK
  BY DEF Init, TypeOK

(* What users do keeps the types.                                          *)
LEMMA UserType ==
  ASSUME TypeOK, User
  PROVE  TypeOK'
<1>1. ASSUME NEW j \in Jobs, RefuseEmptyJob(j) PROVE TypeOK'
  BY <1>1 DEF TypeOK, RefuseEmptyJob, database, dispatcher, cleaners, sends, requestTopic,
     responseTopic, environment
<1>2. ASSUME NEW j \in Jobs, NEW c \in Clients, InsertJob(c, j) PROVE TypeOK'
  <2>1. jobs' \subseteq Jobs /\ create' \in [Jobs ->
          {"none", "inserting", "rollback", "accepted", "refused", "lost"}]
    BY <1>2 DEF TypeOK, InsertJob
  <2>2. faults' \in 0..MaxFaults /\ stops' \in 0..MaxStops
    BY <1>2, FaultType DEF TypeOK, InsertJob, environment
  <2>3. QED
    BY <1>2, <2>1, <2>2 DEF TypeOK, InsertJob, dispatcher, cleaners, sends, requestTopic,
       responseTopic
<1>3. ASSUME NEW j \in Jobs, NEW c \in Clients, DeleteJob(c, j) PROVE TypeOK'
  <2>1. /\ cleanup' \in [Jobs -> {"idle", "running", "done", "failed"}]
        /\ cleaner' \in [Jobs -> Clients \cup {NoOne}]
    BY <1>3 DEF TypeOK, DeleteJob, cleaners
  <2>2. faults' \in 0..MaxFaults /\ stops' \in 0..MaxStops
    BY <1>3, FaultType DEF TypeOK, DeleteJob, environment
  <2>3. QED
    BY <1>3, <2>1, <2>2 DEF TypeOK, DeleteJob, handlers, dispatcher, sends, requestTopic,
       responseTopic
<1>4. QED
  BY <1>1, <1>2, <1>3 DEF User

(* The POST handler keeps the types.                                       *)
LEMMA CreateType ==
  ASSUME TypeOK, NEW j \in Jobs, CreateStep(j)
  PROVE  TypeOK'
<1>1. ASSUME NEW o \in OpsOf(j), InsertOperation(o) PROVE TypeOK'
  BY <1>1 DEF TypeOK, OpsOf, InsertOperation, dispatcher, cleaners, sends, requestTopic,
     responseTopic, environment
<1>2. CASE AcceptJob(j)
  BY <1>2 DEF TypeOK, AcceptJob, database, cleaners, sends, requestTopic, responseTopic,
     environment
<1>3. CASE InsertOperationsFails(j)
  BY <1>3, FaultType DEF TypeOK, InsertOperationsFails, database, dispatcher, cleaners,
     sends, requestTopic, responseTopic
<1>4. CASE RollBack(j)
  <2>1. faults' \in 0..MaxFaults /\ stops' \in 0..MaxStops
    BY <1>4, FaultType DEF TypeOK, RollBack, environment
  <2>2. jobs' \subseteq Jobs
    BY <1>4 DEF TypeOK, RollBack
  <2>3. QED
    BY <1>4, <2>1, <2>2 DEF TypeOK, RollBack, dispatcher, cleaners, sends, requestTopic,
       responseTopic
<1>5. CASE HangUp(j)
  BY <1>5, FaultType DEF TypeOK, HangUp, database, dispatcher, cleaners, sends, requestTopic,
     responseTopic
<1>6. QED
  BY <1>1, <1>2, <1>3, <1>4, <1>5 DEF CreateStep

(* Spawning the sends of a chunk puts request messages into send tasks.    *)
LEMMA SpawnSendsType ==
  ASSUME TypeOK, NEW j \in Jobs, NEW S \in SUBSET Ops, SpawnSends(j, S)
  PROVE  sending' \in [Clients -> SUBSET RequestMessages] /\ chunk' \subseteq scanned
<1>1. {RequestMessage(o) : o \in S} \subseteq RequestMessages
  BY RequestMessageType
<1>2. QED
  BY <1>1 DEF TypeOK, SpawnSends

(* The dispatch task keeps the types.                                      *)
LEMMA DispatchType ==
  ASSUME TypeOK, NEW j \in Jobs, DispatchStep(j)
  PROVE  TypeOK'
<1>1. ASSUME NEW o \in OpsOf(j), ScanOperation(o) PROVE TypeOK'
  BY <1>1 DEF TypeOK, OpsOf, ScanOperation, database, handlers, cleaners, sends,
     requestTopic, responseTopic, environment
<1>2. Chunk(j) \subseteq Ops
  BY DEF Chunk, OpsOf
<1>3. CASE SendFullChunk(j)
  <2>1. sending' \in [Clients -> SUBSET RequestMessages] /\ chunk' \subseteq scanned
    BY <1>2, <1>3, SpawnSendsType DEF SendFullChunk
  <2>2. QED
    BY <1>3, <2>1 DEF TypeOK, SendFullChunk, database, handlers, cleaners, requestTopic,
       responseTopic, environment
<1>4. CASE FinishDispatch(j)
  <2>1. sending' \in [Clients -> SUBSET RequestMessages] /\ chunk' \subseteq scanned
    BY <1>2, <1>4, SpawnSendsType DEF FinishDispatch, LastChunk
  <2>2. QED
    BY <1>4, <2>1 DEF TypeOK, FinishDispatch, database, handlers, cleaners, requestTopic,
       responseTopic, environment
<1>5. CASE DispatchFails(j)
  BY <1>5, FaultType DEF TypeOK, DispatchFails, database, handlers, cleaners, sends,
     requestTopic, responseTopic
<1>6. QED
  BY <1>1, <1>3, <1>4, <1>5 DEF DispatchStep

(* The cleanup task keeps the types.                                       *)
LEMMA CleanupType ==
  ASSUME TypeOK, NEW j \in Jobs, CleanupStep(j)
  PROVE  TypeOK'
<1>1. ASSUME NEW o \in OpsOf(j), CleanOperation(o) PROVE TypeOK'
  BY <1>1 DEF TypeOK, OpsOf, CleanOperation, handlers, dispatcher, cleaners, sends,
     requestTopic, responseTopic, environment
<1>2. CASE FinishCleanup(j)
  BY <1>2 DEF TypeOK, FinishCleanup, database, handlers, dispatcher, sends, requestTopic,
     responseTopic, environment
<1>3. CASE CleanupFails(j)
  BY <1>3, FaultType DEF TypeOK, CleanupFails, database, handlers, dispatcher, sends,
     requestTopic, responseTopic
<1>4. QED
  BY <1>1, <1>2, <1>3 DEF CleanupStep

(* The response consumer and the send tasks of a client keep the types.    *)
LEMMA ClientType ==
  ASSUME TypeOK, NEW c \in Clients, ClientStep(c)
  PROVE  TypeOK'
<1>1. ASSUME NEW m \in sending[c], SendRequest(c, m) PROVE TypeOK'
  <2>1. faults' \in 0..MaxFaults /\ stops' \in 0..MaxStops
    BY <1>1, FaultType DEF TypeOK, SendRequest, environment
  <2>2. sending' \in [Clients -> SUBSET RequestMessages] /\ requests' \subseteq RequestMessages
    BY <1>1 DEF TypeOK, SendRequest, requestTopic
  <2>3. QED
    BY <1>1, <2>1, <2>2 DEF TypeOK, SendRequest, database, handlers, dispatcher, cleaners, requestTopic,
       responseTopic
<1>2. ASSUME NEW m \in responses, ApplyResponse(c, m) \/ ApplyResponseAgain(m) PROVE TypeOK'
  <2>1. faults' \in 0..MaxFaults /\ stops' \in 0..MaxStops
    BY <1>2, FaultType DEF TypeOK, ApplyResponse, ApplyResponseAgain, environment
  <2>2. m \in ResultMessages /\ m.result \in Results
    BY DEF TypeOK, ResultMessages
  <2>3. doc' \in [Ops -> {NoDoc, NoResult} \cup Results]
    BY <1>2, <2>2 DEF TypeOK, ApplyResponse, ApplyResponseAgain, Update
  <2>4. /\ responseOffsets' \in [Clients -> SUBSET ResultMessages]
        /\ UNCHANGED <<responses, responsesCommitted>>
    BY <1>2, <2>2 DEF TypeOK, ApplyResponse, ApplyResponseAgain
  <2>5. QED
    BY <1>2, <2>1, <2>3, <2>4 DEF TypeOK, ApplyResponse, ApplyResponseAgain, handlers,
       dispatcher, cleaners, sends, requestTopic
<1>3. ASSUME NEW gone, NEW done, ReleaseResponses(c, gone, done) PROVE TypeOK'
  <2>1. faults' \in 0..MaxFaults /\ stops' \in 0..MaxStops
    BY <1>3, FaultType DEF TypeOK, ReleaseResponses, environment
  <2>2. /\ responseOffsets' \in [Clients -> SUBSET ResultMessages]
        /\ responsesCommitted' \subseteq ResultMessages /\ UNCHANGED responses
    BY <1>3 DEF TypeOK, ReleaseResponses
  <2>3. QED
    BY <1>3, <2>1, <2>2 DEF TypeOK, ReleaseResponses, database, handlers, dispatcher,
       cleaners, sends, requestTopic
<1>4. QED
  BY <1>1, <1>2, <1>3 DEF ClientStep

(* The request consumer and the send tasks of a server keep the types.     *)
LEMMA ServerType ==
  ASSUME TypeOK, NEW s \in Servers, ServerStep(s)
  PROVE  TypeOK'
<1>1. ASSUME NEW m \in requests, HandleRequest(s, m) \/ HandleRequestAgain(s, m) PROVE TypeOK'
  <2>1. faults' \in 0..MaxFaults /\ stops' \in 0..MaxStops
    BY <1>1, FaultType DEF TypeOK, HandleRequest, HandleRequestAgain, environment
  <2>2. m \in RequestMessages /\ ResultMessage(m) \in ResultMessages
    BY ResultMessageType DEF TypeOK
  <2>3. /\ replying' \in [Servers -> SUBSET ResultMessages]
        /\ requestOffsets' \in [Servers -> SUBSET RequestMessages]
        /\ UNCHANGED <<requests, requestsCommitted>>
    BY <1>1, <2>2 DEF TypeOK, HandleRequest, HandleRequestAgain, SpawnReply
  <2>4. QED
    BY <1>1, <2>1, <2>3 DEF TypeOK, HandleRequest, HandleRequestAgain, database, handlers,
       dispatcher, cleaners, responseTopic
<1>2. ASSUME NEW gone, NEW done, ReleaseRequests(s, gone, done) PROVE TypeOK'
  <2>1. faults' \in 0..MaxFaults /\ stops' \in 0..MaxStops
    BY <1>2, FaultType DEF TypeOK, ReleaseRequests, environment
  <2>2. /\ requestOffsets' \in [Servers -> SUBSET RequestMessages]
        /\ requestsCommitted' \subseteq RequestMessages /\ UNCHANGED requests
    BY <1>2 DEF TypeOK, ReleaseRequests
  <2>3. QED
    BY <1>2, <2>1, <2>2 DEF TypeOK, ReleaseRequests, database, handlers, dispatcher,
       cleaners, sends, responseTopic
<1>4. ASSUME NEW m \in replying[s], SendResult(s, m) PROVE TypeOK'
  <2>1. faults' \in 0..MaxFaults /\ stops' \in 0..MaxStops
    BY <1>4, FaultType DEF TypeOK, SendResult, environment
  <2>2. replying' \in [Servers -> SUBSET ResultMessages] /\ responses' \subseteq ResultMessages
    BY <1>4 DEF TypeOK, SendResult, responseTopic
  <2>3. QED
    BY <1>4, <2>1, <2>2 DEF TypeOK, SendResult, database, handlers, dispatcher, cleaners, responseTopic,
       requestTopic
<1>5. QED
  BY <1>1, <1>2, <1>4 DEF ServerStep

(* The tasks that end with their process leave well-typed state behind.    *)
LEMMA KillTasksType ==
  ASSUME TypeOK, NEW c \in Clients, KillTasks(c)
  PROVE  /\ dispatch' \in [Jobs -> {"idle", "scanning", "done", "failed"}]
         /\ chunk' \subseteq scanned
         /\ cleanup' \in [Jobs -> {"idle", "running", "done", "failed"}]
         /\ sending' \in [Clients -> SUBSET RequestMessages]
  BY DEF TypeOK, KillTasks

(* Crashes and SIGTERMs keep the types.                                    *)
LEMMA EndType ==
  ASSUME TypeOK,
         \/ \E c \in Clients : ClientEnds(c)
         \/ \E s \in Servers : ServerEnds(s)
  PROVE  TypeOK'
<1>1. ASSUME NEW c \in Clients, CrashClient(c) PROVE TypeOK'
  BY <1>1, FaultType, KillTasksType DEF TypeOK, CrashClient, database, requestTopic
<1>2. ASSUME NEW c \in Clients, NEW done, StopClient(c, done) PROVE TypeOK'
  <2>1. faults' \in 0..MaxFaults /\ stops' \in 0..MaxStops
    BY <1>2 DEF TypeOK, StopClient
  <2>2. QED
    BY <1>2, <2>1, KillTasksType DEF TypeOK, StopClient, database, handlers, requestTopic
<1>3. ASSUME NEW s \in Servers, CrashServer(s) PROVE TypeOK'
  BY <1>3, FaultType DEF TypeOK, CrashServer, database, handlers, dispatcher, cleaners,
     responseTopic
<1>4. ASSUME NEW s \in Servers, NEW done, StopServer(s, done) PROVE TypeOK'
  <2>1. faults' \in 0..MaxFaults /\ stops' \in 0..MaxStops
    BY <1>4 DEF TypeOK, StopServer
  <2>2. QED
    BY <1>4, <2>1 DEF TypeOK, StopServer, database, handlers, dispatcher, cleaners,
       responseTopic
<1>5. QED
  BY <1>1, <1>2, <1>3, <1>4 DEF ClientEnds, ServerEnds

(* Every step keeps the types.                                             *)
LEMMA NextType == TypeOK /\ [Next]_vars => TypeOK'
<1>1. CASE UNCHANGED vars
  BY <1>1 DEF TypeOK, vars, database, handlers, dispatcher, cleaners, sends, requestTopic,
     responseTopic, environment
<1>2. QED
  BY <1>1, UserType, CreateType, DispatchType, CleanupType, ClientType, ServerType, EndType
     DEF Next

(* The types hold in every reachable state, for any numbers of jobs,       *)
(* lines, instances, failures and SIGTERMs (job_controller.rs:41-157).     *)
THEOREM TypeCorrect == Spec => []TypeOK
  BY InitType, NextType, PTL DEF Spec

------------------------------------------------------------------------------
(* Messages.                                                               *)

(* Only these actions put messages into send tasks and topics, or take     *)
(* them out of send tasks; all others leave them alone.                    *)
LEMMA MessageSteps ==
  ASSUME [Next]_vars
  PROVE  \/ \E j \in Jobs : SendFullChunk(j) \/ FinishDispatch(j)
         \/ \E c \in Clients : \E m \in sending[c] : SendRequest(c, m)
         \/ /\ \E s \in Servers : \E m \in requests : SpawnReply(s, m)
            /\ UNCHANGED <<sending, requests, responses>>
         \/ \E s \in Servers : \E m \in replying[s] : SendResult(s, m)
         \/ \E c \in Clients : ClientEnds(c)
         \/ \E s \in Servers : ServerEnds(s)
         \/ UNCHANGED <<sending, replying, requests, responses>>
<1> DEFINE Still == UNCHANGED <<sending, replying, requests, responses>>
<1>1. User => Still
  BY DEF User, RefuseEmptyJob, InsertJob, DeleteJob, sends, requestTopic, responseTopic
<1>2. ASSUME NEW j \in Jobs, CreateStep(j) PROVE Still
  BY <1>2 DEF CreateStep, InsertOperation, AcceptJob, InsertOperationsFails, RollBack, HangUp,
     sends, requestTopic, responseTopic
<1>3. ASSUME NEW j \in Jobs, DispatchStep(j)
      PROVE  SendFullChunk(j) \/ FinishDispatch(j) \/ Still
  BY <1>3 DEF DispatchStep, ScanOperation, DispatchFails, sends, requestTopic, responseTopic
<1>4. ASSUME NEW j \in Jobs, CleanupStep(j) PROVE Still
  BY <1>4 DEF CleanupStep, CleanOperation, FinishCleanup, CleanupFails, sends, requestTopic,
     responseTopic
<1>5. ASSUME NEW c \in Clients, ClientStep(c)
      PROVE  (\E m \in sending[c] : SendRequest(c, m)) \/ Still
  BY <1>5 DEF ClientStep, ApplyResponse, ApplyResponseAgain, ReleaseResponses, sends,
     requestTopic
<1>6. ASSUME NEW s \in Servers, ServerStep(s)
      PROVE  \/ /\ \E m \in requests : SpawnReply(s, m)
                /\ UNCHANGED <<sending, requests, responses>>
             \/ \E m \in replying[s] : SendResult(s, m)
             \/ Still
  BY <1>6 DEF ServerStep, HandleRequest, HandleRequestAgain, ReleaseRequests, sends,
     responseTopic
<1>7. UNCHANGED vars => Still
  BY DEF vars, sends, requestTopic, responseTopic
<1>8. QED
  BY <1>1, <1>2, <1>3, <1>4, <1>5, <1>6, <1>7 DEF Next

(* The server turns the request of a line into the answer to that line.    *)
LEMMA RequestAnswered ==
  ASSUME NEW o \in Ops
  PROVE  ResultMessage(RequestMessage(o)) = AnswerMessage(o)
  BY DEF ResultMessage, RequestMessage, AnswerMessage, Answer

(* Every step keeps the messages genuine.                                  *)
LEMMA NextGenuine == TypeOK /\ MessagesGenuine /\ [Next]_vars => MessagesGenuine'
<1> SUFFICES ASSUME TypeOK, MessagesGenuine, [Next]_vars
             PROVE  MessagesGenuine'
  OBVIOUS
<1>1. ASSUME NEW j \in Jobs, SendFullChunk(j) \/ FinishDispatch(j) PROVE MessagesGenuine'
  <2>1. PICK S \in SUBSET Ops : SpawnSends(j, S)
    BY <1>1 DEF SendFullChunk, FinishDispatch, LastChunk, Chunk, OpsOf
  <2>2. ASSUME NEW c \in Clients PROVE sending'[c] \subseteq {RequestMessage(o) : o \in Ops}
    BY <2>1 DEF TypeOK, MessagesGenuine, SpawnSends
  <2>3. UNCHANGED <<replying, requests, responses>>
    BY <1>1 DEF SendFullChunk, FinishDispatch, requestTopic, responseTopic
  <2>4. QED
    BY <2>2, <2>3 DEF MessagesGenuine
<1>2. ASSUME NEW c \in Clients, NEW m \in sending[c], SendRequest(c, m) PROVE MessagesGenuine'
  <2>1. UNCHANGED <<replying, responses>> /\ requests' \subseteq requests \cup {m}
    BY <1>2 DEF SendRequest, responseTopic, requestTopic
  <2>2. \A d \in Clients : sending'[d] \subseteq sending[d]
    BY <1>2 DEF TypeOK, SendRequest
  <2>3. QED
    BY <2>1, <2>2 DEF MessagesGenuine
<1>3. ASSUME NEW s \in Servers, NEW m \in requests, SpawnReply(s, m),
             UNCHANGED <<sending, requests, responses>>
      PROVE  MessagesGenuine'
  <2>2. PICK o \in Ops : m = RequestMessage(o)
    BY DEF MessagesGenuine
  <2>3. \A t \in Servers : replying'[t] \subseteq replying[t] \cup {AnswerMessage(o)}
    BY <1>3, <2>2, RequestAnswered DEF TypeOK, SpawnReply
  <2>4. QED
    BY <1>3, <2>3 DEF MessagesGenuine
<1>4. ASSUME NEW s \in Servers, NEW m \in replying[s], SendResult(s, m) PROVE MessagesGenuine'
  <2>1. UNCHANGED <<sending, requests>> /\ responses' \subseteq responses \cup {m}
    BY <1>4 DEF SendResult, requestTopic, responseTopic
  <2>2. \A t \in Servers : replying'[t] \subseteq replying[t]
    BY <1>4 DEF TypeOK, SendResult
  <2>3. QED
    BY <2>1, <2>2 DEF MessagesGenuine
<1>5. ASSUME NEW c \in Clients, ClientEnds(c) PROVE MessagesGenuine'
  <2>1. UNCHANGED <<replying, requests, responses>> /\ sending' = [sending EXCEPT ![c] = {}]
    BY <1>5 DEF ClientEnds, CrashClient, StopClient, KillTasks, requestTopic
  <2>2. QED
    BY <2>1 DEF TypeOK, MessagesGenuine
<1>6. ASSUME NEW s \in Servers, ServerEnds(s) PROVE MessagesGenuine'
  <2>1. UNCHANGED <<sending, requests, responses>> /\ replying' = [replying EXCEPT ![s] = {}]
    BY <1>6 DEF ServerEnds, CrashServer, StopServer, responseTopic
  <2>2. QED
    BY <2>1 DEF TypeOK, MessagesGenuine
<1>7. CASE UNCHANGED <<sending, replying, requests, responses>>
  BY <1>7 DEF MessagesGenuine
<1>8. QED
  BY <1>1, <1>2, <1>3, <1>4, <1>5, <1>6, <1>7, MessageSteps

(* Both topics carry only genuine messages, for any numbers of jobs,       *)
(* instances and failures (server consumer.rs:26-45).                      *)
THEOREM MessagesGenuineCorrect == Spec => []MessagesGenuine
<1>1. Init => MessagesGenuine
  BY DEF Init, MessagesGenuine
<1>2. QED
  BY <1>1, NextGenuine, TypeCorrect, PTL DEF Spec

------------------------------------------------------------------------------
(* Results.                                                                *)

(* A step writes an operation only to insert it, to delete it, or to apply *)
(* a response.                                                             *)
LEMMA DocSteps ==
  ASSUME [Next]_vars
  PROVE  \/ \E o \in Ops : InsertOperation(o) \/ CleanOperation(o)
         \/ \E m \in responses : Update(m)
         \/ UNCHANGED doc
<1>1. User => UNCHANGED doc
  BY DEF User, RefuseEmptyJob, InsertJob, DeleteJob, database
<1>2. ASSUME NEW j \in Jobs, CreateStep(j)
      PROVE  (\E o \in Ops : InsertOperation(o)) \/ UNCHANGED doc
  BY <1>2 DEF CreateStep, OpsOf, AcceptJob, InsertOperationsFails, RollBack, HangUp, database
<1>3. ASSUME NEW j \in Jobs, DispatchStep(j) PROVE UNCHANGED doc
  BY <1>3 DEF DispatchStep, ScanOperation, SendFullChunk, FinishDispatch, DispatchFails,
     database
<1>4. ASSUME NEW j \in Jobs, CleanupStep(j)
      PROVE  (\E o \in Ops : CleanOperation(o)) \/ UNCHANGED doc
  BY <1>4 DEF CleanupStep, OpsOf, FinishCleanup, CleanupFails, database
<1>5. ASSUME NEW c \in Clients, ClientStep(c) \/ ClientEnds(c)
      PROVE  (\E m \in responses : Update(m)) \/ UNCHANGED doc
  BY <1>5 DEF ClientStep, SendRequest, ApplyResponse, ApplyResponseAgain, ReleaseResponses, ClientEnds, CrashClient,
     StopClient, database
<1>6. ASSUME NEW s \in Servers, ServerStep(s) \/ ServerEnds(s)
      PROVE  UNCHANGED doc
  BY <1>6 DEF ServerStep, HandleRequest, HandleRequestAgain, ReleaseRequests, SendResult,
     ServerEnds, CrashServer, StopServer, database
<1>7. UNCHANGED vars => UNCHANGED doc
  BY DEF vars, database
<1>8. QED
  BY <1>1, <1>2, <1>3, <1>4, <1>5, <1>6, <1>7 DEF Next

(* Every step keeps the results right.                                     *)
LEMMA NextResult ==
  TypeOK /\ MessagesGenuine /\ ResultCorrect /\ [Next]_vars => ResultCorrect'
<1> SUFFICES ASSUME TypeOK, MessagesGenuine, ResultCorrect, [Next]_vars, NEW o \in Ops
             PROVE  doc'[o] \in {NoDoc, NoResult, Answer[o]}
  BY DEF ResultCorrect, Answer
<1>1. ASSUME NEW q \in Ops, InsertOperation(q) \/ CleanOperation(q)
      PROVE  doc'[o] \in {NoDoc, NoResult, Answer[o]}
  BY <1>1 DEF TypeOK, ResultCorrect, InsertOperation, CleanOperation
<1>2. ASSUME NEW m \in responses, Update(m)
      PROVE  doc'[o] \in {NoDoc, NoResult, Answer[o]}
  <2>1. PICK q \in Ops : m = AnswerMessage(q)
    BY DEF MessagesGenuine
  <2>2. m.operation_id = q /\ m.result = Answer[q]
    BY <2>1 DEF AnswerMessage
  <2>3. o \in Selected(m) => m.result = Answer[o]
    BY <2>2 DEF Selected
  <2>4. QED
    BY <1>2, <2>3 DEF TypeOK, ResultCorrect, Update
<1>3. QED
  BY <1>1, <1>2, DocSteps DEF ResultCorrect

(* Every result in the database is the value of its operation's own        *)
(* request, for any numbers of jobs, lines, instances, failures, crashes   *)
(* and redeliveries (operation_repository.rs:239-267).                     *)
THEOREM ResultAlwaysCorrect == Spec => []ResultCorrect
<1>1. Init => ResultCorrect
  BY DEF Init, ResultCorrect
<1>2. QED
  BY <1>1, NextResult, TypeCorrect, MessagesGenuineCorrect, PTL DEF Spec

------------------------------------------------------------------------------
(* The life of a job.                                                      *)

(* What users do keeps the life cycle.                                     *)
LEMMA UserLife ==
  ASSUME TypeOK, LifeCycle, User
  PROVE  LifeCycle'
<1>1. ASSUME NEW j \in Jobs, RefuseEmptyJob(j) PROVE LifeCycle'
  BY <1>1 DEF TypeOK, LifeCycle, RefuseEmptyJob, EmptyBody, OpsOf, database, dispatcher, cleaners
<1>2. ASSUME NEW j \in Jobs, NEW c \in Clients, InsertJob(c, j) PROVE LifeCycle'
  <2>1. ASSUME NEW i \in Jobs, i # j PROVE create'[i] = create[i] /\ (i \in jobs' <=> i \in jobs)
    BY <1>2, <2>1 DEF TypeOK, InsertJob
  <2>2. create'[j] = "refused" \/ (create'[j] = "inserting" /\ j \in jobs')
    BY <1>2 DEF TypeOK, InsertJob
  <2>3. UNCHANGED <<doc, inserted, dispatch, cleanup>> /\ create[j] = "none"
    BY <1>2 DEF InsertJob, dispatcher, cleaners
  <2> OpsOf(j) # {}
    BY <1>2 DEF InsertJob, EmptyBody
  <2>4. ASSUME NEW i \in Jobs
        PROVE  /\ create'[i] = "none" => i \notin jobs' /\ cleanup'[i] = "idle"
               /\ i \in jobs' => cleanup'[i] = "idle"
               /\ create'[i] \in {"inserting", "rollback"} /\ ~EarlyDelete => i \in jobs'
               /\ dispatch'[i] # "idle" =>
                    create'[i] = "accepted" /\ OpsOf(i) \subseteq inserted'
               /\ OpsOf(i) = {} => create'[i] \in {"none", "refused"} /\ i \notin jobs'
    BY <2>1, <2>2, <2>3 DEF LifeCycle
  <2>5. QED
    BY <2>3, <2>4 DEF LifeCycle
<1>3. ASSUME NEW j \in Jobs, NEW c \in Clients, DeleteJob(c, j) PROVE LifeCycle'
  <2>1. jobs' = jobs \ {j} /\ j \in jobs /\ UNCHANGED <<doc, create, inserted, dispatch>>
    BY <1>3 DEF DeleteJob, MayDelete, handlers, dispatcher
  <2>2. \A i \in Jobs \ {j} : cleanup'[i] = cleanup[i]
    BY <1>3 DEF TypeOK, DeleteJob, cleaners
  <2>3. create[j] \in {"inserting", "rollback"} => EarlyDelete
    BY <1>3 DEF DeleteJob, MayDelete
  <2>4. QED
    BY <2>1, <2>2, <2>3 DEF LifeCycle
<1>4. QED
  BY <1>1, <1>2, <1>3 DEF User

(* The POST handler keeps the life cycle.                                  *)
LEMMA CreateLife ==
  ASSUME TypeOK, LifeCycle, NEW j \in Jobs, CreateStep(j)
  PROVE  LifeCycle'
<1>1. ASSUME NEW o \in OpsOf(j), InsertOperation(o) PROVE LifeCycle'
  BY <1>1 DEF TypeOK, LifeCycle, InsertOperation, OpsOf, dispatcher, cleaners
<1>2. CASE AcceptJob(j)
  BY <1>2 DEF TypeOK, LifeCycle, AcceptJob, InsertReturned, database, cleaners
<1>3. CASE InsertOperationsFails(j)
  BY <1>3 DEF TypeOK, LifeCycle, InsertOperationsFails, database, dispatcher, cleaners
<1>4. CASE RollBack(j)
  <2>1. jobs' \in {jobs, jobs \ {j}} /\ UNCHANGED <<doc, inserted, dispatch, cleanup>>
    BY <1>4 DEF RollBack, dispatcher, cleaners
  <2>2. create'[j] = "refused" /\ create[j] = "rollback"
        /\ \A i \in Jobs \ {j} : create'[i] = create[i]
    BY <1>4 DEF TypeOK, RollBack
  <2>3. QED
    BY <2>1, <2>2 DEF LifeCycle
<1>5. CASE HangUp(j)
  BY <1>5 DEF TypeOK, LifeCycle, HangUp, database, dispatcher, cleaners
<1>6. QED
  BY <1>1, <1>2, <1>3, <1>4, <1>5 DEF CreateStep

(* The two tasks keep the life cycle.                                      *)
LEMMA TaskLife ==
  ASSUME TypeOK, LifeCycle, NEW j \in Jobs, DispatchStep(j) \/ CleanupStep(j)
  PROVE  LifeCycle'
<1>1. ASSUME NEW o \in OpsOf(j), ScanOperation(o) PROVE LifeCycle'
  BY <1>1 DEF LifeCycle, ScanOperation, database, handlers, cleaners
<1>2. CASE SendFullChunk(j)
  BY <1>2 DEF LifeCycle, SendFullChunk, database, handlers, cleaners
<1>3. CASE FinishDispatch(j) \/ DispatchFails(j)
  <2>1. /\ UNCHANGED <<jobs, doc, create, inserted, cleanup>> /\ dispatch[j] = "scanning"
        /\ \A i \in Jobs \ {j} : dispatch'[i] = dispatch[i]
    BY <1>3 DEF TypeOK, FinishDispatch, DispatchFails, database, handlers, cleaners
  <2>2. QED
    BY <2>1 DEF LifeCycle
<1>4. ASSUME NEW o \in OpsOf(j), CleanOperation(o) PROVE LifeCycle'
  BY <1>4 DEF TypeOK, LifeCycle, OpsOf, CleanOperation, handlers, dispatcher, cleaners
<1>5. CASE FinishCleanup(j) \/ CleanupFails(j)
  <2>1. /\ UNCHANGED <<jobs, doc, create, inserted, dispatch>> /\ cleanup[j] = "running"
        /\ \A i \in Jobs \ {j} : cleanup'[i] = cleanup[i]
    BY <1>5 DEF TypeOK, FinishCleanup, CleanupFails, database, handlers, dispatcher
  <2>2. QED
    BY <2>1 DEF LifeCycle
<1>6. QED
  BY <1>1, <1>2, <1>3, <1>4, <1>5 DEF DispatchStep, CleanupStep

(* Messages, crashes and SIGTERMs keep the life cycle.                     *)
LEMMA InstanceLife ==
  ASSUME TypeOK, LifeCycle,
         \/ \E c \in Clients : ClientStep(c) \/ ClientEnds(c)
         \/ \E s \in Servers : ServerStep(s) \/ ServerEnds(s)
  PROVE  LifeCycle'
<1>1. ASSUME NEW c \in Clients, ClientStep(c) PROVE LifeCycle'
  <2>1. UNCHANGED <<jobs, create, inserted, dispatch, cleanup>>
    BY <1>1 DEF ClientStep, SendRequest, ApplyResponse, ApplyResponseAgain, ReleaseResponses,
       database, handlers, dispatcher, cleaners
  <2>2. UNCHANGED doc \/ \E m \in responses : Update(m)
    BY <1>1 DEF ClientStep, SendRequest, ApplyResponse, ApplyResponseAgain, ReleaseResponses,
       database
  <2>3. \A o \in Ops : doc'[o] # NoDoc => doc[o] # NoDoc
    BY <2>2 DEF Update, Selected
  <2>4. QED
    BY <2>1, <2>3 DEF LifeCycle
<1>2. ASSUME NEW c \in Clients, ClientEnds(c) PROVE LifeCycle'
  <2>1. UNCHANGED <<jobs, doc, inserted>> /\ KillTasks(c)
    BY <1>2 DEF ClientEnds, CrashClient, StopClient, database, handlers
  <2>2. ASSUME NEW j \in Jobs
        PROVE  /\ create'[j] = create[j] \/
                    (create'[j] = "lost" /\ create[j] \in {"inserting", "rollback"})
               /\ dispatch'[j] = dispatch[j] \/ dispatch[j] = "scanning"
               /\ cleanup'[j] = cleanup[j] \/ cleanup[j] = "running"
    BY <1>2, <2>1 DEF TypeOK, ClientEnds, CrashClient, StopClient, KillTasks, Handling, handlers
  <2>3. QED
    BY <2>1, <2>2 DEF LifeCycle
<1>5. ASSUME NEW s \in Servers, ServerStep(s) \/ ServerEnds(s)
      PROVE  LifeCycle'
  BY <1>5 DEF LifeCycle, ServerStep, HandleRequest, HandleRequestAgain, ReleaseRequests,
     SendResult, ServerEnds, CrashServer, StopServer, database, handlers, dispatcher, cleaners
<1>6. QED
  BY <1>1, <1>2, <1>5

(* Every step keeps the life cycle.                                        *)
LEMMA NextLife == TypeOK /\ LifeCycle /\ [Next]_vars => LifeCycle'
<1>1. CASE UNCHANGED vars
  BY <1>1 DEF LifeCycle, vars, database, handlers, dispatcher, cleaners
<1>2. QED
  BY <1>1, UserLife, CreateLife, TaskLife, InstanceLife DEF Next

(* The handler and the tasks of every job follow each other in order,      *)
(* whatever fails in between (job_controller.rs:41-157).                   *)
THEOREM LifeCycleCorrect == Spec => []LifeCycle
<1>1. Init => LifeCycle
  BY DEF Init, LifeCycle
<1>2. QED
  BY <1>1, NextLife, TypeCorrect, PTL DEF Spec

(* A cleanup that was started is not started again, by another DELETE or   *)
(* by anything else (job_controller.rs:136-155, job_repository.rs:72).     *)
THEOREM OneCleanupCorrect == Spec => OneCleanup
<1> DEFINE Keeps(j) ==
      cleanup[j] # "idle" =>
        /\ cleaner'[j] = cleaner[j]
        /\ cleanup'[j] = "running" => cleanup[j] = "running"
<1>1. ASSUME TypeOK, LifeCycle, [Next]_vars, NEW j \in Jobs PROVE Keeps(j)
  <2>1. ASSUME NEW i \in Jobs, NEW c \in Clients, DeleteJob(c, i) PROVE Keeps(j)
    BY <1>1, <2>1 DEF TypeOK, LifeCycle, DeleteJob, MayDelete, cleaners
  <2>2. ASSUME NEW i \in Jobs, CleanupStep(i) PROVE Keeps(j)
    BY <1>1, <2>2
    DEF TypeOK, CleanupStep, CleanOperation, FinishCleanup, CleanupFails, cleaners
  <2>3. ASSUME NEW c \in Clients, ClientEnds(c) PROVE Keeps(j)
    BY <1>1, <2>3 DEF TypeOK, ClientEnds, CrashClient, StopClient, KillTasks
  <2>4. ASSUME NEW i \in Jobs,
               \/ RefuseEmptyJob(i) \/ \E c \in Clients : InsertJob(c, i)
               \/ CreateStep(i) \/ DispatchStep(i)
        PROVE  UNCHANGED cleaners
    BY <2>4
    DEF RefuseEmptyJob, InsertJob, CreateStep, InsertOperation, AcceptJob,
        InsertOperationsFails, RollBack, HangUp, DispatchStep, ScanOperation, SendFullChunk,
        FinishDispatch, DispatchFails
  <2>5. ASSUME \/ \E c \in Clients : ClientStep(c)
               \/ \E s \in Servers : ServerStep(s) \/ ServerEnds(s)
        PROVE  UNCHANGED cleaners
    BY <2>5
    DEF ClientStep, SendRequest, ApplyResponse, ApplyResponseAgain, ReleaseResponses,
        ServerStep, HandleRequest, HandleRequestAgain, ReleaseRequests, SendResult,
        ServerEnds, CrashServer, StopServer
  <2>6. UNCHANGED cleaners => Keeps(j)
    BY DEF cleaners
  <2>7. UNCHANGED vars => UNCHANGED cleaners
    BY DEF vars
  <2> QED
    BY <1>1, <2>1, <2>2, <2>3, <2>4, <2>5, <2>6, <2>7 DEF Next, User
<1>2. TypeOK /\ LifeCycle /\ [Next]_vars =>
        [\A j \in Jobs :
           cleanup[j] # "idle" =>
             /\ cleaner'[j] = cleaner[j]
             /\ cleanup'[j] = "running" => cleanup[j] = "running"]_vars
  BY <1>1
<1> QED
  BY <1>2, TypeCorrect, LifeCycleCorrect, PTL DEF Spec, OneCleanup

(* An operation is left behind only in a step of its own POST, DELETE or   *)
(* cleanup that goes wrong (job_controller.rs:66-86, 136-155).             *)
THEOREM OrphanHasCauseCorrect == Spec => OrphanHasCause
<1>1. ASSUME TypeOK, [Next]_vars, NEW o \in Ops, Orphan(o)' PROVE Orphan(o) \/ Strands(o)
  <2> USE DEF Orphan, Strands
  <2>1. ASSUME User PROVE Orphan(o) \/ Strands(o)
    <3>1. ASSUME NEW j \in Jobs, RefuseEmptyJob(j) \/ \E c \in Clients : InsertJob(c, j)
          PROVE  Orphan(o)
      BY <1>1, <3>1 DEF RefuseEmptyJob, InsertJob, database, cleaners
    <3>2. ASSUME NEW j \in Jobs, NEW c \in Clients, DeleteJob(c, j)
          PROVE  Orphan(o) \/ Strands(o)
      <4>1. CASE j # JobOf[o]
        BY <1>1, <3>2, <4>1 DEF TypeOK, DeleteJob, cleaners
      <4>2. CASE j = JobOf[o]
        <5>1. JobOf[o] \in Jobs /\ cleanup \in [Jobs -> {"idle", "running", "done", "failed"}]
          BY <1>1 DEF TypeOK
        <5>2. cleanup'[j] # "running"
          BY <1>1, <4>2
        <5>3. Fault
          BY <3>2, <5>1, <5>2 DEF DeleteJob
        <5>4. faults' > faults
          BY <1>1, <5>3 DEF TypeOK, Fault
        <5> QED
          BY <3>2, <4>2, <5>4
      <4> QED
        BY <4>1, <4>2
    <3> QED
      BY <2>1, <3>1, <3>2 DEF User
  <2>2. ASSUME NEW j \in Jobs, CreateStep(j) PROVE Orphan(o) \/ Strands(o)
    <3>1. ASSUME NEW p \in OpsOf(j), InsertOperation(p) PROVE Orphan(o) \/ Strands(o)
      BY <1>1, <3>1 DEF TypeOK, InsertOperation, OpsOf, cleaners
    <3>2. CASE RollBack(j)
      BY <1>1, <3>2 DEF TypeOK, RollBack, cleaners
    <3>3. CASE AcceptJob(j) \/ InsertOperationsFails(j) \/ HangUp(j)
      BY <1>1, <3>3 DEF AcceptJob, InsertOperationsFails, HangUp, database, cleaners
    <3> QED
      BY <2>2, <3>1, <3>2, <3>3 DEF CreateStep
  <2>3. ASSUME NEW j \in Jobs, DispatchStep(j) PROVE Orphan(o)
    BY <1>1, <2>3
    DEF DispatchStep, ScanOperation, SendFullChunk, FinishDispatch, DispatchFails, database,
        cleaners
  <2>4. ASSUME NEW j \in Jobs, CleanupStep(j) PROVE Orphan(o) \/ Strands(o)
    <3>1. ASSUME NEW p \in OpsOf(j), CleanOperation(p) PROVE Orphan(o)
      BY <1>1, <3>1 DEF TypeOK, CleanOperation, OpsOf, cleaners
    <3>2. CASE FinishCleanup(j)
      <4>1. JobOf[o] = j => doc[o] = NoDoc
        BY <3>2 DEF FinishCleanup, NothingLeft, DocsOf, OpsOf
      <4> QED
        BY <1>1, <3>2, <4>1 DEF TypeOK, FinishCleanup, database
    <3>3. CASE CleanupFails(j)
      BY <1>1, <3>3 DEF TypeOK, CleanupFails, database
    <3> QED
      BY <2>4, <3>1, <3>2, <3>3 DEF CleanupStep
  <2>5. ASSUME NEW c \in Clients, ClientStep(c) PROVE Orphan(o)
    BY <1>1, <2>5
    DEF ClientStep, SendRequest, ApplyResponse, ApplyResponseAgain, ReleaseResponses, Update,
        Selected, database, cleaners
  <2>6. ASSUME NEW c \in Clients, ClientEnds(c) PROVE Orphan(o) \/ Strands(o)
    BY <1>1, <2>6 DEF TypeOK, ClientEnds, CrashClient, StopClient, KillTasks, database
  <2>7. ASSUME NEW s \in Servers, ServerStep(s) \/ ServerEnds(s) PROVE Orphan(o)
    BY <1>1, <2>7
    DEF ServerStep, HandleRequest, HandleRequestAgain, ReleaseRequests, SendResult,
        ServerEnds, CrashServer, StopServer, database, cleaners
  <2>8. UNCHANGED vars => Orphan(o)
    BY <1>1 DEF vars, database, cleaners
  <2> QED
    BY <1>1, <2>1, <2>2, <2>3, <2>4, <2>5, <2>6, <2>7, <2>8 DEF Next
<1>2. TypeOK /\ [Next]_vars => [\A o \in Ops : Orphan(o)' => Orphan(o) \/ Strands(o)]_vars
  BY <1>1
<1> QED
  BY <1>2, TypeCorrect, PTL DEF Spec, OrphanHasCause

------------------------------------------------------------------------------
(* Requests and acceptance.                                                *)

(* A job that was accepted stays accepted, and inserted operations stay    *)
(* inserted.                                                               *)
LEMMA AcceptedStays ==
  ASSUME TypeOK, [Next]_vars
  PROVE  /\ inserted \subseteq inserted'
         /\ \A j \in Jobs : create[j] = "accepted" => create'[j] = "accepted"
<1> DEFINE Stays == /\ inserted \subseteq inserted'
                    /\ \A j \in Jobs : create[j] = "accepted" => create'[j] = "accepted"
<1>1. User => Stays
  BY DEF TypeOK, User, RefuseEmptyJob, InsertJob, DeleteJob, handlers
<1>2. ASSUME NEW j \in Jobs, CreateStep(j) PROVE Stays
  BY <1>2 DEF TypeOK, CreateStep, InsertOperation, AcceptJob, InsertOperationsFails, RollBack,
     HangUp
<1>3. ASSUME NEW j \in Jobs, DispatchStep(j) \/ CleanupStep(j) PROVE Stays
  BY <1>3 DEF DispatchStep, ScanOperation, SendFullChunk, FinishDispatch, DispatchFails,
     CleanupStep, CleanOperation, FinishCleanup, CleanupFails, handlers
<1>4. ASSUME NEW c \in Clients, ClientStep(c) \/ \E done : StopClient(c, done) PROVE Stays
  BY <1>4 DEF ClientStep, SendRequest, ApplyResponse, ApplyResponseAgain, ReleaseResponses,
     StopClient, handlers
<1>5. ASSUME NEW c \in Clients, CrashClient(c) PROVE Stays
  BY <1>5 DEF TypeOK, CrashClient, Handling
<1>6. ASSUME NEW s \in Servers, ServerStep(s) \/ ServerEnds(s) PROVE Stays
  BY <1>6 DEF ServerStep, HandleRequest, HandleRequestAgain, ReleaseRequests, SendResult,
     ServerEnds, CrashServer, StopServer, handlers
<1>7. UNCHANGED vars => Stays
  BY DEF vars, handlers
<1>8. QED
  BY <1>1, <1>2, <1>3, <1>4, <1>5, <1>6, <1>7 DEF Next, ClientEnds

(* A handler once started is never not started.                            *)
LEMMA PostedStays ==
  ASSUME TypeOK, [Next]_vars, NEW j \in Jobs, create[j] # "none"
  PROVE  create'[j] # "none"
<1>1. User => create'[j] # "none"
  BY DEF TypeOK, User, RefuseEmptyJob, InsertJob, DeleteJob, handlers
<1>2. ASSUME NEW i \in Jobs, CreateStep(i) PROVE create'[j] # "none"
  BY <1>2 DEF TypeOK, CreateStep, InsertOperation, AcceptJob, InsertOperationsFails,
     RollBack, HangUp
<1>3. ASSUME NEW i \in Jobs, DispatchStep(i) \/ CleanupStep(i) PROVE UNCHANGED create
  BY <1>3 DEF DispatchStep, ScanOperation, SendFullChunk, FinishDispatch, DispatchFails,
     CleanupStep, CleanOperation, FinishCleanup, CleanupFails, handlers
<1>4. ASSUME NEW c \in Clients, ClientStep(c) \/ \E done : StopClient(c, done) PROVE UNCHANGED create
  BY <1>4 DEF ClientStep, SendRequest, ApplyResponse, ApplyResponseAgain, ReleaseResponses,
     StopClient, handlers
<1>5. ASSUME NEW c \in Clients, CrashClient(c) PROVE create'[j] # "none"
  BY <1>5 DEF CrashClient
<1>6. ASSUME NEW s \in Servers, ServerStep(s) \/ ServerEnds(s)
      PROVE  UNCHANGED create
  BY <1>6 DEF ServerStep, HandleRequest, HandleRequestAgain, ReleaseRequests, SendResult,
     ServerEnds, CrashServer, StopServer, handlers
<1>7. UNCHANGED vars => UNCHANGED create
  BY DEF vars, handlers
<1>8. QED
  BY <1>1, <1>2, <1>3, <1>4, <1>5, <1>6, <1>7 DEF Next, ClientEnds

(* A job enters the collection only when its handler starts.               *)
LEMMA NewJobs ==
  ASSUME TypeOK, [Next]_vars, NEW j \in jobs', j \notin jobs
  PROVE  create[j] = "none"
<1>1. User => j \in jobs \/ create[j] = "none"
  BY DEF User, RefuseEmptyJob, InsertJob, DeleteJob, database
<1>2. ASSUME NEW i \in Jobs, CreateStep(i) PROVE j \in jobs
  BY <1>2 DEF CreateStep, InsertOperation, AcceptJob, InsertOperationsFails, RollBack,
     HangUp, database
<1>3. ASSUME NEW i \in Jobs, DispatchStep(i) \/ CleanupStep(i) PROVE UNCHANGED jobs
  BY <1>3 DEF DispatchStep, ScanOperation, SendFullChunk, FinishDispatch, DispatchFails,
     CleanupStep, CleanOperation, FinishCleanup, CleanupFails, database
<1>4. ASSUME NEW c \in Clients, ClientStep(c) \/ ClientEnds(c)
      PROVE  UNCHANGED jobs
  BY <1>4 DEF ClientStep, SendRequest, ApplyResponse, ApplyResponseAgain, ReleaseResponses,
     ClientEnds, CrashClient, StopClient, database
<1>5. ASSUME NEW s \in Servers, ServerStep(s) \/ ServerEnds(s)
      PROVE  UNCHANGED jobs
  BY <1>5 DEF ServerStep, HandleRequest, HandleRequestAgain, ReleaseRequests, SendResult,
     ServerEnds, CrashServer, StopServer, database
<1>6. UNCHANGED vars => UNCHANGED jobs
  BY DEF vars, database
<1>7. QED
  BY <1>1, <1>2, <1>3, <1>4, <1>5, <1>6 DEF Next

(* New requests come from a dispatch task only.                            *)
LEMMA NewRequests ==
  ASSUME TypeOK, [Next]_vars, NEW m \in RequestsOut'
  PROVE  \/ m \in RequestsOut
         \/ \E j \in Jobs : /\ dispatch[j] = "scanning"
                            /\ \E o \in OpsOf(j) : m = RequestMessage(o)
<1>1. ASSUME NEW j \in Jobs, SendFullChunk(j) \/ FinishDispatch(j)
      PROVE  m \in RequestsOut \/ \E o \in OpsOf(j) : m = RequestMessage(o)
  <2>1. UNCHANGED requests /\ SpawnSends(j, Chunk(j))
    BY <1>1 DEF SendFullChunk, FinishDispatch, LastChunk, requestTopic
  <2>2. \A c \in Clients : sending'[c] \subseteq
          sending[c] \cup {RequestMessage(o) : o \in Chunk(j)}
    BY <2>1 DEF TypeOK, SpawnSends
  <2>3. QED
    BY <2>1, <2>2 DEF RequestsOut, Chunk
<1>2. ASSUME NEW c \in Clients, NEW n \in sending[c], SendRequest(c, n)
      PROVE  m \in RequestsOut
  <2>1. requests' \subseteq requests \cup {n} /\ \A d \in Clients : sending'[d] \subseteq sending[d]
    BY <1>2 DEF TypeOK, SendRequest, requestTopic
  <2>2. QED
    BY <2>1 DEF RequestsOut
<1>3. ASSUME NEW c \in Clients, ClientEnds(c)
      PROVE  m \in RequestsOut
  <2>1. UNCHANGED requests /\ \A d \in Clients : sending'[d] \subseteq sending[d]
    BY <1>3 DEF TypeOK, ClientEnds, CrashClient, StopClient, KillTasks, requestTopic
  <2>2. QED
    BY <2>1 DEF RequestsOut
<1>4. ASSUME NEW s \in Servers,
             (\E n \in replying[s] : SendResult(s, n)) \/ ServerEnds(s)
      PROVE  UNCHANGED <<sending, requests>>
  BY <1>4 DEF SendResult, ServerEnds, CrashServer, StopServer, requestTopic
<1>5. UNCHANGED <<sending, requests>> => m \in RequestsOut
  BY DEF RequestsOut
<1>6. QED
  BY <1>1, <1>2, <1>3, <1>4, <1>5, MessageSteps DEF SendFullChunk, FinishDispatch

(* Requests go out only for accepted jobs with every line in the database, *)
(* for any numbers of jobs, lines and failures (job_controller.rs:66-116). *)
THEOREM RequestsFollowAcceptanceCorrect == Spec => []RequestsFollowAcceptance
<1>1. Init => RequestsFollowAcceptance
  BY DEF Init, RequestsFollowAcceptance, RequestsOut
<1>2. ASSUME TypeOK, LifeCycle, MessagesGenuine, RequestsFollowAcceptance, [Next]_vars
      PROVE  RequestsFollowAcceptance'
  <2> SUFFICES ASSUME NEW m \in RequestsOut'
               PROVE  create'[m.job_id] = "accepted" /\ OpsOf(m.job_id) \subseteq inserted'
    BY DEF RequestsFollowAcceptance, OpsOf
  <2>1. CASE m \in RequestsOut
    <3>1. m.job_id \in Jobs
      <4>1. m \in RequestMessages
        BY <1>2, <2>1 DEF TypeOK, RequestsOut
      <4>2. QED
        BY <4>1 DEF RequestMessages
    <3>2. create[m.job_id] = "accepted" /\ OpsOf(m.job_id) \subseteq inserted
      BY <2>1, <1>2 DEF RequestsFollowAcceptance
    <3>3. QED
      BY <1>2, <3>1, <3>2, AcceptedStays
  <2>2. ASSUME NEW j \in Jobs, dispatch[j] = "scanning", NEW o \in OpsOf(j),
               m = RequestMessage(o)
        PROVE  create'[m.job_id] = "accepted" /\ OpsOf(m.job_id) \subseteq inserted'
    <3>1. m.job_id = j
      BY <2>2 DEF RequestMessage, OpsOf
    <3>2. create[j] = "accepted" /\ OpsOf(j) \subseteq inserted
      BY <1>2, <2>2 DEF LifeCycle
    <3>3. QED
      BY <1>2, <3>1, <3>2, AcceptedStays
  <2>3. QED
    BY <1>2, <2>1, <2>2, NewRequests
<1>3. QED
  BY <1>1, <1>2, TypeCorrect, LifeCycleCorrect, MessagesGenuineCorrect, PTL DEF Spec

------------------------------------------------------------------------------
(* Cleanups.                                                               *)

(* No operation appears but by the insert of a POST handler.               *)
LEMMA NewDocs ==
  ASSUME TypeOK, [Next]_vars, NEW o \in Ops, doc[o] = NoDoc, doc'[o] # NoDoc
  PROVE  InsertOperation(o)
<1>1. ASSUME NEW q \in Ops, InsertOperation(q) PROVE q = o
  BY <1>1 DEF TypeOK, InsertOperation
<1>2. ASSUME NEW q \in Ops, CleanOperation(q) PROVE FALSE
  BY <1>2 DEF TypeOK, CleanOperation
<1>3. ASSUME NEW m \in responses, Update(m) PROVE FALSE
  BY <1>3 DEF TypeOK, Update, Selected
<1>4. QED
  BY <1>1, <1>2, <1>3, DocSteps

(* A step ends a cleanup well only when nothing is left to delete.         *)
LEMMA NewDone ==
  ASSUME TypeOK, [Next]_vars, NEW j \in Jobs, cleanup'[j] = "done", cleanup[j] # "done"
  PROVE  FinishCleanup(j)
<1>1. ASSUME User PROVE cleanup'[j] \in {cleanup[j], "running"}
  BY <1>1 DEF TypeOK, User, RefuseEmptyJob, InsertJob, DeleteJob, cleaners
<1>2. ASSUME NEW i \in Jobs, CreateStep(i) \/ DispatchStep(i) PROVE UNCHANGED cleanup
  BY <1>2 DEF CreateStep, InsertOperation, AcceptJob, InsertOperationsFails, RollBack,
     HangUp, DispatchStep, ScanOperation, SendFullChunk, FinishDispatch, DispatchFails, cleaners
<1>3. ASSUME NEW i \in Jobs, CleanupStep(i) PROVE FinishCleanup(j)
  BY <1>3 DEF TypeOK, CleanupStep, CleanOperation, FinishCleanup, CleanupFails, cleaners
<1>4. ASSUME NEW c \in Clients, ClientStep(c) PROVE UNCHANGED cleanup
  BY <1>4 DEF ClientStep, SendRequest, ApplyResponse, ApplyResponseAgain, ReleaseResponses,
     cleaners
<1>5. ASSUME NEW c \in Clients, ClientEnds(c)
      PROVE  cleanup'[j] \in {cleanup[j], "failed"}
  BY <1>5 DEF TypeOK, ClientEnds, CrashClient, StopClient, KillTasks
<1>6. ASSUME NEW s \in Servers, ServerStep(s) \/ ServerEnds(s)
      PROVE  UNCHANGED cleanup
  BY <1>6 DEF ServerStep, HandleRequest, HandleRequestAgain, ReleaseRequests, SendResult,
     ServerEnds, CrashServer, StopServer, cleaners
<1>7. UNCHANGED vars => UNCHANGED cleanup
  BY DEF vars, cleaners
<1>8. QED
  BY <1>1, <1>2, <1>3, <1>4, <1>5, <1>6, <1>7 DEF Next

(* If users delete only jobs whose POST was answered, a cleanup that ended *)
(* well leaves no operation, ever (job_controller.rs:139-155).             *)
THEOREM CleanupCompleteCorrect ==
  ASSUME EarlyDelete = FALSE
  PROVE  Spec => []CleanupComplete
<1>1. Init => CleanupComplete
  BY DEF Init, CleanupComplete
<1>2. ASSUME TypeOK, LifeCycle, CleanupComplete, [Next]_vars
      PROVE  CleanupComplete'
  <2> SUFFICES ASSUME NEW j \in Jobs, cleanup'[j] = "done", NEW o \in OpsOf(j),
                      doc'[o] # NoDoc
               PROVE  FALSE
    BY DEF CleanupComplete, DocsOf, OpsOf
  <2>1. o \in Ops /\ JobOf[o] = j
    BY DEF OpsOf
  <2>2. CASE cleanup[j] = "done"
    <3>1. doc[o] = NoDoc
      BY <1>2, <2>2 DEF CleanupComplete, DocsOf
    <3>2. create[j] = "inserting"
      BY <1>2, <2>1, <3>1, NewDocs DEF InsertOperation
    <3>3. QED
      BY <1>2, <2>2, <3>2 DEF LifeCycle
  <2>3. CASE cleanup[j] # "done"
    <3>1. FinishCleanup(j)
      BY <1>2, <2>3, NewDone
    <3>2. doc[o] = NoDoc /\ UNCHANGED doc
      BY <3>1 DEF FinishCleanup, NothingLeft, DocsOf, database
    <3>3. QED
      BY <3>2
  <2>4. QED
    BY <2>2, <2>3
<1>3. QED
  BY <1>1, <1>2, TypeCorrect, LifeCycleCorrect, PTL DEF Spec

------------------------------------------------------------------------------
(* Answers that stay, and lines that stay away.                            *)

(* An answered line keeps its document until a cleanup deletes it.         *)
LEMMA AnsweredStays ==
  ASSUME TypeOK, LifeCycle, MessagesGenuine, ResultCorrect, [Next]_vars,
         NEW o \in Ops, doc[o] \in Results
  PROVE  doc'[o] \in {doc[o], NoDoc}
<1>1. ASSUME NEW q \in Ops, InsertOperation(q) \/ CleanOperation(q)
      PROVE  doc'[o] \in {doc[o], NoDoc}
  BY <1>1 DEF TypeOK, LifeCycle, InsertOperation, CleanOperation
<1>2. ASSUME NEW m \in responses, Update(m) PROVE doc'[o] \in {doc[o], NoDoc}
  <2>1. PICK q \in Ops : m = AnswerMessage(q)
    BY DEF MessagesGenuine
  <2>2. m.operation_id = q /\ m.result = Answer[q]
    BY <2>1 DEF AnswerMessage
  <2>3. doc[o] = Answer[o]
    BY DEF ResultCorrect
  <2>4. QED
    BY <1>2, <2>2, <2>3 DEF Update, Selected
<1>3. QED
  BY <1>1, <1>2, DocSteps

(* A line that was written and is not there was dropped, for good.         *)
LEMMA DroppedStays ==
  ASSUME TypeOK, [Next]_vars, NEW o \in inserted, doc[o] = NoDoc
  PROVE  doc'[o] = NoDoc
<1>1. o \in Ops
  BY DEF TypeOK
<1>2. ~InsertOperation(o)
  BY DEF InsertOperation
<1>3. QED
  BY <1>1, <1>2, NewDocs

(* What was answered keeps its answer until it is dropped, and what was    *)
(* dropped does not come back, for any numbers of jobs, instances, crashes *)
(* and redeliveries, and whenever users delete the job                     *)
(* (job_controller.rs:139-155, operation_repository.rs:115, 249-260).      *)
THEOREM NothingComesBackCorrect == Spec => NothingComesBack
<1>1. ASSUME TypeOK, LifeCycle, MessagesGenuine, ResultCorrect, [Next]_vars, NEW o \in Ops
      PROVE  /\ Line[o] \in Results => Line'[o] \in {Line[o], Dropped}
             /\ Line[o] = Dropped => Line'[o] = Dropped
  <2>1. inserted \subseteq inserted'
    BY <1>1, AcceptedStays
  <2>2. CASE doc[o] = NoDoc
    <3>1. Line[o] \notin Results /\ (Line[o] = Dropped => o \in inserted)
      BY <2>2 DEF Line
    <3>2. ASSUME o \in inserted PROVE Line'[o] = Dropped
      BY <1>1, <2>1, <2>2, <3>2, DroppedStays DEF Line
    <3>3. QED
      BY <3>1, <3>2
  <2>3. CASE doc[o] # NoDoc
    <3>1. o \in inserted /\ Line[o] = doc[o] /\ Line[o] # Dropped
      BY <1>1, <2>3 DEF TypeOK, LifeCycle, Line
    <3>2. ASSUME doc[o] \in Results PROVE Line'[o] \in {doc[o], Dropped}
      BY <1>1, <2>1, <3>1, <3>2, AnsweredStays DEF Line
    <3>3. QED
      BY <3>1, <3>2
  <2>4. QED
    BY <2>2, <2>3
<1>2. TypeOK /\ LifeCycle /\ MessagesGenuine /\ ResultCorrect /\ [Next]_vars =>
        [\A o \in Ops :
           /\ Line[o] \in Results => Line'[o] \in {Line[o], Dropped}
           /\ Line[o] = Dropped => Line'[o] = Dropped]_vars
  BY <1>1
<1>3. QED
  BY <1>2, TypeCorrect, LifeCycleCorrect, MessagesGenuineCorrect, ResultAlwaysCorrect, PTL
     DEF Spec, NothingComesBack

------------------------------------------------------------------------------
(* Refinement: every step of the system is a step of the service or leaves *)
(* the service alone.                                                      *)

(* The service sees the two collections, and whether jobs and lines were   *)
(* there before.                                                           *)
LEMMA ServiceSees ==
  ASSUME UNCHANGED <<doc, inserted>>,
         \A j \in Jobs : (j \in jobs') = (j \in jobs),
         \A j \in Jobs : (create'[j] = "none") = (create[j] = "none")
  PROVE  UNCHANGED Service!vars
<1>1. ASSUME NEW j \in Jobs PROVE Phase'[j] = Phase[j]
  <2>1. Phase[j] = IF j \in jobs THEN "open" ELSE IF create[j] = "none" THEN "new" ELSE "closed"
    BY DEF Phase
  <2>2. Phase'[j] = IF j \in jobs' THEN "open" ELSE IF create'[j] = "none" THEN "new" ELSE "closed"
    BY DEF Phase
  <2>3. QED
    BY <2>1, <2>2
<1>2. Phase' = Phase
  BY <1>1 DEF Phase
<1>3. Line' = Line
  BY DEF Line
<1>4. QED
  BY <1>2, <1>3 DEF Service!vars

(* What users do: jobs are opened and closed.                              *)
LEMMA UserRefines ==
  ASSUME TypeOK, LifeCycle, User
  PROVE  [Service!Next]_(Service!vars)
<1>1. ASSUME NEW j \in Jobs,
             RefuseEmptyJob(j) \/ \E c \in Clients : InsertJob(c, j) \/ DeleteJob(c, j)
      PROVE  /\ UNCHANGED Line
             /\ \A i \in Jobs \ {j} : Phase'[i] = Phase[i]
             /\ Phase[j] # "closed" /\ Phase'[j] \in {Phase[j], "open", "closed"}
             /\ Phase'[j] = "open" => Phase[j] \in {"new", "open"} /\ \E o \in Ops : JobOf[o] = j
  <2>1. UNCHANGED <<doc, inserted>>
    BY <1>1 DEF RefuseEmptyJob, InsertJob, DeleteJob, database, handlers
  <2>2. \A i \in Jobs \ {j} : create'[i] = create[i] /\ (i \in jobs' <=> i \in jobs)
    BY <1>1 DEF TypeOK, RefuseEmptyJob, InsertJob, DeleteJob, database, handlers
  <2>3. Phase[j] # "closed"
    BY <1>1 DEF Phase, RefuseEmptyJob, InsertJob, DeleteJob, MayDelete
  <2>4. Phase'[j] = "open" => Phase[j] \in {"new", "open"} /\ \E o \in Ops : JobOf[o] = j
    <3>1. j \in jobs' => OpsOf(j) # {}
      BY <1>1 DEF LifeCycle, RefuseEmptyJob, InsertJob, DeleteJob, EmptyBody, database
    <3> QED
      BY <2>3, <3>1 DEF Phase, OpsOf
  <2>5. Phase'[j] \in {Phase[j], "open", "closed"}
    <3>1. create[j] # "none" => create'[j] # "none"
      BY <1>1 DEF TypeOK, RefuseEmptyJob, InsertJob, DeleteJob, handlers
    <3>2. CASE create[j] = "none"
      BY <1>1, <3>2 DEF LifeCycle, Phase, RefuseEmptyJob
    <3>3. CASE create[j] # "none"
      BY <3>1, <3>3 DEF Phase
    <3>4. QED
      BY <3>2, <3>3
  <2>6. QED
    BY <2>1, <2>2, <2>3, <2>4, <2>5 DEF Line, Phase
<1>2. ASSUME NEW j \in Jobs,
             RefuseEmptyJob(j) \/ \E c \in Clients : InsertJob(c, j) \/ DeleteJob(c, j)
      PROVE  Service!OpenJob(j) \/ Service!CloseJob(j) \/ UNCHANGED Service!vars
  <2>1. Phase' = [Phase EXCEPT ![j] = Phase'[j]]
    <3>1. \A i \in Jobs \ {j} : Phase'[i] = Phase[i]
      BY <1>1, <1>2
    <3> QED
      BY <3>1 DEF Phase
  <2>2. CASE Phase'[j] = "closed"
    BY <1>1, <1>2, <2>1, <2>2 DEF Service!CloseJob
  <2>3. CASE Phase'[j] = "open" /\ Phase[j] = "new"
    BY <1>1, <1>2, <2>1, <2>3 DEF Service!OpenJob
  <2>4. CASE Phase'[j] = Phase[j]
    <3>1. Phase' = Phase
      BY <2>1, <2>4 DEF Phase
    <3>2. QED
      BY <1>1, <1>2, <3>1 DEF Service!vars
  <2>5. QED
    BY <1>1, <1>2, <2>2, <2>3, <2>4
<1>3. QED
  BY <1>2 DEF User, Service!Next

(* The POST handler writes the lines while the job is open, and closes it  *)
(* when it rolls back.                                                     *)
LEMMA CreateRefines ==
  ASSUME EarlyDelete = FALSE, TypeOK, LifeCycle, NEW j \in Jobs, CreateStep(j)
  PROVE  [Service!Next]_(Service!vars)
<1>1. ASSUME NEW o \in OpsOf(j), InsertOperation(o) PROVE Service!WriteLine(o)
  <2>1. o \in Ops /\ JobOf[o] = j /\ create[j] = "inserting" /\ j \in jobs
    BY <1>1 DEF OpsOf, InsertOperation, LifeCycle
  <2>2. doc[o] = NoDoc /\ o \notin inserted
    BY <1>1, <2>1 DEF InsertOperation, LifeCycle
  <2>3. Phase[JobOf[o]] = "open" /\ Line[o] = NoDoc
    BY <2>1, <2>2 DEF Phase, Line
  <2>4. \A q \in Ops : Line'[q] = IF q = o THEN NoResult ELSE Line[q]
    BY <1>1, <2>1 DEF TypeOK, InsertOperation, Line
  <2>5. Line' = [Line EXCEPT ![o] = NoResult]
    BY <2>4 DEF Line
  <2>6. UNCHANGED Phase
    BY <1>1 DEF InsertOperation, Phase
  <2>7. QED
    BY <2>3, <2>5, <2>6 DEF Service!WriteLine
<1>2. CASE AcceptJob(j) \/ InsertOperationsFails(j) \/ HangUp(j)
  <2>1. UNCHANGED <<doc, inserted, jobs>>
    BY <1>2 DEF AcceptJob, InsertOperationsFails, HangUp, database
  <2>2. \A i \in Jobs : create'[i] = "none" <=> create[i] = "none"
    BY <1>2 DEF TypeOK, AcceptJob, InsertOperationsFails, HangUp
  <2>3. QED
    BY <2>1, <2>2, ServiceSees
<1>3. CASE RollBack(j) /\ j \notin jobs'
  <2>1. /\ UNCHANGED <<doc, inserted>> /\ jobs' = jobs \ {j} /\ create'[j] = "refused"
        /\ \A i \in Jobs \ {j} : create'[i] = create[i]
    BY <1>3 DEF TypeOK, RollBack
  <2>2. Phase[j] = "open"
    BY <1>3 DEF LifeCycle, Phase, RollBack
  <2>3. \A i \in Jobs : Phase'[i] = IF i = j THEN "closed" ELSE Phase[i]
    BY <2>1 DEF Phase
  <2>4. Phase' = [Phase EXCEPT ![j] = "closed"]
    BY <2>3 DEF Phase
  <2>5. UNCHANGED Line
    BY <2>1 DEF Line
  <2>6. QED
    BY <2>2, <2>4, <2>5 DEF Service!CloseJob, Service!Next
<1>4. CASE RollBack(j) /\ j \in jobs'
  <2>1. UNCHANGED <<doc, inserted, jobs>>
    BY <1>4 DEF RollBack
  <2>2. \A i \in Jobs : create'[i] = "none" <=> create[i] = "none"
    BY <1>4 DEF TypeOK, RollBack
  <2>3. QED
    BY <2>1, <2>2, ServiceSees
<1>5. QED
  BY <1>1, <1>2, <1>3, <1>4 DEF CreateStep, OpsOf, Service!Next

(* A cleanup drops lines of closed jobs.                                   *)
LEMMA CleanRefines ==
  ASSUME TypeOK, LifeCycle, NEW o \in Ops, CleanOperation(o)
  PROVE  Service!DropLine(o)
<1>1. JobOf[o] \in Jobs /\ cleanup[JobOf[o]] = "running" /\ doc[o] # NoDoc /\ o \in inserted
  BY DEF CleanOperation, LifeCycle
<1>2. Phase[JobOf[o]] = "closed"
  BY <1>1 DEF LifeCycle, Phase
<1>3. Line[o] # NoDoc
  BY <1>1 DEF Line
<1>4. \A q \in Ops : Line'[q] = IF q = o THEN Dropped ELSE Line[q]
  BY <1>1 DEF TypeOK, CleanOperation, Line, handlers
<1>5. Line' = [Line EXCEPT ![o] = Dropped]
  BY <1>4 DEF Line
<1>6. UNCHANGED Phase
  BY DEF CleanOperation, Phase, handlers
<1>7. QED
  BY <1>2, <1>3, <1>5, <1>6 DEF Service!DropLine

(* A response answers its line, or finds it answered or dropped.           *)
LEMMA ApplyRefines ==
  ASSUME TypeOK, LifeCycle, MessagesGenuine, ResultCorrect,
         NEW m \in responses, Update(m), UNCHANGED <<jobs, create, inserted>>
  PROVE  [Service!Next]_(Service!vars)
<1>1. PICK o \in Ops : m = AnswerMessage(o)
  BY DEF MessagesGenuine
<1>2. m.operation_id = o /\ m.result = Answer[o] /\ Answer[o] \in Results
  BY <1>1, JobSystemAssumption DEF AnswerMessage, Answer, JobSystemAssumption
<1>3. UNCHANGED Phase
  BY DEF Phase
<1>4. CASE doc' = doc
  BY <1>4, ServiceSees
<1>5. CASE doc' # doc
  <2>1. doc' = [q \in Ops |-> IF q \in Selected(m) THEN m.result ELSE doc[q]]
    BY DEF Update
  <2>2. doc'[o] # doc[o] /\ \A q \in Ops \ {o} : doc'[q] = doc[q]
    <3>1. \A q \in Ops \ {o} : doc'[q] = doc[q]
      BY <1>2, <2>1 DEF Selected
    <3>2. CASE doc'[o] = doc[o]
      BY <1>5, <2>1, <3>1, <3>2 DEF TypeOK
    <3>3. QED
      BY <3>1, <3>2
  <2>3. doc'[o] = Answer[o] /\ doc[o] # NoDoc
    BY <1>2, <2>1, <2>2 DEF Selected
  <2>4. doc[o] = NoResult /\ o \in inserted
    BY <2>2, <2>3 DEF ResultCorrect, LifeCycle
  <2>5. Line[o] = NoResult
    BY <2>4 DEF Line
  <2>6. \A q \in Ops : Line'[q] = IF q = o THEN Answer[o] ELSE Line[q]
    BY <1>2, <2>2, <2>3 DEF Line
  <2>7. Line' = [Line EXCEPT ![o] = Answer[o]]
    BY <2>6 DEF Line
  <2>8. QED
    BY <1>3, <2>5, <2>7 DEF Service!AnswerLine, Service!Next
<1>6. QED
  BY <1>4, <1>5

(* Crashes lose handlers, which the service does not see.                  *)
LEMMA CrashRefines ==
  ASSUME TypeOK, NEW c \in Clients, CrashClient(c)
  PROVE  UNCHANGED Service!vars
<1>1. UNCHANGED <<doc, inserted, jobs>>
  BY DEF CrashClient, database
<1>2. \A j \in Jobs : create'[j] = "none" <=> create[j] = "none"
  BY DEF TypeOK, CrashClient, Handling
<1>3. QED
  BY <1>1, <1>2, ServiceSees

(* Every other step leaves the collections and the handlers alone.         *)
LEMMA OtherRefines ==
  ASSUME UNCHANGED <<jobs, doc, create, inserted>>
  PROVE  UNCHANGED Service!vars
  BY ServiceSees

(* Every step maps to a step of the service or to a stutter.               *)
LEMMA StepRefines ==
  ASSUME EarlyDelete = FALSE, TypeOK, LifeCycle, MessagesGenuine, ResultCorrect,
         [Next]_vars
  PROVE  [Service!Next]_(Service!vars)
<1>1. ASSUME NEW j \in Jobs, DispatchStep(j) PROVE UNCHANGED <<jobs, doc, create, inserted>>
  BY <1>1 DEF DispatchStep, ScanOperation, SendFullChunk, FinishDispatch, DispatchFails,
     database, handlers
<1>2. ASSUME NEW j \in Jobs, CleanupStep(j)
      PROVE  (\E o \in Ops : CleanOperation(o)) \/ UNCHANGED <<jobs, doc, create, inserted>>
  BY <1>2 DEF CleanupStep, OpsOf, FinishCleanup, CleanupFails, database, handlers
<1>3. ASSUME NEW o \in Ops, CleanOperation(o) PROVE Service!Next
  BY <1>3, CleanRefines DEF Service!Next
<1>4. ASSUME NEW c \in Clients, ClientStep(c) \/ \E done : StopClient(c, done)
      PROVE  /\ UNCHANGED <<jobs, create, inserted>>
             /\ (\E m \in responses : Update(m)) \/ UNCHANGED doc
  BY <1>4 DEF ClientStep, SendRequest, ApplyResponse, ApplyResponseAgain, ReleaseResponses,
     StopClient, database, handlers
<1>5. ASSUME NEW s \in Servers, ServerStep(s) \/ ServerEnds(s)
      PROVE  UNCHANGED <<jobs, doc, create, inserted>>
  BY <1>5 DEF ServerStep, HandleRequest, HandleRequestAgain, ReleaseRequests, SendResult,
     ServerEnds, CrashServer, StopServer, database, handlers
<1>6. UNCHANGED vars => UNCHANGED <<jobs, doc, create, inserted>>
  BY DEF vars, database, handlers
<1>7. QED
  BY <1>1, <1>2, <1>3, <1>4, <1>5, <1>6, UserRefines, CreateRefines, ApplyRefines,
     CrashRefines, OtherRefines DEF Next, ClientEnds

(* If users delete only jobs whose POST was answered, the system           *)
(* implements the service: lines are written while their job is open,      *)
(* answered once and rightly, and dropped once it is closed, for any       *)
(* numbers of jobs, lines, instances, failures, crashes and SIGTERMs       *)
(* (job_controller.rs:41-157, operation_repository.rs:239-267).            *)
THEOREM SystemImplementsService ==
  ASSUME EarlyDelete = FALSE
  PROVE  Spec => ImplementsService
<1>1. Init => Service!Init
  BY DEF Init, Service!Init, Phase, Line
<1>2. TypeOK /\ LifeCycle /\ MessagesGenuine /\ ResultCorrect /\ [Next]_vars
        => [Service!Next]_(Service!vars)
  BY StepRefines
<1>3. QED
  BY <1>1, <1>2, TypeCorrect, LifeCycleCorrect, MessagesGenuineCorrect,
     ResultAlwaysCorrect, PTL DEF Spec, ImplementsService, Service!Spec
==============================================================================
