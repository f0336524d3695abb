------------------------------ MODULE JobSystem ------------------------------
(***************************************************************************)
(* The life of a job through the whole system: the client application      *)
(* (services/client-application) with its HTTP handlers, the tasks they    *)
(* spawn and its response consumer, the server application                 *)
(* (services/server-application) that evaluates requests, the two Kafka    *)
(* topics between them and the MongoDB collections behind the client.      *)
(*                                                                         *)
(* Each service runs in several instances.  A handler or a spawned task is *)
(* a sequence of database calls and sends; every one of them is an action, *)
(* so that deletes, crashes and messages come between any two.             *)
(*                                                                         *)
(* The two topics are instances of Topic, whose actions are the ones that  *)
(* ConsumerGroup is proved to take (DeliveryQueue): a member of the group  *)
(* holds what it has handled until it commits it, and only a fault or a    *)
(* stop lets go of a message for others to handle it again.  A message is  *)
(* its contents: a second copy of one is handled as a late redelivery.     *)
(***************************************************************************)
EXTENDS FiniteSets, Integers

CONSTANTS
  Jobs,         \* the bodies users post
  Ops,          \* the lines of all the bodies
  JobOf,        \* JobOf[o]: the body the line o is in
  Requests,     \* the contents of lines
  RequestOf,    \* RequestOf[o]: the content of the line o
  Results,      \* what expressions evaluate to
  Eval,         \* Eval[r]: evalexpr::eval(r), the value or the error text
  Clients,      \* instances of the client application
  Servers,      \* instances of the server application
  NoOne,        \* the instance of a job nobody has posted
  NoDoc,        \* an operation that is not in the collection
  NoResult,     \* an operation in the collection without result field
  Dropped,      \* an operation that was in the collection
  ChunkSize,    \* CHUNK_SIZE
  EarlyDelete,  \* users also delete jobs whose POST is not answered yet
  MaxFaults,    \* bound: failed calls, crashes and late redeliveries
  MaxStops      \* bound: SIGTERMs

ASSUME JobSystemAssumption ==
  /\ JobOf \in [Ops -> Jobs]
  /\ RequestOf \in [Ops -> Requests]
  /\ Eval \in [Requests -> Results]
  /\ NoOne \notin Clients
  /\ {NoDoc, NoResult, Dropped} \cap Results = {}
  /\ NoDoc # NoResult /\ NoDoc # Dropped /\ NoResult # Dropped
  /\ ChunkSize \in Nat \ {0}
  /\ EarlyDelete \in BOOLEAN
  /\ MaxFaults \in Nat /\ MaxStops \in Nat

VARIABLES
  \* MongoDB
  jobs,               \* the jobs collection
  doc,                \* doc[o]: the operation o in the operations collection
  \* the POST handlers (create_job_endpoint_handler)
  create,             \* create[j]: where the handler of j stands
  home,               \* home[j]: the instance that runs it and the dispatch of j
  inserted,           \* operations insert_many has written so far
  \* the tasks spawned by the handlers
  dispatch,           \* dispatch[j]: the task that sends the requests of j
  scanned,            \* operations the cursors of the dispatch tasks returned
  chunk,              \* those that wait for their chunk to fill
  cleanup,            \* cleanup[j]: the task that deletes the operations of j
  cleaner,            \* cleaner[j]: the instance that runs it
  sending,            \* sending[c]: request messages in spawned send tasks
  replying,           \* replying[s]: result messages in spawned send tasks
  \* Kafka
  requests,           \* the topic application.operation.request
  requestOffsets,     \* requestOffsets[s]: handled, offset stored by s
  requestsCommitted,  \* handled, offset committed
  responses,          \* the topic application.operation.response
  responseOffsets,    \* responseOffsets[c]: handled, offset stored by c
  responsesCommitted, \* handled, offset committed
  \* environment
  faults,             \* failed calls, crashes, late redeliveries so far
  stops               \* SIGTERMs so far

database == <<jobs, doc>>
handlers == <<create, home, inserted>>
dispatcher == <<dispatch, scanned, chunk>>
cleaners == <<cleanup, cleaner>>
sends == <<sending, replying>>
requestTopic == <<requests, requestOffsets, requestsCommitted>>
responseTopic == <<responses, responseOffsets, responsesCommitted>>
environment == <<faults, stops>>
vars == <<database, handlers, dispatcher, cleaners, sends, requestTopic,
          responseTopic, environment>>

(* The lines of a body.                                                    *)
OpsOf(j) == {o \in Ops : JobOf[o] = j}

(* get_total_completed_operations and delete_operations select by job_id.  *)
DocsOf(j) == {o \in OpsOf(j) : doc[o] # NoDoc}

(* A call fails: the database, the broker or the network.  A send also     *)
(* fails, with no fault of theirs, when its message is too large or finds  *)
(* no room in the queue (ProducerQueue); it counts here all the same.      *)
Fault ==
  /\ faults < MaxFaults
  /\ faults' = faults + 1
  /\ UNCHANGED stops

------------------------------------------------------------------------------
(* Topics and messages.                                                    *)

RequestTopic == INSTANCE Topic WITH
  Members <- Servers, sent <- requests, held <- requestOffsets,
  settled <- requestsCommitted

ResponseTopic == INSTANCE Topic WITH
  Members <- Clients, sent <- responses, held <- responseOffsets,
  settled <- responsesCommitted

(* OperationRequest::from an operation read from the collection.           *)
RequestMessage(o) ==
  [job_id |-> JobOf[o], operation_id |-> o, request |-> RequestOf[o]]

(* Faulty variant: the server answers with the request.                    *)
EchoMessage(m) ==
  [job_id |-> m.job_id, operation_id |-> m.operation_id, result |-> m.request]

(* What the server makes of a request message: OperationRequestHandler     *)
(* evaluates it and keeps its ids.                                         *)
ResultMessage(m) ==
  [job_id |-> m.job_id, operation_id |-> m.operation_id, result |-> Eval[m.request]]

RequestMessages == [job_id : Jobs, operation_id : Ops, request : Requests]
ResultMessages == [job_id : Jobs, operation_id : Ops, result : Results]

------------------------------------------------------------------------------
(* POST /api/jobs.                                                         *)

(* Faulty variant: Job::new takes any number of operations.                *)
AnyBody(j) == FALSE

EmptyBody(j) == OpsOf(j) = {}

(* Job::new refuses an empty body before anything is written.              *)
RefuseEmptyJob(j) ==
  /\ create[j] = "none"
  /\ EmptyBody(j)
  /\ create' = [create EXCEPT ![j] = "refused"]
  /\ UNCHANGED <<database, home, inserted, dispatcher, cleaners, sends,
                 requestTopic, responseTopic, environment>>

(* insert_job.  It may fail before or after the document is written, and   *)
(* the handler returns the error either way; a user who hangs up meanwhile *)
(* leaves the same behind.                                                 *)
InsertJob(c, j) ==
  /\ create[j] = "none"
  /\ ~EmptyBody(j)
  /\ home' = [home EXCEPT ![j] = c]
  /\ \/ /\ jobs' = jobs \cup {j}
        /\ create' = [create EXCEPT ![j] = "inserting"]
        /\ UNCHANGED environment
     \/ /\ Fault
        /\ jobs' \in {jobs, jobs \cup {j}}
        /\ create' = [create EXCEPT ![j] = "refused"]
  /\ UNCHANGED <<doc, inserted, dispatcher, cleaners, sends, requestTopic,
                 responseTopic>>

(* insert_operations: insert_many writes its documents one after another.  *)
InsertOperation(o) ==
  /\ create[JobOf[o]] = "inserting"
  /\ o \notin inserted
  /\ doc' = [doc EXCEPT ![o] = NoResult]
  /\ inserted' = inserted \cup {o}
  /\ UNCHANGED <<jobs, create, home, dispatcher, cleaners, sends, requestTopic,
                 responseTopic, environment>>

(* Faulty variant: the dispatch task is spawned with the insert.           *)
InsertStarted(j) == TRUE

(* insert_many has returned Ok.                                            *)
InsertReturned(j) == OpsOf(j) \subseteq inserted

(* The operations are in: spawn the dispatch task and answer.              *)
AcceptJob(j) ==
  /\ create[j] = "inserting"
  /\ InsertReturned(j)
  /\ create' = [create EXCEPT ![j] = "accepted"]
  /\ dispatch' = [dispatch EXCEPT ![j] = "scanning"]
  /\ UNCHANGED <<database, home, inserted, scanned, chunk, cleaners, sends,
                 requestTopic, responseTopic, environment>>

(* insert_many fails; what it has written stays.                           *)
InsertOperationsFails(j) ==
  /\ create[j] = "inserting"
  /\ Fault
  /\ create' = [create EXCEPT ![j] = "rollback"]
  /\ UNCHANGED <<database, home, inserted, dispatcher, cleaners, sends,
                 requestTopic, responseTopic>>

(* The rollback deletes the job.  The request is refused whether or not it *)
(* works: its failure ("Document not found" included) is only logged.      *)
RollBack(j) ==
  /\ create[j] = "rollback"
  /\ create' = [create EXCEPT ![j] = "refused"]
  /\ \/ jobs' = jobs \ {j} /\ UNCHANGED environment
     \/ Fault /\ UNCHANGED jobs
  /\ UNCHANGED <<doc, home, inserted, dispatcher, cleaners, sends,
                 requestTopic, responseTopic>>

(* The user's connection closes: the HTTP server drops the handler at the  *)
(* call it awaits, and nothing that follows the call is executed.          *)
HangUp(j) ==
  /\ create[j] \in {"inserting", "rollback"}
  /\ Fault
  /\ create' = [create EXCEPT ![j] = "lost"]
  /\ UNCHANGED <<database, home, inserted, dispatcher, cleaners, sends,
                 requestTopic, responseTopic>>

------------------------------------------------------------------------------
(* The dispatch task: get_batch_operations with send_operation_request.    *)

(* The chunk of the job that waits to be sent.                             *)
Chunk(j) == chunk \cap OpsOf(j)

(* The cursor returns an operation of the job; it waits in the chunk.      *)
ScanOperation(o) ==
  LET j == JobOf[o] IN
  /\ dispatch[j] = "scanning"
  /\ doc[o] # NoDoc
  /\ o \notin scanned
  /\ Cardinality(Chunk(j)) < ChunkSize
  /\ scanned' = scanned \cup {o}
  /\ chunk' = chunk \cup {o}
  /\ UNCHANGED <<database, handlers, dispatch, cleaners, sends, requestTopic,
                 responseTopic, environment>>

(* Faulty variant: a chunk that did not fill is dropped.                   *)
NoChunk(j) == {}

(* try_chunks yields what is left when the cursor ends, a partial chunk.   *)
LastChunk(j) == Chunk(j)

(* Faulty variant: the chunk is not emptied, and comes again.              *)
SpawnAndKeep(j, operations) ==
  /\ sending' = [sending EXCEPT
       ![home[j]] = @ \cup {RequestMessage(o) : o \in operations}]
  /\ UNCHANGED chunk

(* handler: one send task is spawned for every operation of a chunk.       *)
SpawnSends(j, operations) ==
  /\ sending' = [sending EXCEPT
       ![home[j]] = @ \cup {RequestMessage(o) : o \in operations}]
  /\ chunk' = chunk \ OpsOf(j)

SendFullChunk(j) ==
  /\ dispatch[j] = "scanning"
  /\ Cardinality(Chunk(j)) = ChunkSize
  /\ SpawnSends(j, Chunk(j))
  /\ UNCHANGED <<database, handlers, dispatch, scanned, cleaners, replying,
                 requestTopic, responseTopic, environment>>

(* The cursor is exhausted, and full chunks have been yielded.             *)
FinishDispatch(j) ==
  /\ dispatch[j] = "scanning"
  /\ DocsOf(j) \subseteq scanned
  /\ Cardinality(Chunk(j)) < ChunkSize
  /\ SpawnSends(j, LastChunk(j))
  /\ dispatch' = [dispatch EXCEPT ![j] = "done"]
  /\ UNCHANGED <<database, handlers, scanned, cleaners, replying,
                 requestTopic, responseTopic, environment>>

(* The find or the cursor fails: try_chunks drops the chunk it was         *)
(* filling, the task logs the error and ends.                              *)
DispatchFails(j) ==
  /\ dispatch[j] = "scanning"
  /\ Fault
  /\ dispatch' = [dispatch EXCEPT ![j] = "failed"]
  /\ chunk' = chunk \ OpsOf(j)
  /\ UNCHANGED <<database, handlers, scanned, cleaners, sends, requestTopic,
                 responseTopic>>

(* A send task ends.  When producer.send fails the message is gone: the    *)
(* failure is only logged, whether the broker fails or the line is larger  *)
(* than a message may be.  A message acknowledged by its leader alone      *)
(* (acks = 1) and lost with it has the same effect.                        *)
SendRequest(c, m) ==
  /\ m \in sending[c]
  /\ sending' = [sending EXCEPT ![c] = @ \ {m}]
  /\ \/ RequestTopic!Send(m) /\ UNCHANGED environment
     \/ Fault /\ UNCHANGED requestTopic
  /\ UNCHANGED <<database, handlers, dispatcher, cleaners, replying,
                 responseTopic>>

------------------------------------------------------------------------------
(* The server application.                                                 *)

(* Faulty variant: a new send task takes the place of those that wait.     *)
SpawnLast(s, m) == replying' = [replying EXCEPT ![s] = {ResultMessage(m)}]

(* OperationRequestHandler::handle spawns the send of the result.          *)
SpawnReply(s, m) == replying' = [replying EXCEPT ![s] = @ \cup {ResultMessage(m)}]

(* The handler returns Ok, and the worker stores the offset.               *)
HandleRequest(s, m) ==
  /\ RequestTopic!Handle(s, m)
  /\ SpawnReply(s, m)
  /\ UNCHANGED <<database, handlers, dispatcher, cleaners, sending,
                 responseTopic, environment>>

(* An instance that was evicted, or that gets the duplicate of a retried   *)
(* send, handles a message late, held or committed as it may be.           *)
HandleRequestAgain(s, m) ==
  /\ Fault
  /\ RequestTopic!HandleAgain(m)
  /\ SpawnReply(s, m)
  /\ UNCHANGED <<database, handlers, dispatcher, cleaners, sending,
                 responseTopic>>

(* A commit, or a rebalance that takes partitions away before all of their *)
(* stored offsets are committed.                                           *)
ReleaseRequests(s, gone, done) ==
  /\ RequestTopic!Release(s, gone, done)
  /\ IF done = gone THEN UNCHANGED environment ELSE Fault
  /\ UNCHANGED <<database, handlers, dispatcher, cleaners, sends, responseTopic>>

(* The send task of a result ends, like SendRequest.                       *)
SendResult(s, m) ==
  /\ m \in replying[s]
  /\ replying' = [replying EXCEPT ![s] = @ \ {m}]
  /\ \/ ResponseTopic!Send(m) /\ UNCHANGED environment
     \/ Fault /\ UNCHANGED responseTopic
  /\ UNCHANGED <<database, handlers, dispatcher, cleaners, sending,
                 requestTopic>>

------------------------------------------------------------------------------
(* The response consumer of the client application.                        *)

(* Faulty variant: update_one with upsert.                                 *)
Upserted(m) == {m.operation_id}

(* The documents the filter of update_one, _id and job_id, selects.        *)
Selected(m) ==
  {o \in Ops : o = m.operation_id /\ JobOf[o] = m.job_id /\ doc[o] # NoDoc}

(* update_operation sets the result of the selected document, if any.      *)
Update(m) == doc' = [o \in Ops |-> IF o \in Selected(m) THEN m.result ELSE doc[o]]

(* When the update selects none ("Document not found") or the call fails,  *)
(* the handler returns an error, and the worker stores the offset just the *)
(* same.                                                                   *)
ApplyResponse(c, m) ==
  /\ ResponseTopic!Handle(c, m)
  /\ \/ Update(m) /\ UNCHANGED environment
     \/ Fault /\ UNCHANGED doc
  /\ UNCHANGED <<jobs, handlers, dispatcher, cleaners, sends, requestTopic>>

(* An evicted instance, or one that gets a duplicate, applies it late.     *)
ApplyResponseAgain(m) ==
  /\ Fault
  /\ ResponseTopic!HandleAgain(m)
  /\ Update(m)
  /\ UNCHANGED <<jobs, handlers, dispatcher, cleaners, sends, requestTopic>>

ReleaseResponses(c, gone, done) ==
  /\ ResponseTopic!Release(c, gone, done)
  /\ IF done = gone THEN UNCHANGED environment ELSE Fault
  /\ UNCHANGED <<database, handlers, dispatcher, cleaners, sends, requestTopic>>

------------------------------------------------------------------------------
(* DELETE /api/jobs/{job_id}.                                              *)

(* Faulty variant: delete_job does not look at deleted_count.              *)
DeleteUnchecked(j) ==
  /\ create[j] # "none"
  /\ create[j] \in {"inserting", "rollback"} => EarlyDelete

(* A user knows the id of a job from the answer to its POST, or from       *)
(* GET /api/jobs, which lists it as soon as insert_job has written it.     *)
(* delete_one deletes the document for one of two DELETEs, and the other   *)
(* gets "Document not found".                                              *)
MayDelete(j) ==
  /\ j \in jobs
  /\ create[j] \in {"inserting", "rollback"} => EarlyDelete

(* Faulty variant: the operations are deleted first, the job later.        *)
DeleteOperationsFirst(c, j) ==
  /\ MayDelete(j)
  /\ cleanup[j] = "idle"
  /\ cleanup' = [cleanup EXCEPT ![j] = "running"]
  /\ cleaner' = [cleaner EXCEPT ![j] = c]
  /\ UNCHANGED <<database, handlers, dispatcher, sends, requestTopic, responseTopic,
                 environment>>

(* delete_job, then the spawn of the cleanup task.  When the call fails    *)
(* after the document is deleted, or the user hangs up then, the spawn is  *)
(* skipped, and a second DELETE finds nothing.                             *)
DeleteJob(c, j) ==
  /\ MayDelete(j)
  /\ jobs' = jobs \ {j}
  /\ \/ /\ cleanup' = [cleanup EXCEPT ![j] = "running"]
        /\ cleaner' = [cleaner EXCEPT ![j] = c]
        /\ UNCHANGED environment
     \/ Fault /\ UNCHANGED cleaners
  /\ UNCHANGED <<doc, handlers, dispatcher, sends, requestTopic, responseTopic>>

(* delete_operations: delete_many removes its documents one by one.        *)
CleanOperation(o) ==
  /\ cleanup[JobOf[o]] = "running"
  /\ doc[o] # NoDoc
  /\ doc' = [doc EXCEPT ![o] = NoDoc]
  /\ UNCHANGED <<jobs, handlers, dispatcher, cleaners, sends, requestTopic,
                 responseTopic, environment>>

(* Faulty variant: delete_many selects the unanswered operations only.     *)
NoneWaiting(j) == \A o \in DocsOf(j) : doc[o] # NoResult

(* delete_many has nothing left to delete.                                 *)
NothingLeft(j) == DocsOf(j) = {}

FinishCleanup(j) ==
  /\ cleanup[j] = "running"
  /\ NothingLeft(j)
  /\ cleanup' = [cleanup EXCEPT ![j] = "done"]
  /\ UNCHANGED <<database, handlers, dispatcher, cleaner, sends, requestTopic,
                 responseTopic, environment>>

(* The call fails half-way; the failure is only logged.                    *)
CleanupFails(j) ==
  /\ cleanup[j] = "running"
  /\ Fault
  /\ cleanup' = [cleanup EXCEPT ![j] = "failed"]
  /\ UNCHANGED <<database, handlers, dispatcher, cleaner, sends, requestTopic,
                 responseTopic>>

------------------------------------------------------------------------------
(* Crashes and SIGTERMs.  Instances are restarted at once.                 *)

Handling(c) == {j \in Jobs : home[j] = c /\ create[j] \in {"inserting", "rollback"}}

(* The end of the process ends the tasks its handlers spawned: nothing     *)
(* awaits them.                                                            *)
KillTasks(c) ==
  LET dispatched == {j \in Jobs : home[j] = c /\ dispatch[j] = "scanning"} IN
  /\ dispatch' = [j \in Jobs |-> IF j \in dispatched THEN "failed" ELSE dispatch[j]]
  /\ chunk' = {o \in chunk : JobOf[o] \notin dispatched}
  /\ cleanup' = [j \in Jobs |->
       IF cleaner[j] = c /\ cleanup[j] = "running" THEN "failed" ELSE cleanup[j]]
  /\ sending' = [sending EXCEPT ![c] = {}]

CrashClient(c) ==
  /\ Fault
  /\ KillTasks(c)
  /\ create' = [j \in Jobs |-> IF j \in Handling(c) THEN "lost" ELSE create[j]]
  /\ ResponseTopic!Release(c, responseOffsets[c], {})
  /\ UNCHANGED <<database, home, inserted, scanned, cleaner, replying,
                 requestTopic>>

(* start_application returns when the HTTP handlers in flight have         *)
(* answered and the workers have finished with their messages; the last    *)
(* commit, on the way out, may fail.                                       *)
StopClient(c, done) ==
  /\ stops < MaxStops
  /\ stops' = stops + 1
  /\ Handling(c) = {}
  /\ KillTasks(c)
  /\ ResponseTopic!Release(c, responseOffsets[c], done)
  /\ UNCHANGED <<database, handlers, scanned, cleaner, replying, requestTopic,
                 faults>>

CrashServer(s) ==
  /\ Fault
  /\ replying' = [replying EXCEPT ![s] = {}]
  /\ RequestTopic!Release(s, requestOffsets[s], {})
  /\ UNCHANGED <<database, handlers, dispatcher, cleaners, sending,
                 responseTopic>>

(* The workers of the server have nothing in hand once their handler has   *)
(* returned; the send tasks it spawned go with the process.                *)
StopServer(s, done) ==
  /\ stops < MaxStops
  /\ stops' = stops + 1
  /\ replying' = [replying EXCEPT ![s] = {}]
  /\ RequestTopic!Release(s, requestOffsets[s], done)
  /\ UNCHANGED <<database, handlers, dispatcher, cleaners, sending,
                 responseTopic, faults>>

------------------------------------------------------------------------------
Init ==
  /\ jobs = {}
  /\ doc = [o \in Ops |-> NoDoc]
  /\ create = [j \in Jobs |-> "none"]
  /\ home = [j \in Jobs |-> NoOne]
  /\ inserted = {}
  /\ dispatch = [j \in Jobs |-> "idle"]
  /\ scanned = {}
  /\ chunk = {}
  /\ cleanup = [j \in Jobs |-> "idle"]
  /\ cleaner = [j \in Jobs |-> NoOne]
  /\ sending = [c \in Clients |-> {}]
  /\ replying = [s \in Servers |-> {}]
  /\ RequestTopic!TopicInit
  /\ ResponseTopic!TopicInit
  /\ faults = 0
  /\ stops = 0

(* What users do.                                                          *)
User ==
  \E j \in Jobs : RefuseEmptyJob(j) \/ \E c \in Clients : InsertJob(c, j) \/ DeleteJob(c, j)

(* The next call of the POST handler and of the two tasks of a job.        *)
CreateStep(j) ==
  \/ \E o \in OpsOf(j) : InsertOperation(o)
  \/ AcceptJob(j)
  \/ InsertOperationsFails(j)
  \/ RollBack(j)
  \/ HangUp(j)

DispatchStep(j) ==
  \/ \E o \in OpsOf(j) : ScanOperation(o)
  \/ SendFullChunk(j)
  \/ FinishDispatch(j)
  \/ DispatchFails(j)

CleanupStep(j) ==
  \/ \E o \in OpsOf(j) : CleanOperation(o)
  \/ FinishCleanup(j)
  \/ CleanupFails(j)

(* The send tasks, the consumer and its offsets, in one instance.          *)
ClientStep(c) ==
  \/ \E m \in sending[c] : SendRequest(c, m)
  \/ \E m \in responses : ApplyResponse(c, m) \/ ApplyResponseAgain(m)
  \/ \E gone \in SUBSET responseOffsets[c] : \E done \in SUBSET gone :
       ReleaseResponses(c, gone, done)

ServerStep(s) ==
  \/ \E m \in requests : HandleRequest(s, m) \/ HandleRequestAgain(s, m)
  \/ \E gone \in SUBSET requestOffsets[s] : \E done \in SUBSET gone :
       ReleaseRequests(s, gone, done)
  \/ \E m \in replying[s] : SendResult(s, m)

ClientEnds(c) ==
  CrashClient(c) \/ \E done \in SUBSET responseOffsets[c] : StopClient(c, done)

ServerEnds(s) ==
  CrashServer(s) \/ \E done \in SUBSET requestOffsets[s] : StopServer(s, done)

Next ==
  \/ User
  \/ \E j \in Jobs : CreateStep(j) \/ DispatchStep(j) \/ CleanupStep(j)
  \/ \E c \in Clients : ClientStep(c) \/ ClientEnds(c)
  \/ \E s \in Servers : ServerStep(s) \/ ServerEnds(s)

Spec == Init /\ [][Next]_vars

(* Fairness.  tokio runs every task that can go on, calls and sends return *)
(* and, in some instance, the consumers receive (EveryMessageFinished of   *)
(* ConsumerGroup) until each message is handled.  Nothing is fair about    *)
(* users, failures, crashes and SIGTERMs.                                  *)
Fairness ==
  /\ \A j \in Jobs :
       WF_vars(CreateStep(j)) /\ WF_vars(DispatchStep(j)) /\ WF_vars(CleanupStep(j))
  /\ \A o \in Ops :
       LET request == RequestMessage(o)
           response == ResultMessage(request)
       IN /\ \A c \in Clients : WF_vars(SendRequest(c, request))
          /\ WF_vars(\E s \in Servers : HandleRequest(s, request))
          /\ \A s \in Servers : WF_vars(SendResult(s, response))
          /\ WF_vars(\E c \in Clients : ApplyResponse(c, response))

FairSpec == Spec /\ Fairness

------------------------------------------------------------------------------
(* Properties.                                                             *)

(* Types, and which instance a task belongs to.                            *)
TypeOK ==
  /\ jobs \subseteq Jobs
  /\ doc \in [Ops -> {NoDoc, NoResult} \cup Results]
  /\ create \in [Jobs -> {"none", "inserting", "rollback", "accepted", "refused", "lost"}]
  /\ home \in [Jobs -> Clients \cup {NoOne}]
  /\ inserted \subseteq Ops
  /\ dispatch \in [Jobs -> {"idle", "scanning", "done", "failed"}]
  /\ scanned \subseteq Ops
  /\ chunk \subseteq scanned
  /\ cleanup \in [Jobs -> {"idle", "running", "done", "failed"}]
  /\ cleaner \in [Jobs -> Clients \cup {NoOne}]
  /\ sending \in [Clients -> SUBSET RequestMessages]
  /\ replying \in [Servers -> SUBSET ResultMessages]
  /\ requests \subseteq RequestMessages
  /\ requestOffsets \in [Servers -> SUBSET RequestMessages]
  /\ requestsCommitted \subseteq RequestMessages
  /\ responses \subseteq ResultMessages
  /\ responseOffsets \in [Clients -> SUBSET ResultMessages]
  /\ responsesCommitted \subseteq ResultMessages
  /\ faults \in 0..MaxFaults
  /\ stops \in 0..MaxStops

(* What the line o has to evaluate to.                                     *)
Answer == [o \in Ops |-> Eval[RequestOf[o]]]

(* The result in the collection is the value of the operation's own        *)
(* request, whichever messages were lost, repeated or overtaken by deletes *)
(* on the way through two topics and two services (server consumer.rs:26,  *)
(* operation_repository.rs:239).                                           *)
ResultCorrect ==
  \A o \in Ops : doc[o] \in {NoDoc, NoResult, Answer[o]}

(* The result message that answers the line o.                             *)
AnswerMessage(o) == [job_id |-> JobOf[o], operation_id |-> o, result |-> Answer[o]]

(* Both topics carry only what belongs to some line: a request message     *)
(* with the line's own content under its own ids, a result message that    *)
(* answers such a request.  ResultCorrect rests on it, since the client    *)
(* trusts the ids and the result of any message it can parse (client       *)
(* consumer.rs:26-33, server consumer.rs:27-44).                           *)
MessagesGenuine ==
  LET genuine == {RequestMessage(o) : o \in Ops}
      answers == {AnswerMessage(o) : o \in Ops}
  IN /\ requests \subseteq genuine
     /\ \A c \in Clients : sending[c] \subseteq genuine
     /\ responses \subseteq answers
     /\ \A s \in Servers : replying[s] \subseteq answers

RequestsOut == requests \cup UNION {sending[c] : c \in Clients}

(* Requests go out only for jobs that were accepted, with every line in    *)
(* the database: nothing is computed for a POST that was refused or cut    *)
(* short (job_controller.rs:66-116).                                       *)
RequestsFollowAcceptance ==
  \A m \in RequestsOut :
    create[m.job_id] = "accepted" /\ OpsOf(m.job_id) \subseteq inserted

(* How the POST handler of a job, its document, its dispatch task and its  *)
(* cleanup task follow each other: a dispatch starts only from an accepted *)
(* job with all its lines in, a cleanup only when the job is gone, and     *)
(* neither runs beside the handler as long as users delete only jobs whose *)
(* POST was answered; and an empty body leaves no job behind, which would  *)
(* be completed at once (job_controller.rs:41-157, domain/job.rs:18).      *)
LifeCycle ==
  /\ \A j \in Jobs :
       /\ create[j] = "none" => j \notin jobs /\ cleanup[j] = "idle"
       /\ j \in jobs => cleanup[j] = "idle"
       /\ create[j] \in {"inserting", "rollback"} /\ ~EarlyDelete => j \in jobs
       /\ dispatch[j] # "idle" => create[j] = "accepted" /\ OpsOf(j) \subseteq inserted
       /\ OpsOf(j) = {} => create[j] \in {"none", "refused"} /\ j \notin jobs
  /\ \A o \in Ops : doc[o] # NoDoc => o \in inserted

(* The cleanup of a job is started once: of two DELETEs that race, or come *)
(* one after the other, one spawns the task, and no failure makes another  *)
(* start it again (job_controller.rs:136-155, job_repository.rs:72).       *)
OneCleanup ==
  [][\A j \in Jobs :
       cleanup[j] # "idle" =>
         /\ cleaner'[j] = cleaner[j]
         /\ cleanup'[j] = "running" => cleanup[j] = "running"]_vars

(* Where the line o is on its way through the system.                      *)
InFlight(o) ==
  LET request == RequestMessage(o)
      response == ResultMessage(request)
  IN \/ \E c \in Clients : request \in sending[c]
     \/ request \in requests \ requestsCommitted
     \/ \E s \in Servers : response \in replying[s]
     \/ response \in responses \ responsesCommitted

(* Nothing falls between two parts: without failures and SIGTERMs every    *)
(* line of a job in the database whose dispatch is over has its result or  *)
(* is in flight: in a send task, or in a topic above the committed offset  *)
(* (operation_repository.rs:205-236, common consumer.rs:255-267).          *)
NoLineForgotten ==
  faults = 0 /\ stops = 0 =>
    \A o \in Ops :
      dispatch[JobOf[o]] = "done" /\ JobOf[o] \in jobs =>
        doc[o] \in Results \/ InFlight(o)

(* Each line is asked for once: its request is out only when the dispatch  *)
(* has read it and spawned its send; it waits in one send task or is in    *)
(* the topic, never both; and what answers it comes after it (client       *)
(* consumer.rs:26-33, operation_repository.rs:205-236).                    *)
AskedOnce ==
  \A o \in Ops :
    LET request == RequestMessage(o) IN
    /\ o \in scanned => dispatch[JobOf[o]] # "idle"
    /\ request \in RequestsOut => o \in scanned \ chunk
    /\ \A c \in Clients : request \in sending[c] =>
         request \notin requests /\ \A d \in Clients \ {c} : request \notin sending[d]
    /\ \/ AnswerMessage(o) \in responses
       \/ \E s \in Servers : AnswerMessage(o) \in replying[s]
       => request \in requests

(* The dispatch task has the line o still to send: it has not read it yet, *)
(* or has it in its chunk.                                                 *)
ToDispatch(o) == dispatch[JobOf[o]] = "scanning" /\ (o \in scanned => o \in chunk)

(* The line o is answered, or some part of the system will see to it: the  *)
(* dispatch task, a send task, or a topic that still has to deliver its    *)
(* message.                                                                *)
Underway(o) ==
  \/ doc[o] \in Results
  \/ ToDispatch(o)
  \/ \E c \in Clients : RequestMessage(o) \in sending[c]
  \/ AnswerMessage(o) \notin responses /\ RequestTopic!Waits(RequestMessage(o))
  \/ AnswerMessage(o) \notin responses /\ \E s \in Servers : AnswerMessage(o) \in replying[s]
  \/ ResponseTopic!Waits(AnswerMessage(o))

(* No line of an accepted job has been lost.                               *)
Tracked(o) == create[JobOf[o]] = "accepted" /\ JobOf[o] \in jobs => Underway(o)

(* What may lose the line o: the dispatch that has it still to send, the   *)
(* send of its request or of its answer, or the update with it fails; or   *)
(* the process that has it in one of these tasks ends.                     *)
Loses(o) ==
  LET request == RequestMessage(o)
      answer == AnswerMessage(o)
  IN \/ ToDispatch(o) /\ DispatchFails(JobOf[o])
     \/ \E c \in Clients :
          ClientEnds(c) /\ ((ToDispatch(o) /\ home[JobOf[o]] = c) \/ request \in sending[c])
     \/ \E s \in Servers : ServerEnds(s) /\ answer \in replying[s]
     \/ /\ faults' > faults
        /\ \/ \E c \in Clients : SendRequest(c, request) \/ ApplyResponse(c, answer)
           \/ \E s \in Servers : SendResult(s, answer)

(* Every loss has a cause of its own: a line gets lost only in the very    *)
(* step in which a call for it fails or the process that has it ends.      *)
(* Nothing else drops a line, then or later: no rebalance, no message      *)
(* handled late or twice, no failure with another line (common             *)
(* consumer.rs:195-280, operation_repository.rs:205-267, server            *)
(* consumer.rs:26-44).                                                     *)
LossHasCause ==
  [][\A o \in Ops : Tracked(o) => Tracked(o)' \/ Loses(o)]_vars

(* Once the cleanup of a job has ended well, its operations are gone for   *)
(* good: responses that arrive later recreate none                         *)
(* (job_controller.rs:139-155, operation_repository.rs:115, 249-260).      *)
CleanupComplete ==
  \A j \in Jobs : cleanup[j] = "done" => DocsOf(j) = {}

(* An operation that nobody will delete any more: a DELETE of its job is   *)
(* answered with "Document not found", and no cleanup runs.                *)
Orphan(o) ==
  doc[o] # NoDoc /\ JobOf[o] \notin jobs /\ cleanup[JobOf[o]] # "running"

(* What leaves the operation o behind: the rollback of its job, which      *)
(* deletes the job alone; a DELETE that fails when the job is gone; the    *)
(* cleanup, when it fails or its process ends; and a handler that goes on  *)
(* to insert it after its job was deleted.                                 *)
Strands(o) ==
  LET j == JobOf[o] IN
  \/ RollBack(j)
  \/ \E c \in Clients : DeleteJob(c, j) /\ faults' > faults
  \/ CleanupFails(j)
  \/ \E c \in Clients : ClientEnds(c) /\ cleaner[j] = c
  \/ InsertOperation(o) /\ j \notin jobs

(* An operation is left behind only in the very step in which a call of    *)
(* its own POST, DELETE or cleanup goes wrong, and in no other way: no     *)
(* cleanup that ends well misses one, no late or repeated response and no  *)
(* trouble of another job or instance makes one                            *)
(* (job_controller.rs:66-86, 136-155, operation_repository.rs:115,         *)
(* 249-260).                                                               *)
OrphanHasCause ==
  [][\A o \in Ops : Orphan(o)' => Orphan(o) \/ Strands(o)]_vars

(* The state of the abstract service: what the collections hold, and       *)
(* whether the job and the line were there before.                         *)
Phase == [j \in Jobs |->
  IF j \in jobs THEN "open" ELSE IF create[j] = "none" THEN "new" ELSE "closed"]
Line == [o \in Ops |->
  IF o \in inserted /\ doc[o] = NoDoc THEN Dropped ELSE doc[o]]

(* What was answered keeps its answer until it is dropped, and what was    *)
(* dropped does not come back, even if a job is deleted while its handler  *)
(* still inserts lines and requests and results are on their way           *)
(* (job_controller.rs:139-155, operation_repository.rs:115, 249-260).      *)
NothingComesBack ==
  [][\A o \in Ops :
       /\ Line[o] \in Results => Line'[o] \in {Line[o], Dropped}
       /\ Line[o] = Dropped => Line'[o] = Dropped]_vars

Service == INSTANCE JobService WITH
  Unwritten <- NoDoc, Waiting <- NoResult, phase <- Phase, line <- Line

(* The system implements the service: lines are written only while their   *)
(* job is open, answered once, rightly, and dropped only once it is closed *)
(* (job_controller.rs:41-157, operation_repository.rs:239-267).            *)
ImplementsService == Service!Spec

(* An accepted job is completed, unless it is deleted                      *)
(* (README.md:34, job_controller.rs:88-116).                               *)
AcceptedJobCompletes ==
  \A j \in Jobs :
    create[j] = "accepted" ~> j \notin jobs \/ \A o \in OpsOf(j) : doc[o] \in Results

(* The operations of a deleted job disappear and stay away, although the   *)
(* DELETE is answered before (job_controller.rs:139-155).                  *)
DeletedJobIsCleaned ==
  \A j \in Jobs :
    create[j] = "accepted" /\ j \notin jobs ~> [](DocsOf(j) = {})

------------------------------------------------------------------------------
(* What the texts of the repository say and the code does not keep.        *)
(* AcceptedJobCompletes, with a fault, is one more.                        *)

(* A graceful shutdown (server context.rs:67) leaves no request both       *)
(* committed, hence never handled again, and without an answer that is on  *)
(* its way.                                                                *)
CommittedRequestsAnswered ==
  \A m \in requestsCommitted :
    \/ ResultMessage(m) \in responses
    \/ \E s \in Servers : ResultMessage(m) \in replying[s]

(* A refused job is rolled back (job_controller.rs:73-84): none of its     *)
(* operations stays in the database.                                       *)
RefusedLeavesNoOperations ==
  \A j \in Jobs : create[j] = "refused" => DocsOf(j) = {}
==============================================================================
