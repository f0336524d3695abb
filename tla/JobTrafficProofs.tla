--------------------------- MODULE JobTrafficProofs ---------------------------
(***************************************************************************)
(* The lines of accepted jobs on their way through the system, for any     *)
(* numbers of jobs, lines and instances and for any chunk size: each is    *)
(* asked for once, gets lost only in a step that fails with it or ends the *)
(* process that has it, and is never forgotten as long as none does.       *)
(***************************************************************************)
EXTENDS JobSystemProofs

USE JobSystemAssumption DEF JobSystemAssumption
USE DEF RequestTopic!TopicInit, RequestTopic!topic, RequestTopic!Send, RequestTopic!Handle,
        RequestTopic!HandleAgain, RequestTopic!Release,
        ResponseTopic!TopicInit, ResponseTopic!topic, ResponseTopic!Send,
        ResponseTopic!Handle, ResponseTopic!HandleAgain, ResponseTopic!Release

(* What was written stays written while its job is there, a handler runs   *)
(* in some instance, and offsets are offsets of messages in the topic.     *)
Written ==
  /\ \A o \in inserted : create[JobOf[o]] # "none"
  /\ \A o \in inserted : JobOf[o] \in jobs => doc[o] # NoDoc
  /\ \A j \in Jobs :
       create[j] \in {"inserting", "rollback", "accepted"} => home[j] \in Clients
  /\ \A s \in Servers : requestOffsets[s] \subseteq requests
  /\ requestsCommitted \subseteq requests
  /\ \A c \in Clients : responseOffsets[c] \subseteq responses
  /\ responsesCommitted \subseteq responses

------------------------------------------------------------------------------
(* Operations and jobs.                                                    *)

(* Only insert_many makes an operation an inserted one.                    *)
LEMMA NewInserted ==
  ASSUME [Next]_vars, NEW o \in inserted', o \notin inserted
  PROVE  InsertOperation(o)
<1>1. User => UNCHANGED inserted
  BY DEF User, RefuseEmptyJob, InsertJob, DeleteJob, handlers
<1>2. ASSUME NEW j \in Jobs, CreateStep(j) PROVE InsertOperation(o)
  BY <1>2 DEF CreateStep, InsertOperation, AcceptJob, InsertOperationsFails, RollBack, HangUp
<1>3. ASSUME NEW j \in Jobs, DispatchStep(j) \/ CleanupStep(j) PROVE UNCHANGED inserted
  BY <1>3 DEF DispatchStep, ScanOperation, SendFullChunk, FinishDispatch, DispatchFails,
     CleanupStep, CleanOperation, FinishCleanup, CleanupFails, handlers
<1>4. ASSUME NEW c \in Clients, ClientStep(c) \/ ClientEnds(c)
      PROVE  UNCHANGED inserted
  BY <1>4 DEF ClientStep, SendRequest, ApplyResponse, ApplyResponseAgain,
     ReleaseResponses,
     ClientEnds, CrashClient, StopClient, handlers
<1>5. ASSUME NEW s \in Servers, ServerStep(s) \/ ServerEnds(s)
      PROVE  UNCHANGED inserted
  BY <1>5 DEF ServerStep, HandleRequest, HandleRequestAgain, ReleaseRequests, SendResult,
     ServerEnds, CrashServer, StopServer, handlers
<1>6. UNCHANGED vars => UNCHANGED inserted
  BY DEF vars, handlers
<1>7. QED
  BY <1>1, <1>2, <1>3, <1>4, <1>5, <1>6 DEF Next

(* Only a cleanup takes an operation out of the collection.                *)
LEMMA DocGone ==
  ASSUME TypeOK, [Next]_vars, NEW o \in Ops, doc[o] # NoDoc, doc'[o] = NoDoc
  PROVE  CleanOperation(o)
<1>1. ASSUME NEW q \in Ops, InsertOperation(q) PROVE FALSE
  BY <1>1 DEF TypeOK, InsertOperation
<1>2. ASSUME NEW q \in Ops, CleanOperation(q) PROVE q = o
  BY <1>2 DEF TypeOK, CleanOperation
<1>3. ASSUME NEW m \in responses, Update(m) PROVE FALSE
  <2>1. m.result \in Results
    BY DEF TypeOK, ResultMessages
  <2>2. QED
    BY <1>3, <2>1 DEF TypeOK, Update
<1>4. QED
  BY <1>1, <1>2, <1>3, DocSteps

(* An operation that was written keeps its document while the job is there. *)
LEMMA NextWrittenDocs ==
  ASSUME TypeOK, LifeCycle, Written, [Next]_vars, NEW o \in inserted'
  PROVE  create'[JobOf[o]] # "none" /\ (JobOf[o] \in jobs' => doc'[o] # NoDoc)
<1>1. CASE o \notin inserted
  <2>1. InsertOperation(o)
    BY <1>1, NewInserted
  <2>2. o \in Ops /\ create[JobOf[o]] = "inserting" /\ doc'[o] = NoResult /\ UNCHANGED create
    <3>1. o \in Ops
      BY NextType DEF TypeOK
    <3>2. QED
      BY <2>1, <3>1 DEF TypeOK, InsertOperation
  <2>3. QED
    BY <2>2
<1>2. CASE o \in inserted
  <2>1. o \in Ops /\ JobOf[o] \in Jobs /\ create[JobOf[o]] # "none"
    BY <1>2 DEF TypeOK, Written
  <2>2. create'[JobOf[o]] # "none"
    BY <2>1, PostedStays
  <2>3. ASSUME JobOf[o] \in jobs' PROVE doc'[o] # NoDoc
    <3>1. JobOf[o] \in jobs
      BY <2>1, <2>3, NewJobs
    <3>2. doc[o] # NoDoc /\ cleanup[JobOf[o]] = "idle"
      BY <1>2, <2>1, <3>1 DEF Written, LifeCycle
    <3>3. ~CleanOperation(o)
      BY <3>2 DEF CleanOperation
    <3>4. QED
      BY <2>1, <3>2, <3>3, DocGone
  <2>4. QED
    BY <2>2, <2>3
<1>3. QED
  BY <1>1, <1>2

(* A handler runs in some instance.                                        *)
LEMMA NextHome ==
  ASSUME TypeOK, Written, [Next]_vars, NEW j \in Jobs,
         create'[j] \in {"inserting", "rollback", "accepted"}
  PROVE  home'[j] \in Clients
<1> DEFINE Runs(status) == status \in {"inserting", "rollback", "accepted"}
           Stays == Runs(create[j]) /\ home'[j] = home[j]
<1>1. User => Stays \/ home'[j] \in Clients
  BY DEF TypeOK, User, RefuseEmptyJob, InsertJob, DeleteJob, handlers
<1>2. ASSUME NEW i \in Jobs, CreateStep(i) PROVE Stays
  BY <1>2 DEF TypeOK, CreateStep, InsertOperation, AcceptJob, InsertOperationsFails,
     RollBack, HangUp
<1>3. ASSUME NEW i \in Jobs, DispatchStep(i) \/ CleanupStep(i) PROVE Stays
  BY <1>3 DEF DispatchStep, ScanOperation, SendFullChunk, FinishDispatch, DispatchFails,
     CleanupStep, CleanOperation, FinishCleanup, CleanupFails, handlers
<1>4. ASSUME NEW c \in Clients, ClientStep(c) \/ \E done : StopClient(c, done) PROVE Stays
  BY <1>4 DEF ClientStep, SendRequest, ApplyResponse, ApplyResponseAgain,
     ReleaseResponses,
     StopClient, handlers
<1>5. ASSUME NEW c \in Clients, CrashClient(c) PROVE Stays
  BY <1>5 DEF TypeOK, CrashClient
<1>6. ASSUME NEW s \in Servers, ServerStep(s) \/ ServerEnds(s)
      PROVE  Stays
  BY <1>6 DEF ServerStep, HandleRequest, HandleRequestAgain, ReleaseRequests, SendResult,
     ServerEnds, CrashServer, StopServer, handlers
<1>7. UNCHANGED vars => Stays
  BY DEF vars, handlers
<1>8. Stays => home'[j] \in Clients
  BY DEF Written
<1>9. QED
  BY <1>1, <1>2, <1>3, <1>4, <1>5, <1>6, <1>7, <1>8 DEF Next, ClientEnds

------------------------------------------------------------------------------
(* Offsets.                                                                *)

(* A response stays in its topic.                                          *)
LEMMA ResponsesStay ==
  ASSUME [Next]_vars
  PROVE  responses \subseteq responses' /\ requests \subseteq requests'
<1>1. ASSUME NEW j \in Jobs, SendFullChunk(j) \/ FinishDispatch(j)
      PROVE  UNCHANGED <<responses, requests>>
  BY <1>1 DEF SendFullChunk, FinishDispatch, responseTopic, requestTopic
<1>2. ASSUME NEW c \in Clients, NEW m \in sending[c], SendRequest(c, m)
      PROVE  UNCHANGED responses /\ requests \subseteq requests'
  BY <1>2 DEF SendRequest, requestTopic, responseTopic
<1>3. ASSUME NEW s \in Servers, NEW m \in replying[s], SendResult(s, m)
      PROVE  UNCHANGED requests /\ responses \subseteq responses'
  BY <1>3 DEF SendResult, requestTopic, responseTopic
<1>4. ASSUME (\E c \in Clients : ClientEnds(c)) \/ \E s \in Servers : ServerEnds(s)
      PROVE  UNCHANGED <<responses, requests>>
  BY <1>4 DEF ClientEnds, CrashClient, StopClient, ServerEnds, CrashServer, StopServer, responseTopic,
     requestTopic
<1>5. QED
  BY <1>1, <1>2, <1>3, <1>4, MessageSteps

(* Only these actions move the offsets of a topic.                         *)
LEMMA OffsetSteps ==
  ASSUME [Next]_vars
  PROVE  /\ \/ UNCHANGED <<requestOffsets, requestsCommitted>>
            \/ \E s \in Servers, m \in requests : RequestTopic!Handle(s, m)
            \/ \E s \in Servers : \E gone, done : RequestTopic!Release(s, gone, done)
         /\ \/ UNCHANGED <<responseOffsets, responsesCommitted>>
            \/ \E c \in Clients, m \in responses : ResponseTopic!Handle(c, m)
            \/ \E c \in Clients : \E gone, done : ResponseTopic!Release(c, gone, done)
<1> DEFINE Requests1 ==
             \/ UNCHANGED <<requestOffsets, requestsCommitted>>
             \/ \E s \in Servers, m \in requests : RequestTopic!Handle(s, m)
             \/ \E s \in Servers : \E gone, done : RequestTopic!Release(s, gone, done)
           Responses1 ==
             \/ UNCHANGED <<responseOffsets, responsesCommitted>>
             \/ \E c \in Clients, m \in responses : ResponseTopic!Handle(c, m)
             \/ \E c \in Clients : \E gone, done : ResponseTopic!Release(c, gone, done)
           Still == UNCHANGED <<requestOffsets, requestsCommitted, responseOffsets,
                                responsesCommitted>>
<1>1. User => Still
  BY DEF User, RefuseEmptyJob, InsertJob, DeleteJob, requestTopic, responseTopic
<1>2. ASSUME NEW j \in Jobs, CreateStep(j) PROVE Still
  BY <1>2 DEF CreateStep, InsertOperation, AcceptJob, InsertOperationsFails, RollBack, HangUp,
     requestTopic, responseTopic
<1>3. ASSUME NEW j \in Jobs, DispatchStep(j) \/ CleanupStep(j) PROVE Still
  BY <1>3 DEF DispatchStep, ScanOperation, SendFullChunk, FinishDispatch, DispatchFails,
     CleanupStep, CleanOperation, FinishCleanup, CleanupFails, requestTopic, responseTopic
<1>4. ASSUME NEW c \in Clients, ClientStep(c) PROVE Requests1 /\ Responses1
  BY <1>4 DEF ClientStep, SendRequest, ApplyResponse, ApplyResponseAgain, ReleaseResponses,
     requestTopic, responseTopic
<1>5. ASSUME NEW c \in Clients, ClientEnds(c) PROVE Requests1 /\ Responses1
  BY <1>5 DEF ClientEnds, CrashClient, StopClient, requestTopic
<1>6. ASSUME NEW s \in Servers, ServerStep(s) PROVE Requests1 /\ Responses1
  BY <1>6 DEF ServerStep, HandleRequest, HandleRequestAgain, ReleaseRequests, SendResult,
     requestTopic, responseTopic
<1>7. ASSUME NEW s \in Servers, ServerEnds(s) PROVE Requests1 /\ Responses1
  BY <1>7 DEF ServerEnds, CrashServer, StopServer, responseTopic
<1>8. UNCHANGED vars => Still
  BY DEF vars, requestTopic, responseTopic
<1>9. QED
  BY <1>1, <1>2, <1>3, <1>4, <1>5, <1>6, <1>7, <1>8 DEF Next

(* The offsets are offsets of messages in their topic.                     *)
LEMMA NextWrittenOffsets ==
  ASSUME TypeOK, Written, [Next]_vars
  PROVE  /\ \A s \in Servers : requestOffsets'[s] \subseteq requests
         /\ requestsCommitted' \subseteq requests
         /\ \A c \in Clients : responseOffsets'[c] \subseteq responses
         /\ responsesCommitted' \subseteq responses
<1>1. /\ \A s \in Servers : requestOffsets'[s] \subseteq requests
      /\ requestsCommitted' \subseteq requests
  <2>1. ASSUME NEW s \in Servers,
               \/ \E m \in requests : RequestTopic!Handle(s, m)
               \/ \E gone, done : RequestTopic!Release(s, gone, done)
        PROVE  /\ \A t \in Servers : requestOffsets'[t] \subseteq requests
               /\ requestsCommitted' \subseteq requests
    BY <2>1 DEF TypeOK, Written
  <2>2. QED
    BY <2>1, OffsetSteps DEF Written
<1>2. /\ \A c \in Clients : responseOffsets'[c] \subseteq responses
      /\ responsesCommitted' \subseteq responses
  <2>1. ASSUME NEW c \in Clients,
               \/ \E m \in responses : ResponseTopic!Handle(c, m)
               \/ \E gone, done : ResponseTopic!Release(c, gone, done)
        PROVE  /\ \A d \in Clients : responseOffsets'[d] \subseteq responses
               /\ responsesCommitted' \subseteq responses
    BY <2>1 DEF TypeOK, Written
  <2>2. QED
    BY <2>1, OffsetSteps DEF Written
<1>3. QED
  BY <1>1, <1>2

(* Every step keeps the account of what was written.                       *)
LEMMA NextWritten == TypeOK /\ LifeCycle /\ Written /\ [Next]_vars => Written'
<1> SUFFICES ASSUME TypeOK, LifeCycle, Written, [Next]_vars
             PROVE  Written'
  OBVIOUS
<1>1. \A o \in inserted' :
        create'[JobOf[o]] # "none" /\ (JobOf[o] \in jobs' => doc'[o] # NoDoc)
  BY NextWrittenDocs
<1>2. \A j \in Jobs :
        create'[j] \in {"inserting", "rollback", "accepted"} => home'[j] \in Clients
  BY NextHome
<1>3. /\ \A s \in Servers : requestOffsets'[s] \subseteq requests'
      /\ requestsCommitted' \subseteq requests'
      /\ \A c \in Clients : responseOffsets'[c] \subseteq responses'
      /\ responsesCommitted' \subseteq responses'
  BY NextWrittenOffsets, ResponsesStay
<1>4. QED
  BY <1>1, <1>2, <1>3 DEF Written

(* What was written stays written, in every reachable state.               *)
LEMMA WrittenCorrect == Spec => []Written
<1>1. Init => Written
  BY DEF Init, Written
<1>2. QED
  BY <1>1, NextWritten, TypeCorrect, LifeCycleCorrect, PTL DEF Spec

------------------------------------------------------------------------------
(* Each line is asked for once.                                            *)

(* Messages name their line.                                               *)
LEMMA MessagesIdentify ==
  ASSUME NEW o \in Ops, NEW q \in Ops
  PROVE  /\ RequestMessage(o) = RequestMessage(q) => o = q
         /\ AnswerMessage(o) = AnswerMessage(q) => o = q
         /\ RequestMessage(o)' = RequestMessage(o)
         /\ AnswerMessage(o)' = AnswerMessage(o)
  BY DEF RequestMessage, AnswerMessage, Answer

(* What a dispatch reads, it reads while it runs.                          *)
LEMMA DispatchChanges ==
  ASSUME TypeOK, [Next]_vars, NEW o \in Ops
  PROVE  /\ o \in scanned => o \in scanned'
         /\ o \in chunk' => o \in chunk \/ o \notin scanned
         /\ o \in scanned' => o \in scanned \/ dispatch'[JobOf[o]] # "idle"
         /\ dispatch[JobOf[o]] # "idle" => dispatch'[JobOf[o]] # "idle"
<1> DEFINE Goal == /\ o \in scanned => o \in scanned'
                   /\ o \in chunk' => o \in chunk \/ o \notin scanned
                   /\ o \in scanned' => o \in scanned \/ dispatch'[JobOf[o]] # "idle"
                   /\ dispatch[JobOf[o]] # "idle" => dispatch'[JobOf[o]] # "idle"
           Still == UNCHANGED <<dispatch, scanned, chunk>>
<1>1. User => Still
  BY DEF User, RefuseEmptyJob, InsertJob, DeleteJob, dispatcher
<1>2. ASSUME NEW j \in Jobs, CreateStep(j) PROVE Goal
  BY <1>2 DEF TypeOK, CreateStep, InsertOperation, AcceptJob, InsertOperationsFails, RollBack,
     HangUp, dispatcher
<1>3. ASSUME NEW j \in Jobs, DispatchStep(j) PROVE Goal
  <2>1. ASSUME NEW q \in OpsOf(j), ScanOperation(q) PROVE Goal
    BY <2>1 DEF ScanOperation
  <2>2. ASSUME SendFullChunk(j) PROVE Goal
    BY <2>2 DEF SendFullChunk, SpawnSends
  <2>3. ASSUME FinishDispatch(j) PROVE Goal
    <3>1. UNCHANGED scanned /\ chunk' \subseteq chunk
      BY <2>3 DEF FinishDispatch, SpawnSends
    <3>2. dispatch'[JobOf[o]] \in {dispatch[JobOf[o]], "done"}
      BY <2>3 DEF TypeOK, FinishDispatch
    <3>3. QED
      BY <2>3, <3>1, <3>2
  <2>4. ASSUME DispatchFails(j) PROVE Goal
    BY <2>4 DEF TypeOK, DispatchFails
  <2>5. QED
    BY <1>3, <2>1, <2>2, <2>3, <2>4 DEF DispatchStep
<1>4. ASSUME NEW j \in Jobs, CleanupStep(j) PROVE Still
  BY <1>4 DEF CleanupStep, CleanOperation, FinishCleanup, CleanupFails, dispatcher
<1>5. ASSUME NEW c \in Clients, ClientStep(c) PROVE Still
  BY <1>5 DEF ClientStep, SendRequest, ApplyResponse, ApplyResponseAgain,
     ReleaseResponses,
     dispatcher
<1>6. ASSUME NEW c \in Clients, ClientEnds(c) PROVE Goal
  BY <1>6 DEF TypeOK, ClientEnds, CrashClient, StopClient, KillTasks
<1>7. ASSUME NEW s \in Servers, ServerStep(s) \/ ServerEnds(s) PROVE Still
  BY <1>7 DEF ServerStep, HandleRequest, HandleRequestAgain, ReleaseRequests, SendResult,
     ServerEnds, CrashServer, StopServer, dispatcher
<1>8. UNCHANGED vars => Still
  BY DEF vars, dispatcher
<1>9. Still => Goal
  OBVIOUS
<1>10. QED
  BY <1>1, <1>2, <1>3, <1>4, <1>5, <1>6, <1>7, <1>8, <1>9 DEF Next

(* A send task gets the request of a line when the line leaves its chunk,  *)
(* and loses it when the request enters the topic.                         *)
LEMMA NextAsked ==
  ASSUME TypeOK, AskedOnce, [Next]_vars, NEW o \in Ops
  PROVE  /\ RequestMessage(o) \in RequestsOut' => o \in scanned' \ chunk'
         /\ \A c \in Clients : RequestMessage(o) \in sending'[c] =>
              /\ RequestMessage(o) \notin requests'
              /\ \A d \in Clients \ {c} : RequestMessage(o) \notin sending'[d]
<1> DEFINE r == RequestMessage(o)
           Out == \/ r \in requests'
                  \/ \E c \in Clients : r \in sending'[c]
           Once == \A c \in Clients : r \in sending'[c] =>
                     r \notin requests' /\ \A d \in Clients \ {c} : r \notin sending'[d]
<1>1. r \in RequestsOut' <=> Out
  BY MessagesIdentify DEF RequestsOut
<1>2. /\ r \in requests \/ (\E c \in Clients : r \in sending[c]) => o \in scanned \ chunk
      /\ \A c \in Clients : r \in sending[c] =>
           r \notin requests /\ \A d \in Clients \ {c} : r \notin sending[d]
  BY DEF AskedOnce, RequestsOut
<1>3. o \in scanned \ chunk => o \in scanned' \ chunk'
  BY DispatchChanges
<1>4. ASSUME NEW j \in Jobs, SendFullChunk(j) \/ FinishDispatch(j)
      PROVE  (Out => o \in scanned' \ chunk') /\ Once
  <2>1. /\ UNCHANGED <<scanned, requests>> /\ chunk' = chunk \ OpsOf(j)
        /\ SpawnSends(j, Chunk(j))
    BY <1>4 DEF SendFullChunk, FinishDispatch, LastChunk, SpawnSends, requestTopic
  <2>2. \A c \in Clients : r \in sending'[c] =>
          r \in sending[c] \/ (c = home[j] /\ o \in chunk /\ o \in OpsOf(j))
    BY <2>1, MessagesIdentify DEF TypeOK, SpawnSends, Chunk, OpsOf
  <2>3. CASE o \in chunk /\ o \in OpsOf(j)
    <3>1. r \notin requests /\ \A c \in Clients : r \notin sending[c]
      BY <1>2, <2>3
    <3>2. o \in scanned' \ chunk'
      BY <2>1, <2>3 DEF TypeOK
    <3>3. QED
      BY <2>1, <2>2, <3>1, <3>2
  <2>4. CASE ~(o \in chunk /\ o \in OpsOf(j))
    <3>1. \A c \in Clients : r \in sending'[c] => r \in sending[c]
      BY <2>2, <2>4
    <3>2. QED
      BY <1>2, <1>3, <2>1, <3>1
  <2>5. QED
    BY <2>3, <2>4
<1>5. ASSUME NEW c \in Clients, NEW m \in sending[c], SendRequest(c, m)
      PROVE  (Out => o \in scanned' \ chunk') /\ Once
  <2>1. /\ requests' \in {requests, requests \cup {m}} /\ sending'[c] = sending[c] \ {m}
        /\ \A d \in Clients \ {c} : sending'[d] = sending[d]
    BY <1>5 DEF TypeOK, SendRequest, requestTopic
  <2>2. QED
    BY <1>2, <1>3, <2>1
<1>6. ASSUME NEW c \in Clients, ClientEnds(c)
      PROVE  (Out => o \in scanned' \ chunk') /\ Once
  <2>1. UNCHANGED requests /\ \A d \in Clients : sending'[d] \subseteq sending[d]
    BY <1>6 DEF TypeOK, ClientEnds, CrashClient, StopClient, KillTasks, requestTopic
  <2>2. QED
    BY <1>2, <1>3, <2>1
<1>7. ASSUME NEW s \in Servers,
             (\E m \in replying[s] : SendResult(s, m)) \/ ServerEnds(s)
      PROVE  UNCHANGED <<sending, requests>>
  BY <1>7 DEF SendResult, ServerEnds, CrashServer, StopServer, requestTopic
<1>8. CASE UNCHANGED <<sending, requests>>
  BY <1>1, <1>2, <1>3, <1>8
<1>9. QED
  BY <1>1, <1>4, <1>5, <1>6, <1>7, <1>8, MessageSteps

(* Answers come from requests in the topic.                                *)
LEMMA NextAnswersAsked ==
  ASSUME TypeOK, MessagesGenuine, AskedOnce, [Next]_vars, NEW o \in Ops,
         \/ AnswerMessage(o) \in responses'
         \/ \E s \in Servers : AnswerMessage(o) \in replying'[s]
  PROVE  RequestMessage(o) \in requests'
<1> DEFINE Answered == \/ AnswerMessage(o) \in responses
                       \/ \E s \in Servers : AnswerMessage(o) \in replying[s]
<1>1. Answered => RequestMessage(o) \in requests'
  BY ResponsesStay DEF AskedOnce
<1>2. ASSUME NEW s \in Servers, NEW m \in requests, SpawnReply(s, m),
             UNCHANGED <<sending, requests, responses>>
      PROVE  RequestMessage(o) \in requests'
  <2>1. PICK q \in Ops : m = RequestMessage(q)
    BY DEF MessagesGenuine
  <2>2. \A t \in Servers : replying'[t] \subseteq replying[t] \cup {AnswerMessage(q)}
    BY <1>2, <2>1, RequestAnswered DEF TypeOK, SpawnReply
  <2>3. Answered \/ o = q
    BY <1>2, <2>2, MessagesIdentify
  <2>4. QED
    BY <1>1, <1>2, <2>1, <2>3
<1>3. ASSUME NEW s \in Servers, NEW m \in replying[s], SendResult(s, m) PROVE Answered
  <2>1. responses' \subseteq responses \cup {m}
        /\ \A t \in Servers : replying'[t] \subseteq replying[t]
    BY <1>3 DEF TypeOK, SendResult, responseTopic
  <2>2. QED
    BY <2>1
<1>4. ASSUME NEW s \in Servers, ServerEnds(s) PROVE Answered
  <2>1. UNCHANGED responses /\ \A t \in Servers : replying'[t] \subseteq replying[t]
    BY <1>4 DEF TypeOK, ServerEnds, CrashServer, StopServer, responseTopic
  <2>2. QED
    BY <2>1
<1>5. ASSUME \/ \E j \in Jobs : SendFullChunk(j) \/ FinishDispatch(j)
             \/ \E c \in Clients : \E m \in sending[c] : SendRequest(c, m)
             \/ \E c \in Clients : ClientEnds(c)
             \/ UNCHANGED <<sending, replying, requests, responses>>
      PROVE  UNCHANGED <<replying, responses>>
  BY <1>5 DEF SendFullChunk, FinishDispatch, SendRequest, ClientEnds, CrashClient, StopClient,
     responseTopic
<1>6. QED
  BY <1>1, <1>2, <1>3, <1>4, <1>5, MessageSteps

(* Each line is asked for once, however its dispatch is cut into chunks    *)
(* and whatever crashes (operation_repository.rs:205-236).                 *)
THEOREM AskedOnceCorrect == Spec => []AskedOnce
<1>1. Init => AskedOnce
  BY DEF Init, AskedOnce, RequestsOut
<1>2. ASSUME TypeOK, MessagesGenuine, AskedOnce, [Next]_vars PROVE AskedOnce'
  <2>1. ASSUME NEW o \in Ops
        PROVE  /\ o \in scanned' => dispatch'[JobOf[o]] # "idle"
               /\ RequestMessage(o)' = RequestMessage(o) /\ AnswerMessage(o)' = AnswerMessage(o)
    BY <1>2, DispatchChanges, MessagesIdentify DEF AskedOnce
  <2>2. QED
    BY <1>2, <2>1, NextAsked, NextAnswersAsked DEF AskedOnce
<1>3. QED
  BY <1>1, <1>2, TypeCorrect, MessagesGenuineCorrect, PTL DEF Spec

------------------------------------------------------------------------------
(* Lines that are underway stay underway.                                  *)

(* A line of an accepted job.                                              *)
Accepted(o) == create[JobOf[o]] = "accepted" /\ JobOf[o] \in jobs

(* A result stays in the database as long as the job does.                 *)
LEMMA ResultStays ==
  ASSUME TypeOK, LifeCycle, [Next]_vars, NEW o \in Ops, Accepted(o)
  PROVE  doc[o] \in Results => doc'[o] \in Results
<1> SUFFICES ASSUME doc[o] \in Results PROVE doc'[o] \in Results
  OBVIOUS
<1>1. ASSUME NEW q \in Ops, InsertOperation(q) \/ CleanOperation(q) PROVE q # o
  <2>1. JobOf[o] \in Jobs /\ cleanup[JobOf[o]] = "idle" /\ o \in inserted
    BY DEF LifeCycle, Accepted
  <2>2. QED
    BY <1>1, <2>1 DEF InsertOperation, CleanOperation
<1>2. ASSUME NEW q \in Ops, InsertOperation(q) \/ CleanOperation(q) PROVE doc'[o] = doc[o]
  BY <1>1, <1>2 DEF TypeOK, InsertOperation, CleanOperation
<1>3. ASSUME NEW m \in responses, Update(m) PROVE doc'[o] \in Results
  <2>1. m.result \in Results
    BY DEF TypeOK, ResultMessages
  <2>2. QED
    BY <1>3, <2>1 DEF Update
<1>4. QED
  BY <1>2, <1>3, DocSteps

(* Whoever leaves the tasks and the topics alone leaves the line underway. *)
LEMMA StillUnderway ==
  ASSUME NEW o \in Ops, Underway(o), doc[o] \in Results => doc'[o] \in Results,
         UNCHANGED <<dispatch, scanned, chunk, sends, requestTopic, responseTopic>>
  PROVE  Underway(o)'
<1>1. RequestMessage(o)' = RequestMessage(o) /\ AnswerMessage(o)' = AnswerMessage(o)
  BY MessagesIdentify
<1>2. QED
  BY <1>1 DEF Underway, ToDispatch, RequestTopic!Waits, ResponseTopic!Waits, sends, requestTopic,
     responseTopic

(* The handler spawns the dispatch task of its own job, which was not      *)
(* accepted yet.                                                           *)
LEMMA CreateUnderway ==
  ASSUME TypeOK, LifeCycle, [Next]_vars, NEW j \in Jobs, CreateStep(j), NEW o \in Ops,
         Accepted(o), Underway(o)
  PROVE  Underway(o)'
<1>1. doc[o] \in Results => doc'[o] \in Results
  BY ResultStays
<1>2. CASE AcceptJob(j)
  <2>1. /\ dispatch'[JobOf[o]] = dispatch[JobOf[o]]
        /\ UNCHANGED <<doc, scanned, chunk, sends, requestTopic, responseTopic>>
    BY <1>2 DEF TypeOK, Accepted, AcceptJob, database
  <2>2. RequestMessage(o)' = RequestMessage(o) /\ AnswerMessage(o)' = AnswerMessage(o)
    BY MessagesIdentify
  <2>3. QED
    BY <2>1, <2>2 DEF Underway, ToDispatch, RequestTopic!Waits, ResponseTopic!Waits, sends, requestTopic,
       responseTopic
<1>3. CASE ~AcceptJob(j)
  <2>1. UNCHANGED <<dispatch, scanned, chunk, sends, requestTopic, responseTopic>>
    BY <1>3 DEF CreateStep, InsertOperation, InsertOperationsFails, RollBack, HangUp, dispatcher
  <2>2. QED
    BY <1>1, <2>1, StillUnderway
<1>4. QED
  BY <1>2, <1>3

(* A failure counts.                                                       *)
LEMMA FaultCounts ==
  ASSUME TypeOK, Fault
  PROVE  faults' > faults
  BY DEF TypeOK, Fault

(* A line the dispatch task has read leaves its chunk for a send task; the *)
(* task ends when it has read every line.  The tasks of other jobs have    *)
(* none of it.                                                             *)
LEMMA DispatchUnderway ==
  ASSUME TypeOK, LifeCycle, Written, NEW j \in Jobs, DispatchStep(j), NEW o \in Ops,
         Accepted(o), Underway(o), ~Loses(o)
  PROVE  Underway(o)'
<1> USE DEF RequestTopic!Waits, ResponseTopic!Waits
<1>1. RequestMessage(o)' = RequestMessage(o) /\ AnswerMessage(o)' = AnswerMessage(o)
  BY MessagesIdentify
<1>2. ASSUME NEW q \in OpsOf(j), ScanOperation(q) PROVE Underway(o)'
  <2>1. /\ UNCHANGED <<doc, dispatch, sends, requestTopic, responseTopic>>
        /\ scanned' = scanned \cup {q} /\ chunk' = chunk \cup {q}
    BY <1>2 DEF ScanOperation, database
  <2>2. QED
    BY <1>1, <2>1 DEF Underway, ToDispatch, sends, requestTopic, responseTopic
<1>3. CASE SendFullChunk(j) \/ FinishDispatch(j)
  <2>1. /\ UNCHANGED <<doc, scanned, replying, requestTopic, responseTopic>>
        /\ dispatch[j] = "scanning" /\ SpawnSends(j, Chunk(j))
        /\ \A i \in Jobs \ {j} : dispatch'[i] = dispatch[i]
        /\ dispatch'[j] = "scanning" \/ DocsOf(j) \subseteq scanned
    BY <1>3 DEF TypeOK, SendFullChunk, FinishDispatch, LastChunk, database
  <2>2. home[j] \in Clients
    BY <2>1 DEF LifeCycle, Written
  <2>3. /\ \A c \in Clients : sending[c] \subseteq sending'[c]
        /\ \A q \in Chunk(j) : RequestMessage(q) \in sending'[home[j]]
        /\ chunk' = chunk \ OpsOf(j)
    BY <2>1, <2>2 DEF TypeOK, SpawnSends
  <2>4. CASE dispatch[JobOf[o]] = "scanning" /\ (o \in scanned => o \in chunk)
    <3>1. CASE JobOf[o] # j
      <4>1. dispatch'[JobOf[o]] = "scanning" /\ (o \in scanned' => o \in chunk')
        BY <2>1, <2>3, <2>4, <3>1 DEF OpsOf
      <4>2. QED
        BY <4>1 DEF Underway, ToDispatch
    <3>2. CASE JobOf[o] = j /\ o \in chunk
      <4>1. RequestMessage(o) \in sending'[home[j]]
        BY <2>3, <3>2 DEF Chunk, OpsOf
      <4>2. QED
        BY <1>1, <2>2, <4>1 DEF Underway, ToDispatch
    <3>3. CASE JobOf[o] = j /\ o \notin scanned
      <4>1. o \in inserted /\ doc[o] # NoDoc
        BY <2>1, <3>3 DEF LifeCycle, Written, OpsOf, Accepted
      <4>2. dispatch'[j] = "scanning"
        BY <2>1, <3>3, <4>1 DEF DocsOf, OpsOf
      <4>3. QED
        BY <2>1, <3>3, <4>2 DEF Underway, ToDispatch
    <3>4. QED
      BY <2>4, <3>1, <3>2, <3>3
  <2>5. CASE ~(dispatch[JobOf[o]] = "scanning" /\ (o \in scanned => o \in chunk))
    BY <1>1, <2>1, <2>3, <2>5 DEF Underway, ToDispatch, requestTopic, responseTopic
  <2>6. QED
    BY <2>4, <2>5
<1>4. CASE DispatchFails(j)
  <2>1. ToDispatch(o) => j # JobOf[o]
    BY <1>4 DEF Loses
  <2>2. /\ UNCHANGED <<doc, scanned, sends, requestTopic, responseTopic>>
        /\ ToDispatch(o) => ToDispatch(o)'
    BY <1>4, <2>1 DEF TypeOK, DispatchFails, OpsOf, database, ToDispatch
  <2>3. QED
    BY <1>1, <2>2 DEF Underway, sends, requestTopic, responseTopic
<1>5. QED
  BY <1>2, <1>3, <1>4 DEF DispatchStep

(* A request that is sent waits in the topic, and an answer takes its      *)
(* place in the database.                                                  *)
LEMMA ClientUnderway ==
  ASSUME TypeOK, LifeCycle, MessagesGenuine, Written, AskedOnce, [Next]_vars, NEW c \in Clients,
         ClientStep(c), NEW o \in Ops, Accepted(o), Underway(o), ~Loses(o)
  PROVE  Underway(o)'
<1> USE DEF RequestTopic!Waits, ResponseTopic!Waits
<1>1. RequestMessage(o)' = RequestMessage(o) /\ AnswerMessage(o)' = AnswerMessage(o)
  BY MessagesIdentify
<1>2. doc[o] \in Results => doc'[o] \in Results
  BY ResultStays
<1>3. ASSUME NEW m \in sending[c], SendRequest(c, m) PROVE Underway(o)'
  <2>1. /\ UNCHANGED <<doc, dispatch, scanned, chunk, replying, responseTopic>>
        /\ requests' = requests \cup {m} \/ (Fault /\ UNCHANGED requests)
        /\ UNCHANGED <<requestOffsets, requestsCommitted>>
        /\ sending'[c] = sending[c] \ {m}
        /\ \A d \in Clients \ {c} : sending'[d] = sending[d]
    BY <1>3 DEF TypeOK, SendRequest, database, dispatcher, requestTopic
  <2>2. CASE m = RequestMessage(o)
    <3>1. m \notin requests /\ AnswerMessage(o) \notin responses
      BY <2>2 DEF AskedOnce
    <3>2. m \notin requestsCommitted /\ \A s \in Servers : m \notin requestOffsets[s]
      BY <3>1 DEF Written
    <3>3. requests' = requests \cup {m}
      BY <1>3, <2>1, <2>2, FaultCounts DEF Loses
    <3>4. QED
      BY <1>1, <2>1, <2>2, <3>1, <3>2, <3>3 DEF Underway, ToDispatch, responseTopic
  <2>3. CASE m # RequestMessage(o)
    BY <1>1, <2>1, <2>3 DEF Underway, ToDispatch, responseTopic
  <2>4. QED
    BY <2>2, <2>3
<1>4. ASSUME NEW m \in responses, ApplyResponse(c, m) PROVE Underway(o)'
  <2>1. /\ UNCHANGED <<dispatch, scanned, chunk, sending, replying, requestTopic>>
        /\ UNCHANGED <<responses, responsesCommitted>> /\ (Update(m) \/ Fault)
        /\ \A d \in Clients : responseOffsets'[d] \subseteq responseOffsets[d] \cup {m}
    BY <1>4 DEF TypeOK, ApplyResponse, dispatcher, sends
  <2>2. CASE m = AnswerMessage(o)
    <3>1. RequestMessage(o) \in RequestsOut
      BY <2>2 DEF AskedOnce, RequestsOut
    <3>2. doc[o] # NoDoc
      <4>1. o \in scanned
        BY <3>1 DEF AskedOnce
      <4>2. o \in inserted
        BY <4>1 DEF AskedOnce, LifeCycle, OpsOf
      <4>3. QED
        BY <4>2 DEF Written, Accepted
    <3>3. o \in Selected(m) /\ m.result \in Results
      BY <2>2, <3>2 DEF Selected, AnswerMessage, Answer
    <3>4. Update(m)
      BY <1>4, <2>1, <2>2, FaultCounts DEF Loses
    <3>5. QED
      BY <3>3, <3>4 DEF Underway, ToDispatch, Update
  <2>3. CASE m # AnswerMessage(o)
    BY <1>1, <1>2, <2>1, <2>3 DEF Underway, ToDispatch, requestTopic
  <2>4. QED
    BY <2>2, <2>3
<1>5. ASSUME NEW gone, NEW done, ReleaseResponses(c, gone, done) PROVE Underway(o)'
  <2>1. /\ UNCHANGED <<doc, dispatch, scanned, chunk, sending, replying, requestTopic, responses>>
        /\ \A d \in Clients : responseOffsets'[d] \subseteq responseOffsets[d]
        /\ responsesCommitted' \subseteq responsesCommitted \cup responseOffsets[c]
    BY <1>5 DEF TypeOK, ReleaseResponses, database, dispatcher, sends
  <2>2. QED
    BY <1>1, <2>1 DEF Underway, ToDispatch, requestTopic
<1>6. ASSUME NEW m \in responses, ApplyResponseAgain(m) PROVE Underway(o)'
  <2>1. UNCHANGED <<dispatch, scanned, chunk, sends, requestTopic, responseTopic>>
    BY <1>6 DEF ApplyResponseAgain, dispatcher, responseTopic
  <2>2. QED
    BY <1>2, <2>1, StillUnderway
<1>7. QED
  BY <1>3, <1>4, <1>5, <1>6 DEF ClientStep

(* A request that is handled has its answer in a send task, and the answer *)
(* leaves it for the topic.                                                *)
LEMMA ServerUnderway ==
  ASSUME TypeOK, MessagesGenuine, Written, AskedOnce, NEW s \in Servers, ServerStep(s),
         NEW o \in Ops, Underway(o), ~Loses(o)
  PROVE  Underway(o)'
<1> USE DEF RequestTopic!Waits, ResponseTopic!Waits
<1>1. RequestMessage(o)' = RequestMessage(o) /\ AnswerMessage(o)' = AnswerMessage(o)
  BY MessagesIdentify
<1>2. ASSUME NEW m \in requests, HandleRequest(s, m) PROVE Underway(o)'
  <2>1. /\ UNCHANGED <<doc, dispatch, scanned, chunk, sending, responseTopic>>
        /\ UNCHANGED <<requests, requestsCommitted>>
        /\ \A t \in Servers : requestOffsets'[t] \subseteq requestOffsets[t] \cup {m}
        /\ \A t \in Servers : replying[t] \subseteq replying'[t]
        /\ ResultMessage(m) \in replying'[s]
    BY <1>2 DEF TypeOK, HandleRequest, SpawnReply, database, dispatcher
  <2>2. CASE m = RequestMessage(o)
    <3>1. AnswerMessage(o) \in replying'[s]
      BY <2>1, <2>2, RequestAnswered
    <3>2. QED
      BY <1>1, <2>1, <3>1 DEF Underway, ToDispatch, responseTopic
  <2>3. CASE m # RequestMessage(o)
    BY <1>1, <2>1, <2>3 DEF Underway, ToDispatch, responseTopic
  <2>4. QED
    BY <2>2, <2>3
<1>3. ASSUME NEW gone, NEW done, ReleaseRequests(s, gone, done) PROVE Underway(o)'
  <2>1. /\ UNCHANGED <<doc, dispatch, scanned, chunk, sending, replying, responseTopic, requests>>
        /\ \A t \in Servers : requestOffsets'[t] \subseteq requestOffsets[t]
        /\ requestsCommitted' \subseteq requestsCommitted \cup requestOffsets[s]
    BY <1>3 DEF TypeOK, ReleaseRequests, database, dispatcher, sends
  <2>2. QED
    BY <1>1, <2>1 DEF Underway, ToDispatch, responseTopic
<1>4. ASSUME NEW m \in replying[s], SendResult(s, m) PROVE Underway(o)'
  <2>1. /\ UNCHANGED <<doc, dispatch, scanned, chunk, sending, requestTopic>>
        /\ responses' = responses \cup {m} \/ (Fault /\ UNCHANGED responses)
        /\ UNCHANGED <<responseOffsets, responsesCommitted>>
        /\ \A t \in Servers : replying[t] \subseteq replying'[t] \cup {m}
    BY <1>4 DEF TypeOK, SendResult, database, dispatcher, responseTopic
  <2>2. CASE m = AnswerMessage(o) /\ m \notin responses
    <3>1. m \notin responsesCommitted /\ \A c \in Clients : m \notin responseOffsets[c]
      BY <2>2 DEF Written
    <3>2. responses' = responses \cup {m}
      BY <1>4, <2>1, <2>2, FaultCounts DEF Loses
    <3>3. QED
      BY <1>1, <2>1, <2>2, <3>1, <3>2 DEF Underway, ToDispatch
  <2>3. CASE m = AnswerMessage(o) /\ m \in responses
    BY <1>1, <2>1, <2>3 DEF Underway, ToDispatch, requestTopic
  <2>4. CASE m # AnswerMessage(o)
    BY <1>1, <2>1, <2>4 DEF Underway, ToDispatch, requestTopic
  <2>5. QED
    BY <2>2, <2>3, <2>4
<1>5. ASSUME NEW m \in requests, HandleRequestAgain(s, m) PROVE Underway(o)'
  <2>1. /\ UNCHANGED <<doc, dispatch, scanned, chunk, sending, requestTopic, responseTopic>>
        /\ \A t \in Servers : replying[t] \subseteq replying'[t]
    BY <1>5 DEF TypeOK, HandleRequestAgain, SpawnReply, database, dispatcher, requestTopic
  <2>2. QED
    BY <1>1, <2>1 DEF Underway, ToDispatch, requestTopic, responseTopic
<1>6. QED
  BY <1>2, <1>3, <1>4, <1>5 DEF ServerStep

(* The process that ends has none of the line in its tasks, and lets go of *)
(* messages that wait for another one then.                                *)
LEMMA EndUnderway ==
  ASSUME TypeOK, NEW o \in Ops, Underway(o), ~Loses(o),
         (\E c \in Clients : ClientEnds(c)) \/ (\E s \in Servers : ServerEnds(s))
  PROVE  Underway(o)'
<1> USE DEF RequestTopic!Waits, ResponseTopic!Waits
<1>1. RequestMessage(o)' = RequestMessage(o) /\ AnswerMessage(o)' = AnswerMessage(o)
  BY MessagesIdentify
<1>2. ASSUME NEW c \in Clients, ClientEnds(c) PROVE Underway(o)'
  <2>1. ~(ToDispatch(o) /\ home[JobOf[o]] = c) /\ RequestMessage(o) \notin sending[c]
    BY <1>2 DEF Loses
  <2>2. /\ KillTasks(c)
        /\ UNCHANGED <<doc, scanned, replying, requestTopic, responses>>
        /\ \A d \in Clients : responseOffsets'[d] \subseteq responseOffsets[d]
        /\ responsesCommitted' \subseteq responsesCommitted \cup responseOffsets[c]
    BY <1>2 DEF TypeOK, ClientEnds, CrashClient, StopClient, database
  <2>3. /\ ToDispatch(o) => ToDispatch(o)'
        /\ \A d \in Clients : RequestMessage(o) \in sending[d] => RequestMessage(o) \in sending'[d]
    BY <2>1, <2>2 DEF TypeOK, KillTasks, ToDispatch
  <2>4. QED
    BY <1>1, <2>2, <2>3 DEF Underway, requestTopic
<1>3. ASSUME NEW s \in Servers, ServerEnds(s) PROVE Underway(o)'
  <2>1. AnswerMessage(o) \notin replying[s]
    BY <1>3 DEF Loses
  <2>2. /\ UNCHANGED <<doc, dispatch, scanned, chunk, sending, responseTopic, requests>>
        /\ \A t \in Servers \ {s} : replying'[t] = replying[t]
        /\ \A t \in Servers : requestOffsets'[t] \subseteq requestOffsets[t]
        /\ requestsCommitted' \subseteq requestsCommitted \cup requestOffsets[s]
    BY <1>3 DEF TypeOK, ServerEnds, CrashServer, StopServer, database, dispatcher
  <2>3. QED
    BY <1>1, <2>1, <2>2 DEF Underway, ToDispatch, responseTopic
<1>4. QED
  BY <1>2, <1>3

(* A step that does not lose a line keeps it underway.                     *)
LEMMA NextUnderway ==
  ASSUME TypeOK, LifeCycle, MessagesGenuine, Written, AskedOnce, Next, NEW o \in Ops,
         Accepted(o), Underway(o), ~Loses(o)
  PROVE  Underway(o)'
<1>1. doc[o] \in Results => doc'[o] \in Results
  BY ResultStays
<1>2. CASE User
  <2>1. UNCHANGED <<dispatch, scanned, chunk, sends, requestTopic, responseTopic>>
    BY <1>2 DEF User, RefuseEmptyJob, InsertJob, DeleteJob, dispatcher
  <2>2. QED
    BY <1>1, <2>1, StillUnderway
<1>3. ASSUME NEW j \in Jobs, CleanupStep(j) PROVE Underway(o)'
  <2>1. UNCHANGED <<dispatch, scanned, chunk, sends, requestTopic, responseTopic>>
    BY <1>3 DEF CleanupStep, CleanOperation, FinishCleanup, CleanupFails, dispatcher
  <2>2. QED
    BY <1>1, <2>1, StillUnderway
<1>4. QED
  BY <1>2, <1>3, CreateUnderway, DispatchUnderway, ClientUnderway, ServerUnderway, EndUnderway
     DEF Next

(* A job that becomes accepted starts its dispatch, which has read nothing *)
(* yet.                                                                    *)
LEMMA NewlyAccepted ==
  ASSUME TypeOK, LifeCycle, AskedOnce, [Next]_vars, NEW o \in Ops, ~Accepted(o), Accepted(o)'
  PROVE  Underway(o)'
<1> DEFINE j == JobOf[o]
<1>1. j \in Jobs /\ create'[j] = "accepted" /\ j \in jobs'
  BY DEF Accepted
<1>2. create[j] # "accepted"
  <2>1. SUFFICES ASSUME create[j] = "accepted" PROVE FALSE
    OBVIOUS
  <2>2. j \notin jobs
    BY <2>1 DEF Accepted
  <2>3. QED
    BY <1>1, <2>1, <2>2, NewJobs
<1>3. AcceptJob(j)
  <2>1. User => create'[j] # "accepted"
    BY <1>1, <1>2 DEF TypeOK, User, RefuseEmptyJob, InsertJob, DeleteJob, handlers
  <2>2. ASSUME NEW i \in Jobs, CreateStep(i) PROVE AcceptJob(j)
    BY <1>1, <1>2, <2>2 DEF TypeOK, CreateStep, InsertOperation, AcceptJob,
       InsertOperationsFails, RollBack, HangUp
  <2>3. ASSUME NEW i \in Jobs, DispatchStep(i) \/ CleanupStep(i) PROVE UNCHANGED create
    BY <2>3 DEF DispatchStep, ScanOperation, SendFullChunk, FinishDispatch, DispatchFails,
       CleanupStep, CleanOperation, FinishCleanup, CleanupFails, handlers
  <2>4. ASSUME NEW c \in Clients, ClientStep(c) \/ \E done : StopClient(c, done)
        PROVE  UNCHANGED create
    BY <2>4 DEF ClientStep, SendRequest, ApplyResponse, ApplyResponseAgain, ReleaseResponses,
       StopClient, handlers
  <2>5. ASSUME NEW c \in Clients, CrashClient(c) PROVE create'[j] # "accepted"
    BY <1>1, <1>2, <2>5 DEF TypeOK, CrashClient
  <2>6. ASSUME NEW s \in Servers, ServerStep(s) \/ ServerEnds(s) PROVE UNCHANGED create
    BY <2>6 DEF ServerStep, HandleRequest, HandleRequestAgain, ReleaseRequests, SendResult,
       ServerEnds, CrashServer, StopServer, handlers
  <2>7. UNCHANGED vars => UNCHANGED create
    BY DEF vars, handlers
  <2>8. QED
    BY <1>1, <1>2, <2>1, <2>2, <2>3, <2>4, <2>5, <2>6, <2>7 DEF Next, ClientEnds
<1>4. dispatch'[j] = "scanning" /\ dispatch[j] = "idle" /\ UNCHANGED scanned
  BY <1>3 DEF TypeOK, LifeCycle, AcceptJob
<1>5. o \notin scanned
  BY <1>4 DEF AskedOnce
<1>6. QED
  BY <1>4, <1>5 DEF Underway, ToDispatch

(* Every step that does not lose a line keeps track of it.                 *)
LEMMA NextTracked ==
  ASSUME TypeOK, LifeCycle, MessagesGenuine, Written, AskedOnce, [Next]_vars, NEW o \in Ops,
         Tracked(o), ~Loses(o)
  PROVE  Tracked(o)'
<1>1. CASE UNCHANGED vars
  <2>1. /\ UNCHANGED <<create, jobs, doc, dispatch, scanned, chunk, sends, requestTopic,
                       responseTopic>>
    BY <1>1 DEF vars, database, handlers, dispatcher
  <2>2. Accepted(o) /\ Underway(o) => Underway(o)'
    BY <2>1, StillUnderway
  <2>3. QED
    BY <2>1, <2>2 DEF Tracked, Accepted
<1>2. CASE Next
  <2>1. SUFFICES ASSUME Accepted(o)' PROVE Underway(o)'
    BY DEF Tracked, Accepted
  <2>2. CASE Accepted(o)
    BY <1>2, <2>2, NextUnderway DEF Tracked, Accepted
  <2>3. CASE ~Accepted(o)
    BY <2>1, <2>3, NewlyAccepted
  <2>4. QED
    BY <2>2, <2>3
<1>3. QED
  BY <1>1, <1>2

(* A line gets lost only in the very step in which a call for it fails or  *)
(* the process that has it ends, for any numbers of jobs, lines, instances *)
(* and failures before (common consumer.rs:195-280,                        *)
(* operation_repository.rs:205-267).                                       *)
THEOREM LossHasCauseCorrect == Spec => LossHasCause
<1>1. TypeOK /\ LifeCycle /\ MessagesGenuine /\ Written /\ AskedOnce /\ [Next]_vars =>
        [\A o \in Ops : Tracked(o) => Tracked(o)' \/ Loses(o)]_vars
  BY NextTracked
<1>2. QED
  BY <1>1, TypeCorrect, LifeCycleCorrect, MessagesGenuineCorrect, WrittenCorrect,
     AskedOnceCorrect, PTL DEF Spec, LossHasCause

------------------------------------------------------------------------------
(* Without failures and SIGTERMs.                                          *)

AllTracked == faults = 0 /\ stops = 0 => \A o \in Ops : Tracked(o)

(* The counts of failures and stops only grow.                             *)
LEMMA CountsGrow ==
  ASSUME TypeOK, [Next]_vars
  PROVE  faults' >= faults /\ stops' >= stops
<1> DEFINE Grow == faults' \in {faults, faults + 1} /\ stops' \in {stops, stops + 1}
<1>1. Fault => Grow
  BY DEF Fault
<1> USE DEF environment
<1>2. User => Grow
  BY <1>1 DEF User, RefuseEmptyJob, InsertJob, DeleteJob
<1>3. ASSUME NEW j \in Jobs, CreateStep(j) PROVE Grow
  BY <1>1, <1>3 DEF CreateStep, InsertOperation, AcceptJob, InsertOperationsFails, RollBack,
     HangUp
<1>4. ASSUME NEW j \in Jobs, DispatchStep(j) PROVE Grow
  BY <1>1, <1>4 DEF DispatchStep, ScanOperation, SendFullChunk, FinishDispatch, DispatchFails
<1>5. ASSUME NEW j \in Jobs, CleanupStep(j) PROVE Grow
  BY <1>1, <1>5 DEF CleanupStep, CleanOperation, FinishCleanup, CleanupFails
<1>6. ASSUME NEW c \in Clients, ClientStep(c) PROVE Grow
  BY <1>1, <1>6 DEF ClientStep, SendRequest, ApplyResponse, ApplyResponseAgain,
     ReleaseResponses
<1>7. ASSUME NEW c \in Clients, ClientEnds(c) PROVE Grow
  BY <1>1, <1>7 DEF ClientEnds, CrashClient, StopClient
<1>8. ASSUME NEW s \in Servers, ServerStep(s) PROVE Grow
  BY <1>1, <1>8 DEF ServerStep, HandleRequest, HandleRequestAgain, ReleaseRequests, SendResult
<1>9. ASSUME NEW s \in Servers, ServerEnds(s) PROVE Grow
  BY <1>1, <1>9 DEF ServerEnds, CrashServer, StopServer
<1>10. UNCHANGED vars => Grow
  BY DEF vars
<1>11. Grow
  BY <1>2, <1>3, <1>4, <1>5, <1>6, <1>7, <1>8, <1>9, <1>10 DEF Next
<1>12. QED
  BY <1>11 DEF TypeOK

(* What loses a line is a failure, a crash or a SIGTERM.                   *)
LEMMA LossesCount ==
  ASSUME TypeOK, NEW o \in Ops, Loses(o)
  PROVE  faults' > faults \/ stops' > stops
  BY FaultCounts DEF TypeOK, Loses, DispatchFails, ClientEnds, CrashClient, StopClient, ServerEnds,
     CrashServer, StopServer

(* As long as nothing has failed, every line is tracked.                   *)
LEMMA NextAllTracked ==
  ASSUME TypeOK, TypeOK', LifeCycle, MessagesGenuine, Written, AskedOnce, AllTracked,
         [Next]_vars
  PROVE  AllTracked'
<1> SUFFICES ASSUME faults' = 0, stops' = 0, NEW o \in Ops
             PROVE  Tracked(o)'
  BY DEF AllTracked
<1>1. faults = 0 /\ stops = 0
  BY CountsGrow DEF TypeOK
<1>2. ~Loses(o)
  BY <1>1, LossesCount
<1>3. QED
  BY <1>1, <1>2, NextTracked DEF AllTracked

(* A tracked line whose dispatch is over is answered or in flight.         *)
LEMMA TrackedInFlight ==
  ASSUME LifeCycle, NEW o \in Ops, Tracked(o), dispatch[JobOf[o]] = "done", JobOf[o] \in jobs
  PROVE  doc[o] \in Results \/ InFlight(o)
<1>1. Underway(o)
  BY DEF LifeCycle, Tracked
<1>2. ResultMessage(RequestMessage(o)) = AnswerMessage(o)
  BY RequestAnswered
<1>3. QED
  BY <1>1, <1>2 DEF Underway, ToDispatch, InFlight, RequestTopic!Waits, ResponseTopic!Waits

(* Without failures and SIGTERMs, every line of a job in the database      *)
(* whose dispatch is over has its result or is in flight, whatever users   *)
(* delete meanwhile (operation_repository.rs:205-236, common               *)
(* consumer.rs:255-267).                                                   *)
THEOREM NoLineForgottenCorrect == Spec => []NoLineForgotten
<1>1. Init => AllTracked
  BY DEF Init, AllTracked, Tracked
<1>2. TypeOK /\ TypeOK' /\ LifeCycle /\ MessagesGenuine /\ Written /\ AskedOnce /\ AllTracked
        /\ [Next]_vars => AllTracked'
  BY NextAllTracked
<1>3. LifeCycle /\ AllTracked => NoLineForgotten
  BY TrackedInFlight DEF AllTracked, NoLineForgotten
<1>4. QED
  BY <1>1, <1>2, <1>3, TypeCorrect, LifeCycleCorrect, MessagesGenuineCorrect, WrittenCorrect,
     AskedOnceCorrect, PTL DEF Spec
==============================================================================
