# Specifications of the distributed job system

TLA+ specifications of the two Rust applications under `services/`, model-checked
with TLC and proved with TLAPS. They are written from the source; a path without
a directory below is the one `PROJECT.json` maps the definition to.

- [The system](#the-system): the parts, their state, what is hard about them
- [The modules](#the-modules): which module models what, and how
- [What is checked](#what-is-checked): the runs, their bounds and what they show
- [Where the code and its texts disagree](#where-the-code-and-its-texts-disagree)
- [Fairness](#fairness)
- [What is proved](#what-is-proved), and [what is not](#checked-but-not-proved)
- [What is not modelled](#what-is-not-modelled)
- [Plan](#plan)

## The system

A user posts a body of expressions, one per line. The client application writes a
job and one operation per line to MongoDB, and a task it spawns sends a request
message per operation to Kafka. The server application evaluates requests and sends
result messages. The client application consumes these and sets the `result` field
of the operations. Each service runs in three instances; nothing coordinates them but
the database and the consumer groups.

| Component | State | Operations | Interacts with |
|---|---|---|---|
| Consumer workers (`common/src/messaging/consumer.rs`) | per worker: message in hand, assigned partitions, position, stored offset; at the broker: owner and committed offset of each partition | `recv`, reject, handler, `store_offset_from_message`, return on shutdown; commit in the background | handlers of both services; group coordinator |
| Producer (`common/src/messaging/producer.rs`) | one spawned task per message; at the client library: the bounded queue; at the broker: the log of the leader and what its followers have | `send`, wait for room, time out, transmit, report, retry; end of the process | called by the dispatch task and the server's handler; Kafka |
| POST handler (`job_controller.rs:41`) | where it stands between its calls | `Job::new`, `insert_job`, `insert_operations`, rollback, spawn of the dispatch | MongoDB, dispatch task |
| Dispatch task (`job_controller.rs:92`, `operation_repository.rs:205`) | cursor, chunk being filled | read a document, send a full chunk, send the last one, fail | MongoDB, producer |
| DELETE handler and cleanup task (`job_controller.rs:125`) | running cleanups | `delete_job`, `delete_operations` | MongoDB; races with everything above |
| GET handler (`job_controller.rs:160`) | the job it has read | `get_job`, `get_total_completed_operations`, `Job::status` | MongoDB |
| Request handler (server `consumer.rs:26`) | none | evaluate, spawn the send of the result | producer |
| Result handler (client `consumer.rs:25`) | none | `update_operation` | MongoDB |
| Listing (`get_jobs`, `get_operations`, `PageParams`) | where the cursor of `find` and the count stand | clamp, skip and limit, count | MongoDB, beside every handler that inserts or deletes |
| Life cycle (`main.rs`, `application/context.rs` of both) | where `main` stands, cancellation token, signal handlers, services | create, start, wait for the first to end, cancel, wait for the rest, return | workers, HTTP server |

What is hard here, and what must hold:

- **Offsets.** Handling, storing an offset and committing it are three steps, the
  last in the background, and a stored offset stands for all the messages before it.
  With thirty workers of the server and sixty of the client, rebalances and restarts, no
  message may be skipped and no committed offset may move back.
- **Tasks nobody waits for.** The dispatch, the cleanup and every send are
  `tokio::spawn`ed and forgotten. They run beside later requests for the same job,
  and die with the process.
- **Several writes without a transaction.** A POST writes the job, then its operations;
  a DELETE deletes the job, then its operations. Failures, crashes and the other
  handler come in between.
- **Two topics.** Results arrive repeated, late, in any order, and after their
  operation was deleted. They must land on their own operation or nowhere.
- **A status that is computed.** It is put together from two reads with writes between.
- **Pages of a collection that changes.** Items and total are read by two calls, pages by
  several requests, and nothing sorts.
- **Sends with a queue, retries and one acknowledgement.** A send may fail although
  its message arrives, and succeed although it gets lost.
- **Services that end in any order.** They may end, one may fail and a signal may come, before
  or after the others are waited for; no error may be lost and the process must end.

`PROJECT.json` lists the hazards one by one, with their lines.

## The modules

| Module | What it is |
|---|---|
| `Topic` | the actions of a topic and the consumer group that reads it |
| `DeliveryQueue` | abstract: those actions, and when they may happen; at-least-once delivery, and no more than once without a reason |
| `ConsumerGroup` | the workers of a service as `worker_consumer` runs them; implements `DeliveryQueue` |
| `ConsumerGroupProofs` | its theorems |
| `MCConsumerGroup` | its instances for TLC |
| `JobService` | abstract: what a user of the API is promised |
| `JobSystem` | both applications, two instances of `Topic` between them, and the collections; implements `JobService` when no job is deleted before its POST is answered |
| `JobSystemProofs` | its theorems |
| `JobTrafficProofs` | its theorems about where the lines of a job are on their way |
| `JobStatus` | extends `JobSystem` with the GET handler |
| `JobStatusProofs` | its theorems |
| `MCJobSystem`, `MCJobStatus` | their instances for TLC |
| `Outbox` | abstract: what the system expects of a send |
| `ProducerQueue` | the send tasks, the queue of the client library and the broker behind it; implements `Outbox` |
| `ProducerQueueProofs` | its theorems |
| `InstanceLife` | abstract: what `JobSystem` takes for granted of a process that stops or crashes |
| `AppLifecycle` | a process from `main` to its end; implements `InstanceLife` |
| `AppLifecycleProofs` | its theorems |
| `Listing` | a page of a collection, and a user who walks through the pages |
| `ListingProofs` | its theorems |
| `MCListing` | its instance for TLC |

### ConsumerGroup

One action per statement of the loop: `Recv`, `Reject` (the three early returns of
`consumer.rs:225-253`), `Handle`, `StoreOffset`, and `Stop` for the shutdown branch
of `select!`. The broker and the client library are external, modelled from the
configuration in `create_config`: `Assign`, `AutoCommit`, `Revoke`, `Evict` (the
coordinator drops a worker that does not know), `LoseAssignment` (the worker finds
out), `Crash`. A message is valid or unparsable; nothing else about its payload
matters here. The log is never trimmed, so offset 0 stands for "no committed offset"
and for `auto.offset.reset = earliest` at once: the brokers keep messages for a week
(`log.retention.hours=168`), and a group that reads nothing for a week is left out.

Two choices make the model more permissive than the client library: a commit on leaving
a group may fail, and a worker may find out about a lost partition with a message
in hand, which makes the failure of `store_offset_from_message` reachable.

`Topic` is what the rest of the system sees of this. A worker that has finished with a message
(`Handle`: the handler returned, or the message was rejected) holds it until it lets go of it
(`Release`), with or without a commit. `Waits` says that a message is to be delivered: nobody
holds it and nobody has committed it. A worker that lost its partition may finish with a message
all the same, and its offset counts for nothing (`HandleAgain`). `DeliveryQueue` adds the
reasons: without a disturbance - a crash, a stop, an eviction, a rebalance - nothing is
handled again and nothing let go uncommitted. `Held` maps the cursors to it: the owner of a
partition holds what lies between the committed offset and its position, but for the
message it still works on; what a worker that lost a partition has done there, it does not hold.

### JobSystem

An action per database call and per send, because other handlers, deletes,
messages and crashes come between any two of them. `insert_many` and `delete_many`
are one action per document: neither is atomic. The variables are grouped as in the
code: the collections (`jobs`, `doc`), the handlers (`create`, `home`, `inserted`), the
dispatch tasks (`dispatch`, `scanned`, `chunk`), the cleanup tasks (`cleanup`,
`cleaner`), the send tasks (`sending`, `replying`) and the topics with their offsets.
The topics are instances of `Topic`, whose members are the instances of a service, each with all its
workers, twenty in the client and ten in the server: `HandleRequest` is `RequestTopic!Handle` with
what the handler does, `ReleaseRequests` a commit or a rebalance, `HandleRequestAgain` the
late handling of a message by an instance that was evicted, and crashes and stops release what
the instance holds. The same for responses. Where `DeliveryQueue` asks for a disturbance,
`JobSystem` asks for a `Fault` or a SIGTERM. So each step of a `ConsumerGroup` is one that
`JobSystem` has, as `GroupImplementsDelivery` proves. A message is its contents; the second copy a
retried send leaves behind is handled as a late one. Which offsets settle which messages is
`ConsumerGroup`'s matter only. `inserted` is part history: it remembers a document that was
deleted while `insert_many` went on.

`Fault` is a failed call, a crash, a user who hangs up (the HTTP server drops the handler at the call
it awaits), a rebalance at a bad moment or a message that is handled late; a step that needs one is possible `MaxFaults` times.
A send that fails because its line is larger than a message may be, or because the queue has no room, is a
failed call here; `ProducerQueue` says when that happens.
`StopClient` and `StopServer` are SIGTERMs: `start_application` waits for the
HTTP handlers and the workers, and the workers' offsets are committed unless that last commit
fails, but nobody waits for spawned tasks.

`EarlyDelete` says whether users delete a job whose POST is not answered yet. They can:
`GET /api/jobs` lists it. With `EarlyDelete = FALSE` the system keeps more promises,
and runs and theorems say which of the two they are about.

### JobStatus

`get_job_endpoint_handler` as the two reads it makes (`ReadJob`, `CountAndAnswer`),
in any number of users at once, beside every action of `JobSystem`.

### ProducerQueue

`MessageProducer::send` spawns a task (`Send`), which tries to put its message into the
queue of the client library (`Enqueue`) for at most four seconds (`QueueTimeout`), and ends
with the delivery report, or with any other error, all of which it treats alike
(`producer.rs:140-157`). A message that the library does not take ends its task at once
(`Refuse`), above all one of `TooLarge`: a line may have the 10 MB of a body, and
`message.max.bytes` is left at its default of 1 MB. `Overloads` says which messages the queue cannot
hold together, by their number or their size. The library, the network and the broker are external, as
`create_config` sets them up: requests and answers get lost or are late (`LoseRequest`,
`LoseAnswer`, `Retry`), the leader acknowledges alone (`AppendToLog`; `acks = 1`) or answers with an
error (`RefuseRequest`), which is tried again or reported (`ReportError`); it may
fail before its followers have the message (`LeaderFails`), or be out of reach (`Outage`).
`MessageTimeout` (`message.timeout.ms`) needs that, or, with a leader within reach, attempts that were
lost or too slow, which counts as a fault. There is no clock: a timeout may expire
as soon as what it waits for is late.

`Outbox` is what is left of this in `JobSystem`: a message given to `send` is pending, and
then published for good or lost for good, and nobody is told which. `Fate` maps the
state of the queue to it: published is what consumers can see, and a message is
lost only when it is nowhere on its way, whatever its task was told.

### AppLifecycle

A poll of `main` is an action, and so is each step of a service between two awaits.
`select!` polls its branches in random order, so that either of two that are ready may be
taken: `ServicesEnd` or `ReceiveSignal` in `start_application`, the next message or
the cancellation in a worker. `main` goes from `CreateApplication` over `WatchSignals` and the
branch that was taken to `AwaitSignal` or `AwaitServices`, with `FirstError` of both results, and
flushes the telemetry before it returns (`Exit`). The handlers of SIGTERM and SIGINT are
installed one after the other when the signal branch is polled first, and may fail to be. A
service may fail at `Bind`. A handler that panics ends the process in the release build, which the
images hold (`Abort`; `panic = "abort"` in `Cargo.toml`), and its worker in the development build, which
unwinds (`Panic`). The two
`context.rs` hold the same code, and one module stands for both.

`InstanceLife` is what `StopClient`, `StopServer`, `CrashClient` and `CrashServer` of `JobSystem`
take a process to do: it stops with nothing in hand, or it crashes.

### Listing

The handler of one request: `find` with `skip` and `limit` document by document (`FindSkips`,
`FindTakes`), then `count_documents` (`CountDocument`), either of which may fail. In between
others insert and delete, and a cursor sees what they do in the part it has
not reached. No call sorts, so documents come in the order of their record ids; an
insert may come up after one with a later id. `Page`, `Size` and `Skip` are
`PageParams` and the arithmetic of the repositories, `page - 1` in u32 and the product in u64. The
user asks with any filter and any parameters, then for one page after the other as long as
they are full, and again when a call failed. `shown`, `start`, `late`, `gone` and `lost` are history.

## What is checked

The runs that pass:

| Run | Instance | Distinct states | Properties |
|---|---|---|---|
| `ConsumerGroup_safety` | 2 workers, 2 partitions of up to 2 messages, 2 disruptions | 721,699 | `TypeOK`, `NothingSkipped`, `CursorsInStep`, `RedeliveryNeedsDisruption`, `CommittedNeverRegresses`, `ImplementsDelivery` |
| `ConsumerGroup_liveness` | 2 workers, 1 partition of up to 2 messages, 2 disruptions | 6,254 | `EveryMessageFinished`, `ValidTailCommitted` |
| `JobSystem_instances` | a job of 2 lines and an empty body, 2 instances of each service, chunks of 1, 1 fault and 1 SIGTERM | 423,572 | `TypeOK`, `ResultCorrect`, `RequestsFollowAcceptance`, `LifeCycle`, `CleanupComplete`, `AskedOnce`, `ImplementsService`, `LossHasCause`, `OneCleanup`, `OrphanHasCause` |
| `JobSystem_jobs` | jobs of 2 lines and of 1, 1 instance of each service, chunks of 2, no faults and no SIGTERMs, `FairSpec` | 68,423 | `NoLineForgotten`, `AcceptedJobCompletes`, `DeletedJobIsCleaned` |
| `JobStatus_safety` | a job of 2 lines, 2 users, 1 fault, `EarlyDelete` | 209,170 | `StatusTypeOK`, `CompletedKeepsResults`, `NoStepBack`, `NothingComesBack` |
| `AppLifecycle` | the HTTP server with up to 2 requests, 3 workers, `FairSpec` | 11,812 | `TypeOK`, `ErrorReported`, `ImplementsInstance`, `StopsWhenTold`, `FailureStops` |
| `ProducerQueue` | 4 messages, `m4` too large, a queue that cannot hold `m1` beside `m2` or `m3`, 2 faults, `FairSpec` | 450,408 | `TypeOK`, `SentReachedLeader`, `FailureNeedsCause`, `ImplementsOutbox`, `EverySendEnds` |
| `Listing` | 4 record ids, 2 jobs, numbers up to 3, pages of up to 2 | 5,925,158 | `TypeOK`, `PageExact`, `TotalCovers`, `RepeatsNeedInserts`, `MissesNeedDeletes` |

- **Nothing is skipped** (`NothingSkipped`): an offset is committed only when each message below
  it went through the handler or was rejected. `RedeliveryNeedsDisruption` is the converse:
  without a disruption nobody handles a message twice.
- **The group is the topic the services rely on** (`ImplementsDelivery`): step by step, with owners
  that change, workers that do not know, and commits that stand for many messages.
- **Committed offsets never go back** (`CommittedNeverRegresses`), although an evicted
  worker goes on storing old ones.
- **Unparsable messages block nothing** (`EveryMessageFinished`); they are committed only on
  the back of a valid one behind them (`ValidTailCommitted`).
- **Results are right** (`ResultCorrect`): what is in the database is the value of the
  operation's own request, through faults, repeats and deletes.
- **The API's promise** (`ImplementsService`): a line is written only while its job is open, is
  answered once and never differently, is dropped only when its job is closed and never
  comes back; and a job has a line: an empty body opens none.
- **The parts of a job follow each other** (`LifeCycle`): no dispatch before the lines are in, no
  cleanup before the job is gone, nothing at all for an empty body. The cleanup is started once, whoever
  sends a second DELETE and whatever fails (`OneCleanup`).
- **Nothing comes back** (`NothingComesBack`): also with users who delete early, what was answered
  keeps its answer until it is dropped, and what was dropped stays dropped.
- **Each line is asked for once** (`AskedOnce`), by one send task, and only after the dispatch let
  go of it; its answer comes after its request.
- **Nothing falls between two parts** (`NoLineForgotten`): without faults and SIGTERMs, a
  line whose dispatch is over has its result or is in a send task or in a topic.
- **An accepted job completes and a deleted one leaves nothing** (`AcceptedJobCompletes`,
  `DeletedJobIsCleaned`), but only as long as nothing fails: the code resumes neither a dispatch, as
  `JobSystem_fault` shows, nor a cleanup.
- **Nothing is left behind without a cause of its own** (`OrphanHasCause`): an operation whose job is gone
  and that no cleanup will delete comes about only in a step of its own POST, DELETE or cleanup that goes
  wrong (`Strands`). `delete_job` and `delete_operations` are two calls, and one that fails when the job is
  gone, or a process that ends before the second is through, leaves operations that no later DELETE reaches;
  so do a rollback, which deletes the job alone, and a POST that goes on inserting after an early DELETE
  (this one is covered by the proof only: no user deletes early in the run).
  Nothing else does: no cleanup that ends well, no late response, no trouble of another job or instance.
- **Every loss has a cause of its own** (`LossHasCause`): with faults and SIGTERMs, a line gets
  lost only in a step in which the dispatch that has it still to send, the send of its request or its
  answer or the update with its result fails, or the process that has it in such a task ends (`Loses`). No
  rebalance loses a line, no message handled late or twice, no failure with another line; and no trouble
  leaves a trap that drops a line later, in silence. A line is underway when it has its result, or
  the dispatch, a send task or a topic that still delivers its message will see to it (`Underway`).
- **A status does not lie** (`CompletedKeepsResults`) **and does not step back**
  (`NoStepBack`), as long as the job exists when the second read happens. The exception is
  real: `Job::status` compares a fresh count with an old document, so a user
  who read a completed job just before its DELETE may be told it is in progress.
- **A send has one fate** (`ImplementsOutbox`), and ends (`EverySendEnds`), even when the broker is
  never reached again. What was reported as sent was appended by a leader (`SentReachedLeader`), and
  no more can be said: the leader may fail before the followers have it. While nothing goes wrong, a
  message is given up only when it is too large, or when the queue could not hold it beside
  messages that were not given up (`FailureNeedsCause`). A job can cause both: a line may be larger than a
  message may be, and nothing waits for the sends of a job before it spawns more.
- **A process that ends with Ok had nothing in hand and no failure** (`ImplementsInstance`,
  `ErrorReported`), in whatever order the services, a signal and an error came. It ends once a
  service failed (`FailureStops`), and once it is told to (`StopsWhenTold`) unless its signal handlers
  could not be installed: then SIGTERM may be swallowed.
- **A page is what was asked for** when nothing is written meanwhile (`PageExact`), for any
  numbers in the query string. Otherwise it is off by no more than the writes explain: the total
  by the documents deleted during the request (`TotalCovers`), repeats in a walk by the
  documents that came up late (`RepeatsNeedInserts`), misses by the documents deleted
  (`MissesNeedDeletes`).

**Bounds.** Two workers are enough for an old and a new owner of a
partition, two messages for one that settles another, two disruptions for an eviction
followed by a crash. Two instances of each service are enough for a message handled by
another instance than the one before, or results applied by another than the one
that dispatched. Two lines with chunks of one, or jobs of two lines and of one with chunks of two, give
full and partial chunks and a cursor that goes on while results of earlier chunks
arrive. One fault and one SIGTERM, at any of the steps, stand for the failure
the code has no memory of; combinations of faults are covered by the
proofs, which have no bounds. A queue that cannot hold `m1` beside `m2` or `m3` makes `m1` wait for one or
both of them, or them for it, and time out; a fourth message is too large; and two faults are a lost
answer followed by a failing leader, or a retry followed by an outage.
Three workers are one that fails, one that has a message in hand and one that has ended. Four documents with
pages of up to two are two full pages, or a page with two before and
one behind it; largest number 3 stands for u32::MAX, so that page and size together exceed it as they
do there, and largest size 2 for 100. One walk per behaviour is enough, because
the handler keeps nothing between requests. `MaxLog`, `MaxDisruptions`, `MaxFaults`,
`MaxStops`, `MaxRequests` and `MaxDocuments` are the only bounds in the modules. Symmetry is used in runs without
liveness properties only. `CHECK_DEADLOCK FALSE` is there because the system may stop: when the
logs are full, all jobs are finished or deleted, or all workers have stopped.

Two lines of different jobs never ask for the same thing in these instances, so a result
on the wrong line would be seen.

## Where the code and its texts disagree

Four runs end in a counterexample. Each checks what a text in the repository says.

| Run | Property | What happens |
|---|---|---|
| `JobSystem_shutdown` | `CommittedRequestsAnswered` | The log says "starting graceful shutdown" (`server-application/src/application/context.rs:67`). The request handler has spawned the send of the result and returned, so the worker stores the offset; closing the consumer commits it, and the send task is dropped with the runtime. The request never comes again. |
| `JobSystem_early_delete` | `CleanupComplete` | The comment says the operations are deleted asynchronously (`job_controller.rs:139`). If the POST is still inserting, `delete_many` may end first; what `insert_many` writes later stays for ever. |
| `JobSystem_rollback` | `RefusedLeavesNoOperations` | "Failed to roll back job {job_id} after insert_operations error" (`job_controller.rs:81`): the rollback deletes the job and leaves the operations written before the error. |
| `JobSystem_fault` | `AcceptedJobCompletes` | "scalable, fault-tolerant system for job processing" (`README.md:34`). One failed read of the cursor, failed send (of a line too large for a message, for instance), failed update or crash after the acceptance, and the job stays in progress: errors are logged and nothing resumes the dispatch. This run has the fairness of `FairSpec`. |

## Fairness

`ConsumerGroup!Fairness`: the steps of a worker, because tokio runs a task that can go
on, `recv` returns when messages were fetched, and the handlers return (a database call
with the driver's timeouts, or a spawn); the assignment of a partition that
stays free, because the coordinator rebalances when a member joins or leaves; finding out about an
eviction, and the commit timer. All weak, none on publishing,
revocations, evictions, stops or crashes. The liveness properties assume that the group keeps some
worker (`SomeoneStays`).

`AppLifecycle!Fairness`: the polls of `main`, `bind`, and the return of every handler, since its calls
have timeouts. `Return` and `StopAccepting` have strong fairness: a worker that finds
the token cancelled and a message ready has both branches of `select!` ready at each turn, and
`select!` chooses at random, so it does not take the message for ever. Nothing is fair about panics and
signals.

`ProducerQueue!Fairness`: the task, which polls every 100 ms while the queue is full; the
threads of the client library; and the leader while it can be reached. Nothing says that an
outage ends, that the leader stays or that the followers keep up.

`JobSystem!Fairness`: the next call of each handler and task, each send, and the
handling of each message not yet committed, by some instance. The
last is what `EveryMessageFinished` gives. Weak again, and none on users, faults,
crashes and SIGTERMs.

## What is proved

TLAPS checks these for all values of the constants that the modules' assumptions
allow: any numbers of workers, partitions, jobs, lines, instances, and any bounds.

`ConsumerGroupProofs`:

- `TypeCorrect`: `TypeOK`, which includes that a worker has a message in hand exactly while it
  handles it or stores its offset.
- `CursorsCorrect`: `CursorsInStep`, the inductive invariant. `NothingSkipped` is not
  inductive: a commit sends the stored offset, so one has to know that all below *that* is
  finished, hence that all below the position is finished but the message in hand, hence
  that the message in hand is the last one received. `ReaderInStep` says this for a partition the
  worker believes it owns; `HandInStep` says what is known of the message in hand
  even when the partition was lost.
- `NothingSkippedCorrect` follows from it, and `CommittedMonotone` too: a commit
  counts only when it comes from the owner, and `committed <= stored` holds for
  the owner, since it started from the committed offset.
- `GroupImplementsDelivery`: each step is a step of `DeliveryQueue` or a stutter. `Publish` sends
  (`PublishSends`); `Handle` and `Reject` finish with a message that waited when the worker owns the
  partition (`OwnerFinishes`), and with one that counts for nothing when it lost it
  (`OthersFinish`); commits, revocations, evictions, stops and crashes let go (`LeaveLetsGo`);
  `Recv`, `Assign` and `StoreOffset` move no message (`ReadersHold`). It takes three things of
  `CursorsInStep` that `NothingSkipped` does not need: that whom the coordinator takes for
  the owner knows it, that an owner has stored no less than what is committed, and that
  what it has stored is behind the message in hand. And it takes the invariant of the next
  theorem: without a disruption only owners have messages in hand.
- `RedeliveryCorrect`: `RedeliveryNeedsDisruption`. It needs `OwnersKeepReading` to be inductive: without a
  disruption a worker reads only what it owns, a finished message lies below the
  position of the owner of its partition, and so nobody has a finished message in hand.

`JobSystemProofs`:

- `TypeCorrect`: `TypeOK`.
- `MessagesGenuineCorrect`: `MessagesGenuine` is inductive beside the types. It is
  what `ResultAlwaysCorrect` needs: the client stores whatever a message
  says, so the result is right because of where messages come from.
- `LifeCycleCorrect`: `LifeCycle`, the invariant of handler, document, dispatch and cleanup of a
  job. It holds whether or not users delete early. `OneCleanupCorrect` (`OneCleanup`) follows: a job in
  the database has no cleanup yet, and only the DELETE that takes it out starts one.
- `OrphanHasCauseCorrect`: `OrphanHasCause`, from the types alone, action by action.
- `RequestsFollowAcceptanceCorrect`: from `LifeCycle`, and from accepted jobs staying
  accepted (`AcceptedStays`).
- `CleanupCompleteCorrect` and `SystemImplementsService` assume `EarlyDelete = FALSE`. Both are
  false without it, as `JobSystem_early_delete` shows. The first says that after a
  cleanup nothing inserts (`LifeCycle`: a handler that inserts has its job in the database, a
  cleanup has not) and results recreate nothing (`Selected`). The second maps a job to
  new, open or closed, and an operation that was inserted and is gone to
  dropped; `ApplyRefines` is its heart: a document that changes was waiting, because
  a document that had its result gets the same one again.

- `NothingComesBackCorrect`, without an assumption on `EarlyDelete`: `AnsweredStays` and
  `DroppedStays`, one for each half. `insert_many` writes each document once (`inserted`), and an
  update selects documents that are there.

`JobTrafficProofs`:

- `AskedOnceCorrect`: `AskedOnce`, inductive beside the types, `LifeCycle` and `MessagesGenuine`.
  A send task gets the request of a line in the step that takes the line out of the chunk
  (`NextAsked`), and no step puts a line there again, because a dispatch starts once and its cursor
  returns a document once (`DispatchChanges`). Answers are made of requests in the topic
  (`NextAnswersAsked`).
- `LossHasCauseCorrect`: `NextUnderway` goes through the steps that do not lose the line, part by
  part: it leaves the chunk for a send task, the task for the topic, the
  topic for a reply, and so on to the document; failures with other lines, rebalances and late
  messages leave it where it is, and a process that ends (`EndUnderway`) lets go of messages that
  then wait for another one. It needs more than `Underway`. `AskedOnce`:
  otherwise a second copy in a send task would hide that the first is gone. `Written`: a document
  that was written is there as long as its job is, so that an answer is not applied to nothing, and
  offsets are offsets of messages of their topic. A job that becomes accepted is
  `NewlyAccepted`: nothing of it was read yet.
- `NoLineForgottenCorrect` follows. As long as nothing failed every line is tracked (`AllTracked`),
  since a loss is a failure, a crash or a SIGTERM (`LossesCount`); and a line that is tracked when its dispatch is over is answered or in
  flight (`TrackedInFlight`).

`JobStatusProofs`, on top of what is known of `JobSystem`:

- `StatusTypeCorrect`: `StatusTypeOK`.
- `CompletedKeepsResultsCorrect`: a count that reaches the number of lines means that each
  document has its result, and a document that has its result keeps it while its job exists.
- `NoStepBackCorrect`: a user who knows better asks about a job in `completed`, so that, by the theorem
  before, the count of the second read reaches the number of lines, if the job is still there.

`AppLifecycleProofs`:

- `TypeCorrect`, and `ErrorReportedCorrect` from `MainInStep`: where `main`
  stands tells which of services and signal has ended, or that the first result was an error.
- `LifecycleImplementsInstance`: each step is one of `InstanceLife` or a stutter; the exit with Ok
  is a stop with nothing in hand, because every service has ended.

`ProducerQueueProofs`:

- `TypeCorrect` and `SentReachedLeaderCorrect`: inductive together, since every answer comes from
  an append.
- `FailureNeedsCauseCorrect`: a task that fails without a fault is refused for its size or finds no room
  beside the messages held (`ProcessFails`); and as long as nothing goes wrong these keep their
  place, are sent, or end with the process (`ProcessKeeps`), so that what had no room beside them still has
  none. A leader out of reach is a fault.
- `QueueImplementsOutbox`: the steps of the task and the library leave the fate of a
  message alone or lose it; only `Replicate` publishes.

`ListingProofs`, for any number of documents, any parameters and any writes. All rest on the rank of a
document (`Rank`: how many documents asked about come no later) and on what an insert and a
delete do to ranks (`RankWrites`).

- `TypeCorrect`, with `Shape` for what the histories count.
- `ExactCorrect`: while it is quiet, the cursor's rank is the number of documents met (`Exact`).
- `CoversCorrect`: what find has met is at most the cursor's rank and the deletes
  since (`Covers`), and the count goes by the same ranks.
- `RepeatsCorrect`: a document shown before ranks within the pages before, but for late ones, and the room
  left before the cursor reaches it shrinks as it comes nearer (`Repeats`).
- `MissesCorrect`: the documents not seen with a rank within the pages before are no more than
  the deletes, and so are those find will skip or has passed (`Misses`). A delete moves at most
  one document over an edge, because no two have the same rank (`RankSlice`).

### Checked, but not proved

Liveness under fairness, which is out of the proof system's reach: `EveryMessageFinished`,
`ValidTailCommitted`, `AcceptedJobCompletes`, `DeletedJobIsCleaned`, `StopsWhenTold`, `FailureStops`,
`EverySendEnds`. Every invariant, action property and refinement the passing runs check is a
theorem, those of `JobSystem` that need it under `EarlyDelete = FALSE`.

How the modules fit together is proved up to three readings. `JobSystem` is built from the actions of
`Topic`, and `ConsumerGroup` takes no others; that the workers of an instance are one member,
and that the disruptions of a group are the faults and SIGTERMs of `JobSystem`, is a reading. So is
that its sends are those of `Outbox` and its processes those of `InstanceLife`.

The refinement has corrected the model. `JobSystem` used to let a message be handled late
only after it was committed, and to commit everything when an instance stops; a worker that was
evicted also finishes with messages that the new owner holds at the time (`HandleRequestAgain`,
`ApplyResponseAgain`), and the last commit may fail (`StopClient`, `StopServer`).

## What is not modelled

- `get_operation`: one `find_one`, no state.
- The serialization of a message before it is sent: it cannot fail for the two payload types.
- Batching and compression in the producer: a message is transmitted by itself.
- Connections that never finish: `axum::serve` would wait for them, and `Finish` is fair.
- MongoDB's replication: a call that returned is seen by later reads (default
  write concern, reads from the primary).
- A database call that goes on at the server after its caller died or got an error. `InsertOperation`
  and `CleanOperation` end with the handler or task that made the call.
- A consumer group that is down for longer than the brokers keep messages (`log.retention.hours=168`):
  its messages would be gone unread.
- Malformed ids (`ObjectId::parse_str` fails): in paths they are an error before any write, and in
  messages they would be a failed `update_operation`, which `ApplyResponse` has.
- `evalexpr`: `Eval`, some function of the request.
- Health check, fallback, error bodies, deployment files: no state the properties could tell apart.
- OpenTelemetry: spans, metrics and the trace context in message headers decide nothing in the program.
  A failure to set it up is a failure of `main` before anything else runs.

## Plan

Done: all the modules above and their theorems. What is left:

1. The sends of `JobSystem` built from the actions of `Outbox`, as its topics are from those of
   `Topic`, so that `QueueImplementsOutbox` carries over in the same way.
2. Database calls that go on at the server after their caller died, as an action of
   `JobSystem` of its own; `CleanupComplete` would then need a condition more.
3. MongoDB with a write concern and elections, for reads that miss a write that returned.
