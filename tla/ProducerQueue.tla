---------------------------- MODULE ProducerQueue -----------------------------
(***************************************************************************)
(* The producer of one process (services/common/src/messaging/producer.rs):*)
(* MessageProducer::send spawns a task per message.  FutureProducer::send  *)
(* tries to put the message into the queue of the client library, for at   *)
(* most QUEUE_TIMEOUT when the queue is full, and the task ends with the   *)
(* delivery report.  It ends the same way on every error: it is logged,    *)
(* counted, and the message is gone.                                       *)
(*                                                                         *)
(* The client library and the broker are external, modelled as             *)
(* create_config sets them up: acks = 1, so the leader of the partition    *)
(* answers before the followers have the message, no idempotence, so a     *)
(* request that is sent again may append a message twice, and the default  *)
(* retries, message.timeout.ms, message.max.bytes and limits of the queue. *)
(* Consumers see what the followers have.                                  *)
(* There is no clock: a timeout may expire when what it waits for is late. *)
(* QUEUE_TIMEOUT and a leader out of reach need no fault for it, lateness  *)
(* of a leader within reach counts as one.                                 *)
(* Serialization never fails for the two payload types, and is left out,   *)
(* with batching, compression and headers.                                 *)
(***************************************************************************)
EXTENDS Naturals, Sequences

CONSTANTS
  Messages,    \* the messages given to send, one per call
  TooLarge,    \* those whose payload exceeds message.max.bytes
  Overloads,   \* sets of messages the queue cannot hold together, by their
               \* number or their size (queue.buffering.max.messages, .kbytes)
  MaxFaults    \* bound: requests and answers lost or late, refusals, leader
               \* failures, outages

ASSUME ProducerQueueAssumption ==
  /\ TooLarge \subseteq Messages
  /\ Overloads \subseteq SUBSET Messages
  /\ MaxFaults \in Nat

VARIABLES
  \* the process
  up,          \* it has not ended
  send,        \* send[m]: where the task of m stands
  \* the network
  requests,    \* produce requests on their way
  answers,     \* acknowledgements on their way
  refusals,    \* answers with an error on their way
  \* the broker
  reachable,   \* the leader can be reached
  log,         \* the log of the leader
  replicated,  \* how many messages of it the followers have
  \* history
  appended,    \* messages some leader has appended
  faults       \* what went wrong so far

network == <<requests, answers, refusals>>
broker == <<reachable, log, replicated, appended>>
vars == <<up, send, network, broker, faults>>

Fault ==
  /\ faults < MaxFaults
  /\ faults' = faults + 1

------------------------------------------------------------------------------
(* The task of a message.                                                  *)

(* Faulty variant: a message that failed is given to send once more.       *)
SendAgain(m) ==
  /\ up
  /\ send[m] \in {"idle", "failed"}
  /\ send' = [send EXCEPT ![m] = "spawned"]
  /\ UNCHANGED <<up, network, broker, faults>>

(* MessageProducer::send spawns it and returns.                            *)
Send(m) ==
  /\ up
  /\ send[m] = "idle"
  /\ send' = [send EXCEPT ![m] = "spawned"]
  /\ UNCHANGED <<up, network, broker, faults>>

(* The messages the client library holds: until their delivery report.     *)
Held == {m \in Messages : send[m] \in {"queued", "transmitted"}}

(* A queue can hold these messages together.                               *)
Fits(held) == ~ \E overload \in Overloads : overload \subseteq held

Room(m) == Fits(Held \cup {m})

(* FutureProducer::send finds room, at once or at one of its retries.      *)
Enqueue(m) ==
  /\ up
  /\ send[m] = "spawned"
  /\ m \notin TooLarge
  /\ Room(m)
  /\ send' = [send EXCEPT ![m] = "queued"]
  /\ UNCHANGED <<up, network, broker, faults>>

(* The library does not take the message: it is too large, or for another  *)
(* reason that is not a full queue, such as a topic it does not know.      *)
(* Only a full queue is tried again.                                       *)
Refuse(m) ==
  /\ up
  /\ send[m] = "spawned"
  /\ (m \in TooLarge /\ UNCHANGED faults) \/ Fault
  /\ send' = [send EXCEPT ![m] = "failed"]
  /\ UNCHANGED <<up, network, broker>>

(* Faulty variant: the timeout is put around the whole send.               *)
SendTimeout(m) ==
  /\ up
  /\ send[m] \in {"spawned", "queued", "transmitted"}
  /\ send' = [send EXCEPT ![m] = "failed"]
  /\ UNCHANGED <<up, network, broker, faults>>

(* The queue stays full for QUEUE_TIMEOUT.                                 *)
QueueTimeout(m) ==
  /\ up
  /\ send[m] = "spawned"
  /\ m \notin TooLarge
  /\ ~Room(m)
  /\ send' = [send EXCEPT ![m] = "failed"]
  /\ UNCHANGED <<up, network, broker, faults>>

------------------------------------------------------------------------------
(* The client library.                                                     *)

(* Faulty variant: acks = 0, the request counts as its own answer.         *)
TransmitUnacknowledged(m) ==
  /\ up
  /\ reachable
  /\ send[m] = "queued"
  /\ send' = [send EXCEPT ![m] = "transmitted"]
  /\ requests' = requests \cup {m}
  /\ answers' = answers \cup {m}
  /\ UNCHANGED <<up, refusals, broker, faults>>

(* A produce request goes out.                                             *)
Transmit(m) ==
  /\ up
  /\ reachable
  /\ send[m] = "queued"
  /\ send' = [send EXCEPT ![m] = "transmitted"]
  /\ requests' = requests \cup {m}
  /\ UNCHANGED <<up, answers, refusals, broker, faults>>

(* The answer arrives, and with it the delivery report; the task counts    *)
(* the message as sent.  An answer that comes too late is ignored.         *)
Report(m) ==
  /\ up
  /\ m \in answers
  /\ answers' = answers \ {m}
  /\ send' = [send EXCEPT ![m] = IF @ = "transmitted" THEN "sent" ELSE @]
  /\ UNCHANGED <<up, requests, refusals, broker, faults>>

(* An answer with an error arrives.  The library tries again when the      *)
(* error is one that may pass, and reports it to the task otherwise.       *)
ReportError(m) ==
  /\ up
  /\ m \in refusals
  /\ refusals' = refusals \ {m}
  /\ \E next \in {"queued", "failed"} :
       send' = [send EXCEPT ![m] = IF @ = "transmitted" THEN next ELSE @]
  /\ UNCHANGED <<up, requests, answers, broker, faults>>

(* No answer comes, because the request or the answer was lost or because  *)
(* it is late: the message is sent again, whatever became of the request.  *)
Retry(m) ==
  /\ up
  /\ send[m] = "transmitted"
  /\ m \in requests \cup answers \cup refusals => Fault
  /\ m \notin requests \cup answers \cup refusals => UNCHANGED faults
  /\ send' = [send EXCEPT ![m] = "queued"]
  /\ UNCHANGED <<up, network, broker>>

(* Faulty variant: message.timeout.ms = 0, never.                          *)
NoMessageTimeout(m) == FALSE

(* message.timeout.ms: a message the leader did not acknowledge is         *)
(* reported as failed, although the leader may have it or get it yet.      *)
(* The leader was out of reach, or the attempts were lost or too slow.     *)
MessageTimeout(m) ==
  /\ up
  /\ send[m] \in {"queued", "transmitted"}
  /\ (~reachable /\ UNCHANGED faults) \/ Fault
  /\ send' = [send EXCEPT ![m] = "failed"]
  /\ UNCHANGED <<up, network, broker>>

(* The end of the process drops the tasks and the queue.                   *)
End ==
  /\ up
  /\ up' = FALSE
  /\ send' = [m \in Messages |->
       IF send[m] \in {"spawned", "queued", "transmitted"} THEN "dropped" ELSE send[m]]
  /\ UNCHANGED <<network, broker, faults>>

------------------------------------------------------------------------------
(* The broker.                                                             *)

(* The leader appends and answers (acks = 1).                              *)
AppendToLog(m) ==
  /\ reachable
  /\ m \in requests
  /\ requests' = requests \ {m}
  /\ log' = Append(log, m)
  /\ appended' = appended \cup {m}
  /\ answers' = answers \cup {m}
  /\ UNCHANGED <<up, send, refusals, reachable, replicated, faults>>

(* It answers with an error instead.                                       *)
RefuseRequest(m) ==
  /\ reachable
  /\ m \in requests
  /\ Fault
  /\ requests' = requests \ {m}
  /\ refusals' = refusals \cup {m}
  /\ UNCHANGED <<up, send, answers, broker>>

LoseRequest(m) ==
  /\ m \in requests
  /\ Fault
  /\ requests' = requests \ {m}
  /\ UNCHANGED <<up, send, answers, refusals, broker>>

LoseAnswer(m) ==
  /\ m \in answers \cup refusals
  /\ Fault
  /\ answers' = answers \ {m}
  /\ refusals' = refusals \ {m}
  /\ UNCHANGED <<up, send, requests, broker>>

Replicate ==
  /\ replicated < Len(log)
  /\ replicated' = replicated + 1
  /\ UNCHANGED <<up, send, network, reachable, log, appended, faults>>

(* Another broker leads: what only the old leader had is cut off.          *)
LeaderFails ==
  /\ Fault
  /\ log' = SubSeq(log, 1, replicated)
  /\ UNCHANGED <<up, send, network, reachable, replicated, appended>>

Outage ==
  /\ reachable
  /\ Fault
  /\ reachable' = FALSE
  /\ UNCHANGED <<up, send, network, log, replicated, appended>>

Recover ==
  /\ ~reachable
  /\ reachable' = TRUE
  /\ UNCHANGED <<up, send, network, log, replicated, appended, faults>>

------------------------------------------------------------------------------
Init ==
  /\ up = TRUE
  /\ send = [m \in Messages |-> "idle"]
  /\ requests = {}
  /\ answers = {}
  /\ refusals = {}
  /\ reachable = TRUE
  /\ log = <<>>
  /\ replicated = 0
  /\ appended = {}
  /\ faults = 0

TaskStep(m) == Enqueue(m) \/ Refuse(m) \/ QueueTimeout(m)

LibraryStep(m) ==
  Transmit(m) \/ Report(m) \/ ReportError(m) \/ Retry(m) \/ MessageTimeout(m)

BrokerStep ==
  \/ \E m \in Messages :
       AppendToLog(m) \/ RefuseRequest(m) \/ LoseRequest(m) \/ LoseAnswer(m)
  \/ Replicate
  \/ LeaderFails
  \/ Outage
  \/ Recover

Next ==
  \/ \E m \in Messages : Send(m) \/ TaskStep(m) \/ LibraryStep(m)
  \/ End
  \/ BrokerStep

Spec == Init /\ [][Next]_vars

(* Fairness.  The task is polled again every 100 ms while the queue is     *)
(* full, and the client library transmits, handles an answer, tries again  *)
(* or gives up in threads of its own.  A leader that can be reached        *)
(* appends and answers.  Nothing says that an outage ends, that the leader *)
(* stays, or that the followers keep up.                                   *)
Fairness ==
  \A m \in Messages :
    WF_vars(TaskStep(m)) /\ WF_vars(LibraryStep(m)) /\ WF_vars(AppendToLog(m))

FairSpec == Spec /\ Fairness

------------------------------------------------------------------------------
(* Properties.                                                             *)

(* Types, and what the followers have is a part of the leader's log.       *)
TypeOK ==
  /\ up \in BOOLEAN
  /\ send \in [Messages ->
       {"idle", "spawned", "queued", "transmitted", "sent", "failed", "dropped"}]
  /\ requests \subseteq Messages
  /\ answers \subseteq appended
  /\ refusals \subseteq Messages
  /\ reachable \in BOOLEAN
  /\ log \in Seq(appended)
  /\ replicated \in 0..Len(log)
  /\ appended \subseteq Messages
  /\ faults \in 0..MaxFaults

(* A message counted as sent has reached a leader, whichever of its        *)
(* requests and answers were lost or overtaken (producer.rs:67, 140-157).  *)
(* Not more than that: the leader may fail before the followers have it.   *)
SentReachedLeader == \A m \in Messages : send[m] = "sent" => m \in appended

(* The messages that had a place in the queue, or may have had one when    *)
(* the process ended.                                                      *)
Kept == {m \in Messages : send[m] \in {"queued", "transmitted", "sent", "dropped"}}

(* While nothing goes wrong, a message is given up only when it is too     *)
(* large, or when the queue could not hold it beside messages that were    *)
(* not given up (producer.rs:59, 140-151).  The dispatch of a job can      *)
(* cause both: a line may be larger than the library takes, and a send is  *)
(* spawned per line without waiting for any (context.rs:19,                *)
(* job_controller.rs:98).                                                  *)
FailureNeedsCause ==
  faults = 0 =>
    \A m \in Messages :
      send[m] = "failed" => m \in TooLarge \/ ~Fits(Kept \cup {m})

(* What consumers see, and what they may still come to see.                *)
Visible == {log[i] : i \in 1..replicated}
OnTheWay ==
  {m \in Messages : send[m] \in {"spawned", "queued", "transmitted"}}
  \cup requests \cup {log[i] : i \in (replicated + 1)..Len(log)}

(* The state of the abstract outbox.                                       *)
Fate == [m \in Messages |->
  CASE m \in Visible -> "published"
    [] m \notin Visible /\ m \in OnTheWay -> "pending"
    [] m \notin Visible \cup OnTheWay ->
         IF send[m] = "idle" THEN "new" ELSE "lost"]

Producer == INSTANCE Outbox WITH fate <- Fate

(* A message is published for good or lost for good, through retries,      *)
(* timeouts, failing leaders and the end of the process: what JobSystem    *)
(* takes its sends to do (producer.rs:102-164, 166-189).                   *)
ImplementsOutbox == Producer!Spec

(* No send hangs, even when the broker is never reached again: the task    *)
(* ends with a report, or with the process (producer.rs:140-157).          *)
EverySendEnds ==
  \A m \in Messages :
    send[m] = "spawned" ~> send[m] \in {"sent", "failed", "dropped"}
===============================================================================
