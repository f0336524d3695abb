---------------------------- MODULE ConsumerGroup ----------------------------
(***************************************************************************)
(* The consumer side of services/common/src/messaging/consumer.rs: the     *)
(* workers of all the instances of one service, which share a group id and *)
(* read one topic.                                                         *)
(*                                                                         *)
(* A worker (worker_consumer) loops: it receives a message, parses it,     *)
(* hands it to the handler, and stores the message's offset in memory.     *)
(* The Kafka client commits the stored offsets in the background           *)
(* (enable.auto.commit = true, enable.auto.offset.store = false), and the  *)
(* next owner of a partition starts from the committed offset.  Workers    *)
(* crash, are stopped, and lose partitions with or without noticing.       *)
(*                                                                         *)
(* The broker and the client library are external: they are modelled from  *)
(* the way consumer.rs configures and calls them.                          *)
(***************************************************************************)
EXTENDS Integers, Sequences

CONSTANTS
  Consumers,       \* the worker_consumer tasks, over all the instances
  Partitions,      \* the partitions of the topic
  MaxLog,          \* bound: messages published per partition
  MaxDisruptions,  \* bound: revocations, evictions, crashes and stops
  NoOne,           \* the owner of a partition nobody is assigned
  NoMessage        \* what a worker that waits in recv has in hand

ASSUME ConsumerGroupAssumption ==
  /\ NoOne \notin Consumers
  /\ MaxLog \in Nat
  /\ MaxDisruptions \in Nat
  /\ NoMessage \notin Partitions \X Nat

VARIABLES
  \* broker
  log,          \* log[p]: the kinds of the payloads published, in offset order
  owner,        \* owner[p]: the member the group coordinator gives p to
  committed,    \* committed[p]: the group's committed offset (0: none yet)
  \* worker
  pc,           \* pc[c]: where worker_consumer stands
  inHand,       \* inHand[c]: <<partition, offset>> of the message in work
  assigned,     \* assigned[c]: the partitions c believes it owns
  position,     \* position[c][p]: the next offset recv returns
  stored,       \* stored[c][p]: the offset a commit would send
  \* history
  attempted,    \* messages whose handler call has returned, Ok or Err
  rejected,     \* messages whose payload could not be parsed
  disruptions   \* how many revocations, evictions, crashes and stops so far

brokerVars == <<log, owner, committed>>
workerVars == <<pc, inHand, assigned, position, stored>>
historyVars == <<attempted, rejected, disruptions>>
vars == <<brokerVars, workerVars, historyVars>>

(* Payloads that T::try_from accepts, and those it (or payload_view) does  *)
(* not.                                                                    *)
Payload == {"valid", "poison"}

Messages == Partitions \X Nat

PayloadOf(m) == log[m[1]][m[2] + 1]

Finished == attempted \cup rejected

Disrupt ==
  /\ disruptions < MaxDisruptions
  /\ disruptions' = disruptions + 1

------------------------------------------------------------------------------
(* Configuration of the Kafka client (create_config).                      *)

(* Faulty variant: the client library stores the offset of a message as    *)
(* soon as recv returns it.                                                *)
OffsetStoredByLibrary == TRUE

(* enable.auto.offset.store                                                *)
EnableAutoOffsetStore == FALSE

(* Faulty variant: the committed offset is ignored.                        *)
StartFromBeginning(p) == 0

(* Where a new owner of p starts: the committed offset, or the start of    *)
(* the log when there is none (auto.offset.reset = earliest).  Offset 0    *)
(* stands for both: the brokers keep messages for 168 hours                *)
(* (log.retention.hours), and a group that stays away for longer, whose    *)
(* messages would be gone, is left out.                                    *)
StartOffset(p) == committed[p]

(* Faulty variant: every consumer has a group of its own, so a partition   *)
(* is given to a consumer whoever else reads it.                           *)
AlwaysFree(p) == TRUE

(* Consumers share group_id, so a partition has at most one owner.         *)
Free(p) == owner[p] = NoOne

------------------------------------------------------------------------------
(* Broker and client library.                                              *)

Publish(p, kind) ==
  /\ Len(log[p]) < MaxLog
  /\ log' = [log EXCEPT ![p] = Append(@, kind)]
  /\ UNCHANGED <<owner, committed, workerVars, historyVars>>

(* A rebalance gives p to c.  It is served while c polls, so c has nothing *)
(* in hand.                                                                *)
Assign(c, p) ==
  /\ pc[c] = "recv"
  /\ p \notin assigned[c]
  /\ Free(p)
  /\ owner' = [owner EXCEPT ![p] = c]
  /\ assigned' = [assigned EXCEPT ![c] = @ \cup {p}]
  /\ position' = [position EXCEPT ![c][p] = StartOffset(p)]
  /\ stored' = [stored EXCEPT ![c][p] = StartOffset(p)]
  /\ UNCHANGED <<log, committed, pc, inHand, historyVars>>

(* The background commit.  The coordinator refuses it when c is no longer  *)
(* the owner, which changes nothing.                                       *)
AutoCommit(c, p) ==
  /\ pc[c] # "stopped"
  /\ p \in assigned[c]
  /\ owner[p] = c
  /\ stored[c][p] # committed[p]
  /\ committed' = [committed EXCEPT ![p] = stored[c][p]]
  /\ UNCHANGED <<log, owner, workerVars, historyVars>>

(* What the broker keeps when c gives back the partitions S: the stored    *)
(* offsets are sent on the way out, and that commit may fail.              *)
CommitOnLeave(c, S) ==
  \/ UNCHANGED committed
  \/ committed' = [p \in Partitions |-> IF p \in S THEN stored[c][p] ELSE committed[p]]

(* A rebalance takes p away while c polls.                                 *)
Revoke(c, p) ==
  /\ Disrupt
  /\ pc[c] = "recv"
  /\ p \in assigned[c]
  /\ owner[p] = c
  /\ CommitOnLeave(c, {p})
  /\ owner' = [owner EXCEPT ![p] = NoOne]
  /\ assigned' = [assigned EXCEPT ![c] = @ \ {p}]
  /\ UNCHANGED <<log, pc, inHand, position, stored, attempted, rejected>>

(* The coordinator drops c (session timeout, or a handler that outlasts    *)
(* max.poll.interval.ms) and c goes on working, not knowing.               *)
Evict(c, p) ==
  /\ Disrupt
  /\ pc[c] # "stopped"
  /\ owner[p] = c
  /\ owner' = [owner EXCEPT ![p] = NoOne]
  /\ UNCHANGED <<log, committed, workerVars, attempted, rejected>>

(* c learns that p is no longer its own.  Allowed with a message in hand   *)
(* too, so that the failure of store_offset_from_message is reachable.     *)
LoseAssignment(c, p) ==
  /\ pc[c] # "stopped"
  /\ p \in assigned[c]
  /\ owner[p] # c
  /\ assigned' = [assigned EXCEPT ![c] = @ \ {p}]
  /\ UNCHANGED <<brokerVars, pc, inHand, position, stored, historyVars>>

------------------------------------------------------------------------------
(* The worker loop (worker_consumer).                                      *)

(* recv returns the next message of one of the partitions c reads.  A      *)
(* consumer that was evicted still has messages it fetched before.         *)
Recv(c, p) ==
  LET offset == position[c][p] IN
  /\ pc[c] = "recv"
  /\ p \in assigned[c]
  /\ offset < Len(log[p])
  /\ inHand' = [inHand EXCEPT ![c] = <<p, offset>>]
  /\ pc' = [pc EXCEPT ![c] = "handle"]
  /\ position' = [position EXCEPT ![c][p] = offset + 1]
  /\ stored' = IF EnableAutoOffsetStore
                 THEN [stored EXCEPT ![c][p] = offset + 1]
                 ELSE stored
  /\ UNCHANGED <<brokerVars, assigned, historyVars>>

(* Faulty variant: the early return leaves the worker, not the iteration.  *)
WorkerEnds == "stopped"

(* The early returns of a message that cannot be parsed leave the inner    *)
(* async block, so the loop goes on.                                       *)
AfterReject == "recv"

(* No payload, no UTF-8, or T::try_from fails: the iteration ends without  *)
(* storing the offset.                                                     *)
Reject(c) ==
  /\ pc[c] = "handle"
  /\ PayloadOf(inHand[c]) = "poison"
  /\ rejected' = rejected \cup {inHand[c]}
  /\ pc' = [pc EXCEPT ![c] = AfterReject]
  /\ inHand' = [inHand EXCEPT ![c] = NoMessage]
  /\ UNCHANGED <<brokerVars, assigned, position, stored, attempted, disruptions>>

(* handler.handle(payload).await returns.  Ok and Err lead to the same     *)
(* next statement: an Err is only logged and counted.                      *)
Handle(c) ==
  /\ pc[c] = "handle"
  /\ PayloadOf(inHand[c]) = "valid"
  /\ attempted' = attempted \cup {inHand[c]}
  /\ pc' = [pc EXCEPT ![c] = "store"]
  /\ UNCHANGED <<brokerVars, inHand, assigned, position, stored, rejected, disruptions>>

(* Faulty variant: the offset of the message, not the one after it.        *)
SameOffset(m) == m[2]

(* The offset that store_offset_from_message records for m.                *)
OffsetAfter(m) == m[2] + 1

(* Faulty variant: the message stays in hand.                              *)
Keep(m) == m

(* The message is dropped at the end of the iteration.                     *)
Drop(m) == NoMessage

(* consumer.store_offset_from_message(&message); it fails, and the failure *)
(* is logged, when the partition is no longer assigned.                    *)
StoreOffset(c) ==
  LET p == inHand[c][1] IN
  /\ pc[c] = "store"
  /\ stored' = IF p \in assigned[c]
                 THEN [stored EXCEPT ![c][p] = OffsetAfter(inHand[c])]
                 ELSE stored
  /\ pc' = [pc EXCEPT ![c] = "recv"]
  /\ inHand' = [inHand EXCEPT ![c] = Drop(@)]
  /\ UNCHANGED <<brokerVars, assigned, position, historyVars>>

(* shutdown.cancelled() wins the select!: the worker returns, never with a *)
(* message in hand.  The client library closes the consumer: it commits    *)
(* what is stored and leaves the group.                                    *)
Stop(c) ==
  /\ Disrupt
  /\ pc[c] = "recv"
  /\ CommitOnLeave(c, {p \in assigned[c] : owner[p] = c})
  /\ pc' = [pc EXCEPT ![c] = "stopped"]
  /\ owner' = [p \in Partitions |-> IF owner[p] = c THEN NoOne ELSE owner[p]]
  /\ assigned' = [assigned EXCEPT ![c] = {}]
  /\ UNCHANGED <<log, inHand, position, stored, attempted, rejected>>

(* The process dies at any statement (panic = "abort", kill) and is        *)
(* restarted: whatever was stored and not committed is gone, and the       *)
(* coordinator takes the partitions back.                                  *)
Crash(c) ==
  /\ Disrupt
  /\ pc[c] # "stopped"
  /\ pc' = [pc EXCEPT ![c] = "recv"]
  /\ inHand' = [inHand EXCEPT ![c] = NoMessage]
  /\ owner' = [p \in Partitions |-> IF owner[p] = c THEN NoOne ELSE owner[p]]
  /\ assigned' = [assigned EXCEPT ![c] = {}]
  /\ UNCHANGED <<log, committed, position, stored, attempted, rejected>>

------------------------------------------------------------------------------
Init ==
  /\ log = [p \in Partitions |-> <<>>]
  /\ owner = [p \in Partitions |-> NoOne]
  /\ committed = [p \in Partitions |-> 0]
  /\ pc = [c \in Consumers |-> "recv"]
  /\ inHand = [c \in Consumers |-> NoMessage]
  /\ assigned = [c \in Consumers |-> {}]
  /\ position = [c \in Consumers |-> [p \in Partitions |-> 0]]
  /\ stored = [c \in Consumers |-> [p \in Partitions |-> 0]]
  /\ attempted = {}
  /\ rejected = {}
  /\ disruptions = 0

Work(c) ==
  \/ \E p \in Partitions : Recv(c, p)
  \/ Reject(c)
  \/ Handle(c)
  \/ StoreOffset(c)

Group(c, p) ==
  \/ Assign(c, p)
  \/ AutoCommit(c, p)
  \/ Revoke(c, p)
  \/ Evict(c, p)
  \/ LoseAssignment(c, p)

Next ==
  \/ \E p \in Partitions, kind \in Payload : Publish(p, kind)
  \/ \E c \in Consumers, p \in Partitions : Group(c, p)
  \/ \E c \in Consumers : Work(c) \/ Stop(c) \/ Crash(c)

Spec == Init /\ [][Next]_vars

(* Fairness.  A worker that can take its next step takes it: tokio runs    *)
(* the task, recv returns when the fetch queue is not empty, handlers      *)
(* terminate.  The coordinator finds an owner for a partition that stays   *)
(* free while some member polls, a member finds out about an eviction at   *)
(* its next poll, and the commit timer fires.  Nothing is fair about       *)
(* publishing, revocations, evictions, stops and crashes.                  *)
Fairness ==
  /\ \A c \in Consumers : WF_vars(Work(c))
  /\ \A p \in Partitions : WF_vars(\E c \in Consumers : Assign(c, p))
  /\ \A c \in Consumers, p \in Partitions :
        WF_vars(LoseAssignment(c, p)) /\ WF_vars(AutoCommit(c, p))

FairSpec == Spec /\ Fairness

------------------------------------------------------------------------------
(* Properties.                                                             *)

(* Types, and the shape of a worker: it has a message in hand exactly      *)
(* while it handles one or stores its offset.                              *)
TypeOK ==
  /\ log \in [Partitions -> Seq(Payload)]
  /\ owner \in [Partitions -> Consumers \cup {NoOne}]
  /\ committed \in [Partitions -> Nat]
  /\ pc \in [Consumers -> {"recv", "handle", "store", "stopped"}]
  /\ inHand \in [Consumers -> Messages \cup {NoMessage}]
  /\ assigned \in [Consumers -> SUBSET Partitions]
  /\ position \in [Consumers -> [Partitions -> Nat]]
  /\ stored \in [Consumers -> [Partitions -> Nat]]
  /\ attempted \subseteq Messages
  /\ rejected \subseteq Messages
  /\ disruptions \in 0..MaxDisruptions
  /\ \A c \in Consumers : pc[c] \in {"handle", "store"} <=> inHand[c] # NoMessage

(* At-least-once: no message below the committed offset was skipped.  Each *)
(* one went through the handler or was found unparsable, whatever crashes, *)
(* evictions and rebalances came between recv, the handler, the store and  *)
(* the commit (consumer.rs:195-280).                                       *)
NothingSkipped ==
  \A p \in Partitions : \A k \in 0..(committed[p] - 1) : <<p, k>> \in Finished

(* The message in the hand of c is a published one, the last that c        *)
(* received of its partition and not stored yet, and a worker about to     *)
(* store its offset has called the handler.                                *)
HandInStep(c) ==
  LET m == inHand[c] IN
  /\ m # NoMessage => m[2] < Len(log[m[1]])
  /\ m # NoMessage /\ m[1] \in assigned[c] =>
       position[c][m[1]] = m[2] + 1 /\ stored[c][m[1]] <= m[2]
  /\ pc[c] = "store" => m \in attempted

(* Where c stands in a partition p it reads: it has finished with all      *)
(* below its position but for the message in hand, and below its stored    *)
(* offset without exception; if the coordinator knows c as the owner, c    *)
(* has stored no less than what is committed.                              *)
ReaderInStep(c, p) ==
  /\ stored[c][p] <= position[c][p]
  /\ position[c][p] <= Len(log[p])
  /\ \A k \in 0..(position[c][p] - 1) : <<p, k>> \in Finished \/ inHand[c] = <<p, k>>
  /\ \A k \in 0..(stored[c][p] - 1) : <<p, k>> \in Finished
  /\ owner[p] = c => committed[p] <= stored[c][p]

(* How the three cursors of a partition follow each other: committed at    *)
(* the broker, stored in the client, position of the next recv.  An        *)
(* evicted consumer that goes on working keeps all of it except the order  *)
(* between stored and committed, which is why its commits must be refused; *)
(* whoever the coordinator takes for the owner knows it.  This is the      *)
(* inductive invariant behind NothingSkipped, CommittedNeverRegresses and  *)
(* ImplementsDelivery (consumer.rs:195-280).                               *)
CursorsInStep ==
  /\ \A p \in Partitions : Len(log[p]) <= MaxLog /\ committed[p] <= Len(log[p])
  /\ \A m \in Finished : m[2] < Len(log[m[1]])
  /\ NothingSkipped
  /\ \A p \in Partitions : owner[p] # NoOne => p \in assigned[owner[p]]
  /\ \A c \in Consumers :
       /\ pc[c] = "stopped" => assigned[c] = {}
       /\ HandInStep(c)
       /\ \A p \in assigned[c] : ReaderInStep(c, p)

(* A message goes to a worker again only after a disruption: as long as    *)
(* nobody crashes, stops or is rebalanced, the group reads each message    *)
(* once (consumer.rs:116-121, subscribe with a shared group id).           *)
RedeliveryNeedsDisruption ==
  \A c \in Consumers :
    pc[c] = "handle" /\ inHand[c] \in Finished => disruptions > 0

(* The group's committed offset never moves back, although a consumer that *)
(* lost its partition goes on storing older offsets.                       *)
CommittedNeverRegresses ==
  [][\A p \in Partitions : committed'[p] >= committed[p]]_vars

SomeoneStays == <>[](\E c \in Consumers : pc[c] # "stopped")

(* As long as the group keeps a worker, every published message is         *)
(* eventually handled or rejected: neither a message that cannot be parsed *)
(* (consumer.rs:225-253) nor a crash holds up the ones behind it.          *)
EveryMessageFinished ==
  SomeoneStays =>
    \A p \in Partitions, k \in 0..(MaxLog - 1) :
      k < Len(log[p]) ~> <<p, k>> \in Finished

(* An unparsable message is never stored, so it is committed only on the   *)
(* back of a later one: once the last message of a full log is valid, the  *)
(* group's offset reaches the end of the log, whatever precedes it.        *)
ValidTailCommitted ==
  SomeoneStays =>
    \A p \in Partitions :
      (Len(log[p]) = MaxLog /\ log[p][MaxLog] = "valid") ~> committed[p] = MaxLog

(* The state of the abstract queue.  An owner holds what it received since *)
(* it got the partition and has finished with, as far as that is not       *)
(* committed; what a consumer that lost a partition has, it does not hold. *)
Offsets == Partitions \X (0..(MaxLog - 1))
Sent == {m \in Offsets : m[2] < Len(log[m[1]])}
Settled == {m \in Offsets : m[2] < committed[m[1]]}
Held == [c \in Consumers |->
  {m \in Offsets :
     /\ owner[m[1]] = c
     /\ committed[m[1]] <= m[2] /\ m[2] < position[c][m[1]]
     /\ pc[c] = "handle" => inHand[c] # m}]

Delivery == INSTANCE DeliveryQueue WITH
  Messages <- Offsets, Members <- Consumers, sent <- Sent, held <- Held,
  settled <- Settled, seen <- Finished, disturbed <- disruptions > 0

(* The group implements the topic JobSystem is built on: offsets are       *)
(* committed only after a worker has finished with their messages, and for *)
(* good; no two workers hold a message; and only a disruption lets go of a *)
(* handled message, or has it handled by a worker that lost it             *)
(* (consumer.rs:86-92, the configuration, with 195-280, the loop).         *)
ImplementsDelivery == Delivery!Spec
==============================================================================
