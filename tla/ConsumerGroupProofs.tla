------------------------- MODULE ConsumerGroupProofs -------------------------
(***************************************************************************)
(* What the consumer group guarantees for any number of workers,           *)
(* partitions, messages and disruptions: its types, that its three cursors *)
(* stay in step, hence that no message is skipped and that the committed   *)
(* offset never moves back, and that it implements DeliveryQueue.          *)
(***************************************************************************)
EXTENDS ConsumerGroup, SequenceTheorems, TLAPS

USE ConsumerGroupAssumption DEF ConsumerGroupAssumption

(* The initial state has the right types.                                  *)
LEMMA InitType == Init => TypeOK
  BY DEF Init, TypeOK, Messages, Payload

(* A publication appends a payload to one log.                             *)
LEMMA PublishType ==
  ASSUME TypeOK, NEW p \in Partitions, NEW kind \in Payload, Publish(p, kind)
  PROVE  TypeOK'
  BY DEF TypeOK, Publish, workerVars, historyVars

(* A commit on the way out leaves an offset for every partition.           *)
LEMMA CommitOnLeaveType ==
  ASSUME TypeOK, NEW c \in Consumers, NEW S, CommitOnLeave(c, S)
  PROVE  committed' \in [Partitions -> Nat]
<1>1. committed \in [Partitions -> Nat] /\ \A p \in Partitions : stored[c][p] \in Nat
  BY DEF TypeOK
<1>2. QED
  BY <1>1 DEF CommitOnLeave

(* What the coordinator and the client library do keeps the types.         *)
LEMMA GroupType ==
  ASSUME TypeOK, NEW c \in Consumers, NEW p \in Partitions, Group(c, p)
  PROVE  TypeOK'
<1>1. CASE Assign(c, p)
  BY <1>1 DEF TypeOK, Assign, StartOffset, Free, historyVars
<1>2. CASE AutoCommit(c, p)
  BY <1>2 DEF TypeOK, AutoCommit, workerVars, historyVars
<1>3. CASE Revoke(c, p)
  <2>1. committed' \in [Partitions -> Nat]
    BY <1>3, CommitOnLeaveType DEF Revoke
  <2>2. disruptions' \in 0..MaxDisruptions
    BY <1>3 DEF TypeOK, Revoke, Disrupt
  <2>3. QED
    BY <1>3, <2>1, <2>2 DEF TypeOK, Revoke
<1>4. CASE Evict(c, p)
  BY <1>4 DEF TypeOK, Evict, Disrupt, workerVars
<1>5. CASE LoseAssignment(c, p)
  BY <1>5 DEF TypeOK, LoseAssignment, brokerVars, historyVars
<1>6. QED
  BY <1>1, <1>2, <1>3, <1>4, <1>5 DEF Group

(* The worker loop keeps the types.                                        *)
LEMMA WorkType ==
  ASSUME TypeOK, NEW c \in Consumers, Work(c)
  PROVE  TypeOK'
<1>1. ASSUME NEW p \in Partitions, Recv(c, p) PROVE TypeOK'
  BY <1>1 DEF TypeOK, Recv, Messages, EnableAutoOffsetStore, brokerVars, historyVars
<1>2. CASE Reject(c)
  BY <1>2 DEF TypeOK, Reject, AfterReject, brokerVars
<1>3. CASE Handle(c)
  BY <1>3 DEF TypeOK, Handle, brokerVars
<1>4. CASE StoreOffset(c)
  BY <1>4 DEF TypeOK, StoreOffset, Messages, OffsetAfter, Drop, brokerVars, historyVars
<1>5. QED
  BY <1>1, <1>2, <1>3, <1>4 DEF Work

(* Stopping and crashing keep the types.                                   *)
LEMMA EndType ==
  ASSUME TypeOK, NEW c \in Consumers, Stop(c) \/ Crash(c)
  PROVE  TypeOK'
<1>1. CASE Stop(c)
  <2>1. committed' \in [Partitions -> Nat]
    BY <1>1, CommitOnLeaveType DEF Stop
  <2>2. disruptions' \in 0..MaxDisruptions
    BY <1>1 DEF TypeOK, Stop, Disrupt
  <2>3. QED
    BY <1>1, <2>1, <2>2 DEF TypeOK, Stop
<1>2. CASE Crash(c)
  BY <1>2 DEF TypeOK, Crash, Disrupt
<1>3. QED
  BY <1>1, <1>2

(* Every step keeps the types.                                             *)
LEMMA NextType == TypeOK /\ [Next]_vars => TypeOK'
<1>1. CASE UNCHANGED vars
  BY <1>1 DEF TypeOK, vars, brokerVars, workerVars, historyVars
<1>2. QED
  BY <1>1, PublishType, GroupType, WorkType, EndType DEF Next

(* The types hold in every reachable state, for any numbers of workers,    *)
(* partitions, messages and disruptions (consumer.rs:195-280).             *)
THEOREM TypeCorrect == Spec => []TypeOK
  BY InitType, NextType, PTL DEF Spec

------------------------------------------------------------------------------
(* The cursors.  One lemma per action; each proves the conjuncts of        *)
(* CursorsInStep, the groups the action leaves alone first.                *)

(* Nothing is published, finished or assigned at the start.                *)
LEMMA InitCursors == Init => CursorsInStep
  BY DEF Init, CursorsInStep, NothingSkipped, HandInStep, ReaderInStep, Finished

(* A longer log keeps every offset below its end.                          *)
LEMMA PublishCursors ==
  ASSUME TypeOK, CursorsInStep, NEW p \in Partitions, NEW kind \in Payload,
         Publish(p, kind)
  PROVE  CursorsInStep'
<1>1. /\ Len(log'[p]) = Len(log[p]) + 1
      /\ Len(log[p]) \in Nat
      /\ \A q \in Partitions \ {p} : log'[q] = log[q]
  BY DEF TypeOK, Publish
<1>2. ASSUME NEW q \in Partitions
      PROVE  Len(log[q]) \in Nat /\ Len(log[q]) <= Len(log'[q])
  <2>1. log[q] \in Seq(Payload)
    BY DEF TypeOK
  <2>2. CASE q = p
    BY <1>1, <2>2
  <2>3. CASE q # p
    BY <1>1, <2>1, <2>3, LenProperties
  <2>4. QED
    BY <2>2, <2>3
<1>3. \A q \in Partitions : Len(log'[q]) <= MaxLog /\ committed'[q] <= Len(log'[q])
  BY <1>1, <1>2 DEF TypeOK, CursorsInStep, Publish
<1>4. \A m \in Finished' : m[2] < Len(log'[m[1]])
  BY <1>1, <1>2 DEF TypeOK, CursorsInStep, Publish, Finished, historyVars, Messages
<1>5. ASSUME NEW c \in Consumers PROVE HandInStep(c)'
  BY <1>1, <1>2 DEF TypeOK, CursorsInStep, HandInStep, Publish, workerVars,
     historyVars, Messages
<1>6. ASSUME NEW c \in Consumers, NEW q \in assigned[c] PROVE ReaderInStep(c, q)'
  BY <1>1, <1>2 DEF TypeOK, CursorsInStep, ReaderInStep, Publish, workerVars,
     historyVars, Finished
<1>7. NothingSkipped'
  BY DEF CursorsInStep, NothingSkipped, Publish, historyVars, Finished
<1>8. QED
  BY <1>3, <1>4, <1>5, <1>6, <1>7 DEF CursorsInStep, Publish, workerVars

(* What c commits when it gives back partitions it owns: never less than   *)
(* before, and only messages that are finished with.                       *)
LEMMA LeaveCommit ==
  ASSUME TypeOK, CursorsInStep, NEW c \in Consumers,
         NEW S \in SUBSET {p \in assigned[c] : owner[p] = c}, CommitOnLeave(c, S),
         NEW q \in Partitions
  PROVE  /\ committed'[q] \in Nat
         /\ committed[q] <= committed'[q]
         /\ committed'[q] <= Len(log[q])
         /\ \A k \in 0..(committed'[q] - 1) : <<q, k>> \in Finished
         /\ q \notin S => committed'[q] = committed[q]
<1>1. committed[q] \in Nat /\ stored[c][q] \in Nat /\ position[c][q] \in Nat
      /\ Len(log[q]) \in Nat
  BY LenProperties DEF TypeOK
<1>2. committed[q] <= Len(log[q]) /\ \A k \in 0..(committed[q] - 1) : <<q, k>> \in Finished
  BY DEF CursorsInStep, NothingSkipped
<1>3. CASE UNCHANGED committed
  BY <1>1, <1>2, <1>3
<1>4. CASE q \notin S
  BY <1>1, <1>2, <1>4 DEF CommitOnLeave
<1>5. CASE q \in S /\ committed'[q] = stored[c][q]
  <2>1. ReaderInStep(c, q) /\ owner[q] = c
    BY <1>5 DEF CursorsInStep
  <2>2. QED
    BY <1>1, <1>5, <2>1 DEF ReaderInStep
<1>6. QED
  BY <1>3, <1>4, <1>5 DEF CommitOnLeave

(* A new reader starts from the committed offset.                          *)
LEMMA AssignCursors ==
  ASSUME TypeOK, CursorsInStep, NEW c \in Consumers, NEW p \in Partitions, Assign(c, p)
  PROVE  CursorsInStep'
<1>1. inHand[c] = NoMessage /\ committed[p] \in Nat
  BY DEF TypeOK, Assign
<1>2. ASSUME NEW d \in Consumers PROVE HandInStep(d)'
  BY <1>1 DEF TypeOK, CursorsInStep, HandInStep, Assign, historyVars, Messages
<1>3. ASSUME NEW d \in Consumers, NEW q \in assigned'[d] PROVE ReaderInStep(d, q)'
  <2>1. CASE d = c /\ q = p
    BY <1>1, <2>1 DEF TypeOK, CursorsInStep, NothingSkipped, ReaderInStep, Assign,
       StartOffset, historyVars, Finished
  <2>2. CASE d # c \/ q # p
    <3>1. q \in assigned[d] /\ q \in Partitions
      BY <2>2 DEF TypeOK, Assign
    <3>2. position'[d][q] = position[d][q] /\ stored'[d][q] = stored[d][q]
      BY <2>2, <3>1 DEF TypeOK, Assign
    <3>3. owner'[q] = d => owner[q] = d
      BY <2>2, <3>1 DEF TypeOK, Assign
    <3>4. QED
      BY <3>1, <3>2, <3>3 DEF CursorsInStep, ReaderInStep, Assign, historyVars, Finished
  <2>3. QED
    BY <2>1, <2>2
<1>4. NothingSkipped'
  BY DEF CursorsInStep, NothingSkipped, Assign, historyVars, Finished
<1>5. \A d \in Consumers : pc'[d] = "stopped" => assigned'[d] = {}
  BY DEF TypeOK, CursorsInStep, Assign
<1>6. ASSUME NEW q \in Partitions, owner'[q] # NoOne PROVE q \in assigned'[owner'[q]]
  <2>1. CASE q = p
    BY <2>1 DEF TypeOK, Assign
  <2>2. CASE q # p
    <3>1. owner'[q] = owner[q] /\ owner[q] \in Consumers
      BY <1>6, <2>2 DEF TypeOK, Assign
    <3>2. q \in assigned[owner[q]]
      BY <3>1 DEF CursorsInStep
    <3>3. QED
      BY <3>1, <3>2 DEF TypeOK, Assign
  <2>3. QED
    BY <2>1, <2>2
<1>7. QED
  BY <1>2, <1>3, <1>4, <1>5, <1>6 DEF CursorsInStep, Assign, historyVars, Finished

(* A commit brings the group to the owner's stored offset.                 *)
LEMMA AutoCommitCursors ==
  ASSUME TypeOK, CursorsInStep, NEW c \in Consumers, NEW p \in Partitions, AutoCommit(c, p)
  PROVE  CursorsInStep'
<1>1. ReaderInStep(c, p)
  BY DEF CursorsInStep, AutoCommit
<1>2. /\ stored[c][p] \in Nat /\ position[c][p] \in Nat /\ Len(log[p]) \in Nat
      /\ committed'[p] = stored[c][p]
      /\ \A q \in Partitions \ {p} : committed'[q] = committed[q]
  BY LenProperties DEF TypeOK, AutoCommit
<1>3. NothingSkipped'
  BY <1>1, <1>2 DEF CursorsInStep, NothingSkipped, ReaderInStep, AutoCommit, historyVars,
     Finished
<1>4. \A q \in Partitions : committed'[q] <= Len(log'[q])
  BY <1>1, <1>2 DEF CursorsInStep, ReaderInStep, AutoCommit
<1>5. ASSUME NEW d \in Consumers, NEW q \in assigned[d] PROVE ReaderInStep(d, q)'
  <2>1. ReaderInStep(d, q) /\ q \in Partitions
    BY DEF CursorsInStep, TypeOK
  <2>2. owner'[q] = d => committed'[q] <= stored'[d][q]
    BY <1>2, <2>1 DEF ReaderInStep, AutoCommit, workerVars
  <2>3. QED
    BY <2>1, <2>2 DEF ReaderInStep, AutoCommit, workerVars, historyVars, Finished
<1>6. ASSUME NEW d \in Consumers PROVE HandInStep(d)'
  BY DEF CursorsInStep, HandInStep, AutoCommit, workerVars, historyVars
<1>7. QED
  BY <1>3, <1>4, <1>5, <1>6 DEF CursorsInStep, AutoCommit, workerVars, historyVars, Finished

(* Leaving, being evicted and dying have a common shape: c may commit for  *)
(* partitions S it owns and then gives up, partitions change hands only to *)
(* nobody, assignments only shrink, by partitions that are not owned, and  *)
(* a worker keeps what it has in hand or drops it together with all its    *)
(* partitions.                                                             *)
LEMMA ShrinkCursors ==
  ASSUME TypeOK, CursorsInStep, NEW c \in Consumers,
         NEW S \in SUBSET {p \in assigned[c] : owner[p] = c}, CommitOnLeave(c, S),
         \A q \in Partitions :
           owner'[q] = NoOne \/ (owner'[q] = owner[q] /\ q \notin S),
         \A d \in Consumers :
           /\ assigned'[d] \subseteq assigned[d]
           /\ \A q \in assigned[d] \ assigned'[d] : owner'[q] # d
           /\ \/ inHand'[d] = inHand[d] /\ pc'[d] = pc[d]
              \/ inHand'[d] = NoMessage /\ pc'[d] # "store" /\ assigned'[d] = {},
         UNCHANGED <<log, position, stored, attempted, rejected>>
  PROVE  CursorsInStep'
<1>1. \A q \in Partitions : committed'[q] <= Len(log[q])
  BY LeaveCommit
<1>2. NothingSkipped'
  BY LeaveCommit DEF NothingSkipped, Finished
<1>3. ASSUME NEW d \in Consumers PROVE HandInStep(d)'
  BY DEF CursorsInStep, HandInStep
<1>4. ASSUME NEW d \in Consumers, NEW q \in assigned'[d] PROVE ReaderInStep(d, q)'
  <2>1. ReaderInStep(d, q) /\ q \in Partitions
    BY DEF CursorsInStep, TypeOK
  <2>2. inHand'[d] = inHand[d]
    OBVIOUS
  <2>3. owner'[q] = d => committed'[q] = committed[q] /\ owner[q] = d
    BY <2>1, LeaveCommit
  <2>4. QED
    BY <2>1, <2>2, <2>3 DEF ReaderInStep, Finished
<1>5. \A d \in Consumers : pc'[d] = "stopped" => assigned'[d] = {}
  BY DEF CursorsInStep
<1>6. ASSUME NEW q \in Partitions, owner'[q] # NoOne PROVE q \in assigned'[owner'[q]]
  <2>1. owner'[q] = owner[q] /\ owner[q] \in Consumers
    BY <1>6 DEF TypeOK
  <2>2. q \in assigned[owner[q]]
    BY <2>1 DEF CursorsInStep
  <2>3. QED
    BY <2>1, <2>2
<1>7. QED
  BY <1>1, <1>2, <1>3, <1>4, <1>5, <1>6 DEF CursorsInStep, Finished

(* What the coordinator and the client library do keeps the cursors.       *)
LEMMA GroupCursors ==
  ASSUME TypeOK, CursorsInStep, NEW c \in Consumers, NEW p \in Partitions, Group(c, p)
  PROVE  CursorsInStep'
<1>1. CASE Revoke(c, p)
  <2>1. {p} \in SUBSET {q \in assigned[c] : owner[q] = c} /\ CommitOnLeave(c, {p})
    BY <1>1 DEF Revoke
  <2>2. \A q \in Partitions : owner'[q] = NoOne \/ (owner'[q] = owner[q] /\ q \notin {p})
    BY <1>1 DEF TypeOK, Revoke
  <2>3. \A d \in Consumers :
          /\ assigned'[d] \subseteq assigned[d]
          /\ \A q \in assigned[d] \ assigned'[d] : owner'[q] # d
    BY <1>1 DEF TypeOK, Revoke
  <2>4. QED
    BY <1>1, <2>1, <2>2, <2>3, ShrinkCursors DEF Revoke
<1>2. CASE Evict(c, p)
  <2>1. CommitOnLeave(c, {})
    BY <1>2 DEF Evict, CommitOnLeave
  <2>2. \A q \in Partitions : owner'[q] = NoOne \/ owner'[q] = owner[q]
    BY <1>2 DEF TypeOK, Evict
  <2>3. QED
    BY <1>2, <2>1, <2>2, ShrinkCursors DEF Evict, workerVars
<1>3. CASE LoseAssignment(c, p)
  <2>1. CommitOnLeave(c, {}) /\ owner' = owner
    BY <1>3 DEF LoseAssignment, CommitOnLeave, brokerVars
  <2>2. \A d \in Consumers :
          /\ assigned'[d] \subseteq assigned[d]
          /\ \A q \in assigned[d] \ assigned'[d] : owner'[q] # d
    BY <1>3, <2>1 DEF TypeOK, LoseAssignment
  <2>3. QED
    BY <1>3, <2>1, <2>2, ShrinkCursors DEF LoseAssignment, brokerVars, historyVars
<1>4. QED
  BY <1>1, <1>2, <1>3, AssignCursors, AutoCommitCursors DEF Group

(* Stopping and crashing keep the cursors.                                 *)
LEMMA EndCursors ==
  ASSUME TypeOK, CursorsInStep, NEW c \in Consumers, Stop(c) \/ Crash(c)
  PROVE  CursorsInStep'
<1>1. CASE Stop(c)
  <2> DEFINE S == {q \in assigned[c] : owner[q] = c}
  <2>1. CommitOnLeave(c, S)
    BY <1>1 DEF Stop
  <2>2. \A q \in Partitions : owner'[q] = NoOne \/ (owner'[q] = owner[q] /\ q \notin S)
    BY <1>1 DEF TypeOK, Stop
  <2>3. ASSUME NEW d \in Consumers
        PROVE  /\ assigned'[d] \subseteq assigned[d]
               /\ \A q \in assigned[d] \ assigned'[d] : owner'[q] # d
               /\ \/ inHand'[d] = inHand[d] /\ pc'[d] = pc[d]
                  \/ inHand'[d] = NoMessage /\ pc'[d] # "store" /\ assigned'[d] = {}
    BY <1>1 DEF TypeOK, Stop
  <2>4. QED
    BY <1>1, <2>1, <2>2, <2>3, ShrinkCursors DEF Stop
<1>2. CASE Crash(c)
  <2>1. CommitOnLeave(c, {})
    BY <1>2 DEF Crash, CommitOnLeave
  <2>2. \A q \in Partitions : owner'[q] = NoOne \/ owner'[q] = owner[q]
    BY <1>2 DEF TypeOK, Crash
  <2>3. ASSUME NEW d \in Consumers
        PROVE  /\ assigned'[d] \subseteq assigned[d]
               /\ \A q \in assigned[d] \ assigned'[d] : owner'[q] # d
               /\ \/ inHand'[d] = inHand[d] /\ pc'[d] = pc[d]
                  \/ inHand'[d] = NoMessage /\ pc'[d] # "store" /\ assigned'[d] = {}
    BY <1>2 DEF TypeOK, Crash
  <2>4. QED
    BY <1>2, <2>1, <2>2, <2>3, ShrinkCursors DEF Crash
<1>3. QED
  BY <1>1, <1>2

(* recv moves the position past the message it puts in hand.               *)
LEMMA RecvCursors ==
  ASSUME TypeOK, CursorsInStep, NEW c \in Consumers, NEW p \in Partitions, Recv(c, p)
  PROVE  CursorsInStep'
<1> DEFINE offset == position[c][p]
<1>1. /\ offset \in Nat /\ Len(log[p]) \in Nat /\ offset < Len(log[p])
      /\ inHand[c] = NoMessage /\ inHand'[c] = <<p, offset>>
      /\ position'[c][p] = offset + 1 /\ stored' = stored
  <2>1. offset \in Nat /\ log[p] \in Seq(Payload)
    BY DEF TypeOK
  <2>2. Len(log[p]) \in Nat /\ offset < Len(log[p])
    BY <2>1, LenProperties DEF Recv
  <2>3. QED
    BY <2>1, <2>2 DEF TypeOK, Recv, EnableAutoOffsetStore
<1>2. /\ \A d \in Consumers \ {c} : inHand'[d] = inHand[d] /\ pc'[d] = pc[d]
      /\ \A d \in Consumers, q \in Partitions :
           d # c \/ q # p => position'[d][q] = position[d][q]
      /\ pc'[c] = "handle"
  BY DEF TypeOK, Recv
<1>3. ASSUME NEW d \in Consumers PROVE HandInStep(d)'
  <2>1. CASE d = c
    <3>1. stored[c][p] <= offset
      BY DEF CursorsInStep, ReaderInStep, Recv
    <3>2. QED
      BY <1>1, <1>2, <2>1, <3>1 DEF HandInStep, Recv, brokerVars
  <2>2. CASE d # c
    <3>1. inHand[d] # NoMessage => inHand[d][1] \in Partitions
      BY DEF TypeOK, Messages
    <3>2. inHand[d] # NoMessage => position'[d][inHand[d][1]] = position[d][inHand[d][1]]
      BY <1>2, <2>2, <3>1
    <3>3. QED
      BY <1>2, <2>2, <3>2 DEF CursorsInStep, HandInStep, Recv, brokerVars, historyVars
  <2>3. QED
    BY <2>1, <2>2
<1>4. ASSUME NEW d \in Consumers, NEW q \in assigned'[d] PROVE ReaderInStep(d, q)'
  <2>1. ReaderInStep(d, q) /\ q \in Partitions
    BY DEF CursorsInStep, TypeOK, Recv
  <2>2. CASE d = c /\ q = p
    <3>1. stored[c][p] \in Nat
      BY DEF TypeOK
    <3>2. QED
      BY <1>1, <2>1, <2>2, <3>1 DEF ReaderInStep, Recv, brokerVars, historyVars, Finished
  <2>3. CASE d = c /\ q # p
    BY <1>1, <1>2, <2>1, <2>3 DEF ReaderInStep, Recv, brokerVars, historyVars, Finished
  <2>4. CASE d # c
    BY <1>1, <1>2, <2>1, <2>4 DEF ReaderInStep, Recv, brokerVars, historyVars, Finished
  <2>5. QED
    BY <2>2, <2>3, <2>4
<1>5. NothingSkipped'
  BY DEF CursorsInStep, NothingSkipped, Recv, brokerVars, historyVars, Finished
<1>6. QED
  BY <1>2, <1>3, <1>4, <1>5 DEF CursorsInStep, Recv, brokerVars, historyVars, Finished

(* A rejected message leaves the hand and is finished with.                *)
LEMMA RejectCursors ==
  ASSUME TypeOK, CursorsInStep, NEW c \in Consumers, Reject(c)
  PROVE  CursorsInStep'
<1>1. /\ inHand[c] # NoMessage /\ inHand[c][2] < Len(log[inHand[c][1]])
      /\ Finished' = Finished \cup {inHand[c]}
      /\ inHand'[c] = NoMessage /\ pc'[c] = "recv"
      /\ \A d \in Consumers \ {c} : inHand'[d] = inHand[d] /\ pc'[d] = pc[d]
  BY DEF TypeOK, CursorsInStep, HandInStep, Reject, AfterReject, Finished
<1>2. ASSUME NEW d \in Consumers PROVE HandInStep(d)'
  BY <1>1 DEF CursorsInStep, HandInStep, Reject, brokerVars
<1>3. ASSUME NEW d \in Consumers, NEW q \in assigned'[d] PROVE ReaderInStep(d, q)'
  <2>1. ReaderInStep(d, q)
    BY DEF CursorsInStep, Reject
  <2>2. QED
    BY <1>1, <2>1 DEF ReaderInStep, Reject, brokerVars
<1>4. NothingSkipped'
  BY <1>1 DEF CursorsInStep, NothingSkipped, Reject, brokerVars
<1>5. QED
  BY <1>1, <1>2, <1>3, <1>4 DEF CursorsInStep, Reject, brokerVars

(* The handler's return finishes the message in hand.                      *)
LEMMA HandleCursors ==
  ASSUME TypeOK, CursorsInStep, NEW c \in Consumers, Handle(c)
  PROVE  CursorsInStep'
<1>1. /\ inHand[c] # NoMessage /\ inHand[c][2] < Len(log[inHand[c][1]])
      /\ Finished' = Finished \cup {inHand[c]}
      /\ inHand[c] \in attempted' /\ attempted \subseteq attempted' /\ pc'[c] = "store"
      /\ \A d \in Consumers \ {c} : pc'[d] = pc[d]
  BY DEF TypeOK, CursorsInStep, HandInStep, Handle, Finished
<1>2. ASSUME NEW d \in Consumers PROVE HandInStep(d)'
  BY <1>1 DEF CursorsInStep, HandInStep, Handle, brokerVars
<1>3. ASSUME NEW d \in Consumers, NEW q \in assigned'[d] PROVE ReaderInStep(d, q)'
  <2>1. ReaderInStep(d, q)
    BY DEF CursorsInStep, Handle
  <2>2. QED
    BY <1>1, <2>1 DEF ReaderInStep, Handle, brokerVars
<1>4. NothingSkipped'
  BY <1>1 DEF CursorsInStep, NothingSkipped, Handle, brokerVars
<1>5. QED
  BY <1>1, <1>2, <1>3, <1>4 DEF CursorsInStep, Handle, brokerVars

(* The offset stored is the position: everything below it is finished.     *)
LEMMA StoreOffsetCursors ==
  ASSUME TypeOK, CursorsInStep, NEW c \in Consumers, StoreOffset(c)
  PROVE  CursorsInStep'
<1> DEFINE m == inHand[c]
<1>1. /\ m \in Messages /\ m # NoMessage /\ m \in attempted
      /\ inHand'[c] = NoMessage /\ pc'[c] = "recv"
      /\ \A d \in Consumers \ {c} : inHand'[d] = inHand[d] /\ pc'[d] = pc[d]
  BY DEF TypeOK, CursorsInStep, HandInStep, StoreOffset, Drop
<1>2. ASSUME NEW d \in Consumers PROVE HandInStep(d)'
  BY <1>1 DEF CursorsInStep, HandInStep, StoreOffset, brokerVars, historyVars
<1>3. ASSUME NEW d \in Consumers, NEW q \in assigned'[d] PROVE ReaderInStep(d, q)'
  <2>1. /\ ReaderInStep(d, q) /\ q \in Partitions /\ committed[q] \in Nat
        /\ stored[d][q] \in Nat /\ position[d][q] \in Nat
    BY DEF CursorsInStep, TypeOK, StoreOffset
  <2>2. \A k \in 0..(position[d][q] - 1) : <<q, k>> \in Finished \/ inHand'[d] = <<q, k>>
    BY <1>1, <2>1 DEF ReaderInStep, Finished
  <2>3. CASE d = c /\ q = m[1]
    <3>1. stored'[c][q] = m[2] + 1 /\ position[c][q] = m[2] + 1
      BY <1>1, <2>1, <2>3 DEF TypeOK, CursorsInStep, HandInStep, StoreOffset, OffsetAfter
    <3>2. QED
      BY <1>1, <2>1, <2>2, <2>3, <3>1 DEF ReaderInStep, StoreOffset, brokerVars,
         historyVars, Finished
  <2>4. CASE d # c \/ q # m[1]
    <3>1. stored'[d][q] = stored[d][q]
      BY <1>1, <2>1, <2>4 DEF TypeOK, StoreOffset, Messages
    <3>2. QED
      BY <2>1, <2>2, <3>1 DEF ReaderInStep, StoreOffset, brokerVars, historyVars, Finished
  <2>5. QED
    BY <2>3, <2>4
<1>4. NothingSkipped'
  BY DEF CursorsInStep, NothingSkipped, StoreOffset, brokerVars, historyVars, Finished
<1>5. QED
  BY <1>1, <1>2, <1>3, <1>4 DEF CursorsInStep, StoreOffset, brokerVars, historyVars, Finished

(* Every step keeps the cursors in step.                                   *)
LEMMA NextCursors == TypeOK /\ CursorsInStep /\ [Next]_vars => CursorsInStep'
<1>1. CASE UNCHANGED vars
  BY <1>1 DEF CursorsInStep, NothingSkipped, HandInStep, ReaderInStep, Finished, vars,
     brokerVars, workerVars, historyVars
<1>2. ASSUME TypeOK, CursorsInStep, NEW c \in Consumers, Work(c) PROVE CursorsInStep'
  BY <1>2, RecvCursors, RejectCursors, HandleCursors, StoreOffsetCursors DEF Work
<1>3. QED
  BY <1>1, <1>2, PublishCursors, GroupCursors, EndCursors DEF Next

(* The cursors of every partition stay in step, whatever the schedule      *)
(* (consumer.rs:195-280).                                                  *)
THEOREM CursorsCorrect == Spec => []CursorsInStep
  BY InitType, NextType, InitCursors, NextCursors, PTL DEF Spec

(* At-least-once: no message below the committed offset was skipped, for   *)
(* any numbers of workers, partitions, messages and disruptions            *)
(* (consumer.rs:255-267, handle before store_offset_from_message).         *)
THEOREM NothingSkippedCorrect == Spec => []NothingSkipped
<1>1. CursorsInStep => NothingSkipped
  BY DEF CursorsInStep
<1>2. QED
  BY <1>1, CursorsCorrect, PTL

------------------------------------------------------------------------------
(* Consequences for single steps.                                          *)

(* A step that changes committed is a commit for partitions its consumer   *)
(* owns, at the offsets it stored.                                         *)
LEMMA CommitSteps ==
  ASSUME TypeOK, Next
  PROVE  \/ UNCHANGED committed
         \/ /\ UNCHANGED <<log, attempted, rejected>>
            /\ \E c \in Consumers :
                 \E S \in SUBSET {p \in assigned[c] : owner[p] = c} : CommitOnLeave(c, S)
<1>1. CASE \E p \in Partitions, kind \in Payload : Publish(p, kind)
  BY <1>1 DEF Publish
<1>2. ASSUME NEW c \in Consumers, NEW p \in Partitions, AutoCommit(c, p)
      PROVE  CommitOnLeave(c, {p})
  BY <1>2 DEF TypeOK, AutoCommit, CommitOnLeave
<1>3. ASSUME NEW c \in Consumers, NEW p \in Partitions, AutoCommit(c, p) \/ Revoke(c, p)
      PROVE  /\ UNCHANGED <<log, attempted, rejected>>
             /\ {p} \in SUBSET {q \in assigned[c] : owner[q] = c}
             /\ CommitOnLeave(c, {p})
  BY <1>2, <1>3 DEF AutoCommit, Revoke, historyVars
<1>4. ASSUME NEW c \in Consumers, NEW p \in Partitions,
             Assign(c, p) \/ Evict(c, p) \/ LoseAssignment(c, p)
      PROVE  UNCHANGED committed
  BY <1>4 DEF Assign, Evict, LoseAssignment, brokerVars
<1>5. ASSUME NEW c \in Consumers, Work(c) \/ Crash(c) PROVE UNCHANGED committed
  BY <1>5 DEF Work, Recv, Reject, Handle, StoreOffset, Crash, brokerVars
<1>6. ASSUME NEW c \in Consumers, Stop(c)
      PROVE  /\ UNCHANGED <<log, attempted, rejected>>
             /\ \E S \in SUBSET {p \in assigned[c] : owner[p] = c} : CommitOnLeave(c, S)
  BY <1>6 DEF Stop
<1>7. QED
  BY <1>1, <1>3, <1>4, <1>5, <1>6 DEF Next, Group

(* No step moves the committed offset of a partition back.                 *)
LEMMA NextMonotone ==
  ASSUME TypeOK, CursorsInStep, [Next]_vars, NEW p \in Partitions
  PROVE  committed'[p] >= committed[p]
<1>1. committed[p] \in Nat
  BY DEF TypeOK
<1>2. CASE UNCHANGED committed
  BY <1>1, <1>2
<1>3. CASE Next /\ ~UNCHANGED committed
  <2>1. PICK c \in Consumers : \E S \in SUBSET {q \in assigned[c] : owner[q] = c} :
               CommitOnLeave(c, S)
    BY <1>3, CommitSteps
  <2>2. committed'[p] \in Nat /\ committed[p] <= committed'[p]
    BY <2>1, LeaveCommit
  <2>3. QED
    BY <1>1, <2>2
<1>4. QED
  BY <1>2, <1>3 DEF vars, brokerVars

(* The committed offset never moves back, although evicted consumers go on *)
(* storing older offsets (consumer.rs:262-267).                            *)
THEOREM CommittedMonotone == Spec => CommittedNeverRegresses
<1>1. TypeOK /\ CursorsInStep /\ [Next]_vars =>
        [\A p \in Partitions : committed'[p] >= committed[p]]_vars
  BY NextMonotone
<1>2. QED
  BY <1>1, TypeCorrect, CursorsCorrect, PTL DEF Spec, CommittedNeverRegresses

------------------------------------------------------------------------------
(* Groups in which nobody was disturbed read each message once.            *)

(* Without disruptions a partition stays with its first owner, whose       *)
(* position is past all the messages of the partition that are finished.   *)
OwnersKeepReading ==
  /\ \A c \in Consumers, p \in Partitions : p \in assigned[c] => owner[p] = c
  /\ \A c \in Consumers : inHand[c] # NoMessage => inHand[c][1] \in assigned[c]
  /\ \A m \in Finished : owner[m[1]] # NoOne /\ m[2] < position[owner[m[1]]][m[1]]
  /\ \A c \in Consumers : pc[c] = "handle" => inHand[c] \notin Finished

Undisturbed == disruptions = 0 => OwnersKeepReading

(* recv hands out the message at the position, which nobody has finished.  *)
LEMMA RecvKeeps ==
  ASSUME TypeOK, OwnersKeepReading, NEW c \in Consumers, NEW p \in Partitions, Recv(c, p)
  PROVE  OwnersKeepReading'
<1> DEFINE m == <<p, position[c][p]>>
<1>1. /\ position[c][p] \in Nat /\ p \in assigned[c] /\ owner[p] = c
      /\ inHand'[c] = m /\ position'[c][p] = position[c][p] + 1
      /\ \A d \in Consumers, q \in Partitions :
           d # c \/ q # p => position'[d][q] = position[d][q]
      /\ \A d \in Consumers \ {c} : inHand'[d] = inHand[d] /\ pc'[d] = pc[d]
      /\ UNCHANGED <<owner, assigned, attempted, rejected>>
  BY DEF TypeOK, OwnersKeepReading, Recv, brokerVars, historyVars
<1>2. m \notin Finished
  BY <1>1 DEF OwnersKeepReading
<1>3. ASSUME NEW n \in Finished
      PROVE  owner[n[1]] # NoOne /\ n[2] < position'[owner[n[1]]][n[1]]
  <2>1. n[1] \in Partitions /\ n[2] \in Nat
    BY DEF TypeOK, Finished, Messages
  <2>2. owner[n[1]] \in Consumers /\ n[2] < position[owner[n[1]]][n[1]]
    BY <2>1 DEF TypeOK, OwnersKeepReading
  <2>3. QED
    BY <1>1, <2>1, <2>2
<1>4. Finished' = Finished
  BY <1>1 DEF Finished
<1>5. \A d \in Consumers : inHand'[d] # NoMessage => inHand'[d][1] \in assigned[d]
  BY <1>1 DEF OwnersKeepReading
<1>6. \A d \in Consumers : pc'[d] = "handle" => inHand'[d] \notin Finished
  BY <1>1, <1>2 DEF OwnersKeepReading
<1>7. QED
  BY <1>1, <1>3, <1>4, <1>5, <1>6 DEF OwnersKeepReading

(* The message in hand is finished by the owner of its partition, and by   *)
(* nobody else.                                                            *)
LEMMA FinishKeeps ==
  ASSUME TypeOK, CursorsInStep, OwnersKeepReading, NEW c \in Consumers, Reject(c) \/ Handle(c)
  PROVE  OwnersKeepReading'
<1> DEFINE m == inHand[c]
<1>1. /\ m \in Messages /\ m # NoMessage /\ Finished' = Finished \cup {m}
      /\ pc'[c] # "handle" /\ inHand'[c] \in {NoMessage, m}
      /\ \A d \in Consumers \ {c} : pc'[d] = pc[d] /\ inHand'[d] = inHand[d]
      /\ UNCHANGED <<owner, assigned, position>>
  BY DEF TypeOK, Reject, AfterReject, Handle, Finished, brokerVars
<1>2. m[1] \in assigned[c] /\ owner[m[1]] = c /\ m[1] \in Partitions /\ m[2] \in Nat
  BY <1>1 DEF OwnersKeepReading, Messages
<1>3. position[c][m[1]] = m[2] + 1
  BY <1>1, <1>2 DEF CursorsInStep, HandInStep
<1>4. \A n \in Finished' : owner[n[1]] # NoOne /\ n[2] < position[owner[n[1]]][n[1]]
  BY <1>1, <1>2, <1>3 DEF OwnersKeepReading
<1>5. ASSUME NEW d \in Consumers, pc'[d] = "handle" PROVE inHand'[d] \notin Finished'
  <2>1. d # c /\ pc[d] = "handle" /\ inHand'[d] = inHand[d] /\ inHand[d] # NoMessage
    BY <1>1, <1>5 DEF TypeOK
  <2>2. inHand[d][1] \in assigned[d] /\ inHand[d][1] \in Partitions
    BY <2>1 DEF TypeOK, OwnersKeepReading
  <2>3. inHand[d] # m
    BY <1>2, <2>1, <2>2 DEF OwnersKeepReading
  <2>4. QED
    BY <1>1, <2>1, <2>3 DEF OwnersKeepReading
<1>6. QED
  BY <1>1, <1>4, <1>5 DEF OwnersKeepReading

(* A free partition has no finished message: whoever gets it may start     *)
(* anywhere.                                                               *)
LEMMA AssignKeeps ==
  ASSUME TypeOK, OwnersKeepReading, NEW c \in Consumers, NEW p \in Partitions, Assign(c, p)
  PROVE  OwnersKeepReading'
<1>1. /\ owner[p] = NoOne /\ UNCHANGED <<pc, inHand, attempted, rejected>>
      /\ owner'[p] = c /\ \A q \in Partitions \ {p} : owner'[q] = owner[q]
      /\ assigned'[c] = assigned[c] \cup {p}
      /\ \A d \in Consumers \ {c} : assigned'[d] = assigned[d]
      /\ \A d \in Consumers, q \in Partitions \ {p} : position'[d][q] = position[d][q]
  BY DEF TypeOK, Assign, Free, historyVars
<1>2. \A d \in Consumers, q \in Partitions : q \in assigned'[d] => owner'[q] = d
  BY <1>1 DEF OwnersKeepReading
<1>3. ASSUME NEW n \in Finished
      PROVE  owner'[n[1]] # NoOne /\ n[2] < position'[owner'[n[1]]][n[1]]
  <2>1. n[1] \in Partitions /\ n[1] # p
    BY <1>1 DEF TypeOK, OwnersKeepReading, Finished, Messages
  <2>2. owner[n[1]] \in Consumers /\ n[2] < position[owner[n[1]]][n[1]]
    BY <2>1 DEF TypeOK, OwnersKeepReading
  <2>3. QED
    BY <1>1, <2>1, <2>2
<1>4. QED
  BY <1>1, <1>2, <1>3 DEF OwnersKeepReading, Finished

(* Every step that disturbs nobody leaves the partitions to their owners.  *)
LEMMA NextUndisturbed == TypeOK /\ CursorsInStep /\ Undisturbed /\ [Next]_vars => Undisturbed'
<1> SUFFICES ASSUME TypeOK, CursorsInStep, Undisturbed, [Next]_vars, disruptions' = 0
             PROVE  OwnersKeepReading'
  BY DEF Undisturbed
<1>1. ~Disrupt
  BY DEF TypeOK, Disrupt
<1>2. disruptions = 0
  BY <1>1 DEF Next, Group, Work, Publish, Assign, AutoCommit, Revoke, Evict, LoseAssignment,
     Recv, Reject, Handle, StoreOffset, Stop, Crash, historyVars, vars
<1>3. OwnersKeepReading
  BY <1>2 DEF Undisturbed
<1>4. ASSUME \/ \E p \in Partitions, kind \in Payload : Publish(p, kind)
             \/ \E c \in Consumers, p \in Partitions : AutoCommit(c, p)
             \/ UNCHANGED vars
      PROVE  OwnersKeepReading'
  BY <1>3, <1>4 DEF OwnersKeepReading, Finished, Publish, AutoCommit, vars, brokerVars,
     workerVars, historyVars
<1>5. ASSUME NEW c \in Consumers, NEW p \in Partitions PROVE ~LoseAssignment(c, p)
  BY <1>3 DEF OwnersKeepReading, LoseAssignment
<1>6. ASSUME NEW c \in Consumers, StoreOffset(c) PROVE OwnersKeepReading'
  <2>1. /\ inHand'[c] = NoMessage /\ pc'[c] = "recv"
        /\ \A d \in Consumers \ {c} : inHand'[d] = inHand[d] /\ pc'[d] = pc[d]
    BY <1>6 DEF TypeOK, StoreOffset, Drop
  <2>2. QED
    BY <1>3, <1>6, <2>1 DEF OwnersKeepReading, Finished, StoreOffset, brokerVars, historyVars
<1>7. ASSUME NEW c \in Consumers, Work(c) PROVE OwnersKeepReading'
  BY <1>3, <1>6, <1>7, RecvKeeps, FinishKeeps DEF Work
<1>8. ASSUME NEW c \in Consumers, NEW p \in Partitions, Group(c, p) PROVE OwnersKeepReading'
  BY <1>1, <1>3, <1>4, <1>5, <1>8, AssignKeeps DEF Group, Revoke, Evict
<1>9. QED
  BY <1>1, <1>4, <1>7, <1>8 DEF Next, Stop, Crash

(* At the start nobody owns a partition.                                   *)
LEMMA UndisturbedInit == Init => Undisturbed
  BY DEF Init, Undisturbed, OwnersKeepReading, Finished

(* A message is handed to a worker again only after a disruption, for any  *)
(* numbers of workers, partitions and messages (consumer.rs:116-121).      *)
THEOREM RedeliveryCorrect == Spec => []RedeliveryNeedsDisruption
<1>1. Spec => []Undisturbed
  BY UndisturbedInit, NextUndisturbed, TypeCorrect, CursorsCorrect, PTL DEF Spec
<1>2. TypeOK /\ Undisturbed => RedeliveryNeedsDisruption
  BY DEF TypeOK, Undisturbed, OwnersKeepReading, RedeliveryNeedsDisruption
<1>3. QED
  BY <1>1, <1>2, TypeCorrect, PTL

------------------------------------------------------------------------------
(* Refinement: every step of the group is a step of the topic, or leaves   *)
(* the topic alone.                                                        *)

(* Offsets are pairs of numbers the cursors are compared with.             *)
LEMMA OffsetParts ==
  ASSUME TypeOK, NEW m \in Offsets
  PROVE  /\ m = <<m[1], m[2]>> /\ m[1] \in Partitions /\ m[2] \in Nat /\ m[2] < MaxLog
         /\ committed[m[1]] \in Nat /\ Len(log[m[1]]) \in Nat
         /\ \A c \in Consumers : position[c][m[1]] \in Nat /\ stored[c][m[1]] \in Nat
<1>1. m = <<m[1], m[2]>> /\ m[1] \in Partitions /\ m[2] \in 0..(MaxLog - 1)
  BY DEF Offsets
<1>2. QED
  BY <1>1, LenProperties DEF TypeOK

(* A publication sends the message at the end of the log.                  *)
LEMMA PublishSends ==
  ASSUME TypeOK, NEW p \in Partitions, NEW kind \in Payload, Publish(p, kind)
  PROVE  Delivery!Publish
<1> DEFINE m == <<p, Len(log[p])>>
<1>1. /\ Len(log[p]) \in Nat /\ Len(log[p]) < MaxLog /\ Len(log'[p]) = Len(log[p]) + 1
      /\ \A q \in Partitions \ {p} : log'[q] = log[q]
  BY LenProperties DEF TypeOK, Publish
<1>2. m \in Offsets \ Sent
  BY <1>1 DEF Offsets, Sent
<1>3. Sent' = Sent \cup {m}
  <2>1. ASSUME NEW n \in Offsets PROVE n \in Sent' <=> n \in Sent \cup {m}
    BY <1>1 DEF Offsets, Sent
  <2>2. QED
    BY <1>2, <2>1 DEF Sent
<1>4. UNCHANGED <<Finished, Settled, Held>>
  BY DEF Publish, workerVars, historyVars, Finished, Settled, Held
<1>5. QED
  BY <1>2, <1>3, <1>4 DEF Delivery!Publish, Delivery!Send

(* The owner of a partition finishes with a message that nobody has yet.   *)
LEMMA OwnerFinishes ==
  ASSUME TypeOK, CursorsInStep, NEW c \in Consumers, Reject(c) \/ Handle(c),
         owner[inHand[c][1]] = c, inHand[c] \in Offsets
  PROVE  Delivery!Handle(c, inHand[c])
<1> DEFINE m == inHand[c]
<1>1. /\ m # NoMessage /\ pc[c] = "handle" /\ pc'[c] # "handle"
      /\ \A d \in Consumers \ {c} : pc'[d] = pc[d] /\ inHand'[d] = inHand[d]
      /\ UNCHANGED <<log, owner, committed, position>>
  BY DEF TypeOK, Reject, AfterReject, Handle, brokerVars
<1>2. m[1] \in Partitions /\ m[1] \in assigned[c]
  BY OffsetParts DEF CursorsInStep
<1>3. HandInStep(c) /\ ReaderInStep(c, m[1])
  BY <1>2 DEF CursorsInStep
<1>4. committed[m[1]] <= m[2] /\ m[2] < position[c][m[1]] /\ m[2] < Len(log[m[1]])
  BY <1>1, <1>2, <1>3, OffsetParts DEF HandInStep, ReaderInStep
<1>5. m \in Sent \ Settled
  BY <1>4, OffsetParts DEF Sent, Settled
<1>6. \A d \in Consumers : m \notin Held[d]
  BY <1>1 DEF Held
<1>7. Held' = [Held EXCEPT ![c] = @ \cup {m}]
  <2>1. Held'[c] = Held[c] \cup {m}
    BY <1>1, <1>4 DEF Held
  <2>2. \A d \in Consumers \ {c} : Held'[d] = Held[d]
    BY <1>1 DEF Held
  <2>3. QED
    BY <2>1, <2>2 DEF Held
<1>8. UNCHANGED <<Sent, Settled>>
  BY <1>1 DEF Sent, Settled
<1>9. QED
  BY <1>5, <1>6, <1>7, <1>8 DEF Delivery!Handle, Delivery!Waits

(* A worker that lost the partition finishes with the message in vain.     *)
LEMMA OthersFinish ==
  ASSUME TypeOK, NEW c \in Consumers, Reject(c) \/ Handle(c),
         owner[inHand[c][1]] # c, inHand[c] \in Sent
  PROVE  Delivery!HandleAgain(inHand[c])
<1>1. /\ pc'[c] # "handle"
      /\ \A d \in Consumers \ {c} : pc'[d] = pc[d] /\ inHand'[d] = inHand[d]
      /\ UNCHANGED <<log, owner, committed, position>>
  BY DEF TypeOK, Reject, AfterReject, Handle, brokerVars
<1>2. Held' = Held
  <2>1. \A d \in Consumers \ {c} : Held'[d] = Held[d]
    BY <1>1 DEF Held
  <2>2. Held'[c] = Held[c]
    BY <1>1 DEF Held
  <2>3. QED
    BY <2>1, <2>2 DEF Held
<1>3. UNCHANGED <<Sent, Settled>>
  BY <1>1 DEF Sent, Settled
<1>4. QED
  BY <1>2, <1>3 DEF Delivery!HandleAgain, Delivery!topic

(* A worker finishes with a message: in its turn, or after a disruption.   *)
LEMMA FinishFinishes ==
  ASSUME TypeOK, CursorsInStep, Undisturbed, NEW c \in Consumers, Reject(c) \/ Handle(c)
  PROVE  Delivery!Finish
<1> DEFINE m == inHand[c]
<1>1. m # NoMessage /\ m \in Messages /\ disruptions' = disruptions
  BY DEF TypeOK, Reject, Handle
<1>2. m = <<m[1], m[2]>> /\ m[1] \in Partitions /\ m[2] \in Nat
  BY <1>1 DEF Messages
<1>3. m[2] < Len(log[m[1]]) /\ Len(log[m[1]]) <= MaxLog /\ Len(log[m[1]]) \in Nat
  BY <1>1, <1>2, LenProperties DEF TypeOK, CursorsInStep, HandInStep
<1>4. m[2] \in 0..(MaxLog - 1)
  BY <1>2, <1>3
<1>5. m \in Offsets /\ m \in Sent
  BY <1>2, <1>3, <1>4 DEF Offsets, Sent
<1>6. owner[m[1]] # c => disruptions' > 0
  BY <1>1, <1>2 DEF TypeOK, Undisturbed, OwnersKeepReading
<1>7. Finished' = Finished \cup {m}
  BY DEF Reject, Handle, Finished
<1>8. QED
  BY <1>5, <1>6, <1>7, OwnerFinishes, OthersFinish DEF Delivery!Finish

(* A commit by the owner settles messages it holds; giving up a partition, *)
(* or dying, lets go of the others.                                        *)
LEMMA LeaveLetsGo ==
  ASSUME TypeOK, CursorsInStep, TypeOK', NEW c \in Consumers,
         NEW S \in SUBSET {p \in assigned[c] : owner[p] = c}, CommitOnLeave(c, S),
         \A q \in Partitions :
           owner'[q] = owner[q] \/ (owner[q] = c /\ owner'[q] = NoOne),
         \A d \in Consumers :
           \/ pc'[d] = pc[d] /\ inHand'[d] = inHand[d]
           \/ d = c /\ \A q \in Partitions : owner'[q] # c,
         disruptions' > 0 \/ UNCHANGED <<owner, pc, inHand>>,
         UNCHANGED <<log, position, attempted, rejected>>
  PROVE  Delivery!LetGo
<1> DEFINE gone == Held[c] \ Held'[c]
           done == Settled' \ Settled
<1>1. \A q \in Partitions : /\ committed[q] <= committed'[q]
                            /\ q \notin S => committed'[q] = committed[q]
  BY LeaveCommit
<1>2. Settled' = Settled \cup done
  <2>1. ASSUME NEW m \in Settled PROVE m \in Settled'
    <3>1. m \in Offsets /\ m[2] < committed[m[1]]
      BY DEF Settled
    <3>2. m[1] \in Partitions /\ committed'[m[1]] \in Nat
      BY <3>1, OffsetParts DEF TypeOK
    <3>3. QED
      BY <1>1, <3>1, <3>2, OffsetParts DEF Settled
  <2>2. QED
    BY <2>1
<1>3. done \subseteq gone
  <2>1. ASSUME NEW m \in done PROVE m \in gone
    <3>1. m \in Offsets /\ m[2] < committed'[m[1]] /\ ~(m[2] < committed[m[1]])
      BY DEF Settled
    <3>2. /\ m[1] \in Partitions /\ m[2] \in Nat /\ stored[c][m[1]] \in Nat
          /\ position[c][m[1]] \in Nat /\ committed[m[1]] \in Nat
      BY <3>1, OffsetParts
    <3>3. m[1] \in S /\ committed'[m[1]] = stored[c][m[1]]
      BY <1>1, <3>1, <3>2 DEF CommitOnLeave
    <3>4. owner[m[1]] = c /\ m[1] \in assigned[c] /\ ReaderInStep(c, m[1]) /\ HandInStep(c)
      BY <3>3 DEF CursorsInStep
    <3>5. committed[m[1]] <= m[2] /\ m[2] < position[c][m[1]]
      BY <3>1, <3>2, <3>3, <3>4 DEF ReaderInStep
    <3>6. pc[c] = "handle" => inHand[c] # m
      <4>1. SUFFICES ASSUME pc[c] = "handle", inHand[c] = m PROVE FALSE
        OBVIOUS
      <4>2. stored[c][m[1]] <= m[2]
        BY <3>4, <4>1 DEF TypeOK, HandInStep
      <4>3. QED
        BY <3>1, <3>2, <3>3, <4>2
    <3>7. m \in Held[c]
      BY <3>1, <3>4, <3>5, <3>6 DEF Held
    <3>8. committed'[m[1]] \in Nat
      BY <3>2 DEF TypeOK
    <3>9. m \notin Held'[c]
      BY <3>1, <3>2, <3>8 DEF Held
    <3>10. QED
      BY <3>7, <3>9
  <2>2. QED
    BY <2>1
<1>4. Held' = [Held EXCEPT ![c] = @ \ gone]
  <2>1. ASSUME NEW d \in Consumers, d # c PROVE Held'[d] = Held[d]
    <3>1. ASSUME NEW m \in Offsets PROVE m \in Held'[d] <=> m \in Held[d]
      <4>1. m[1] \in Partitions
        BY OffsetParts
      <4>2. owner'[m[1]] = d <=> owner[m[1]] = d
        BY <2>1, <4>1
      <4>3. owner[m[1]] = d => committed'[m[1]] = committed[m[1]]
        BY <1>1, <2>1, <4>1
      <4>4. pc'[d] = pc[d] /\ inHand'[d] = inHand[d]
        BY <2>1
      <4>5. QED
        BY <4>2, <4>3, <4>4 DEF Held
    <3>2. QED
      BY <3>1 DEF Held
  <2>2. ASSUME NEW m \in Held'[c] PROVE m \in Held[c]
    <3>1. m \in Offsets /\ owner'[m[1]] = c /\ committed'[m[1]] <= m[2]
      BY DEF Held
    <3>2. /\ m[1] \in Partitions /\ m[2] \in Nat /\ committed[m[1]] \in Nat
          /\ committed'[m[1]] \in Nat
      BY <3>1, OffsetParts DEF TypeOK
    <3>3. owner[m[1]] = c /\ pc'[c] = pc[c] /\ inHand'[c] = inHand[c]
      BY <3>1, <3>2
    <3>4. committed[m[1]] <= m[2]
      BY <1>1, <3>1, <3>2
    <3>5. QED
      BY <3>3, <3>4 DEF Held
  <2>3. Held'[c] = Held[c] \ gone
    BY <2>2
  <2>4. QED
    BY <2>1, <2>3 DEF Held
<1>5. ASSUME ~(disruptions' > 0) PROVE gone \subseteq done
  <2>1. ASSUME NEW m \in gone PROVE m \in done
    <3>1. /\ m \in Offsets /\ owner[m[1]] = c /\ committed[m[1]] <= m[2]
          /\ m[2] < position[c][m[1]] /\ (pc[c] = "handle" => inHand[c] # m)
      BY DEF Held
    <3>2. ~(committed'[m[1]] <= m[2])
      BY <1>5, <3>1 DEF Held
    <3>3. m[2] \in Nat /\ committed[m[1]] \in Nat /\ committed'[m[1]] \in Nat
      BY <3>1, OffsetParts DEF TypeOK
    <3>4. QED
      BY <3>1, <3>2, <3>3 DEF Settled
  <2>2. QED
    BY <2>1
<1>6. UNCHANGED <<Sent, Finished>>
  BY DEF Sent, Finished
<1>7. gone \in SUBSET Held[c] /\ done \in SUBSET gone /\ (done # gone => disruptions' > 0)
  BY <1>3, <1>5
<1>8. Delivery!Release(c, gone, done)
  BY <1>2, <1>4, <1>6, <1>7 DEF Delivery!Release
<1>9. QED
  BY <1>6, <1>7, <1>8 DEF Delivery!LetGo

(* Commits, revocations, evictions, stops and crashes let go.              *)
LEMMA LeaversLetGo ==
  ASSUME TypeOK, CursorsInStep, TypeOK', NEW c \in Consumers,
         \/ Stop(c) \/ Crash(c)
         \/ \E p \in Partitions : AutoCommit(c, p) \/ Revoke(c, p) \/ Evict(c, p)
  PROVE  Delivery!LetGo
<1>1. Disrupt => disruptions' > 0
  BY DEF TypeOK, Disrupt
<1>2. CommitOnLeave(c, {}) <=> UNCHANGED committed
  BY DEF TypeOK, CommitOnLeave
<1>3. ASSUME NEW p \in Partitions, AutoCommit(c, p) PROVE Delivery!LetGo
  <2>1. CommitOnLeave(c, {p}) /\ {p} \in SUBSET {q \in assigned[c] : owner[q] = c}
    BY <1>3 DEF TypeOK, AutoCommit, CommitOnLeave
  <2>2. QED
    BY <1>3, <2>1, LeaveLetsGo DEF AutoCommit, workerVars, historyVars
<1>4. ASSUME NEW p \in Partitions, Revoke(c, p) PROVE Delivery!LetGo
  <2>1. /\ CommitOnLeave(c, {p}) /\ {p} \in SUBSET {q \in assigned[c] : owner[q] = c}
        /\ disruptions' > 0
    BY <1>1, <1>4 DEF Revoke
  <2>2. \A q \in Partitions : owner'[q] = owner[q] \/ (owner[q] = c /\ owner'[q] = NoOne)
    BY <1>4 DEF TypeOK, Revoke
  <2>3. QED
    BY <1>4, <2>1, <2>2, LeaveLetsGo DEF Revoke
<1>5. ASSUME NEW p \in Partitions, Evict(c, p) PROVE Delivery!LetGo
  <2>1. CommitOnLeave(c, {}) /\ disruptions' > 0
    BY <1>1, <1>2, <1>5 DEF Evict
  <2>2. \A q \in Partitions : owner'[q] = owner[q] \/ (owner[q] = c /\ owner'[q] = NoOne)
    BY <1>5 DEF TypeOK, Evict
  <2>3. QED
    BY <1>5, <2>1, <2>2, LeaveLetsGo DEF Evict, workerVars
<1>6. CASE Stop(c) \/ Crash(c)
  <2>1. \E S \in SUBSET {q \in assigned[c] : owner[q] = c} : CommitOnLeave(c, S)
    BY <1>2, <1>6 DEF Stop, Crash
  <2>2. \A q \in Partitions : owner'[q] = IF owner[q] = c THEN NoOne ELSE owner[q]
    BY <1>6 DEF Stop, Crash
  <2>3. \A d \in Consumers \ {c} : pc'[d] = pc[d] /\ inHand'[d] = inHand[d]
    BY <1>6 DEF TypeOK, Stop, Crash
  <2>4. disruptions' > 0 /\ UNCHANGED <<log, position, attempted, rejected>>
    BY <1>1, <1>6 DEF Stop, Crash
  <2>5. QED
    BY <2>1, <2>2, <2>3, <2>4, LeaveLetsGo
<1>7. QED
  BY <1>3, <1>4, <1>5, <1>6

(* recv hands out a message that its worker does not hold yet, and a new   *)
(* owner holds nothing.                                                    *)
LEMMA ReadersHold ==
  ASSUME TypeOK, NEW c \in Consumers,
         \/ \E p \in Partitions : Recv(c, p) \/ Assign(c, p) \/ LoseAssignment(c, p)
         \/ StoreOffset(c)
  PROVE  Held' = Held
<1>1. ASSUME NEW p \in Partitions, Recv(c, p) PROVE Held' = Held
  <2>1. /\ position[c][p] \in Nat /\ pc[c] = "recv" /\ inHand'[c] = <<p, position[c][p]>>
        /\ position'[c][p] = position[c][p] + 1 /\ pc'[c] = "handle"
        /\ \A d \in Consumers, q \in Partitions :
             d # c \/ q # p => position'[d][q] = position[d][q]
        /\ \A d \in Consumers \ {c} : inHand'[d] = inHand[d] /\ pc'[d] = pc[d]
        /\ UNCHANGED <<owner, committed>>
    BY <1>1 DEF TypeOK, Recv, brokerVars
  <2>2. ASSUME NEW d \in Consumers, NEW m \in Offsets PROVE m \in Held'[d] <=> m \in Held[d]
    <3>1. m = <<m[1], m[2]>> /\ m[1] \in Partitions /\ m[2] \in Nat
      BY OffsetParts
    <3>2. CASE d = c /\ m[1] = p
      BY <2>1, <3>1, <3>2 DEF Held
    <3>3. CASE d # c
      BY <2>1, <3>1, <3>3 DEF Held
    <3>4. CASE d = c /\ m[1] # p
      BY <2>1, <3>1, <3>4 DEF Held
    <3>5. QED
      BY <3>2, <3>3, <3>4
  <2>3. QED
    BY <2>2 DEF Held
<1>2. ASSUME NEW p \in Partitions, Assign(c, p) PROVE Held' = Held
  <2>1. /\ owner[p] = NoOne /\ owner'[p] = c /\ position'[c][p] = committed[p]
        /\ committed[p] \in Nat
        /\ \A q \in Partitions \ {p} : owner'[q] = owner[q]
        /\ \A d \in Consumers, q \in Partitions :
             d # c \/ q # p => position'[d][q] = position[d][q]
        /\ UNCHANGED <<committed, pc, inHand>>
    BY <1>2 DEF TypeOK, Assign, Free, StartOffset
  <2>2. ASSUME NEW d \in Consumers, NEW m \in Offsets PROVE m \in Held'[d] <=> m \in Held[d]
    <3>1. m[1] \in Partitions /\ m[2] \in Nat
      BY OffsetParts
    <3>2. CASE m[1] = p
      BY <2>1, <3>1, <3>2 DEF Held
    <3>3. CASE m[1] # p
      BY <2>1, <3>1, <3>3 DEF Held
    <3>4. QED
      BY <3>2, <3>3
  <2>3. QED
    BY <2>2 DEF Held
<1>3. ASSUME NEW p \in Partitions, LoseAssignment(c, p) PROVE Held' = Held
  BY <1>3 DEF LoseAssignment, brokerVars, Held
<1>4. CASE StoreOffset(c)
  <2>1. /\ pc[c] # "handle" /\ pc'[c] # "handle" /\ UNCHANGED <<owner, committed, position>>
        /\ \A d \in Consumers \ {c} : inHand'[d] = inHand[d] /\ pc'[d] = pc[d]
    BY <1>4 DEF TypeOK, StoreOffset, brokerVars
  <2>2. \A d \in Consumers : Held'[d] = Held[d]
    BY <2>1 DEF Held
  <2>3. QED
    BY <2>2 DEF Held
<1>5. QED
  BY <1>1, <1>2, <1>3, <1>4

(* A disruption is never forgotten.                                        *)
LEMMA DisruptionsLast ==
  ASSUME TypeOK, [Next]_vars
  PROVE  disruptions > 0 => disruptions' > 0
<1>1. disruptions' = disruptions \/ disruptions' = disruptions + 1
  BY DEF Next, Group, Work, Publish, Assign, AutoCommit, Revoke, Evict, LoseAssignment,
     Recv, Reject, Handle, StoreOffset, Stop, Crash, Disrupt, historyVars, vars
<1>2. QED
  BY <1>1 DEF TypeOK

(* Every step maps to a step of the topic or to a stutter.                 *)
LEMMA StepRefines ==
  ASSUME TypeOK, CursorsInStep, Undisturbed, TypeOK', [Next]_vars
  PROVE  [Delivery!Next]_(Delivery!vars)
<1>1. CASE UNCHANGED vars
  BY <1>1 DEF vars, brokerVars, workerVars, historyVars, Delivery!vars, Delivery!topic,
     Sent, Settled, Held, Finished
<1>2. ASSUME NEW p \in Partitions, NEW kind \in Payload, Publish(p, kind)
      PROVE  Delivery!Publish
  BY <1>2, PublishSends
<1>3. ASSUME NEW c \in Consumers, NEW p \in Partitions,
             Recv(c, p) \/ Assign(c, p) \/ LoseAssignment(c, p) \/ StoreOffset(c)
      PROVE  UNCHANGED Delivery!vars
  <2>1. Held' = Held
    BY <1>3, ReadersHold
  <2>2. UNCHANGED <<log, committed, attempted, rejected, disruptions>>
    BY <1>3 DEF Recv, Assign, LoseAssignment, StoreOffset, brokerVars, historyVars
  <2>3. QED
    BY <2>1, <2>2 DEF Delivery!vars, Delivery!topic, Sent, Settled, Finished
<1>4. ASSUME NEW c \in Consumers, StoreOffset(c) PROVE UNCHANGED Delivery!vars
  <2>1. Held' = Held
    BY <1>4, ReadersHold
  <2>2. UNCHANGED <<log, committed, attempted, rejected, disruptions>>
    BY <1>4 DEF StoreOffset, brokerVars, historyVars
  <2>3. QED
    BY <2>1, <2>2 DEF Delivery!vars, Delivery!topic, Sent, Settled, Finished
<1>5. ASSUME NEW c \in Consumers, NEW p \in Partitions, Group(c, p)
      PROVE  Delivery!LetGo \/ UNCHANGED Delivery!vars
  BY <1>3, <1>5, LeaversLetGo DEF Group
<1>6. ASSUME NEW c \in Consumers, Work(c) \/ Stop(c) \/ Crash(c)
      PROVE  Delivery!Finish \/ Delivery!LetGo \/ UNCHANGED Delivery!vars
  BY <1>3, <1>4, <1>6, FinishFinishes, LeaversLetGo DEF Work
<1>7. QED
  BY <1>1, <1>2, <1>5, <1>6, DisruptionsLast DEF Next, Delivery!Next

(* The group implements the topic of JobSystem, for any numbers of workers, *)
(* partitions, messages and disruptions: what is committed was held by a   *)
(* worker that had finished with it, no two workers hold a message, and    *)
(* only a disruption brings a message to a worker again (consumer.rs:      *)
(* 86-92, 195-280).                                                        *)
THEOREM GroupImplementsDelivery == Spec => ImplementsDelivery
<1>1. Init => Delivery!Init
  BY DEF Init, Delivery!Init, Delivery!TopicInit, Sent, Settled, Held, Finished, Offsets
<1>2. TypeOK /\ CursorsInStep /\ Undisturbed /\ TypeOK' /\ [Next]_vars
        => [Delivery!Next]_(Delivery!vars)
  BY StepRefines
<1>3. Spec => []Undisturbed
  BY UndisturbedInit, NextUndisturbed, TypeCorrect, CursorsCorrect, PTL DEF Spec
<1>4. QED
  BY <1>1, <1>2, <1>3, TypeCorrect, CursorsCorrect, PTL
     DEF Spec, ImplementsDelivery, Delivery!Spec
==============================================================================
