-------------------------- MODULE ProducerQueueProofs -------------------------
(* Theorems about ProducerQueue, for any messages, any limits on their size  *)
(* and on the queue, and any number of faults.                             *)
EXTENDS ProducerQueue, TLAPS

(* Only what was given to send is on its way or at the broker.             *)
IdleNowhere == \A m \in Messages : send[m] = "idle" => m \notin requests \cup appended

IInv == TypeOK /\ SentReachedLeader /\ IdleNowhere

(* The invariant holds at the beginning.                                   *)
LEMMA InitIInv == Init => IInv
BY ProducerQueueAssumption DEF Init, IInv, TypeOK, SentReachedLeader, IdleNowhere

(* The steps of the process leave the broker alone.                        *)
LEMMA ProcessIInv ==
  ASSUME IInv, End \/ \E m \in Messages : Send(m) \/ TaskStep(m) \/ LibraryStep(m)
  PROVE  IInv'
<1>1. ASSUME NEW m \in Messages, Send(m) PROVE IInv'
  BY <1>1 DEF Send, network, broker, IInv, TypeOK, SentReachedLeader, IdleNowhere
<1>2. ASSUME NEW m \in Messages, Enqueue(m) PROVE IInv'
  BY <1>2 DEF Enqueue, network, broker, IInv, TypeOK, SentReachedLeader, IdleNowhere
<1>3. ASSUME NEW m \in Messages, QueueTimeout(m) PROVE IInv'
  BY <1>3 DEF QueueTimeout, network, broker, IInv, TypeOK, SentReachedLeader, IdleNowhere
<1>4. ASSUME NEW m \in Messages, Transmit(m) PROVE IInv'
  BY <1>4 DEF Transmit, broker, IInv, TypeOK, SentReachedLeader, IdleNowhere
<1>5. ASSUME NEW m \in Messages, Report(m) PROVE IInv'
  BY <1>5 DEF Report, broker, IInv, TypeOK, SentReachedLeader, IdleNowhere
<1>6. ASSUME NEW m \in Messages, Retry(m) PROVE IInv'
  BY <1>6, ProducerQueueAssumption
  DEF Retry, Fault, network, broker, IInv, TypeOK, SentReachedLeader, IdleNowhere
<1>7. ASSUME NEW m \in Messages, MessageTimeout(m) PROVE IInv'
  BY <1>7, ProducerQueueAssumption
  DEF MessageTimeout, Fault, network, broker, IInv, TypeOK, SentReachedLeader, IdleNowhere
<1>8. ASSUME NEW m \in Messages, Refuse(m) PROVE IInv'
  BY <1>8, ProducerQueueAssumption
  DEF Refuse, Fault, network, broker, IInv, TypeOK, SentReachedLeader, IdleNowhere
<1>9. ASSUME NEW m \in Messages, ReportError(m) PROVE IInv'
  BY <1>9 DEF ReportError, broker, IInv, TypeOK, SentReachedLeader, IdleNowhere
<1>10. CASE End
  BY <1>10 DEF End, network, broker, IInv, TypeOK, SentReachedLeader, IdleNowhere
<1> QED
  BY <1>1, <1>2, <1>3, <1>4, <1>5, <1>6, <1>7, <1>8, <1>9, <1>10 DEF TaskStep, LibraryStep

(* The broker keeps the invariant.                                         *)
LEMMA BrokerIInv == ASSUME IInv, BrokerStep PROVE IInv'
<1>1. ASSUME NEW m \in Messages, AppendToLog(m) PROVE IInv'
  <2>1. Append(log, m) \in Seq(appended') /\ Len(Append(log, m)) = Len(log) + 1
    BY <1>1 DEF AppendToLog, IInv, TypeOK
  <2> QED
    BY <1>1, <2>1 DEF AppendToLog, IInv, TypeOK, SentReachedLeader, IdleNowhere
<1>2. ASSUME NEW m \in Messages, RefuseRequest(m) \/ LoseRequest(m) \/ LoseAnswer(m)
      PROVE  IInv'
  BY <1>2, ProducerQueueAssumption
  DEF RefuseRequest, LoseRequest, LoseAnswer, Fault, broker, IInv, TypeOK, SentReachedLeader, IdleNowhere
<1>3. CASE Replicate
  BY <1>3 DEF Replicate, network, IInv, TypeOK, SentReachedLeader, IdleNowhere
<1>4. CASE LeaderFails
  <2>1. SubSeq(log, 1, replicated) \in Seq(appended)
        /\ Len(SubSeq(log, 1, replicated)) = replicated
    BY DEF IInv, TypeOK
  <2> QED
    BY <1>4, <2>1, ProducerQueueAssumption
    DEF LeaderFails, Fault, network, IInv, TypeOK, SentReachedLeader, IdleNowhere
<1>5. CASE Outage
  <2>1. faults' \in 0..MaxFaults
    BY <1>5, ProducerQueueAssumption DEF Outage, Fault, IInv, TypeOK
  <2>2. reachable' \in BOOLEAN /\ UNCHANGED <<up, send, network, log, replicated, appended>>
    BY <1>5 DEF Outage
  <2> QED
    BY <2>1, <2>2 DEF network, IInv, TypeOK, SentReachedLeader, IdleNowhere
<1>6. CASE Recover
  BY <1>6 DEF Recover, network, IInv, TypeOK, SentReachedLeader, IdleNowhere
<1> QED
  BY <1>1, <1>2, <1>3, <1>4, <1>5, <1>6 DEF BrokerStep

(* Every step keeps the invariant.                                         *)
LEMMA StepIInv == IInv /\ [Next]_vars => IInv'
<1> SUFFICES ASSUME IInv, [Next]_vars PROVE IInv'
  OBVIOUS
<1>1. CASE UNCHANGED vars
  BY <1>1 DEF vars, network, broker, IInv, TypeOK, SentReachedLeader, IdleNowhere
<1> QED
  BY <1>1, ProcessIInv, BrokerIInv DEF Next

(* The invariant of the producer queue.                                    *)
THEOREM IInvCorrect == Spec => []IInv
BY InitIInv, StepIInv, PTL DEF Spec

(* The types, and what the followers have is a part of the leader's log.   *)
THEOREM TypeCorrect == Spec => []TypeOK
<1>1. IInv => TypeOK
  BY DEF IInv
<1> QED
  BY <1>1, IInvCorrect, PTL

(* A message counted as sent has reached a leader.                         *)
THEOREM SentReachedLeaderCorrect == Spec => []SentReachedLeader
<1>1. IInv => SentReachedLeader
  BY DEF IInv
<1> QED
  BY <1>1, IInvCorrect, PTL

------------------------------------------------------------------------------
(* Failures have causes.                                                   *)

(* An outage and an answer with an error are faults, and a fault is        *)
(* remembered.                                                             *)
CauseInv ==
  /\ FailureNeedsCause
  /\ ~reachable => faults > 0
  /\ refusals # {} => faults > 0

(* The steps of the process that may give a message up.                    *)
LEMMA ProcessFails ==
  ASSUME IInv, CauseInv, faults' = 0, NEW m \in Messages,
         Send(m) \/ TaskStep(m) \/ LibraryStep(m) \/ End,
         NEW n \in Messages, send'[n] = "failed", send[n] # "failed"
  PROVE  n \in TooLarge \/ ~Fits(Held \cup {n})
<1>1. ~Fault
  BY DEF Fault, IInv, TypeOK
<1>2. CASE Refuse(m)
  BY <1>1, <1>2 DEF Refuse, IInv, TypeOK
<1>3. CASE QueueTimeout(m)
  BY <1>3 DEF QueueTimeout, Room, IInv, TypeOK
<1>4. CASE MessageTimeout(m)
  BY <1>1, <1>4 DEF MessageTimeout, CauseInv, IInv, TypeOK
<1>5. CASE ReportError(m)
  BY <1>5 DEF ReportError, CauseInv, IInv, TypeOK
<1>6. CASE Send(m) \/ Enqueue(m) \/ Transmit(m) \/ Report(m) \/ Retry(m)
  BY <1>6 DEF Send, Enqueue, Transmit, Report, Retry, IInv, TypeOK
<1>7. CASE End
  BY <1>7 DEF End
<1> QED
  BY <1>2, <1>3, <1>4, <1>5, <1>6, <1>7 DEF TaskStep, LibraryStep

(* While nothing goes wrong, no message loses its place.                   *)
LEMMA ProcessKeeps ==
  ASSUME IInv, CauseInv, faults' = 0, NEW m \in Messages,
         Send(m) \/ TaskStep(m) \/ LibraryStep(m) \/ End
  PROVE  Kept \subseteq Kept'
<1>1. ~Fault
  BY DEF Fault, IInv, TypeOK
<1>2. CASE MessageTimeout(m)
  BY <1>1, <1>2 DEF MessageTimeout, CauseInv, IInv, TypeOK
<1>3. CASE ReportError(m)
  BY <1>3 DEF ReportError, CauseInv, IInv, TypeOK
<1>4. CASE Send(m) \/ TaskStep(m) \/ Transmit(m) \/ Report(m) \/ Retry(m) \/ End
  BY <1>4
  DEF Send, TaskStep, Enqueue, Refuse, QueueTimeout, Transmit, Report, Retry, End, Kept,
      IInv, TypeOK
<1> QED
  BY <1>2, <1>3, <1>4 DEF LibraryStep

(* No step takes back a fault.                                             *)
LEMMA FaultsGrow == ASSUME IInv, Next PROVE faults' \in Nat /\ faults' >= faults
<1>1. faults' = faults \/ Fault
  BY DEF Next, Send, TaskStep, Enqueue, Refuse, QueueTimeout, LibraryStep, Transmit, Report,
         ReportError, Retry, MessageTimeout, End, BrokerStep, AppendToLog, RefuseRequest,
         LoseRequest, LoseAnswer, Replicate, LeaderFails, Outage, Recover
<1> QED
  BY <1>1 DEF Fault, IInv, TypeOK

(* Every step keeps the causes of what was given up.                       *)
LEMMA StepCauseInv == IInv /\ CauseInv /\ [Next]_vars => CauseInv'
<1> SUFFICES ASSUME IInv, CauseInv, Next PROVE CauseInv'
  BY DEF vars, network, broker, CauseInv, FailureNeedsCause, Kept
<1>1. FailureNeedsCause'
  <2> SUFFICES ASSUME faults' = 0, NEW n \in Messages, send'[n] = "failed"
               PROVE  n \in TooLarge \/ ~Fits(Kept' \cup {n})
    BY DEF FailureNeedsCause, Fits
  <2>1. faults = 0
    BY FaultsGrow DEF IInv, TypeOK
  <2>2. Kept \subseteq Kept'
    <3>1. CASE BrokerStep
      BY <3>1 DEF BrokerStep, AppendToLog, RefuseRequest, LoseRequest, LoseAnswer, Replicate,
                  LeaderFails, Outage, Recover, Kept
    <3>2. ASSUME NEW m \in Messages, Send(m) \/ TaskStep(m) \/ LibraryStep(m) \/ End
          PROVE  Kept \subseteq Kept'
      BY <3>2, ProcessKeeps
    <3> QED
      BY <3>1, <3>2 DEF Next
  <2>3. n \in TooLarge \/ ~Fits(Kept \cup {n})
    <3>1. CASE send[n] = "failed"
      BY <2>1, <3>1 DEF CauseInv, FailureNeedsCause
    <3>2. CASE BrokerStep
      BY <2>1, <3>2
      DEF BrokerStep, AppendToLog, RefuseRequest, LoseRequest, LoseAnswer, Replicate,
          LeaderFails, Outage, Recover, CauseInv, FailureNeedsCause
    <3>3. ASSUME send[n] # "failed", NEW m \in Messages,
                 Send(m) \/ TaskStep(m) \/ LibraryStep(m) \/ End
          PROVE  n \in TooLarge \/ ~Fits(Kept \cup {n})
      <4>1. n \in TooLarge \/ ~Fits(Held \cup {n})
        BY <3>3, ProcessFails
      <4>2. Held \subseteq Kept
        BY DEF Held, Kept
      <4> QED
        BY <4>1, <4>2 DEF Fits
    <3> QED
      BY <3>1, <3>2, <3>3 DEF Next
  <2> QED
    BY <2>2, <2>3 DEF Fits
<1>2. faults' > 0 \/ faults' = faults
  BY FaultsGrow DEF IInv, TypeOK
<1>3. ~reachable' \/ refusals' # {} => ~reachable \/ refusals # {} \/ Fault
  BY DEF Next, Send, TaskStep, Enqueue, Refuse, QueueTimeout, LibraryStep, Transmit, Report,
         ReportError, Retry, MessageTimeout, End, BrokerStep, AppendToLog, RefuseRequest,
         LoseRequest, LoseAnswer, Replicate, LeaderFails, Outage, Recover, network, broker
<1>4. Fault => faults' > 0
  BY DEF Fault, IInv, TypeOK
<1> QED
  BY <1>1, <1>2, <1>3, <1>4 DEF CauseInv

(* While nothing goes wrong, only a message that is too large, or that     *)
(* found no room beside messages that were kept, is given up.              *)
THEOREM FailureNeedsCauseCorrect == Spec => []FailureNeedsCause
<1>1. Init => CauseInv
  BY DEF Init, CauseInv, FailureNeedsCause
<1>2. CauseInv => FailureNeedsCause
  BY DEF CauseInv
<1> QED
  BY <1>1, <1>2, IInvCorrect, StepCauseInv, PTL DEF Spec

------------------------------------------------------------------------------
(* ProducerQueue implements Outbox.                                        *)


(* The queue begins as the producer does.                                  *)
LEMMA InitRefines == Init => Producer!Init
<1> SUFFICES ASSUME Init PROVE Producer!Init
  OBVIOUS
<1>1. Visible = {} /\ OnTheWay = {}
  BY DEF Init, Visible, OnTheWay
<1> QED
  BY <1>1 DEF Init, Producer!Init, Fate

(* A message that was not sent is nowhere.                                 *)
LEMMA IdleIsNew ==
  ASSUME IInv, NEW m \in Messages, send[m] = "idle"
  PROVE  m \notin Visible \cup OnTheWay
<1>1. \A i \in 1..Len(log) : log[i] \in appended
  BY DEF IInv, TypeOK
<1>2. \A i \in 1..Len(log) : log[i] # m
  BY <1>1 DEF IInv, IdleNowhere
<1>3. 1..replicated \subseteq 1..Len(log) /\ (replicated + 1)..Len(log) \subseteq 1..Len(log)
  BY DEF IInv, TypeOK
<1> QED
  BY <1>2, <1>3 DEF Visible, OnTheWay, IInv, IdleNowhere

(* What a step does that neither sends nor publishes: it may lose some     *)
(* messages.                                                               *)
Loses ==
  /\ Visible' = Visible
  /\ OnTheWay' \subseteq OnTheWay
  /\ \A m \in Messages : send'[m] = "idle" <=> send[m] = "idle"

(* A loss is one of the producer.                                          *)
LEMMA LosesRefines == ASSUME IInv, Loses PROVE Producer!Next
<1> DEFINE lost == {m \in Messages : m \in OnTheWay \ (OnTheWay' \cup Visible)}
<1>1. \A m \in lost : Fate[m] = "pending"
  BY DEF Fate
<1>2. ASSUME NEW m \in Messages
      PROVE  Fate'[m] = IF m \in lost THEN "lost" ELSE Fate[m]
  <2>1. CASE m \in Visible
    BY <2>1 DEF Loses, Fate
  <2>2. CASE m \notin Visible /\ m \in OnTheWay'
    BY <2>2 DEF Loses, Fate
  <2>3. CASE m \notin Visible /\ m \notin OnTheWay' /\ m \in OnTheWay
    <3>1. send[m] # "idle"
      BY <2>3, IdleIsNew
    <3> QED
      BY <2>3, <3>1 DEF Loses, Fate
  <2>4. CASE m \notin Visible /\ m \notin OnTheWay
    BY <2>4 DEF Loses, Fate
  <2> QED
    BY <2>1, <2>2, <2>3, <2>4
<1>3. Fate' = [m \in Messages |-> IF m \in lost THEN "lost" ELSE Fate[m]]
  BY <1>2 DEF Fate
<1>4. Producer!Lose(lost)
  BY <1>1, <1>3 DEF Producer!Lose
<1> QED
  BY <1>4 DEF Producer!Next

(* A send is one of the producer.                                          *)
LEMMA SendRefines == ASSUME IInv, NEW m \in Messages, Send(m) PROVE Producer!Send(m)
<1>1. Visible' = Visible
  BY DEF Send, broker, Visible
<1>2. OnTheWay' = OnTheWay \cup {m}
  BY DEF Send, broker, network, OnTheWay, IInv, TypeOK
<1>3. m \notin Visible \cup OnTheWay
  BY IdleIsNew DEF Send
<1>4. \A n \in Messages : n # m => send'[n] = send[n]
  BY DEF Send, IInv, TypeOK
<1> QED
  BY <1>1, <1>2, <1>3, <1>4 DEF Producer!Send, Fate, Send

(* The broker keeps what the producer may leave there.                     *)
LEMMA ReplicateRefines == ASSUME IInv, Replicate PROVE [Producer!Next]_Fate
<1> DEFINE m == log[replicated + 1]
<1>1. m \in Messages
  BY DEF Replicate, IInv, TypeOK
<1>2. Visible' = Visible \cup {m}
  BY DEF Replicate, Visible, IInv, TypeOK
<1>3. OnTheWay' \cup {m} = OnTheWay /\ m \in OnTheWay
  BY DEF Replicate, network, OnTheWay, IInv, TypeOK
<1>4. CASE m \in Visible
  <2>1. \A n \in Messages : Fate'[n] = Fate[n]
    BY <1>2, <1>3, <1>4 DEF Fate, Replicate
  <2> QED
    BY <2>1 DEF Fate
<1>5. CASE m \notin Visible
  <2>1. Fate[m] = "pending" /\ Fate'[m] = "published"
    BY <1>1, <1>2, <1>3, <1>5 DEF Fate
  <2>2. \A n \in Messages : n # m => Fate'[n] = Fate[n]
    BY <1>2, <1>3 DEF Fate, Replicate
  <2>3. Producer!Publish(m)
    BY <1>1, <2>1, <2>2 DEF Producer!Publish, Fate
  <2> QED
    BY <1>1, <2>3 DEF Producer!Next
<1> QED
  BY <1>4, <1>5

(* The steps of a task, of the client library and the end of the process.  *)
LEMMA ProcessLoses ==
  ASSUME IInv, End \/ \E m \in Messages : TaskStep(m) \/ LibraryStep(m)
  PROVE  Loses
<1>1. Visible' = Visible /\ UNCHANGED broker
  BY DEF End, TaskStep, Enqueue, Refuse, QueueTimeout, LibraryStep, Transmit, Report,
         ReportError, Retry, MessageTimeout, broker, Visible
<1>2. \A m \in Messages : send'[m] = "idle" <=> send[m] = "idle"
  BY DEF End, TaskStep, Enqueue, Refuse, QueueTimeout, LibraryStep, Transmit, Report,
         ReportError, Retry, MessageTimeout, IInv, TypeOK
<1>3. \A m \in Messages : send'[m] \in {"spawned", "queued", "transmitted"} =>
                            send[m] \in {"spawned", "queued", "transmitted"}
  BY DEF End, TaskStep, Enqueue, Refuse, QueueTimeout, LibraryStep, Transmit, Report,
         ReportError, Retry, MessageTimeout, IInv, TypeOK
<1>4. \A m \in requests' : m \in requests \/ send[m] = "queued"
  BY DEF End, TaskStep, Enqueue, Refuse, QueueTimeout, LibraryStep, Transmit, Report,
         ReportError, Retry, MessageTimeout, network
<1>5. requests' \subseteq Messages
  BY DEF End, TaskStep, Enqueue, Refuse, QueueTimeout, LibraryStep, Transmit, Report,
         ReportError, Retry, MessageTimeout, network, IInv, TypeOK
<1>6. OnTheWay' \subseteq OnTheWay
  BY <1>1, <1>3, <1>4, <1>5 DEF OnTheWay, broker
<1> QED
  BY <1>1, <1>2, <1>6 DEF Loses

(* The steps of the broker but Replicate.                                  *)
LEMMA BrokerLoses == ASSUME IInv, BrokerStep, ~Replicate PROVE Loses
<1>1. ASSUME NEW m \in Messages, AppendToLog(m) PROVE Loses
  <2>1. /\ Len(log') = Len(log) + 1
        /\ log'[Len(log) + 1] = m
        /\ \A i \in 1..Len(log) : log'[i] = log[i]
    BY <1>1 DEF AppendToLog, IInv, TypeOK
  <2>2. Visible' = Visible
    BY <1>1, <2>1 DEF AppendToLog, Visible, IInv, TypeOK
  <2>3. \A i \in (replicated + 1)..Len(log') :
          \/ log'[i] = m
          \/ i \in (replicated + 1)..Len(log) /\ log'[i] = log[i]
    BY <2>1 DEF IInv, TypeOK
  <2>4. {log'[i] : i \in (replicated + 1)..Len(log')} \subseteq
          {m} \cup {log[i] : i \in (replicated + 1)..Len(log)}
    BY <2>3
  <2>5. m \in requests /\ requests' \subseteq requests /\ UNCHANGED <<send, replicated>>
    BY <1>1 DEF AppendToLog
  <2>6. OnTheWay' \subseteq OnTheWay
    BY <2>4, <2>5 DEF OnTheWay
  <2> QED
    BY <1>1, <2>2, <2>6 DEF AppendToLog, Loses
<1>2. ASSUME NEW m \in Messages, RefuseRequest(m) \/ LoseRequest(m) \/ LoseAnswer(m)
      PROVE  Loses
  BY <1>2 DEF RefuseRequest, LoseRequest, LoseAnswer, broker, Loses, Visible, OnTheWay
<1>3. CASE LeaderFails
  <2>1. /\ Len(log') = replicated
        /\ \A i \in 1..replicated : log'[i] = log[i]
    BY <1>3 DEF LeaderFails, IInv, TypeOK
  <2>2. Visible' = Visible
    BY <1>3, <2>1 DEF LeaderFails, Visible
  <2>3. {log'[i] : i \in (replicated + 1)..Len(log')} = {}
    BY <2>1 DEF IInv, TypeOK
  <2>4. OnTheWay' \subseteq OnTheWay
    BY <1>3, <2>3 DEF LeaderFails, network, OnTheWay
  <2> QED
    BY <1>3, <2>2, <2>4 DEF LeaderFails, Loses
<1>4. CASE Outage \/ Recover
  BY <1>4 DEF Outage, Recover, network, Loses, Visible, OnTheWay
<1> QED
  BY <1>1, <1>2, <1>3, <1>4 DEF BrokerStep

(* Every step is one of the producer, or none.                             *)
LEMMA StepRefines == IInv /\ [Next]_vars => [Producer!Next]_Fate
<1> SUFFICES ASSUME IInv, [Next]_vars PROVE [Producer!Next]_Fate
  OBVIOUS
<1>1. ASSUME NEW m \in Messages, Send(m) PROVE Producer!Next
  BY <1>1, SendRefines DEF Producer!Next
<1>2. CASE End \/ \E m \in Messages : TaskStep(m) \/ LibraryStep(m)
  BY <1>2, ProcessLoses, LosesRefines
<1>3. CASE Replicate
  BY <1>3, ReplicateRefines
<1>4. CASE BrokerStep /\ ~Replicate
  BY <1>4, BrokerLoses, LosesRefines
<1>5. CASE UNCHANGED vars
  BY <1>5 DEF vars, network, broker, Fate, Visible, OnTheWay
<1> QED
  BY <1>1, <1>2, <1>3, <1>4, <1>5 DEF Next

(* Every message is published for good or lost for good.                   *)
THEOREM QueueImplementsOutbox == Spec => ImplementsOutbox
<1>1. Spec => []IInv
  BY IInvCorrect
<1> QED
  BY <1>1, InitRefines, StepRefines, PTL DEF Spec, ImplementsOutbox, Producer!Spec
===============================================================================
