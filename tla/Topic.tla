-------------------------------- MODULE Topic --------------------------------
(***************************************************************************)
(* A Kafka topic as its readers, the members of one consumer group, see    *)
(* it.  JobSystem builds its two topics from these actions, and            *)
(* DeliveryQueue makes them into a specification that ConsumerGroup        *)
(* implements: what the services assume of a topic is what the consumers   *)
(* and their group provide.                                                *)
(***************************************************************************)

CONSTANT Members  \* the readers of the topic

VARIABLES
  sent,    \* messages appended to the topic
  held,    \* held[i]: messages i has finished with and not committed
  settled  \* messages the group has committed

topic == <<sent, held, settled>>

TopicInit ==
  /\ sent = {}
  /\ held = [i \in Members |-> {}]
  /\ settled = {}

Send(m) ==
  /\ sent' = sent \cup {m}
  /\ UNCHANGED <<held, settled>>

(* The group still has to deliver m: nobody holds it, nobody has committed *)
(* it.                                                                     *)
Waits(m) ==
  /\ m \in sent \ settled
  /\ \A i \in Members : m \notin held[i]

(* A member is given a message that waits, and finishes with it.           *)
Handle(i, m) ==
  /\ Waits(m)
  /\ held' = [held EXCEPT ![i] = @ \cup {m}]
  /\ UNCHANGED <<sent, settled>>

(* A member that has lost the partition finishes with a message all the    *)
(* same, whoever holds it: its offset counts for nothing.                  *)
HandleAgain(m) ==
  /\ m \in sent
  /\ UNCHANGED topic

(* A member lets go of the messages in gone; those in done are committed,  *)
(* and the others will be handled again.                                   *)
Release(i, gone, done) ==
  /\ done \subseteq gone
  /\ gone \subseteq held[i]
  /\ held' = [held EXCEPT ![i] = @ \ gone]
  /\ settled' = settled \cup done
  /\ UNCHANGED sent
==============================================================================
