-------------------------------- MODULE Outbox --------------------------------
(***************************************************************************)
(* What the rest of the system expects of MessageProducer::send, and what  *)
(* JobSystem makes of it (sending, replying and the topics): the call      *)
(* leaves the message behind and returns; the message is published once    *)
(* and for all, or lost for good.  Nobody is told which.  ProducerQueue    *)
(* implements it.                                                          *)
(***************************************************************************)

CONSTANT Messages  \* the messages given to send, one per call

VARIABLE fate  \* fate[m]: new, pending, published or lost

Init == fate = [m \in Messages |-> "new"]

Send(m) ==
  /\ fate[m] = "new"
  /\ fate' = [fate EXCEPT ![m] = "pending"]

Publish(m) ==
  /\ fate[m] = "pending"
  /\ fate' = [fate EXCEPT ![m] = "published"]

(* Several messages may be lost at once, with a process or a leader.       *)
Lose(lost) ==
  /\ \A m \in lost : fate[m] = "pending"
  /\ fate' = [m \in Messages |-> IF m \in lost THEN "lost" ELSE fate[m]]

Next ==
  \/ \E m \in Messages : Send(m) \/ Publish(m)
  \/ \E lost \in SUBSET Messages : Lose(lost)

Spec == Init /\ [][Next]_fate
===============================================================================
