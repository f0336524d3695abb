---------------------------- MODULE DeliveryQueue ----------------------------
(***************************************************************************)
(* What the services expect of a Kafka topic read by one consumer group:   *)
(* at-least-once delivery, and no more than once without a reason.  The    *)
(* group commits only messages that a member has finished with, for good;  *)
(* no two members hold the same message; and it takes a disturbance - a    *)
(* crash, a stop, an eviction, a rebalance - for a message to be let go    *)
(* uncommitted, or to be handled by a member that lost it.                 *)
(*                                                                         *)
(* ConsumerGroup is shown to implement this specification.                 *)
(***************************************************************************)
EXTENDS Topic

CONSTANT Messages   \* everything a producer may send

VARIABLES
  seen,      \* messages some member has finished with
  disturbed  \* a member was disturbed

vars == <<topic, seen, disturbed>>

Init ==
  /\ TopicInit
  /\ seen = {}
  /\ disturbed = FALSE

Publish ==
  /\ \E m \in Messages \ sent : Send(m)
  /\ UNCHANGED seen

Finish ==
  \E m \in sent :
    /\ (\E i \in Members : Handle(i, m)) \/ (disturbed' /\ HandleAgain(m))
    /\ seen' = seen \cup {m}

(* Offsets are cumulative: many messages may be committed at once.         *)
LetGo ==
  /\ \E i \in Members : \E gone \in SUBSET held[i] : \E done \in SUBSET gone :
       Release(i, gone, done) /\ (done # gone => disturbed')
  /\ UNCHANGED seen

Disturb ==
  /\ disturbed'
  /\ UNCHANGED <<topic, seen>>

Next ==
  /\ Publish \/ Finish \/ LetGo \/ Disturb
  /\ disturbed => disturbed'

Spec == Init /\ [][Next]_vars
==============================================================================
