--------------------------- MODULE MCConsumerGroup ---------------------------
(* Instances of ConsumerGroup for TLC.  Consumers and partitions are       *)
(* interchangeable in the safety run, which has no liveness property.      *)
EXTENDS ConsumerGroup, TLC

Symmetry == Permutations(Consumers) \cup Permutations(Partitions)
==============================================================================
