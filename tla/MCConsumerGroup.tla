-------------------------- MODULE MCConsumerGroup --------------------------
(* ConsumerGroup on one or two partitions, which are interchangeable.      *)
EXTENDS ConsumerGroup, TLC

CONSTANTS t0, t1

OnePartition  == {t0}
TwoPartitions == {t0, t1}
Symmetry      == Permutations(TwoPartitions)
=============================================================================
