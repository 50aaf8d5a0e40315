-------------------------- MODULE MCGroupConsumers --------------------------
(* GroupConsumers on one partition, where the consumers of two assignments *)
(* may meet.                                                               *)
EXTENDS GroupConsumers

CONSTANT t0

OnePartition == {t0}
=============================================================================
