------------------------- MODULE PartitionDelivery -------------------------
(***************************************************************************)
(* What a consumer group promises an application about one partition:      *)
(* ordered, at-least-once delivery.                                        *)
(*                                                                         *)
(* The application is offered the messages of the partition in offset      *)
(* order, starting where the group's committed offset says.  Offsets may   *)
(* be committed only up to what the application has accepted, and whenever *)
(* the consumer is replaced delivery falls back, at most to the committed  *)
(* offset, so that a message may be accepted twice but never skipped.      *)
(***************************************************************************)
EXTENDS Integers

CONSTANT LogEnd            \* the partition holds the offsets 0 .. LogEnd-1

VARIABLES cursor,          \* the next offset the application is to accept
          accepted,        \* the offsets it has accepted at least once
          durable          \* the committed offset: the next one after a restart

vars == <<cursor, accepted, durable>>

Init == cursor = 0 /\ accepted = {} /\ durable = 0

\* The application accepts the next message, or the next messages as a batch.
Accept == \E next \in cursor + 1 .. LogEnd :
             /\ accepted' = accepted \union (cursor .. next - 1)
             /\ cursor' = next
             /\ UNCHANGED durable

\* A commit moves the durable offset forward, never past the cursor.
Commit == /\ durable' \in durable + 1 .. cursor
          /\ UNCHANGED <<cursor, accepted>>

\* The consumer is replaced: some of what was not committed is offered again.
FallBack == /\ cursor' \in durable .. cursor
            /\ UNCHANGED <<accepted, durable>>

\* A last commit on the way out and the fall back to it, in one step.
CommitAndFallBack == /\ durable' \in durable .. cursor
                     /\ cursor' = durable'
                     /\ UNCHANGED accepted

Next == Accept \/ Commit \/ FallBack \/ CommitAndFallBack

Spec == Init /\ [][Next]_vars
=============================================================================
