--------------------------- MODULE GroupConsumers ---------------------------
(***************************************************************************)
(* ConsumerGroup composed with the steps of its consumers                  *)
(* (lib/exrdkafka/consumer.ex): what they have polled and not handled yet  *)
(* is in their hands while the group revokes, crashes and is assigned the  *)
(* partition again.                                                        *)
(*                                                                         *)
(* The group and librdkafka are those of ConsumerGroup, where a consumer   *)
(* delivers a message and stores its offset in one step.  Here it polls a  *)
(* few, calls the application, and stores the offset afterwards.  Time is  *)
(* left out (module Consumer has it): a callback may outlast the stop, and *)
(* a consumer that was sent a kill signal goes on until it arrives, if     *)
(* need be beside the consumer of the next assignment.                     *)
(***************************************************************************)
EXTENDS ConsumerGroup

CONSTANT BatchSize       \* the most messages one poll returns

ASSUME GroupConsumersAssumption == BatchSize \in Nat \ {0}

Modes == {"one_by_one", "batch"}

VARIABLES
    mode,        \* the topic's dispatch_mode
    work,        \* what each consumer does: see Works
    first, last  \* it has the offsets first .. last-1 in hand

workVars == <<mode, work, first, last>>
allVars  == <<vars, workVars>>

\* "loop": :poll_events is to come; "process": :process_messages is; "recv": about
\* to run recv_stop/0; "callback": in handle_message; "store": it returned {:ok, _}.
Works == {"loop", "process", "recv", "callback", "store"}

Goes(c, to) == work' = [work EXCEPT ![c] = to] /\ UNCHANGED <<mode, first, last>>

Takes(c, from, next) == first' = [first EXCEPT ![c] = from] /\ last' = [last EXCEPT ![c] = next]

\* What a consumer was at goes with its process.
Survive == /\ work'  = [c \in Consumers |-> IF c \in alive' THEN work[c] ELSE "loop"]
           /\ first' = [c \in Consumers |-> IF c \in alive' THEN first[c] ELSE 0]
           /\ last'  = [c \in Consumers |-> IF c \in alive' THEN last[c] ELSE 0]
           /\ UNCHANGED mode

-----------------------------------------------------------------------------
(* A consumer *)

\* What it polls after it was told to stop it does not handle any more.
Poll(c) ==
    LET p == c[1] IN
    /\ c \in alive \ told /\ work[c] = "loop" /\ queue[c] = "private"
    /\ p \in assigned /\ granted
    /\ \E next \in position[p] + 1 .. LogEnd :
          /\ next - position[p] <= BatchSize
          /\ Takes(c, position[p], next)
          /\ position' = [position EXCEPT ![p] = next]
    /\ work' = [work EXCEPT ![c] = "process"]
    /\ UNCHANGED <<groupVars, mailbox, consumerVars, clientVars, stored, committed, handled, mode>>

ProcessMessages(c) ==
    /\ c \in alive /\ work[c] = "process"
    /\ Goes(c, IF mode = "one_by_one" THEN "recv" ELSE "callback")
    /\ UNCHANGED vars

\* recv_stop/0 finds nothing, and the callback is called.
RecvNothing(c) ==
    /\ c \in alive \ told /\ work[c] = "recv"
    /\ Goes(c, "callback")
    /\ UNCHANGED vars

CallbackOk(c) ==
    LET p == c[1] IN
    /\ c \in alive /\ work[c] = "callback"
    /\ handled' = [handled EXCEPT ![p] = @ \union
                      IF mode = "one_by_one" THEN {first[c]} ELSE first[c] .. last[c] - 1]
    /\ Goes(c, "store")
    /\ UNCHANGED <<groupVars, mailbox, consumerVars, clientVars, position, stored, committed>>

\* Variant: a message whose callback failed is skipped.
CallbackErrorSkips(c) ==
    /\ c \in alive /\ work[c] = "callback"
    /\ Goes(c, "store")
    /\ UNCHANGED vars

CallbackError(c) ==
    /\ c \in alive /\ work[c] = "callback"
    /\ Goes(c, "recv")
    /\ UNCHANGED vars

CallbackRaises(c) ==
    /\ restarts < MaxRestarts /\ work[c] = "callback"
    /\ Dies(c)
    /\ Survive

\* Variant: the offset after the message is passed to librdkafka, which adds one.
StoredTwice(c) == IF mode = "one_by_one" THEN first[c] + 2 ELSE last[c] + 1

\* commit_offset/2, or the last offset of the batch.  It names the partition and not
\* the queue: a consumer that should be gone stores into the next assignment.
Stored(c) == IF mode = "one_by_one" THEN first[c] + 1 ELSE last[c]

StoreOffset(c) ==
    LET p == c[1] IN
    /\ c \in alive /\ work[c] = "store" /\ client # "closed" /\ p \in assigned /\ granted
    /\ stored' = [stored EXCEPT ![p] = Stored(c)]
    /\ IF Stored(c) < last[c]
         THEN work' = [work EXCEPT ![c] = "recv"] /\ Takes(c, Stored(c), last[c])
         ELSE work' = [work EXCEPT ![c] = "loop"] /\ Takes(c, 0, 0)
    /\ UNCHANGED <<groupVars, mailbox, consumerVars, clientVars, position, committed, handled, mode>>

\* The partition is not assigned: `:ok =` does not match the error.
StoreFails(c) ==
    /\ work[c] = "store" /\ client # "closed" /\ ~(c[1] \in assigned /\ granted)
    /\ Dies(c)
    /\ Survive

\* The consumer finds the stop message, between two messages or calls at the latest.
StopFound(c) == work[c] \in {"loop", "process", "recv"} /\ Stops(c) /\ Survive

Step(c) == \/ Poll(c) \/ ProcessMessages(c) \/ RecvNothing(c)
           \/ CallbackOk(c) \/ CallbackError(c) \/ CallbackRaises(c)
           \/ StoreOffset(c) \/ StoreFails(c) \/ StopFound(c)
           \/ KillArrives(c) /\ Survive

-----------------------------------------------------------------------------
(* The group *)

GroupStep == \/ \E parts \in SUBSET Partitions : AssignStarts(parts)
             \/ Rebalance \/ RevokeSent \/ RevokeRefused
             \/ \E p \in Partitions : Drop(p)
             \/ Group \/ CloseTimeout \/ SendShutdown \/ Closing \/ AutoCommit

ComposedInit == /\ Init
                /\ mode \in Modes
                /\ work = [c \in Consumers |-> "loop"]
                /\ first = [c \in Consumers |-> 0] /\ last = [c \in Consumers |-> 0]

ComposedNext == \/ GroupStep /\ Survive
                \/ \E c \in Consumers : Step(c)

ComposedSpec == ComposedInit /\ [][ComposedNext]_allVars

\* As in ConsumerGroup; besides, a consumer goes on, and the application does not
\* refuse a message for ever.
ComposedFairness ==
    /\ WF_allVars(Rebalance /\ Survive)
    /\ WF_allVars(Group /\ Survive)
    /\ WF_allVars(Closing /\ Survive)
    /\ \A c \in Consumers :
          /\ WF_allVars(Poll(c)) /\ WF_allVars(ProcessMessages(c)) /\ WF_allVars(RecvNothing(c))
          /\ SF_allVars(CallbackOk(c))
          /\ WF_allVars(StoreOffset(c)) /\ WF_allVars(StoreFails(c))
          /\ WF_allVars(StopFound(c)) /\ WF_allVars(KillArrives(c) /\ Survive)

ComposedLiveSpec == ComposedSpec /\ ComposedFairness

-----------------------------------------------------------------------------
(* Properties *)

\* No offset is stored or committed over a message that no callback has accepted,
\* whoever stores it: the consumer of the assignment, one that is told to stop, or one
\* of an earlier assignment that the kill signal has not reached.
NothingSkipped == \A p \in Partitions :
    0 .. stored[p] - 1 \subseteq handled[p] /\ 0 .. committed[p] - 1 \subseteq handled[p]

\* A callback is called only when all the messages before it were accepted, be it
\* by another consumer.
CallbacksInOrder == \A c \in alive :
    work[c] = "callback" => 0 .. first[c] - 1 \subseteq handled[c[1]]

\* The application handles a partition in one process at a time, but for a consumer
\* that has outlasted its stop and is killed.
OneHandler == \A c, d \in alive \ killed :
    c[1] = d[1] /\ work[c] = "callback" /\ work[d] = "callback" => c = d

\* A partition that stays assigned, by an rd_kafka_assign that did not fail, is
\* drained: it never keeps a consumer that has died or that does not go on.
AssignedIsDrained == \A p \in Partitions :
    <>[](p \in assigned /\ granted /\ client = "open") => <>(0 .. LogEnd - 1 \subseteq handled[p])
=============================================================================
