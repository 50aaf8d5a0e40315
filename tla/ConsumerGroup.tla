--------------------------- MODULE ConsumerGroup ---------------------------
(***************************************************************************)
(* One consumer group client: the group's process                          *)
(* (lib/exrdkafka/consumer_group.ex), its consumers, the thread that calls *)
(* rebalance_cb, the queue manager (c_src/queuemanager.cc) and the thread  *)
(* that closes the client (c_src/exrdkafka_consumer.cc), around librdkafka.*)
(*                                                                         *)
(* A rebalance is a conversation of three: rebalance_cb takes the          *)
(* partition queues off the main queue and sends {:assign_partitions, _},  *)
(* the group starts a consumer for each partition; later                   *)
(* {:revoke_partitions, _} makes it stop them, one after the other, give   *)
(* the queues back and answer librdkafka.  Consumers crash, callbacks      *)
(* outlast the stop, the group crashes or is shut down at any point of it, *)
(* and what was sent to a group that is already terminating is lost.       *)
(*                                                                         *)
(* A consumer is reduced to what the group sees of it: it delivers the     *)
(* next message of its queue and stores the offset in one step (module     *)
(* Consumer has the steps in between).                                     *)
(***************************************************************************)
EXTENDS Integers, Sequences, FiniteSets

CONSTANTS
    Partitions,      \* what the subscribed topics consist of
    LogEnd,          \* each partition holds the offsets 0 .. LogEnd-1
    MaxRounds,       \* bound: the assignments librdkafka makes
    MaxRestarts,     \* bound: the restarts by the supervisor
    InitFails,       \* the application's init/4 may return an error
    EarlyFetch       \* messages may arrive while rebalance_cb still runs

ASSUME ConsumerGroupAssumption ==
    /\ LogEnd \in Nat /\ MaxRounds \in Nat /\ MaxRestarts \in Nat
    /\ {InitFails, EarlyFetch} \subseteq BOOLEAN

\* Each assignment creates new consumers, each with a queue of its own.
Rounds    == 1 .. MaxRounds
Consumers == Partitions \X Rounds

VARIABLES
    \* the group's process
    group,       \* "running", "closing" in terminate/2, "down", "ended"
    task,        \* what its handler does: see Tasks
    todo,        \* the partitions the handler is still to deal with
    current,     \* the {:assign_partitions, _} it handles or handled last
    waiting,     \* the consumer that stop/1 waits for, or Nobody
    restart,     \* the supervisor is to restart it
    restarts,    \* how often it has done so
    active,      \* active_topics_map: the round of each partition's consumer, or 0
    mailbox,     \* its messages, oldest first
    \* the consumers
    alive,       \* the processes
    told,        \* those that were sent {:stop, _, _}
    killed,      \* those that were sent a kill signal
    replied,     \* {:stopped, _} is in the group's mailbox
    \* the client in the NIF and librdkafka
    client,      \* "open", "stopping", "closing", "cleared", "closed"
    join,        \* librdkafka's side of the rebalance: see Joins
    round,       \* the number of assignments so far
    assigned,    \* the partitions handed to rebalance_cb and not given up since
    granted,     \* its rd_kafka_assign for them succeeded
    toAdd,       \* those whose queue rebalance_cb has still to take
    queue,       \* each consumer's queue: see QueueStates
    \* the partitions
    position,    \* the next offset librdkafka hands out
    stored,      \* the next offset to commit
    committed,   \* the committed offset
    handled      \* history: the offsets delivered at least once

groupVars    == <<group, task, todo, current, waiting, restart, restarts, active>>
consumerVars == <<alive, told, killed, replied>>
clientVars   == <<client, join, round, assigned, granted, toAdd, queue>>
offsetVars   == <<position, stored, committed, handled>>
vars == <<groupVars, mailbox, consumerVars, clientVars, offsetVars>>

Tasks == {"none", "assign", "revoke", "terminate"}
\* "assigning": rebalance_cb runs; "revoking": librdkafka waits for assign(NULL).
JoinStates == {"none", "assigning", "assigned", "revoking"}
\* "private": off the main queue, in queues_; "forwarded": back on the main
\* queue but not destroyed; "destroyed": back and destroyed.
QueueStates == {"none", "private", "forwarded", "destroyed"}

Assign(parts, r) == [kind |-> "assign", parts |-> parts, round |-> r]
Revoke(parts)    == [kind |-> "revoke", parts |-> parts]
ExitOf(c, why)   == [kind |-> "EXIT", from |-> c, reason |-> why]
Shutdown         == [kind |-> "shutdown"]

Nobody      == << >>
NoConsumers == [p \in Partitions |-> 0]
Active      == {p \in Partitions : active[p] # 0}
Consumer(p) == <<p, active[p]>>

\* A message reaches the group's process if there is one.
Sent(msg) == IF group \in {"running", "closing"} THEN Append(mailbox, msg) ELSE mailbox

\* A commit only moves forward.
Newer(p) == IF committed[p] < stored[p] THEN stored[p] ELSE committed[p]

\* A last commit, which may fail, before delivery falls back to what is committed.
Rewind(parts) == /\ committed' \in [Partitions -> 0 .. LogEnd]
                 /\ \A p \in Partitions :
                       committed'[p] \in {committed[p]} \union
                                         (IF p \in parts THEN {Newer(p)} ELSE {})
                 /\ stored' = committed' /\ position' = committed'

-----------------------------------------------------------------------------
(* librdkafka and the dispatcher's thread: rebalance_cb *)

\* rd_kafka_assign(rk, partitions), which may be none.  That it failed is only logged:
\* rebalance_cb goes on all the same.
AssignStarts(parts) ==
    /\ client = "open" /\ join = "none" /\ round < MaxRounds
    /\ join' = "assigning" /\ round' = round + 1 /\ granted' \in BOOLEAN
    /\ assigned' = parts /\ toAdd' = parts
    /\ UNCHANGED <<groupVars, mailbox, consumerVars, client, queue, offsetVars>>

\* enif_new_queue and QueueManager::add: from now on messages stay on the queue.
AddQueue(p) ==
    /\ join = "assigning" /\ p \in toAdd
    /\ toAdd' = toAdd \ {p}
    /\ queue' = [queue EXCEPT ![<<p, round>>] = "private"]
    /\ UNCHANGED <<groupVars, mailbox, consumerVars, client, join, round, assigned,
                   granted, offsetVars>>

\* Variant: the group is told before every queue is taken.
AssignSentEarly ==
    /\ join = "assigning"
    /\ join' = "assigned"
    /\ mailbox' = Sent(Assign(assigned, round))
    /\ UNCHANGED <<groupVars, consumerVars, client, round, assigned, granted, toAdd, queue,
                   offsetVars>>

AssignSent ==
    /\ join = "assigning" /\ toAdd = {}
    /\ join' = "assigned"
    /\ mailbox' = Sent(Assign(assigned, round))
    /\ UNCHANGED <<groupVars, consumerVars, client, round, assigned, granted, toAdd, queue,
                   offsetVars>>

\* revoke_partitions, for a revocation and for a rebalance error.
RevokeSent ==
    /\ client = "open" /\ join = "assigned"
    /\ join' = "revoking"
    /\ mailbox' = Sent(Revoke(assigned))
    /\ UNCHANGED <<groupVars, consumerVars, client, round, assigned, granted, toAdd, queue,
                   offsetVars>>

\* Once consumer_cleanup has cleared `running`, a revocation is answered here.
RevokeRefused ==
    /\ client = "stopping" /\ join = "assigned"
    /\ join' = "none" /\ assigned' = {}
    /\ Rewind(assigned)
    /\ UNCHANGED <<groupVars, mailbox, consumerVars, client, round, granted, toAdd, queue,
                   handled>>

\* A message lands on the main queue and do_poll drops it: the partition's queue
\* is not taken yet, or was given back already.
Drop(p) ==
    /\ client # "closed" /\ p \in assigned /\ granted /\ position[p] < LogEnd
    /\ \/ EarlyFetch /\ p \in toAdd
       \/ p \notin toAdd /\ queue[<<p, round>>] # "private"
    /\ position' = [position EXCEPT ![p] = @ + 1]
    /\ UNCHANGED <<groupVars, mailbox, consumerVars, clientVars, stored, committed, handled>>

AutoCommit ==
    /\ client # "closed" /\ \E p \in Partitions : committed[p] < stored[p]
    /\ committed' = [p \in Partitions |-> Newer(p)]
    /\ UNCHANGED <<groupVars, mailbox, consumerVars, clientVars, position, stored, handled>>

-----------------------------------------------------------------------------
(* The consumers *)

\* Variant: the offset after the message is passed to librdkafka, which adds one.
DeliverStoresNext(c) ==
    LET p == c[1] IN
    /\ c \in alive \ told /\ queue[c] = "private" /\ position[p] < LogEnd
    /\ p \in assigned /\ granted
    /\ handled' = [handled EXCEPT ![p] = @ \union {position[p]}]
    /\ stored' = [stored EXCEPT ![p] = position[p] + 2]
    /\ position' = [position EXCEPT ![p] = @ + 1]
    /\ UNCHANGED <<groupVars, mailbox, consumerVars, clientVars, committed>>

Deliver(c) ==
    LET p == c[1] IN
    /\ c \in alive \ told /\ queue[c] = "private" /\ position[p] < LogEnd
    /\ p \in assigned /\ granted
    /\ handled' = [handled EXCEPT ![p] = @ \union {position[p]}]
    /\ stored' = [stored EXCEPT ![p] = position[p] + 1]
    /\ position' = [position EXCEPT ![p] = @ + 1]
    /\ UNCHANGED <<groupVars, mailbox, consumerVars, clientVars, committed>>

\* The process is gone and the linked group is told.  Its reason is only logged; what
\* the model keeps of it is whether the group had sent the process a kill signal.
Cause(c) == IF c \in killed THEN "killed" ELSE "error"

Dies(c) ==
    /\ c \in alive
    /\ alive' = alive \ {c} /\ killed' = killed \ {c}
    /\ mailbox' = Sent(ExitOf(c, Cause(c)))
    /\ UNCHANGED <<groupVars, told, replied, clientVars, offsetVars>>

\* The callback raises, or the kill signal arrives.
Crash(c)       == restarts < MaxRestarts /\ Dies(c)
KillArrives(c) == c \in killed /\ Dies(c)

\* The consumer finds the stop message and answers.  handle_info drops an answer
\* nobody waits for, and the exit, whose reason is :normal.
Stops(c) ==
    /\ c \in alive \intersect told
    /\ alive' = alive \ {c} /\ killed' = killed \ {c}
    /\ replied' = (replied \/ waiting = c)
    /\ UNCHANGED <<groupVars, mailbox, told, clientVars, offsetVars>>

-----------------------------------------------------------------------------
(* The group's process *)

\* It takes the oldest message.
IsNext(kind) == /\ group = "running" /\ task = "none"
                /\ mailbox # << >> /\ Head(mailbox).kind = kind

Receive(kind) == IsNext(kind) /\ mailbox' = Tail(mailbox)

\* Variant: the consumers are left to the links.
TerminatesAtOnce(again) == task' = "terminate" /\ todo' = {} /\ restart' = again

Terminates(again) == task' = "terminate" /\ todo' = Active /\ restart' = again

HandleAssign ==
    /\ Receive("assign")
    /\ task' = IF Head(mailbox).parts = {} THEN "none" ELSE "assign"
    /\ todo' = Head(mailbox).parts /\ current' = Head(mailbox)
    /\ UNCHANGED <<group, waiting, restart, restarts, active, consumerVars, clientVars, offsetVars>>

\* Variant: the accumulator of the reduction is lost.
StartConsumerLast(p) ==
    /\ task = "assign" /\ p \in todo
    /\ alive' = alive \union {<<p, current.round>>}
    /\ todo' = todo \ {p}
    /\ IF todo = {p}
         THEN active' = [active EXCEPT ![p] = current.round] /\ task' = "none"
         ELSE UNCHANGED <<active, task>>
    /\ UNCHANGED <<group, current, waiting, restart, restarts, mailbox, told, killed, replied,
                   clientVars, offsetVars>>

\* One turn of part_fun; the state takes the new map after the last one.
StartConsumer(p) ==
    /\ task = "assign" /\ p \in todo
    /\ alive' = alive \union {<<p, current.round>>}
    /\ todo' = todo \ {p}
    /\ IF todo = {p}
         THEN /\ active' = [q \in Partitions |-> IF q \in current.parts THEN current.round
                                                                      ELSE active[q]]
              /\ task' = "none"
         ELSE UNCHANGED <<active, task>>
    /\ UNCHANGED <<group, current, waiting, restart, restarts, mailbox, told, killed, replied,
                   clientVars, offsetVars>>

\* {:ok, pid} = does not match: the handler raises and the map is the old one.
StartFails(p) ==
    /\ InitFails /\ task = "assign" /\ p \in todo
    /\ Terminates(TRUE)
    /\ UNCHANGED <<group, current, waiting, restarts, active, mailbox, consumerVars, clientVars,
                   offsetVars>>

HandleRevoke ==
    /\ Receive("revoke")
    /\ task' = "revoke" /\ todo' = Head(mailbox).parts
    /\ UNCHANGED <<group, current, waiting, restart, restarts, active, consumerVars, clientVars,
                   offsetVars>>

\* Variant: the death of a consumer never matters.
HandleExitIgnored ==
    /\ Receive("EXIT")
    /\ UNCHANGED <<groupVars, consumerVars, clientVars, offsetVars>>

\* A consumer died: the group restarts unless its map is empty.
HandleExit ==
    /\ Receive("EXIT")
    /\ IF Active = {} THEN UNCHANGED <<task, todo, restart>> ELSE Terminates(TRUE)
    /\ UNCHANGED <<group, current, waiting, restarts, active, consumerVars, clientVars, offsetVars>>

HandleShutdown ==
    /\ Receive("shutdown")
    /\ Terminates(FALSE)
    /\ UNCHANGED <<group, current, waiting, restarts, active, consumerVars, clientVars, offsetVars>>

\* stop_consumers/1 is done with the partition: consumer_queue_cleanup.
QueueCleanup(c) == /\ queue' = [queue EXCEPT ![c] = "destroyed"]
                   /\ todo' = todo \ {c[1]}
                   /\ waiting' = Nobody

StopConsumer(p) ==
    /\ task \in {"revoke", "terminate"} /\ waiting = Nobody /\ p \in todo
    /\ IF Consumer(p) \in alive
         THEN /\ told' = told \union {Consumer(p)}
              /\ waiting' = Consumer(p)
              /\ UNCHANGED <<queue, todo>>
         ELSE QueueCleanup(Consumer(p)) /\ UNCHANGED told
    /\ UNCHANGED <<group, task, current, restart, restarts, active, mailbox, alive, killed, replied,
                   client, join, round, assigned, granted, toAdd, offsetVars>>

StopAnswered ==
    /\ waiting # Nobody /\ replied
    /\ replied' = FALSE
    /\ QueueCleanup(waiting)
    /\ UNCHANGED <<group, task, current, restart, restarts, active, mailbox, alive, told, killed,
                   client, join, round, assigned, granted, toAdd, offsetVars>>

\* Variant: a process that is gone is killed for ever.
StopTimeoutBlind ==
    /\ waiting # Nobody /\ ~replied
    /\ killed' = killed \union {waiting}
    /\ QueueCleanup(waiting)
    /\ UNCHANGED <<group, task, current, restart, restarts, active, mailbox, alive, told, replied,
                   client, join, round, assigned, granted, toAdd, offsetVars>>

\* after 5000 -> Process.exit(pid, :kill), also when it died after it was asked.
StopTimeout ==
    /\ waiting # Nobody /\ ~replied
    /\ killed' = killed \union ({waiting} \intersect alive)
    /\ QueueCleanup(waiting)
    /\ UNCHANGED <<group, task, current, restart, restarts, active, mailbox, alive, told, replied,
                   client, join, round, assigned, granted, toAdd, offsetVars>>

\* Variant: librdkafka is answered before the consumers have stopped.
RevokeCompletedEarly ==
    /\ task = "revoke"
    /\ task' = "none" /\ todo' = {} /\ active' = NoConsumers
    /\ join' = "none" /\ assigned' = {}
    /\ Rewind(assigned)
    /\ UNCHANGED <<group, current, waiting, restart, restarts, mailbox, consumerVars, client,
                   round, granted, toAdd, queue, handled>>

\* Variant: librdkafka is not answered.
RevokeCompletedSilently ==
    /\ task = "revoke" /\ todo = {}
    /\ task' = "none" /\ active' = NoConsumers
    /\ UNCHANGED <<group, todo, current, waiting, restart, restarts, mailbox, consumerVars,
                   clientVars, offsetVars>>

\* consumer_partition_revoke_completed: rd_kafka_assign(kf, NULL).
RevokeCompleted ==
    /\ task = "revoke" /\ todo = {}
    /\ task' = "none" /\ active' = NoConsumers
    /\ join' = "none" /\ assigned' = {}
    /\ Rewind(assigned)
    /\ UNCHANGED <<group, todo, current, waiting, restart, restarts, mailbox, consumerVars, client,
                   round, granted, toAdd, queue, handled>>

\* consumer_cleanup, its first half: consumer->running = false.
ConsumerCleanup ==
    /\ task = "terminate" /\ todo = {}
    /\ task' = "none" /\ group' = "closing"
    /\ client' = "stopping"
    /\ UNCHANGED <<todo, current, waiting, restart, restarts, active, mailbox, consumerVars, join,
                   round, assigned, granted, toAdd, queue, offsetVars>>

\* Variant: the client leaves the dispatcher's table without its lock.
NotifierRemoveUnlocked ==
    /\ client = "stopping"
    /\ client' = "closing"
    /\ UNCHANGED <<groupVars, mailbox, consumerVars, join, round, assigned, granted, toAdd, queue,
                   offsetVars>>

\* Variant: the client is closed only when it has no assignment.
NotifierRemoveIdle ==
    /\ client = "stopping" /\ join = "none"
    /\ client' = "closing"
    /\ UNCHANGED <<groupVars, mailbox, consumerVars, join, round, assigned, granted, toAdd, queue,
                   offsetVars>>

\* The second half: the dispatcher's lock keeps it waiting while rebalance_cb
\* runs, then another thread closes the client.
NotifierRemove ==
    /\ client = "stopping" /\ join # "assigning"
    /\ client' = "closing"
    /\ UNCHANGED <<groupVars, mailbox, consumerVars, join, round, assigned, granted, toAdd, queue,
                   offsetVars>>

\* terminate/2 returns: the links take the consumers down, and the queues that
\* nothing refers to any more are freed.
GroupEnds ==
    /\ group' = IF restart THEN "down" ELSE "ended"
    /\ mailbox' = << >> /\ active' = NoConsumers
    /\ alive' = {} /\ told' = {} /\ killed' = {} /\ replied' = FALSE
    /\ queue' = [c \in Consumers |-> IF queue[c] = "private" THEN "destroyed" ELSE queue[c]]
    /\ UNCHANGED <<task, todo, current, waiting, restart, restarts, client, join, round, assigned,
                   granted, toAdd, offsetVars>>

ClientStopped == group = "closing" /\ client = "closed" /\ GroupEnds

\* after 180_000.
CloseTimeout == group = "closing" /\ client \in {"closing", "cleared"} /\ GroupEnds

\* The supervisor's restart: a new client; the old one, if it is still closing,
\* shares nothing with it.
Restart ==
    /\ group = "down" /\ restarts < MaxRestarts
    /\ group' = "running" /\ restarts' = restarts + 1 /\ restart' = FALSE
    /\ client' = "open" /\ join' = "none" /\ assigned' = {} /\ toAdd' = {}
    /\ Rewind(assigned)
    /\ UNCHANGED <<task, todo, current, waiting, active, mailbox, consumerVars, round, granted,
                   queue, handled>>

SendShutdown ==
    /\ group = "running" /\ \A i \in DOMAIN mailbox : mailbox[i].kind # "shutdown"
    /\ mailbox' = Append(mailbox, Shutdown)
    /\ UNCHANGED <<groupVars, consumerVars, clientVars, offsetVars>>

-----------------------------------------------------------------------------
(* The thread that closes the client: cleanup_consumer *)

ClearAll ==
    /\ client = "closing"
    /\ client' = "cleared"
    /\ queue' = [c \in Consumers |-> IF queue[c] = "private" THEN "forwarded" ELSE queue[c]]
    /\ UNCHANGED <<groupVars, mailbox, consumerVars, join, round, assigned, granted, toAdd,
                   offsetVars>>

\* rd_kafka_consumer_close, rd_kafka_destroy, kf = nullptr, client_stopped.
Close ==
    /\ client = "cleared"
    /\ client' = "closed" /\ join' = "none" /\ assigned' = {}
    /\ Rewind(assigned)
    /\ UNCHANGED <<groupVars, mailbox, consumerVars, round, granted, toAdd, queue,
                   handled>>

-----------------------------------------------------------------------------
Init ==
    /\ group = "running" /\ task = "none" /\ todo = {} /\ current = Assign({}, 0)
    /\ waiting = Nobody /\ restart = FALSE /\ restarts = 0
    /\ active = NoConsumers /\ mailbox = << >>
    /\ alive = {} /\ told = {} /\ killed = {} /\ replied = FALSE
    /\ client = "open" /\ join = "none" /\ round = 0
    /\ assigned = {} /\ granted = FALSE /\ toAdd = {}
    /\ queue = [c \in Consumers |-> "none"]
    /\ position = [p \in Partitions |-> 0] /\ stored = [p \in Partitions |-> 0]
    /\ committed = [p \in Partitions |-> 0] /\ handled = [p \in Partitions |-> {}]

Rebalance == \/ \E p \in Partitions : AddQueue(p)
             \/ AssignSent

Group == \/ HandleAssign \/ HandleRevoke \/ HandleExit \/ HandleShutdown
         \/ \E p \in Partitions : StartConsumer(p) \/ StartFails(p) \/ StopConsumer(p)
         \/ StopAnswered \/ StopTimeout \/ RevokeCompleted
         \/ ConsumerCleanup \/ ClientStopped \/ Restart

Closing == NotifierRemove \/ ClearAll \/ Close

Next == \/ \E parts \in SUBSET Partitions : AssignStarts(parts)
        \/ Rebalance \/ RevokeSent \/ RevokeRefused
        \/ \E p \in Partitions : Drop(p)
        \/ \E c \in Consumers : Deliver(c) \/ Crash(c) \/ KillArrives(c) \/ Stops(c)
        \/ Group \/ CloseTimeout \/ SendShutdown \/ Closing \/ AutoCommit

Spec == Init /\ [][Next]_vars

\* The dispatcher, the group, a consumer that is to stop and the closing thread
\* are scheduled; consumer_close ends.
Fairness == /\ WF_vars(Rebalance) /\ WF_vars(Group) /\ WF_vars(Closing)
            /\ \A c \in Consumers : WF_vars(Stops(c)) /\ WF_vars(KillArrives(c))

LiveSpec == Spec /\ Fairness

-----------------------------------------------------------------------------
(* Properties *)

Messages == [kind : {"assign"}, parts : SUBSET Partitions, round : Rounds]
              \union [kind : {"revoke"}, parts : SUBSET Partitions]
              \union [kind : {"EXIT"}, from : Consumers, reason : {"error", "killed"}]
              \union {Shutdown}

TypeOK ==
    /\ group \in {"running", "closing", "down", "ended"} /\ task \in Tasks
    /\ todo \subseteq Partitions /\ waiting \in Consumers \union {Nobody}
    /\ current \in [kind : {"assign"}, parts : SUBSET Partitions, round : 0 .. MaxRounds]
    /\ restart \in BOOLEAN /\ restarts \in 0 .. MaxRestarts
    /\ active \in [Partitions -> 0 .. MaxRounds]
    /\ mailbox \in Seq(Messages)
    /\ alive \subseteq Consumers /\ told \subseteq Consumers /\ killed \subseteq alive
    /\ replied \in BOOLEAN
    /\ client \in {"open", "stopping", "closing", "cleared", "closed"}
    /\ join \in JoinStates /\ round \in 0 .. MaxRounds
    /\ assigned \subseteq Partitions /\ toAdd \subseteq assigned /\ granted \in BOOLEAN
    /\ queue \in [Consumers -> QueueStates]
    /\ {position, stored, committed} \subseteq [Partitions -> 0 .. LogEnd]
    /\ handled \in [Partitions -> SUBSET (0 .. LogEnd - 1)]

\* Every partition the group is told to give up is in its map: otherwise
\* Map.get/2 returns nil and stop_consumers/1 raises (consumer_group.ex:170-174).
RevokedAreActive == task = "revoke" => todo \subseteq Active

\* A consumer that is not stopping works for the last assignment that rebalance_cb
\* was handed and has its partition to itself, with its queue off the main queue: two
\* consumers never work on a partition, and no queue is polled after it was given
\* back, when its events would be the client's (the ASSERT of
\* exrdkafka_consumer.cc:367).  Whether librdkafka took the assignment is another
\* matter: that rd_kafka_assign failed is only logged (:112-118), the queues are taken
\* and the consumers started as if it had not.
PollsOwnQueue == \A c \in alive \ told :
    c[2] = round /\ c[1] \in assigned /\ queue[c] = "private"

\* The client is closed and destroyed only when its consumers have ended, or are
\* about to by a kill signal: they use its rd_kafka_t to store offsets.
ConsumersEndFirst == client \in {"closing", "cleared", "closed"} => alive \subseteq killed

\* exrdkafka_consumer.cc:53: "make sure queues are forwarded back on the main
\* queue before closing", also the queues of an assignment that was under way
\* when the group gave up and whose message it never saw.
ForwardedBeforeClose ==
    client \in {"cleared", "closed"} => \A c \in Consumers : queue[c] # "private"

\* Those of the consumers the group knows of, dead ones too, are destroyed one by one.
DestroyedBeforeClose ==
    group = "closing" => \A p \in Active : queue[Consumer(p)] = "destroyed"

\* However the group ends, no partition queue is left off the main queue, nor held.
QueuesReturned == ForwardedBeforeClose /\ DestroyedBeforeClose

\* A crash restarts the group only if it is one of the current assignment: the
\* crash of an earlier consumer has been seen, and ignored, before the next
\* assignment.  The exit of a consumer that the group itself has killed may come
\* later, and then the group does restart over it.
BlamesCurrentConsumer == IsNext("EXIT") /\ Active # {} =>
    LET exit == Head(mailbox)
    IN  exit.reason = "killed" \/ Consumer(exit.from[1]) = exit.from

\* Each partition is delivered in order and at least once, over rebalances,
\* crashes and restarts (PartitionDelivery).
Delivery(p) == INSTANCE PartitionDelivery
                 WITH cursor <- stored[p], accepted <- handled[p], durable <- committed[p]

DeliversPartitions ==
    /\ \A p \in Partitions : Delivery(p)!Init
    /\ [][\A p \in Partitions : Delivery(p)!Next \/ UNCHANGED Delivery(p)!vars]_vars

\* No offset is stored over a message that was not delivered.  In the words of
\* queuecallbacksdispatcher.cc:161 the messages that do_poll drops "have no
\* impact because offset is not changed".
DroppedHaveNoImpact == \A p \in Partitions : 0 .. stored[p] - 1 \subseteq handled[p]

\* exrdkafka_consumer.cc:367: "ASSERT(rd_kafka_event_type(event) ==
\* RD_KAFKA_EVENT_FETCH)", that is, a polled queue is the partition's own and
\* not the client's main queue with its other events.
PolledQueuesAreTaken == \A c \in alive \ told : queue[c] # "forwarded"

\* librdkafka is always answered: a revocation ends, be it because the group
\* stops its consumers or because the client is closed under it.
RevokeAnswered == join = "revoking" ~> join # "revoking"

\* terminate/2 ends.
GroupStops == task = "terminate" ~> group \in {"down", "ended"}
=============================================================================
