------------------------------ MODULE Producer ------------------------------
(***************************************************************************)
(* A producer client: its process (lib/exrdkafka/producer.ex) with the     *)
(* queue on disk (local_queue.ex), the processes that produce through it   *)
(* (lib/exrdkafka.ex) and the client in the NIF                            *)
(* (c_src/exrdkafka_producer.cc), around librdkafka.                       *)
(*                                                                         *)
(* A message takes one of two ways.  produce/7, produce_sync/7 and         *)
(* produce_batch/2 run in the caller, which reads the client's reference   *)
(* from the cache and hands the message to librdkafka.  queue_event/7 asks *)
(* the process to keep it on disk, with a call that may time out although  *)
(* it will be served; a timer makes the process replay the disk queue, at  *)
(* most MaxBatch messages at a time.  The process may crash at any point   *)
(* and is restarted with the same client, while reports go to owner_pid    *)
(* and callers to the pid they have read.                                  *)
(*                                                                         *)
(* A full librdkafka queue is reported as a number, which no clause of     *)
(* produce/7 and consume_queue/3 matches: both take it for any other error.*)
(***************************************************************************)
EXTENDS Integers, Sequences

CONSTANTS
    Messages,        \* what the application produces, each once
    Leftover,        \* the messages an earlier run of the node left on disk
    MaxBatch,        \* @max_queue_process_msg
    MaxCrashes       \* bound: the crashes of the process

ASSUME ProducerAssumption ==
    /\ MaxBatch \in Nat \ {0} /\ MaxCrashes \in Nat
    /\ Leftover \in Seq(Messages)

VARIABLES
    \* the process
    pc,          \* see Phases
    life,        \* the number of its incarnation, which stands for the pid
    left,        \* n: how many messages this replay may still handle
    sch,         \* pqueue_sch
    timers,      \* the :consume_queue messages sent or under way to it
    requests,    \* the messages whose {:queue_event, _} is in its mailbox
    \* what outlives it
    strategy,    \* queue_buffering_overflow_strategy
    disk,        \* the queue on disk, oldest first
    cached,      \* the pid in the cache, or 0 without an entry
    owner,       \* owner_pid in the NIF, or 0
    client,      \* "open", "flushing", "stopped"
    inLib,       \* the messages librdkafka has still to report on
    \* the callers
    call,        \* see Calls
    target,      \* the pid a caller has read from the cache
    tried        \* history: the messages handed to librdkafka

processVars == <<pc, life, left, sch, timers, requests>>
clientVars  == <<owner, client, inLib>>
callVars    == <<call, target>>
vars == <<processVars, strategy, disk, cached, clientVars, callVars, tried>>

\* "init", "owned", "cached": init/1; "replay": between two messages of
\* consume_queue/3; "offered": the head was handed over; "stopping": terminate/2.
Phases == {"init", "owned", "cached", "idle", "replay", "offered", "stopping", "down", "ended"}
Alive  == Phases \ {"down", "ended"}
\* "declined": the overflow strategy came back; "sent": produce_batch/2, whose
\* :ok promises nothing.
Calls == {"new", "looked", "waiting", "ok", "sent", "declined", "error"}

Strategies == {"local_disk_queue", "block_calling_process", "drop_records"}

\* The callers that wait for the process are told of its end.
CallersFail == call' = [m \in Messages |-> IF call[m] = "waiting" THEN "error" ELSE call[m]]

Answer(m, result) == call' = [call EXCEPT ![m] = result]

-----------------------------------------------------------------------------
(* The callers *)

\* CacheClient.get/1
Lookup(m) ==
    /\ call[m] = "new"
    /\ Answer(m, IF cached = 0 THEN "error" ELSE "looked")
    /\ target' = [target EXCEPT ![m] = cached]
    /\ UNCHANGED <<processVars, strategy, disk, cached, clientVars, tried>>

\* rd_kafka_produce or rd_kafka_producev takes the message.
Taken(m) == tried' = tried \union {m} /\ inLib' = inLib \union {m}

Refused == UNCHANGED <<tried, inLib>>

\* Variant: the result of rd_kafka_produce is not looked at.
ProduceUnchecked(m) ==
    /\ call[m] = "looked"
    /\ Taken(m) \/ Refused
    /\ Answer(m, "ok")
    /\ UNCHANGED <<processVars, strategy, disk, cached, owner, client, target>>

\* produce/7: the queue may be full, or the message too large.
Produce(m) ==
    /\ call[m] = "looked"
    /\ \/ Taken(m) /\ Answer(m, "ok")
       \/ Refused /\ Answer(m, "error")
    /\ UNCHANGED <<processVars, strategy, disk, cached, owner, client, target>>

\* produce_sync/7: rd_kafka_flush has a millisecond, then the call fails although
\* the message was taken.
ProduceSync(m) ==
    /\ call[m] = "looked"
    /\ \/ Taken(m) /\ \E result \in {"ok", "error"} : Answer(m, result)
       \/ Refused /\ Answer(m, "error")
    /\ UNCHANGED <<processVars, strategy, disk, cached, owner, client, target>>

\* produce_batch/2 does not look at the result of rd_kafka_producev.
ProduceBatch(m) ==
    /\ call[m] = "looked"
    /\ Taken(m) \/ Refused
    /\ Answer(m, "sent")
    /\ UNCHANGED <<processVars, strategy, disk, cached, owner, client, target>>

\* queue_event/7: safe_call to the pid, which may have died since.
QueueEvent(m) ==
    /\ call[m] = "looked"
    /\ IF target[m] = life /\ pc \in Alive
         THEN requests' = requests \union {m} /\ Answer(m, "waiting")
         ELSE UNCHANGED requests /\ Answer(m, "error")
    /\ UNCHANGED <<pc, life, left, sch, timers, strategy, disk, cached, clientVars, target, tried>>

\* After five seconds the caller gives up; its request stays in the mailbox.
CallTimeout(m) ==
    /\ call[m] = "waiting"
    /\ Answer(m, "error")
    /\ UNCHANGED <<processVars, strategy, disk, cached, clientVars, target, tried>>

-----------------------------------------------------------------------------
(* The process: init/1 *)

\* Variant: a client that has an owner keeps it.
InitOwnerOnce ==
    /\ pc = "init"
    /\ pc' = "owned" /\ owner' = IF owner = 0 THEN life ELSE owner
    /\ UNCHANGED <<life, left, sch, timers, requests, strategy, disk, cached, client, inLib,
                   callVars, tried>>

\* producer_set_owner
InitOwner ==
    /\ pc = "init"
    /\ pc' = "owned" /\ owner' = life
    /\ UNCHANGED <<life, left, sch, timers, requests, strategy, disk, cached, client, inLib,
                   callVars, tried>>

\* CacheClient.set: from here on callers reach it.
InitCache ==
    /\ pc = "owned"
    /\ pc' = "cached" /\ cached' = life
    /\ UNCHANGED <<life, left, sch, timers, requests, strategy, disk, clientVars, callVars, tried>>

\* LocalQueue.new, and the first replay at once.
InitQueue ==
    /\ pc = "cached"
    /\ pc' = "idle" /\ sch' = TRUE
    /\ timers' = IF strategy = "local_disk_queue" THEN 1 ELSE 0
    /\ UNCHANGED <<life, left, requests, strategy, disk, cached, clientVars, callVars, tried>>

-----------------------------------------------------------------------------
(* The process: its handlers *)

\* Variant: the timer is started whether or not one is under way.
HandleQueueEventTimer(m) ==
    /\ pc = "idle" /\ m \in requests
    /\ requests' = requests \ {m}
    /\ IF strategy = "local_disk_queue"
         THEN /\ disk' = Append(disk, m) /\ sch' = TRUE /\ timers' = timers + 1
              /\ IF call[m] = "waiting" THEN Answer(m, "ok") ELSE UNCHANGED call
         ELSE /\ IF call[m] = "waiting" THEN Answer(m, "declined") ELSE UNCHANGED call
              /\ UNCHANGED <<disk, sch, timers>>
    /\ UNCHANGED <<pc, life, left, strategy, cached, clientVars, target, tried>>

\* handle_call({:queue_event, ...}): the answer reaches a caller that waits.
HandleQueueEvent(m) ==
    /\ pc = "idle" /\ m \in requests
    /\ requests' = requests \ {m}
    /\ IF strategy = "local_disk_queue"
         THEN /\ timers' = IF sch THEN timers ELSE timers + 1
              /\ disk' = Append(disk, m) /\ sch' = TRUE
              /\ IF call[m] = "waiting" THEN Answer(m, "ok") ELSE UNCHANGED call
         ELSE /\ IF call[m] = "waiting" THEN Answer(m, "declined") ELSE UNCHANGED call
              /\ UNCHANGED <<disk, sch, timers>>
    /\ UNCHANGED <<pc, life, left, strategy, cached, clientVars, target, tried>>

\* handle_info(:consume_queue)
ConsumeQueue ==
    /\ pc = "idle" /\ timers > 0
    /\ timers' = timers - 1 /\ left' = MaxBatch /\ pc' = "replay"
    /\ UNCHANGED <<life, sch, requests, strategy, disk, cached, clientVars, callVars, tried>>

\* consume_queue(_, _, 0): the rest waits for a second.
BatchEnds ==
    /\ pc = "replay" /\ left = 0
    /\ pc' = "idle" /\ timers' = timers + 1 /\ sch' = TRUE
    /\ UNCHANGED <<life, left, requests, strategy, disk, cached, clientVars, callVars, tried>>

\* Variant: the handler returns its state as it was.
ReplayCompletedScheduled ==
    /\ pc = "replay" /\ left > 0 /\ disk = << >>
    /\ pc' = "idle"
    /\ UNCHANGED <<life, left, sch, timers, requests, strategy, disk, cached, clientVars, callVars,
                   tried>>

ReplayCompleted ==
    /\ pc = "replay" /\ left > 0 /\ disk = << >>
    /\ pc' = "idle" /\ sch' = FALSE
    /\ UNCHANGED <<life, left, timers, requests, strategy, disk, cached, clientVars, callVars, tried>>

\* Variant: the clause that ends the batch is missing.
OfferUnbounded ==
    /\ pc = "replay" /\ disk # << >>
    /\ pc' = "offered"
    /\ tried' = tried \union {Head(disk)}
    /\ inLib' \in {inLib, inLib \union {Head(disk)}}
    /\ UNCHANGED <<life, left, sch, timers, requests, strategy, disk, cached, owner, client, callVars>>

\* LocalQueue.head and ExrdkafkaNif.produce, which may refuse the message.
Offer ==
    /\ pc = "replay" /\ left > 0 /\ disk # << >>
    /\ pc' = "offered"
    /\ tried' = tried \union {Head(disk)}
    /\ inLib' \in {inLib, inLib \union {Head(disk)}}
    /\ UNCHANGED <<life, left, sch, timers, requests, strategy, disk, cached, owner, client, callVars>>

\* LocalQueue.deq, for a message that was taken and for one that is skipped.
Dequeue ==
    /\ pc = "offered"
    /\ pc' = "replay" /\ disk' = Tail(disk) /\ left' = left - 1
    /\ UNCHANGED <<life, sch, timers, requests, strategy, cached, clientVars, callVars, tried>>

\* A callback raises, {:stats, _} or get_stats finds no :stats key, the disk fails.
\* What init/1 raises the first time is not restarted.
Crash ==
    /\ pc \in {"idle", "replay", "offered"} \/ (pc \in {"init", "owned", "cached"} /\ life > 1)
    /\ life <= MaxCrashes
    /\ pc' = "down" /\ timers' = 0 /\ requests' = {}
    /\ CallersFail
    /\ UNCHANGED <<life, left, sch, strategy, disk, cached, clientVars, target, tried>>

\* The supervisor starts it again, with the same reference.
Restart ==
    /\ pc = "down"
    /\ pc' = "init" /\ life' = life + 1
    /\ UNCHANGED <<left, sch, timers, requests, strategy, disk, cached, clientVars, callVars, tried>>

\* terminate(:shutdown, _): producer_cleanup takes the client from the dispatcher
\* and starts the thread that flushes it.
Terminate ==
    /\ pc = "idle"
    /\ pc' = "stopping" /\ client' = "flushing"
    /\ UNCHANGED <<life, left, sch, timers, requests, strategy, disk, cached, owner, inLib,
                   callVars, tried>>

\* The receive without a timeout: client_stopped was sent to owner_pid.
ClientStopped ==
    /\ pc = "stopping" /\ client = "stopped" /\ owner = life
    /\ pc' = "ended" /\ timers' = 0 /\ requests' = {}
    /\ CallersFail
    /\ UNCHANGED <<life, left, sch, strategy, disk, cached, clientVars, target, tried>>

-----------------------------------------------------------------------------
(* librdkafka *)

\* delivery_report_callback, from a poll of the dispatcher or from the flush.  The
\* report is lost on a process that is gone.
DeliveryReport(m) ==
    /\ client # "stopped" /\ m \in inLib
    /\ inLib' = inLib \ {m}
    /\ UNCHANGED <<processVars, strategy, disk, cached, owner, client, callVars, tried>>

\* cleanup_producer: rd_kafka_flush ends after 30 seconds at the latest.
FlushEnds ==
    /\ client = "flushing"
    /\ client' = "stopped"
    /\ UNCHANGED <<processVars, strategy, disk, cached, owner, inLib, callVars, tried>>

-----------------------------------------------------------------------------
KeptBefore(m) == \E i \in DOMAIN Leftover : Leftover[i] = m

Init ==
    /\ pc = "init" /\ life = 1 /\ left = 0 /\ sch = TRUE /\ timers = 0 /\ requests = {}
    /\ strategy \in Strategies /\ disk = Leftover
    /\ cached = 0 /\ owner = 0 /\ client = "open" /\ inLib = {}
    /\ call = [m \in Messages |-> IF KeptBefore(m) THEN "ok" ELSE "new"]
    /\ target = [m \in Messages |-> 0] /\ tried = {}

Callers == \E m \in Messages : \/ Lookup(m) \/ Produce(m) \/ ProduceSync(m) \/ ProduceBatch(m)
                               \/ QueueEvent(m) \/ CallTimeout(m)

Replay == ConsumeQueue \/ BatchEnds \/ ReplayCompleted \/ Offer \/ Dequeue

Process == \/ InitOwner \/ InitCache \/ InitQueue
           \/ \E m \in Messages : HandleQueueEvent(m)
           \/ Replay \/ Restart \/ ClientStopped

Next == \/ Callers \/ Process \/ Crash \/ Terminate
        \/ FlushEnds \/ \E m \in Messages : DeliveryReport(m)

Spec == Init /\ [][Next]_vars

\* The process and its supervisor are scheduled, its timers fire, the flush ends.
Fairness == WF_vars(Process) /\ WF_vars(FlushEnds)

LiveSpec == Spec /\ Fairness

-----------------------------------------------------------------------------
(* Properties *)

\* Every variable has its type; in particular a replay never handles more than
\* MaxBatch messages.
TypeOK ==
    /\ pc \in Phases /\ life \in 1 .. MaxCrashes + 1
    /\ left \in 0 .. MaxBatch /\ sch \in BOOLEAN /\ timers \in Nat
    /\ requests \subseteq Messages
    /\ strategy \in Strategies /\ disk \in Seq(Messages)
    /\ cached \in 0 .. life /\ owner \in 0 .. life
    /\ client \in {"open", "flushing", "stopped"} /\ inLib \subseteq Messages
    /\ call \in [Messages -> Calls] /\ target \in [Messages -> 0 .. life]
    /\ tried \subseteq Messages

\* The disk queue is replayed by one chain of timers: while the process waits, one
\* is under way exactly if pqueue_sch says so, and without one nothing is kept.
\* With two the replays would come twice as often; with none a message stays
\* where it is.
OneTimer ==
    /\ timers = IF pc \in {"idle", "stopping"} /\ strategy = "local_disk_queue" /\ sch
                  THEN 1 ELSE 0
    /\ pc = "idle" /\ ~sch => disk = << >>

\* Whoever finds the process in the cache, and the process in its loop, can rely on
\* the reports: owner_pid is the process itself, not the one it replaces; and
\* librdkafka, whose report is sent without a look at owner_pid, never has a
\* message of a client without an owner (exrdkafka_producer.cc:48).
OwnerFollows ==
    /\ pc \in {"idle", "replay", "offered", "stopping"} => owner = life /\ cached = life
    /\ pc \in Alive /\ cached = life => owner = life
    /\ inLib # {} => owner # 0

\* What produce and queue_event said :ok to is handed to librdkafka, in order,
\* over timeouts, crashes and restarts (Outbox).
Learned(result) == IF result = "ok" THEN "ok"
                   ELSE IF result \in {"error", "declined"} THEN "error" ELSE "none"

Told == [m \in Messages |-> Learned(call[m])]

Promise == INSTANCE Outbox
             WITH kept <- disk, offered <- (pc = "offered"), answer <- Told

Keeps == Promise!Spec

\* A message on disk does not stay there: the timers replay it, over crashes, or a
\* shutdown ends, which waits without a timeout for client_stopped, also in a process
\* that has replaced another; then the next run of the node finds it.
DiskDrains == strategy = "local_disk_queue" =>
    \A m \in Messages : (\E i \in DOMAIN disk : disk[i] = m)
        ~> (pc = "ended" \/ \A i \in DOMAIN disk : disk[i] # m)
=============================================================================
