# A formal model of exrdkafka

exrdkafka is an Elixir client for Kafka: Elixir processes on top of a C++ NIF on
top of librdkafka. This directory holds TLA+ modules that model the parts of it
in which something runs concurrently, fails half-way or has to end, the
configurations that check them with TLC on small instances, and proofs, checked
by TLAPS, that the most important results hold for every value of the constants.

    tlc -config GroupRebalance.cfg MCConsumerGroup      # one run
    tlapm ConsumerProofs.tla                            # one proof module

`PROJECT.json` lists the runs, the source lines every definition stands for, the
hazards the properties are aimed at, the findings and the theorems.

## 1. The system

| Part | Code | State | Operations |
|---|---|---|---|
| consumer | `lib/exrdkafka/consumer.ex` | messages polled and not handled yet, last offset, callback state, one timer | `:poll_events`, `:process_messages`, `{:stop, _, _}`; `stop/1` runs in the group |
| consumer group | `lib/exrdkafka/consumer_group.ex` | `active_topics_map`: partition to consumer and queue | `{:assign_partitions, _}`, `{:revoke_partitions, _}`, `{:EXIT, _, _}`, `terminate/2` |
| consumer NIF | `c_src/exrdkafka_consumer.cc` | `rd_kafka_t`, `running`, the closing thread | `rebalance_cb`, `consumer_queue_poll`, `consumer_offset_store`, `consumer_queue_cleanup`, `consumer_partition_revoke_completed`, `consumer_cleanup` |
| queue manager | `c_src/queuemanager.cc` | `queues_`: the partition queues that are off the main queue | `add`, `remove`, `clear_all` |
| callbacks dispatcher | `c_src/queuecallbacksdispatcher.cc` | `objects_` with the interval and the last poll of each client, `events_` | its thread; `watch`, `remove`, `signal`, the destructor |
| topic manager | `c_src/topicmanager.cc` | `topics_`: name to `rd_kafka_topic_t` | `AddTopic`, `GetOrCreateTopic`, `Cleanup` |
| client options | `lib/exrdkafka/utils.ex`, `lib/exrdkafka.ex` | none | `append_props/2`, `get_env/2` |
| producer and local queue | `lib/exrdkafka/producer.ex`, `local_queue.ex`, `c_src/exrdkafka_producer.cc` | a queue on disk, the overflow strategy | produce, overflow, replay, delivery reports, shutdown |
| client lifecycle | `client_manager.ex`, `client_supervisor.ex`, `cache_client.ex` | an ETS table of clients, a supervisor | create, look up, restart, stop |
| configuration, messages, logs, errors | `config.ex`, `c_src/*_config.cc`, `*_message.cc`, `*_logger.cc`, `nif_utils.cc` | tables | conversions |

How they interact. Creating a client combines its options with the global ones,
makes an `rd_kafka_t` and registers it with the one dispatcher of the node.
librdkafka puts what it has for a client on the client's main queue and signals
the dispatcher, whose thread then polls that queue. For a consumer group the poll
runs `rebalance_cb` in that thread: it takes the queue of every assigned
partition off the main queue and sends the group's process
`{:assign_partitions, _}`. The group starts one consumer for each partition, and
each polls its own queue, calls the application and stores offsets through the
NIF. A revocation goes the same way; the group stops its consumers one after the
other, gives their queues back and answers librdkafka. When the group ends, a
thread of its own closes the client and reports `:client_stopped`.

What is hard about it:

* the consumer looks for its stop message only between two receives, so that
  callbacks of unknown length and sleeps of up to four seconds race with the five
  seconds after which it is killed, and the kill races with everything that follows;
* a rebalance is a conversation between librdkafka, the dispatcher's thread, the
  group and its consumers, and each of them may crash, restart, be shut down or
  time out in the middle of it, while messages to a dead process are lost;
* a process or the node may die between the callback, the stored offset and the commit;
* `objects_`, `topics_` and the event queue are shared by threads, partly without the lock;
* librdkafka signals a queue only when it stops being empty, so that a wakeup
  that is missed is not repeated;
* one of several steps fails (`init/4` of the second of two partitions, a topic,
  a callback in a batch) and the others are done already.

What correctness means for each part: a **consumer** delivers in order and at
least once, never stores what was not accepted, never uses a queue it has given
back and always answers a stop; a **group** has one consumer for each assigned
partition, knows every partition it is told to give up, ends its consumers before
their client and always answers librdkafka; the **dispatcher** serves every
operation, lets no client starve and does not touch a client that is being
destroyed; the **topic manager** keeps one handle per topic and destroys it once;
the **options** let a client be created whatever the global ones are; the **producer**
hands every message it has accepted to librdkafka, though its replay drops one that a
full queue refuses (see 5); the **lifecycle** keeps the table of clients and
the clients that exist in step, and what it has created.

## 2. The modules

### PartitionDelivery: what is promised

The abstract specification: a partition with a cursor, the set of accepted
offsets and a committed offset. Messages are accepted in order, commits stay below
the cursor, and when the consumer is replaced the cursor falls back, at most to
the committed offset. `Consumer` and `ConsumerGroup` both implement it.

### Consumer: one partition, in time

`phase`, `mailbox`, `timer`, `head`/`end`, `backoff` and `wait` are the process;
`stopper`, `patience`, `replied` and `killSent` are `stop/1` in the group's
process; `assigned`, `queueLive`, `position`, `stored` and `committed` are
librdkafka's side; `settings`, chosen once, are the dispatch mode and how long a
call of the application may take. Each `handle_info` clause is an action or, where it may be
interrupted, a few: `ProcessMessages`, `RecvStop`/`RecvNothing` (`recv_stop/0`),
`CallbackOk`/`CallbackError`/`CallbackRaises`, `SleepEnds`,
`StoreOffset`/`StoreFails`. The two dispatch modes differ in where `recv_stop/0`
stands: before every callback one by one, only after a failed callback and before
the sleep in batch mode. Durations are those of the code in milliseconds; program
steps take no time, and `Tick` lets time pass only while no step is due. A kill
is a signal that arrives some time later: the group gives the queue back in between.

### ConsumerGroup: rebalances, crashes, shutdown

Here a consumer is what the group sees of it: `Deliver` handles one message and
stores its offset. The group's handlers are split where other parties may get
between (`StartConsumer` for each turn of the reduction; `StopConsumer`, then
`StopAnswered` or `StopTimeout`, for each turn of `stop_consumers/1`).
`rebalance_cb` is `AssignStarts`, `AddQueue` for each partition and `AssignSent`. The
assignment may be empty, and `rd_kafka_assign` may fail: the code only logs that and goes
on (`exrdkafka_consumer.cc:112-118`), so that `assigned` is what `rebalance_cb` was handed,
and `granted` whether librdkafka took it; what is not granted is not fetched, and an offset
for it is not stored.
The queue manager is the state of each queue (`private` while it is in `queues_`,
`forwarded` by `clear_all`, `destroyed` by `remove`). `consumer_cleanup` is two
actions because `notifier_->remove` waits for the dispatcher's lock, which
`rebalance_cb` runs under. The mailbox is a FIFO sequence of the group's messages
and exit signals; what is sent to a process that is gone is lost. Two things the
application or the network decide are constants: `InitFails` (an `init/4` may
return an error) and `EarlyFetch` (messages may arrive while `rebalance_cb` runs).
A commit only moves forward (`Newer`).

### GroupConsumers: the composition

ConsumerGroup with the steps of its consumers in the place of `Deliver` and
`Crash`. What a consumer does (`work`) and the messages it has in hand (`first`,
`last`) are composed with every step of the group: `Survive` keeps what is alive and
drops what is not. Time, the timer and the sleeps are left out, they are Consumer's; so
a stop may time out at any moment, and a kill signal takes as long as it likes. A
consumer that was killed may therefore be in its callback while the partition is revoked,
assigned again and consumed by another process. `consumer_offset_store` names the topic and the
partition, not the queue, so that such a consumer stores into the assignment of its
successor; when the partition is not assigned, or the assignment was refused, the store fails (`StoreFails`) and `:ok =`
raises. `Poll` is left out for a consumer that was told to stop: what it polls then it
does not handle any more. A client that is closed stores nothing: there the NIF has
no `rd_kafka_t` to use, and the step is left out.

### Dispatcher: the thread that serves callbacks

`watch()` and `remove()` are three steps each (the table under its lock,
librdkafka's callback, the null event). The thread is `Dequeue` or
`TimeoutExpires`, which read the time, and then `Poll` under the lock; `late`
remembers the clients inserted between the two, for which `now - last_poll_ms` wraps
around. An operation that arrives before the callback is switched on is
`unannounced`: nothing signals it. A client's `age` is the time since its last poll.
The concurrent queue of events keeps the order only among the events that one thread
enqueues, and they come from librdkafka's threads and from every caller's, so `events`
counts the queued events of each kind and the thread may take any of them.

### TopicManager: a map searched without its lock

The insertion `topics_[name] = topic` is two writes, `Link` (a node with a NULL
value) and `Set`; an unlocked `Find` that overlaps a `Link` may also miss a node
that is there. These are the outcomes of the data race that a `std::map` (a
red-black tree) gives without being corrupted for the reader; anything worse is
undefined behaviour and left out.

### Outbox: what a producer promises

The abstract specification: what was answered `:ok` is handed to librdkafka at least
once. A message may be kept in between; what is kept is handed over in the order of
its arrival and dropped only afterwards. An error promises nothing: the message
may be sent all the same. `Producer` implements it.

### Producer: two ways into librdkafka

The callers are actions of their own, because the cache lets them run beside the
process: `Lookup` reads the pid and the reference, then `Produce`, `ProduceSync` or
`ProduceBatch` use the reference in the caller's process, or `QueueEvent` sends a
request to the pid read before, which may be dead by then; `CallTimeout` is
`safe_call` giving up after five seconds while the request stays in the mailbox.
The process is `pc`: `InitOwner`, `InitCache` and `InitQueue` are the steps of
`init/1` between which callers and crashes get in, `ConsumeQueue`, `Offer`,
`Dequeue`, `BatchEnds` and `ReplayCompleted` are `consume_queue/3`, `Terminate` and
`ClientStopped` are `terminate/2`. `timers` counts the `:consume_queue` messages
under way and `sch` is `pqueue_sch`. What outlives a crash of the process are the disk,
the entry in the cache (`cached`), the NIF's client with `owner_pid`, and librdkafka's queue.

### ClientLifecycle: creating, finding and restarting clients

`ClientLifecycle` has the callers of `create_producer/2` and
`create_consumer_group/5`, the manager's mailbox, the supervisor that is the
manager's parent as well as the callee of `add_client/3`, the process of each
client (`child`), the ETS table (`cache`) and how many `rd_kafka_t` of an id there
are (`native`). A start is `StartChild`, `Enter` (the entry in the table) and
`InitDone`; it fails on either side of the entry (`InitFails`). The supervisor counts
its restarts in `restarts` and gives up beyond `Intensity`; the table survives that.
When a group ends, by its own death (`Die`) or with the supervisor (`GiveUp`), its
`terminate/2` waits 180 seconds for its native client (`consumer_group.ex:156-164`): either
the client is closed by then, or it is left behind (`closing`) until `ClosedLate`, and the
next process makes a second one beside it.
The callers read the global options first: `AppendPropsRaises` says that
`append_props/2` returns for `nil` only, because its recursion over a list ends where no
clause matches, and `OptionsRaise` is a caller to whom that happens.

## 3. The runs

| Run | Instance | What it shows |
|---|---|---|
| `consumer` | 3 messages, batches of 2, both dispatch modes, callbacks of at most 0.5 s or of up to 5.5 s | refinement of PartitionDelivery when consumers are killed and stores fail; the single token of the poll loop; only long callbacks are killed; no dead queue is polled, every partition is drained, every stop returns |
| `dispatcher` | 2 clients with intervals 2 and 5 | `PollGap`, `NoLostWakeup`, `RemovedIsNotPolled`, `Served`, `Joins` |
| `topic_manager` | 2 producers and `create_topic`, 2 topics | one handle per topic and no leak in spite of the unlocked search; every call returns |
| `group_rebalance` | 2 partitions, 2 assignments, empty and refused ones too, 1 restart | the safety of the rebalance conversation, with crashes, kills and a shutdown anywhere |
| `group_live` | 1 partition, 3 messages, 2 assignments, 1 restart, `init/4` may fail | refinement of PartitionDelivery; librdkafka is always answered, `terminate/2` ends |
| `group_consumers` | 1 partition, 2 messages, batches of 2, both dispatch modes, 2 assignments, 1 restart | with messages in the consumers' hands: nothing is skipped, callbacks are in order, one process handles the partition, a partition that stays assigned is drained |
| `producer` | a message left on disk and 2 new ones, batches of 2, 2 crashes | refinement of Outbox, one chain of timers, the owner follows the process, the disk queue is drained |
| `client_lifecycle` | 2 callers, 2 ids, 3 deaths, global options of each kind, a `terminate/2` that may time out | one client for each id, but for those left closing; what was answered `:ok` is kept over failing restarts and other creations; every caller learns something, dead clients come back |
| `topic_manager_unlocked`, `group_early_fetch`, `group_orphans`, `options_global` | | violations: see the findings |

**Bounds.** Three messages and batches of two give a batch, a rest and an empty
poll. Half-second ticks divide every duration of the program (500, 1000, 2000,
4000, 5000). Intervals 2 and 5 make the clients overdue at different times and in
both orders. Two partitions are the fewest for a handler that fails between two of
them and for a stop that times out while the other consumer goes on; they are
interchangeable, and that run uses symmetry. Offsets play no part in its
properties, so its log is empty, and `group_live` and `group_consumers` have the offsets
instead. In `group_consumers` two assignments let a killed consumer meet its successor,
and two messages are enough for a batch, for one of several still in hand, and for a
stored offset that a message is missing below; a consumer has a partition to
itself, so one partition is enough.
`MaxRounds` bounds the assignments, `MaxRestarts` the restarts and with them the
crashes, `MaxEvents` the events of each kind that are queued when a call starts.
In `producer`, `MaxBatch` of 2 (5000 in the code) lets a replay end because its batch is over as well as
because the disk is empty, and `MaxCrashes` of 2 lets a process replace one that had itself
replaced another. In `client_lifecycle`, `Intensity` of 1 (3, the default of Supervisor, in the code) lets the supervisor restart
something and then give up, `MaxDeaths` of 3 is what that and the crash after it need,
and lets a group leave two native clients behind. The global options are missing,
`:undefined`, empty or not, which is all that matters of them. The theorems below have none of these bounds: they hold
for all values, and `MaxRestarts`, `MaxCrashes` and `MaxDeaths` are any number.

**Deadlock** is checked for Consumer. The other systems really may stop: the
dispatcher's thread exits, a producer is freed or has ended, a group has ended, no
caller is left; their configurations say so.

**Fairness.** Processes and threads that can run are run (weak fairness on
each). Strong fairness stands where the code depends on being given a chance
again and again: the lock of the topic manager (`Enter`), and in Consumer that a
partition with messages is not polled empty for ever (`PollSome`) and that a
callback called again and again does not fail for ever (`CallbackOk`), without
which nothing could be drained. `StopReturns` would hold without these two. In
Dispatcher time goes on while some client is in the table. In ConsumerGroup
`rd_kafka_consumer_close` is assumed to end; nothing is assumed of librdkafka's
rebalances or of the application's callbacks. In GroupConsumers a consumer besides goes on with its
work, and the application does not refuse a message for ever (strong
fairness of `CallbackOk`), without which nothing would be drained. In Producer the process with its timers
and its supervisor is fair, and `rd_kafka_flush` ends (it has a timeout); callers and
librdkafka's reports are not. In ClientLifecycle the manager is fair to each
request, and the supervisors and the clients' `init/1` are.

**Variants.** Operators commented "Variant:" are plausible mistakes in the
definition that follows them (a guard dropped, an order swapped, a reset
forgotten). No specification uses them: substituted for it, each makes the run
report the property that `PROJECT.json` names, which shows that the property can fail.

## 4. What is proved

For all values of the constants, from the assumptions the modules state
(`ConsumerAssumption`, `DispatcherAssumption`, `NullAssumption`,
`TopicManagerAssumption`, `ConsumerGroupAssumption`, `GroupConsumersAssumption`,
`ProducerAssumption`, `ClientLifecycleAssumption`), all of which TLC evaluates.

* **ConsumerProofs.** `IInv` is `TypeOK` with `PhaseInv` (what a phase says of the
  messages in hand and of the timer and mailbox), `StopInv` (while `stop/1` waits
  either the stop message or the answer is there or the process is gone; after the kill was
  sent the stop message is still in front of any poll) and `OffsetInv`
  (`committed <= stored <= head <= end = position`, and all below `head` accepted).
  `AtLeastOnce` alone is not inductive: `StoreOffset` preserves it only because of
  what `OffsetInv` says of `head`. From `IInv` follow `StoredWasAccepted` (`AtLeastOnce`) and
  `CallbacksInOrder` (`InOrder`), which no run checks on its own because `DeliversInOrder`
  fails with them, `NoPollOfADeadQueue` and the refinement `ConsumerDelivers`,
  where every step is mapped to a step of PartitionDelivery or a stutter.
  `ShortCallbacksAreNeverKilled` (`NeverKilled`, which is about settings whose callbacks take less
  than a second) needs one more invariant, `TimeInv`, that compares the time left in
  the callback or sleep with the patience left in `stop/1`. `TypeCorrect` and
  `OneMessageToItself` are the types and the single token of the poll loop.
* **DispatcherProofs.** `PolledWithinThreeIntervals`: `PollGap` is strengthened to
  `GapInv`, by which each client of the table is either accounted for in the
  thread's timeout or new, with a wakeup for it under way. `WakeupsAreNotLost` (with `NothingEarly`)
  and `RemovedStayUntouched`, an action property.
* **TopicManagerProofs.** `OneHandlePerTopic` and `NoHandleLeaks` from mutual
  exclusion in the locked part and `HandleInv`, which counts a handle between
  its creation and its insertion. `TopicTypes` are the types. `NullOnlyOfATopic` says how far
  the unlocked search goes wrong at most: it reports NULL of a topic that exists, never of one
  that nobody has made.
* **ConsumerGroupProofs.** `IInv` says how the three sides of the rebalance agree.
  `ControlInv`: what the group's state says of its client and of `join`. `MailboxInv`: at
  most one assignment and one revocation wait in the mailbox, in this order, both about
  the assignment `rebalance_cb` was handed last. `MapInv`: the map is empty or has exactly the assigned
  partitions, and is empty as long as the assignment waits; this is what makes
  `RevokedAreActive` inductive, and it rests on `MailboxInv`, because librdkafka makes no new
  assignment before it has been answered. `StopInv` follows `stop/1`, `RoundInv` says
  that a consumer nobody has told to stop is of the last assignment handed over, granted or
  not, `QueueInv` follows the
  queues. The steps that keep them are those of `AnyNext`, in which a consumer may die at any time
  and as often as it likes: more than `MaxRestarts` allows, and what the composition does.
  From `IInv`, whatever fails: `RevokedPartitionsKnown` and
  `QueuesGivenBack`. `OwnQueues`, `ClientClosedLast` and `CurrentBlamed` assume that no
  `init/4` fails, because without that they are false (`group_orphans`); they need
  `OwnInv` (a consumer that may poll is in the map or about to enter it) and `ExitInv` (a
  crash of an earlier consumer stands in the mailbox before the next assignment).
  `NothingIsForgotten`: an assignment that was sent, a revocation that librdkafka waits for and
  the death of a consumer in the map are each in the mailbox or in the group's hands
  until they were dealt with, whatever fails.
  `GroupDelivers`, the refinement of PartitionDelivery for each partition, assumes that no
  message arrives before its queue is taken (`group_early_fetch` shows why), and
  nothing of `init/4`; it needs `OffsetInv`: where messages are kept, the position is the
  stored offset. Its actions that touch offsets are a delivery, a commit and the fall back.
* **GroupConsumersProofs.** The group's `IInv` is kept by every step of the composition: what the
  group sees of a consumer is the same (`NextKeeps`), a consumer that dies in its
  callback or over a failed store is one that crashes (`DiesKeeps`), and the rest moves offsets only
  (`OffsetsOnly`). So the group's invariants hold among consumers that have messages in hand, too:
  `GroupAmongConsumers` whatever fails, `OwnQueuesAmongConsumers` when no `init/4` does.
  `HandlersAlone` follows whatever fails: a consumer that was told to stop
  and is not killed is the one `stop/1` waits for, and its partition is not given to
  another before. `NothingIsSkipped` and `OfferedInOrder` assume, like
  `GroupDelivers`, that no message arrives before its queue is taken. They need
  `DeliverInv`: all below a consumer's `first` was accepted, also when the consumer is a remnant of
  an earlier assignment (`HandInv`); what the current one has in hand reaches up to the
  position; and whenever nobody has anything in hand and a consumer is to poll, or still to
  be started, all below the position was accepted (`PositionInv`). The last needs
  `UnstartedInv`, that no consumer of an assignment runs before the group has started
  it. Most steps are `Quiet`, four fall back, and the others are taken one by one.
  `ComposedDelivers` carries the refinement of PartitionDelivery over to the composition. There the
  position runs ahead of what was accepted, and a remnant may accept messages that its
  successor has in hand, so that neither is the cursor: it is `Reached`, the end of the
  initial segment of accepted messages, which `Segment` shows to grow only by the message a callback
  accepts.
* **ProducerProofs.** `IInv` adds to the checked invariants `PhaseInv` (what each step of
  `init/1` and of the replay has done already) and `ReachedInv` (whoever holds the
  reference got it from a cache entry, whose client has an owner). From it follow
  `ProducerTypes`, `OneTimerChain`, `OwnerIsCurrent` and the refinement of Outbox, `ProducerKeeps`.
  Outbox says how messages move; `OkIsNeverLost` draws the conclusion for a caller:
  what was answered `:ok` is on the disk or was handed over, at every moment. It is proved of
  Outbox (`OutboxKeeps`), and holds of Producer because each of its steps is one of Outbox.
* **ClientLifecycleProofs.** `OneClientPerId`, from `ControlInv` (manager, supervisor and the
  start under way), `EntryInv` (an id is in the table from its first process on),
  `NativeInv` (the exact number of native clients of an id besides those left closing) and `OkInv` (who was told `:ok`
  has the entry). `LifecycleTypes` needs them too: a count that is decremented was not 0.
  `GlobalOptionsStopAll` is the finding of `options_global` in general: global options at all
  of whose values `append_props/2` raises stop every client there is.
  `CreatedClientsStay` (`CreatedIsKept`) needs `KindInv` besides, that a client is of the kind
  its creator has asked for: a start changes the kind of an id only before anyone was told `:ok`.

**The causes of the findings.** Two of the violated properties are theorems as soon as one thing is
excluded, so that nothing else can break them: `PolledQueuesAreTaken` when no `init/4`
fails (`GivenBackNotPolled`), `DroppedHaveNoImpact` when no message is early
(`DropsHaveNoImpact`).

**What liveness rests on.** Liveness under fairness is out of the prover's reach, and TLC
checks it. That the awaited thing is never lost on the way is safety, and is proved:

| checked by TLC | proved | which says |
|---|---|---|
| `StopReturns` | `StopIsNotLost` | the stop message or its answer is there, or the consumer is gone |
| `Drains` | `OneMessageToItself` | the poll loop has its one message |
| `RevokeAnswered`, `AssignedIsDrained` | `NothingIsForgotten`, also in `GroupAmongConsumers` | the message, or the exit of the consumer, is in the mailbox or in hand |
| `Joins`, `Served` | `NeverSleepsOver`, `WakeupsAreNotLost` | the thread waits without a wakeup only if it need not do anything yet |
| `CallsReturn` | `LockIsGivenBack` | the lock is held by a thread that is at work |
| `DiskDrains` | `OneTimerChain` | what is kept has a timer |
| `Answered` | `RequestsAreNotLost` | the request is in the inbox or in the manager's hands, and the supervisor there |
| `ComesBack` | `DeadAreNotForgotten` | the supervisor is there and free, or starts another client; the dead one is started again as what it was, or stays to be tried again |
| `GroupStops` | `EndIsNotUndone` | each step of the group's process leaves fewer consumers to ask, to wait for or to clean up after, or the next stage of the client, and no other step undoes one |
| a call of `queue_event/7` | `WaitersAreKnown` | the request is in the mailbox of a process that lives |

Only model-checked are thus the liveness properties: `Drains`, `StopReturns`, `Served`, `Joins`,
`CallsReturn`, `RevokeAnswered`, `GroupStops`, `AssignedIsDrained`, `DiskDrains`, `Answered` and
`ComesBack`. Every invariant, action property and refinement that a passing run checks is a theorem.

## 5. Findings

1. **Global options break every client** (`options_global`). `append_props/2` ends
   its recursion with `[]`, and its last clause takes `nil`.
2. **Orphaned consumers** (`group_orphans`). When `init/4` fails for one partition,
   the consumers already started in the same message are not in the map, are not
   stopped, and go on while their client is closed and destroyed.
3. **The unlocked search** (`topic_manager_unlocked`). It may find a node that has no
   value yet and report a topic that exists as one that could not be created.
4. **Early messages are skipped** (`group_early_fetch`). What librdkafka fetches
   between `rd_kafka_assign` and the forwarding of the partition's queue goes
   to the main queue, is dropped, and is skipped by the next stored offset.

Met on the way, without a run: the dispatcher's timeout adds the time since the last poll
instead of subtracting it (`queuecallbacksdispatcher.cc:144`), so that a client may go
unpolled for almost three halves of `max.poll.interval.ms` (`PollGap` states
the bound that does hold); a consumer that had to be killed may make the group restart
over it in the next assignment (`BlamesCurrentConsumer` excepts it), by whatever the consumer
dies in the end, the kill or its own error before the signal arrives, for the group only logs the
reason; when `rd_kafka_assign`
fails, the consumers that are started all the same poll nothing until the next rebalance, and
nobody but the log is told (`AssignedIsDrained` leaves such an assignment out); after a kill
the log line "all existing consumers stopped" may be early; `clear_all` does not
destroy the queues it forwards; a consumer that outlasts its kill may set the stored offset of its
successor back, so that messages are delivered again after the next commit, but never
past what was accepted (`NothingSkipped`).

Of the producer: `enif_produce` reports an error as a number
(`exrdkafka_producer.cc:438` and `453`), while `exrdkafka.ex:149` and `producer.ex:177`
match an atom, so that the overflow strategies are never used by `produce/7` and the
replay takes a message off the disk that a full queue has refused (Outbox
promises only that it is handed over); `get_stats` and a
statistics message fail on a state without `:stats` (`producer.ex:83`, `107`), and so does a
callback that raises, and the process with it; reports are lost between a crash and
the next `set_owner`; `produce_sync` may answer an error for a message that was
accepted, and `safe_call` a timeout for one that is kept, so that a retry sends it
twice; `produce_batch` looks at no result; a message produced directly overtakes
those on disk.

Of the lifecycle: the entry stays when `LocalQueue.new` fails after it
(`producer.ex:35`) and when the supervisor gives up, nothing calls `take/1`,
and `stop_client` is not implemented, so that such an id cannot be used again; the configured
clients are not created again; `produce/7` goes on answering `:ok` for a
client whose process is gone; `valid_consumer_topics` raises in the manager for
topics that are not a list.

## 6. What is not modelled, and why

* librdkafka and the broker are external: an eager rebalance protocol, a commit
  that may fail, a fetch position, signals on an empty queue. The cooperative
  protocol, which `partition_assignment_strategy` can select, is not modelled:
  `rebalance_cb` calls `rd_kafka_assign` for both.
* The dispatcher reads the system clock; a clock that is set back is left out (the
  wrapped difference would only poll too early).
* A kill of the group's process itself and the statistics messages are left out of
  ConsumerGroup; the supervisor's restart intensity is in ClientLifecycle instead. After the 180 seconds of
  `terminate/2` ConsumerGroup goes on with the new client only: the old one, which
  ClientLifecycle counts, shares nothing with it. That the garbage collector then waits for the
  closing thread (`closed_future->get()`) is left out.
* `rebalance_cb` has a branch for other codes than the two of a rebalance
  (`exrdkafka_consumer.cc:148-151`), which treats them as a revocation. librdkafka calls it with
  these two only; the model has the branch as a revocation of what is assigned (`RevokeSent`),
  and not with another list or at another time.
* The exit signals that a group's end sends to its consumers arrive in the step in which it
  ends (`GroupEnds`). In the program they arrive a little later; a consumer that is still there then was
  killed, or is an orphan (finding 2), and has only the client that is being closed to use.
* What `append_props/2` would merge: it returns for no list.
* Foreign three-element tuples, which `recv_stop/0` takes for a stop.
* In ClientLifecycle the application's own supervisor never gives up, and what a client
  does while it runs is in the modules of the clients.
* Reference counts of NIF resources, the pid that log messages go to, metadata and
  statistics queries, `get_stats`, `list_clients`.
* Argument parsing, formatting and logging, and the tables of option names.

## 7. Plan

Done, in this order: PartitionDelivery, Consumer and its proofs, Dispatcher and its
proofs, TopicManager, ConsumerGroup, Outbox and Producer with their proofs,
ClientLifecycle and its proofs, the proofs for TopicManager's types and
for ConsumerGroup, GroupConsumers and its proofs, the
safety that liveness rests on, the refinement by the composition, assignments that are empty or
refused, and native clients that outlive their group's `terminate/2`.

Left to prove: that Consumer's steps, without their time, are those GroupConsumers has of a
consumer; that the end of a group is not undone in the composition either. Left to model: **NifResources**, the
reference counts of client, queue and the closing thread's future, for the garbage collector's
side of `consumer_free` and `producer_free`.
