------------------------------ MODULE Consumer ------------------------------
(***************************************************************************)
(* The process that consumes one partition (lib/exrdkafka/consumer.ex), the *)
(* part of its consumer group that starts and stops it, and the librdkafka *)
(* state of the partition that both reach through the NIF                  *)
(* (c_src/exrdkafka_consumer.cc).                                          *)
(*                                                                         *)
(* The process polls its queue, hands the messages to the application's    *)
(* callback one by one or as a batch, stores the offset after each         *)
(* callback that succeeded and retries with a growing sleep after each     *)
(* that failed.  stop/1 sends it a message, waits five seconds for the     *)
(* answer and otherwise kills it; the process looks for that message only  *)
(* between two receives, so callbacks and sleeps race with the five        *)
(* seconds.  Time is therefore part of the model: every duration of the    *)
(* code is in milliseconds, the steps of the program take none, and Tick   *)
(* lets time pass only when no step of the program is due.                 *)
(***************************************************************************)
EXTENDS Integers, Sequences

CONSTANTS
    LogEnd,          \* the partition holds the offsets 0 .. LogEnd-1
    BatchSize,       \* poll_batch_size: the most messages one poll returns
    PollIdle,        \* poll_idle_ms
    TopicSettings,   \* the topic's dispatch_mode and how long a call of the
                     \* callback_module's handle_message may take, in ms
    Steps            \* how much time one tick may let pass, in ms

ASSUME ConsumerAssumption ==
    /\ LogEnd \in Nat
    /\ BatchSize \in Nat \ {0}
    /\ PollIdle \in Nat
    /\ TopicSettings \subseteq [dispatch_mode : {"one_by_one", "batch"}, callback_times : SUBSET Nat]
    /\ Steps \subseteq Nat \ {0}

StopTimeoutMs == 5000      \* the `after` of stop/1
MaxBackoff    == 4000      \* the fixed point of exponential_backoff/1

VARIABLES
    settings,    \* topic_settings: one of TopicSettings
    \* the consumer process
    phase,       \* where it is: see Phases
    mailbox,     \* the messages waiting for it, oldest first
    timer,       \* the message its last send_after is to deliver, or "none"
    timerWait,   \* the time until then
    head,        \* the first offset of `messages` that is still to be handled
    end,         \* one past `last_offset`: `messages` holds head .. end-1
    backoff,     \* the argument of the next exponential_backoff/1
    wait,        \* the time left in the callback or in the sleep
    \* the consumer group's process, in stop_consumers/1
    stopper,     \* "idle", "waiting" in stop/1, "returned" from it, "cleaned"
    patience,    \* the time left in the `receive` of stop/1
    replied,     \* {:stopped, tag} waits in the group's mailbox
    killSent,    \* the kill signal is on its way to the consumer
    \* librdkafka's state of the partition
    assigned,    \* the partition is in the current assignment
    queueLive,   \* q->queue is a queue; FALSE: it is NULL
    position,    \* the next offset the queue hands out
    stored,      \* the offset the next commit will commit
    committed,   \* the group's committed offset, at the broker
    \* history
    handled      \* the offsets whose callback returned {:ok, _} at least once

procVars == <<phase, mailbox, timer, timerWait, head, end, backoff, wait>>
stopVars == <<stopper, patience, replied, killSent>>
kafkaVars == <<assigned, queueLive, position, stored, committed>>
vars == <<settings, procVars, stopVars, kafkaVars, handled>>

DispatchMode  == settings.dispatch_mode
CallbackTimes == settings.callback_times

\* "absent": no process; "loop": in the GenServer's receive; "recv": about to
\* run recv_stop/0; "callback": inside handle_message; "store": the callback
\* returned {:ok, _}, the offset is not stored yet; "sleep": in :timer.sleep.
Busy   == {"recv", "callback", "store", "sleep"}
Phases == {"absent", "loop"} \union Busy
Tokens == {"poll_events", "process_messages"}

Mailboxes == {<< >>, <<"stop">>}
               \union UNION {{<<t>>, <<t, "stop">>, <<"stop", t>>} : t \in Tokens}

HasStop(m) == m = <<"stop">> \/ \E t \in Tokens : m \in {<<t, "stop">>, <<"stop", t>>}
StopWaits  == HasStop(mailbox)

-----------------------------------------------------------------------------
(* Helpers: pieces of several handlers *)

\* Process.send_after(self(), msg, ms)
Schedule(msg, ms) == timer' = msg /\ timerWait' = ms

\* The process is gone, with its mailbox, its timer and its messages.
Exit == /\ phase' = "absent" /\ mailbox' = << >>
        /\ timer' = "none" /\ timerWait' = 0
        /\ head' = 0 /\ end' = 0 /\ backoff' = 0 /\ wait' = 0

\* handle_stop/3 and {:stop, :normal, state}: the answer reaches the group
\* unless stop/1 has given up waiting; then the group's handle_info drops it.
ReplyAndExit == /\ Exit
                /\ replied' = (stopper = "waiting")
                /\ UNCHANGED <<stopper, patience, killSent, kafkaVars, handled>>

\* schedule_poll(0) at the end of process_messages.
BackToLoop == /\ phase' = "loop" /\ head' = 0 /\ end' = 0 /\ backoff' = 0
              /\ Schedule("poll_events", 0)

\* cb_module.handle_message is called; its duration is the application's.
Call == phase' = "callback" /\ wait' \in CallbackTimes

\* Variant: no fixed point.
NextBackoffUncapped(b) == IF b = 0 THEN 500 ELSE 2 * b

\* What exponential_backoff/1 returns after sleeping its argument.
NextBackoff(b) == CASE b = 0          -> 500
                    [] b = MaxBackoff -> MaxBackoff
                    [] OTHER          -> 2 * b

Sleep == phase' = "sleep" /\ wait' = backoff /\ backoff' = NextBackoff(backoff)

-----------------------------------------------------------------------------
(* The consumer process *)

\* start_link/6 and init/1, from the group's {:assign_partitions, _} handler:
\* librdkafka starts fetching at the committed offset.
StartLink ==
    /\ ~assigned /\ phase = "absent" /\ ~killSent /\ stopper = "idle"
    /\ assigned' = TRUE /\ queueLive' = TRUE
    /\ position' = committed /\ stored' = committed
    /\ phase' = "loop" /\ Schedule("poll_events", 0)
    /\ UNCHANGED <<mailbox, head, end, backoff, wait, stopVars, committed, handled>>

TimerFires ==
    /\ timer # "none" /\ timerWait = 0
    /\ mailbox' = Append(mailbox, timer)
    /\ timer' = "none"
    /\ UNCHANGED <<phase, timerWait, head, end, backoff, wait, stopVars, kafkaVars, handled>>

\* The GenServer is in its receive and msg is the oldest message for it.
IsNext(msg) == phase = "loop" /\ mailbox # << >> /\ Head(mailbox) = msg

Receives(msg) == IsNext(msg) /\ mailbox' = Tail(mailbox)

\* Variant: nothing is scheduled after an empty poll.
PollNothingForgets ==
    /\ Receives("poll_events")
    /\ UNCHANGED <<phase, timer, timerWait, head, end, backoff, wait, stopVars, kafkaVars, handled>>

PollNothing ==
    /\ Receives("poll_events")
    /\ Schedule("poll_events", PollIdle)
    /\ UNCHANGED <<phase, head, end, backoff, wait, stopVars, kafkaVars, handled>>

\* The queue holds whatever part of the log has been fetched so far.
PollSome ==
    /\ Receives("poll_events")
    /\ \E n \in 1 .. BatchSize :
          /\ position + n <= LogEnd
          /\ head' = position /\ end' = position + n /\ position' = position + n
    /\ Schedule("process_messages", 0)
    /\ UNCHANGED <<phase, backoff, wait, stopVars, assigned, queueLive, stored,
                   committed, handled>>

ProcessMessages ==
    /\ Receives("process_messages")
    /\ IF DispatchMode = "one_by_one" THEN phase' = "recv" /\ UNCHANGED wait ELSE Call
    /\ UNCHANGED <<timer, timerWait, head, end, backoff, stopVars, kafkaVars, handled>>

HandleStop == IsNext("stop") /\ ReplyAndExit

\* recv_stop/0 finds the message; process_messages then runs handle_stop/3.
RecvStop == /\ phase = "recv" /\ StopWaits
            /\ ReplyAndExit

\* recv_stop/0 finds nothing.  One by one it runs before every callback, in
\* batch mode only after a callback that failed and before the sleep.
RecvNothing ==
    /\ phase = "recv" /\ ~StopWaits
    /\ IF DispatchMode = "one_by_one" THEN Call /\ UNCHANGED backoff ELSE Sleep
    /\ UNCHANGED <<mailbox, timer, timerWait, head, end, stopVars, kafkaVars, handled>>

CallbackOk ==
    /\ phase = "callback" /\ wait = 0
    /\ handled' = handled \union (IF DispatchMode = "one_by_one" THEN {head} ELSE head .. end - 1)
    /\ phase' = "store"
    /\ UNCHANGED <<mailbox, timer, timerWait, head, end, backoff, wait, stopVars, kafkaVars>>

\* Variant: a failed callback counts as a success.
CallbackErrorAccepted ==
    /\ phase = "callback" /\ wait = 0
    /\ phase' = "store"
    /\ UNCHANGED <<mailbox, timer, timerWait, head, end, backoff, wait, stopVars, kafkaVars, handled>>

\* {:error, reason, state} or any other term.
CallbackError ==
    /\ phase = "callback" /\ wait = 0
    /\ IF DispatchMode = "one_by_one" THEN Sleep
                                      ELSE phase' = "recv" /\ UNCHANGED <<wait, backoff>>
    /\ UNCHANGED <<mailbox, timer, timerWait, head, end, stopVars, kafkaVars, handled>>

\* The callback raises: the process dies and the linked group is told.
CallbackRaises ==
    /\ phase = "callback" /\ wait = 0
    /\ Exit
    /\ UNCHANGED <<stopVars, kafkaVars, handled>>

SleepEnds ==
    /\ phase = "sleep" /\ wait = 0
    /\ IF DispatchMode = "one_by_one" THEN phase' = "recv" /\ UNCHANGED wait ELSE Call
    /\ UNCHANGED <<mailbox, timer, timerWait, head, end, backoff, stopVars, kafkaVars, handled>>

\* consumer_offset_store of the message, or of the last message of the batch;
\* librdkafka stores the offset after it.
StoreOffset ==
    /\ phase = "store" /\ assigned
    /\ stored' = IF DispatchMode = "one_by_one" THEN head + 1 ELSE end
    /\ IF DispatchMode = "one_by_one" /\ head + 1 < end
         THEN /\ phase' = "recv" /\ head' = head + 1 /\ backoff' = 0
              /\ UNCHANGED <<timer, timerWait, end>>
         ELSE BackToLoop
    /\ UNCHANGED <<mailbox, wait, stopVars, assigned, queueLive, position, committed, handled>>

\* The partition is no longer assigned: `:ok =` does not match the error.
StoreFails ==
    /\ phase = "store" /\ ~assigned
    /\ Exit
    /\ UNCHANGED <<stopVars, kafkaVars, handled>>

-----------------------------------------------------------------------------
(* The consumer group's process: stop_consumers/1 and what follows it *)

\* Variant: stop/1 waits, but the message is never sent.
RequestStopSilent ==
    /\ assigned /\ stopper = "idle"
    /\ IF phase = "absent" THEN stopper' = "returned" /\ UNCHANGED patience
                           ELSE stopper' = "waiting" /\ patience' = StopTimeoutMs
    /\ UNCHANGED <<procVars, replied, killSent, kafkaVars, handled>>

\* stop/1.  A revocation, a termination of the group, or the restart of the
\* group after the consumer died.
RequestStop ==
    /\ assigned /\ stopper = "idle"
    /\ IF phase = "absent"
         THEN stopper' = "returned" /\ UNCHANGED <<mailbox, patience>>
         ELSE /\ mailbox' = Append(mailbox, "stop")
              /\ patience' = StopTimeoutMs
              /\ stopper' = "waiting"
    /\ UNCHANGED <<phase, timer, timerWait, head, end, backoff, wait, replied, killSent,
                   kafkaVars, handled>>

ReceiveStopped ==
    /\ stopper = "waiting" /\ replied
    /\ stopper' = "returned" /\ replied' = FALSE /\ patience' = 0
    /\ UNCHANGED <<procVars, killSent, kafkaVars, handled>>

\* Variant: stop/1 gives up only on a consumer that is still there.
StopTimeoutAlive ==
    /\ stopper = "waiting" /\ ~replied /\ patience = 0 /\ phase # "absent"
    /\ stopper' = "returned" /\ killSent' = TRUE
    /\ UNCHANGED <<procVars, patience, replied, kafkaVars, handled>>

\* after 5000 -> Process.exit(pid, :kill): a signal, nothing waits for it.
StopTimeout ==
    /\ stopper = "waiting" /\ ~replied /\ patience = 0
    /\ stopper' = "returned"
    /\ killSent' = (phase # "absent")
    /\ UNCHANGED <<procVars, patience, replied, kafkaVars, handled>>

KillArrives ==
    /\ killSent
    /\ killSent' = FALSE
    /\ Exit
    /\ UNCHANGED <<stopper, patience, replied, kafkaVars, handled>>

\* consumer_queue_cleanup: the queue goes back to the main queue.
QueueCleanup ==
    /\ stopper = "returned"
    /\ stopper' = "cleaned" /\ queueLive' = FALSE
    /\ UNCHANGED <<procVars, patience, replied, killSent, assigned, position, stored,
                   committed, handled>>

\* consumer_partition_revoke_completed, or the close of the client: librdkafka
\* drops the assignment after a last commit, which may fail.
RevokeCompleted ==
    /\ stopper = "cleaned"
    /\ stopper' = "idle" /\ assigned' = FALSE
    /\ committed' \in {committed, stored}
    /\ stored' = committed' /\ position' = committed'
    /\ UNCHANGED <<procVars, patience, replied, killSent, queueLive, handled>>

-----------------------------------------------------------------------------
(* The environment *)

\* enable.auto.commit: librdkafka commits the stored offset now and then.
AutoCommit ==
    /\ assigned /\ committed # stored
    /\ committed' = stored
    /\ UNCHANGED <<procVars, stopVars, assigned, queueLive, position, stored, handled>>

\* The node goes down, and with it everything the broker does not know.
NodeCrash ==
    /\ assigned
    /\ Exit
    /\ stopper' = "idle" /\ patience' = 0 /\ replied' = FALSE /\ killSent' = FALSE
    /\ assigned' = FALSE /\ queueLive' = FALSE
    /\ position' = committed /\ stored' = committed
    /\ UNCHANGED <<committed, handled>>

\* A step of the program is due: time does not pass before it is taken.
Due == \/ phase \in {"recv", "store"}
       \/ phase = "loop" /\ mailbox # << >>
       \/ phase \in {"callback", "sleep"} /\ wait = 0
       \/ timer # "none" /\ timerWait = 0
       \/ stopper = "waiting" /\ (replied \/ patience = 0)
       \/ stopper = "returned"
       \/ killSent

Tick(d) ==
    /\ ~Due
    /\ timer # "none" \/ phase \in {"callback", "sleep"} \/ stopper = "waiting"
    /\ timer # "none" => d <= timerWait
    /\ phase \in {"callback", "sleep"} => d <= wait
    /\ stopper = "waiting" => d <= patience
    /\ timerWait' = IF timer # "none" THEN timerWait - d ELSE timerWait
    /\ wait' = IF phase \in {"callback", "sleep"} THEN wait - d ELSE wait
    /\ patience' = IF stopper = "waiting" THEN patience - d ELSE patience
    /\ UNCHANGED <<phase, mailbox, timer, head, end, backoff, stopper, replied, killSent,
                   kafkaVars, handled>>

-----------------------------------------------------------------------------
Init ==
    /\ settings \in TopicSettings
    /\ phase = "absent" /\ mailbox = << >> /\ timer = "none" /\ timerWait = 0
    /\ head = 0 /\ end = 0 /\ backoff = 0 /\ wait = 0
    /\ stopper = "idle" /\ patience = 0 /\ replied = FALSE /\ killSent = FALSE
    /\ assigned = FALSE /\ queueLive = FALSE
    /\ position = 0 /\ stored = 0 /\ committed = 0 /\ handled = {}

Process == \/ TimerFires \/ PollNothing \/ PollSome \/ ProcessMessages
           \/ HandleStop \/ RecvStop \/ RecvNothing
           \/ CallbackOk \/ CallbackError \/ CallbackRaises
           \/ SleepEnds \/ StoreOffset \/ StoreFails

Group == \/ StartLink \/ RequestStop \/ ReceiveStopped \/ StopTimeout
         \/ KillArrives \/ QueueCleanup \/ RevokeCompleted

Environment == AutoCommit \/ NodeCrash \/ \E d \in Steps : Tick(d)

Next == UNCHANGED settings /\ (Process \/ Group \/ Environment)

Spec == Init /\ [][Next]_vars

\* The scheduler runs a process that can run, and a tick is not held back.  A
\* partition with messages left is not polled empty for ever, and a callback
\* that keeps being called does not fail for ever.
Fairness ==
    /\ WF_vars(UNCHANGED settings /\ Process)
    /\ WF_vars(UNCHANGED settings /\ \E d \in Steps : Tick(d))
    /\ WF_vars(UNCHANGED settings /\ StartLink)
    /\ WF_vars(UNCHANGED settings /\ phase = "absent" /\ RequestStop)
    /\ WF_vars(UNCHANGED settings /\ (ReceiveStopped \/ StopTimeout \/ QueueCleanup \/ RevokeCompleted))
    /\ WF_vars(UNCHANGED settings /\ KillArrives) /\ WF_vars(UNCHANGED settings /\ AutoCommit)
    /\ SF_vars(UNCHANGED settings /\ PollSome) /\ SF_vars(UNCHANGED settings /\ CallbackOk)

LiveSpec == Spec /\ Fairness

-----------------------------------------------------------------------------
(* Properties *)

Backoffs == {0, 500, 1000, 2000, 4000}

\* Every variable has its type; in particular the sleep never exceeds four
\* seconds and at most one message of each kind waits for the consumer.
TypeOK ==
    /\ settings \in TopicSettings
    /\ phase \in Phases /\ mailbox \in Mailboxes
    /\ timer \in Tokens \union {"none"} /\ timerWait \in Nat
    /\ head \in 0 .. LogEnd /\ end \in 0 .. LogEnd
    /\ backoff \in Backoffs /\ wait \in Nat
    /\ stopper \in {"idle", "waiting", "returned", "cleaned"}
    /\ patience \in 0 .. StopTimeoutMs
    /\ replied \in BOOLEAN /\ killSent \in BOOLEAN
    /\ assigned \in BOOLEAN /\ queueLive \in BOOLEAN
    /\ position \in 0 .. LogEnd /\ stored \in 0 .. LogEnd /\ committed \in 0 .. LogEnd
    /\ handled \subseteq 0 .. LogEnd - 1

\* At-least-once: no offset is stored, and none is committed, before the
\* callback has accepted every message below it, whatever crashes, kills and
\* rebalances come between the callback, the store and the commit.
AtLeastOnce == /\ committed <= stored
               /\ 0 .. stored - 1 \subseteq handled

\* In order, and bounded redelivery: a callback runs on a message only when
\* every earlier message of the partition has been accepted, and never on a
\* message below the offset the group has already committed.
InOrder == phase = "callback" => /\ 0 .. head - 1 \subseteq handled
                                 /\ committed <= head

\* A consumer that waits in its receive has exactly one message to itself
\* outstanding, in its timer or in its mailbox: with none it would never poll
\* again, with two it would poll over the messages it is still to handle.
OneToken ==
    LET inMailbox == {i \in 1 .. Len(mailbox) : mailbox[i] \in Tokens}
    IN  phase = "loop" => \/ timer # "none" /\ inMailbox = {}
                          \/ timer = "none" /\ \E i \in DOMAIN mailbox : inMailbox = {i}

\* A callback takes less than what the longest sleep leaves of the five seconds.
ShortCallbacks == \A ms \in CallbackTimes : ms < StopTimeoutMs - MaxBackoff

\* A consumer whose callbacks are short is never killed: although it may be asleep
\* for four seconds, it answers before the five seconds of stop/1 are over.  So the
\* group waits for it, and while a callback runs, and when an offset is stored, the
\* partition is still assigned and its queue not given back.
NeverKilled == ShortCallbacks => /\ ~killSent
                                 /\ phase # "absent" => assigned /\ queueLive

\* The queue is never polled after it was given back, when q->queue is NULL and
\* rd_kafka_queue_poll(NULL) takes the node down.  A killed consumer that still
\* runs meets the stop message first, because the kill follows it.
PolledQueueIsLive == IsNext("poll_events") => queueLive

\* Seen by the application the consumer delivers the partition in order and at
\* least once (PartitionDelivery).
Cursor == CASE phase = "absent" -> stored
            [] phase = "loop" -> IF end = 0 THEN position ELSE head
            [] phase = "store" -> IF DispatchMode = "one_by_one" THEN head + 1 ELSE end
            [] OTHER -> head

Delivery == INSTANCE PartitionDelivery
              WITH cursor <- Cursor, accepted <- handled, durable <- committed

DeliversInOrder == Delivery!Spec

\* A consumer that is left alone from some time on gets every message of the
\* partition accepted and committed.
Drains == <>[](phase # "absent" /\ stopper = "idle") => <>(committed = LogEnd)

\* stop/1 always returns and the rebalance it is part of is acknowledged, even
\* when the callback fails for ever.
StopReturns == stopper = "waiting" ~> ~assigned
=============================================================================
