----------------------------- MODULE Dispatcher -----------------------------
(***************************************************************************)
(* The thread that serves every client's callbacks                         *)
(* (c_src/queuecallbacksdispatcher.cc).                                    *)
(*                                                                         *)
(* librdkafka puts what it has for a client (rebalances, delivery reports, *)
(* statistics) as operations on the client's queue and calls signal() when *)
(* the queue stops being empty.  The thread waits for such an event, or    *)
(* for the time at which some client would go unpolled for too long, and   *)
(* polls.  watch() and remove() run in the threads of the callers, each in *)
(* three steps: the table of clients under its lock, librdkafka's callback *)
(* switched on or off, and a null event that makes the thread recompute    *)
(* its timeout.                                                            *)
(*                                                                         *)
(* Time passes in Tick, only while no thread has a step to take.  A client *)
(* carries the time since last_poll_ms instead of a date.                  *)
(***************************************************************************)
EXTENDS Integers

CONSTANTS
    Clients,         \* the rd_kafka_t handles
    Interval,        \* max_poll_interval_ms of the table: half the configured one
    MaxEvents,       \* bound: watch() and remove() start with fewer events of each kind
    Steps            \* how much time one tick may let pass, in ms

ASSUME DispatcherAssumption ==
    /\ Interval \in [Clients -> Nat \ {0}]
    /\ MaxEvents \in Nat
    /\ Steps \subseteq Nat \ {0}

Null    == "null"          \* events_.enqueue(nullptr)
Forever == -1              \* poll_timeout without a client: wait for an event

ASSUME NullAssumption == Null \notin Clients

VARIABLES
    stage,     \* how far each client's watch() or remove() has come: see Stages
    age,       \* the time since its last_poll_ms, once it is in the table
    pending,   \* the operations on its queue in librdkafka: see Pending
    events,    \* events_: how many of each handle, and of the null event, are queued
    pc,        \* the thread: "waiting", "woken" (it has read the time), "exited"
    woken,     \* what woke it: a handle, or Null for a null event and for a timeout
    late,      \* clients put into the table since it read the time
    timeLeft,  \* until its timeout, or Forever
    running    \* running_

vars == <<stage, age, pending, events, pc, woken, late, timeLeft, running>>

\* "absent": no client; "inserted": in the table; "enabled": librdkafka calls
\* back, too; "watched": watch() is through; "erased": out of the table;
\* "disabled": librdkafka no longer calls back.
Stages   == {"absent", "inserted", "enabled", "watched", "erased", "disabled"}
InTable  == {c \in Clients : stage[c] \in {"inserted", "enabled", "watched"}}
\* "unannounced": operations that arrived while librdkafka did not call back.
Pending  == {"none", "announced", "unannounced"}
\* The event queue keeps the order only among the events of one thread, so that
\* the dispatcher may take any of them.
Kinds  == Clients \union {Null}
Queued == {e \in Kinds : events[e] > 0}
Enqueue(e) == events' = [events EXCEPT ![e] = @ + 1]
Crowded    == \E e \in Kinds : events[e] >= MaxEvents

CallsBack(c) == stage[c] \in {"enabled", "watched", "erased"}

-----------------------------------------------------------------------------
(* The callers: consumer_new, producer_new and the ends of the clients *)

\* watch(): objects_[instance] = item(..., now_ms()), under crt_.
WatchInsert(c) ==
    /\ running /\ stage[c] = "absent" /\ ~Crowded
    /\ stage' = [stage EXCEPT ![c] = "inserted"]
    /\ age' = [age EXCEPT ![c] = 0]
    /\ late' = IF pc = "woken" THEN late \union {c} ELSE late
    /\ UNCHANGED <<pending, events, pc, woken, timeLeft, running>>

\* watch(): rd_kafka_queue_cb_event_enable.  It does not look at the queue.
WatchEnable(c) ==
    /\ stage[c] = "inserted"
    /\ stage' = [stage EXCEPT ![c] = "enabled"]
    /\ UNCHANGED <<age, pending, events, pc, woken, late, timeLeft, running>>

\* Variant: watch() does not wake the thread.
WatchNotifyForgets(c) ==
    /\ stage[c] = "enabled"
    /\ stage' = [stage EXCEPT ![c] = "watched"]
    /\ UNCHANGED <<age, pending, events, pc, woken, late, timeLeft, running>>

\* watch(): force rebuilding next poll time.
WatchNotify(c) ==
    /\ stage[c] = "enabled"
    /\ stage' = [stage EXCEPT ![c] = "watched"]
    /\ Enqueue(Null)
    /\ UNCHANGED <<age, pending, pc, woken, late, timeLeft, running>>

\* Variant: the thread goes on with a client it has seen in the table.
RemoveEraseKeepsLate(c) ==
    /\ stage[c] = "watched" /\ ~Crowded
    /\ stage' = [stage EXCEPT ![c] = "erased"]
    /\ age' = [age EXCEPT ![c] = 0]
    /\ UNCHANGED <<pending, events, pc, woken, late, timeLeft, running>>

\* remove(): objects_.erase, under crt_: not while the thread polls.
RemoveErase(c) ==
    /\ stage[c] = "watched" /\ ~Crowded
    /\ stage' = [stage EXCEPT ![c] = "erased"]
    /\ age' = [age EXCEPT ![c] = 0]
    /\ late' = late \ {c}
    /\ UNCHANGED <<pending, events, pc, woken, timeLeft, running>>

RemoveDisable(c) ==
    /\ stage[c] = "erased"
    /\ stage' = [stage EXCEPT ![c] = "disabled"]
    /\ UNCHANGED <<age, pending, events, pc, woken, late, timeLeft, running>>

\* remove(): force rebuilding next poll time; the caller then closes and
\* destroys the client with what is left on its queue.
RemoveNotify(c) ==
    /\ stage[c] = "disabled"
    /\ stage' = [stage EXCEPT ![c] = "absent"]
    /\ pending' = [pending EXCEPT ![c] = "none"]
    /\ Enqueue(Null)
    /\ UNCHANGED <<age, pc, woken, late, timeLeft, running>>

\* Variant: the destructor does not wake the thread.
DestroySilently ==
    /\ running /\ \A c \in Clients : stage[c] = "absent"
    /\ running' = FALSE
    /\ UNCHANGED <<stage, age, pending, events, pc, woken, late, timeLeft>>

\* The destructor, when the library is unloaded: ASSERT(objects_.empty()).
Destroy ==
    /\ running /\ \A c \in Clients : stage[c] = "absent"
    /\ running' = FALSE
    /\ Enqueue(Null)
    /\ UNCHANGED <<stage, age, pending, pc, woken, late, timeLeft>>

-----------------------------------------------------------------------------
(* librdkafka *)

\* An operation lands on the client's queue.  Only one that finds the queue empty
\* calls signal(), and only when the callback is switched on.
OpArrives(c) ==
    /\ stage[c] = "inserted" \/ CallsBack(c)
    /\ pending[c] = "none"
    /\ pending' = [pending EXCEPT ![c] = IF CallsBack(c) THEN "announced" ELSE "unannounced"]
    /\ IF CallsBack(c) THEN Enqueue(c) ELSE UNCHANGED events
    /\ UNCHANGED <<stage, age, pc, woken, late, timeLeft, running>>

-----------------------------------------------------------------------------
(* The thread: process_callbacks *)

Dequeue ==
    /\ pc = "waiting"
    /\ woken' \in Queued
    /\ events' = [events EXCEPT ![woken'] = @ - 1]
    /\ pc' = "woken"
    /\ UNCHANGED <<stage, age, pending, late, timeLeft, running>>

TimeoutExpires ==
    /\ pc = "waiting" /\ Queued = {} /\ timeLeft = 0
    /\ woken' = Null
    /\ pc' = "woken"
    /\ UNCHANGED <<stage, age, pending, events, late, timeLeft, running>>

\* check_max_poll_interval_ms: now - last_poll_ms has reached the interval.
Overdue == {c \in InTable : age[c] >= Interval[c]}

\* next_schedule: the interval plus the time since the last poll, the smallest
\* over the table.
NextTimeout(ages) ==
    \/ InTable = {} /\ timeLeft' = Forever
    \/ \E c \in InTable : /\ timeLeft' = Interval[c] + ages[c]
                          /\ \A o \in InTable : timeLeft' <= Interval[o] + ages[o]

\* The step of a thread that calls do_poll for polled and resets last_poll_ms
\* for stamped.
PollStep(polled, stamped) ==
    LET ages == [c \in Clients |-> IF c \in stamped THEN 0 ELSE age[c]]
    IN  /\ pc = "woken"
        /\ pending' = [c \in Clients |-> IF c \in polled THEN "none" ELSE pending[c]]
        /\ age' = ages
        /\ NextTimeout(ages)
        /\ late' = {} /\ woken' = Null
        /\ pc' = IF running THEN "waiting" ELSE "exited"
        /\ UNCHANGED <<stage, events, running>>

\* Variant: the client that woke the thread is not polled.
PollIgnoresWoken == PollStep(Overdue, Overdue)

\* Variant: the client that woke the thread is not looked up in the table.
PollUnchecked == LET polled == ({woken} \intersect Clients) \union Overdue
                 IN  PollStep(polled, polled)

\* Variant: an overdue client gets a new date but no poll.
PollStampsOnly == LET known == {woken} \intersect InTable
                  IN  PollStep(known, known \union Overdue)

\* The thread takes crt_, polls the client that woke it if it is still in the
\* table, polls the overdue ones and computes its next timeout.  For a client
\* put into the table after the thread has read the time the unsigned
\* difference may wrap around, and then it is polled as well.
Poll ==
    /\ pc = "woken"
    /\ \E wrapped \in SUBSET late :
          LET polled == ({woken} \intersect InTable) \union Overdue \union wrapped
              ages   == [c \in Clients |-> IF c \in polled THEN 0 ELSE age[c]]
          IN  /\ pending' = [c \in Clients |-> IF c \in polled THEN "none" ELSE pending[c]]
              /\ age' = ages
              /\ NextTimeout(ages)
    /\ late' = {} /\ woken' = Null
    /\ pc' = IF running THEN "waiting" ELSE "exited"
    /\ UNCHANGED <<stage, events, running>>

-----------------------------------------------------------------------------
\* Some thread has a step to take: time does not pass before it.
Due == \/ pc = "woken"
       \/ pc = "waiting" /\ (Queued # {} \/ timeLeft = 0)
       \/ \E c \in Clients : stage[c] \in {"inserted", "enabled", "erased", "disabled"}

Tick(d) ==
    /\ ~Due /\ timeLeft # Forever /\ d <= timeLeft
    /\ timeLeft' = timeLeft - d
    /\ age' = [c \in Clients |-> IF c \in InTable THEN age[c] + d ELSE age[c]]
    /\ UNCHANGED <<stage, pending, events, pc, woken, late, running>>

Init ==
    /\ stage = [c \in Clients |-> "absent"] /\ age = [c \in Clients |-> 0]
    /\ pending = [c \in Clients |-> "none"] /\ events = [e \in Kinds |-> 0]
    /\ pc = "waiting" /\ woken = Null /\ late = {} /\ timeLeft = Forever
    /\ running = TRUE

Watch(c)  == WatchInsert(c) \/ WatchEnable(c) \/ WatchNotify(c)
Remove(c) == RemoveErase(c) \/ RemoveDisable(c) \/ RemoveNotify(c)
Thread    == Dequeue \/ TimeoutExpires \/ Poll

Next == \/ \E c \in Clients : Watch(c) \/ Remove(c) \/ OpArrives(c)
        \/ Thread \/ Destroy
        \/ \E d \in Steps : Tick(d)

Spec == Init /\ [][Next]_vars

\* The thread and the callers are scheduled.
Fairness == /\ WF_vars(Thread)
            /\ \A c \in Clients : /\ WF_vars(WatchEnable(c) \/ WatchNotify(c))
                                  /\ WF_vars(RemoveDisable(c) \/ RemoveNotify(c))

\* Time does not stand still while clients come and go infinitely often.
TimePasses == <>[](InTable = {}) \/ []<><<\E d \in Steps : Tick(d)>>_vars

LiveSpec == Spec /\ Fairness /\ TimePasses

-----------------------------------------------------------------------------
(* Properties *)

TypeOK ==
    /\ stage \in [Clients -> Stages] /\ age \in [Clients -> Nat]
    /\ pending \in [Clients -> Pending]
    /\ events \in [Kinds -> Nat]
    /\ pc \in {"waiting", "woken", "exited"} /\ woken \in Kinds
    /\ late \subseteq InTable /\ timeLeft \in Nat \union {Forever}
    /\ running \in BOOLEAN

\* No client in the table goes unpolled for three intervals, one and a half
\* times the configured max.poll.interval.ms: the timeout adds the time since
\* the last poll instead of subtracting it, and only the next check corrects it.
PollGap == \A c \in InTable : age[c] <= 3 * Interval[c] - 2

\* Operations that arrived once librdkafka called back have an event on its way:
\* the thread cannot be asleep over them.  It can be over earlier ones.
NoLostWakeup ==
    \A c \in InTable : pending[c] = "announced" =>
        c \in Queued \/ (pc = "woken" /\ woken = c)

\* A client that has left the table is not polled any more, whatever events of
\* it are still queued: its owner is about to destroy it.
RemovedIsNotPolled ==
    [][\A c \in Clients : stage[c] \in {"erased", "disabled"} /\ pending[c] # "none" =>
            pending'[c] # "none" \/ stage'[c] = "absent"]_vars

\* Every operation is served unless its client is removed, even one whose
\* wakeup was lost because it was queued before the callback was switched on.
Served == \A c \in Clients : pending[c] # "none" ~> pending[c] = "none"

\* The destructor's join() returns.
Joins == ~running ~> pc = "exited"
=============================================================================
