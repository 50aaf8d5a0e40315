-------------------------- MODULE DispatcherProofs --------------------------
(***************************************************************************)
(* Theorems about Dispatcher, for every set of clients, every interval and *)
(* every granularity of time.                                              *)
(***************************************************************************)
EXTENDS Dispatcher, TLAPS

-----------------------------------------------------------------------------
(* The queue of events *)

\* An event that is enqueued is in the queue, with those that were there.
LEMMA Enqueued ==
    ASSUME events \in [Kinds -> Nat], NEW e \in Kinds, Enqueue(e)
    PROVE  events' \in [Kinds -> Nat] /\ Queued' = Queued \union {e}
  BY DEF Enqueue, Queued

-----------------------------------------------------------------------------
(* How long a client can go unpolled *)

\* The thread's timeout leaves the client within its bound, or the client was
\* put into the table just now and the thread is to be woken for it.
Accounted(c) == timeLeft # Forever /\ age[c] + timeLeft <= 3 * Interval[c] - 2
ToBeNoticed(c) == /\ age[c] = 0
                  /\ stage[c] \in {"inserted", "enabled"} \/ Queued # {} \/ pc = "woken"

GapInv == \A c \in InTable : Accounted(c) \/ ToBeNoticed(c)

\* After the library is unloaded there is no client any more.
UnloadInv == /\ ~running => \A c \in Clients : stage[c] = "absent"
             /\ pc = "exited" => ~running

DInv == TypeOK /\ GapInv /\ UnloadInv

LEMMA DispatcherInit == Init => DInv
<1> SUFFICES ASSUME Init PROVE DInv
  OBVIOUS
<1> USE DEF Init
<1>1. InTable = {}
  BY DEF InTable
<1>2. running \in BOOLEAN
  OBVIOUS
<1>3. TypeOK
  BY <1>1, <1>2 DEF TypeOK, Stages, Pending, Forever, Kinds
<1> QED
  BY <1>1, <1>3 DEF DInv, GapInv, UnloadInv

LEMMA DispatcherTypeStep == TypeOK /\ [Next]_vars => TypeOK'
<1> SUFFICES ASSUME TypeOK, [Next]_vars PROVE TypeOK'
  OBVIOUS
<1> USE DispatcherAssumption DEF TypeOK, Stages, Pending, Kinds
<1>1. ASSUME NEW c \in Clients, WatchInsert(c) PROVE TypeOK'
  BY <1>1 DEF WatchInsert, InTable
<1>2. ASSUME NEW c \in Clients, WatchEnable(c) PROVE TypeOK'
  BY <1>2 DEF WatchEnable, InTable
<1>3. ASSUME NEW c \in Clients, WatchNotify(c) PROVE TypeOK'
  BY <1>3, Enqueued DEF WatchNotify, InTable
<1>4. ASSUME NEW c \in Clients, RemoveErase(c) PROVE TypeOK'
  BY <1>4 DEF RemoveErase, InTable
<1>5. ASSUME NEW c \in Clients, RemoveDisable(c) PROVE TypeOK'
  BY <1>5 DEF RemoveDisable, InTable
<1>6. ASSUME NEW c \in Clients, RemoveNotify(c) PROVE TypeOK'
  BY <1>6, Enqueued DEF RemoveNotify, InTable
<1>7. ASSUME NEW c \in Clients, OpArrives(c) PROVE TypeOK'
  BY <1>7, Enqueued DEF OpArrives, InTable
<1>8. CASE Dequeue
  BY <1>8 DEF Dequeue, Queued, InTable
<1>9. CASE TimeoutExpires
  BY <1>9 DEF TimeoutExpires, InTable
<1>10. CASE Poll
  BY <1>10 DEF Poll, NextTimeout, Overdue, InTable
<1>11. CASE Destroy
  <2>1. running' \in BOOLEAN
    BY <1>11 DEF Destroy
  <2> QED
    BY <1>11, <2>1, Enqueued DEF Destroy, InTable
<1>12. ASSUME NEW d \in Steps, Tick(d) PROVE TypeOK'
  BY <1>12 DEF Tick, InTable, Forever
<1>13. CASE UNCHANGED vars
  BY <1>13 DEF vars, InTable
<1> QED
  BY <1>1, <1>2, <1>3, <1>4, <1>5, <1>6, <1>7, <1>8, <1>9, <1>10, <1>11, <1>12, <1>13
  DEF Next, Watch, Remove, Thread

LEMMA UnloadStep == TypeOK /\ UnloadInv /\ [Next]_vars => UnloadInv'
<1> SUFFICES ASSUME TypeOK, UnloadInv, [Next]_vars PROVE UnloadInv'
  OBVIOUS
<1> USE DEF TypeOK, UnloadInv, Stages
<1>1. ASSUME NEW c \in Clients, Watch(c) \/ Remove(c) PROVE UnloadInv'
  BY <1>1 DEF Watch, Remove, WatchInsert, WatchEnable, WatchNotify, RemoveErase,
              RemoveDisable, RemoveNotify
<1>2. ASSUME NEW c \in Clients, OpArrives(c) PROVE UnloadInv'
  BY <1>2 DEF OpArrives
<1>3. CASE Thread
  BY <1>3 DEF Thread, Dequeue, TimeoutExpires, Poll
<1>4. CASE Destroy
  BY <1>4 DEF Destroy
<1>5. ASSUME NEW d \in Steps, Tick(d) PROVE UnloadInv'
  BY <1>5 DEF Tick
<1>6. CASE UNCHANGED vars
  BY <1>6 DEF vars
<1> QED
  BY <1>1, <1>2, <1>3, <1>4, <1>5, <1>6 DEF Next

\* After a poll every client of the table is within its interval, and the next
\* timeout leaves it within three.
LEMMA PollAccounts ==
    ASSUME TypeOK, Poll, NEW c \in InTable
    PROVE  timeLeft' # Forever /\ age'[c] + timeLeft' <= 3 * Interval[c] - 2
<1> USE DispatcherAssumption DEF TypeOK
<1>1. PICK polled \in SUBSET InTable :
            /\ Overdue \subseteq polled
            /\ age' = [k \in Clients |-> IF k \in polled THEN 0 ELSE age[k]]
            /\ NextTimeout(age')
  BY DEF Poll, Overdue, InTable
<1>2. c \in Clients /\ Interval[c] \in Nat \ {0} /\ age[c] \in Nat
  BY DEF InTable
<1>3. age'[c] \in Nat /\ age'[c] < Interval[c]
  <2>1. CASE c \in polled
    BY <1>1, <1>2, <2>1
  <2>2. CASE c \notin polled
    BY <1>1, <1>2, <2>2 DEF Overdue
  <2> QED
    BY <2>1, <2>2
<1>4. timeLeft' \in Nat /\ timeLeft' <= Interval[c] + age'[c]
  <2>1. PICK k \in InTable : timeLeft' = Interval[k] + age'[k]
    BY <1>1 DEF NextTimeout
  <2>2. Interval[k] \in Nat /\ age'[k] \in Nat
    BY <1>1 DEF InTable
  <2>3. timeLeft' <= Interval[c] + age'[c]
    BY <1>1 DEF NextTimeout
  <2> QED
    BY <2>1, <2>2, <2>3
<1> QED
  BY <1>2, <1>3, <1>4 DEF Forever

LEMMA GapStep == DInv /\ [Next]_vars => GapInv'
<1> SUFFICES ASSUME DInv, [Next]_vars, NEW k \in InTable'
             PROVE  Accounted(k)' \/ ToBeNoticed(k)'
  BY DEF GapInv
<1> USE DispatcherAssumption DEF DInv, TypeOK, GapInv, Accounted, ToBeNoticed, InTable, Stages
<1>same. events' = events => Queued' = Queued
  BY DEF Queued
<1> USE <1>same
<1>1. ASSUME NEW c \in Clients, WatchInsert(c) PROVE Accounted(k)' \/ ToBeNoticed(k)'
  BY <1>1 DEF WatchInsert
<1>2. ASSUME NEW c \in Clients, WatchEnable(c) PROVE Accounted(k)' \/ ToBeNoticed(k)'
  BY <1>2 DEF WatchEnable
<1>3. ASSUME NEW c \in Clients, WatchNotify(c) PROVE Accounted(k)' \/ ToBeNoticed(k)'
  <2>1. Queued' # {}
    BY <1>3, Enqueued DEF WatchNotify, Kinds
  <2> QED
    BY <1>3, <2>1 DEF WatchNotify
<1>4. ASSUME NEW c \in Clients, RemoveErase(c) PROVE Accounted(k)' \/ ToBeNoticed(k)'
  BY <1>4 DEF RemoveErase
<1>5. ASSUME NEW c \in Clients, RemoveDisable(c) PROVE Accounted(k)' \/ ToBeNoticed(k)'
  BY <1>5 DEF RemoveDisable
<1>6. ASSUME NEW c \in Clients, RemoveNotify(c) PROVE Accounted(k)' \/ ToBeNoticed(k)'
  <2>1. Queued' # {}
    BY <1>6, Enqueued DEF RemoveNotify, Kinds
  <2> QED
    BY <1>6, <2>1 DEF RemoveNotify
<1>7. ASSUME NEW c \in Clients, OpArrives(c) PROVE Accounted(k)' \/ ToBeNoticed(k)'
  <2>1. Queued' # {} \/ Queued' = Queued
    BY <1>7, Enqueued DEF OpArrives, Kinds, Queued
  <2> QED
    BY <1>7, <2>1 DEF OpArrives
<1>8. CASE Dequeue
  BY <1>8 DEF Dequeue
<1>9. CASE TimeoutExpires
  BY <1>9 DEF TimeoutExpires
<1>10. CASE Poll
  <2>1. k \in InTable
    BY <1>10 DEF Poll
  <2> QED
    BY <1>10, <2>1, PollAccounts
<1>11. CASE Destroy
  BY <1>11 DEF Destroy
<1>12. ASSUME NEW d \in Steps, Tick(d) PROVE Accounted(k)' \/ ToBeNoticed(k)'
  <2>1. k \in InTable /\ Accounted(k) /\ d \in Nat
    BY <1>12 DEF Tick, Due, UnloadInv
  <2>2. age'[k] = age[k] + d /\ timeLeft' = timeLeft - d /\ d <= timeLeft
    BY <1>12, <2>1 DEF Tick
  <2> QED
    BY <2>1, <2>2 DEF Forever
<1>13. CASE UNCHANGED vars
  BY <1>13 DEF vars
<1> QED
  BY <1>1, <1>2, <1>3, <1>4, <1>5, <1>6, <1>7, <1>8, <1>9, <1>10, <1>11, <1>12, <1>13
  DEF Next, Watch, Remove, Thread

LEMMA DispatcherInvariance == Spec => []DInv
<1>1. DInv /\ [Next]_vars => DInv'
  BY DispatcherTypeStep, UnloadStep, GapStep DEF DInv
<1> QED
  BY <1>1, DispatcherInit, PTL DEF Spec

\* A client in the table is polled again before three of its intervals are over.
THEOREM PolledWithinThreeIntervals == Spec => []PollGap
<1>1. DInv => PollGap
  <2> SUFFICES ASSUME DInv, NEW c \in InTable PROVE age[c] <= 3 * Interval[c] - 2
    BY DEF PollGap
  <2>1. c \in Clients /\ Interval[c] \in Nat \ {0} /\ age[c] \in Nat
    BY DispatcherAssumption DEF DInv, TypeOK, InTable
  <2>2. timeLeft \in Nat \/ timeLeft = Forever
    BY DEF DInv, TypeOK
  <2>3. Accounted(c) \/ ToBeNoticed(c)
    BY DEF DInv, GapInv
  <2> QED
    BY <2>1, <2>2, <2>3 DEF Accounted, ToBeNoticed
<1> QED
  BY <1>1, DispatcherInvariance, PTL

\* Every variable keeps its type: only clients of the table are ever late.
THEOREM DispatcherTypes == Spec => []TypeOK
<1>1. DInv => TypeOK
  BY DEF DInv
<1> QED
  BY <1>1, DispatcherInvariance, PTL

\* The thread polls only clients of the table: what is queued for a client that
\* was erased stays there until its owner destroys it.
THEOREM RemovedStayUntouched == Spec => RemovedIsNotPolled
<1> DEFINE Untouched == \A c \in Clients : stage[c] \in {"erased", "disabled"} /\ pending[c] # "none" =>
                            pending'[c] # "none" \/ stage'[c] = "absent"
<1>1. ASSUME TypeOK, [Next]_vars PROVE [Untouched]_vars
  <2> USE <1>1 DEF TypeOK
  <2>1. ASSUME NEW c \in Clients, Watch(c) PROVE Untouched
    BY <2>1 DEF Watch, WatchInsert, WatchEnable, WatchNotify
  <2>2. ASSUME NEW c \in Clients, Remove(c) PROVE Untouched
    BY <2>2 DEF Remove, RemoveErase, RemoveDisable, RemoveNotify
  <2>3. ASSUME NEW c \in Clients, OpArrives(c) PROVE Untouched
    BY <2>3 DEF OpArrives, Pending
  <2>4. CASE Poll
    <3>1. PICK polled \in SUBSET InTable :
              pending' = [c \in Clients |-> IF c \in polled THEN "none" ELSE pending[c]]
      BY <2>4 DEF Poll, Overdue, InTable
    <3> QED
      BY <3>1 DEF InTable
  <2>5. CASE Dequeue \/ TimeoutExpires \/ Destroy
    BY <2>5 DEF Dequeue, TimeoutExpires, Destroy
  <2>6. ASSUME NEW d \in Steps, Tick(d) PROVE Untouched
    BY <2>6 DEF Tick
  <2> QED
    BY <2>1, <2>2, <2>3, <2>4, <2>5, <2>6 DEF Next, Thread
<1> QED
  BY <1>1, DispatcherTypes, PTL DEF Spec, RemovedIsNotPolled

-----------------------------------------------------------------------------
(* No operation is left on a queue without a wakeup *)

\* A client that librdkafka does not call back yet has nothing announced.
NothingEarly == \A c \in Clients : stage[c] \in {"absent", "inserted"} => pending[c] # "announced"

WakeInv == TypeOK /\ NothingEarly /\ NoLostWakeup

LEMMA WakeStep ==
    ASSUME WakeInv, [Next]_vars
    PROVE  NothingEarly' /\ NoLostWakeup'
<1> USE DEF WakeInv, TypeOK, NothingEarly, NoLostWakeup, InTable, CallsBack, Stages
<1>same. events' = events => Queued' = Queued
  BY DEF Queued
<1> USE <1>same
<1>1. ASSUME NEW c \in Clients, WatchInsert(c) PROVE NothingEarly' /\ NoLostWakeup'
  BY <1>1 DEF WatchInsert
<1>2. ASSUME NEW c \in Clients, WatchEnable(c) PROVE NothingEarly' /\ NoLostWakeup'
  BY <1>2 DEF WatchEnable
<1>3. ASSUME NEW c \in Clients, WatchNotify(c) PROVE NothingEarly' /\ NoLostWakeup'
  BY <1>3, Enqueued DEF WatchNotify, Kinds
<1>4. ASSUME NEW c \in Clients, RemoveErase(c) PROVE NothingEarly' /\ NoLostWakeup'
  BY <1>4 DEF RemoveErase
<1>5. ASSUME NEW c \in Clients, RemoveDisable(c) PROVE NothingEarly' /\ NoLostWakeup'
  BY <1>5 DEF RemoveDisable
<1>6. ASSUME NEW c \in Clients, RemoveNotify(c) PROVE NothingEarly' /\ NoLostWakeup'
  BY <1>6, Enqueued DEF RemoveNotify, Kinds
<1>7. ASSUME NEW c \in Clients, OpArrives(c) PROVE NothingEarly' /\ NoLostWakeup'
  BY <1>7, Enqueued DEF OpArrives, Kinds
<1>8. CASE Dequeue
  BY <1>8 DEF Dequeue, Queued, Kinds
<1>9. CASE TimeoutExpires
  BY <1>9 DEF TimeoutExpires
<1>10. CASE Poll
  BY <1>10 DEF Poll
<1>11. CASE Destroy
  BY <1>11, Enqueued DEF Destroy, Kinds
<1>12. ASSUME NEW d \in Steps, Tick(d) PROVE NothingEarly' /\ NoLostWakeup'
  BY <1>12 DEF Tick
<1>13. CASE UNCHANGED vars
  BY <1>13 DEF vars
<1> QED
  BY <1>1, <1>2, <1>3, <1>4, <1>5, <1>6, <1>7, <1>8, <1>9, <1>10, <1>11, <1>12, <1>13
  DEF Next, Watch, Remove, Thread

\* An operation that arrives once librdkafka calls back always has a wakeup on its
\* way: signal() put it behind the null events, and no poll of another client,
\* no early operation and no remove() takes it away.
THEOREM WakeupsAreNotLost == Spec => []NoLostWakeup
<1>1. Init => WakeInv
  BY DispatcherInit DEF Init, DInv, WakeInv, NothingEarly, NoLostWakeup, InTable
<1>2. WakeInv /\ [Next]_vars => WakeInv'
  BY WakeStep, DispatcherTypeStep DEF WakeInv
<1>3. WakeInv => NoLostWakeup
  BY DEF WakeInv
<1> QED
  BY <1>1, <1>2, <1>3, PTL DEF Spec

-----------------------------------------------------------------------------
(* The thread never sleeps over what it is there for *)

\* The null event of the destructor, or one before it, still wakes the thread.
EndIsNoticed == ~running /\ pc = "waiting" => Queued # {}

LEMMA EndStep == DInv /\ EndIsNoticed /\ [Next]_vars => EndIsNoticed'
<1> SUFFICES ASSUME DInv, EndIsNoticed, [Next]_vars PROVE EndIsNoticed'
  OBVIOUS
<1> USE DEF DInv, TypeOK, EndIsNoticed
<1>1. events' = events => Queued' = Queued
  BY DEF Queued
<1>2. ASSUME NEW c \in Clients, Watch(c) \/ Remove(c) \/ OpArrives(c) PROVE EndIsNoticed'
  <2>1. running' = running /\ pc' = pc /\ (events' = events \/ \E e \in Kinds : Enqueue(e))
    BY <1>2 DEF Watch, WatchInsert, WatchEnable, WatchNotify, Remove, RemoveErase, RemoveDisable,
       RemoveNotify, OpArrives, Kinds
  <2> QED
    BY <1>1, <2>1, Enqueued
<1>3. CASE Dequeue \/ TimeoutExpires
  BY <1>3 DEF Dequeue, TimeoutExpires
<1>4. CASE Poll
  BY <1>4 DEF Poll
<1>5. CASE Destroy
  BY <1>5, Enqueued DEF Destroy, Kinds
<1>6. ASSUME NEW d \in Steps, Tick(d) PROVE EndIsNoticed'
  BY <1>1, <1>6 DEF Tick
<1>7. CASE UNCHANGED vars
  BY <1>1, <1>7 DEF vars
<1> QED
  BY <1>2, <1>3, <1>4, <1>5, <1>6, <1>7 DEF Next, Thread

\* The thread sleeps, with no event to wake it, only while the library is loaded, and if
\* some client is watched with a timeout that leaves the client within its bound.
SleepsSafely == pc = "waiting" /\ Queued = {} =>
    /\ running
    /\ \A c \in Clients : stage[c] = "watched" =>
          timeLeft # Forever /\ age[c] + timeLeft <= 3 * Interval[c] - 2

\* Neither the end of the library nor a client that has just been added is slept over,
\* in whatever order watch(), remove() and the thread take their steps: what Joins and
\* Served rest on.
THEOREM NeverSleepsOver == Spec => []SleepsSafely
<1>1. Init => EndIsNoticed
  BY DEF Init, EndIsNoticed
<1>2. DInv /\ EndIsNoticed => SleepsSafely
  <2> SUFFICES ASSUME DInv, EndIsNoticed, pc = "waiting", Queued = {}
               PROVE  /\ running
                      /\ \A c \in Clients : stage[c] = "watched" => Accounted(c)
    BY DEF SleepsSafely, Accounted
  <2>1. running
    BY DEF EndIsNoticed, DInv, TypeOK
  <2>2. ASSUME NEW c \in Clients, stage[c] = "watched" PROVE Accounted(c)
    BY <2>2 DEF DInv, GapInv, InTable, ToBeNoticed
  <2> QED
    BY <2>1, <2>2
<1> QED
  BY <1>1, <1>2, EndStep, DispatcherInvariance, PTL DEF Spec
=============================================================================
