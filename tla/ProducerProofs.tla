--------------------------- MODULE ProducerProofs ---------------------------
(* What Producer guarantees for any messages, batches and crashes.         *)
EXTENDS Producer, TLAPS

\* What the phases of the process say of its variables: init/1 sets them one
\* after the other, and a replay that has offered a message still has it.
PhaseInv ==
    /\ pc = "owned" => owner = life
    /\ pc = "cached" => owner = life /\ cached = life
    /\ pc = "down" => life <= MaxCrashes
    /\ pc \in {"replay", "offered"} => strategy = "local_disk_queue"
    /\ pc = "offered" => disk # << >> /\ left > 0

\* A reference to the client is read from the cache only, where it has an owner.
ReachedInv ==
    /\ cached # 0 => owner # 0
    /\ \A m \in Messages : call[m] = "looked" => owner # 0

IInv == TypeOK /\ OneTimer /\ OwnerFollows /\ PhaseInv /\ ReachedInv

-----------------------------------------------------------------------------
(* Sequences *)

\* What is left of a sequence.
LEMMA TailType == ASSUME NEW S, NEW s \in Seq(S), s # << >>
                  PROVE  Tail(s) \in Seq(S) /\ Head(s) \in S
  OBVIOUS

\* One element more.
LEMMA AppendType == ASSUME NEW S, NEW s \in Seq(S), NEW x \in S
                    PROVE  Append(s, x) \in Seq(S) /\ Append(s, x) # << >>
<1>1. Append(s, x) \in Seq(S) /\ Len(Append(s, x)) = Len(s) + 1 /\ Len(s) \in Nat
  OBVIOUS
<1>2. Len(<< >>) = 0
  OBVIOUS
<1> QED
  BY <1>1, <1>2

-----------------------------------------------------------------------------
(* The inductive invariant *)

\* The initial states satisfy the invariant.
LEMMA InitIInv == Init => IInv
  BY ProducerAssumption
  DEF Init, IInv, TypeOK, OneTimer, OwnerFollows, PhaseInv, ReachedInv, Phases, Alive, Calls

\* Every step keeps the types.
LEMMA StepType == IInv /\ [Next]_vars => TypeOK'
<1> SUFFICES ASSUME IInv, [Next]_vars PROVE TypeOK'
  OBVIOUS
<1> USE ProducerAssumption DEF IInv, TypeOK, Phases, Calls, Answer, callVars, clientVars, processVars
<1>1. ASSUME NEW m \in Messages, Lookup(m) PROVE TypeOK'
  BY <1>1 DEF Lookup
<1>2. ASSUME NEW m \in Messages, Produce(m) PROVE TypeOK'
  BY <1>2 DEF Produce, Taken, Refused
<1>3. ASSUME NEW m \in Messages, ProduceSync(m) PROVE TypeOK'
  BY <1>3 DEF ProduceSync, Taken, Refused
<1>4. ASSUME NEW m \in Messages, ProduceBatch(m) PROVE TypeOK'
  BY <1>4 DEF ProduceBatch, Taken, Refused
<1>5. ASSUME NEW m \in Messages, QueueEvent(m) PROVE TypeOK'
  BY <1>5 DEF QueueEvent
<1>6. ASSUME NEW m \in Messages, CallTimeout(m) PROVE TypeOK'
  BY <1>6 DEF CallTimeout
<1>7. CASE InitOwner
  BY <1>7 DEF InitOwner
<1>8. CASE InitCache
  BY <1>8 DEF InitCache
<1>9. CASE InitQueue
  BY <1>9 DEF InitQueue
<1>10. ASSUME NEW m \in Messages, HandleQueueEvent(m) PROVE TypeOK'
  <2>1. disk' \in Seq(Messages)
    <3>1. Append(disk, m) \in Seq(Messages)
      BY AppendType
    <3>2. disk' = disk \/ disk' = Append(disk, m)
      BY <1>10 DEF HandleQueueEvent
    <3> QED
      BY <3>1, <3>2
  <2>2. timers' \in Nat
    BY <1>10 DEF HandleQueueEvent
  <2>3. sch' \in BOOLEAN
    BY <1>10 DEF HandleQueueEvent
  <2>4. call' \in [Messages -> Calls]
    BY <1>10 DEF HandleQueueEvent
  <2> QED
    BY <1>10, <2>1, <2>2, <2>3, <2>4 DEF HandleQueueEvent
<1>11. CASE ConsumeQueue
  BY <1>11 DEF ConsumeQueue
<1>12. CASE BatchEnds
  BY <1>12 DEF BatchEnds
<1>13. CASE ReplayCompleted
  BY <1>13 DEF ReplayCompleted
<1>14. CASE Offer
  BY <1>14, TailType DEF Offer
<1>15. CASE Dequeue
  BY <1>15, TailType DEF Dequeue, PhaseInv
<1>16. CASE Crash
  BY <1>16 DEF Crash, CallersFail
<1>17. CASE Restart
  BY <1>17 DEF Restart, PhaseInv
<1>18. CASE Terminate
  BY <1>18 DEF Terminate
<1>19. CASE ClientStopped
  BY <1>19 DEF ClientStopped, CallersFail
<1>20. CASE FlushEnds
  BY <1>20 DEF FlushEnds
<1>21. ASSUME NEW m \in Messages, DeliveryReport(m) PROVE TypeOK'
  BY <1>21 DEF DeliveryReport
<1>22. CASE UNCHANGED vars
  BY <1>22 DEF vars
<1> QED
  BY <1>1, <1>2, <1>3, <1>4, <1>5, <1>6, <1>7, <1>8, <1>9, <1>10, <1>11, <1>12, <1>13, <1>14,
     <1>15, <1>16, <1>17, <1>18, <1>19, <1>20, <1>21, <1>22
  DEF Next, Callers, Process, Replay

\* Every step keeps the single chain of timers.
LEMMA StepTimer == IInv /\ [Next]_vars => OneTimer'
<1> SUFFICES ASSUME IInv, [Next]_vars PROVE OneTimer'
  OBVIOUS
<1> USE DEF IInv, TypeOK, OneTimer, processVars
<1>1. ASSUME NEW m \in Messages, Lookup(m) PROVE OneTimer'
  BY <1>1 DEF Lookup
<1>2. ASSUME NEW m \in Messages, Produce(m) PROVE OneTimer'
  BY <1>2 DEF Produce, Taken, Refused
<1>3. ASSUME NEW m \in Messages, ProduceSync(m) PROVE OneTimer'
  BY <1>3 DEF ProduceSync, Taken, Refused
<1>4. ASSUME NEW m \in Messages, ProduceBatch(m) PROVE OneTimer'
  BY <1>4 DEF ProduceBatch, Taken, Refused
<1>5. ASSUME NEW m \in Messages, QueueEvent(m) PROVE OneTimer'
  BY <1>5 DEF QueueEvent
<1>6. ASSUME NEW m \in Messages, CallTimeout(m) PROVE OneTimer'
  BY <1>6 DEF CallTimeout
<1>7. CASE InitOwner
  BY <1>7 DEF InitOwner
<1>8. CASE InitCache
  BY <1>8 DEF InitCache
<1>9. CASE InitQueue
  BY <1>9 DEF InitQueue
<1>10. ASSUME NEW m \in Messages, HandleQueueEvent(m) PROVE OneTimer'
  BY <1>10, AppendType DEF HandleQueueEvent
<1>11. CASE ConsumeQueue
  BY <1>11 DEF ConsumeQueue
<1>12. CASE BatchEnds
  BY <1>12 DEF BatchEnds, PhaseInv
<1>13. CASE ReplayCompleted
  BY <1>13 DEF ReplayCompleted
<1>14. CASE Offer
  BY <1>14 DEF Offer
<1>15. CASE Dequeue
  BY <1>15 DEF Dequeue
<1>16. CASE Crash
  BY <1>16 DEF Crash, CallersFail
<1>17. CASE Restart
  BY <1>17 DEF Restart
<1>18. CASE Terminate
  BY <1>18 DEF Terminate
<1>19. CASE ClientStopped
  BY <1>19 DEF ClientStopped, CallersFail
<1>20. CASE FlushEnds
  BY <1>20 DEF FlushEnds
<1>21. ASSUME NEW m \in Messages, DeliveryReport(m) PROVE OneTimer'
  BY <1>21 DEF DeliveryReport
<1>22. CASE UNCHANGED vars
  BY <1>22 DEF vars
<1> QED
  BY <1>1, <1>2, <1>3, <1>4, <1>5, <1>6, <1>7, <1>8, <1>9, <1>10, <1>11, <1>12, <1>13, <1>14,
     <1>15, <1>16, <1>17, <1>18, <1>19, <1>20, <1>21, <1>22
  DEF Next, Callers, Process, Replay

\* Every step keeps owner_pid with the process.
LEMMA StepOwner == IInv /\ [Next]_vars => OwnerFollows'
<1> SUFFICES ASSUME IInv, [Next]_vars PROVE OwnerFollows'
  OBVIOUS
<1> USE DEF IInv, TypeOK, OwnerFollows, Alive, Phases, clientVars, processVars
<1>1. ASSUME NEW m \in Messages, Lookup(m) PROVE OwnerFollows'
  BY <1>1 DEF Lookup
<1>2. ASSUME NEW m \in Messages, Produce(m) PROVE OwnerFollows'
  BY <1>2 DEF Produce, Taken, Refused, ReachedInv
<1>3. ASSUME NEW m \in Messages, ProduceSync(m) PROVE OwnerFollows'
  BY <1>3 DEF ProduceSync, Taken, Refused, ReachedInv
<1>4. ASSUME NEW m \in Messages, ProduceBatch(m) PROVE OwnerFollows'
  BY <1>4 DEF ProduceBatch, Taken, Refused, ReachedInv
<1>5. ASSUME NEW m \in Messages, QueueEvent(m) PROVE OwnerFollows'
  BY <1>5 DEF QueueEvent
<1>6. ASSUME NEW m \in Messages, CallTimeout(m) PROVE OwnerFollows'
  BY <1>6 DEF CallTimeout
<1>7. CASE InitOwner
  BY <1>7 DEF InitOwner
<1>8. CASE InitCache
  BY <1>8 DEF InitCache, PhaseInv
<1>9. CASE InitQueue
  BY <1>9 DEF InitQueue, PhaseInv
<1>10. ASSUME NEW m \in Messages, HandleQueueEvent(m) PROVE OwnerFollows'
  BY <1>10 DEF HandleQueueEvent
<1>11. CASE ConsumeQueue
  BY <1>11 DEF ConsumeQueue
<1>12. CASE BatchEnds
  BY <1>12 DEF BatchEnds
<1>13. CASE ReplayCompleted
  BY <1>13 DEF ReplayCompleted
<1>14. CASE Offer
  BY <1>14 DEF Offer
<1>15. CASE Dequeue
  BY <1>15 DEF Dequeue
<1>16. CASE Crash
  BY <1>16 DEF Crash, CallersFail
<1>17. CASE Restart
  BY <1>17 DEF Restart
<1>18. CASE Terminate
  BY <1>18 DEF Terminate
<1>19. CASE ClientStopped
  BY <1>19 DEF ClientStopped, CallersFail
<1>20. CASE FlushEnds
  BY <1>20 DEF FlushEnds
<1>21. ASSUME NEW m \in Messages, DeliveryReport(m) PROVE OwnerFollows'
  BY <1>21 DEF DeliveryReport
<1>22. CASE UNCHANGED vars
  BY <1>22 DEF vars
<1> QED
  BY <1>1, <1>2, <1>3, <1>4, <1>5, <1>6, <1>7, <1>8, <1>9, <1>10, <1>11, <1>12, <1>13, <1>14,
     <1>15, <1>16, <1>17, <1>18, <1>19, <1>20, <1>21, <1>22
  DEF Next, Callers, Process, Replay

\* Every step keeps what the phases say.
LEMMA StepPhase == IInv /\ [Next]_vars => PhaseInv'
<1> SUFFICES ASSUME IInv, [Next]_vars PROVE PhaseInv'
  OBVIOUS
<1> USE ProducerAssumption DEF IInv, TypeOK, PhaseInv, processVars, clientVars
<1>1. ASSUME NEW m \in Messages, Lookup(m) PROVE PhaseInv'
  BY <1>1 DEF Lookup
<1>2. ASSUME NEW m \in Messages, Produce(m) PROVE PhaseInv'
  BY <1>2 DEF Produce, Taken, Refused
<1>3. ASSUME NEW m \in Messages, ProduceSync(m) PROVE PhaseInv'
  BY <1>3 DEF ProduceSync, Taken, Refused
<1>4. ASSUME NEW m \in Messages, ProduceBatch(m) PROVE PhaseInv'
  BY <1>4 DEF ProduceBatch, Taken, Refused
<1>5. ASSUME NEW m \in Messages, QueueEvent(m) PROVE PhaseInv'
  BY <1>5 DEF QueueEvent
<1>6. ASSUME NEW m \in Messages, CallTimeout(m) PROVE PhaseInv'
  BY <1>6 DEF CallTimeout
<1>7. CASE InitOwner
  BY <1>7 DEF InitOwner
<1>8. CASE InitCache
  BY <1>8 DEF InitCache
<1>9. CASE InitQueue
  BY <1>9 DEF InitQueue
<1>10. ASSUME NEW m \in Messages, HandleQueueEvent(m) PROVE PhaseInv'
  BY <1>10 DEF HandleQueueEvent, Answer
<1>11. CASE ConsumeQueue
  BY <1>11 DEF ConsumeQueue, OneTimer
<1>12. CASE BatchEnds
  BY <1>12 DEF BatchEnds
<1>13. CASE ReplayCompleted
  BY <1>13 DEF ReplayCompleted
<1>14. CASE Offer
  BY <1>14 DEF Offer
<1>15. CASE Dequeue
  BY <1>15 DEF Dequeue
<1>16. CASE Crash
  BY <1>16 DEF Crash, CallersFail
<1>17. CASE Restart
  BY <1>17 DEF Restart
<1>18. CASE Terminate
  BY <1>18 DEF Terminate
<1>19. CASE ClientStopped
  BY <1>19 DEF ClientStopped, CallersFail
<1>20. CASE FlushEnds
  BY <1>20 DEF FlushEnds
<1>21. ASSUME NEW m \in Messages, DeliveryReport(m) PROVE PhaseInv'
  BY <1>21 DEF DeliveryReport
<1>22. CASE UNCHANGED vars
  BY <1>22 DEF vars
<1> QED
  BY <1>1, <1>2, <1>3, <1>4, <1>5, <1>6, <1>7, <1>8, <1>9, <1>10, <1>11, <1>12, <1>13, <1>14,
     <1>15, <1>16, <1>17, <1>18, <1>19, <1>20, <1>21, <1>22
  DEF Next, Callers, Process, Replay

\* Every step keeps that a reference which was read has an owner.
LEMMA StepReached == IInv /\ [Next]_vars => ReachedInv'
<1> SUFFICES ASSUME IInv, [Next]_vars PROVE ReachedInv'
  OBVIOUS
<1> USE ProducerAssumption DEF IInv, TypeOK, ReachedInv, processVars, clientVars, callVars, Answer, Calls
<1>1. ASSUME NEW m \in Messages, Lookup(m) PROVE ReachedInv'
  BY <1>1 DEF Lookup
<1>2. ASSUME NEW m \in Messages, Produce(m) PROVE ReachedInv'
  BY <1>2 DEF Produce, Taken, Refused
<1>3. ASSUME NEW m \in Messages, ProduceSync(m) PROVE ReachedInv'
  BY <1>3 DEF ProduceSync, Taken, Refused
<1>4. ASSUME NEW m \in Messages, ProduceBatch(m) PROVE ReachedInv'
  BY <1>4 DEF ProduceBatch, Taken, Refused
<1>5. ASSUME NEW m \in Messages, QueueEvent(m) PROVE ReachedInv'
  BY <1>5 DEF QueueEvent
<1>6. ASSUME NEW m \in Messages, CallTimeout(m) PROVE ReachedInv'
  BY <1>6 DEF CallTimeout
<1>7. CASE InitOwner
  BY <1>7 DEF InitOwner
<1>8. CASE InitCache
  BY <1>8 DEF InitCache, PhaseInv
<1>9. CASE InitQueue
  BY <1>9 DEF InitQueue
<1>10. ASSUME NEW m \in Messages, HandleQueueEvent(m) PROVE ReachedInv'
  BY <1>10 DEF HandleQueueEvent
<1>11. CASE ConsumeQueue
  BY <1>11 DEF ConsumeQueue
<1>12. CASE BatchEnds
  BY <1>12 DEF BatchEnds
<1>13. CASE ReplayCompleted
  BY <1>13 DEF ReplayCompleted
<1>14. CASE Offer
  BY <1>14 DEF Offer
<1>15. CASE Dequeue
  BY <1>15 DEF Dequeue
<1>16. CASE Crash
  BY <1>16 DEF Crash, CallersFail
<1>17. CASE Restart
  BY <1>17 DEF Restart
<1>18. CASE Terminate
  BY <1>18 DEF Terminate
<1>19. CASE ClientStopped
  BY <1>19 DEF ClientStopped, CallersFail
<1>20. CASE FlushEnds
  BY <1>20 DEF FlushEnds
<1>21. ASSUME NEW m \in Messages, DeliveryReport(m) PROVE ReachedInv'
  BY <1>21 DEF DeliveryReport
<1>22. CASE UNCHANGED vars
  BY <1>22 DEF vars
<1> QED
  BY <1>1, <1>2, <1>3, <1>4, <1>5, <1>6, <1>7, <1>8, <1>9, <1>10, <1>11, <1>12, <1>13, <1>14,
     <1>15, <1>16, <1>17, <1>18, <1>19, <1>20, <1>21, <1>22
  DEF Next, Callers, Process, Replay

\* The invariant holds in every state.
LEMMA Invariance == Spec => []IInv
<1>1. IInv /\ [Next]_vars => IInv'
  BY StepType, StepTimer, StepOwner, StepPhase, StepReached DEF IInv
<1> QED
  BY <1>1, InitIInv, PTL DEF Spec

\* A replay handles at most MaxBatch messages, and every variable has its type.
THEOREM ProducerTypes == Spec => []TypeOK
  BY Invariance, PTL DEF IInv

\* While the process waits, one timer is under way exactly if pqueue_sch says so,
\* and nothing is kept without one.
THEOREM OneTimerChain == Spec => []OneTimer
  BY Invariance, PTL DEF IInv

\* After any number of crashes the reports and client_stopped go to the process
\* that the cache names, and never to no process at all.
THEOREM OwnerIsCurrent == Spec => []OwnerFollows
  BY Invariance, PTL DEF IInv

-----------------------------------------------------------------------------
(* The refinement of Outbox *)

\* One caller learns a result.
LEMMA ToldOne ==
  ASSUME TypeOK, NEW m \in Messages, NEW r, Answer(m, r)
  PROVE  Told' = [Told EXCEPT ![m] = Learned(r)]
  BY DEF TypeOK, Answer, Told

\* The callers that the process leaves waiting learn of a failure.
LEMMA ToldAll == TypeOK /\ CallersFail => Told' \in Promise!Failures
<1> SUFFICES ASSUME TypeOK, CallersFail PROVE Told' \in Promise!Failures
  OBVIOUS
<1>1. Told' \in [Messages -> {"none", "ok", "error"}]
  BY DEF Told, Learned
<1>2. ASSUME NEW m \in Messages PROVE Told'[m] = Told[m] \/ (Told[m] = "none" /\ Told'[m] = "error")
  BY DEF TypeOK, CallersFail, Told, Learned
<1> QED
  BY <1>1, <1>2 DEF Promise!Failures

\* A call that fails on its own.
LEMMA ToldFailure ==
  ASSUME TypeOK, NEW m \in Messages, call[m] \in {"new", "looked", "waiting"},
         NEW r \in {"error", "declined", "looked", "waiting", "sent"}, Answer(m, r)
  PROVE  Told' \in Promise!Failures
<1>1. Told' \in [Messages -> {"none", "ok", "error"}]
  BY DEF Told, Learned
<1>2. ASSUME NEW n \in Messages PROVE Told'[n] = Told[n] \/ (Told[n] = "none" /\ Told'[n] = "error")
  BY DEF TypeOK, Answer, Told, Learned
<1> QED
  BY <1>1, <1>2 DEF Promise!Failures

\* A message handed over by its caller.
LEMMA DirectStep ==
  ASSUME TypeOK, NEW m \in Messages, call[m] = "looked", Taken(m),
         NEW r \in {"ok", "sent", "error"}, Answer(m, r), UNCHANGED <<disk, pc>>
  PROVE  Promise!Direct(m)
<1>1. Told[m] = "none" /\ Told' = [Told EXCEPT ![m] = Learned(r)]
  BY ToldOne DEF Told, Learned
<1>2. Learned(r) \in {"none", "ok", "error"}
  BY DEF Learned
<1> QED
  BY <1>1, <1>2 DEF Promise!Direct, Taken

\* Every step is one of Outbox or a stutter.
LEMMA PromiseStep == IInv /\ [Next]_vars => [Promise!Next]_(Promise!vars)
<1> SUFFICES ASSUME IInv, [Next]_vars PROVE [Promise!Next]_(Promise!vars)
  OBVIOUS
<1> USE DEF IInv, Promise!Next, Promise!vars, callVars, clientVars, processVars
<1>0. ASSUME UNCHANGED call PROVE UNCHANGED Told
  BY <1>0 DEF Told
<1>1. ASSUME NEW m \in Messages, Lookup(m) PROVE Promise!Fail
  BY <1>1, ToldFailure DEF Lookup, Promise!Fail
<1>2. ASSUME NEW m \in Messages, Produce(m) PROVE Promise!Direct(m) \/ Promise!Fail
  <2>1. CASE Taken(m) /\ Answer(m, "ok")
    BY <1>2, <2>1, DirectStep DEF Produce
  <2>2. CASE Refused /\ Answer(m, "error")
    BY <1>2, <2>2, ToldFailure DEF Produce, Refused, Promise!Fail
  <2> QED
    BY <1>2, <2>1, <2>2 DEF Produce
<1>3. ASSUME NEW m \in Messages, ProduceSync(m) PROVE Promise!Direct(m) \/ Promise!Fail
  <2>1. CASE Taken(m) /\ \E result \in {"ok", "error"} : Answer(m, result)
    BY <1>3, <2>1, DirectStep DEF ProduceSync
  <2>2. CASE Refused /\ Answer(m, "error")
    BY <1>3, <2>2, ToldFailure DEF ProduceSync, Refused, Promise!Fail
  <2> QED
    BY <1>3, <2>1, <2>2 DEF ProduceSync
<1>4. ASSUME NEW m \in Messages, ProduceBatch(m) PROVE Promise!Direct(m) \/ Promise!Fail
  <2>1. CASE Taken(m)
    BY <1>4, <2>1, DirectStep DEF ProduceBatch
  <2>2. CASE Refused
    BY <1>4, <2>2, ToldFailure DEF ProduceBatch, Refused, Promise!Fail
  <2> QED
    BY <1>4, <2>1, <2>2 DEF ProduceBatch
<1>5. ASSUME NEW m \in Messages, QueueEvent(m) PROVE Promise!Fail
  <2>1. \E r \in {"waiting", "error"} : Answer(m, r)
    BY <1>5 DEF QueueEvent
  <2> QED
    BY <1>5, <2>1, ToldFailure DEF QueueEvent, Promise!Fail
<1>6. ASSUME NEW m \in Messages, CallTimeout(m) PROVE Promise!Fail
  BY <1>6, ToldFailure DEF CallTimeout, Promise!Fail
<1>7. CASE InitOwner
  BY <1>0, <1>7 DEF InitOwner
<1>8. CASE InitCache
  BY <1>0, <1>8 DEF InitCache
<1>9. CASE InitQueue
  BY <1>0, <1>9 DEF InitQueue
<1>10. ASSUME NEW m \in Messages, HandleQueueEvent(m) PROVE Promise!Keep(m) \/ [Promise!Fail]_(Promise!vars)
  <2>1. CASE strategy = "local_disk_queue" /\ call[m] = "waiting"
    <3>1. Told[m] = "none" /\ Told' = [Told EXCEPT ![m] = "ok"]
      BY <1>10, <2>1, ToldOne DEF HandleQueueEvent, Told, Learned
    <3> QED
      BY <1>10, <2>1, <3>1 DEF HandleQueueEvent, Promise!Keep
  <2>2. CASE strategy = "local_disk_queue" /\ call[m] # "waiting"
    BY <1>0, <1>10, <2>2 DEF HandleQueueEvent, Promise!Keep
  <2>3. CASE strategy # "local_disk_queue" /\ call[m] = "waiting"
    BY <1>10, <2>3, ToldFailure DEF HandleQueueEvent, Promise!Fail
  <2>4. CASE strategy # "local_disk_queue" /\ call[m] # "waiting"
    BY <1>0, <1>10, <2>4 DEF HandleQueueEvent
  <2> QED
    BY <2>1, <2>2, <2>3, <2>4
<1>11. CASE ConsumeQueue
  BY <1>0, <1>11 DEF ConsumeQueue
<1>12. CASE BatchEnds
  BY <1>0, <1>12 DEF BatchEnds
<1>13. CASE ReplayCompleted
  BY <1>0, <1>13 DEF ReplayCompleted
<1>14. CASE Offer
  BY <1>0, <1>14 DEF Offer, Promise!Offer
<1>15. CASE Dequeue
  BY <1>0, <1>15 DEF Dequeue, PhaseInv, Promise!Drop
<1>16. CASE Crash
  BY <1>16, ToldAll DEF Crash, Promise!Fail
<1>17. CASE Restart
  BY <1>0, <1>17 DEF Restart
<1>18. CASE Terminate
  BY <1>0, <1>18 DEF Terminate
<1>19. CASE ClientStopped
  BY <1>19, ToldAll DEF ClientStopped, Promise!Fail
<1>20. CASE FlushEnds
  BY <1>0, <1>20 DEF FlushEnds
<1>21. ASSUME NEW m \in Messages, DeliveryReport(m) PROVE UNCHANGED Promise!vars
  BY <1>0, <1>21 DEF DeliveryReport
<1>22. CASE UNCHANGED vars
  BY <1>0, <1>22 DEF vars
<1> QED
  BY <1>1, <1>2, <1>3, <1>4, <1>5, <1>6, <1>7, <1>8, <1>9, <1>10, <1>11, <1>12, <1>13, <1>14,
     <1>15, <1>16, <1>17, <1>18, <1>19, <1>20, <1>21, <1>22
  DEF Next, Callers, Process, Replay

\* Every step of the producer is a step of Outbox or leaves it alone: what was
\* answered with :ok is handed over in order and at least once.
THEOREM ProducerKeeps == Spec => Keeps
<1>1. Init => Promise!Init
  BY DEF Init, Promise!Init, Told, Learned, KeptBefore
<1> QED
  BY <1>1, PromiseStep, Invariance, PTL DEF Spec, Keeps, Promise!Spec

-----------------------------------------------------------------------------
(* What a caller can rely on *)

\* A message that its caller was told :ok of is kept or was handed over, and what is
\* about to be dropped was handed over before.
OkIsKept == \A m \in Messages :
    call[m] = "ok" => m \in tried \/ \E i \in DOMAIN disk : disk[i] = m

KeptInv == /\ \A m \in Messages : Told[m] = "ok" => m \in tried \/ \E i \in DOMAIN disk : disk[i] = m
           /\ pc = "offered" => disk # << >> /\ Head(disk) \in tried

\* Outbox keeps what it was told to keep.
LEMMA OutboxKeeps ==
    ASSUME disk \in Seq(Messages), KeptInv, [Promise!Next]_(Promise!vars)
    PROVE  KeptInv'
<1> USE DEF KeptInv
<1>1. ASSUME NEW m \in Messages, Promise!Direct(m) PROVE KeptInv'
  <2>1. /\ tried' = tried \union {m} /\ disk' = disk /\ (pc = "offered")' = (pc = "offered")
        /\ \A o \in Messages : o # m => Told'[o] = Told[o]
    <3>1. /\ tried' = tried \union {m} /\ disk' = disk /\ (pc = "offered")' = (pc = "offered")
          /\ Told' \in {[Told EXCEPT ![m] = a] : a \in {"none", "ok", "error"}}
      BY <1>1 DEF Promise!Direct
    <3>2. \A o \in Messages : o # m => Told'[o] = Told[o]
      BY <3>1 DEF Told
    <3> QED
      BY <3>1, <3>2
  <2> QED
    BY <2>1
<1>2. ASSUME NEW m \in Messages, Promise!Keep(m) PROVE KeptInv'
  <2>1. /\ disk' = Append(disk, m) /\ tried' = tried /\ (pc = "offered")' = (pc = "offered")
        /\ \A o \in Messages : o # m => Told'[o] = Told[o]
    <3>1. /\ disk' = Append(disk, m) /\ tried' = tried /\ (pc = "offered")' = (pc = "offered")
          /\ Told' = Told \/ Told' = [Told EXCEPT ![m] = "ok"]
      BY <1>2 DEF Promise!Keep
    <3>2. \A o \in Messages : o # m => Told'[o] = Told[o]
      BY <3>1 DEF Told
    <3> QED
      BY <3>1, <3>2
  <2>2. /\ \A i \in DOMAIN disk : i \in DOMAIN disk' /\ disk'[i] = disk[i]
        /\ \E i \in DOMAIN disk' : disk'[i] = m
        /\ disk # << >> => Head(disk') = Head(disk)
    <3>1. Len(disk) + 1 \in DOMAIN disk' /\ disk'[Len(disk) + 1] = m
      BY <2>1
    <3>2. \A i \in DOMAIN disk : i \in DOMAIN disk' /\ disk'[i] = disk[i]
      BY <2>1
    <3>3. disk # << >> => Head(disk') = Head(disk)
      BY <2>1
    <3> QED
      BY <3>1, <3>2, <3>3
  <2> QED
    BY <2>1, <2>2
<1>3. CASE Promise!Offer
  BY <1>3 DEF Promise!Offer
<1>4. CASE Promise!Drop
  <2>1. /\ disk # << >> /\ Head(disk) \in tried /\ disk' = Tail(disk)
        /\ ~(pc = "offered")' /\ tried' = tried /\ Told' = Told
    BY <1>4 DEF Promise!Drop
  <2>2. ASSUME NEW i \in DOMAIN disk PROVE disk[i] \in tried \/ \E j \in DOMAIN disk' : disk'[j] = disk[i]
    <3>1. CASE i = 1
      BY <2>1, <3>1
    <3>2. CASE i # 1
      <4>1. i - 1 \in DOMAIN disk' /\ disk'[i - 1] = disk[i]
        BY <2>1, <3>2
      <4> QED
        BY <4>1
    <3> QED
      BY <3>1, <3>2
  <2> QED
    BY <2>1, <2>2
<1>5. CASE Promise!Fail
  <2>1. /\ UNCHANGED <<disk, tried>>
        /\ (pc = "offered")' => pc = "offered"
        /\ \A m \in Messages : Told'[m] = "ok" => Told[m] = "ok"
    BY <1>5 DEF Promise!Fail, Promise!Failures
  <2> QED
    BY <2>1
<1>6. CASE UNCHANGED Promise!vars
  BY <1>6 DEF Promise!vars
<1> QED
  BY <1>1, <1>2, <1>3, <1>4, <1>5, <1>6 DEF Promise!Next

\* :ok is never said of a message that is then lost, whatever times out and crashes: not
\* by produce/7, not by queue_event/7 and not by the run that left it on disk.
THEOREM OkIsNeverLost == Spec => []OkIsKept
<1>1. Init => KeptInv
  BY DEF Init, KeptInv, Told, Learned, KeptBefore
<1>2. IInv /\ KeptInv /\ [Next]_vars => KeptInv'
  BY PromiseStep, OutboxKeeps DEF IInv, TypeOK
<1>3. KeptInv => OkIsKept
  BY DEF KeptInv, OkIsKept, Told, Learned
<1> QED
  BY <1>1, <1>2, <1>3, Invariance, PTL DEF Spec

\* A caller that waits has its request in the mailbox of the very process it has asked,
\* and that process lives: nobody waits for a process that is gone or was replaced.
WaitsForProcess == \A m \in Messages :
    call[m] = "waiting" => m \in requests /\ pc \in Alive /\ target[m] = life

LEMMA StepWaits == IInv /\ WaitsForProcess /\ [Next]_vars => WaitsForProcess'
<1> SUFFICES ASSUME IInv, WaitsForProcess, [Next]_vars PROVE WaitsForProcess'
  OBVIOUS
<1> USE DEF IInv, TypeOK, Alive, Phases, Calls, WaitsForProcess, Answer, callVars, clientVars,
        processVars
<1>1. ASSUME NEW m \in Messages, Lookup(m) \/ Produce(m) \/ ProduceSync(m) \/ ProduceBatch(m)
      PROVE  WaitsForProcess'
  BY <1>1 DEF Lookup, Produce, ProduceSync, ProduceBatch
<1>2. ASSUME NEW m \in Messages, QueueEvent(m) \/ CallTimeout(m) PROVE WaitsForProcess'
  BY <1>2 DEF QueueEvent, CallTimeout
<1>3. CASE InitOwner \/ InitCache \/ InitQueue
  BY <1>3 DEF InitOwner, InitCache, InitQueue
<1>4. ASSUME NEW m \in Messages, HandleQueueEvent(m) PROVE WaitsForProcess'
  BY <1>4 DEF HandleQueueEvent
<1>5. CASE Replay
  BY <1>5 DEF Replay, ConsumeQueue, BatchEnds, ReplayCompleted, Offer, Dequeue
<1>6. CASE Crash \/ ClientStopped
  BY <1>6 DEF Crash, ClientStopped, CallersFail
<1>7. CASE Restart \/ Terminate
  BY <1>7 DEF Restart, Terminate
<1>8. CASE FlushEnds \/ \E m \in Messages : DeliveryReport(m)
  BY <1>8 DEF FlushEnds, DeliveryReport
<1>9. CASE UNCHANGED vars
  BY <1>9 DEF vars
<1> QED
  BY <1>1, <1>2, <1>3, <1>4, <1>5, <1>6, <1>7, <1>8, <1>9 DEF Next, Callers, Process

\* A request is served, or its caller learns that the process is gone, over any number
\* of crashes and restarts under the same client.
THEOREM WaitersAreKnown == Spec => []WaitsForProcess
<1>1. Init => WaitsForProcess
  BY DEF Init, WaitsForProcess
<1> QED
  BY <1>1, StepWaits, Invariance, PTL DEF Spec
=============================================================================
