------------------------- MODULE TopicManagerProofs -------------------------
(* What TopicManager guarantees for any number of threads and topics.      *)
EXTENDS TopicManager, TLAPS

\* The lock is held from AddTopic's lookup to its last write.
Mutex == \A c \in Callers : pc[c] \in Locked => lock = c

\* What the map and the thread that inserts know of the handle of a topic: the
\* map lacks it only before it is made or while its maker is about to link it.
HandleInv ==
    /\ \A n \in Names :
          /\ made[n] \in {0, 1} /\ topics[n] \in {Absent, Null, made[n]}
          /\ topics[n] = Null => made[n] = 1
          /\ topics[n] = Absent /\ made[n] = 1 =>
                \/ \E c \in Callers : pc[c] = "link" /\ name[c] = n
                \/ \A c \in Callers : pc[c] = "freed"
    /\ \A c \in Callers :
          /\ pc[c] = "link" => made[name[c]] = 1 /\ topics[name[c]] = Absent
          /\ pc[c] = "set"  => made[name[c]] = 1 /\ topics[name[c]] = Null
          /\ pc[c] = "idle" /\ result[c] > 0 => topics[name[c]] = result[c]

\* All threads see the producer end together.
EndInv == \/ /\ \A c \in Callers : pc[c] # "freed"
             /\ destroyed = [n \in Names |-> 0]
          \/ /\ \A c \in Callers : pc[c] = "freed"
             /\ destroyed = made

IInv == TypeOK /\ Mutex /\ HandleInv /\ EndInv

-----------------------------------------------------------------------------
LEMMA InitIInv == Init => IInv
  BY DEF Init, IInv, TypeOK, Mutex, HandleInv, EndInv, Places, Locked, Absent, Null

LEMMA StepType == TypeOK /\ [Next]_vars => TypeOK'
  <1> SUFFICES ASSUME TypeOK, [Next]_vars PROVE TypeOK'
    OBVIOUS
  <1> USE DEF TypeOK, Places, Absent, Null
  <1>1. ASSUME NEW c \in Callers, NEW n \in Names, Call(c, n) PROVE TypeOK'
    BY <1>1 DEF Call
  <1>2. ASSUME NEW c \in Callers, Find(c) PROVE TypeOK'
    BY <1>2 DEF Find, Return
  <1>3. ASSUME NEW c \in Callers, Enter(c) PROVE TypeOK'
    BY <1>3 DEF Enter
  <1>4. ASSUME NEW c \in Callers, AlreadyExists(c) PROVE TypeOK'
    BY <1>4 DEF AlreadyExists, Return
  <1>5. ASSUME NEW c \in Callers, TopicNew(c) PROVE TypeOK'
    BY <1>5 DEF TopicNew
  <1>6. ASSUME NEW c \in Callers, TopicNewFails(c) PROVE TypeOK'
    BY <1>6 DEF TopicNewFails, Return
  <1>7. ASSUME NEW c \in Callers, Link(c) PROVE TypeOK'
    BY <1>7 DEF Link
  <1>8. ASSUME NEW c \in Callers, Set(c) PROVE TypeOK'
    BY <1>8 DEF Set, Return
  <1>9. CASE Cleanup
    BY <1>9 DEF Cleanup
  <1>10. CASE UNCHANGED vars
    BY <1>10 DEF vars
  <1> QED
    BY <1>1, <1>2, <1>3, <1>4, <1>5, <1>6, <1>7, <1>8, <1>9, <1>10 DEF Next, Step

LEMMA StepMutex == TypeOK /\ Mutex /\ [Next]_vars => Mutex'
  <1> SUFFICES ASSUME TypeOK, Mutex, [Next]_vars PROVE Mutex'
    OBVIOUS
  <1> USE TopicManagerAssumption DEF TypeOK, Mutex, Locked
  <1>1. ASSUME NEW c \in Callers, NEW n \in Names, Call(c, n) PROVE Mutex'
    BY <1>1 DEF Call
  <1>2. ASSUME NEW c \in Callers, Find(c) PROVE Mutex'
    BY <1>2 DEF Find, Return
  <1>3. ASSUME NEW c \in Callers, Enter(c) PROVE Mutex'
    BY <1>3 DEF Enter
  <1>4. ASSUME NEW c \in Callers, AlreadyExists(c) PROVE Mutex'
    BY <1>4 DEF AlreadyExists, Return
  <1>5. ASSUME NEW c \in Callers, TopicNew(c) PROVE Mutex'
    BY <1>5 DEF TopicNew
  <1>6. ASSUME NEW c \in Callers, TopicNewFails(c) PROVE Mutex'
    BY <1>6 DEF TopicNewFails, Return
  <1>7. ASSUME NEW c \in Callers, Link(c) PROVE Mutex'
    BY <1>7 DEF Link
  <1>8. ASSUME NEW c \in Callers, Set(c) PROVE Mutex'
    BY <1>8 DEF Set, Return
  <1>9. CASE Cleanup
    BY <1>9 DEF Cleanup
  <1>10. CASE UNCHANGED vars
    BY <1>10 DEF vars
  <1> QED
    BY <1>1, <1>2, <1>3, <1>4, <1>5, <1>6, <1>7, <1>8, <1>9, <1>10 DEF Next, Step

\* The steps inside the lock rely on no other thread being there.
LEMMA StepHandle == IInv /\ [Next]_vars => HandleInv'
  <1> SUFFICES ASSUME IInv, [Next]_vars PROVE HandleInv'
    OBVIOUS
  <1> USE DEF IInv, TypeOK, HandleInv, Absent, Null
  <1>1. ASSUME NEW c \in Callers, NEW n \in Names, Call(c, n) PROVE HandleInv'
    BY <1>1 DEF Call
  <1>2. ASSUME NEW c \in Callers, Find(c) PROVE HandleInv'
    BY <1>2 DEF Find, Return
  <1>3. ASSUME NEW c \in Callers, Enter(c) PROVE HandleInv'
    BY <1>3 DEF Enter
  <1>4. ASSUME NEW c \in Callers, AlreadyExists(c) PROVE HandleInv'
    BY <1>4 DEF AlreadyExists, Return
  <1>5. ASSUME NEW c \in Callers, TopicNew(c) PROVE HandleInv'
    <2>1. made[name[c]] = 0
      BY <1>5 DEF TopicNew, Mutex, Locked
    <2> QED
      BY <1>5, <2>1 DEF TopicNew, Mutex, Locked
  <1>6. ASSUME NEW c \in Callers, TopicNewFails(c) PROVE HandleInv'
    BY <1>6 DEF TopicNewFails, Return
  <1>7. ASSUME NEW c \in Callers, Link(c) PROVE HandleInv'
    BY <1>7 DEF Link, Mutex, Locked
  <1>8. ASSUME NEW c \in Callers, Set(c) PROVE HandleInv'
    BY <1>8 DEF Set, Return, Mutex, Locked
  <1>9. CASE Cleanup
    BY <1>9 DEF Cleanup
  <1>10. CASE UNCHANGED vars
    BY <1>10 DEF vars
  <1> QED
    BY <1>1, <1>2, <1>3, <1>4, <1>5, <1>6, <1>7, <1>8, <1>9, <1>10 DEF Next, Step

LEMMA StepEnd == IInv /\ [Next]_vars => EndInv'
  <1> SUFFICES ASSUME IInv, [Next]_vars PROVE EndInv'
    OBVIOUS
  <1> USE DEF IInv, TypeOK, EndInv
  <1>1. CASE Cleanup
    <2>1. \A n \in Names : made[n] = IF topics[n] = Absent THEN 0 ELSE 1
      BY <1>1, TopicManagerAssumption DEF Cleanup, HandleInv, Callers, Absent, Null
    <2>2. destroyed = [n \in Names |-> 0]
      BY <1>1 DEF Cleanup, Callers
    <2> QED
      BY <1>1, <2>1, <2>2 DEF Cleanup
  <1>2. ASSUME NEW c \in Callers, Step(c) PROVE EndInv'
    <2>1. pc[c] # "freed" /\ pc'[c] # "freed" /\ destroyed' = destroyed
      BY <1>2 DEF Step, Find, Enter, AlreadyExists, TopicNew, TopicNewFails, Link, Set, Return
    <2>2. \A o \in Callers \ {c} : pc'[o] = pc[o]
      BY <1>2 DEF Step, Find, Enter, AlreadyExists, TopicNew, TopicNewFails, Link, Set, Return
    <2> QED
      BY <2>1, <2>2
  <1>3. ASSUME NEW c \in Callers, NEW n \in Names, Call(c, n) PROVE EndInv'
    BY <1>3 DEF Call
  <1>4. CASE UNCHANGED vars
    BY <1>4 DEF vars
  <1> QED
    BY <1>1, <1>2, <1>3, <1>4 DEF Next

LEMMA AlwaysIInv == Spec => []IInv
  <1>1. IInv /\ [Next]_vars => IInv'
    BY StepType, StepMutex, StepHandle, StepEnd DEF IInv
  <1> QED
    BY InitIInv, <1>1, PTL DEF Spec

\* The map, the lock and the threads keep their types.
THEOREM TopicTypes == Spec => []TypeOK
  <1>1. IInv => TypeOK
    BY DEF IInv
  <1> QED
    BY AlwaysIInv, <1>1, PTL

\* A topic never gets a second handle, and all calls for a topic that return a
\* handle return the one in the map: for any number of threads and topics, and
\* although the first lookup takes no lock (topicmanager.cc:46-56).
THEOREM OneHandlePerTopic == Spec => []OneHandle
  <1>1. IInv => OneHandle
    BY DEF IInv, TypeOK, HandleInv, OneHandle
  <1> QED
    BY AlwaysIInv, <1>1, PTL

\* The producer's end destroys exactly the handles that were made.
THEOREM NoHandleLeaks == Spec => []NothingLeaks
  <1>1. IInv => NothingLeaks
    BY DEF IInv, EndInv, NothingLeaks
  <1> QED
    BY AlwaysIInv, <1>1, PTL

\* Who holds the lock is between AddTopic's lookup and its last write.
HolderWorks == lock # Free => lock \in Callers /\ pc[lock] \in Locked

LEMMA StepHolder == TypeOK /\ HolderWorks /\ [Next]_vars => HolderWorks'
  <1> SUFFICES ASSUME TypeOK, HolderWorks, [Next]_vars PROVE HolderWorks'
    OBVIOUS
  <1> USE TopicManagerAssumption DEF TypeOK, HolderWorks, Locked
  <1>1. ASSUME NEW c \in Callers, NEW n \in Names, Call(c, n) PROVE HolderWorks'
    BY <1>1 DEF Call
  <1>2. ASSUME NEW c \in Callers, Step(c) PROVE HolderWorks'
    BY <1>2 DEF Step, Find, Enter, AlreadyExists, TopicNew, TopicNewFails, Link, Set, Return
  <1>3. CASE Cleanup
    BY <1>3 DEF Cleanup
  <1>4. CASE UNCHANGED vars
    BY <1>4 DEF vars
  <1> QED
    BY <1>1, <1>2, <1>3, <1>4 DEF Next

\* The lock is never left behind by an early return: a thread that waits for it waits
\* for another that is at work in AddTopic, and no two are.
LockIsInUse == /\ HolderWorks
               /\ \A c, d \in Callers : pc[c] \in Locked /\ pc[d] \in Locked => c = d

\* Every path through AddTopic, an error or not, gives the lock back: the safety part of
\* CallsReturn.
THEOREM LockIsGivenBack == Spec => []LockIsInUse
  <1>1. Init => HolderWorks
    BY DEF Init, HolderWorks
  <1>2. IInv => TypeOK /\ Mutex
    BY DEF IInv
  <1>3. TypeOK /\ Mutex /\ HolderWorks => LockIsInUse
    BY DEF Mutex, LockIsInUse
  <1> QED
    BY <1>1, <1>2, <1>3, StepHolder, AlwaysIInv, PTL DEF Spec

\* A producer is told NULL when rd_kafka_topic_new has failed for the topic, or when the
\* topic exists and the lookup came between the two writes of its insertion.
NullExplained == \A c \in Producers :
    result[c] = Null => failed[name[c]] \/ made[name[c]] = 1

LEMMA StepNull == IInv /\ NullExplained /\ [Next]_vars => NullExplained'
  <1> SUFFICES ASSUME IInv, NullExplained, [Next]_vars PROVE NullExplained'
    OBVIOUS
  <1> USE TopicManagerAssumption
      DEF IInv, TypeOK, HandleInv, NullExplained, Callers, Absent, Null
  <1>1. ASSUME NEW c \in Callers, NEW n \in Names, Call(c, n) PROVE NullExplained'
    BY <1>1 DEF Call
  <1>2. ASSUME NEW c \in Callers, Find(c) PROVE NullExplained'
    BY <1>2 DEF Find, Return
  <1>3. ASSUME NEW c \in Callers, Enter(c) PROVE NullExplained'
    BY <1>3 DEF Enter
  <1>4. ASSUME NEW c \in Callers, AlreadyExists(c) PROVE NullExplained'
    BY <1>4 DEF AlreadyExists, Return
  <1>5. ASSUME NEW c \in Callers, TopicNew(c) PROVE NullExplained'
    <2>1. made[name[c]] = 0
      BY <1>5 DEF TopicNew, Mutex, Locked
    <2>2. \A n \in Names : made[n] = 1 => made'[n] = 1
      BY <1>5, <2>1 DEF TopicNew
    <2> QED
      BY <1>5, <2>2 DEF TopicNew
  <1>6. ASSUME NEW c \in Callers, TopicNewFails(c) PROVE NullExplained'
    BY <1>6 DEF TopicNewFails, Return
  <1>7. ASSUME NEW c \in Callers, Link(c) PROVE NullExplained'
    BY <1>7 DEF Link
  <1>8. ASSUME NEW c \in Callers, Set(c) PROVE NullExplained'
    BY <1>8 DEF Set, Return
  <1>9. CASE Cleanup
    BY <1>9 DEF Cleanup
  <1>10. CASE UNCHANGED vars
    BY <1>10 DEF vars
  <1> QED
    BY <1>1, <1>2, <1>3, <1>4, <1>5, <1>6, <1>7, <1>8, <1>9, <1>10 DEF Next, Step

\* What remains of PartialProtectionIsSafe: a NULL without a failure of
\* rd_kafka_topic_new is of a topic that has its one handle, and is never the answer for
\* a topic that nobody has created.
THEOREM NullOnlyOfATopic == Spec => []NullExplained
  <1>1. Init => NullExplained
    BY DEF Init, NullExplained, Callers, Absent, Null
  <1> QED
    BY <1>1, StepNull, AlwaysIInv, PTL DEF Spec
=============================================================================
