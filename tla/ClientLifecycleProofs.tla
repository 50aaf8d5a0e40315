----------------------- MODULE ClientLifecycleProofs -----------------------
(* One client for each id, for any callers, ids, options and deaths.       *)
EXTENDS ClientLifecycle, TLAPS

\* The manager waits for the supervisor about client i.
Adding(i) == manager = "adding" /\ want[serving].id = i

\* What the manager and the supervisor do: a client is starting exactly if the
\* supervisor waits for it, and without a supervisor there are no children.
ControlInv ==
    /\ manager # "adding" => serving = Nobody
    /\ \A i \in Ids : starting = i <=> child[i] \in {"init", "entered"}
    /\ supervisor = "down" => manager = "down" /\ \A i \in Ids : child[i] = "absent"
    /\ \A i \in Ids : Adding(i) =>
          /\ child[i] \in {"absent", "init", "entered"}
          /\ child[i] # "absent" => kind[i] = want[serving].kind

\* The table: an id is in it from its first process's entry on, and the entry of a
\* process that has entered is its own.
EntryInv == \A i \in Ids :
    /\ child[i] \in {"entered", "running", "dead"} => cache[i] # 0
    /\ child[i] \in {"entered", "running"} => cache[i] = life[i]
    /\ child[i] = "init" => life[i] # 0 /\ (Adding(i) \/ cache[i] # 0)
    /\ Adding(i) /\ child[i] # "entered" => cache[i] = 0

\* The native clients: a producer's is made before its process, and kept; a group's
\* lives and dies with its process, or outlives it closing.
NativeInv == \A i \in Ids :
    native[i] = closing[i] + IF cache[i] = 0
                  THEN IF Adding(i) /\ want[serving].kind = "producer" THEN 1 ELSE 0
                  ELSE IF kind[i] = "producer" \/ child[i] \in {"entered", "running"}
                         THEN 1 ELSE 0

\* Who was told :ok has a client in the table, and it is not about to be made again.
OkInv == \A c \in Callers :
    /\ call[c] = "ok" => cache[want[c].id] # 0 /\ ~Adding(want[c].id)
    /\ \A d \in Callers : call[c] = "ok" /\ call[d] = "ok" /\ want[c].id = want[d].id => c = d

IInv == TypeOK /\ ControlInv /\ EntryInv /\ NativeInv /\ OkInv

-----------------------------------------------------------------------------
LEMMA InitIInv == Init => IInv
  BY ClientLifecycleAssumption
  DEF Init, IInv, TypeOK, ControlInv, EntryInv, NativeInv, OkInv, Adding, Calls, Children, Kinds

\* A native client that goes away was there (NativeInv).
LEMMA NativeEndsType ==
    ASSUME TypeOK, NEW ids \in SUBSET Ids, NativeEnds(ids),
           \A i \in ids : native[i] = closing[i] + 1
    PROVE  /\ native' \in [Ids -> Nat] /\ closing' \in [Ids -> Nat]
           /\ \A i \in Ids : native'[i] = closing'[i] + IF i \in ids THEN 0
                                                       ELSE native[i] - closing[i]
<1>1. native \in [Ids -> Nat] /\ closing \in [Ids -> Nat]
  BY DEF TypeOK
<1>2. PICK late \in SUBSET (ids \intersect RunningGroups) :
          /\ native'  = [i \in Ids |-> native[i] - IF i \in ids \ late THEN 1 ELSE 0]
          /\ closing' = [i \in Ids |-> closing[i] + IF i \in late THEN 1 ELSE 0]
  BY DEF NativeEnds
<1>3. ASSUME NEW i \in Ids
      PROVE  /\ native'[i] \in Nat /\ closing'[i] \in Nat
             /\ native'[i] = closing'[i] + IF i \in ids THEN 0 ELSE native[i] - closing[i]
  BY <1>1, <1>2
<1> QED
  BY <1>2, <1>3

\* Those that the supervisor takes down when it gives up are there.
LEMMA EndsOwn ==
    ASSUME TypeOK, ControlInv, EntryInv, NativeInv, supervisor = "running", starting = Nobody,
           NEW i \in RunningGroups \union Made(serving)
    PROVE  i \in Ids /\ native[i] = closing[i] + 1
<1>1. CASE i \in RunningGroups
  BY <1>1 DEF RunningGroups, EntryInv, NativeInv
<1>2. CASE i \in Made(serving)
  <2>1. Adding(i) /\ want[serving].kind = "producer" /\ i \in Ids /\ starting # i
    BY <1>2, ClientLifecycleAssumption DEF Made, Adding
  <2>2. child[i] = "absent"
    BY <2>1 DEF ControlInv
  <2> QED
    BY <2>1, <2>2 DEF EntryInv, NativeInv
<1> QED
  BY <1>1, <1>2

LEMMA StepType == IInv /\ [Next]_vars => TypeOK'
<1> SUFFICES ASSUME IInv, [Next]_vars PROVE TypeOK'
  OBVIOUS
<1> USE ClientLifecycleAssumption DEF IInv, TypeOK, Calls, Children, Kinds, managerVars, supVars, clientVars
<1>1. ASSUME NEW c \in Callers, OptionsRaise(c) PROVE TypeOK'
  BY <1>1 DEF OptionsRaise
<1>2. ASSUME NEW c \in Callers, BadConfig(c) PROVE TypeOK'
  BY <1>2 DEF BadConfig
<1>3. ASSUME NEW c \in Callers, Ask(c) PROVE TypeOK'
  BY <1>3 DEF Ask
<1>4. ASSUME NEW c \in Callers, CallTimeout(c) PROVE TypeOK'
  BY <1>4 DEF CallTimeout
<1>5. ASSUME NEW c \in Callers, AlreadyExists(c) PROVE TypeOK'
  BY <1>5 DEF AlreadyExists, Takes, Known, Reply
<1>6. ASSUME NEW c \in Callers, Refuse(c) PROVE TypeOK'
  BY <1>6 DEF Refuse, Takes, Known, Reply
<1>7. ASSUME NEW c \in Callers, StartClient(c) PROVE TypeOK'
  BY <1>7 DEF StartClient, Takes, Known
<1>8. ASSUME NEW c \in Callers, ManagerCrashes(c) PROVE TypeOK'
  BY <1>8 DEF ManagerCrashes, Takes, Known, CallersExit
<1>9. CASE StartChild
  BY <1>9 DEF StartChild, Idle, Spawn
<1>10. CASE RestartManager
  BY <1>10 DEF RestartManager, Restarts, Idle
<1>11. CASE GiveUp
  <2>1. ASSUME NEW i \in RunningGroups \union Made(serving) PROVE native[i] = closing[i] + 1
    BY <2>1, <1>11, EndsOwn DEF GiveUp, Idle
  <2>2. native' \in [Ids -> Nat] /\ closing' \in [Ids -> Nat]
    <3>1. NativeEnds(RunningGroups \union Made(serving))
      BY <1>11 DEF GiveUp
    <3>2. RunningGroups \union Made(serving) \subseteq Ids
      BY DEF RunningGroups, Made
    <3> HIDE DEF IInv, TypeOK
    <3> QED
      BY <2>1, <3>1, <3>2, NativeEndsType DEF IInv
  <2> QED
    BY <2>2, <1>11 DEF GiveUp, Idle, CallersExit
<1>12. CASE RestartSupervisor
  BY <1>12 DEF RestartSupervisor
<1>13. CASE WindowPasses
  BY <1>13 DEF WindowPasses
<1>14. ASSUME NEW k \in Ids, RestartClient(k) PROVE TypeOK'
  BY <1>14 DEF RestartClient, Restarts, Idle, Spawn
<1>15. ASSUME NEW k \in Ids, Enter(k) PROVE TypeOK'
  BY <1>15 DEF Enter
<1>16. ASSUME NEW k \in Ids, InitDone(k) PROVE TypeOK'
  BY <1>16 DEF InitDone, Started, Reply
<1>17. ASSUME NEW k \in Ids, InitFails(k) PROVE TypeOK'
  BY <1>17 DEF InitFails, Started, Reply
<1>18. ASSUME NEW k \in Ids, Die(k) PROVE TypeOK'
  <2>1. ASSUME NEW i \in {k} \intersect RunningGroups PROVE native[i] = closing[i] + 1
    BY <2>1 DEF RunningGroups, EntryInv, NativeInv
  <2>2. native' \in [Ids -> Nat] /\ closing' \in [Ids -> Nat]
    BY <2>1, <1>18, NativeEndsType DEF Die, RunningGroups
  <2> QED
    BY <2>2, <1>18 DEF Die
<1>19. ASSUME NEW k \in Ids, ClosedLate(k) PROVE TypeOK'
  <2>1. closing[k] - 1 \in Nat /\ native[k] - 1 \in Nat
    BY <1>19 DEF ClosedLate, NativeInv
  <2> QED
    BY <2>1, <1>19 DEF ClosedLate
<1>20. CASE UNCHANGED vars
  BY <1>20 DEF vars
<1> QED
  BY <1>1, <1>2, <1>3, <1>4, <1>5, <1>6, <1>7, <1>8, <1>9, <1>10,
     <1>11, <1>12, <1>13, <1>14, <1>15, <1>16, <1>17, <1>18, <1>19, <1>20
  DEF Next, Manager, Supervisor, Client

\* The manager, the supervisor and the children it starts move together.
LEMMA StepControl == IInv /\ [Next]_vars => ControlInv'
<1> SUFFICES ASSUME IInv, [Next]_vars PROVE ControlInv'
  OBVIOUS
<1> USE ClientLifecycleAssumption DEF IInv, TypeOK, ControlInv, Adding, Children, managerVars, supVars, clientVars
<1>1. ASSUME NEW c \in Callers, OptionsRaise(c) PROVE ControlInv'
  BY <1>1 DEF OptionsRaise
<1>2. ASSUME NEW c \in Callers, BadConfig(c) PROVE ControlInv'
  BY <1>2 DEF BadConfig
<1>3. ASSUME NEW c \in Callers, Ask(c) PROVE ControlInv'
  BY <1>3 DEF Ask
<1>4. ASSUME NEW c \in Callers, CallTimeout(c) PROVE ControlInv'
  BY <1>4 DEF CallTimeout
<1>5. ASSUME NEW c \in Callers, AlreadyExists(c) PROVE ControlInv'
  BY <1>5 DEF AlreadyExists, Takes, Known, Reply
<1>6. ASSUME NEW c \in Callers, Refuse(c) PROVE ControlInv'
  BY <1>6 DEF Refuse, Takes, Known, Reply
<1>7. ASSUME NEW c \in Callers, StartClient(c) PROVE ControlInv'
  <2> DEFINE i == want[c].id
  <2>1. i \in Ids /\ cache[i] = 0 /\ manager = "idle"
    BY <1>7 DEF StartClient, Takes, Known
  <2>2. child[i] = "absent"
    BY <2>1 DEF EntryInv
  <2> QED
    BY <2>1, <2>2, <1>7 DEF StartClient, Takes, Known
<1>8. ASSUME NEW c \in Callers, ManagerCrashes(c) PROVE ControlInv'
  BY <1>8 DEF ManagerCrashes, Takes, Known, CallersExit
<1>9. CASE StartChild
  BY <1>9 DEF StartChild, Idle, Spawn
<1>10. CASE RestartManager
  BY <1>10 DEF RestartManager, Restarts, Idle
<1>11. CASE GiveUp
  BY <1>11 DEF GiveUp, Idle, CallersExit
<1>12. CASE RestartSupervisor
  BY <1>12 DEF RestartSupervisor
<1>13. CASE WindowPasses
  BY <1>13 DEF WindowPasses
<1>14. ASSUME NEW k \in Ids, RestartClient(k) PROVE ControlInv'
  BY <1>14 DEF RestartClient, Restarts, Idle, Spawn
<1>15. ASSUME NEW k \in Ids, Enter(k) PROVE ControlInv'
  BY <1>15 DEF Enter
<1>16. ASSUME NEW k \in Ids, InitDone(k) PROVE ControlInv'
  BY <1>16 DEF InitDone, Started, Reply
<1>17. ASSUME NEW k \in Ids, InitFails(k) PROVE ControlInv'
  BY <1>17 DEF InitFails, Started, Reply
<1>18. ASSUME NEW k \in Ids, Die(k) PROVE ControlInv'
  BY <1>18 DEF Die
<1>19. ASSUME NEW k \in Ids, ClosedLate(k) PROVE ControlInv'
  BY <1>19 DEF ClosedLate
<1>20. CASE UNCHANGED vars
  BY <1>20 DEF vars
<1> QED
  BY <1>1, <1>2, <1>3, <1>4, <1>5, <1>6, <1>7, <1>8, <1>9, <1>10,
     <1>11, <1>12, <1>13, <1>14, <1>15, <1>16, <1>17, <1>18, <1>19, <1>20
  DEF Next, Manager, Supervisor, Client

\* Entries are made by the processes they name and never removed.
LEMMA StepEntry == IInv /\ [Next]_vars => EntryInv'
<1> SUFFICES ASSUME IInv, [Next]_vars PROVE EntryInv'
  OBVIOUS
<1> USE ClientLifecycleAssumption DEF IInv, TypeOK, ControlInv, EntryInv, Adding, Children, managerVars, supVars, clientVars
<1>1. ASSUME NEW c \in Callers, OptionsRaise(c) PROVE EntryInv'
  BY <1>1 DEF OptionsRaise
<1>2. ASSUME NEW c \in Callers, BadConfig(c) PROVE EntryInv'
  BY <1>2 DEF BadConfig
<1>3. ASSUME NEW c \in Callers, Ask(c) PROVE EntryInv'
  BY <1>3 DEF Ask
<1>4. ASSUME NEW c \in Callers, CallTimeout(c) PROVE EntryInv'
  BY <1>4 DEF CallTimeout
<1>5. ASSUME NEW c \in Callers, AlreadyExists(c) PROVE EntryInv'
  BY <1>5 DEF AlreadyExists, Takes, Known, Reply
<1>6. ASSUME NEW c \in Callers, Refuse(c) PROVE EntryInv'
  BY <1>6 DEF Refuse, Takes, Known, Reply
<1>7. ASSUME NEW c \in Callers, StartClient(c) PROVE EntryInv'
  BY <1>7 DEF StartClient, Takes, Known
<1>8. ASSUME NEW c \in Callers, ManagerCrashes(c) PROVE EntryInv'
  BY <1>8 DEF ManagerCrashes, Takes, Known, CallersExit
<1>9. CASE StartChild
  BY <1>9 DEF StartChild, Idle, Spawn
<1>10. CASE RestartManager
  BY <1>10 DEF RestartManager, Restarts, Idle
<1>11. CASE GiveUp
  BY <1>11 DEF GiveUp, Idle, CallersExit
<1>12. CASE RestartSupervisor
  BY <1>12 DEF RestartSupervisor
<1>13. CASE WindowPasses
  BY <1>13 DEF WindowPasses
<1>14. ASSUME NEW k \in Ids, RestartClient(k) PROVE EntryInv'
  BY <1>14 DEF RestartClient, Restarts, Idle, Spawn
<1>15. ASSUME NEW k \in Ids, Enter(k) PROVE EntryInv'
  BY <1>15 DEF Enter
<1>16. ASSUME NEW k \in Ids, InitDone(k) PROVE EntryInv'
  BY <1>16 DEF InitDone, Started, Reply
<1>17. ASSUME NEW k \in Ids, InitFails(k) PROVE EntryInv'
  BY <1>17 DEF InitFails, Started, Reply
<1>18. ASSUME NEW k \in Ids, Die(k) PROVE EntryInv'
  BY <1>18 DEF Die
<1>19. ASSUME NEW k \in Ids, ClosedLate(k) PROVE EntryInv'
  BY <1>19 DEF ClosedLate
<1>20. CASE UNCHANGED vars
  BY <1>20 DEF vars
<1> QED
  BY <1>1, <1>2, <1>3, <1>4, <1>5, <1>6, <1>7, <1>8, <1>9, <1>10,
     <1>11, <1>12, <1>13, <1>14, <1>15, <1>16, <1>17, <1>18, <1>19, <1>20
  DEF Next, Manager, Supervisor, Client

\* Native clients are counted where they are made and closed.
LEMMA StepNative == IInv /\ [Next]_vars => NativeInv'
<1> SUFFICES ASSUME IInv, [Next]_vars PROVE NativeInv'
  OBVIOUS
<1> USE ClientLifecycleAssumption DEF IInv, TypeOK, ControlInv, EntryInv, NativeInv, Adding, Children, Kinds, managerVars, supVars, clientVars
<1>1. ASSUME NEW c \in Callers, OptionsRaise(c) PROVE NativeInv'
  BY <1>1 DEF OptionsRaise
<1>2. ASSUME NEW c \in Callers, BadConfig(c) PROVE NativeInv'
  BY <1>2 DEF BadConfig
<1>3. ASSUME NEW c \in Callers, Ask(c) PROVE NativeInv'
  BY <1>3 DEF Ask
<1>4. ASSUME NEW c \in Callers, CallTimeout(c) PROVE NativeInv'
  BY <1>4 DEF CallTimeout
<1>5. ASSUME NEW c \in Callers, AlreadyExists(c) PROVE NativeInv'
  BY <1>5 DEF AlreadyExists, Takes, Known, Reply
<1>6. ASSUME NEW c \in Callers, Refuse(c) PROVE NativeInv'
  BY <1>6 DEF Refuse, Takes, Known, Reply
<1>7. ASSUME NEW c \in Callers, StartClient(c) PROVE NativeInv'
  BY <1>7 DEF StartClient, Takes, Known
<1>8. ASSUME NEW c \in Callers, ManagerCrashes(c) PROVE NativeInv'
  BY <1>8 DEF ManagerCrashes, Takes, Known, CallersExit
<1>9. CASE StartChild
  BY <1>9 DEF StartChild, Idle, Spawn
<1>10. CASE RestartManager
  BY <1>10 DEF RestartManager, Restarts, Idle
<1>11. CASE GiveUp
  <2> DEFINE gone == RunningGroups \union Made(serving)
  <2>1. /\ NativeEnds(gone) /\ manager' = "down" /\ starting = Nobody /\ supervisor = "running"
        /\ child' = [i \in Ids |-> "absent"] /\ UNCHANGED <<kind, cache>>
    BY <1>11 DEF GiveUp, Idle
  <2>2. gone \subseteq Ids
    BY DEF RunningGroups, Made
  <2>3. \A i \in gone : native[i] = closing[i] + 1
    BY <2>1, EndsOwn
  <2>4. \A i \in Ids : native'[i] = closing'[i] + IF i \in gone THEN 0
                                                  ELSE native[i] - closing[i]
    BY <2>1, <2>2, <2>3, NativeEndsType
  <2>5. ASSUME NEW i \in Ids, i \in gone
        PROVE  cache[i] = 0 \/ kind[i] # "producer"
    <3>1. CASE i \in RunningGroups
      BY <3>1 DEF RunningGroups
    <3>2. CASE i \in Made(serving)
      BY <2>1, <3>2, ClientLifecycleAssumption DEF Made
    <3> QED
      BY <2>5, <3>1, <3>2
  <2>6. ASSUME NEW i \in Ids, i \notin gone
        PROVE  native[i] - closing[i] = IF cache[i] # 0 /\ kind[i] = "producer" THEN 1 ELSE 0
    <3>1. child[i] \notin {"init", "entered"}
      BY <2>1, ClientLifecycleAssumption
    <3>2. ~(Adding(i) /\ want[serving].kind = "producer")
      BY <2>6 DEF Made
    <3>3. kind[i] = "producer" \/ child[i] # "running"
      BY <2>6 DEF RunningGroups
    <3> QED
      BY <3>1, <3>2, <3>3
  <2>7. ASSUME NEW i \in Ids
        PROVE  native'[i] = closing'[i] + IF cache[i] # 0 /\ kind[i] = "producer" THEN 1 ELSE 0
    <3>1. CASE i \in gone
      BY <2>4, <2>5, <3>1
    <3>2. CASE i \notin gone
      BY <2>4, <2>6, <3>2
    <3> QED
      BY <3>1, <3>2
  <2> HIDE DEF gone
  <2> QED
    BY <2>1, <2>7
<1>12. CASE RestartSupervisor
  BY <1>12 DEF RestartSupervisor
<1>13. CASE WindowPasses
  BY <1>13 DEF WindowPasses
<1>14. ASSUME NEW k \in Ids, RestartClient(k) PROVE NativeInv'
  BY <1>14 DEF RestartClient, Restarts, Idle, Spawn
<1>15. ASSUME NEW k \in Ids, Enter(k) PROVE NativeInv'
  BY <1>15 DEF Enter
<1>16. ASSUME NEW k \in Ids, InitDone(k) PROVE NativeInv'
  BY <1>16 DEF InitDone, Started, Reply
<1>17. ASSUME NEW k \in Ids, InitFails(k) PROVE NativeInv'
  BY <1>17 DEF InitFails, Started, Reply
<1>18. ASSUME NEW k \in Ids, Die(k) PROVE NativeInv'
  <2> DEFINE gone == {k} \intersect RunningGroups
  <2>1. /\ NativeEnds(gone) /\ child[k] = "running"
        /\ child' = [child EXCEPT ![k] = "dead"]
        /\ UNCHANGED <<manager, serving, want, kind, cache>>
    BY <1>18 DEF Die
  <2>2. \A i \in gone : i = k /\ kind[k] = "consumer_group" /\ native[i] = closing[i] + 1
    BY DEF RunningGroups
  <2>3. k \in gone <=> kind[k] = "consumer_group"
    BY <2>1 DEF RunningGroups
  <2>4. \A i \in Ids : native'[i] = closing'[i] + IF i \in gone THEN 0
                                                  ELSE native[i] - closing[i]
    BY <2>1, <2>2, NativeEndsType
  <2>5. closing \in [Ids -> Nat]
    OBVIOUS
  <2> HIDE DEF gone
  <2> QED
    BY <2>1, <2>2, <2>3, <2>4, <2>5
<1>19. ASSUME NEW k \in Ids, ClosedLate(k) PROVE NativeInv'
  BY <1>19 DEF ClosedLate
<1>20. CASE UNCHANGED vars
  BY <1>20 DEF vars
<1> QED
  BY <1>1, <1>2, <1>3, <1>4, <1>5, <1>6, <1>7, <1>8, <1>9, <1>10,
     <1>11, <1>12, <1>13, <1>14, <1>15, <1>16, <1>17, <1>18, <1>19, <1>20
  DEF Next, Manager, Supervisor, Client

\* :ok is told once for an id: the manager starts no id that is in the table.
LEMMA StepOk == IInv /\ [Next]_vars => OkInv'
<1> SUFFICES ASSUME IInv, [Next]_vars PROVE OkInv'
  OBVIOUS
<1> USE ClientLifecycleAssumption DEF IInv, TypeOK, ControlInv, EntryInv, OkInv, Adding, Calls, Children, managerVars, supVars, clientVars
<1>1. ASSUME NEW c \in Callers, OptionsRaise(c) PROVE OkInv'
  BY <1>1 DEF OptionsRaise
<1>2. ASSUME NEW c \in Callers, BadConfig(c) PROVE OkInv'
  BY <1>2 DEF BadConfig
<1>3. ASSUME NEW c \in Callers, Ask(c) PROVE OkInv'
  <2>1. \A d \in Callers : call'[d] = "ok" => call[d] = "ok"
    BY <1>3 DEF Ask
  <2> QED
    BY <2>1, <1>3 DEF Ask
<1>4. ASSUME NEW c \in Callers, CallTimeout(c) PROVE OkInv'
  BY <1>4 DEF CallTimeout
<1>5. ASSUME NEW c \in Callers, AlreadyExists(c) PROVE OkInv'
  BY <1>5 DEF AlreadyExists, Takes, Known, Reply
<1>6. ASSUME NEW c \in Callers, Refuse(c) PROVE OkInv'
  BY <1>6 DEF Refuse, Takes, Known, Reply
<1>7. ASSUME NEW c \in Callers, StartClient(c) PROVE OkInv'
  BY <1>7 DEF StartClient, Takes, Known
<1>8. ASSUME NEW c \in Callers, ManagerCrashes(c) PROVE OkInv'
  BY <1>8 DEF ManagerCrashes, Takes, Known, CallersExit
<1>9. CASE StartChild
  BY <1>9 DEF StartChild, Idle, Spawn
<1>10. CASE RestartManager
  BY <1>10 DEF RestartManager, Restarts, Idle
<1>11. CASE GiveUp
  BY <1>11 DEF GiveUp, Idle, CallersExit
<1>12. CASE RestartSupervisor
  BY <1>12 DEF RestartSupervisor
<1>13. CASE WindowPasses
  BY <1>13 DEF WindowPasses
<1>14. ASSUME NEW k \in Ids, RestartClient(k) PROVE OkInv'
  BY <1>14 DEF RestartClient, Restarts, Idle, Spawn
<1>15. ASSUME NEW k \in Ids, Enter(k) PROVE OkInv'
  BY <1>15 DEF Enter
<1>16. ASSUME NEW k \in Ids, InitDone(k) PROVE OkInv'
  BY <1>16 DEF InitDone, Started, Reply
<1>17. ASSUME NEW k \in Ids, InitFails(k) PROVE OkInv'
  BY <1>17 DEF InitFails, Started, Reply
<1>18. ASSUME NEW k \in Ids, Die(k) PROVE OkInv'
  BY <1>18 DEF Die
<1>19. ASSUME NEW k \in Ids, ClosedLate(k) PROVE OkInv'
  BY <1>19 DEF ClosedLate
<1>20. CASE UNCHANGED vars
  BY <1>20 DEF vars
<1> QED
  BY <1>1, <1>2, <1>3, <1>4, <1>5, <1>6, <1>7, <1>8, <1>9, <1>10,
     <1>11, <1>12, <1>13, <1>14, <1>15, <1>16, <1>17, <1>18, <1>19, <1>20
  DEF Next, Manager, Supervisor, Client

LEMMA Invariance == Spec => []IInv
<1>1. IInv /\ [Next]_vars => IInv'
  BY StepType, StepControl, StepEntry, StepNative, StepOk DEF IInv
<1> QED
  BY <1>1, InitIInv, PTL DEF Spec

-----------------------------------------------------------------------------
\* Every variable has its type; restarts within a window stay within the intensity.
THEOREM LifecycleTypes == Spec => []TypeOK
  BY Invariance, PTL DEF IInv

\* An id stands for one client at most: one creation is answered :ok, a client that runs
\* is the one its id leads to, and it has the only native client but for those that a
\* group's terminate/2 has left closing after its 180 seconds, for any number of callers
\* and ids and over any timeouts, deaths and restarts.
THEOREM OneClientPerId == Spec => []OneClient
<1>1. IInv => OneClient
  <2> SUFFICES ASSUME IInv PROVE OneClient
    OBVIOUS
  <2>1. ASSUME NEW i \in Ids
        PROVE  /\ native[i] <= closing[i] + 1
               /\ child[i] = "running" => cache[i] = life[i] /\ native[i] = closing[i] + 1
    <3>1. closing[i] \in Nat
      BY DEF IInv, TypeOK
    <3> QED
      BY <3>1 DEF IInv, EntryInv, NativeInv
  <2>2. \A c, d \in Callers :
           call[c] = "ok" /\ call[d] = "ok" /\ want[c].id = want[d].id => c = d
    BY DEF IInv, OkInv
  <2> QED
    BY <2>1, <2>2 DEF OneClient
<1> QED
  BY <1>1, Invariance, PTL

-----------------------------------------------------------------------------
(* What becomes of a request, and of every request once global options are set *)

\* A caller that waits for the manager is in its mailbox, or is the one it serves.
WaitInv == \A c \in Callers :
    call[c] = "waiting" => manager # "down" /\ (c \in inbox \/ serving = c)

LEMMA StepWait == IInv /\ WaitInv /\ [Next]_vars => WaitInv'
<1> SUFFICES ASSUME IInv, WaitInv, [Next]_vars PROVE WaitInv'
  OBVIOUS
<1> USE ClientLifecycleAssumption
    DEF IInv, TypeOK, ControlInv, WaitInv, Calls, managerVars, supVars, clientVars
<1>1. ASSUME NEW c \in Callers, OptionsRaise(c) PROVE WaitInv'
  BY <1>1 DEF OptionsRaise
<1>2. ASSUME NEW c \in Callers, BadConfig(c) PROVE WaitInv'
  BY <1>2 DEF BadConfig
<1>3. ASSUME NEW c \in Callers, Ask(c) PROVE WaitInv'
  BY <1>3 DEF Ask
<1>4. ASSUME NEW c \in Callers, CallTimeout(c) PROVE WaitInv'
  BY <1>4 DEF CallTimeout
<1>5. ASSUME NEW c \in Callers, AlreadyExists(c) PROVE WaitInv'
  BY <1>5 DEF AlreadyExists, Takes, Known, Reply
<1>6. ASSUME NEW c \in Callers, Refuse(c) PROVE WaitInv'
  BY <1>6 DEF Refuse, Takes, Known, Reply
<1>7. ASSUME NEW c \in Callers, StartClient(c) PROVE WaitInv'
  BY <1>7 DEF StartClient, Takes, Known
<1>8. ASSUME NEW c \in Callers, ManagerCrashes(c) PROVE WaitInv'
  BY <1>8 DEF ManagerCrashes, Takes, Known, CallersExit
<1>9. CASE StartChild
  BY <1>9 DEF StartChild, Idle, Spawn
<1>10. CASE RestartManager
  BY <1>10 DEF RestartManager, Restarts, Idle
<1>11. CASE GiveUp
  BY <1>11 DEF GiveUp, Idle, CallersExit
<1>12. CASE RestartSupervisor
  BY <1>12 DEF RestartSupervisor
<1>13. CASE WindowPasses
  BY <1>13 DEF WindowPasses
<1>14. ASSUME NEW k \in Ids, RestartClient(k) PROVE WaitInv'
  BY <1>14 DEF RestartClient, Restarts, Idle, Spawn
<1>15. ASSUME NEW k \in Ids, Enter(k) PROVE WaitInv'
  BY <1>15 DEF Enter
<1>16. ASSUME NEW k \in Ids, InitDone(k) PROVE WaitInv'
  BY <1>16 DEF InitDone, Started, Reply
<1>17. ASSUME NEW k \in Ids, InitFails(k) PROVE WaitInv'
  BY <1>17 DEF InitFails, Started, Reply
<1>18. ASSUME NEW k \in Ids, Die(k) PROVE WaitInv'
  BY <1>18 DEF Die
<1>19. ASSUME NEW k \in Ids, ClosedLate(k) PROVE WaitInv'
  BY <1>19 DEF ClosedLate
<1>20. CASE UNCHANGED vars
  BY <1>20 DEF vars
<1> QED
  BY <1>1, <1>2, <1>3, <1>4, <1>5, <1>6, <1>7, <1>8, <1>9, <1>10,
     <1>11, <1>12, <1>13, <1>14, <1>15, <1>16, <1>17, <1>18, <1>19, <1>20
  DEF Next, Manager, Supervisor, Client

\* A request is in the mailbox of a manager that lives, or the manager serves it; then
\* its client is about to be started or starting, by a supervisor that is there.
RequestUnderWay == \A c \in Callers : call[c] = "waiting" =>
    \/ c \in inbox /\ manager # "down"
    \/ /\ serving = c /\ manager = "adding" /\ supervisor = "running"
       /\ child[want[c].id] \in {"absent", "init", "entered"}

\* No caller waits for nothing, whatever times out, crashes and is restarted: the manager
\* has not forgotten its request, and does not wait for a child that the supervisor
\* already has.
THEOREM RequestsAreNotLost == Spec => []RequestUnderWay
<1>1. Init => WaitInv
  BY DEF Init, WaitInv
<1>2. IInv /\ WaitInv => RequestUnderWay
  <2> SUFFICES ASSUME IInv, WaitInv, NEW c \in Callers, call[c] = "waiting", c \notin inbox
               PROVE  /\ serving = c /\ manager = "adding" /\ supervisor = "running"
                      /\ child[want[c].id] \in {"absent", "init", "entered"}
    BY DEF RequestUnderWay, WaitInv
  <2>1. serving = c /\ manager = "adding"
    BY ClientLifecycleAssumption DEF WaitInv, IInv, ControlInv
  <2>2. want[c].id \in Ids
    BY DEF IInv, TypeOK
  <2> QED
    BY <2>1, <2>2 DEF IInv, TypeOK, ControlInv, Adding
<1> QED
  BY <1>1, <1>2, InitIInv, Invariance, StepWait, PTL DEF Spec

\* Nobody gets as far as the manager.
NothingStarts ==
    /\ \A c \in Callers : call[c] \in {"new", "raised"}
    /\ \A i \in Ids : child[i] = "absent" /\ cache[i] = 0 /\ native[i] = 0 /\ closing[i] = 0

QuietInv == /\ NothingStarts /\ inbox = {} /\ manager = "idle" /\ supervisor = "running"
            /\ starting = Nobody

\* As soon as :global_client_options has a value at which append_props/2 raises, and it
\* does at every value but nil, no client is ever made: each creation ends in its caller.
THEOREM GlobalOptionsStopAll ==
    ASSUME \A e \in Environments : AppendPropsRaises(GetEnv(e, << >>))
    PROVE  Spec => []NothingStarts
<1>1. Init => QuietInv
  BY DEF Init, QuietInv, NothingStarts
<1>2. IInv /\ QuietInv /\ [Next]_vars => QuietInv'
  <2> SUFFICES ASSUME IInv, QuietInv, [Next]_vars PROVE QuietInv'
    OBVIOUS
  <2> USE DEF QuietInv, NothingStarts, managerVars, supVars, clientVars
  <2>1. AppendPropsRaises(GetEnv(env, << >>))
    BY DEF IInv, TypeOK
  <2>2. ASSUME NEW c \in Callers, OptionsRaise(c) PROVE QuietInv'
    BY <2>2 DEF OptionsRaise, IInv, TypeOK
  <2>3. ASSUME NEW c \in Callers PROVE ~BadConfig(c) /\ ~Ask(c) /\ ~CallTimeout(c) /\ ~Manager(c)
    BY <2>1 DEF BadConfig, Ask, CallTimeout, Manager, AlreadyExists, Refuse, StartClient,
       ManagerCrashes, Takes
  <2>4. ~Supervisor /\ ~RestartSupervisor
    BY DEF Supervisor, StartChild, RestartManager, GiveUp, RestartClient, RestartSupervisor
  <2>5. ASSUME NEW i \in Ids PROVE ~Client(i) /\ ~Die(i) /\ ~ClosedLate(i)
    BY DEF Client, Enter, InitDone, InitFails, Die, ClosedLate
  <2>6. CASE WindowPasses
    BY <2>6 DEF WindowPasses
  <2>7. CASE UNCHANGED vars
    BY <2>7 DEF vars
  <2> QED
    BY <2>2, <2>3, <2>4, <2>5, <2>6, <2>7 DEF Next
<1>3. QuietInv => NothingStarts
  BY DEF QuietInv
<1> QED
  BY <1>1, <1>2, <1>3, Invariance, PTL DEF Spec

-----------------------------------------------------------------------------
(* What becomes of a client that has died *)

\* A dead client has a supervisor, which is free to restart it or waits for a process
\* that is still in its init/1; its id still leads to it.
RestartUnderWay == \A i \in Ids : child[i] = "dead" =>
    /\ supervisor = "running" /\ cache[i] # 0
    /\ starting # Nobody => \E k \in Ids \ {i} : starting = k /\ child[k] \in {"init", "entered"}

\* A dead client is left so or is started again, as what it was and as a new process,
\* unless the supervisor gives up; and one whose init/1 fails again stays dead, so that
\* it is tried again, and is not forgotten.
ComesBackAsItWas == \A i \in Ids :
    /\ child[i] = "dead" /\ supervisor' = "running" =>
          \/ child'[i] = "dead"
          \/ child'[i] = "init" /\ life'[i] = life[i] + 1 /\ kind'[i] = kind[i]
    /\ child[i] \in {"init", "entered"} /\ cache[i] # 0 /\ ~Adding(i) =>
          child'[i] \in {"init", "entered", "running", "dead"}

\* No client that has died is forgotten, whatever the manager and other callers do
\* meanwhile: the safety part of ComesBack.
THEOREM DeadAreNotForgotten == Spec => []RestartUnderWay /\ [][ComesBackAsItWas]_vars
<1>1. IInv => RestartUnderWay
  BY DEF IInv, TypeOK, ControlInv, EntryInv, RestartUnderWay
<1>2. IInv /\ [Next]_vars => ComesBackAsItWas \/ UNCHANGED vars
  <2> SUFFICES ASSUME IInv, Next, NEW i \in Ids
               PROVE  /\ child[i] = "dead" /\ supervisor' = "running" =>
                            \/ child'[i] = "dead"
                            \/ child'[i] = "init" /\ life'[i] = life[i] + 1 /\ kind'[i] = kind[i]
                      /\ child[i] \in {"init", "entered"} /\ cache[i] # 0 /\ ~Adding(i) =>
                            child'[i] \in {"init", "entered", "running", "dead"}
    BY DEF ComesBackAsItWas
  <2> USE ClientLifecycleAssumption DEF IInv, TypeOK, ControlInv, Adding, Children
  <2>1. CASE UNCHANGED <<child, life, kind>>
    BY <2>1
  <2>2. CASE StartChild
    BY <2>2 DEF StartChild, Idle, Spawn
  <2>3. CASE GiveUp
    BY <2>3 DEF GiveUp, Idle
  <2>4. ASSUME NEW k \in Ids, RestartClient(k)
        PROVE  \/ child'[i] = child[i]
               \/ child[i] = "dead" /\ child'[i] = "init" /\ life'[i] = life[i] + 1 /\ kind'[i] = kind[i]
    BY <2>4 DEF RestartClient, Restarts, Idle, Spawn
  <2>5. ASSUME NEW k \in Ids, Enter(k) \/ InitDone(k) \/ Die(k)
        PROVE  \/ child'[i] = child[i]
               \/ child[i] \in {"init", "entered", "running"}
                  /\ child'[i] \in {"entered", "running", "dead"}
    BY <2>5 DEF Enter, InitDone, Die
  <2>6. ASSUME NEW k \in Ids, InitFails(k)
        PROVE  \/ child'[i] = child[i]
               \/ child[i] \in {"init", "entered"} /\ (child'[i] = "dead" \/ Adding(i))
    BY <2>6 DEF InitFails, Kinds
  <2>7. UNCHANGED <<child, life, kind>> \/ StartChild \/ GiveUp
        \/ \E k \in Ids : RestartClient(k) \/ Enter(k) \/ InitDone(k) \/ Die(k) \/ InitFails(k)
    BY DEF Next, Manager, Supervisor, Client, OptionsRaise, BadConfig, Ask, CallTimeout,
       AlreadyExists, Refuse, StartClient, ManagerCrashes, RestartManager, RestartSupervisor,
       WindowPasses, ClosedLate, clientVars
  <2> QED
    BY <2>1, <2>2, <2>3, <2>4, <2>5, <2>6, <2>7
<1> QED
  BY <1>1, <1>2, Invariance, PTL DEF Spec

-----------------------------------------------------------------------------
(* What becomes of a client that was created *)

\* The client of who was told :ok is still of the kind it asked for.
KindInv == \A c \in Callers : call[c] = "ok" => kind[want[c].id] = want[c].kind

\* What CreatedIsKept says of a step.
Kept == \A c \in Callers : LET i == want[c].id IN
    /\ call[c] # "ok" /\ call'[c] = "ok" => child'[i] = "running" /\ kind'[i] = want[c].kind
    /\ call[c] = "ok" /\ child[i] # "absent" =>
          \/ child'[i] # "absent" /\ kind'[i] = want[c].kind
          \/ supervisor' = "down"

LEMMA StepKept == IInv /\ KindInv /\ [Next]_vars => KindInv' /\ Kept
<1> SUFFICES ASSUME IInv, KindInv, [Next]_vars PROVE KindInv' /\ Kept
  OBVIOUS
<1> USE ClientLifecycleAssumption
    DEF IInv, TypeOK, ControlInv, OkInv, KindInv, Kept, Adding, Calls, Children
<1>1. CASE UNCHANGED <<child, kind, want>> /\ \A c \in Callers : call'[c] = "ok" => call[c] = "ok"
  BY <1>1
<1>2. CASE StartChild
  <2>1. /\ UNCHANGED <<call, want>> /\ manager = "adding" /\ child[want[serving].id] = "absent"
        /\ child' = [child EXCEPT ![want[serving].id] = "init"]
        /\ kind' = [kind EXCEPT ![want[serving].id] = want[serving].kind]
    BY <1>2 DEF StartChild, Spawn
  <2>2. \A c \in Callers : call[c] = "ok" => want[c].id # want[serving].id
    BY <2>1
  <2> QED
    BY <2>1, <2>2
<1>3. CASE GiveUp
  BY <1>3 DEF GiveUp, CallersExit
<1>4. ASSUME NEW k \in Ids, RestartClient(k) PROVE KindInv' /\ Kept
  BY <1>4 DEF RestartClient, Spawn
<1>5. ASSUME NEW k \in Ids, Enter(k) \/ Die(k) PROVE KindInv' /\ Kept
  BY <1>5 DEF Enter, Die
<1>6. ASSUME NEW k \in Ids, InitDone(k) PROVE KindInv' /\ Kept
  <2>1. /\ UNCHANGED <<kind, want>> /\ child[k] = "entered"
        /\ child' = [child EXCEPT ![k] = "running"]
    BY <1>6 DEF InitDone
  <2>2. ASSUME NEW c \in Callers, call[c] # "ok", call'[c] = "ok"
        PROVE  c = serving /\ Adding(k)
    BY <2>2, <1>6 DEF InitDone, Started, Reply
  <2>3. \A c \in Callers : call[c] = "ok" => call'[c] = "ok"
    BY <1>6 DEF InitDone, Started, Reply
  <2> QED
    BY <2>1, <2>2, <2>3
<1>7. ASSUME NEW k \in Ids, InitFails(k) PROVE KindInv' /\ Kept
  <2>1. /\ UNCHANGED <<kind, want>>
        /\ child' = [child EXCEPT ![k] = IF Adding(k) THEN "absent" ELSE "dead"]
    BY <1>7 DEF InitFails
  <2>2. \A c \in Callers : call'[c] = "ok" => call[c] = "ok"
    BY <1>7 DEF InitFails, Started, Reply
  <2>3. \A c \in Callers : call[c] = "ok" => ~Adding(want[c].id)
    OBVIOUS
  <2> QED
    BY <2>1, <2>2, <2>3
<1>8. \/ UNCHANGED <<child, kind, want>> /\ \A c \in Callers : call'[c] = "ok" => call[c] = "ok"
      \/ StartChild \/ GiveUp
      \/ \E k \in Ids : RestartClient(k) \/ Enter(k) \/ InitDone(k) \/ Die(k) \/ InitFails(k)
  <2> USE DEF clientVars
  <2>1. ASSUME NEW c \in Callers,
               OptionsRaise(c) \/ BadConfig(c) \/ Ask(c) \/ CallTimeout(c) \/ Manager(c)
        PROVE  /\ UNCHANGED <<child, kind, want>>
               /\ \A d \in Callers : call'[d] = "ok" => call[d] = "ok"
    BY <2>1 DEF Manager, OptionsRaise, BadConfig, Ask, CallTimeout, AlreadyExists, Refuse,
       StartClient, ManagerCrashes, Takes, Reply, CallersExit
  <2>2. ASSUME RestartManager \/ RestartSupervisor \/ WindowPasses \/ UNCHANGED vars
               \/ \E k \in Ids : ClosedLate(k)
        PROVE  UNCHANGED <<child, kind, want, call>>
    BY <2>2 DEF RestartManager, RestartSupervisor, WindowPasses, ClosedLate, vars
  <2> QED
    BY <2>1, <2>2 DEF Next, Supervisor, Client
<1> QED
  BY <1>1, <1>2, <1>3, <1>4, <1>5, <1>6, <1>7, <1>8

\* No creation that was answered :ok is taken back: not by a restart that fails, not by
\* the creations of others under the same id or another one, for any number of them.
THEOREM CreatedClientsStay == Spec => CreatedIsKept
<1>1. Init => KindInv
  BY DEF Init, KindInv
<1>2. Spec => [][Kept]_vars
  BY <1>1, Invariance, StepKept, PTL DEF Spec
<1> QED
  BY <1>2 DEF CreatedIsKept, Kept
=============================================================================
