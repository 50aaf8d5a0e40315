------------------------ MODULE ConsumerGroupProofs ------------------------
(***************************************************************************)
(* Theorems about ConsumerGroup, for any partitions, logs, rebalances and  *)
(* restarts.  Where an invariant needs init/4 not to fail, or messages not *)
(* to arrive while rebalance_cb runs, the theorem assumes so: the runs     *)
(* group_orphans and group_early_fetch show what happens otherwise.        *)
(***************************************************************************)
EXTENDS ConsumerGroup, TLAPS

-----------------------------------------------------------------------------
(* The inductive invariant *)

\* The group's process and its client: the client is open while the process works.
ControlInv ==
    /\ client = "open" <=> group = "running"
    /\ task # "none" => group = "running"
    /\ join = "assigning" => client \in {"open", "stopping"}
    /\ toAdd # {} => join = "assigning"
    /\ join = "none" => assigned = {}
    /\ join # "none" => round # 0
    /\ task = "assign" => current.round \in Rounds
    /\ group \in {"down", "ended"} => mailbox = << >>
    /\ client \in {"cleared", "closed"} => \A c \in Consumers : queue[c] # "private"

\* The messages of the rebalance that the group has still to handle: at most one
\* of each kind, the assignment first, and both about what is assigned now.
IsAssign(i) == mailbox[i].kind = "assign"
IsRevoke(i) == mailbox[i].kind = "revoke"
Inbox       == 1 .. Len(mailbox)

MailboxInv == group = "running" =>
    /\ \A i \in Inbox : IsAssign(i) => /\ join \in {"assigned", "revoking"}
                                       /\ mailbox[i].parts = assigned
                                       /\ mailbox[i].round = round
    /\ \A i \in Inbox : IsRevoke(i) => /\ join = "revoking" /\ task # "revoke"
                                       /\ mailbox[i].parts = assigned
    /\ \A i, j \in Inbox : IsAssign(i) /\ IsAssign(j) => i = j
    /\ \A i, j \in Inbox : IsRevoke(i) /\ IsRevoke(j) => i = j
    /\ \A i, j \in Inbox : IsAssign(i) /\ IsRevoke(j) => i < j

\* The group's map follows librdkafka's assignment: it is empty before the message
\* is handled and has exactly the assigned partitions afterwards.
Pending == \E i \in Inbox : IsAssign(i)

MapInv ==
    /\ group \in {"down", "ended"} => Active = {}
    /\ group \in {"running", "closing"} /\ join = "assigning" => Active = {}
    /\ group = "running" =>
          /\ Pending \/ join \in {"none", "assigning"} => Active = {} /\ task \in {"none",
               "terminate"}
          /\ Active # {} => active = [p \in Partitions |-> IF p \in assigned THEN round ELSE 0]
          /\ task = "assign" => /\ current.parts = assigned /\ current.round = round
                                /\ Active = {} /\ todo \subseteq assigned
          /\ task \in {"revoke", "terminate"} => todo \subseteq Active
          /\ task = "revoke" => join = "revoking" /\ Active = assigned
          /\ join \in {"assigned", "revoking"} /\ task = "none" /\ ~Pending =>
               Active = assigned

\* The consumers: one that was told to stop is waited for or killed, the others
\* have the assigned partitions and are in the map or about to enter it.
StopInv ==
    /\ group \in {"down", "ended"} => alive = {} /\ told = {}
    /\ waiting # Nobody => /\ task \in {"revoke", "terminate"} /\ waiting \in told
                           /\ waiting[1] \in todo /\ waiting = Consumer(waiting[1])
    /\ replied => waiting # Nobody /\ waiting \notin alive
    /\ \A c \in alive \intersect told : c = waiting \/ c \in killed
    /\ \A c \in told : c[2] <= round
    /\ group = "running" /\ join # "none" /\ task \in {"none", "assign"} =>
          \A c \in told : c[2] < round

\* A consumer that was not told to stop is of the last assignment handed to
\* rebalance_cb, whether rd_kafka_assign took it (`granted`) or not, also one that
\* the map does not have because a later init/4 failed.
RoundInv == \A c \in alive \ told :
    /\ c[2] = round
    /\ client = "open" => join \in {"assigned", "revoking"} /\ c[1] \in assigned
    /\ group = "running" /\ task \in {"none", "revoke"} => Active # {}
    /\ task = "revoke" => c[1] \in todo

\* If no init/4 fails it has its partition and its queue, and the group knows it.
OwnInv == \A c \in alive \ told :
    /\ client = "open" /\ join \in {"assigned", "revoking"}
    /\ c[2] = round /\ c[1] \in assigned /\ queue[c] = "private"
    /\ task = "assign" => c[1] \notin todo
    /\ task # "assign" => Active # {}
    /\ task \in {"revoke", "terminate"} => c[1] \in todo

\* The queues: those of the assigned partitions are taken until the group gives
\* them back one by one.
QueueInv ==
    /\ join = "assigning" => \A p \in assigned \ toAdd : queue[<<p, round>>] = "private"
    /\ group = "running" /\ task \in {"none", "assign"} /\ join \in {"assigned", "revoking"} =>
          \A p \in assigned : queue[<<p, round>>] = "private"
    /\ task = "terminate" => \A p \in Active \ todo : queue[Consumer(p)] = "destroyed"
    /\ group = "closing" => \A p \in Active : queue[Consumer(p)] = "destroyed"

\* The crashes the group has still to see are of its current consumers, or come
\* before the next assignment.
IsCrash(i) == mailbox[i].kind = "EXIT" /\ mailbox[i].reason = "error"

ExitInv == group = "running" => \A i \in Inbox : IsCrash(i) =>
    /\ Active # {} \/ task = "assign" =>
          mailbox[i].from[2] = round /\ mailbox[i].from[1] \in assigned
    /\ \A j \in Inbox : IsAssign(j) => i < j

\* The offsets, and the position of a partition whose messages are kept.
OffsetInv == \A p \in Partitions :
    /\ committed[p] <= stored[p]
    /\ p \notin assigned \/ p \in toAdd \/ queue[<<p, round>>] = "private" =>
          position[p] = stored[p]

\* What always holds, and what holds if no init/4 fails.
IInv   == TypeOK /\ ControlInv /\ MailboxInv /\ MapInv /\ StopInv /\ QueueInv /\ RoundInv
OkInv  == IInv /\ OwnInv /\ ExitInv
KeyInv == IInv /\ OffsetInv

\* Nothing is forgotten on the way: what librdkafka waits for, or what the group has to
\* learn, is in the mailbox, in the handler's hands, or settled by the client's end.
ExitUnderWay(c) == \E i \in Inbox : mailbox[i].kind = "EXIT" /\ mailbox[i].from = c

\* An assignment becomes the group's map, unless the group terminates.
AssignmentUnderWay == group = "running" /\ join = "assigned" =>
    \/ \E i \in Inbox : mailbox[i] = Assign(assigned, round)
    \/ task = "assign" /\ current = Assign(assigned, round)
    \/ Active = assigned
    \/ task = "terminate"

\* A revocation is answered by the group, or by the thread that closes the client.
RevocationUnderWay == join = "revoking" =>
    \/ client # "open"
    \/ \E i \in Inbox : mailbox[i] = Revoke(assigned)
    \/ task \in {"revoke", "terminate"}

\* The group learns of each of its consumers that dies, also of one that dies before
\* its handler has started the others.
DeathsAreSeen == group = "running" =>
    /\ task = "none" => \A p \in Active : Consumer(p) \in alive \/ ExitUnderWay(Consumer(p))
    /\ task = "assign" => \A p \in current.parts \ todo :
          <<p, current.round>> \in alive \/ ExitUnderWay(<<p, current.round>>)

NothingForgotten == AssignmentUnderWay /\ RevocationUnderWay /\ DeathsAreSeen

SeenInv == IInv /\ RevocationUnderWay /\ DeathsAreSeen

\* For the invariants a consumer may die whenever it likes, as often as it likes, as it
\* does in the composition with the consumers' steps.
AnyNext == Next \/ \E c \in Consumers : Dies(c)

-----------------------------------------------------------------------------
(* The mailbox, one message taken or sent *)

\* A message is one of the four kinds.
LEMMA MessageKinds ==
    ASSUME NEW m \in Messages
    PROVE  /\ m.kind \in {"assign", "revoke", "EXIT", "shutdown"}
           /\ m.kind = "assign" => m \in [kind : {"assign"}, parts : SUBSET Partitions,
                round : Rounds]
           /\ m.kind = "revoke" => m \in [kind : {"revoke"}, parts : SUBSET Partitions]
           /\ m.kind = "EXIT"   => m \in [kind : {"EXIT"}, from : Consumers,
                                          reason : {"error", "killed"}]
  BY DEF Messages, Shutdown

\* The group's receive takes the first message; the others move up.
LEMMA Received ==
    ASSUME TypeOK, NEW kind, Receive(kind)
    PROVE  /\ group = "running" /\ task = "none"
           /\ mailbox' \in Seq(Messages) /\ 1 \in Inbox
           /\ Head(mailbox) = mailbox[1] /\ mailbox[1] \in Messages /\ mailbox[1].kind = kind
           /\ \A i \in Inbox' : /\ i \in Nat \ {0} /\ i + 1 \in Inbox
                               /\ mailbox'[i] = mailbox[i + 1]
           /\ \A i \in Inbox : i # 1 => i - 1 \in Inbox' /\ mailbox'[i - 1] = mailbox[i]
  BY DEF TypeOK, Receive, IsNext, Inbox

\* A message to the group goes behind the others.
LEMMA Posted ==
    ASSUME TypeOK, NEW msg \in Messages, mailbox' = Append(mailbox, msg)
    PROVE  /\ mailbox' \in Seq(Messages)
           /\ \A i \in Inbox : i \in Inbox' /\ mailbox'[i] = mailbox[i]
           /\ \A i \in Inbox' : \/ i \in Inbox /\ mailbox'[i] = mailbox[i]
                                \/ i = Len(mailbox) + 1 /\ mailbox'[i] = msg
           /\ Len(mailbox) + 1 \in Inbox' /\ \A i \in Inbox : i < Len(mailbox) + 1
  BY DEF TypeOK, Inbox

\* A message to a process that is gone is lost.
LEMMA SentType ==
    ASSUME TypeOK, NEW msg \in Messages, mailbox' = Sent(msg)
    PROVE  mailbox' \in Seq(Messages)
  BY DEF TypeOK, Sent

\* Only assignments make an assignment pending.
LEMMA PostedPending ==
    ASSUME TypeOK, NEW msg \in Messages, mailbox' = Sent(msg), msg.kind # "assign"
    PROVE  group = "running" => (Pending' <=> Pending)
<1> SUFFICES ASSUME group = "running" PROVE Pending' <=> Pending
  OBVIOUS
<1>1. mailbox' = Append(mailbox, msg)
  BY DEF Sent
<1> QED
  BY <1>1, Posted DEF Pending, IsAssign

LEMMA ReceivedPending ==
    ASSUME TypeOK, MailboxInv, NEW kind, Receive(kind)
    PROVE  /\ kind = "assign" => Pending /\ ~Pending'
           /\ kind # "assign" => (Pending' <=> Pending)
<1>1. /\ group = "running" /\ 1 \in Inbox /\ mailbox[1].kind = kind
      /\ \A i \in Inbox' : /\ i \in Nat \ {0} /\ i + 1 \in Inbox
                               /\ mailbox'[i] = mailbox[i + 1]
      /\ \A i \in Inbox : i # 1 => i - 1 \in Inbox' /\ mailbox'[i - 1] = mailbox[i]
  BY Received
<1>2. ASSUME kind = "assign" PROVE Pending /\ ~Pending'
  <2>1. \A i \in Inbox : IsAssign(i) => i = 1
    BY <1>1, <1>2 DEF MailboxInv, IsAssign
  <2>2. \A i \in Inbox' : i + 1 # 1
    BY <1>1
  <2> QED
    BY <1>1, <1>2, <2>1, <2>2 DEF Pending, IsAssign
<1>3. ASSUME kind # "assign" PROVE Pending' <=> Pending
  BY <1>1, <1>3 DEF Pending, IsAssign
<1> QED
  BY <1>2, <1>3

\* A map that is not empty has exactly the assigned partitions.
LEMMA ActiveAssigned ==
    ASSUME TypeOK, ControlInv, MapInv, group = "running",
           Active # {} \/ (join \in {"assigned", "revoking"} /\ task = "none" /\ ~Pending)
    PROVE  Active = assigned /\ \A p \in Active : active[p] = round
<1>1. CASE Active = {}
  BY <1>1 DEF MapInv
<1>2. CASE Active # {}
  <2>1. active = [p \in Partitions |-> IF p \in assigned THEN round ELSE 0]
    BY <1>2 DEF MapInv
  <2>2. Active \subseteq assigned
    BY <2>1 DEF Active
  <2>3. round # 0
    BY <1>2, <2>2 DEF ControlInv
  <2> QED
    BY <2>1, <2>3 DEF Active, TypeOK
<1> QED
  BY <1>1, <1>2

\* The messages that are sent.
LEMMA MessagesSent ==
    /\ \A parts \in SUBSET Partitions : Revoke(parts) \in Messages
    /\ \A parts \in SUBSET Partitions, r \in Rounds : Assign(parts, r) \in Messages
    /\ \A c \in Consumers : ExitOf(c, Cause(c)) \in Messages
    /\ Shutdown \in Messages
  BY DEF Messages, Revoke, Assign, ExitOf, Cause, Shutdown

\* The end of the group's process keeps the types.
LEMMA GroupEndsType == TypeOK /\ GroupEnds => TypeOK'
<1> SUFFICES ASSUME TypeOK, GroupEnds PROVE TypeOK'
  OBVIOUS
<1>1. mailbox' \in Seq(Messages) /\ active' \in [Partitions -> 0 .. MaxRounds]
  BY ConsumerGroupAssumption DEF GroupEnds, NoConsumers
<1>2. queue' \in [Consumers -> QueueStates]
  BY DEF TypeOK, GroupEnds, QueueStates
<1> QED
  BY <1>1, <1>2 DEF TypeOK, GroupEnds, offsetVars

LEMMA InitIInv == Init => IInv
<1> SUFFICES ASSUME Init PROVE IInv
  OBVIOUS
<1> USE ConsumerGroupAssumption DEF Init
<1>1. Active = {} /\ Inbox = {}
  BY DEF Active, Inbox, NoConsumers
<1>2. TypeOK
  <2>1. mailbox \in Seq(Messages) /\ active \in [Partitions -> 0 .. MaxRounds]
    BY DEF NoConsumers
  <2>2. queue \in [Consumers -> QueueStates]
    BY DEF QueueStates
  <2>3. {position, stored, committed} \subseteq [Partitions -> 0 .. LogEnd]
    OBVIOUS
  <2>4. current \in [kind : {"assign"}, parts : SUBSET Partitions, round : 0 .. MaxRounds]
    BY DEF Assign
  <2>5. handled \in [Partitions -> SUBSET (0 .. LogEnd - 1)]
    OBVIOUS
  <2>6. /\ task \in Tasks /\ join \in JoinStates /\ killed \subseteq alive
        /\ restarts \in 0 .. MaxRestarts /\ round \in 0 .. MaxRounds
        /\ waiting \in Consumers \union {Nobody}
    BY DEF Tasks, JoinStates
  <2> HIDE DEF Init
  <2>7. /\ group = "running" /\ todo = {} /\ restart = FALSE /\ alive = {} /\ told = {}
        /\ replied = FALSE /\ client = "open" /\ assigned = {} /\ toAdd = {}
        /\ granted = FALSE
    BY DEF Init
  <2> QED
    BY <2>1, <2>2, <2>3, <2>4, <2>5, <2>6, <2>7 DEF TypeOK
<1>3. ControlInv /\ StopInv /\ RoundInv
  BY DEF ControlInv, StopInv, RoundInv, Nobody
<1>4. MailboxInv /\ MapInv /\ QueueInv
  BY <1>1 DEF MailboxInv, MapInv, QueueInv, Pending
<1> QED
  BY <1>2, <1>3, <1>4 DEF IInv

\* What a commit commits is one of the two offsets.
LEMMA NewerType ==
    ASSUME TypeOK, NEW p \in Partitions
    PROVE  /\ Newer(p) \in {committed[p], stored[p]} /\ Newer(p) \in 0 .. LogEnd
           /\ committed[p] <= stored[p] => Newer(p) = stored[p]
<1>1. committed \in [Partitions -> 0 .. LogEnd] /\ stored \in [Partitions -> 0 .. LogEnd]
  BY DEF TypeOK
<1> QED
  BY <1>1, ConsumerGroupAssumption DEF Newer

\* Every variable keeps its type.
LEMMA StepType == TypeOK /\ ControlInv /\ MapInv /\ [AnyNext]_vars => TypeOK'
<1> SUFFICES ASSUME TypeOK /\ ControlInv /\ MapInv, [AnyNext]_vars PROVE TypeOK'
  OBVIOUS
<1> USE ConsumerGroupAssumption DEF TypeOK, ControlInv, Tasks, JoinStates, QueueStates, Rounds,
      Consumers,
         groupVars, consumerVars, clientVars, offsetVars
<1>1. ASSUME NEW parts \in SUBSET Partitions, AssignStarts(parts) PROVE TypeOK'
  BY <1>1 DEF AssignStarts
<1>2. ASSUME NEW p \in Partitions, AddQueue(p) PROVE TypeOK'
  BY <1>2 DEF AddQueue
<1>3. CASE AssignSent
  <2>1. Assign(assigned, round) \in Messages
    BY <1>3, MessagesSent DEF AssignSent
  <2>2. mailbox' \in Seq(Messages)
    BY <1>3, <2>1, SentType DEF AssignSent
  <2> QED
    BY <2>2, <1>3 DEF AssignSent
<1>4. CASE RevokeSent
  <2>1. mailbox' \in Seq(Messages)
    BY <1>4, MessagesSent, SentType DEF RevokeSent
  <2> QED
    BY <2>1, <1>4 DEF RevokeSent
<1>5. CASE RevokeRefused
  BY <1>5 DEF RevokeRefused, Rewind
<1>6. ASSUME NEW p \in Partitions, Drop(p) PROVE TypeOK'
  <2>1. position[p] + 1 \in 0 .. LogEnd
    BY <1>6 DEF Drop
  <2>2. position' \in [Partitions -> 0 .. LogEnd]
    BY <2>1, <1>6 DEF Drop
  <2> QED
    BY <2>2, <1>6 DEF Drop
<1>7. CASE AutoCommit
  <2>1. committed' = [p \in Partitions |-> Newer(p)] /\ \A p \in Partitions : Newer(p) \in 0 .. LogEnd
    BY <1>7, NewerType DEF AutoCommit
  <2>2. UNCHANGED <<groupVars, mailbox, consumerVars, clientVars, position, stored, handled>>
    BY <1>7 DEF AutoCommit
  <2> QED
    BY <2>1, <2>2
<1>8. ASSUME NEW c \in Consumers, Deliver(c) PROVE TypeOK'
  <2> DEFINE p == c[1]
  <2>1. p \in Partitions /\ position[p] \in 0 .. LogEnd - 1 /\ position[p] + 1 \in 0 .. LogEnd
    BY <1>8 DEF Deliver
  <2>2. position' \in [Partitions -> 0 .. LogEnd] /\ stored' \in [Partitions -> 0 .. LogEnd]
    BY <2>1, <1>8 DEF Deliver
  <2>3. handled' \in [Partitions -> SUBSET (0 .. LogEnd - 1)]
    BY <2>1, <1>8 DEF Deliver
  <2>4. UNCHANGED <<groupVars, mailbox, consumerVars, clientVars, committed>>
    BY <1>8 DEF Deliver
  <2> QED
    BY <2>2, <2>3, <2>4
<1>9. ASSUME NEW c \in Consumers, Dies(c) PROVE TypeOK'
  <2>1. mailbox' \in Seq(Messages)
    BY <1>9, MessagesSent, SentType DEF Dies
  <2> QED
    BY <2>1, <1>9 DEF Dies
<1>11. ASSUME NEW c \in Consumers, Stops(c) PROVE TypeOK'
  BY <1>11 DEF Stops
<1>12. CASE HandleAssign
  <2>1. Receive("assign")
    BY <1>12 DEF HandleAssign
  <2>2. mailbox' \in Seq(Messages) /\ Head(mailbox) \in [kind : {"assign"},
          parts : SUBSET Partitions, round : Rounds]
    BY <2>1, Received, MessageKinds
  <2>3. /\ Head(mailbox) \in [kind : {"assign"}, parts : SUBSET Partitions, round : 0 .. MaxRounds]
        /\ Head(mailbox).parts \subseteq Partitions
    BY <2>2
  <2> QED
    BY <2>2, <2>3, <1>12 DEF HandleAssign
<1>13. ASSUME NEW p \in Partitions, StartConsumer(p) PROVE TypeOK'
  BY <1>13 DEF StartConsumer
<1>14. ASSUME NEW p \in Partitions, StartFails(p) PROVE TypeOK'
  BY <1>14 DEF StartFails, Terminates, Active
<1>15. CASE HandleRevoke
  <2>1. Receive("revoke")
    BY <1>15 DEF HandleRevoke
  <2>2. group = "running" /\ mailbox' \in Seq(Messages) /\ Head(mailbox) \in [kind : {"revoke"},
          parts : SUBSET Partitions]
    BY <2>1, Received, MessageKinds
  <2> QED
    BY <2>1, <2>2, <1>15 DEF HandleRevoke
<1>16. CASE HandleExit
  <2>1. mailbox' \in Seq(Messages)
    BY <1>16, Received DEF HandleExit
  <2> QED
    BY <2>1, <1>16 DEF HandleExit, Terminates, Active
<1>17. CASE HandleShutdown
  <2>1. mailbox' \in Seq(Messages)
    BY <1>17, Received DEF HandleShutdown
  <2> QED
    BY <2>1, <1>17 DEF HandleShutdown, Terminates, Active
<1>18. ASSUME NEW p \in Partitions, StopConsumer(p) PROVE TypeOK'
  BY <1>18 DEF StopConsumer, QueueCleanup
<1>19. CASE StopAnswered
  BY <1>19 DEF StopAnswered, QueueCleanup
<1>20. CASE StopTimeout
  BY <1>20 DEF StopTimeout, QueueCleanup
<1>21. CASE RevokeCompleted
  <2>1. toAdd = {}
    BY <1>21 DEF RevokeCompleted, MapInv
  <2>2. committed' \in [Partitions -> 0 .. LogEnd] /\ stored' = committed' /\ position' = committed'
    BY <1>21 DEF RevokeCompleted, Rewind
  <2>3. active' \in [Partitions -> 0 .. MaxRounds]
    BY <1>21 DEF RevokeCompleted, NoConsumers
  <2> QED
    BY <2>1, <2>2, <2>3, <1>21 DEF RevokeCompleted
<1>22. CASE ConsumerCleanup
  BY <1>22 DEF ConsumerCleanup
<1>23. CASE NotifierRemove
  BY <1>23 DEF NotifierRemove
<1>24. CASE ClientStopped
  BY <1>24, GroupEndsType DEF ClientStopped
<1>25. CASE CloseTimeout
  BY <1>25, GroupEndsType DEF CloseTimeout
<1>26. CASE Restart
  <2>1. committed' \in [Partitions -> 0 .. LogEnd] /\ stored' = committed' /\ position' = committed'
    BY <1>26 DEF Restart, Rewind
  <2>2. restarts' \in 0 .. MaxRestarts
    BY <1>26 DEF Restart
  <2> QED
    BY <2>1, <2>2, <1>26 DEF Restart
<1>27. CASE SendShutdown
  <2>1. mailbox' \in Seq(Messages)
    BY <1>27, MessagesSent, Posted DEF SendShutdown
  <2> QED
    BY <2>1, <1>27 DEF SendShutdown
<1>28. CASE ClearAll
  BY <1>28 DEF ClearAll
<1>29. CASE Close
  BY <1>29 DEF Close, Rewind
<1>30. CASE UNCHANGED vars
  BY <1>30 DEF vars
<1> QED
  BY <1>1, <1>2, <1>3, <1>4, <1>5, <1>6, <1>7, <1>8, <1>9, <1>11, <1>12, <1>13, <1>14,
     <1>15, <1>16, <1>17, <1>18, <1>19, <1>20, <1>21, <1>22, <1>23, <1>24, <1>25, <1>26, <1>27,
       <1>28, <1>29, <1>30
  DEF AnyNext, Next, Crash, KillArrives, Rebalance, Group, Closing

\* The process, its client and the rebalance move together.
LEMMA StepControl == TypeOK /\ ControlInv /\ MapInv /\ [AnyNext]_vars => ControlInv'
<1> SUFFICES ASSUME TypeOK /\ ControlInv /\ MapInv, [AnyNext]_vars PROVE ControlInv'
  OBVIOUS
<1> USE ConsumerGroupAssumption DEF TypeOK, ControlInv, groupVars, consumerVars, clientVars,
      offsetVars
<1>1. ASSUME NEW parts \in SUBSET Partitions, AssignStarts(parts) PROVE ControlInv'
  BY <1>1 DEF AssignStarts
<1>2. ASSUME NEW p \in Partitions, AddQueue(p) PROVE ControlInv'
  BY <1>2 DEF AddQueue
<1>3. CASE AssignSent
  BY <1>3 DEF AssignSent, Sent
<1>4. CASE RevokeSent
  BY <1>4 DEF RevokeSent, Sent
<1>5. CASE RevokeRefused
  BY <1>5 DEF RevokeRefused, Rewind
<1>6. ASSUME NEW p \in Partitions, Drop(p) PROVE ControlInv'
  BY <1>6 DEF Drop
<1>7. CASE AutoCommit
  BY <1>7 DEF AutoCommit
<1>8. ASSUME NEW c \in Consumers, Deliver(c) PROVE ControlInv'
  BY <1>8 DEF Deliver
<1>9. ASSUME NEW c \in Consumers, Dies(c) PROVE ControlInv'
  BY <1>9 DEF Dies, Sent
<1>11. ASSUME NEW c \in Consumers, Stops(c) PROVE ControlInv'
  BY <1>11 DEF Stops
<1>12. CASE HandleAssign
  <2>1. Receive("assign")
    BY <1>12 DEF HandleAssign
  <2>2. group = "running" /\ mailbox' \in Seq(Messages) /\ Head(mailbox) \in [kind : {"assign"},
          parts : SUBSET Partitions, round : Rounds]
    BY <2>1, Received, MessageKinds
  <2> QED
    BY <2>1, <2>2, <1>12 DEF HandleAssign
<1>13. ASSUME NEW p \in Partitions, StartConsumer(p) PROVE ControlInv'
  BY <1>13 DEF StartConsumer
<1>14. ASSUME NEW p \in Partitions, StartFails(p) PROVE ControlInv'
  BY <1>14 DEF StartFails, Terminates
<1>15. CASE HandleRevoke
  BY <1>15 DEF HandleRevoke, Receive, IsNext
<1>16. CASE HandleExit
  BY <1>16 DEF HandleExit, Receive, IsNext, Terminates
<1>17. CASE HandleShutdown
  BY <1>17 DEF HandleShutdown, Receive, IsNext, Terminates
<1>18. ASSUME NEW p \in Partitions, StopConsumer(p) PROVE ControlInv'
  BY <1>18 DEF StopConsumer, QueueCleanup
<1>19. CASE StopAnswered
  BY <1>19 DEF StopAnswered, QueueCleanup
<1>20. CASE StopTimeout
  BY <1>20 DEF StopTimeout, QueueCleanup
<1>21. CASE RevokeCompleted
  <2>1. join = "revoking" /\ toAdd = {}
    BY <1>21 DEF RevokeCompleted, MapInv
  <2> QED
    BY <2>1, <1>21 DEF RevokeCompleted
<1>22. CASE ConsumerCleanup
  BY <1>22 DEF ConsumerCleanup
<1>23. CASE NotifierRemove
  BY <1>23 DEF NotifierRemove
<1>24. CASE ClientStopped
  BY <1>24 DEF ClientStopped, GroupEnds
<1>25. CASE CloseTimeout
  BY <1>25 DEF CloseTimeout, GroupEnds
<1>26. CASE Restart
  BY <1>26 DEF Restart, Rewind
<1>27. CASE SendShutdown
  BY <1>27 DEF SendShutdown
<1>28. CASE ClearAll
  BY <1>28 DEF ClearAll
<1>29. CASE Close
  BY <1>29 DEF Close, Rewind
<1>30. CASE UNCHANGED vars
  BY <1>30 DEF vars
<1> QED
  BY <1>1, <1>2, <1>3, <1>4, <1>5, <1>6, <1>7, <1>8, <1>9, <1>11, <1>12, <1>13, <1>14,
     <1>15, <1>16, <1>17, <1>18, <1>19, <1>20, <1>21, <1>22, <1>23, <1>24, <1>25, <1>26, <1>27,
       <1>28, <1>29, <1>30
  DEF AnyNext, Next, Crash, KillArrives, Rebalance, Group, Closing

\* A second revocation or assignment is not sent before the first is dealt with.
LEMMA StepMailbox == TypeOK /\ ControlInv /\ MailboxInv /\ MapInv /\ [AnyNext]_vars => MailboxInv'
<1> SUFFICES ASSUME TypeOK /\ ControlInv /\ MailboxInv /\ MapInv, [AnyNext]_vars PROVE MailboxInv'
  OBVIOUS
<1>a. UNCHANGED mailbox => Inbox' = Inbox
  BY DEF Inbox
<1> USE <1>a, ConsumerGroupAssumption DEF ControlInv, MailboxInv, IsAssign, IsRevoke,
         groupVars, consumerVars, clientVars, offsetVars
<1>1. ASSUME NEW parts \in SUBSET Partitions, AssignStarts(parts) PROVE MailboxInv'
  BY <1>1 DEF AssignStarts
<1>2. ASSUME NEW p \in Partitions, AddQueue(p) PROVE MailboxInv'
  BY <1>2 DEF AddQueue
<1>3. CASE AssignSent
  <2>00. assigned \in SUBSET Partitions /\ round \in Rounds
    BY <1>3 DEF AssignSent, TypeOK, Rounds
  <2>0. Assign(assigned, round) \in Messages
    BY <2>00, MessagesSent DEF TypeOK
  <2>1. /\ join = "assigning" /\ toAdd = {} /\ join' = "assigned"
        /\ UNCHANGED <<groupVars, consumerVars, client, round, assigned, toAdd, queue, offsetVars>>
    BY <1>3 DEF AssignSent
  <2>2. CASE group # "running"
    BY <2>1, <2>2
  <2>3. CASE group = "running"
    <3>1. mailbox' = Append(mailbox, Assign(assigned, round))
      BY <2>3, <1>3 DEF AssignSent, Sent
    <3>2. /\ \A i \in Inbox' : (i \in Inbox /\ mailbox'[i] = mailbox[i])
                               \/ (i = Len(mailbox) + 1 /\ mailbox'[i] = Assign(assigned, round))
          /\ \A i \in Inbox : i < Len(mailbox) + 1
      BY <2>0, <3>1, Posted
    <3> QED
      BY <2>1, <2>3, <3>2 DEF Assign
  <2> QED
    BY <2>2, <2>3
<1>4. CASE RevokeSent
  <2>0. Revoke(assigned) \in Messages
    BY MessagesSent DEF TypeOK
  <2>1. /\ client = "open" /\ join = "assigned" /\ join' = "revoking"
        /\ UNCHANGED <<groupVars, consumerVars, client, round, assigned, toAdd, queue, offsetVars>>
    BY <1>4 DEF RevokeSent
  <2>2. CASE group # "running"
    BY <2>1, <2>2
  <2>3. CASE group = "running"
    <3>1. mailbox' = Append(mailbox, Revoke(assigned))
      BY <2>3, <1>4 DEF RevokeSent, Sent
    <3>2. /\ \A i \in Inbox' : (i \in Inbox /\ mailbox'[i] = mailbox[i])
                               \/ (i = Len(mailbox) + 1 /\ mailbox'[i] = Revoke(assigned))
          /\ \A i \in Inbox : i < Len(mailbox) + 1
      BY <2>0, <3>1, Posted
    <3> QED
      BY <2>1, <2>3, <3>2 DEF Revoke, MapInv
  <2> QED
    BY <2>2, <2>3
<1>5. CASE RevokeRefused
  BY <1>5 DEF RevokeRefused, Rewind
<1>6. ASSUME NEW p \in Partitions, Drop(p) PROVE MailboxInv'
  BY <1>6 DEF Drop
<1>7. CASE AutoCommit
  BY <1>7 DEF AutoCommit
<1>8. ASSUME NEW c \in Consumers, Deliver(c) PROVE MailboxInv'
  BY <1>8 DEF Deliver
<1>9. ASSUME NEW c \in Consumers, Dies(c) PROVE MailboxInv'
  <2>0. ExitOf(c, Cause(c)) \in Messages
    BY <1>9, MessagesSent DEF TypeOK
  <2>1. UNCHANGED <<groupVars, told, replied, clientVars, offsetVars>> /\ alive' = alive \ {c}
        /\ killed' = killed \ {c} /\ c \in alive
    BY <1>9 DEF Dies
  <2>2. CASE group # "running"
    BY <2>1, <2>2
  <2>3. CASE group = "running"
    <3>1. mailbox' = Append(mailbox, ExitOf(c, Cause(c)))
      BY <2>3, <1>9 DEF Dies, Sent
    <3>2. /\ \A i \in Inbox' : (i \in Inbox /\ mailbox'[i] = mailbox[i])
                               \/ (i = Len(mailbox) + 1 /\ mailbox'[i] = ExitOf(c, Cause(c)))
          /\ \A i \in Inbox : i < Len(mailbox) + 1
      BY <2>0, <3>1, Posted
    <3> QED
      BY <2>1, <2>3, <3>2 DEF ExitOf
  <2> QED
    BY <2>2, <2>3
<1>11. ASSUME NEW c \in Consumers, Stops(c) PROVE MailboxInv'
  BY <1>11 DEF Stops
<1>12. CASE HandleAssign
  <2>1. Receive("assign")
    BY <1>12 DEF HandleAssign
  <2>2. /\ group = "running" /\ task = "none" /\ Head(mailbox) = mailbox[1]
        /\ 1 \in Inbox /\ mailbox[1].kind = "assign"
        /\ \A i \in Inbox' : /\ i \in Nat \ {0} /\ i + 1 \in Inbox
                             /\ mailbox'[i] = mailbox[i + 1]
    BY <2>1, Received
  <2>3. /\ task' = IF mailbox[1].parts = {} THEN "none" ELSE "assign"
        /\ todo' = mailbox[1].parts /\ current' = mailbox[1]
        /\ UNCHANGED <<group, waiting, restart, restarts, active, consumerVars, clientVars,
             offsetVars>>
    BY <2>2, <1>12 DEF HandleAssign
  <2>4. \A i \in Inbox : i \in Nat
    BY DEF Inbox
  <2> QED
    BY <2>2, <2>3, <2>4
<1>13. ASSUME NEW p \in Partitions, StartConsumer(p) PROVE MailboxInv'
  BY <1>13 DEF StartConsumer
<1>14. ASSUME NEW p \in Partitions, StartFails(p) PROVE MailboxInv'
  BY <1>14 DEF StartFails, Terminates
<1>15. CASE HandleRevoke
  <2>1. Receive("revoke")
    BY <1>15 DEF HandleRevoke
  <2>2. /\ group = "running" /\ task = "none" /\ Head(mailbox) = mailbox[1]
        /\ 1 \in Inbox /\ mailbox[1].kind = "revoke"
        /\ \A i \in Inbox' : /\ i \in Nat \ {0} /\ i + 1 \in Inbox
                             /\ mailbox'[i] = mailbox[i + 1]
    BY <2>1, Received
  <2>3. /\ task' = "revoke" /\ todo' = mailbox[1].parts
        /\ UNCHANGED <<group, current, waiting, restart, restarts, active, consumerVars, clientVars,
                       offsetVars>>
    BY <2>2, <1>15 DEF HandleRevoke
  <2>4. \A i \in Inbox : i \in Nat
    BY DEF Inbox
  <2> QED
    BY <2>2, <2>3, <2>4
<1>16. CASE HandleExit
  <2>1. Receive("EXIT")
    BY <1>16 DEF HandleExit
  <2>2. /\ group = "running" /\ task = "none" /\ Head(mailbox) = mailbox[1]
        /\ 1 \in Inbox /\ mailbox[1].kind = "EXIT"
        /\ \A i \in Inbox' : /\ i \in Nat \ {0} /\ i + 1 \in Inbox
                             /\ mailbox'[i] = mailbox[i + 1]
    BY <2>1, Received
  <2>3. /\ IF Active = {} THEN UNCHANGED <<task, todo, restart>> ELSE Terminates(TRUE)
        /\ UNCHANGED <<group, current, waiting, restarts, active, consumerVars, clientVars,
             offsetVars>>
    BY <2>2, <1>16 DEF HandleExit
  <2>4. \A i \in Inbox : i \in Nat
    BY DEF Inbox
  <2> QED
    BY <2>2, <2>3, <2>4 DEF Terminates
<1>17. CASE HandleShutdown
  <2>1. Receive("shutdown")
    BY <1>17 DEF HandleShutdown
  <2>2. /\ group = "running" /\ task = "none" /\ Head(mailbox) = mailbox[1]
        /\ 1 \in Inbox /\ mailbox[1].kind = "shutdown"
        /\ \A i \in Inbox' : /\ i \in Nat \ {0} /\ i + 1 \in Inbox
                             /\ mailbox'[i] = mailbox[i + 1]
    BY <2>1, Received
  <2>3. /\ Terminates(FALSE)
        /\ UNCHANGED <<group, current, waiting, restarts, active, consumerVars, clientVars,
             offsetVars>>
    BY <2>2, <1>17 DEF HandleShutdown
  <2>4. \A i \in Inbox : i \in Nat
    BY DEF Inbox
  <2> QED
    BY <2>2, <2>3, <2>4 DEF Terminates
<1>18. ASSUME NEW p \in Partitions, StopConsumer(p) PROVE MailboxInv'
  BY <1>18 DEF StopConsumer, QueueCleanup
<1>19. CASE StopAnswered
  BY <1>19 DEF StopAnswered, QueueCleanup
<1>20. CASE StopTimeout
  BY <1>20 DEF StopTimeout, QueueCleanup
<1>21. CASE RevokeCompleted
  BY <1>21 DEF RevokeCompleted, Rewind, MapInv, Pending, Rewind
<1>22. CASE ConsumerCleanup
  BY <1>22 DEF ConsumerCleanup
<1>23. CASE NotifierRemove
  BY <1>23 DEF NotifierRemove
<1>24. CASE ClientStopped
  BY <1>24 DEF ClientStopped, GroupEnds
<1>25. CASE CloseTimeout
  BY <1>25 DEF CloseTimeout, GroupEnds
<1>26. CASE Restart
  <2>1. Inbox' = {}
    BY <1>26 DEF Restart, Inbox
  <2> QED
    BY <2>1, <1>26 DEF Restart
<1>27. CASE SendShutdown
  <2>0. Shutdown \in Messages
    BY <1>27, MessagesSent DEF TypeOK
  <2>1. group = "running" /\ UNCHANGED <<groupVars, consumerVars, clientVars, offsetVars>>
    BY <1>27 DEF SendShutdown
  <2>2. CASE group # "running"
    BY <2>1, <2>2
  <2>3. CASE group = "running"
    <3>1. mailbox' = Append(mailbox, Shutdown)
      BY <2>3, <1>27 DEF SendShutdown, Sent
    <3>2. /\ \A i \in Inbox' : (i \in Inbox /\ mailbox'[i] = mailbox[i])
                               \/ (i = Len(mailbox) + 1 /\ mailbox'[i] = Shutdown)
          /\ \A i \in Inbox : i < Len(mailbox) + 1
      BY <2>0, <3>1, Posted
    <3> QED
      BY <2>1, <2>3, <3>2 DEF Shutdown
  <2> QED
    BY <2>2, <2>3
<1>28. CASE ClearAll
  BY <1>28 DEF ClearAll
<1>29. CASE Close
  BY <1>29 DEF Close, Rewind
<1>30. CASE UNCHANGED vars
  BY <1>30 DEF vars
<1> QED
  BY <1>1, <1>2, <1>3, <1>4, <1>5, <1>6, <1>7, <1>8, <1>9, <1>11, <1>12, <1>13, <1>14,
     <1>15, <1>16, <1>17, <1>18, <1>19, <1>20, <1>21, <1>22, <1>23, <1>24, <1>25, <1>26, <1>27,
       <1>28, <1>29, <1>30
  DEF AnyNext, Next, Crash, KillArrives, Rebalance, Group, Closing

\* The map is filled by one message and emptied by the next.
LEMMA StepMap == TypeOK /\ ControlInv /\ MailboxInv /\ MapInv /\ [AnyNext]_vars => MapInv'
<1> SUFFICES ASSUME TypeOK /\ ControlInv /\ MailboxInv /\ MapInv, [AnyNext]_vars PROVE MapInv'
  OBVIOUS
<1>b. UNCHANGED active => Active' = Active
  BY DEF Active
<1>c. UNCHANGED mailbox => (Pending' <=> Pending)
  BY DEF Pending, IsAssign, Inbox
<1> USE <1>b, <1>c, ConsumerGroupAssumption DEF ControlInv, MapInv, groupVars, consumerVars,
      clientVars, offsetVars
<1>1. ASSUME NEW parts \in SUBSET Partitions, AssignStarts(parts) PROVE MapInv'
  BY <1>1 DEF AssignStarts
<1>2. ASSUME NEW p \in Partitions, AddQueue(p) PROVE MapInv'
  BY <1>2 DEF AddQueue
<1>3. CASE AssignSent
  <2>1. /\ join = "assigning" /\ toAdd = {} /\ join' = "assigned"
        /\ UNCHANGED <<groupVars, consumerVars, client, round, assigned, toAdd, queue, offsetVars>>
    BY <1>3 DEF AssignSent
  <2>2. CASE group # "running"
    BY <2>1, <2>2
  <2>3. CASE group = "running"
    <3>1. Assign(assigned, round) \in Messages
      BY <2>1, MessagesSent DEF TypeOK, Rounds
    <3>2. mailbox' = Append(mailbox, Assign(assigned, round))
      BY <2>3, <1>3 DEF AssignSent, Sent
    <3>3. Pending'
      BY <3>1, <3>2, Posted DEF Pending, IsAssign, Assign
    <3> QED
      BY <2>1, <2>3, <3>3
  <2> QED
    BY <2>2, <2>3
<1>4. CASE RevokeSent
  <2>1. /\ client = "open" /\ join = "assigned" /\ join' = "revoking"
        /\ UNCHANGED <<groupVars, consumerVars, client, round, assigned, toAdd, queue, offsetVars>>
    BY <1>4 DEF RevokeSent
  <2>2. CASE group # "running"
    BY <2>1, <2>2
  <2>3. CASE group = "running"
    <3>1. Revoke(assigned) \in Messages /\ Revoke(assigned).kind # "assign"
      BY MessagesSent DEF Revoke, TypeOK
    <3>2. mailbox' = Sent(Revoke(assigned))
      BY <2>3, <1>4 DEF RevokeSent, Sent
    <3>3. Pending' <=> Pending
      BY <2>3, <3>1, <3>2, PostedPending
    <3> QED
      BY <2>1, <2>3, <3>3
  <2> QED
    BY <2>2, <2>3
<1>5. CASE RevokeRefused
  BY <1>5 DEF RevokeRefused, Rewind
<1>6. ASSUME NEW p \in Partitions, Drop(p) PROVE MapInv'
  BY <1>6 DEF Drop
<1>7. CASE AutoCommit
  BY <1>7 DEF AutoCommit
<1>8. ASSUME NEW c \in Consumers, Deliver(c) PROVE MapInv'
  BY <1>8 DEF Deliver
<1>9. ASSUME NEW c \in Consumers, Dies(c) PROVE MapInv'
  <2>1. UNCHANGED <<groupVars, told, replied, clientVars, offsetVars>> /\ alive' = alive \ {c}
        /\ killed' = killed \ {c} /\ c \in alive
    BY <1>9 DEF Dies
  <2>2. CASE group # "running"
    BY <2>1, <2>2
  <2>3. CASE group = "running"
    <3>1. ExitOf(c, Cause(c)) \in Messages /\ ExitOf(c, Cause(c)).kind # "assign"
      BY MessagesSent DEF ExitOf
    <3>2. mailbox' = Sent(ExitOf(c, Cause(c)))
      BY <2>3, <1>9 DEF Dies, Sent
    <3>3. Pending' <=> Pending
      BY <2>3, <3>1, <3>2, PostedPending
    <3> QED
      BY <2>1, <2>3, <3>3
  <2> QED
    BY <2>2, <2>3
<1>11. ASSUME NEW c \in Consumers, Stops(c) PROVE MapInv'
  BY <1>11 DEF Stops
<1>12. CASE HandleAssign
  <2>1. Receive("assign")
    BY <1>12 DEF HandleAssign
  <2>2. group = "running" /\ task = "none" /\ Head(mailbox) = mailbox[1] /\ 1 \in Inbox /\
          mailbox[1].kind = "assign"
    BY <2>1, Received
  <2>3. /\ task' = IF mailbox[1].parts = {} THEN "none" ELSE "assign"
        /\ todo' = mailbox[1].parts /\ current' = mailbox[1]
        /\ UNCHANGED <<group, waiting, restart, restarts, active, consumerVars, clientVars,
             offsetVars>>
    BY <2>2, <1>12 DEF HandleAssign
  <2>4. Pending /\ ~Pending'
    BY <2>1, ReceivedPending
  <2>5. mailbox[1].parts = assigned /\ mailbox[1].round = round /\ join \in {"assigned", "revoking"}
    BY <2>2 DEF MailboxInv, IsAssign
  <2> QED
    BY <2>2, <2>3, <2>4, <2>5
<1>13. ASSUME NEW p \in Partitions, StartConsumer(p) PROVE MapInv'
  <2>1. /\ task = "assign" /\ p \in todo /\ todo' = todo \ {p}
        /\ UNCHANGED <<group, current, restart, clientVars, mailbox>>
    BY <1>13 DEF StartConsumer
  <2>2. group = "running" /\ current.parts = assigned /\ current.round = round /\ Active = {} /\
          todo \subseteq assigned /\ round # 0
    BY <2>1
  <2>3. CASE todo = {p}
    <3>1. task' = "none" /\ active' = [q \in Partitions |-> IF q \in assigned THEN round ELSE 0]
      BY <2>2, <2>3, <1>13 DEF StartConsumer, Active, TypeOK
    <3>2. Active' = assigned /\ assigned' = assigned
      BY <2>1, <2>2, <3>1 DEF Active, TypeOK
    <3> QED
      BY <2>1, <2>2, <3>1, <3>2
  <2>4. CASE todo # {p}
    <3>1. UNCHANGED <<task, active>>
      BY <2>4, <1>13 DEF StartConsumer
    <3> QED
      BY <2>1, <2>2, <3>1
  <2> QED
    BY <2>3, <2>4
<1>14. ASSUME NEW p \in Partitions, StartFails(p) PROVE MapInv'
  BY <1>14 DEF StartFails, Terminates
<1>15. CASE HandleRevoke
  <2>1. Receive("revoke")
    BY <1>15 DEF HandleRevoke
  <2>2. group = "running" /\ task = "none" /\ Head(mailbox) = mailbox[1] /\ 1 \in Inbox /\
          mailbox[1].kind = "revoke"
    BY <2>1, Received
  <2>3. /\ task' = "revoke" /\ todo' = mailbox[1].parts
        /\ UNCHANGED <<group, current, waiting, restart, restarts, active, consumerVars, clientVars,
                       offsetVars>>
    BY <2>2, <1>15 DEF HandleRevoke
  <2>4. Pending' <=> Pending
    BY <2>1, ReceivedPending
  <2>5. mailbox[1].parts = assigned /\ join = "revoking"
    BY <2>2 DEF MailboxInv, IsRevoke
  <2>6. ~Pending
    <3>1. \A i \in Inbox : IsAssign(i) => i < 1 /\ i \in 1 .. Len(mailbox)
      BY <2>2 DEF MailboxInv, IsRevoke, Inbox
    <3> QED
      BY <3>1 DEF Pending
  <2>7. Active = assigned
    BY <2>2, <2>5, <2>6, ActiveAssigned
  <2> QED
    BY <2>2, <2>3, <2>4, <2>5, <2>6, <2>7
<1>16. CASE HandleExit
  <2>1. Receive("EXIT")
    BY <1>16 DEF HandleExit
  <2>2. group = "running" /\ task = "none" /\ Head(mailbox) = mailbox[1] /\ 1 \in Inbox /\
          mailbox[1].kind = "EXIT"
    BY <2>1, Received
  <2>3. /\ IF Active = {} THEN UNCHANGED <<task, todo, restart>> ELSE Terminates(TRUE)
        /\ UNCHANGED <<group, current, waiting, restarts, active, consumerVars, clientVars,
             offsetVars>>
    BY <2>2, <1>16 DEF HandleExit
  <2>4. Pending' <=> Pending
    BY <2>1, ReceivedPending
  <2> QED
    BY <2>2, <2>3, <2>4 DEF Terminates
<1>17. CASE HandleShutdown
  <2>1. Receive("shutdown")
    BY <1>17 DEF HandleShutdown
  <2>2. group = "running" /\ task = "none" /\ Head(mailbox) = mailbox[1] /\ 1 \in Inbox /\
          mailbox[1].kind = "shutdown"
    BY <2>1, Received
  <2>3. /\ Terminates(FALSE)
        /\ UNCHANGED <<group, current, waiting, restarts, active, consumerVars, clientVars,
             offsetVars>>
    BY <2>2, <1>17 DEF HandleShutdown
  <2>4. Pending' <=> Pending
    BY <2>1, ReceivedPending
  <2> QED
    BY <2>2, <2>3, <2>4 DEF Terminates
<1>18. ASSUME NEW p \in Partitions, StopConsumer(p) PROVE MapInv'
  BY <1>18 DEF StopConsumer, QueueCleanup
<1>19. CASE StopAnswered
  BY <1>19 DEF StopAnswered, QueueCleanup
<1>20. CASE StopTimeout
  BY <1>20 DEF StopTimeout, QueueCleanup
<1>21. CASE RevokeCompleted
  <2>1. Active' = {}
    BY <1>21 DEF RevokeCompleted, Active, NoConsumers
  <2> QED
    BY <2>1, <1>21 DEF RevokeCompleted
<1>22. CASE ConsumerCleanup
  BY <1>22 DEF ConsumerCleanup
<1>23. CASE NotifierRemove
  BY <1>23 DEF NotifierRemove
<1>24. CASE ClientStopped
  <2>1. Active' = {}
    BY <1>24 DEF ClientStopped, GroupEnds, NoConsumers, Active
  <2> QED
    BY <2>1, <1>24 DEF ClientStopped, GroupEnds
<1>25. CASE CloseTimeout
  <2>1. Active' = {}
    BY <1>25 DEF CloseTimeout, GroupEnds, NoConsumers, Active
  <2> QED
    BY <2>1, <1>25 DEF CloseTimeout, GroupEnds
<1>26. CASE Restart
  BY <1>26 DEF Restart, Rewind
<1>27. CASE SendShutdown
  <2>1. group = "running" /\ UNCHANGED <<groupVars, consumerVars, clientVars, offsetVars>>
    BY <1>27 DEF SendShutdown
  <2>2. CASE group # "running"
    BY <2>1, <2>2
  <2>3. CASE group = "running"
    <3>1. Shutdown \in Messages /\ Shutdown.kind # "assign"
      BY MessagesSent DEF Shutdown
    <3>2. mailbox' = Sent(Shutdown)
      BY <2>3, <1>27 DEF SendShutdown, Sent
    <3>3. Pending' <=> Pending
      BY <2>3, <3>1, <3>2, PostedPending
    <3> QED
      BY <2>1, <2>3, <3>3
  <2> QED
    BY <2>2, <2>3
<1>28. CASE ClearAll
  BY <1>28 DEF ClearAll
<1>29. CASE Close
  BY <1>29 DEF Close, Rewind
<1>30. CASE UNCHANGED vars
  BY <1>30 DEF vars
<1> QED
  BY <1>1, <1>2, <1>3, <1>4, <1>5, <1>6, <1>7, <1>8, <1>9, <1>11, <1>12, <1>13, <1>14,
     <1>15, <1>16, <1>17, <1>18, <1>19, <1>20, <1>21, <1>22, <1>23, <1>24, <1>25, <1>26, <1>27,
       <1>28, <1>29, <1>30
  DEF AnyNext, Next, Crash, KillArrives, Rebalance, Group, Closing

\* Consumers are stopped one at a time, and each ends or is killed.
LEMMA StepStop == TypeOK /\ ControlInv /\ MapInv /\ StopInv /\ [AnyNext]_vars => StopInv'
<1> SUFFICES ASSUME TypeOK /\ ControlInv /\ MapInv /\ StopInv, [AnyNext]_vars PROVE StopInv'
  OBVIOUS
<1>b. UNCHANGED active => Active' = Active
  BY DEF Active
<1>d. UNCHANGED active => Consumer(waiting[1])' = <<waiting'[1], active[waiting'[1]]>>
  BY DEF Consumer
<1>e. Consumer(waiting[1]) = <<waiting[1], active[waiting[1]]>>
  BY DEF Consumer
<1> USE <1>b, <1>d, <1>e, ConsumerGroupAssumption DEF ControlInv, StopInv, groupVars,
      consumerVars, clientVars, offsetVars
<1>1. ASSUME NEW parts \in SUBSET Partitions, AssignStarts(parts) PROVE StopInv'
  <2>1. round' = round + 1 /\ UNCHANGED <<groupVars, consumerVars>>
    BY <1>1 DEF AssignStarts
  <2>2. \A c \in told : c[2] \in Nat /\ c[2] <= round /\ round \in Nat
    BY DEF TypeOK, Consumers, Rounds
  <2> QED
    BY <2>1, <2>2
<1>2. ASSUME NEW p \in Partitions, AddQueue(p) PROVE StopInv'
  BY <1>2 DEF AddQueue
<1>3. CASE AssignSent
  BY <1>3 DEF AssignSent, Sent
<1>4. CASE RevokeSent
  BY <1>4 DEF RevokeSent, Sent
<1>5. CASE RevokeRefused
  BY <1>5 DEF RevokeRefused, Rewind
<1>6. ASSUME NEW p \in Partitions, Drop(p) PROVE StopInv'
  BY <1>6 DEF Drop
<1>7. CASE AutoCommit
  BY <1>7 DEF AutoCommit
<1>8. ASSUME NEW c \in Consumers, Deliver(c) PROVE StopInv'
  BY <1>8 DEF Deliver
<1>9. ASSUME NEW c \in Consumers, Dies(c) PROVE StopInv'
  BY <1>9 DEF Dies, Sent
<1>11. ASSUME NEW c \in Consumers, Stops(c) PROVE StopInv'
  <2>1. /\ alive' = alive \ {c} /\ killed' = killed \ {c} /\ replied' = (replied \/ waiting = c)
        /\ UNCHANGED <<groupVars, told, clientVars>> /\ c # Nobody
    BY <1>11 DEF Stops, Nobody, Consumers
  <2> QED
    BY <2>1
<1>12. CASE HandleAssign
  <2>1. /\ task = "none" /\ task' \in {"none", "assign"} /\ waiting = Nobody
        /\ UNCHANGED <<group, waiting, active, consumerVars, clientVars>>
    BY <1>12 DEF HandleAssign, Receive, IsNext
  <2> QED
    BY <2>1
<1>13. ASSUME NEW p \in Partitions, StartConsumer(p) PROVE StopInv'
  <2>1. /\ task = "assign" /\ p \in todo /\ alive' = alive \union {<<p, current.round>>}
        /\ task' \in {"assign", "none"}
        /\ UNCHANGED <<group, waiting, told, killed, replied, clientVars>>
    BY <1>13 DEF StartConsumer
  <2>2. current.round = round /\ p \in assigned /\ group = "running"
    BY <2>1 DEF MapInv
  <2>3. join # "none" /\ waiting = Nobody /\ ~replied
    BY <2>1, <2>2
  <2>4. <<p, round>> \notin told
    <3>1. \A c \in told : c[2] < round /\ round \in Nat /\ c[2] \in Nat
      BY <2>1, <2>2, <2>3 DEF TypeOK, Consumers, Rounds
    <3> QED
      BY <3>1
  <2> QED
    BY <2>1, <2>2, <2>3, <2>4
<1>14. ASSUME NEW p \in Partitions, StartFails(p) PROVE StopInv'
  <2>1. task = "assign" /\ task' = "terminate" /\ UNCHANGED <<group, waiting, active,
          consumerVars, clientVars>>
    BY <1>14 DEF StartFails, Terminates
  <2> QED
    BY <2>1
<1>15. CASE HandleRevoke
  <2>1. task = "none" /\ task' = "revoke" /\ UNCHANGED <<group, waiting, active, consumerVars,
          clientVars>>
    BY <1>15 DEF HandleRevoke, Receive, IsNext
  <2> QED
    BY <2>1
<1>16. CASE HandleExit
  <2>1. /\ task = "none" /\ task' \in {"none", "terminate"}
        /\ UNCHANGED <<group, waiting, active, consumerVars, clientVars>>
    BY <1>16 DEF HandleExit, Receive, IsNext, Terminates
  <2> QED
    BY <2>1
<1>17. CASE HandleShutdown
  <2>1. task = "none" /\ task' = "terminate" /\ UNCHANGED <<group, waiting, active, consumerVars,
          clientVars>>
    BY <1>17 DEF HandleShutdown, Receive, IsNext, Terminates
  <2> QED
    BY <2>1
<1>18. ASSUME NEW p \in Partitions, StopConsumer(p) PROVE StopInv'
  <2>1. /\ task \in {"revoke", "terminate"} /\ waiting = Nobody /\ p \in todo /\ p \in Active
        /\ UNCHANGED <<group, task, active, alive, killed, replied, round, join>>
    BY <1>18 DEF StopConsumer, MapInv
  <2>2. Consumer(p) = <<p, round>> /\ group = "running"
    BY <2>1, ActiveAssigned DEF Consumer
  <2>3. CASE Consumer(p) \in alive
    <3>1. told' = told \union {<<p, round>>} /\ waiting' = <<p, round>> /\ UNCHANGED todo
      BY <2>2, <2>3, <1>18 DEF StopConsumer
    <3>2. <<p, round>>[1] = p /\ <<p, round>>[2] = round /\ <<p, round>> # Nobody /\ round <= round
      BY DEF TypeOK, Nobody
    <3>3. waiting'[1] = p /\ active[p] = round
      BY <2>2, <3>1, <3>2 DEF Consumer
    <3>4. waiting' = Consumer(waiting[1])'
      BY <2>1, <3>1, <3>3
    <3>5. \A c \in alive \intersect told' : c = waiting' \/ c \in killed
      <4>1. \A c \in alive : c # Nobody
        BY DEF TypeOK, Consumers, Nobody
      <4> QED
        BY <2>1, <3>1, <4>1
    <3>6. \A c \in told' : c[2] <= round
      BY <3>1, <3>2
    <3>7. waiting' \in told' /\ waiting'[1] \in todo' /\ ~replied
      BY <2>1, <3>1, <3>3
    <3> QED
      BY <2>1, <2>2, <3>4, <3>5, <3>6, <3>7
  <2>4. CASE Consumer(p) \notin alive
    <3>1. waiting' = Nobody /\ UNCHANGED told
      BY <2>4, <1>18 DEF StopConsumer, QueueCleanup
    <3>2. \A c \in alive : c # Nobody
      BY DEF TypeOK, Consumers, Nobody
    <3> QED
      BY <2>1, <3>1, <3>2
  <2> QED
    BY <2>3, <2>4
<1>19. CASE StopAnswered
  <2>1. /\ waiting # Nobody /\ replied /\ replied' = FALSE /\ waiting' = Nobody
        /\ UNCHANGED <<group, task, active, alive, told, killed, round, join>>
    BY <1>19 DEF StopAnswered, QueueCleanup
  <2> QED
    BY <2>1
<1>20. CASE StopTimeout
  <2>1. /\ waiting # Nobody /\ ~replied /\ waiting' = Nobody
        /\ killed' = killed \union ({waiting} \intersect alive)
        /\ UNCHANGED <<group, task, active, alive, told, replied, round, join>>
    BY <1>20 DEF StopTimeout, QueueCleanup
  <2> QED
    BY <2>1
<1>21. CASE RevokeCompleted
  <2>1. /\ waiting = Nobody /\ join' = "none"
        /\ UNCHANGED <<group, waiting, consumerVars, round>>
    BY <1>21 DEF RevokeCompleted
  <2> QED
    BY <2>1
<1>22. CASE ConsumerCleanup
  <2>1. /\ waiting = Nobody /\ group' = "closing"
        /\ UNCHANGED <<waiting, consumerVars, round>>
    BY <1>22 DEF ConsumerCleanup
  <2> QED
    BY <2>1
<1>23. CASE NotifierRemove
  BY <1>23 DEF NotifierRemove
<1>24. CASE ClientStopped
  <2>1. waiting = Nobody /\ group' \in {"down", "ended"} /\ alive' = {} /\ told' = {} /\
          replied' = FALSE /\ UNCHANGED waiting
    BY <1>24 DEF ClientStopped, GroupEnds
  <2> QED
    BY <2>1
<1>25. CASE CloseTimeout
  <2>1. waiting = Nobody /\ group' \in {"down", "ended"} /\ alive' = {} /\ told' = {} /\
          replied' = FALSE /\ UNCHANGED waiting
    BY <1>25 DEF CloseTimeout, GroupEnds
  <2> QED
    BY <2>1
<1>26. CASE Restart
  <2>1. waiting = Nobody /\ join' = "none" /\ alive = {} /\ told = {} /\ UNCHANGED <<waiting,
          consumerVars>>
    BY <1>26 DEF Restart
  <2>2. group' = "running" /\ ~replied
    BY <2>1, <1>26 DEF Restart
  <2> QED
    BY <2>1, <2>2
<1>27. CASE SendShutdown
  BY <1>27 DEF SendShutdown
<1>28. CASE ClearAll
  BY <1>28 DEF ClearAll
<1>29. CASE Close
  BY <1>29 DEF Close, Rewind
<1>30. CASE UNCHANGED vars
  BY <1>30 DEF vars
<1> QED
  BY <1>1, <1>2, <1>3, <1>4, <1>5, <1>6, <1>7, <1>8, <1>9, <1>11, <1>12, <1>13, <1>14,
     <1>15, <1>16, <1>17, <1>18, <1>19, <1>20, <1>21, <1>22, <1>23, <1>24, <1>25, <1>26, <1>27,
       <1>28, <1>29, <1>30
  DEF AnyNext, Next, Crash, KillArrives, Rebalance, Group, Closing

\* Giving back the queue of one consumer of the map.
LEMMA GivenBack ==
    ASSUME TypeOK, ControlInv, MapInv, QueueInv, task \in {"revoke", "terminate"},
           NEW p \in Active, queue' = [queue EXCEPT ![Consumer(p)] = "destroyed"],
             todo' = todo \ {p},
           UNCHANGED <<group, task, active, client, join, round, assigned, toAdd>>
    PROVE  QueueInv'
<1>1. \A q \in Partitions : Consumer(q)' = Consumer(q)
  BY DEF Consumer
<1>2. \A q \in Active : Consumer(q) \in Consumers
  BY DEF Active, Consumer, Consumers, TypeOK, Rounds
<1>3. Active' = Active /\ p \in Partitions
  BY DEF Active
<1>4. group = "running" /\ join # "assigning"
  BY DEF ControlInv, MapInv
<1>5. \A q \in Active : queue'[Consumer(q)] = IF Consumer(q) = Consumer(p) THEN "destroyed" ELSE queue[Consumer(q)]
  BY <1>2 DEF TypeOK
<1>6. \A q \in Active \ todo' : task = "terminate" => queue'[Consumer(q)] = "destroyed"
  BY <1>5 DEF QueueInv
<1>7. \A q \in Active : q \in Partitions
  BY DEF Active
<1> QED
  BY <1>1, <1>3, <1>4, <1>6, <1>7 DEF QueueInv

\* The queues of what is assigned are taken until the group gives them back.
LEMMA StepQueue == TypeOK /\ ControlInv /\ MapInv /\ StopInv /\ QueueInv /\ [AnyNext]_vars => QueueInv'
<1> SUFFICES ASSUME TypeOK /\ ControlInv /\ MapInv /\ StopInv /\ QueueInv, [AnyNext]_vars
      PROVE QueueInv'
  OBVIOUS
<1>b. UNCHANGED active => Active' = Active
  BY DEF Active
<1>d. \A p \in Active : p \in Partitions
  BY DEF Active
<1>e. UNCHANGED active => \A p \in Partitions : Consumer(p)' = Consumer(p)
  BY DEF Consumer
<1> USE <1>b, <1>d, <1>e, ConsumerGroupAssumption DEF ControlInv, QueueInv, groupVars,
      consumerVars, clientVars, offsetVars
<1>1. ASSUME NEW parts \in SUBSET Partitions, AssignStarts(parts) PROVE QueueInv'
  <2>1. /\ client = "open" /\ join' = "assigning" /\ assigned' = toAdd' /\ queue' = queue
        /\ UNCHANGED groupVars
    BY <1>1 DEF AssignStarts
  <2> QED
    BY <2>1
<1>2. ASSUME NEW p \in Partitions, AddQueue(p) PROVE QueueInv'
  <2>1. /\ join = "assigning" /\ toAdd' = toAdd \ {p} /\ p \in assigned
        /\ queue' = [queue EXCEPT ![<<p, round>>] = "private"]
        /\ UNCHANGED <<groupVars, client, join, round, assigned>>
    BY <1>2 DEF AddQueue, TypeOK
  <2>2. Active = {} \/ group \notin {"running", "closing"}
    BY <2>1 DEF MapInv
  <2>3. \A q \in Partitions : <<q, round>> \in Consumers
    BY <2>1 DEF TypeOK, Consumers, Rounds
  <2>4. \A q \in assigned : queue'[<<q, round>>] = IF q = p THEN "private" ELSE queue[<<q, round>>]
    BY <2>1, <2>3 DEF TypeOK
  <2> QED
    BY <2>1, <2>2, <2>4
<1>3. CASE AssignSent
  BY <1>3 DEF AssignSent, Sent
<1>4. CASE RevokeSent
  BY <1>4 DEF RevokeSent, Sent
<1>5. CASE RevokeRefused
  BY <1>5 DEF RevokeRefused, Rewind
<1>6. ASSUME NEW p \in Partitions, Drop(p) PROVE QueueInv'
  BY <1>6 DEF Drop
<1>7. CASE AutoCommit
  BY <1>7 DEF AutoCommit
<1>8. ASSUME NEW c \in Consumers, Deliver(c) PROVE QueueInv'
  BY <1>8 DEF Deliver
<1>9. ASSUME NEW c \in Consumers, Dies(c) PROVE QueueInv'
  BY <1>9 DEF Dies, Sent
<1>11. ASSUME NEW c \in Consumers, Stops(c) PROVE QueueInv'
  BY <1>11 DEF Stops
<1>12. CASE HandleAssign
  <2>1. /\ task = "none" /\ task' \in {"none", "assign"}
        /\ UNCHANGED <<group, active, clientVars>>
    BY <1>12 DEF HandleAssign, Receive, IsNext
  <2> QED
    BY <2>1
<1>13. ASSUME NEW p \in Partitions, StartConsumer(p) PROVE QueueInv'
  <2>1. task = "assign" /\ task' \in {"none", "assign"} /\ UNCHANGED <<group, clientVars>>
    BY <1>13 DEF StartConsumer
  <2> QED
    BY <2>1
<1>14. ASSUME NEW p \in Partitions, StartFails(p) PROVE QueueInv'
  <2>1. task' = "terminate" /\ todo' = Active /\ UNCHANGED <<group, active, clientVars>>
    BY <1>14 DEF StartFails, Terminates
  <2> QED
    BY <2>1
<1>15. CASE HandleRevoke
  <2>1. task' = "revoke" /\ UNCHANGED <<group, active, clientVars>>
    BY <1>15 DEF HandleRevoke, Receive, IsNext
  <2> QED
    BY <2>1
<1>16. CASE HandleExit
  <2>1. /\ UNCHANGED <<group, active, clientVars>>
        /\ (UNCHANGED task /\ task = "none") \/ (task' = "terminate" /\ todo' = Active)
    BY <1>16 DEF HandleExit, Receive, IsNext, Terminates
  <2> QED
    BY <2>1
<1>17. CASE HandleShutdown
  <2>1. task' = "terminate" /\ todo' = Active /\ UNCHANGED <<group, active, clientVars>>
    BY <1>17 DEF HandleShutdown, Terminates
  <2> QED
    BY <2>1
<1>18. ASSUME NEW p \in Partitions, StopConsumer(p) PROVE QueueInv'
  <2>1. /\ task \in {"revoke", "terminate"} /\ p \in Active /\ UNCHANGED <<group, task, active,
          client, join, round, assigned, toAdd>>
    BY <1>18 DEF StopConsumer, MapInv
  <2>2. CASE UNCHANGED <<queue, todo>>
    BY <2>1, <2>2
  <2>3. CASE todo' = todo \ {p} /\ queue' = [queue EXCEPT ![Consumer(p)] = "destroyed"]
    BY <2>1, <2>3, GivenBack
  <2>4. Consumer(p)[1] = p
    BY DEF Consumer
  <2> QED
    BY <2>2, <2>3, <2>4, <1>18 DEF StopConsumer, QueueCleanup
<1>19. CASE StopAnswered
  <2>1. /\ waiting # Nobody /\ UNCHANGED <<group, task, active, client, join, round, assigned,
          toAdd>>
        /\ queue' = [queue EXCEPT ![waiting] = "destroyed"] /\ todo' = todo \ {waiting[1]}
    BY <1>19 DEF StopAnswered, QueueCleanup
  <2>2. waiting = Consumer(waiting[1]) /\ waiting[1] \in Active /\ task \in {"revoke", "terminate"}
    BY <2>1 DEF StopInv, MapInv
  <2> QED
    BY <2>1, <2>2, GivenBack
<1>20. CASE StopTimeout
  <2>1. /\ waiting # Nobody /\ UNCHANGED <<group, task, active, client, join, round, assigned,
          toAdd>>
        /\ queue' = [queue EXCEPT ![waiting] = "destroyed"] /\ todo' = todo \ {waiting[1]}
    BY <1>20 DEF StopTimeout, QueueCleanup
  <2>2. waiting = Consumer(waiting[1]) /\ waiting[1] \in Active /\ task \in {"revoke", "terminate"}
    BY <2>1 DEF StopInv, MapInv
  <2> QED
    BY <2>1, <2>2, GivenBack
<1>21. CASE RevokeCompleted
  <2>1. task' = "none" /\ join' = "none" /\ group = "running" /\ UNCHANGED group
    BY <1>21 DEF RevokeCompleted
  <2> QED
    BY <2>1
<1>22. CASE ConsumerCleanup
  <2>1. /\ task = "terminate" /\ todo = {} /\ task' = "none" /\ group' = "closing"
        /\ UNCHANGED <<active, join, round, assigned, toAdd, queue>>
    BY <1>22 DEF ConsumerCleanup
  <2> QED
    BY <2>1
<1>23. CASE NotifierRemove
  BY <1>23 DEF NotifierRemove
<1>24. CASE ClientStopped
  <2>1. join # "assigning" /\ group' \in {"down", "ended"} /\ UNCHANGED <<task, join>> /\
          task = "none"
    BY <1>24 DEF ClientStopped, GroupEnds
  <2> QED
    BY <2>1
<1>25. CASE CloseTimeout
  <2>1. join # "assigning" /\ group' \in {"down", "ended"} /\ UNCHANGED <<task, join>> /\
          task = "none"
    BY <1>25 DEF CloseTimeout, GroupEnds
  <2> QED
    BY <2>1
<1>26. CASE Restart
  <2>1. join' = "none" /\ group' = "running" /\ UNCHANGED task /\ task = "none"
    BY <1>26 DEF Restart
  <2> QED
    BY <2>1
<1>27. CASE SendShutdown
  BY <1>27 DEF SendShutdown
<1>28. CASE ClearAll
  <2>1. /\ client = "closing" /\ client' = "cleared" /\ UNCHANGED <<groupVars, join, round,
          assigned, toAdd>>
        /\ queue' = [c \in Consumers |-> IF queue[c] = "private" THEN "forwarded" ELSE queue[c]]
    BY <1>28 DEF ClearAll
  <2>2. \A p \in Active : Consumer(p) \in Consumers
    BY DEF Active, Consumer, Consumers, TypeOK, Rounds
  <2> QED
    BY <2>1, <2>2
<1>29. CASE Close
  BY <1>29 DEF Close, Rewind
<1>30. CASE UNCHANGED vars
  BY <1>30 DEF vars
<1> QED
  BY <1>1, <1>2, <1>3, <1>4, <1>5, <1>6, <1>7, <1>8, <1>9, <1>11, <1>12, <1>13, <1>14,
     <1>15, <1>16, <1>17, <1>18, <1>19, <1>20, <1>21, <1>22, <1>23, <1>24, <1>25, <1>26, <1>27,
       <1>28, <1>29, <1>30
  DEF AnyNext, Next, Crash, KillArrives, Rebalance, Group, Closing

\* Giving back the queue of one consumer leaves the others theirs.
LEMMA GivenBackOwn ==
    ASSUME TypeOK, OwnInv, NEW q \in alive' \ told', NEW c, NEW p, c = <<p, round>>,
      c \notin alive \ told,
           task \in {"revoke", "terminate"},
           queue' = [queue EXCEPT ![c] = "destroyed"], todo' = todo \ {c[1]},
           UNCHANGED <<alive, told>>
    PROVE  queue'[q] = "private" /\ q[1] \in todo'
<1>1. q \in alive \ told /\ q \in Consumers /\ q # c
  BY DEF TypeOK
<1>2. q = <<q[1], q[2]>> /\ c[1] = p
  BY <1>1 DEF Consumers
<1>3. q[2] = round /\ q[1] \in todo /\ queue[q] = "private"
  BY <1>1 DEF OwnInv
<1> QED
  BY <1>1, <1>2, <1>3 DEF TypeOK

\* A consumer that was not told to stop has its partition, and its queue.
LEMMA StepOwn == TypeOK /\ ControlInv /\ MailboxInv /\ MapInv /\ StopInv /\ OwnInv /\ QueueInv /\
  ~InitFails /\ [AnyNext]_vars => OwnInv'
<1> SUFFICES ASSUME TypeOK /\ ControlInv /\ MailboxInv /\ MapInv /\ StopInv /\ OwnInv /\
      QueueInv /\ ~InitFails, [AnyNext]_vars PROVE OwnInv'
  OBVIOUS
<1>b. UNCHANGED active => Active' = Active
  BY DEF Active
<1> USE <1>b, ConsumerGroupAssumption DEF ControlInv, OwnInv, groupVars, consumerVars,
      clientVars, offsetVars
<1>1. ASSUME NEW parts \in SUBSET Partitions, AssignStarts(parts) PROVE OwnInv'
  <2>1. join = "none" /\ alive' = alive /\ told' = told
    BY <1>1 DEF AssignStarts
  <2> QED
    BY <2>1
<1>2. ASSUME NEW p \in Partitions, AddQueue(p) PROVE OwnInv'
  <2>1. join = "assigning" /\ alive' = alive /\ told' = told
    BY <1>2 DEF AddQueue
  <2> QED
    BY <2>1
<1>3. CASE AssignSent
  <2>1. join = "assigning" /\ alive' = alive /\ told' = told
    BY <1>3 DEF AssignSent
  <2> QED
    BY <2>1
<1>4. CASE RevokeSent
  <2>1. /\ join' = "revoking" /\ alive' = alive /\ told' = told
        /\ UNCHANGED <<groupVars, client, round, assigned, queue>>
    BY <1>4 DEF RevokeSent
  <2> QED
    BY <2>1
<1>5. CASE RevokeRefused
  <2>1. client = "stopping" /\ alive' = alive /\ told' = told
    BY <1>5 DEF RevokeRefused
  <2> QED
    BY <2>1
<1>6. ASSUME NEW p \in Partitions, Drop(p) PROVE OwnInv'
  <2>1. UNCHANGED <<groupVars, consumerVars, clientVars>>
    BY <1>6 DEF Drop
  <2> QED
    BY <2>1
<1>7. CASE AutoCommit
  BY <1>7 DEF AutoCommit
<1>8. ASSUME NEW c \in Consumers, Deliver(c) PROVE OwnInv'
  <2>1. UNCHANGED <<groupVars, consumerVars, clientVars>>
    BY <1>8 DEF Deliver
  <2> QED
    BY <2>1
<1>9. ASSUME NEW c \in Consumers, Dies(c) PROVE OwnInv'
  <2>1. told' = told /\ alive' = alive \ {c} /\ UNCHANGED <<groupVars, clientVars>>
    BY <1>9 DEF Dies
  <2> QED
    BY <2>1
<1>11. ASSUME NEW c \in Consumers, Stops(c) PROVE OwnInv'
  <2>1. told' = told /\ alive' = alive \ {c} /\ UNCHANGED <<groupVars, clientVars>>
    BY <1>11 DEF Stops
  <2> QED
    BY <2>1
<1>12. CASE HandleAssign
  <2>1. Receive("assign") /\ UNCHANGED consumerVars
    BY <1>12 DEF HandleAssign
  <2>2. Active = {} /\ task = "none" /\ group = "running"
    BY <2>1, Received, ReceivedPending DEF MapInv
  <2> QED
    BY <2>1, <2>2
<1>13. ASSUME NEW p \in Partitions, StartConsumer(p) PROVE OwnInv'
  <2>1. /\ task = "assign" /\ p \in todo /\ todo' = todo \ {p} /\ alive' = alive \union {<<p,
          current.round>>}
        /\ UNCHANGED <<current, told, clientVars>>
    BY <1>13 DEF StartConsumer
  <2>2. /\ group = "running" /\ current.parts = assigned /\ current.round = round /\ p \in assigned
        /\ join \in {"assigned", "revoking"}
    BY <2>1 DEF MapInv, TypeOK, JoinStates
  <2>3. <<p, round>>[1] = p /\ <<p, round>>[2] = round /\ queue[<<p, round>>] = "private" /\
          client = "open" /\ round # 0
    BY <2>1, <2>2 DEF QueueInv
  <2>4. \A c \in alive' \ told' : c \in alive \ told \/ c = <<p, round>>
    BY <2>1, <2>2
  <2>5. CASE todo = {p}
    <3>1. task' = "none" /\
            active' = [q \in Partitions |-> IF q \in current.parts THEN current.round ELSE active[q]]
      BY <2>5, <1>13 DEF StartConsumer
    <3>2. Active' # {}
      BY <2>2, <2>3, <3>1 DEF Active, TypeOK
    <3> QED
      BY <2>1, <2>2, <2>3, <2>4, <3>1, <3>2
  <2>6. CASE todo # {p}
    <3>1. UNCHANGED task
      BY <2>6, <1>13 DEF StartConsumer
    <3> QED
      BY <2>1, <2>2, <2>3, <2>4, <3>1
  <2> QED
    BY <2>5, <2>6
<1>14. ASSUME NEW p \in Partitions, StartFails(p) PROVE OwnInv'
  <2>1. FALSE
    BY <1>14 DEF StartFails
  <2> QED
    BY <2>1
<1>15. CASE HandleRevoke
  <2>1. Receive("revoke") /\ todo' = Head(mailbox).parts /\ task' = "revoke" /\
          UNCHANGED <<active, consumerVars, clientVars>>
    BY <1>15 DEF HandleRevoke
  <2>2. group = "running" /\ Head(mailbox) = mailbox[1] /\ 1 \in Inbox /\
          mailbox[1].kind = "revoke" /\ task = "none"
    BY <2>1, Received
  <2>3. mailbox[1].parts = assigned
    BY <2>2 DEF MailboxInv, IsRevoke
  <2> QED
    BY <2>1, <2>2, <2>3
<1>16. CASE HandleExit
  <2>1. /\ task = "none" /\ UNCHANGED <<active, consumerVars, clientVars>> /\ group = "running"
        /\ UNCHANGED <<task, todo>> \/ (task' = "terminate" /\ todo' = Active)
    BY <1>16 DEF HandleExit, Receive, IsNext, Terminates
  <2>2. Active # {} => Active = assigned
    BY <2>1, ActiveAssigned
  <2> QED
    BY <2>1, <2>2
<1>17. CASE HandleShutdown
  <2>1. /\ task = "none" /\ UNCHANGED <<active, consumerVars, clientVars>> /\ group = "running"
        /\ task' = "terminate" /\ todo' = Active
    BY <1>17 DEF HandleShutdown, Receive, IsNext, Terminates
  <2>2. Active # {} => Active = assigned
    BY <2>1, ActiveAssigned
  <2> QED
    BY <2>1, <2>2
<1>18. ASSUME NEW p \in Partitions, StopConsumer(p) PROVE OwnInv'
  <2>1. /\ task \in {"revoke", "terminate"} /\ p \in Active
        /\ UNCHANGED <<task, active, alive, client, join, round, assigned>>
    BY <1>18 DEF StopConsumer, MapInv
  <2>2. Consumer(p) = <<p, round>> /\ group = "running"
    BY <2>1, ActiveAssigned DEF Consumer
  <2>3. CASE Consumer(p) \in alive
    <3>1. told' = told \union {Consumer(p)} /\ UNCHANGED <<queue, todo>>
      BY <2>3, <1>18 DEF StopConsumer
    <3> QED
      BY <2>1, <3>1
  <2>4. CASE Consumer(p) \notin alive
    <3>1. UNCHANGED told /\ todo' = todo \ {Consumer(p)[1]} /\
            queue' = [queue EXCEPT ![Consumer(p)] = "destroyed"]
      BY <2>4, <1>18 DEF StopConsumer, QueueCleanup
    <3> QED
      BY <2>1, <2>2, <2>4, <3>1, GivenBackOwn
  <2> QED
    BY <2>3, <2>4
<1>19. CASE StopAnswered
  <2>1. /\ waiting # Nobody /\ UNCHANGED <<task, active, alive, told, client, join, round,
          assigned>>
        /\ queue' = [queue EXCEPT ![waiting] = "destroyed"] /\ todo' = todo \ {waiting[1]}
    BY <1>19 DEF StopAnswered, QueueCleanup
  <2>2. /\ waiting = Consumer(waiting[1]) /\ waiting[1] \in Active /\ task \in {"revoke",
          "terminate"}
        /\ waiting \in told
    BY <2>1 DEF StopInv, MapInv
  <2>3. Consumer(waiting[1]) = <<waiting[1], round>>
    BY <2>2, ActiveAssigned DEF Consumer
  <2> QED
    BY <2>1, <2>2, <2>3, GivenBackOwn
<1>20. CASE StopTimeout
  <2>1. /\ waiting # Nobody /\ UNCHANGED <<task, active, alive, told, client, join, round,
          assigned>>
        /\ queue' = [queue EXCEPT ![waiting] = "destroyed"] /\ todo' = todo \ {waiting[1]}
    BY <1>20 DEF StopTimeout, QueueCleanup
  <2>2. /\ waiting = Consumer(waiting[1]) /\ waiting[1] \in Active /\ task \in {"revoke",
          "terminate"}
        /\ waiting \in told
    BY <2>1 DEF StopInv, MapInv
  <2>3. Consumer(waiting[1]) = <<waiting[1], round>>
    BY <2>2, ActiveAssigned DEF Consumer
  <2> QED
    BY <2>1, <2>2, <2>3, GivenBackOwn
<1>21. CASE RevokeCompleted
  <2>1. task = "revoke" /\ todo = {} /\ UNCHANGED consumerVars
    BY <1>21 DEF RevokeCompleted
  <2> QED
    BY <2>1
<1>22. CASE ConsumerCleanup
  <2>1. task = "terminate" /\ todo = {} /\ UNCHANGED consumerVars
    BY <1>22 DEF ConsumerCleanup
  <2> QED
    BY <2>1
<1>23. CASE NotifierRemove
  <2>1. client = "stopping" /\ alive' = alive /\ told' = told
    BY <1>23 DEF NotifierRemove
  <2> QED
    BY <2>1
<1>24. CASE ClientStopped
  <2>1. alive' = {}
    BY <1>24 DEF ClientStopped, GroupEnds
  <2> QED
    BY <2>1
<1>25. CASE CloseTimeout
  <2>1. alive' = {}
    BY <1>25 DEF CloseTimeout, GroupEnds
  <2> QED
    BY <2>1
<1>26. CASE Restart
  <2>1. alive' = {}
    BY <1>26 DEF Restart, StopInv
  <2> QED
    BY <2>1
<1>27. CASE SendShutdown
  <2>1. UNCHANGED <<groupVars, consumerVars, clientVars>>
    BY <1>27 DEF SendShutdown
  <2> QED
    BY <2>1
<1>28. CASE ClearAll
  <2>1. client = "closing" /\ alive' = alive /\ told' = told
    BY <1>28 DEF ClearAll
  <2> QED
    BY <2>1
<1>29. CASE Close
  <2>1. client = "cleared" /\ alive' = alive /\ told' = told
    BY <1>29 DEF Close
  <2> QED
    BY <2>1
<1>30. CASE UNCHANGED vars
  BY <1>30 DEF vars
<1> QED
  BY <1>1, <1>2, <1>3, <1>4, <1>5, <1>6, <1>7, <1>8, <1>9, <1>11, <1>12, <1>13, <1>14,
     <1>15, <1>16, <1>17, <1>18, <1>19, <1>20, <1>21, <1>22, <1>23, <1>24, <1>25, <1>26, <1>27,
       <1>28, <1>29, <1>30
  DEF AnyNext, Next, Crash, KillArrives, Rebalance, Group, Closing

\* A crash reaches the group before the next assignment.
LEMMA StepExit == TypeOK /\ ControlInv /\ MailboxInv /\ MapInv /\ StopInv /\ OwnInv /\ ExitInv /\
  [AnyNext]_vars => ExitInv'
<1> SUFFICES ASSUME TypeOK /\ ControlInv /\ MailboxInv /\ MapInv /\ StopInv /\ OwnInv /\ ExitInv,
      [AnyNext]_vars PROVE ExitInv'
  OBVIOUS
<1>a. UNCHANGED mailbox => Inbox' = Inbox
  BY DEF Inbox
<1>b. UNCHANGED active => Active' = Active
  BY DEF Active
<1>f. \A i \in Inbox : i \in Nat \ {0}
  BY DEF Inbox
<1> USE <1>a, <1>b, <1>f, ConsumerGroupAssumption DEF ControlInv, ExitInv, IsCrash, IsAssign,
         groupVars, consumerVars, clientVars, offsetVars
<1>1. ASSUME NEW parts \in SUBSET Partitions, AssignStarts(parts) PROVE ExitInv'
  <2>1. client = "open" /\ join = "none" /\ UNCHANGED <<groupVars, mailbox>>
    BY <1>1 DEF AssignStarts
  <2>2. Active = {} /\ task # "assign"
    BY <2>1 DEF MapInv
  <2> QED
    BY <2>1, <2>2
<1>2. ASSUME NEW p \in Partitions, AddQueue(p) PROVE ExitInv'
  BY <1>2 DEF AddQueue
<1>3. CASE AssignSent
  <2>1. /\ join = "assigning" /\ toAdd = {} /\ join' = "assigned"
        /\ UNCHANGED <<groupVars, consumerVars, client, round, assigned, toAdd, queue, offsetVars>>
    BY <1>3 DEF AssignSent
  <2>2. CASE group # "running"
    BY <2>1, <2>2
  <2>3. CASE group = "running"
    <3>1. Assign(assigned, round) \in Messages
      BY <2>1, MessagesSent DEF TypeOK, Rounds
    <3>2. mailbox' = Append(mailbox, Assign(assigned, round))
      BY <2>3, <1>3 DEF AssignSent, Sent
    <3>3. /\ \A i \in Inbox' : (i \in Inbox /\ mailbox'[i] = mailbox[i])
                               \/ (i = Len(mailbox) + 1 /\ mailbox'[i] = Assign(assigned, round))
          /\ \A i \in Inbox : i < Len(mailbox) + 1
      BY <3>1, <3>2, Posted
    <3> QED
      BY <2>1, <2>3, <3>3 DEF Assign
  <2> QED
    BY <2>2, <2>3
<1>4. CASE RevokeSent
  <2>1. /\ client = "open" /\ join = "assigned" /\ join' = "revoking"
        /\ UNCHANGED <<groupVars, consumerVars, client, round, assigned, toAdd, queue, offsetVars>>
    BY <1>4 DEF RevokeSent
  <2>2. CASE group # "running"
    BY <2>1, <2>2
  <2>3. CASE group = "running"
    <3>1. Revoke(assigned) \in Messages
      BY MessagesSent DEF TypeOK, Rounds
    <3>2. mailbox' = Append(mailbox, Revoke(assigned))
      BY <2>3, <1>4 DEF RevokeSent, Sent
    <3>3. /\ \A i \in Inbox' : (i \in Inbox /\ mailbox'[i] = mailbox[i])
                               \/ (i = Len(mailbox) + 1 /\ mailbox'[i] = Revoke(assigned))
          /\ \A i \in Inbox : i < Len(mailbox) + 1
      BY <3>1, <3>2, Posted
    <3> QED
      BY <2>1, <2>3, <3>3 DEF Revoke
  <2> QED
    BY <2>2, <2>3
<1>5. CASE RevokeRefused
  <2>1. client = "stopping" /\ UNCHANGED group
    BY <1>5 DEF RevokeRefused
  <2> QED
    BY <2>1
<1>6. ASSUME NEW p \in Partitions, Drop(p) PROVE ExitInv'
  BY <1>6 DEF Drop
<1>7. CASE AutoCommit
  BY <1>7 DEF AutoCommit
<1>8. ASSUME NEW c \in Consumers, Deliver(c) PROVE ExitInv'
  BY <1>8 DEF Deliver
<1>9. ASSUME NEW c \in Consumers, Dies(c) PROVE ExitInv'
  <2>1. UNCHANGED <<groupVars, told, replied, clientVars, offsetVars>> /\ alive' = alive \ {c}
        /\ killed' = killed \ {c} /\ c \in alive
    BY <1>9 DEF Dies
  <2>2. CASE group # "running"
    BY <2>1, <2>2
  <2>3. CASE group = "running"
    <3>1. ExitOf(c, Cause(c)) \in Messages
      BY MessagesSent DEF TypeOK, Rounds
    <3>2. mailbox' = Append(mailbox, ExitOf(c, Cause(c)))
      BY <2>3, <1>9 DEF Dies, Sent
    <3>3. /\ \A i \in Inbox' : (i \in Inbox /\ mailbox'[i] = mailbox[i])
                               \/ (i = Len(mailbox) + 1 /\ mailbox'[i] = ExitOf(c, Cause(c)))
          /\ \A i \in Inbox : i < Len(mailbox) + 1
      BY <3>1, <3>2, Posted
    <3>4. ASSUME Cause(c) = "error"
          PROVE  /\ \A j \in Inbox : ~IsAssign(j)
                 /\ c[2] = round /\ c[1] \in assigned
      <4>1. c \in alive /\ c \notin killed
        BY <1>9, <3>4 DEF Dies, Cause
      <4>2. CASE c \notin told
        <5>1. c[2] = round /\ c[1] \in assigned /\ (task # "assign" => Active # {})
          BY <4>1, <4>2 DEF OwnInv
        <5>2. ~Pending
          BY <2>3, <5>1 DEF MapInv
        <5> QED
          BY <5>1, <5>2 DEF Pending
      <4>3. CASE c \in told
        <5>1. c = waiting /\ waiting # Nobody
          BY <4>1, <4>3 DEF StopInv, Nobody, Consumers
        <5>2. c = Consumer(c[1]) /\ c[1] \in Active
          BY <5>1 DEF StopInv, MapInv
        <5>3. Active = assigned /\ active[c[1]] = round
          BY <2>3, <5>2, ActiveAssigned
        <5>4. ~Pending
          BY <2>3, <5>2 DEF MapInv
        <5>5. c[2] = active[c[1]]
          BY <5>2 DEF Consumer
        <5> QED
          BY <5>2, <5>3, <5>4, <5>5 DEF Pending
      <4> QED
        BY <4>2, <4>3
    <3> QED
      BY <2>1, <2>3, <3>3, <3>4 DEF ExitOf
  <2> QED
    BY <2>2, <2>3
<1>11. ASSUME NEW c \in Consumers, Stops(c) PROVE ExitInv'
  BY <1>11 DEF Stops
<1>12. CASE HandleAssign
  <2>1. Receive("assign")
    BY <1>12 DEF HandleAssign
  <2>2. /\ group = "running" /\ task = "none" /\ Head(mailbox) = mailbox[1]
        /\ 1 \in Inbox /\ mailbox[1].kind = "assign"
        /\ \A i \in Inbox' : /\ i \in Nat \ {0} /\ i + 1 \in Inbox
                             /\ mailbox'[i] = mailbox[i + 1]
    BY <2>1, Received
  <2>3. /\ task' = IF mailbox[1].parts = {} THEN "none" ELSE "assign"
        /\ todo' = mailbox[1].parts /\ current' = mailbox[1]
        /\ UNCHANGED <<group, waiting, restart, restarts, active, consumerVars, clientVars,
             offsetVars>>
    BY <2>2, <1>12 DEF HandleAssign
  <2>4. \A i \in Inbox' : ~IsCrash(i)'
    BY <2>2
  <2> QED
    BY <2>2, <2>3, <2>4
<1>13. ASSUME NEW p \in Partitions, StartConsumer(p) PROVE ExitInv'
  <2>1. task = "assign" /\ UNCHANGED <<group, mailbox, clientVars>>
    BY <1>13 DEF StartConsumer
  <2> QED
    BY <2>1
<1>14. ASSUME NEW p \in Partitions, StartFails(p) PROVE ExitInv'
  <2>1. task = "assign" /\ UNCHANGED <<group, mailbox, clientVars>>
    BY <1>14 DEF StartFails
  <2> QED
    BY <2>1
<1>15. CASE HandleRevoke
  <2>1. Receive("revoke")
    BY <1>15 DEF HandleRevoke
  <2>2. /\ group = "running" /\ task = "none" /\ Head(mailbox) = mailbox[1]
        /\ 1 \in Inbox /\ mailbox[1].kind = "revoke"
        /\ \A i \in Inbox' : /\ i \in Nat \ {0} /\ i + 1 \in Inbox
                             /\ mailbox'[i] = mailbox[i + 1]
    BY <2>1, Received
  <2>3. /\ task' = "revoke" /\ todo' = mailbox[1].parts
        /\ UNCHANGED <<group, current, waiting, restart, restarts, active, consumerVars, clientVars,
                       offsetVars>>
    BY <2>2, <1>15 DEF HandleRevoke
  <2> QED
    BY <2>2, <2>3
<1>16. CASE HandleExit
  <2>1. Receive("EXIT")
    BY <1>16 DEF HandleExit
  <2>2. /\ group = "running" /\ task = "none" /\ Head(mailbox) = mailbox[1]
        /\ 1 \in Inbox /\ mailbox[1].kind = "EXIT"
        /\ \A i \in Inbox' : /\ i \in Nat \ {0} /\ i + 1 \in Inbox
                             /\ mailbox'[i] = mailbox[i + 1]
    BY <2>1, Received
  <2>3. /\ IF Active = {} THEN UNCHANGED <<task, todo, restart>> ELSE Terminates(TRUE)
        /\ UNCHANGED <<group, current, waiting, restarts, active, consumerVars, clientVars,
             offsetVars>>
    BY <2>2, <1>16 DEF HandleExit
  <2>4. task' # "assign"
    BY <2>2, <2>3 DEF Terminates
  <2> QED
    BY <2>2, <2>3, <2>4
<1>17. CASE HandleShutdown
  <2>1. Receive("shutdown")
    BY <1>17 DEF HandleShutdown
  <2>2. /\ group = "running" /\ task = "none" /\ Head(mailbox) = mailbox[1]
        /\ 1 \in Inbox /\ mailbox[1].kind = "shutdown"
        /\ \A i \in Inbox' : /\ i \in Nat \ {0} /\ i + 1 \in Inbox
                             /\ mailbox'[i] = mailbox[i + 1]
    BY <2>1, Received
  <2>3. /\ Terminates(FALSE)
        /\ UNCHANGED <<group, current, waiting, restarts, active, consumerVars, clientVars,
             offsetVars>>
    BY <2>2, <1>17 DEF HandleShutdown
  <2>4. task' # "assign"
    BY <2>2, <2>3 DEF Terminates
  <2> QED
    BY <2>2, <2>3, <2>4
<1>18. ASSUME NEW p \in Partitions, StopConsumer(p) PROVE ExitInv'
  <2>1. UNCHANGED <<group, task, active, mailbox, round, assigned>>
    BY <1>18 DEF StopConsumer
  <2> QED
    BY <2>1
<1>19. CASE StopAnswered
  BY <1>19 DEF StopAnswered, QueueCleanup
<1>20. CASE StopTimeout
  BY <1>20 DEF StopTimeout, QueueCleanup
<1>21. CASE RevokeCompleted
  <2>1. Active' = {} /\ task' = "none" /\ UNCHANGED <<group, mailbox>>
    BY <1>21 DEF RevokeCompleted, Active, NoConsumers
  <2> QED
    BY <2>1
<1>22. CASE ConsumerCleanup
  <2>1. group' = "closing"
    BY <1>22 DEF ConsumerCleanup
  <2> QED
    BY <2>1
<1>23. CASE NotifierRemove
  BY <1>23 DEF NotifierRemove
<1>24. CASE ClientStopped
  <2>1. group' # "running"
    BY <1>24 DEF ClientStopped, GroupEnds
  <2> QED
    BY <2>1
<1>25. CASE CloseTimeout
  <2>1. group' # "running"
    BY <1>25 DEF CloseTimeout, GroupEnds
  <2> QED
    BY <2>1
<1>26. CASE Restart
  <2>1. Inbox' = {}
    BY <1>26 DEF Restart, Inbox
  <2> QED
    BY <2>1
<1>27. CASE SendShutdown
  <2>1. group = "running" /\ UNCHANGED <<groupVars, consumerVars, clientVars, offsetVars>>
    BY <1>27 DEF SendShutdown
  <2>2. CASE group # "running"
    BY <2>1, <2>2
  <2>3. CASE group = "running"
    <3>1. Shutdown \in Messages
      BY MessagesSent DEF TypeOK, Rounds
    <3>2. mailbox' = Append(mailbox, Shutdown)
      BY <2>3, <1>27 DEF SendShutdown, Sent
    <3>3. /\ \A i \in Inbox' : (i \in Inbox /\ mailbox'[i] = mailbox[i])
                               \/ (i = Len(mailbox) + 1 /\ mailbox'[i] = Shutdown)
          /\ \A i \in Inbox : i < Len(mailbox) + 1
      BY <3>1, <3>2, Posted
    <3> QED
      BY <2>1, <2>3, <3>3 DEF Shutdown
  <2> QED
    BY <2>2, <2>3
<1>28. CASE ClearAll
  BY <1>28 DEF ClearAll
<1>29. CASE Close
  <2>1. client = "cleared" /\ UNCHANGED group
    BY <1>29 DEF Close
  <2> QED
    BY <2>1
<1>30. CASE UNCHANGED vars
  BY <1>30 DEF vars
<1> QED
  BY <1>1, <1>2, <1>3, <1>4, <1>5, <1>6, <1>7, <1>8, <1>9, <1>11, <1>12, <1>13, <1>14,
     <1>15, <1>16, <1>17, <1>18, <1>19, <1>20, <1>21, <1>22, <1>23, <1>24, <1>25, <1>26, <1>27,
       <1>28, <1>29, <1>30
  DEF AnyNext, Next, Crash, KillArrives, Rebalance, Group, Closing

\* The end of one stop leaves the others in the list.
LEMMA GivenBackRound ==
    ASSUME TypeOK, RoundInv, NEW q \in alive \ told, NEW c, NEW p, c = <<p, round>>,
      c \notin alive \ told,
           task = "revoke", todo' = todo \ {c[1]}
    PROVE  q[1] \in todo'
<1>1. q \in Consumers /\ q # c
  BY DEF TypeOK
<1>2. q = <<q[1], q[2]>> /\ c[1] = p
  BY <1>1 DEF Consumers
<1>3. q[2] = round /\ q[1] \in todo
  BY DEF RoundInv
<1> QED
  BY <1>1, <1>2, <1>3

\* A new assignment finds no consumer of an earlier one that was not told to stop.
LEMMA StepRound == TypeOK /\ ControlInv /\ MailboxInv /\ MapInv /\ StopInv /\ RoundInv /\
  [AnyNext]_vars => RoundInv'
<1> SUFFICES ASSUME TypeOK /\ ControlInv /\ MailboxInv /\ MapInv /\ StopInv /\ RoundInv,
      [AnyNext]_vars PROVE RoundInv'
  OBVIOUS
<1>b. UNCHANGED active => Active' = Active
  BY DEF Active
<1> USE <1>b, ConsumerGroupAssumption DEF ControlInv, RoundInv, groupVars, consumerVars,
      clientVars, offsetVars
<1>1. ASSUME NEW parts \in SUBSET Partitions, AssignStarts(parts) PROVE RoundInv'
  <2>1. client = "open" /\ join = "none" /\ alive' = alive /\ told' = told
    BY <1>1 DEF AssignStarts
  <2> QED
    BY <2>1
<1>2. ASSUME NEW p \in Partitions, AddQueue(p) PROVE RoundInv'
  <2>1. UNCHANGED <<groupVars, consumerVars, client, join, round, assigned>>
    BY <1>2 DEF AddQueue
  <2> QED
    BY <2>1
<1>3. CASE AssignSent
  <2>1. join' = "assigned" /\ join = "assigning" /\ UNCHANGED <<groupVars, consumerVars, client,
          round, assigned>>
    BY <1>3 DEF AssignSent
  <2> QED
    BY <2>1
<1>4. CASE RevokeSent
  <2>1. join' = "revoking" /\ UNCHANGED <<groupVars, consumerVars, client, round, assigned>>
    BY <1>4 DEF RevokeSent
  <2> QED
    BY <2>1
<1>5. CASE RevokeRefused
  <2>1. client = "stopping" /\ UNCHANGED <<groupVars, consumerVars, client, round>>
    BY <1>5 DEF RevokeRefused
  <2> QED
    BY <2>1
<1>6. ASSUME NEW p \in Partitions, Drop(p) PROVE RoundInv'
  <2>1. UNCHANGED <<groupVars, consumerVars, clientVars>>
    BY <1>6 DEF Drop
  <2> QED
    BY <2>1
<1>7. CASE AutoCommit
  BY <1>7 DEF AutoCommit
<1>8. ASSUME NEW c \in Consumers, Deliver(c) PROVE RoundInv'
  <2>1. UNCHANGED <<groupVars, consumerVars, clientVars>>
    BY <1>8 DEF Deliver
  <2> QED
    BY <2>1
<1>9. ASSUME NEW c \in Consumers, Dies(c) PROVE RoundInv'
  <2>1. told' = told /\ alive' = alive \ {c} /\ UNCHANGED <<groupVars, clientVars>>
    BY <1>9 DEF Dies
  <2> QED
    BY <2>1
<1>11. ASSUME NEW c \in Consumers, Stops(c) PROVE RoundInv'
  <2>1. told' = told /\ alive' = alive \ {c} /\ UNCHANGED <<groupVars, clientVars>>
    BY <1>11 DEF Stops
  <2> QED
    BY <2>1
<1>12. CASE HandleAssign
  <2>1. Receive("assign") /\ UNCHANGED consumerVars
    BY <1>12 DEF HandleAssign
  <2>2. Active = {} /\ task = "none" /\ group = "running"
    BY <2>1, Received, ReceivedPending DEF MapInv
  <2> QED
    BY <2>1, <2>2
<1>13. ASSUME NEW p \in Partitions, StartConsumer(p) PROVE RoundInv'
  <2>1. /\ task = "assign" /\ p \in todo /\ todo' = todo \ {p} /\ alive' = alive \union {<<p,
          current.round>>}
        /\ UNCHANGED <<current, told, clientVars>>
    BY <1>13 DEF StartConsumer
  <2>2. /\ group = "running" /\ current.parts = assigned /\ current.round = round /\ p \in assigned
        /\ join \in {"assigned", "revoking"}
    BY <2>1 DEF MapInv, TypeOK, JoinStates
  <2>3. <<p, round>>[1] = p /\ <<p, round>>[2] = round /\ round # 0
    BY <2>2
  <2>4. \A c \in alive' \ told' : c \in alive \ told \/ c = <<p, round>>
    BY <2>1, <2>2
  <2>5. CASE todo = {p}
    <3>1. task' = "none" /\
            active' = [q \in Partitions |-> IF q \in current.parts THEN current.round ELSE active[q]]
      BY <2>5, <1>13 DEF StartConsumer
    <3>2. Active' # {}
      BY <2>2, <2>3, <3>1 DEF Active, TypeOK
    <3> QED
      BY <2>1, <2>2, <2>3, <2>4, <3>1, <3>2
  <2>6. CASE todo # {p}
    <3>1. UNCHANGED task
      BY <2>6, <1>13 DEF StartConsumer
    <3> QED
      BY <2>1, <2>2, <2>3, <2>4, <3>1
  <2> QED
    BY <2>5, <2>6
<1>14. ASSUME NEW p \in Partitions, StartFails(p) PROVE RoundInv'
  <2>1. task' = "terminate" /\ UNCHANGED <<group, active, consumerVars, clientVars>>
    BY <1>14 DEF StartFails, Terminates
  <2> QED
    BY <2>1
<1>15. CASE HandleRevoke
  <2>1. Receive("revoke") /\ todo' = Head(mailbox).parts /\ task' = "revoke" /\
          UNCHANGED <<active, consumerVars, clientVars>>
    BY <1>15 DEF HandleRevoke
  <2>2. group = "running" /\ Head(mailbox) = mailbox[1] /\ 1 \in Inbox /\
          mailbox[1].kind = "revoke" /\ task = "none"
    BY <2>1, Received
  <2>3. mailbox[1].parts = assigned
    BY <2>2 DEF MailboxInv, IsRevoke
  <2> QED
    BY <2>1, <2>2, <2>3
<1>16. CASE HandleExit
  <2>1. /\ task = "none" /\ UNCHANGED <<active, consumerVars, clientVars>> /\ group = "running"
        /\ UNCHANGED <<task, todo>> \/ (task' = "terminate" /\ todo' = Active)
    BY <1>16 DEF HandleExit, Receive, IsNext, Terminates
  <2>2. Active # {} => Active = assigned
    BY <2>1, ActiveAssigned
  <2> QED
    BY <2>1, <2>2
<1>17. CASE HandleShutdown
  <2>1. /\ task = "none" /\ UNCHANGED <<active, consumerVars, clientVars>> /\ group = "running"
        /\ task' = "terminate" /\ todo' = Active
    BY <1>17 DEF HandleShutdown, Receive, IsNext, Terminates
  <2>2. Active # {} => Active = assigned
    BY <2>1, ActiveAssigned
  <2> QED
    BY <2>1, <2>2
<1>18. ASSUME NEW p \in Partitions, StopConsumer(p) PROVE RoundInv'
  <2>1. /\ task \in {"revoke", "terminate"} /\ p \in Active
        /\ UNCHANGED <<group, task, active, alive, client, join, round, assigned>>
    BY <1>18 DEF StopConsumer, MapInv
  <2>2. Consumer(p) = <<p, round>> /\ group = "running"
    BY <2>1, ActiveAssigned DEF Consumer
  <2>3. CASE Consumer(p) \in alive
    <3>1. told' = told \union {Consumer(p)} /\ UNCHANGED todo
      BY <2>3, <1>18 DEF StopConsumer
    <3> QED
      BY <2>1, <3>1
  <2>4. CASE Consumer(p) \notin alive
    <3>1. UNCHANGED told /\ todo' = todo \ {Consumer(p)[1]}
      BY <2>4, <1>18 DEF StopConsumer, QueueCleanup
    <3> QED
      BY <2>1, <2>2, <2>4, <3>1, GivenBackRound
  <2> QED
    BY <2>3, <2>4
<1>19. CASE StopAnswered
  <2>1. /\ waiting # Nobody /\ UNCHANGED <<group, task, active, alive, told, client, join, round,
          assigned>>
        /\ todo' = todo \ {waiting[1]}
    BY <1>19 DEF StopAnswered, QueueCleanup
  <2>2. /\ waiting = Consumer(waiting[1]) /\ waiting[1] \in Active /\ task \in {"revoke",
          "terminate"}
        /\ waiting \in told
    BY <2>1 DEF StopInv, MapInv
  <2>3. Consumer(waiting[1]) = <<waiting[1], round>>
    BY <2>2, ActiveAssigned DEF Consumer
  <2> QED
    BY <2>1, <2>2, <2>3, GivenBackRound
<1>20. CASE StopTimeout
  <2>1. /\ waiting # Nobody /\ UNCHANGED <<group, task, active, alive, told, client, join, round,
          assigned>>
        /\ todo' = todo \ {waiting[1]}
    BY <1>20 DEF StopTimeout, QueueCleanup
  <2>2. /\ waiting = Consumer(waiting[1]) /\ waiting[1] \in Active /\ task \in {"revoke",
          "terminate"}
        /\ waiting \in told
    BY <2>1 DEF StopInv, MapInv
  <2>3. Consumer(waiting[1]) = <<waiting[1], round>>
    BY <2>2, ActiveAssigned DEF Consumer
  <2> QED
    BY <2>1, <2>2, <2>3, GivenBackRound
<1>21. CASE RevokeCompleted
  <2>1. task = "revoke" /\ todo = {} /\ UNCHANGED consumerVars
    BY <1>21 DEF RevokeCompleted
  <2> QED
    BY <2>1
<1>22. CASE ConsumerCleanup
  <2>1. group' = "closing" /\ task' = "none" /\ client' # "open" /\ UNCHANGED <<consumerVars,
          round>>
    BY <1>22 DEF ConsumerCleanup
  <2> QED
    BY <2>1
<1>23. CASE NotifierRemove
  <2>1. client' # "open" /\ UNCHANGED <<groupVars, consumerVars, round>>
    BY <1>23 DEF NotifierRemove
  <2> QED
    BY <2>1
<1>24. CASE ClientStopped
  <2>1. alive' = {}
    BY <1>24 DEF ClientStopped, GroupEnds
  <2> QED
    BY <2>1
<1>25. CASE CloseTimeout
  <2>1. alive' = {}
    BY <1>25 DEF CloseTimeout, GroupEnds
  <2> QED
    BY <2>1
<1>26. CASE Restart
  <2>1. alive' = {}
    BY <1>26 DEF Restart, StopInv
  <2> QED
    BY <2>1
<1>27. CASE SendShutdown
  <2>1. UNCHANGED <<groupVars, consumerVars, clientVars>>
    BY <1>27 DEF SendShutdown
  <2> QED
    BY <2>1
<1>28. CASE ClearAll
  <2>1. client' # "open" /\ UNCHANGED <<groupVars, consumerVars, round>>
    BY <1>28 DEF ClearAll
  <2> QED
    BY <2>1
<1>29. CASE Close
  <2>1. client' # "open" /\ UNCHANGED <<groupVars, consumerVars, round>>
    BY <1>29 DEF Close
  <2> QED
    BY <2>1
<1>30. CASE UNCHANGED vars
  BY <1>30 DEF vars
<1> QED
  BY <1>1, <1>2, <1>3, <1>4, <1>5, <1>6, <1>7, <1>8, <1>9, <1>11, <1>12, <1>13, <1>14,
     <1>15, <1>16, <1>17, <1>18, <1>19, <1>20, <1>21, <1>22, <1>23, <1>24, <1>25, <1>26, <1>27,
       <1>28, <1>29, <1>30
  DEF AnyNext, Next, Crash, KillArrives, Rebalance, Group, Closing

\* The offsets are natural numbers.
LEMMA OffsetType ==
    ASSUME TypeOK
    PROVE  /\ position \in [Partitions -> 0 .. LogEnd] /\ stored \in [Partitions -> 0 .. LogEnd]
           /\ committed \in [Partitions -> 0 .. LogEnd]
           /\ \A p \in Partitions : position[p] \in Nat /\ stored[p] \in Nat /\ committed[p] \in Nat
<1>1. position \in [Partitions -> 0 .. LogEnd]
  BY DEF TypeOK
<1>2. stored \in [Partitions -> 0 .. LogEnd]
  BY DEF TypeOK
<1>3. committed \in [Partitions -> 0 .. LogEnd]
  BY DEF TypeOK
<1> QED
  BY <1>1, <1>2, <1>3, ConsumerGroupAssumption

\* A consumer delivers the message behind the stored offset.
LEMMA DeliveredIsNext ==
    ASSUME TypeOK, RoundInv, OffsetInv, NEW c \in Consumers, Deliver(c)
    PROVE  c[1] \in Partitions /\ position[c[1]] = stored[c[1]]
<1>1. c = <<c[1], c[2]>> /\ c[1] \in Partitions
  BY DEF Consumers
<1>2. c[2] = round /\ queue[c] = "private"
  BY DEF Deliver, RoundInv
<1> QED
  BY <1>1, <1>2 DEF OffsetInv

\* Delivery falls back to the committed offset, which never moves back.
LEMMA Rewound ==
    ASSUME TypeOK, OffsetInv, Rewind(assigned)
    PROVE  /\ OffsetInv'
           /\ \A p \in Partitions : /\ stored'[p] = committed'[p]
                                   /\ committed'[p] \in committed[p] .. stored[p]
<1>1. /\ stored' = committed' /\ position' = committed'
      /\ \A p \in Partitions : committed'[p] = committed[p] \/ committed'[p] = stored[p]
  BY NewerType DEF Rewind
<1>2. \A p \in Partitions : committed[p] \in Nat /\ stored[p] \in Nat /\ committed[p] <= stored[p]
  BY OffsetType DEF OffsetInv
<1>3. \A p \in Partitions : committed'[p] \in Nat
  BY <1>1, <1>2
<1> QED
  BY <1>1, <1>2, <1>3 DEF OffsetInv

\* The consumers of the last assignment.
LEMMA PairsAreConsumers ==
    ASSUME TypeOK, ControlInv, NEW p \in assigned
    PROVE  <<p, round>> \in Consumers
  BY DEF TypeOK, ControlInv, Consumers, Rounds

\* A queue that is given back is not made private by it.
LEMMA QueueLost ==
    ASSUME TypeOK, ControlInv, OffsetInv, UNCHANGED <<assigned, toAdd, round, offsetVars>>,
           queue' = queue \/ \E c : queue' = [queue EXCEPT ![c] = "destroyed"]
    PROVE  OffsetInv'
<1>1. \A p \in assigned : queue'[<<p, round>>] = "private" => queue[<<p, round>>] = "private"
  <2>1. \A p \in assigned : <<p, round>> \in Consumers
    BY PairsAreConsumers
  <2> QED
    BY <2>1 DEF TypeOK
<1> QED
  BY <1>1 DEF OffsetInv, offsetVars

\* No offset is stored over a message that was not delivered.
LEMMA StepOffset == TypeOK /\ ControlInv /\ RoundInv /\ OffsetInv /\ ~EarlyFetch /\
  [AnyNext]_vars => OffsetInv'
<1> SUFFICES ASSUME TypeOK /\ ControlInv /\ RoundInv /\ OffsetInv /\ ~EarlyFetch, [AnyNext]_vars
      PROVE OffsetInv'
  OBVIOUS
<1> USE ConsumerGroupAssumption DEF ControlInv, OffsetInv, groupVars, consumerVars, clientVars,
      offsetVars
<1>1. ASSUME NEW parts \in SUBSET Partitions, AssignStarts(parts) PROVE OffsetInv'
  <2>1. assigned = {} /\ assigned' = toAdd' /\ UNCHANGED offsetVars
    BY <1>1 DEF AssignStarts
  <2> QED
    BY <2>1
<1>2. ASSUME NEW p \in Partitions, AddQueue(p) PROVE OffsetInv'
  <2>1. /\ p \in toAdd /\ toAdd' = toAdd \ {p} /\ join = "assigning"
        /\ queue' = [queue EXCEPT ![<<p, round>>] = "private"]
        /\ UNCHANGED <<assigned, round, offsetVars>>
    BY <1>2 DEF AddQueue
  <2>2. \A q \in Partitions : q # p => queue'[<<q, round>>] = queue[<<q, round>>]
    BY <2>1
  <2> QED
    BY <2>1, <2>2
<1>3. CASE AssignSent
  <2>1. UNCHANGED <<assigned, toAdd, round, queue, offsetVars>>
    BY <1>3 DEF AssignSent
  <2> QED
    BY <2>1
<1>4. CASE RevokeSent
  <2>1. UNCHANGED <<assigned, toAdd, round, queue, offsetVars>>
    BY <1>4 DEF RevokeSent
  <2> QED
    BY <2>1
<1>5. CASE RevokeRefused
  <2>1. Rewind(assigned)
    BY <1>5 DEF RevokeRefused
  <2> QED
    BY <2>1, Rewound
<1>6. ASSUME NEW p \in Partitions, Drop(p) PROVE OffsetInv'
  <2>1. p \in assigned /\ p \notin toAdd /\ queue[<<p, round>>] # "private"
    BY <1>6 DEF Drop
  <2>2. position' = [position EXCEPT ![p] = position[p] + 1]
    BY <1>6 DEF Drop
  <2>3. UNCHANGED <<assigned, toAdd, round, queue, stored, committed>>
    BY <1>6 DEF Drop
  <2>4. \A q \in Partitions : q # p => position'[q] = position[q]
    BY <2>2, OffsetType
  <2> QED
    BY <2>1, <2>3, <2>4
<1>7. CASE AutoCommit
  <2>1. UNCHANGED <<assigned, toAdd, round, queue, stored, position>>
    BY <1>7 DEF AutoCommit
  <2>2. \A q \in Partitions : committed'[q] = stored[q] /\ stored[q] \in Nat
    BY <1>7, NewerType, OffsetType DEF AutoCommit
  <2> QED
    BY <2>1, <2>2
<1>8. ASSUME NEW c \in Consumers, Deliver(c) PROVE OffsetInv'
  <2> DEFINE p == c[1]
  <2>1. /\ p \in Partitions /\ position[p] = stored[p]
        /\ position[p] \in Nat /\ committed[p] \in Nat
    BY <1>8, DeliveredIsNext, OffsetType
  <2>2. stored' = [stored EXCEPT ![p] = position[p] + 1]
    BY <1>8 DEF Deliver
  <2>3. position' = [position EXCEPT ![p] = position[p] + 1]
    BY <1>8 DEF Deliver
  <2>4. UNCHANGED <<assigned, toAdd, round, queue, committed>>
    BY <1>8 DEF Deliver
  <2> HIDE DEF p
  <2>5. /\ \A q \in Partitions : q # p => position'[q] = position[q] /\ stored'[q] = stored[q]
        /\ position'[p] = position[p] + 1 /\ stored'[p] = position[p] + 1
    BY <2>1, <2>2, <2>3, OffsetType
  <2> QED
    BY <2>1, <2>4, <2>5
<1>9. ASSUME NEW c \in Consumers, Dies(c) PROVE OffsetInv'
  <2>1. UNCHANGED <<assigned, toAdd, round, queue, offsetVars>>
    BY <1>9 DEF Dies
  <2> QED
    BY <2>1
<1>11. ASSUME NEW c \in Consumers, Stops(c) PROVE OffsetInv'
  <2>1. UNCHANGED <<assigned, toAdd, round, queue, offsetVars>>
    BY <1>11 DEF Stops
  <2> QED
    BY <2>1
<1>12. CASE HandleAssign
  <2>1. UNCHANGED <<assigned, toAdd, round, queue, offsetVars>>
    BY <1>12 DEF HandleAssign
  <2> QED
    BY <2>1
<1>13. ASSUME NEW p \in Partitions, StartConsumer(p) PROVE OffsetInv'
  <2>1. UNCHANGED <<assigned, toAdd, round, queue, offsetVars>>
    BY <1>13 DEF StartConsumer
  <2> QED
    BY <2>1
<1>14. ASSUME NEW p \in Partitions, StartFails(p) PROVE OffsetInv'
  <2>1. UNCHANGED <<assigned, toAdd, round, queue, offsetVars>>
    BY <1>14 DEF StartFails
  <2> QED
    BY <2>1
<1>15. CASE HandleRevoke
  <2>1. UNCHANGED <<assigned, toAdd, round, queue, offsetVars>>
    BY <1>15 DEF HandleRevoke
  <2> QED
    BY <2>1
<1>16. CASE HandleExit
  <2>1. UNCHANGED <<assigned, toAdd, round, queue, offsetVars>>
    BY <1>16 DEF HandleExit
  <2> QED
    BY <2>1
<1>17. CASE HandleShutdown
  <2>1. UNCHANGED <<assigned, toAdd, round, queue, offsetVars>>
    BY <1>17 DEF HandleShutdown
  <2> QED
    BY <2>1
<1>18. ASSUME NEW p \in Partitions, StopConsumer(p) PROVE OffsetInv'
  <2>1. /\ UNCHANGED <<assigned, toAdd, round, offsetVars>>
        /\ queue' = queue \/ \E c : queue' = [queue EXCEPT ![c] = "destroyed"]
    BY <1>18 DEF StopConsumer, QueueCleanup
  <2> QED
    BY <2>1, QueueLost
<1>19. CASE StopAnswered
  <2>1. /\ UNCHANGED <<assigned, toAdd, round, offsetVars>>
        /\ queue' = queue \/ \E c : queue' = [queue EXCEPT ![c] = "destroyed"]
    BY <1>19 DEF StopAnswered, QueueCleanup
  <2> QED
    BY <2>1, QueueLost
<1>20. CASE StopTimeout
  <2>1. /\ UNCHANGED <<assigned, toAdd, round, offsetVars>>
        /\ queue' = queue \/ \E c : queue' = [queue EXCEPT ![c] = "destroyed"]
    BY <1>20 DEF StopTimeout, QueueCleanup
  <2> QED
    BY <2>1, QueueLost
<1>21. CASE RevokeCompleted
  <2>1. Rewind(assigned)
    BY <1>21 DEF RevokeCompleted
  <2> QED
    BY <2>1, Rewound
<1>22. CASE ConsumerCleanup
  <2>1. UNCHANGED <<assigned, toAdd, round, queue, offsetVars>>
    BY <1>22 DEF ConsumerCleanup
  <2> QED
    BY <2>1
<1>23. CASE NotifierRemove
  <2>1. UNCHANGED <<assigned, toAdd, round, queue, offsetVars>>
    BY <1>23 DEF NotifierRemove
  <2> QED
    BY <2>1
<1>24. CASE ClientStopped
  <2>1. /\ UNCHANGED <<assigned, toAdd, round, offsetVars>>
        /\ queue' = [c \in Consumers |-> IF queue[c] = "private" THEN "destroyed" ELSE queue[c]]
    BY <1>24 DEF ClientStopped, GroupEnds
  <2>2. \A c \in Consumers : queue'[c] = "private" => queue[c] = "private"
    BY <2>1
  <2> QED
    BY <2>1, <2>2, PairsAreConsumers
<1>25. CASE CloseTimeout
  <2>1. /\ UNCHANGED <<assigned, toAdd, round, offsetVars>>
        /\ queue' = [c \in Consumers |-> IF queue[c] = "private" THEN "destroyed" ELSE queue[c]]
    BY <1>25 DEF CloseTimeout, GroupEnds
  <2>2. \A c \in Consumers : queue'[c] = "private" => queue[c] = "private"
    BY <2>1
  <2> QED
    BY <2>1, <2>2, PairsAreConsumers
<1>26. CASE Restart
  <2>1. Rewind(assigned)
    BY <1>26 DEF Restart
  <2> QED
    BY <2>1, Rewound
<1>27. CASE SendShutdown
  <2>1. UNCHANGED <<assigned, toAdd, round, queue, offsetVars>>
    BY <1>27 DEF SendShutdown
  <2> QED
    BY <2>1
<1>28. CASE ClearAll
  <2>1. /\ UNCHANGED <<assigned, toAdd, round, offsetVars>>
        /\ queue' = [c \in Consumers |-> IF queue[c] = "private" THEN "forwarded" ELSE queue[c]]
    BY <1>28 DEF ClearAll
  <2>2. \A c \in Consumers : queue'[c] = "private" => queue[c] = "private"
    BY <2>1
  <2> QED
    BY <2>1, <2>2, PairsAreConsumers
<1>29. CASE Close
  <2>1. Rewind(assigned)
    BY <1>29 DEF Close
  <2> QED
    BY <2>1, Rewound
<1>30. CASE UNCHANGED vars
  BY <1>30 DEF vars
<1> QED
  BY <1>1, <1>2, <1>3, <1>4, <1>5, <1>6, <1>7, <1>8, <1>9, <1>11, <1>12, <1>13, <1>14,
     <1>15, <1>16, <1>17, <1>18, <1>19, <1>20, <1>21, <1>22, <1>23, <1>24, <1>25, <1>26, <1>27,
       <1>28, <1>29, <1>30
  DEF AnyNext, Next, Crash, KillArrives, Rebalance, Group, Closing

-----------------------------------------------------------------------------
(* The theorems *)

\* What always holds, and what holds if no init/4 fails, is inductive.
LEMMA StepIInv == IInv /\ [AnyNext]_vars => IInv'
  BY StepType, StepControl, StepMailbox, StepMap, StepStop, StepQueue, StepRound DEF IInv

LEMMA StepOkInv == ~InitFails /\ OkInv /\ [AnyNext]_vars => OkInv'
<1> SUFFICES ASSUME ~InitFails, OkInv, [AnyNext]_vars PROVE OkInv'
  OBVIOUS
<1>1. IInv'
  BY StepIInv DEF OkInv
<1>2. OwnInv' /\ ExitInv'
  BY StepOwn, StepExit DEF OkInv, IInv
<1> QED
  BY <1>1, <1>2 DEF OkInv

-----------------------------------------------------------------------------
(* Nothing is forgotten *)

\* A message that is sent to a working group is there with those before it.
LEMMA SentStays ==
    ASSUME TypeOK, NEW msg \in Messages, mailbox' = Sent(msg)
    PROVE  /\ \A i \in Inbox : i \in Inbox' /\ mailbox'[i] = mailbox[i]
           /\ group = "running" => \E i \in Inbox' : mailbox'[i] = msg
<1>1. CASE group \in {"running", "closing"}
  <2>1. mailbox' = Append(mailbox, msg)
    BY <1>1 DEF Sent
  <2>2. \A i \in Inbox : i \in Inbox' /\ mailbox'[i] = mailbox[i]
    BY <2>1, Posted
  <2>3. Len(mailbox) + 1 \in Inbox' /\ mailbox'[Len(mailbox) + 1] = msg
    BY <2>1, Posted DEF TypeOK, Inbox
  <2> QED
    BY <2>2, <2>3
<1>2. CASE group \notin {"running", "closing"}
  BY <1>2 DEF Sent, Inbox
<1> QED
  BY <1>1, <1>2

\* A message that is not the next one stays.
LEMMA ReceivedStays ==
    ASSUME TypeOK, NEW kind, Receive(kind)
    PROVE  \A i \in Inbox : mailbox[i].kind # kind =>
              \E j \in Inbox' : mailbox'[j] = mailbox[i]
  BY Received

\* A revocation that librdkafka waits for is not lost.
LEMMA StepRevocation == IInv /\ RevocationUnderWay /\ [AnyNext]_vars => RevocationUnderWay'
<1> SUFFICES ASSUME IInv, RevocationUnderWay, [AnyNext]_vars PROVE RevocationUnderWay'
  OBVIOUS
<1> USE DEF groupVars, consumerVars, clientVars, offsetVars
<1>t. TypeOK /\ ControlInv
  BY DEF IInv
<1>a. ASSUME UNCHANGED <<join, client, mailbox, task, assigned>> PROVE RevocationUnderWay'
  BY <1>a DEF RevocationUnderWay, Inbox
<1>b. ASSUME NEW msg \in Messages, mailbox' = Sent(msg), UNCHANGED <<join, client, task, assigned>>
      PROVE  RevocationUnderWay'
  BY <1>b, <1>t, SentStays DEF RevocationUnderWay
<1>c. ASSUME NEW kind \in {"assign", "EXIT", "shutdown"}, Receive(kind),
             UNCHANGED <<join, client, assigned>>
      PROVE  RevocationUnderWay'
  <2>1. task = "none"
    BY <1>c DEF Receive, IsNext
  <2>2. \A i \in Inbox : mailbox[i] = Revoke(assigned) =>
            \E j \in Inbox' : mailbox'[j] = mailbox[i]
    BY <1>c, <1>t, ReceivedStays DEF Revoke
  <2> QED
    BY <1>c, <2>1, <2>2 DEF RevocationUnderWay
<1>d. join' # "revoking" \/ client' # "open" => RevocationUnderWay'
  BY DEF RevocationUnderWay
<1>1. ASSUME NEW parts \in SUBSET Partitions, AssignStarts(parts) PROVE RevocationUnderWay'
  BY <1>1, <1>d DEF AssignStarts
<1>2. ASSUME NEW p \in Partitions, AddQueue(p) \/ Drop(p) \/ StopConsumer(p)
      PROVE  RevocationUnderWay'
  BY <1>2, <1>a DEF AddQueue, Drop, StopConsumer
<1>3. CASE AssignSent
  BY <1>3, <1>d DEF AssignSent
<1>4. CASE RevokeSent
  <2>1. group = "running" /\ mailbox' = Sent(Revoke(assigned)) /\ assigned' = assigned
    BY <1>4, <1>t DEF RevokeSent, ControlInv
  <2>2. \E i \in Inbox' : mailbox'[i] = Revoke(assigned)
    BY <1>t, <2>1, SentStays, MessagesSent DEF TypeOK
  <2> QED
    BY <2>1, <2>2 DEF RevocationUnderWay
<1>5. CASE RevokeRefused \/ RevokeCompleted \/ Restart \/ Close
  BY <1>5, <1>d DEF RevokeRefused, RevokeCompleted, Restart, Close
<1>6. CASE AutoCommit \/ StopAnswered \/ StopTimeout
  BY <1>6, <1>a DEF AutoCommit, StopAnswered, StopTimeout
<1>7. ASSUME NEW c \in Consumers, Deliver(c) \/ Stops(c) PROVE RevocationUnderWay'
  BY <1>7, <1>a DEF Deliver, Stops
<1>8. ASSUME NEW c \in Consumers, Dies(c) PROVE RevocationUnderWay'
  BY <1>8, <1>b, MessagesSent DEF Dies
<1>9. CASE SendShutdown
  BY <1>9, <1>b, MessagesSent DEF SendShutdown, Sent
<1>10. CASE HandleAssign
  BY <1>10, <1>c DEF HandleAssign
<1>11. CASE HandleExit
  BY <1>11, <1>c DEF HandleExit
<1>12. CASE HandleShutdown
  BY <1>12, <1>c DEF HandleShutdown
<1>13. CASE HandleRevoke
  BY <1>13 DEF HandleRevoke, RevocationUnderWay
<1>14. ASSUME NEW p \in Partitions, StartConsumer(p) \/ StartFails(p) PROVE RevocationUnderWay'
  <2>1. /\ task = "assign" /\ UNCHANGED <<join, client, mailbox, assigned>>
    BY <1>14 DEF StartConsumer, StartFails
  <2> QED
    BY <2>1 DEF RevocationUnderWay, Inbox
<1>15. CASE ConsumerCleanup \/ Closing
  <2>1. client' # "open"
    BY <1>15 DEF ConsumerCleanup, Closing, NotifierRemove, ClearAll, Close
  <2> QED
    BY <2>1, <1>d
<1>16. CASE ClientStopped \/ CloseTimeout
  <2>1. client' # "open"
    BY <1>16 DEF ClientStopped, CloseTimeout, GroupEnds
  <2> QED
    BY <2>1, <1>d
<1>17. CASE UNCHANGED vars
  BY <1>17, <1>a DEF vars
<1> QED
  BY <1>1, <1>2, <1>3, <1>4, <1>5, <1>6, <1>7, <1>8, <1>9, <1>10, <1>11, <1>12, <1>13, <1>14,
     <1>15, <1>16, <1>17
  DEF AnyNext, Next, Crash, KillArrives, Rebalance, Group, Closing

LEMMA StepDeaths == IInv /\ DeathsAreSeen /\ [AnyNext]_vars => DeathsAreSeen'
<1> SUFFICES ASSUME IInv, DeathsAreSeen, [AnyNext]_vars PROVE DeathsAreSeen'
  OBVIOUS
<1> USE DEF groupVars, consumerVars, clientVars, offsetVars
<1>t. TypeOK /\ ControlInv /\ MapInv /\ StopInv
  BY DEF IInv
<1>a. ASSUME UNCHANGED <<group, task, active, todo, current, alive>>,
             \A i \in Inbox : i \in Inbox' /\ mailbox'[i] = mailbox[i]
      PROVE  DeathsAreSeen'
  BY <1>a DEF DeathsAreSeen, ExitUnderWay, Active, Consumer
<1>b. UNCHANGED mailbox => \A i \in Inbox : i \in Inbox' /\ mailbox'[i] = mailbox[i]
  BY DEF Inbox
<1>c. group' # "running" \/ task' \in {"revoke", "terminate"} => DeathsAreSeen'
  BY DEF DeathsAreSeen
<1>1. ASSUME NEW parts \in SUBSET Partitions, AssignStarts(parts) PROVE DeathsAreSeen'
  BY <1>1, <1>a, <1>b DEF AssignStarts
<1>2. ASSUME NEW p \in Partitions, AddQueue(p) \/ Drop(p) PROVE DeathsAreSeen'
  BY <1>2, <1>a, <1>b DEF AddQueue, Drop
<1>3. CASE AssignSent
  BY <1>3, <1>a, <1>t, SentStays, MessagesSent DEF AssignSent, TypeOK, ControlInv, Rounds
<1>4. CASE RevokeSent
  BY <1>4, <1>a, <1>t, SentStays, MessagesSent DEF RevokeSent, TypeOK
<1>5. CASE RevokeRefused \/ Closing \/ AutoCommit
  BY <1>5, <1>a, <1>b DEF RevokeRefused, Closing, NotifierRemove, ClearAll, Close, AutoCommit
<1>6. CASE SendShutdown
  BY <1>6, <1>a, <1>t, SentStays, MessagesSent DEF SendShutdown, Sent
<1>7. ASSUME NEW c \in Consumers, Deliver(c) PROVE DeathsAreSeen'
  BY <1>7, <1>a, <1>b DEF Deliver
<1>8. ASSUME NEW c \in Consumers, Stops(c) PROVE DeathsAreSeen'
  <2>1. /\ UNCHANGED <<group, task, active, todo, current, mailbox>>
        /\ alive' = alive \ {c} /\ c \in told
    BY <1>8 DEF Stops
  <2>2. CASE group = "running" /\ task \in {"none", "assign"}
    <3>1. ASSUME NEW p \in Active, task = "none" PROVE Consumer(p) # c
      <4>1. active[p] = round /\ p \in assigned
        BY <1>t, <2>2, ActiveAssigned
      <4>2. join # "none"
        BY <1>t, <4>1 DEF ControlInv
      <4> QED
        BY <1>t, <2>1, <2>2, <4>1, <4>2 DEF StopInv, Consumer, TypeOK
    <3>2. ASSUME NEW p \in current.parts, task = "assign" PROVE <<p, current.round>> # c
      <4>1. current.round = round /\ p \in assigned
        BY <1>t, <2>2, <3>2 DEF MapInv
      <4>2. join # "none"
        BY <1>t, <4>1 DEF ControlInv
      <4> QED
        BY <1>t, <2>1, <2>2, <4>1, <4>2 DEF StopInv, TypeOK
    <3> QED
      BY <2>1, <2>2, <3>1, <3>2 DEF DeathsAreSeen, ExitUnderWay, Inbox, Active, Consumer
  <2>3. CASE group # "running" \/ task \notin {"none", "assign"}
    BY <2>1, <2>3 DEF DeathsAreSeen
  <2> QED
    BY <2>2, <2>3
<1>9. ASSUME NEW c \in Consumers, Dies(c) PROVE DeathsAreSeen'
  <2>1. /\ UNCHANGED <<group, task, active, todo, current>>
        /\ alive' = alive \ {c} /\ mailbox' = Sent(ExitOf(c, Cause(c)))
    BY <1>9 DEF Dies
  <2>2. SUFFICES ASSUME group = "running" PROVE DeathsAreSeen'
    BY <2>1 DEF DeathsAreSeen
  <2>3. /\ \A i \in Inbox : i \in Inbox' /\ mailbox'[i] = mailbox[i]
        /\ \E i \in Inbox' : mailbox'[i] = ExitOf(c, Cause(c))
    BY <1>t, <2>1, <2>2, SentStays, MessagesSent
  <2>4. ExitUnderWay(c)' /\ \A d : ExitUnderWay(d) => ExitUnderWay(d)'
    BY <2>3 DEF ExitUnderWay, ExitOf
  <2>5. Active' = Active /\ \A p \in Active : Consumer(p)' = Consumer(p)
    BY <2>1 DEF Active, Consumer
  <2> HIDE DEF groupVars
  <2> QED
    BY <2>1, <2>4, <2>5 DEF DeathsAreSeen
<1>10. CASE HandleAssign
  <2>1. Pending /\ group = "running"
    BY <1>10, ReceivedPending, Received DEF HandleAssign, IInv
  <2>2. Active' = {}
    BY <2>1, <1>10 DEF HandleAssign, IInv, MapInv, Active
  <2>3. /\ task' \in {"none", "assign"}
        /\ todo' = Head(mailbox).parts /\ current' = Head(mailbox)
    BY <1>10 DEF HandleAssign
  <2> QED
    BY <2>2, <2>3 DEF DeathsAreSeen
<1>11. CASE HandleRevoke \/ HandleShutdown
  BY <1>11, <1>c DEF HandleRevoke, HandleShutdown, Terminates
<1>12. CASE HandleExit
  <2>1. CASE Active # {}
    BY <1>12, <2>1, <1>c DEF HandleExit, Terminates
  <2>2. CASE Active = {}
    <3>1. Active' = {} /\ task' = "none"
      BY <1>12, <2>2 DEF HandleExit, Receive, IsNext, Active
    <3> QED
      BY <3>1 DEF DeathsAreSeen
  <2> QED
    BY <2>1, <2>2
<1>13. ASSUME NEW p \in Partitions, StartConsumer(p) PROVE DeathsAreSeen'
  <2>1. /\ task = "assign" /\ alive' = alive \union {<<p, current.round>>}
        /\ todo' = todo \ {p} /\ UNCHANGED <<group, current, mailbox>>
        /\ IF todo = {p}
             THEN /\ active' = [q \in Partitions |-> IF q \in current.parts THEN current.round
                                                                          ELSE active[q]]
                  /\ task' = "none"
             ELSE UNCHANGED <<active, task>>
    BY <1>13 DEF StartConsumer
  <2>2. SUFFICES ASSUME group = "running" PROVE DeathsAreSeen'
    BY <2>1 DEF DeathsAreSeen
  <2>3. \A q \in current.parts \ todo' :
            <<q, current.round>> \in alive' \/ ExitUnderWay(<<q, current.round>>)
    BY <2>1, <2>2 DEF DeathsAreSeen
  <2>4. \A d : ExitUnderWay(d)' <=> ExitUnderWay(d)
    BY <2>1 DEF ExitUnderWay, Inbox
  <2>5. CASE todo = {p}
    <3>1. todo' = {} /\ Active = {} /\ task' = "none"
      BY <1>t, <2>1, <2>2, <2>5 DEF MapInv
    <3>2. ASSUME NEW q \in Active' PROVE q \in current.parts /\ Consumer(q)' = <<q, current.round>>
      BY <2>1, <2>5, <3>1 DEF Active, Consumer
    <3> QED
      BY <2>3, <2>4, <3>1, <3>2 DEF DeathsAreSeen
  <2>6. CASE todo # {p}
    BY <2>1, <2>3, <2>4, <2>6 DEF DeathsAreSeen
  <2> QED
    BY <2>5, <2>6
<1>14. ASSUME NEW p \in Partitions, StartFails(p) PROVE DeathsAreSeen'
  BY <1>14, <1>c DEF StartFails, Terminates
<1>15. ASSUME NEW p \in Partitions, StopConsumer(p) PROVE DeathsAreSeen'
  BY <1>15, <1>c DEF StopConsumer
<1>16. CASE StopAnswered \/ StopTimeout
  BY <1>16, <1>c, <1>t DEF StopAnswered, StopTimeout, StopInv
<1>17. CASE RevokeCompleted
  <2>1. Active' = {} /\ task' = "none"
    BY <1>17 DEF RevokeCompleted, Active, NoConsumers
  <2> QED
    BY <2>1 DEF DeathsAreSeen
<1>18. CASE ConsumerCleanup
  BY <1>18, <1>c DEF ConsumerCleanup
<1>19. CASE ClientStopped \/ CloseTimeout
  BY <1>19, <1>c DEF ClientStopped, CloseTimeout, GroupEnds
<1>20. CASE Restart
  <2>1. Active = {} /\ task = "none"
    BY <1>t, <1>20 DEF Restart, MapInv, ControlInv
  <2>2. Active' = {} /\ task' = "none"
    BY <1>20, <2>1 DEF Restart, Active
  <2> QED
    BY <2>2 DEF DeathsAreSeen
<1>21. CASE UNCHANGED vars
  BY <1>21, <1>a, <1>b DEF vars
<1> QED
  BY <1>1, <1>2, <1>3, <1>4, <1>5, <1>6, <1>7, <1>8, <1>9, <1>10, <1>11, <1>12, <1>13, <1>14,
     <1>15, <1>16, <1>17, <1>18, <1>19, <1>20, <1>21
  DEF AnyNext, Next, Crash, KillArrives, Rebalance, Group, Closing

\* The assignment is in the mailbox, in hand or in the map.
LEMMA AssignmentSeen == IInv => AssignmentUnderWay
<1> SUFFICES ASSUME IInv, group = "running", join = "assigned", task # "terminate",
                    Active # assigned
             PROVE  \/ \E i \in Inbox : mailbox[i] = Assign(assigned, round)
                    \/ task = "assign" /\ current = Assign(assigned, round)
  BY DEF AssignmentUnderWay
<1> USE DEF IInv
<1>1. task # "revoke" /\ task \in Tasks
  BY DEF MapInv, TypeOK
<1>2. CASE task = "assign"
  BY <1>2 DEF MapInv, TypeOK, Assign
<1>3. CASE task = "none"
  <2>1. PICK i \in Inbox : IsAssign(i)
    BY <1>3, ActiveAssigned DEF Pending
  <2>2. mailbox[i].parts = assigned /\ mailbox[i].round = round /\ mailbox[i] \in Messages
    BY <2>1 DEF MailboxInv, TypeOK, Inbox
  <2>3. mailbox[i] \in [kind : {"assign"}, parts : SUBSET Partitions, round : Rounds]
    BY <2>1, <2>2, MessageKinds DEF IsAssign
  <2> QED
    BY <2>2, <2>3 DEF Assign
<1> QED
  BY <1>1, <1>2, <1>3 DEF Tasks

LEMMA SeenForgetsNothing == SeenInv => NothingForgotten
  BY AssignmentSeen DEF SeenInv, NothingForgotten

LEMMA StepSeen == SeenInv /\ [AnyNext]_vars => SeenInv'
  BY StepIInv, StepRevocation, StepDeaths DEF SeenInv

LEMMA InitSeen == Init => SeenInv
<1> SUFFICES ASSUME Init PROVE SeenInv
  OBVIOUS
<1>1. RevocationUnderWay /\ DeathsAreSeen
  BY DEF Init, RevocationUnderWay, DeathsAreSeen, Active, NoConsumers
<1> QED
  BY <1>1, InitIInv DEF SeenInv

LEMMA Invariance == Spec => []IInv
<1>1. IInv /\ [Next]_vars => IInv'
  BY StepIInv DEF AnyNext
<1> QED
  BY <1>1, InitIInv, PTL DEF Spec

\* So is what the consumers have when no init/4 fails.
LEMMA InitOk == Init => OkInv
<1>1. Init => OwnInv /\ ExitInv
  BY DEF Init, OwnInv, ExitInv, Inbox
<1> QED
  BY <1>1, InitIInv DEF OkInv

LEMMA OkInvariance == ASSUME ~InitFails PROVE Spec => []OkInv
<1>1. Init => OkInv
  BY InitOk
<1>2. OkInv /\ [Next]_vars => OkInv'
  BY StepOkInv DEF AnyNext
<1> QED
  BY <1>1, <1>2, PTL DEF Spec

\* And the offsets, when the messages wait until their queue is taken.
LEMMA InitKey == Init => KeyInv
<1>1. Init => OffsetInv
  BY DEF Init, OffsetInv
<1> QED
  BY <1>1, InitIInv DEF KeyInv

LEMMA KeyInvariance == ASSUME ~EarlyFetch PROVE Spec => []KeyInv
<1>1. Init => KeyInv
  BY InitKey
<1>2. KeyInv /\ [Next]_vars => KeyInv'
  <2> SUFFICES ASSUME KeyInv, [Next]_vars PROVE KeyInv'
    OBVIOUS
  <2>1. IInv'
    BY StepIInv DEF KeyInv, AnyNext
  <2>2. OffsetInv'
    BY StepOffset DEF KeyInv, IInv, AnyNext
  <2> QED
    BY <2>1, <2>2 DEF KeyInv
<1> QED
  BY <1>1, <1>2, PTL DEF Spec

\* The variables of the group, its consumers, its client and librdkafka keep
\* their types.
THEOREM GroupTypes == Spec => []TypeOK
<1>1. IInv => TypeOK
  BY DEF IInv
<1> QED
  BY <1>1, Invariance, PTL

\* What the inductive invariants say of the group, here and in the composition with the
\* consumers' steps.
LEMMA KnownPartitions == IInv => RevokedAreActive
<1> SUFFICES ASSUME IInv, task = "revoke" PROVE todo \subseteq Active
  BY DEF RevokedAreActive
<1>1. group = "running"
  BY DEF IInv, ControlInv
<1> QED
  BY <1>1 DEF IInv, MapInv

LEMMA ReturnedQueues == IInv => QueuesReturned
<1>1. IInv => ForwardedBeforeClose
  BY DEF IInv, ControlInv, ForwardedBeforeClose
<1>2. IInv => DestroyedBeforeClose
  BY DEF IInv, QueueInv, DestroyedBeforeClose
<1> QED
  BY <1>1, <1>2 DEF QueuesReturned

LEMMA PolledQueues == OkInv => PollsOwnQueue
  BY DEF OkInv, OwnInv, PollsOwnQueue

LEMMA EndedConsumers == OkInv => ConsumersEndFirst
<1> SUFFICES ASSUME OkInv, client \in {"closing", "cleared", "closed"}, NEW c \in alive
             PROVE  c \in killed
  BY DEF ConsumersEndFirst
<1>1. waiting = Nobody
  BY DEF OkInv, IInv, ControlInv, StopInv
<1>2. c \in told
  BY DEF OkInv, OwnInv
<1>3. c # Nobody
  <2>1. PICK p \in Partitions, r \in Rounds : c = <<p, r>>
    BY DEF OkInv, IInv, TypeOK, Consumers
  <2>2. Len(<<p, r>>) = 2 /\ Len(Nobody) = 0
    BY DEF Nobody
  <2> QED
    BY <2>1, <2>2
<1> QED
  BY <1>1, <1>2, <1>3 DEF OkInv, IInv, StopInv

LEMMA BlamedConsumers == OkInv => BlamesCurrentConsumer
<1> SUFFICES ASSUME OkInv, IsNext("EXIT"), Active # {}, Head(mailbox).reason # "killed"
             PROVE  Consumer(Head(mailbox).from[1]) = Head(mailbox).from
  BY DEF BlamesCurrentConsumer
<1> USE DEF OkInv, IInv
<1>1. 1 \in Inbox /\ mailbox[1] \in Messages /\ Head(mailbox) = mailbox[1]
  BY DEF TypeOK, IsNext, Inbox
<1>2. group = "running" /\ mailbox[1].kind = "EXIT"
  BY <1>1 DEF IsNext
<1>3. mailbox[1].from \in Consumers /\ mailbox[1].reason \in {"error", "killed"}
  BY <1>1, <1>2, MessageKinds
<1>4. mailbox[1].from[2] = round /\ mailbox[1].from[1] \in assigned
  BY <1>1, <1>2, <1>3 DEF ExitInv, IsCrash
<1>5. Active = assigned /\ \A p \in Active : active[p] = round
  BY <1>2, ActiveAssigned
<1> QED
  BY <1>1, <1>3, <1>4, <1>5 DEF Consumer, Consumers

\* stop_consumers/1 finds every partition it is told to give up in the map, so
\* that Map.get/2 never returns nil there.
THEOREM RevokedPartitionsKnown == Spec => []RevokedAreActive
  BY KnownPartitions, Invariance, PTL

\* A group that closes its client has given back the queues of all the consumers
\* in its map, dead or alive, and no partition queue is off the main queue when
\* rd_kafka_consumer_close is called.
THEOREM QueuesGivenBack == Spec => []QueuesReturned
  BY ReturnedQueues, Invariance, PTL

\* A consumer that was not told to stop polls its own queue of the last assignment
\* rebalance_cb was handed, whether rd_kafka_assign took it or not, provided no init/4
\* fails.
THEOREM OwnQueues == ASSUME ~InitFails PROVE Spec => []PollsOwnQueue
  BY PolledQueues, OkInvariance, PTL

\* The client is closed only under consumers that have ended or been killed,
\* provided no init/4 fails.
THEOREM ClientClosedLast == ASSUME ~InitFails PROVE Spec => []ConsumersEndFirst
  BY EndedConsumers, OkInvariance, PTL

\* Only the crash of a current consumer restarts the group, provided no init/4
\* fails.
THEOREM CurrentBlamed == ASSUME ~InitFails PROVE Spec => []BlamesCurrentConsumer
  BY BlamedConsumers, OkInvariance, PTL

\* Only a delivery, a commit and the fall back to what is committed touch the
\* offsets.
LEMMA OffsetsMove ==
    ASSUME Next
    PROVE  \/ Rewind(assigned) /\ UNCHANGED handled
           \/ \E c \in Consumers : Deliver(c)
           \/ AutoCommit
           \/ UNCHANGED <<stored, committed, handled>>
<1> DEFINE Kept == UNCHANGED <<stored, committed, handled>>
<1>1. (\E parts \in SUBSET Partitions : AssignStarts(parts)) => Kept
  BY DEF AssignStarts, offsetVars
<1>2. Rebalance \/ RevokeSent \/ (\E p \in Partitions : Drop(p)) => Kept
  BY DEF Rebalance, AddQueue, AssignSent, RevokeSent, Drop, offsetVars
<1>3. (\E c \in Consumers : Crash(c) \/ KillArrives(c) \/ Stops(c)) => Kept
  BY DEF Crash, KillArrives, Dies, Stops, offsetVars
<1>4. HandleAssign \/ HandleRevoke \/ HandleExit \/ HandleShutdown => Kept
  BY DEF HandleAssign, HandleRevoke, HandleExit, HandleShutdown, offsetVars
<1>5. (\E p \in Partitions : StartConsumer(p) \/ StartFails(p) \/ StopConsumer(p)) => Kept
  BY DEF StartConsumer, StartFails, StopConsumer, offsetVars
<1>6. StopAnswered \/ StopTimeout \/ ConsumerCleanup \/ ClientStopped \/ CloseTimeout => Kept
  BY DEF StopAnswered, StopTimeout, ConsumerCleanup, ClientStopped, CloseTimeout, GroupEnds,
       offsetVars
<1>7. SendShutdown \/ NotifierRemove \/ ClearAll => Kept
  BY DEF SendShutdown, NotifierRemove, ClearAll, offsetVars
<1>8. RevokeRefused \/ RevokeCompleted \/ Restart \/ Close => Rewind(assigned) /\ UNCHANGED handled
  BY DEF RevokeRefused, RevokeCompleted, Restart, Close
<1> QED
  BY <1>1, <1>2, <1>3, <1>4, <1>5, <1>6, <1>7, <1>8 DEF Next, Group, Closing

\* What each of them is for one partition.
LEMMA StepDelivers ==
    ASSUME KeyInv, Next, NEW p \in Partitions
    PROVE  Delivery(p)!Next \/ UNCHANGED Delivery(p)!vars
<1> USE DEF Delivery!Next, Delivery!vars
<1>1. /\ stored[p] \in 0 .. LogEnd /\ committed[p] \in 0 .. LogEnd
      /\ committed[p] <= stored[p] /\ LogEnd \in Nat
  BY OffsetType, ConsumerGroupAssumption DEF KeyInv, IInv, OffsetInv
<1>2. CASE Rewind(assigned) /\ UNCHANGED handled
  <2>1. stored'[p] = committed'[p] /\ committed'[p] \in committed[p] .. stored[p]
    BY <1>2, Rewound DEF KeyInv, IInv
  <2> QED
    BY <1>2, <2>1 DEF Delivery!CommitAndFallBack
<1>3. ASSUME NEW c \in Consumers, Deliver(c) PROVE Delivery(p)!Accept \/ UNCHANGED Delivery(p)!vars
  <2> DEFINE q == c[1]
  <2>1. q \in Partitions /\ position[q] = stored[q] /\ stored[q] \in Nat /\ stored[q] < LogEnd
    BY <1>3, DeliveredIsNext, OffsetType DEF KeyInv, IInv, Deliver
  <2>2. stored' = [stored EXCEPT ![q] = position[q] + 1]
    BY <1>3 DEF Deliver
  <2>3. handled' = [handled EXCEPT ![q] = handled[q] \union {position[q]}]
    BY <1>3 DEF Deliver
  <2>4. UNCHANGED committed
    BY <1>3 DEF Deliver
  <2> HIDE DEF q
  <2>5. DOMAIN handled = Partitions /\ DOMAIN stored = Partitions
    BY OffsetType DEF KeyInv, IInv, TypeOK
  <2>6. CASE q # p
    BY <2>2, <2>3, <2>4, <2>5, <2>6
  <2>7. CASE q = p
    <3>1. stored'[p] = stored[p] + 1 /\ handled'[p] = handled[p] \union {stored[p]}
      BY <2>1, <2>2, <2>3, <2>5, <2>7
    <3>2. stored[p] + 1 \in stored[p] + 1 .. LogEnd
      BY <2>1, <2>7, <1>1
    <3>3. {stored[p]} = stored[p] .. (stored[p] + 1) - 1
      BY <1>1
    <3> QED
      BY <2>4, <3>1, <3>2, <3>3 DEF Delivery!Accept
  <2> QED
    BY <2>6, <2>7
<1>4. CASE AutoCommit
  <2>1. committed'[p] = stored[p] /\ UNCHANGED <<stored, handled>>
    BY <1>1, <1>4, NewerType DEF AutoCommit, KeyInv, IInv
  <2> QED
    BY <1>1, <2>1 DEF Delivery!Commit
<1>5. CASE UNCHANGED <<stored, committed, handled>>
  BY <1>5
<1> QED
  BY <1>2, <1>3, <1>4, <1>5, OffsetsMove

\* Over rebalances, crashes, restarts and failing init/4s the application is
\* offered each partition in order and nothing is committed past what it
\* accepted, provided no message arrives before its queue is taken.
THEOREM GroupDelivers == ASSUME ~EarlyFetch PROVE Spec => DeliversPartitions
<1>1. Init => \A p \in Partitions : Delivery(p)!Init
  BY DEF Init, Delivery!Init
<1>2. KeyInv /\ [Next]_vars =>
        [\A p \in Partitions : Delivery(p)!Next \/ UNCHANGED Delivery(p)!vars]_vars
  BY StepDelivers
<1> QED
  BY <1>1, <1>2, KeyInvariance, PTL DEF Spec, DeliversPartitions

\* A queue that was given back is polled by nobody: what the ASSERT of
\* exrdkafka_consumer.cc:367 relies on holds, provided no init/4 fails.
THEOREM GivenBackNotPolled == ASSUME ~InitFails PROVE Spec => []PolledQueuesAreTaken
<1>1. OkInv => PolledQueuesAreTaken
  BY DEF OkInv, OwnInv, PolledQueuesAreTaken
<1> QED
  BY <1>1, OkInvariance, PTL

\* What is stored was delivered: the messages that do_poll drops do not change the
\* offset, as queuecallbacksdispatcher.cc:161 says, provided no message arrives before
\* its queue is taken.
THEOREM DropsHaveNoImpact == ASSUME ~EarlyFetch PROVE Spec => []DroppedHaveNoImpact
<1>1. Init => KeyInv /\ DroppedHaveNoImpact
  BY InitKey DEF Init, DroppedHaveNoImpact
<1>2. KeyInv /\ DroppedHaveNoImpact /\ [Next]_vars => DroppedHaveNoImpact'
  <2> SUFFICES ASSUME KeyInv, DroppedHaveNoImpact, [Next]_vars, NEW p \in Partitions
               PROVE  0 .. stored'[p] - 1 \subseteq handled'[p]
    BY DEF DroppedHaveNoImpact
  <2>1. 0 .. stored[p] - 1 \subseteq handled[p]
    BY DEF DroppedHaveNoImpact
  <2>2. stored[p] \in Nat /\ committed[p] \in Nat /\ LogEnd \in Nat
    BY OffsetType, ConsumerGroupAssumption DEF KeyInv, IInv
  <2>3. CASE Delivery(p)!Next
    <3>1. CASE Delivery(p)!Accept
      <4>1. PICK next \in stored[p] + 1 .. LogEnd :
              handled'[p] = handled[p] \union (stored[p] .. next - 1) /\ stored'[p] = next
        BY <3>1 DEF Delivery!Accept
      <4> QED
        BY <2>1, <2>2, <4>1
    <3>2. CASE Delivery(p)!Commit
      BY <2>1, <3>2 DEF Delivery!Commit
    <3>3. CASE Delivery(p)!FallBack
      BY <2>1, <2>2, <3>3 DEF Delivery!FallBack
    <3>4. CASE Delivery(p)!CommitAndFallBack
      BY <2>1, <2>2, <3>4 DEF Delivery!CommitAndFallBack
    <3> QED
      BY <2>3, <3>1, <3>2, <3>3, <3>4 DEF Delivery!Next
  <2>4. CASE stored'[p] = stored[p] /\ handled'[p] = handled[p]
    BY <2>1, <2>4
  <2>5. CASE Next
    <3>1. Delivery(p)!Next \/ UNCHANGED Delivery(p)!vars
      BY <2>5, StepDelivers
    <3> QED
      BY <2>3, <2>4, <3>1 DEF Delivery!vars
  <2>6. CASE UNCHANGED vars
    BY <2>4, <2>6 DEF vars, offsetVars
  <2> QED
    BY <2>5, <2>6
<1> QED
  BY <1>1, <1>2, KeyInvariance, PTL DEF Spec

\* An assignment, a revocation and the death of a consumer are never forgotten: each is
\* in the group's mailbox or in its hands until it is dealt with, over any crashes, kills and
\* failing init/4s.  That the messages are handled in the end is RevokeAnswered and
\* AssignedIsDrained.
THEOREM NothingIsForgotten == Spec => []NothingForgotten
<1>1. SeenInv /\ [Next]_vars => SeenInv'
  BY StepSeen DEF AnyNext
<1> QED
  BY <1>1, SeenForgetsNothing, InitSeen, PTL DEF Spec

-----------------------------------------------------------------------------
(* The end of a group *)

\* terminate/2 has so many consumers left to stop, and of the one it is at, to ask or
\* to wait for; then the client has three steps to take.
FewerToStop == \/ /\ task' = "terminate" /\ todo' = todo
                  /\ waiting = Nobody /\ waiting' # Nobody
               \/ task' = "terminate" /\ todo' \subseteq todo /\ todo' # todo
               \/ todo = {} /\ group' = "closing" /\ client' = "stopping"

ClientSteps == {<<"stopping", "closing">>, <<"closing", "cleared">>, <<"cleared", "closed">>}

\* Once it terminates, a group does nothing else: each step of its process brings it nearer
\* to its end, and no consumer, rebalance or closing thread takes it back.  In
\* particular librdkafka begins no assignment that notifier_->remove would wait for.
OnlyEnds ==
    /\ task = "terminate" => FewerToStop \/ UNCHANGED <<group, task, todo, waiting>>
    /\ task = "terminate" /\ Group => FewerToStop
    /\ group = "closing" =>
          \/ group' = "closing" /\ (client' = client \/ <<client, client'>> \in ClientSteps)
          \/ group' \in {"down", "ended"} /\ client \in {"closing", "cleared", "closed"}
    /\ client = "stopping" /\ join' = "assigning" => join = "assigning" /\ toAdd' \subseteq toAdd

\* A step of the group's process while it terminates.
LEMMA GroupStepEnds == ASSUME IInv, task = "terminate", Group PROVE FewerToStop
<1>1. group = "running" /\ (waiting # Nobody => waiting[1] \in todo) /\ todo \subseteq Partitions
  BY DEF IInv, TypeOK, ControlInv, StopInv
<1>2. ASSUME NEW p \in Partitions, StopConsumer(p) PROVE FewerToStop
  <2>1. CASE Consumer(p) \in alive
    BY <1>2, <2>1 DEF StopConsumer, FewerToStop, Consumer, Nobody
  <2>2. CASE Consumer(p) \notin alive
    BY <1>2, <2>2 DEF StopConsumer, FewerToStop, Consumer, QueueCleanup
  <2> QED
    BY <2>1, <2>2
<1>3. CASE StopAnswered \/ StopTimeout
  BY <1>1, <1>3 DEF StopAnswered, StopTimeout, QueueCleanup, FewerToStop
<1>4. CASE ConsumerCleanup
  BY <1>4 DEF ConsumerCleanup, FewerToStop
<1>5. ~(HandleAssign \/ HandleRevoke \/ HandleExit \/ HandleShutdown \/ RevokeCompleted)
  BY DEF HandleAssign, HandleRevoke, HandleExit, HandleShutdown, RevokeCompleted, Receive, IsNext
<1>6. ~(ClientStopped \/ Restart) /\ \A p \in Partitions : ~(StartConsumer(p) \/ StartFails(p))
  BY <1>1 DEF ClientStopped, Restart, StartConsumer, StartFails
<1> QED
  BY <1>2, <1>3, <1>4, <1>5, <1>6 DEF Group

\* A step of a group whose terminate/2 waits for its client.
LEMMA ClosingStepEnds ==
    ASSUME IInv, group = "closing", Next
    PROVE  \/ group' = "closing" /\ (client' = client \/ <<client, client'>> \in ClientSteps)
           \/ group' \in {"down", "ended"} /\ client \in {"closing", "cleared", "closed"}
<1>1. task = "none" /\ client # "open" /\ waiting = Nobody
  BY DEF IInv, TypeOK, ControlInv, StopInv, Tasks
<1>2. CASE ClientStopped \/ CloseTimeout
  BY <1>2 DEF ClientStopped, CloseTimeout, GroupEnds
<1>3. CASE Closing
  BY <1>3 DEF Closing, NotifierRemove, ClearAll, Close, ClientSteps, groupVars
<1>4. CASE UNCHANGED <<group, client>>
  BY <1>4
<1>5. Group => ClientStopped
  BY <1>1 DEF Group, HandleAssign, HandleRevoke, HandleExit, HandleShutdown, RevokeCompleted, Receive,
     IsNext, Restart, StartConsumer, StartFails, StopConsumer, StopAnswered, StopTimeout,
     ConsumerCleanup
<1>6. UNCHANGED <<group, client>> \/ Group \/ CloseTimeout \/ Closing
  BY DEF Next, Rebalance, AssignStarts, AddQueue, AssignSent, RevokeSent, RevokeRefused, Drop, Deliver,
     Crash, KillArrives, Dies, Stops, SendShutdown, AutoCommit, groupVars, clientVars
<1> QED
  BY <1>2, <1>3, <1>4, <1>5, <1>6

\* The end of a group can only be waited for, never undone, whatever its consumers and
\* librdkafka do meanwhile: with the fairness of the run, GroupStops.
THEOREM EndIsNotUndone == Spec => [][OnlyEnds]_vars
<1>1. IInv /\ [Next]_vars => OnlyEnds \/ UNCHANGED vars
  <2> SUFFICES ASSUME IInv, Next PROVE OnlyEnds
    OBVIOUS
  <2>1. ASSUME task = "terminate" PROVE FewerToStop \/ UNCHANGED <<group, task, todo, waiting>>
    <3>1. group = "running" /\ client = "open"
      BY <2>1 DEF IInv, ControlInv
    <3>2. ~CloseTimeout /\ ~Closing
      BY <3>1 DEF CloseTimeout, Closing, NotifierRemove, ClearAll, Close
    <3>3. UNCHANGED <<group, task, todo, waiting>> \/ Group \/ CloseTimeout \/ Closing
      BY DEF Next, Rebalance, AssignStarts, AddQueue, AssignSent, RevokeSent, RevokeRefused, Drop,
         Deliver, Crash, KillArrives, Dies, Stops, SendShutdown, AutoCommit, groupVars
    <3> QED
      BY <2>1, <3>2, <3>3, GroupStepEnds
  <2>2. task = "terminate" /\ Group => FewerToStop
    BY GroupStepEnds
  <2>3. ASSUME client = "stopping", join' = "assigning"
        PROVE  join = "assigning" /\ toAdd' \subseteq toAdd
    <3>1. group # "running" /\ task = "none"
      BY <2>3 DEF IInv, TypeOK, ControlInv, Tasks
    <3>2. CASE UNCHANGED <<join, toAdd>>
      BY <2>3, <3>2
    <3>3. UNCHANGED <<join, toAdd>> \/ (join = "assigning" /\ toAdd' \subseteq toAdd)
          \/ join' # "assigning"
      BY <2>3, <3>1
      DEF Next, Rebalance, AssignStarts, AddQueue, AssignSent, RevokeSent, RevokeRefused, Drop,
          Deliver, Crash, KillArrives, Dies, Stops, SendShutdown, AutoCommit, CloseTimeout, Closing,
          NotifierRemove, ClearAll, Close, GroupEnds, Group, HandleAssign, HandleRevoke, HandleExit,
          HandleShutdown, RevokeCompleted, Receive, IsNext, Restart, StartConsumer, StartFails,
          StopConsumer, StopAnswered, StopTimeout, QueueCleanup, ConsumerCleanup, ClientStopped,
          clientVars
    <3> QED
      BY <2>3, <3>2, <3>3
  <2> QED
    BY <2>1, <2>2, <2>3, ClosingStepEnds DEF OnlyEnds
<1> QED
  BY <1>1, Invariance, PTL DEF Spec
=============================================================================
