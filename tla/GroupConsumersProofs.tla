------------------------ MODULE GroupConsumersProofs ------------------------
(***************************************************************************)
(* Theorems about GroupConsumers, for any partitions, logs, batches,       *)
(* rebalances and restarts: what consumers have in hand is neither lost    *)
(* nor overtaken, however long they outlast their assignment.              *)
(***************************************************************************)
EXTENDS GroupConsumers, ConsumerGroupProofs

-----------------------------------------------------------------------------
(* The inductive invariant: to that of ConsumerGroup it adds the consumers' hands *)

WorkType ==
    /\ mode \in Modes /\ work \in [Consumers -> Works]
    /\ first \in [Consumers -> 0 .. LogEnd] /\ last \in [Consumers -> 0 .. LogEnd]

\* Only a process has work, and with it at least one message in hand.
BusyInv == \A c \in Consumers : work[c] # "loop" => c \in alive /\ first[c] < last[c]

WorkInv == IInv /\ WorkType /\ BusyInv

\* The messages of the partition below the offset were accepted.
Accepted(p, offset) == 0 .. offset - 1 \subseteq handled[p]

\* What a consumer has in hand follows what was accepted, and the current one has it
\* up to the position.
HandInv == \A c \in Consumers : work[c] # "loop" =>
    /\ Accepted(c[1], first[c])
    /\ work[c] = "store" => Accepted(c[1], Stored(c))
    /\ c \in alive \ told /\ c[1] \in assigned /\ queue[c] = "private" => last[c] = position[c[1]]

\* The consumer of the last assignment is still to be started; that it is to poll.
Unstarted(p) == \/ join = "assigning"
                \/ group = "running" /\ (Pending \/ (task = "assign" /\ p \in todo))
ToPoll(c)    == c \in alive \ told /\ work[c] = "loop"

UnstartedInv == \A p \in Partitions : Unstarted(p) => <<p, round>> \notin alive \ told

\* While nobody has messages of the partition in hand, and somebody may poll, the
\* position has not left the accepted messages behind.
NoneInHand(p) == p \in assigned =>
    \/ p \in toAdd
    \/ queue[<<p, round>>] = "private" /\ (Unstarted(p) \/ ToPoll(<<p, round>>))

PositionInv == \A p \in Partitions : NoneInHand(p) => Accepted(p, position[p])

StoredInv == \A p \in Partitions : Accepted(p, stored[p]) /\ Accepted(p, committed[p])

DeliverInv == HandInv /\ UnstartedInv /\ PositionInv /\ StoredInv
-----------------------------------------------------------------------------
(* The steps of the group's own invariant *)

\* The group's invariant is not about the offsets.
LEMMA OffsetsOnly ==
    ASSUME IInv, UNCHANGED <<groupVars, mailbox, consumerVars, clientVars>>,
           position' \in [Partitions -> 0 .. LogEnd], stored' \in [Partitions -> 0 .. LogEnd],
           committed' \in [Partitions -> 0 .. LogEnd],
           handled' \in [Partitions -> SUBSET (0 .. LogEnd - 1)]
    PROVE  IInv'
<1> USE DEF IInv, groupVars, consumerVars, clientVars
<1>1. Active' = Active /\ Inbox' = Inbox /\ (Pending' <=> Pending)
  BY DEF Active, Inbox, Pending, IsAssign
<1>2. TypeOK'
  BY DEF TypeOK
<1>3. ControlInv' /\ MapInv' /\ RoundInv'
  BY <1>1 DEF ControlInv, MapInv, RoundInv
<1>4. MailboxInv'
  BY <1>1 DEF MailboxInv, IsAssign, IsRevoke
<1>5. StopInv' /\ QueueInv'
  BY <1>1 DEF StopInv, QueueInv, Consumer
<1> QED
  BY <1>2, <1>3, <1>4, <1>5

\* What the composition takes from ConsumerGroup: its steps, with a consumer that dies
\* in its callback or over a failed store as one that dies when it likes.
LEMMA DiesIsNext == ASSUME NEW c \in Consumers, Dies(c) PROVE AnyNext
  BY DEF AnyNext

LEMMA GroupStepIsNext == GroupStep => AnyNext
  BY DEF GroupStep, Next, AnyNext

LEMMA StopsIsNext == ASSUME NEW c \in Consumers, Stops(c) \/ KillArrives(c) PROVE AnyNext
  BY DEF Next, AnyNext
-----------------------------------------------------------------------------
(* The consumers' hands *)

\* A process that has messages in hand has at least one, and so much it may store.
LEMMA InHand ==
    ASSUME WorkInv, NEW c \in Consumers
    PROVE  /\ c[1] \in Partitions /\ c[2] \in Rounds /\ c = <<c[1], c[2]>>
           /\ first[c] \in 0 .. LogEnd /\ last[c] \in 0 .. LogEnd /\ LogEnd \in Nat
           /\ work[c] \in Works
           /\ work[c] # "loop" => /\ first[c] < last[c] /\ Stored(c) \in first[c] + 1 .. last[c]
                                  /\ mode = "one_by_one" => Stored(c) = first[c] + 1
                                  /\ mode # "one_by_one" => Stored(c) = last[c]
<1>1. c[1] \in Partitions /\ c[2] \in Rounds /\ c = <<c[1], c[2]>>
  BY DEF Consumers
<1>2. first[c] \in 0 .. LogEnd /\ last[c] \in 0 .. LogEnd /\ LogEnd \in Nat /\ work[c] \in Works
  BY ConsumerGroupAssumption DEF WorkInv, WorkType
<1>3. work[c] # "loop" => first[c] < last[c]
  BY DEF WorkInv, BusyInv
<1> QED
  BY <1>1, <1>2, <1>3 DEF Stored

LEMMA SurviveKeeps == WorkInv /\ Survive => WorkType' /\ BusyInv'
<1> SUFFICES ASSUME WorkInv, Survive PROVE WorkType' /\ BusyInv'
  OBVIOUS
<1>1. 0 \in 0 .. LogEnd /\ "loop" \in Works
  BY ConsumerGroupAssumption DEF Works
<1> QED
  BY <1>1 DEF WorkInv, WorkType, BusyInv, Survive

LEMMA InitWork == ComposedInit => WorkInv
<1> SUFFICES ASSUME ComposedInit PROVE WorkInv
  OBVIOUS
<1>1. IInv
  BY InitIInv DEF ComposedInit
<1>2. 0 \in 0 .. LogEnd /\ "loop" \in Works
  BY ConsumerGroupAssumption DEF Works
<1>3. WorkType /\ BusyInv
  BY <1>2 DEF ComposedInit, WorkType, BusyInv
<1> QED
  BY <1>1, <1>3 DEF WorkInv

\* The group's invariant, the types and the messages in hand are kept by every step.
LEMMA StepWork == WorkInv /\ [ComposedNext]_allVars => WorkInv'
<1> SUFFICES ASSUME WorkInv, [ComposedNext]_allVars PROVE WorkInv'
  OBVIOUS
<1> USE DEF WorkInv
<1>0. /\ position \in [Partitions -> 0 .. LogEnd] /\ stored \in [Partitions -> 0 .. LogEnd]
      /\ committed \in [Partitions -> 0 .. LogEnd]
      /\ handled \in [Partitions -> SUBSET (0 .. LogEnd - 1)]
  BY OffsetType DEF IInv, TypeOK
<1>1. CASE GroupStep /\ Survive
  BY <1>1, GroupStepIsNext, StepIInv, SurviveKeeps
<1>2. ASSUME NEW c \in Consumers, Poll(c) PROVE WorkInv'
  <2>1. PICK next \in position[c[1]] + 1 .. LogEnd :
           /\ Takes(c, position[c[1]], next)
           /\ position' = [position EXCEPT ![c[1]] = next]
    BY <1>2 DEF Poll
  <2>2. c[1] \in Partitions /\ LogEnd \in Nat
    BY InHand
  <2>3. /\ position[c[1]] \in 0 .. LogEnd /\ next \in 0 .. LogEnd /\ position[c[1]] < next
        /\ position' \in [Partitions -> 0 .. LogEnd]
    BY <1>0, <2>1, <2>2
  <2>4. /\ UNCHANGED <<groupVars, mailbox, consumerVars, clientVars, stored, committed, handled,
                       mode>>
        /\ work' = [work EXCEPT ![c] = "process"] /\ c \in alive
    BY <1>2 DEF Poll
  <2>5. IInv'
    BY <1>0, <2>3, <2>4, OffsetsOnly
  <2>6. WorkType' /\ BusyInv'
    BY <2>1, <2>3, <2>4 DEF WorkType, BusyInv, Takes, Works, consumerVars
  <2> QED
    BY <2>5, <2>6
<1>3. ASSUME NEW c \in Consumers, ProcessMessages(c) \/ RecvNothing(c) \/ CallbackError(c)
      PROVE  WorkInv'
  <2>1. /\ UNCHANGED <<vars, mode, first, last>> /\ work[c] # "loop"
        /\ \E to \in Works : work' = [work EXCEPT ![c] = to]
    BY <1>3 DEF ProcessMessages, RecvNothing, CallbackError, Goes, Works
  <2>2. IInv'
    BY <1>0, <2>1, OffsetsOnly DEF vars, offsetVars
  <2>3. WorkType' /\ BusyInv'
    BY <2>1 DEF WorkType, BusyInv, vars, consumerVars
  <2> QED
    BY <2>2, <2>3
<1>4. ASSUME NEW c \in Consumers, CallbackOk(c) PROVE WorkInv'
  <2>1. /\ UNCHANGED <<groupVars, mailbox, consumerVars, clientVars, position, stored, committed,
                       mode, first, last>>
        /\ work' = [work EXCEPT ![c] = "store"] /\ work[c] # "loop"
    BY <1>4 DEF CallbackOk, Goes
  <2>2. handled' = [handled EXCEPT ![c[1]] = handled[c[1]] \union
                      IF mode = "one_by_one" THEN {first[c]} ELSE first[c] .. last[c] - 1]
    BY <1>4 DEF CallbackOk
  <2>3. handled' \in [Partitions -> SUBSET (0 .. LogEnd - 1)]
    BY <1>0, <2>1, <2>2, InHand
  <2>4. IInv'
    BY <1>0, <2>1, <2>3, OffsetsOnly
  <2>5. WorkType' /\ BusyInv'
    BY <2>1 DEF WorkType, BusyInv, Works, consumerVars
  <2> QED
    BY <2>4, <2>5
<1>5. ASSUME NEW c \in Consumers, CallbackRaises(c) \/ StoreFails(c) PROVE WorkInv'
  BY <1>5, DiesIsNext, StepIInv, SurviveKeeps DEF CallbackRaises, StoreFails
<1>6. ASSUME NEW c \in Consumers, StoreOffset(c) PROVE WorkInv'
  <2>1. /\ UNCHANGED <<groupVars, mailbox, consumerVars, clientVars, position, committed, handled,
                       mode>>
        /\ work[c] = "store" /\ stored' = [stored EXCEPT ![c[1]] = Stored(c)]
        /\ IF Stored(c) < last[c]
             THEN work' = [work EXCEPT ![c] = "recv"] /\ Takes(c, Stored(c), last[c])
             ELSE work' = [work EXCEPT ![c] = "loop"] /\ Takes(c, 0, 0)
    BY <1>6 DEF StoreOffset
  <2>2. /\ Stored(c) \in 0 .. LogEnd /\ last[c] \in 0 .. LogEnd /\ 0 \in 0 .. LogEnd
        /\ c[1] \in Partitions /\ {"recv", "loop"} \subseteq Works
    BY <2>1, InHand DEF Works
  <2>3. stored' \in [Partitions -> 0 .. LogEnd]
    BY <1>0, <2>1, <2>2
  <2>4. IInv'
    BY <1>0, <2>1, <2>3, OffsetsOnly
  <2>5. WorkType' /\ BusyInv'
    BY <2>1, <2>2 DEF WorkType, BusyInv, Takes, consumerVars
  <2> QED
    BY <2>4, <2>5
<1>7. ASSUME NEW c \in Consumers, StopFound(c) PROVE WorkInv'
  BY <1>7, StopsIsNext, StepIInv, SurviveKeeps DEF StopFound
<1>8. ASSUME NEW c \in Consumers, KillArrives(c) /\ Survive PROVE WorkInv'
  BY <1>8, StopsIsNext, StepIInv, SurviveKeeps
<1>9. CASE UNCHANGED allVars
  <2>1. IInv'
    BY <1>0, <1>9, OffsetsOnly DEF allVars, vars, offsetVars
  <2>2. WorkType' /\ BusyInv'
    BY <1>9 DEF WorkType, BusyInv, allVars, workVars, vars, consumerVars
  <2> QED
    BY <2>1, <2>2
<1> QED
  BY <1>1, <1>2, <1>3, <1>4, <1>5, <1>6, <1>7, <1>8, <1>9 DEF ComposedNext, Step

LEMMA WorkInvariance == ComposedSpec => []WorkInv
  BY InitWork, StepWork, PTL DEF ComposedSpec
-----------------------------------------------------------------------------
(* The group beside consumers that have messages in hand *)

\* A step of the composition is one of the group's, with a consumer that may die when it
\* likes, or a consumer's with its messages, which the group does not see.
Unseen == UNCHANGED <<groupVars, mailbox, consumerVars, clientVars>>

LEMMA SeenOrUnseen == [ComposedNext]_allVars => [AnyNext]_vars \/ Unseen
<1> SUFFICES ASSUME [ComposedNext]_allVars PROVE AnyNext \/ UNCHANGED vars \/ Unseen
  OBVIOUS
<1>1. CASE GroupStep /\ Survive
  BY <1>1, GroupStepIsNext
<1>2. ASSUME NEW c \in Consumers, Poll(c) \/ CallbackOk(c) \/ StoreOffset(c) PROVE Unseen
  BY <1>2 DEF Poll, CallbackOk, StoreOffset, Unseen
<1>3. ASSUME NEW c \in Consumers, ProcessMessages(c) \/ RecvNothing(c) \/ CallbackError(c)
      PROVE  UNCHANGED vars
  BY <1>3 DEF ProcessMessages, RecvNothing, CallbackError
<1>4. ASSUME NEW c \in Consumers, CallbackRaises(c) \/ StoreFails(c) PROVE AnyNext
  BY <1>4, DiesIsNext DEF CallbackRaises, StoreFails
<1>5. ASSUME NEW c \in Consumers, StopFound(c) \/ KillArrives(c) PROVE AnyNext
  BY <1>5, StopsIsNext DEF StopFound
<1>6. CASE UNCHANGED allVars
  BY <1>6 DEF allVars
<1> QED
  BY <1>1, <1>2, <1>3, <1>4, <1>5, <1>6 DEF ComposedNext, Step

\* What such a step keeps: the group's invariants are about what it sees.
LEMMA UnseenKeeps ==
    ASSUME Unseen
    PROVE  /\ OwnInv => OwnInv'
           /\ ExitInv => ExitInv'
           /\ RevocationUnderWay => RevocationUnderWay'
           /\ DeathsAreSeen => DeathsAreSeen'
<1> USE DEF Unseen, groupVars, consumerVars, clientVars
<1>1. Active' = Active /\ Inbox' = Inbox
  BY DEF Active, Inbox
<1>2. OwnInv => OwnInv'
  BY <1>1 DEF OwnInv
<1>3. ExitInv => ExitInv'
  BY <1>1 DEF ExitInv, IsCrash, IsAssign
<1>4. RevocationUnderWay => RevocationUnderWay'
  BY <1>1 DEF RevocationUnderWay
<1>5. DeathsAreSeen => DeathsAreSeen'
  BY <1>1 DEF DeathsAreSeen, ExitUnderWay, Consumer
<1> QED
  BY <1>2, <1>3, <1>4, <1>5

\* Whatever its consumers have in hand, the group finds the partitions it is to give up
\* in its map and gives back every queue before the client is closed, and neither an
\* assignment, nor a revocation, nor a death is forgotten.
THEOREM GroupAmongConsumers == ComposedSpec =>
    [](RevokedAreActive /\ QueuesReturned /\ NothingForgotten)
<1>1. ComposedInit => WorkInv /\ SeenInv
  BY InitWork, InitSeen DEF ComposedInit
<1>2. WorkInv /\ SeenInv /\ [ComposedNext]_allVars => WorkInv' /\ SeenInv'
  <2> SUFFICES ASSUME WorkInv, SeenInv, [ComposedNext]_allVars PROVE WorkInv' /\ SeenInv'
    OBVIOUS
  <2>1. WorkInv'
    BY StepWork
  <2>2. CASE [AnyNext]_vars
    BY <2>1, <2>2, StepSeen
  <2>3. CASE Unseen
    BY <2>1, <2>3, UnseenKeeps DEF WorkInv, SeenInv
  <2> QED
    BY <2>1, <2>2, <2>3, SeenOrUnseen
<1>3. WorkInv /\ SeenInv => RevokedAreActive /\ QueuesReturned /\ NothingForgotten
  BY KnownPartitions, ReturnedQueues, SeenForgetsNothing DEF WorkInv
<1> QED
  BY <1>1, <1>2, <1>3, PTL DEF ComposedSpec

\* Nor do messages in hand, or a consumer that outlasts its stop with them, let another
\* consumer poll a queue that is not its own, close the client under a consumer that was
\* not killed, or make the group restart over the crash of an earlier consumer, provided
\* no init/4 fails.
THEOREM OwnQueuesAmongConsumers == ASSUME ~InitFails PROVE ComposedSpec =>
    [](PollsOwnQueue /\ ConsumersEndFirst /\ BlamesCurrentConsumer)
<1>1. ComposedInit => WorkInv /\ OkInv
  BY InitWork, InitOk DEF ComposedInit
<1>2. WorkInv /\ OkInv /\ [ComposedNext]_allVars => WorkInv' /\ OkInv'
  <2> SUFFICES ASSUME WorkInv, OkInv, [ComposedNext]_allVars PROVE WorkInv' /\ OkInv'
    OBVIOUS
  <2>1. WorkInv'
    BY StepWork
  <2>2. CASE [AnyNext]_vars
    BY <2>1, <2>2, StepOkInv
  <2>3. CASE Unseen
    BY <2>1, <2>3, UnseenKeeps DEF WorkInv, OkInv
  <2> QED
    BY <2>1, <2>2, <2>3, SeenOrUnseen
<1>3. OkInv => PollsOwnQueue /\ ConsumersEndFirst /\ BlamesCurrentConsumer
  BY PolledQueues, EndedConsumers, BlamedConsumers
<1> QED
  BY <1>1, <1>2, <1>3, PTL DEF ComposedSpec

\* One process at a time handles a partition: a consumer is started when the one
\* before it has ended, or was killed because its stop took too long.
THEOREM HandlersAlone == ComposedSpec => []OneHandler
<1>1. WorkInv => OneHandler
  <2> SUFFICES ASSUME WorkInv, NEW c \in alive \ killed, NEW d \in alive \ killed, c[1] = d[1]
               PROVE  c = d
    BY DEF OneHandler
  <2> USE DEF WorkInv, IInv
  <2>1. /\ c \in Consumers /\ d \in Consumers
        /\ c = <<c[1], c[2]>> /\ d = <<d[1], d[2]>>
    BY InHand DEF TypeOK
  <2>2. ASSUME NEW e \in alive \ killed, e \in Consumers, e = <<e[1], e[2]>> PROVE e[2] = round
    <3>1. CASE e \notin told
      BY <2>2, <3>1 DEF RoundInv
    <3>2. CASE e \in told
      <4>1. e = waiting
        BY <2>2, <3>2 DEF StopInv
      <4>2. waiting # Nobody
        <5>1. Len(<<e[1], e[2]>>) = 2 /\ Len(Nobody) = 0
          BY DEF Nobody
        <5> QED
          BY <2>2, <4>1, <5>1
      <4>3. task \in {"revoke", "terminate"} /\ e[1] \in todo /\ e = Consumer(e[1])
        BY <4>1, <4>2 DEF StopInv
      <4>4. group = "running" /\ e[1] \in Active
        BY <4>3 DEF ControlInv, MapInv
      <4>5. active[e[1]] = round
        BY <4>4, ActiveAssigned
      <4> QED
        BY <4>3, <4>5 DEF Consumer
    <3> QED
      BY <3>1, <3>2
  <2> QED
    BY <2>1, <2>2
<1> QED
  BY <1>1, WorkInvariance, PTL
-----------------------------------------------------------------------------
(* Delivery: the steps of the group *)

\* A step that hands nothing out: nobody gains messages, a queue or a consumer.
Quiet == /\ UNCHANGED <<position, stored, handled, round, assigned, toAdd>>
         /\ \A p \in Partitions : committed'[p] \in {committed[p], Newer(p)}
         /\ \A c \in Consumers : queue'[c] = "private" => queue[c] = "private"
         /\ alive' \ told' \subseteq alive \ told
         /\ \A p \in Partitions : Unstarted(p)' => Unstarted(p)

\* The assignment is dropped and delivery falls back to what is committed.
FallsBack == /\ Rewind(assigned) /\ assigned' = {} /\ UNCHANGED <<handled, round, alive, told>>
             /\ \A p \in Partitions : Unstarted(p)' => Unstarted(p)

\* Unstarted is about these.
LEMMA UnstartedKept ==
    ASSUME UNCHANGED <<join, group, task, todo, mailbox>>
    PROVE  \A p \in Partitions : Unstarted(p)' <=> Unstarted(p)
  BY DEF Unstarted, Pending, IsAssign, Inbox

\* A message other than an assignment is received, or sent.
LEMMA UnstartedReceived ==
    ASSUME IInv, NEW kind, Receive(kind), kind # "assign", UNCHANGED <<join, group>>,
           task' # "assign"
    PROVE  \A p \in Partitions : Unstarted(p)' => Unstarted(p)
  BY ReceivedPending DEF IInv, Unstarted

LEMMA UnstartedSent ==
    ASSUME IInv, NEW msg \in Messages, msg.kind # "assign", mailbox' = Sent(msg),
           UNCHANGED <<group, task, todo>>, join' = "assigning" => join = "assigning"
    PROVE  \A p \in Partitions : Unstarted(p)' => Unstarted(p)
  BY PostedPending DEF IInv, Unstarted

\* terminate/2 ends, and with it all that was to be started or to be polled.
LEMMA GroupEndsQuietly == ASSUME IInv, GroupEnds PROVE Quiet
<1>1. /\ UNCHANGED <<position, stored, committed, handled, round, assigned, toAdd, join>>
      /\ alive' = {} /\ group' # "running"
      /\ queue' = [c \in Consumers |-> IF queue[c] = "private" THEN "destroyed" ELSE queue[c]]
  BY DEF GroupEnds, offsetVars
<1>2. \A c \in Consumers : queue'[c] = "private" => queue[c] = "private"
  BY <1>1
<1>3. \A p \in Partitions : Unstarted(p)' => Unstarted(p)
  BY <1>1 DEF Unstarted
<1> QED
  BY <1>1, <1>2, <1>3 DEF Quiet

\* Most steps of the group are quiet; four fall back; four others hand out
\* partitions, queues or messages.
LEMMA GroupMoves ==
    ASSUME IInv, IInv', GroupStep
    PROVE  \/ \E parts \in SUBSET Partitions : AssignStarts(parts)
           \/ \E p \in Partitions : AddQueue(p) \/ Drop(p) \/ StartConsumer(p)
           \/ FallsBack \/ Quiet
<1> USE DEF IInv, groupVars, consumerVars, clientVars, offsetVars
<1>t. queue \in [Consumers -> QueueStates]
  BY DEF TypeOK
<1>1. AssignSent => Quiet
  <2> SUFFICES ASSUME AssignSent PROVE Quiet
    OBVIOUS
  <2>1. /\ UNCHANGED <<position, stored, committed, handled, round, assigned, toAdd, queue, alive,
                       told>>
        /\ join = "assigning"
    BY DEF AssignSent
  <2> QED
    BY <2>1 DEF Quiet, Unstarted
<1>2. RevokeSent => Quiet
  <2> SUFFICES ASSUME RevokeSent PROVE Quiet
    OBVIOUS
  <2>1. /\ UNCHANGED <<position, stored, committed, handled, round, assigned, toAdd, queue, alive,
                       told, group, task, todo>>
        /\ mailbox' = Sent(Revoke(assigned)) /\ join' # "assigning"
    BY DEF RevokeSent
  <2>2. Revoke(assigned) \in Messages /\ Revoke(assigned).kind # "assign"
    BY MessagesSent DEF TypeOK, Revoke
  <2> QED
    BY <2>1, <2>2, UnstartedSent DEF Quiet
<1>3. RevokeRefused \/ Close => FallsBack
  <2> SUFFICES ASSUME RevokeRefused \/ Close PROVE FallsBack
    OBVIOUS
  <2>1. /\ Rewind(assigned) /\ assigned' = {} /\ UNCHANGED <<handled, round, alive, told, group>>
        /\ client # "open" /\ join' = "none"
    BY DEF RevokeRefused, Close
  <2>2. group' # "running"
    BY <2>1 DEF ControlInv
  <2> QED
    BY <2>1, <2>2 DEF FallsBack, Unstarted
<1>4. RevokeCompleted => FallsBack
  <2> SUFFICES ASSUME RevokeCompleted PROVE FallsBack
    OBVIOUS
  <2>1. /\ Rewind(assigned) /\ assigned' = {} /\ UNCHANGED <<handled, round, alive, told, group>>
        /\ UNCHANGED mailbox /\ task' = "none" /\ join' = "none"
    BY DEF RevokeCompleted
  <2>2. Pending' <=> Pending
    BY <2>1 DEF Pending, IsAssign, Inbox
  <2> QED
    BY <2>1, <2>2 DEF FallsBack, Unstarted
<1>5. Restart => FallsBack
  <2> SUFFICES ASSUME Restart PROVE FallsBack
    OBVIOUS
  <2>1. /\ Rewind(assigned) /\ assigned' = {} /\ UNCHANGED <<handled, round, alive, told, task>>
        /\ UNCHANGED mailbox /\ group = "down" /\ join' = "none"
    BY DEF Restart
  <2>2. task' # "assign" /\ mailbox' = << >>
    BY <2>1 DEF ControlInv
  <2>3. ~Pending'
    BY <2>2 DEF Pending, Inbox
  <2> QED
    BY <2>1, <2>2, <2>3 DEF FallsBack, Unstarted
<1>6. HandleAssign => Quiet
  <2> SUFFICES ASSUME HandleAssign PROVE Quiet
    OBVIOUS
  <2>1. UNCHANGED <<position, stored, committed, handled, round, assigned, toAdd, queue, alive,
                    told>> /\ Receive("assign")
    BY DEF HandleAssign
  <2>2. group = "running" /\ Pending
    BY <2>1, ReceivedPending DEF Receive, IsNext
  <2> QED
    BY <2>1, <2>2 DEF Quiet, Unstarted
<1>7. HandleRevoke \/ HandleExit \/ HandleShutdown => Quiet
  <2> SUFFICES ASSUME HandleRevoke \/ HandleExit \/ HandleShutdown PROVE Quiet
    OBVIOUS
  <2>1. /\ UNCHANGED <<position, stored, committed, handled, round, assigned, toAdd, queue, alive,
                       told, join, group>>
        /\ \E kind \in {"revoke", "EXIT", "shutdown"} : Receive(kind)
        /\ task' # "assign"
    BY DEF HandleRevoke, HandleExit, HandleShutdown, Terminates, Receive, IsNext
  <2>2. \A p \in Partitions : Unstarted(p)' => Unstarted(p)
    BY <2>1, UnstartedReceived
  <2> QED
    BY <2>1, <2>2 DEF Quiet
<1>8. ASSUME NEW p \in Partitions, StartFails(p) PROVE Quiet
  <2>1. /\ UNCHANGED <<position, stored, committed, handled, round, assigned, toAdd, queue, alive,
                       told, join, group, mailbox>>
        /\ task' = "terminate"
    BY <1>8 DEF StartFails, Terminates
  <2>2. Pending' <=> Pending
    BY <2>1 DEF Pending, IsAssign, Inbox
  <2> QED
    BY <2>1, <2>2 DEF Quiet, Unstarted
<1>9. ASSUME (\E p \in Partitions : StopConsumer(p)) \/ StopAnswered \/ StopTimeout PROVE Quiet
  <2>1. /\ UNCHANGED <<position, stored, committed, handled, round, assigned, toAdd, alive, join,
                       group, task, mailbox>>
        /\ told \subseteq told' /\ todo' \subseteq todo
        /\ queue' = queue \/ \E c : queue' = [queue EXCEPT ![c] = "destroyed"]
    BY <1>9 DEF StopConsumer, StopAnswered, StopTimeout, QueueCleanup
  <2>2. \A c \in Consumers : queue'[c] = "private" => queue[c] = "private"
    BY <1>t, <2>1
  <2>3. Pending' <=> Pending
    BY <2>1 DEF Pending, IsAssign, Inbox
  <2> QED
    BY <2>1, <2>2, <2>3 DEF Quiet, Unstarted
<1>10. ASSUME ConsumerCleanup \/ NotifierRemove PROVE Quiet
  <2>1. /\ UNCHANGED <<position, stored, committed, handled, round, assigned, toAdd, queue, alive,
                       told, join, todo, mailbox>>
        /\ UNCHANGED <<group, task>> \/ group' # "running"
    BY <1>10 DEF ConsumerCleanup, NotifierRemove
  <2>2. Pending' <=> Pending
    BY <2>1 DEF Pending, IsAssign, Inbox
  <2> QED
    BY <2>1, <2>2 DEF Quiet, Unstarted
<1>11. ASSUME ClientStopped \/ CloseTimeout PROVE Quiet
  BY <1>11, GroupEndsQuietly DEF ClientStopped, CloseTimeout
<1>12. ASSUME SendShutdown PROVE Quiet
  <2>1. /\ UNCHANGED <<position, stored, committed, handled, round, assigned, toAdd, queue, alive,
                       told, join, group, task, todo>>
        /\ mailbox' = Sent(Shutdown)
    BY <1>12 DEF SendShutdown, Sent
  <2>2. Shutdown \in Messages /\ Shutdown.kind # "assign"
    BY MessagesSent DEF Shutdown
  <2> QED
    BY <2>1, <2>2, UnstartedSent DEF Quiet
<1>13. ASSUME ClearAll PROVE Quiet
  <2>1. /\ UNCHANGED <<position, stored, committed, handled, round, assigned, toAdd, alive, told,
                       join, group, task, todo, mailbox>>
        /\ queue' = [c \in Consumers |-> IF queue[c] = "private" THEN "forwarded" ELSE queue[c]]
    BY <1>13 DEF ClearAll
  <2>2. \A c \in Consumers : queue'[c] = "private" => queue[c] = "private"
    BY <2>1
  <2> QED
    BY <2>1, <2>2, UnstartedKept DEF Quiet
<1>14. ASSUME AutoCommit PROVE Quiet
  <2>1. /\ UNCHANGED <<position, stored, handled, round, assigned, toAdd, queue, alive, told,
                       join, group, task, todo, mailbox>>
        /\ committed' = [p \in Partitions |-> Newer(p)]
    BY <1>14 DEF AutoCommit
  <2>2. \A p \in Partitions : committed'[p] \in {committed[p], Newer(p)}
    BY <2>1
  <2> QED
    BY <2>1, <2>2, UnstartedKept DEF Quiet
<1> QED
  BY <1>1, <1>2, <1>3, <1>4, <1>5, <1>6, <1>7, <1>8, <1>9, <1>10, <1>11, <1>12, <1>13, <1>14
  DEF GroupStep, Rebalance, Group, Closing
\* What survives a step of the group is as it was.
LEMMA Survivors ==
    ASSUME WorkInv, Survive, NEW c \in Consumers
    PROVE  /\ c \in alive' => work'[c] = work[c] /\ first'[c] = first[c] /\ last'[c] = last[c]
           /\ work'[c] # "loop" => c \in alive' /\ work[c] # "loop"
           /\ mode' = mode
           /\ work'[c] # "loop" => Stored(c)' = Stored(c)
  BY DEF Survive, Stored

\* The consumers of the last assignment, by partition.
LEMMA LastConsumer ==
    ASSUME WorkInv, NEW p \in assigned
    PROVE  p \in Partitions /\ <<p, round>> \in Consumers
  BY PairsAreConsumers DEF WorkInv, IInv, TypeOK

LEMMA QuietDelivers ==
    ASSUME WorkInv, DeliverInv, Survive, Quiet
    PROVE  DeliverInv'
<1> USE DEF Quiet
<1>1. HandInv'
  BY Survivors DEF DeliverInv, HandInv, Accepted
<1>2. UnstartedInv'
  BY DEF DeliverInv, UnstartedInv
<1>3. PositionInv'
  <2> SUFFICES ASSUME NEW p \in Partitions, NoneInHand(p)' PROVE NoneInHand(p)
    BY DEF DeliverInv, PositionInv, Accepted
  <2>1. CASE p \in assigned
    <3>1. <<p, round>> \in Consumers
      BY <2>1, LastConsumer
    <3>2. ToPoll(<<p, round>>)' => ToPoll(<<p, round>>)
      BY <3>1, Survivors DEF ToPoll
    <3> QED
      BY <2>1, <3>1, <3>2 DEF NoneInHand
  <2> QED
    BY <2>1 DEF NoneInHand
<1>4. StoredInv'
  BY NewerType DEF DeliverInv, StoredInv, Accepted, WorkInv, IInv
<1> QED
  BY <1>1, <1>2, <1>3, <1>4 DEF DeliverInv

LEMMA FallBackDelivers ==
    ASSUME WorkInv, DeliverInv, Survive, FallsBack
    PROVE  DeliverInv'
<1> USE DEF FallsBack
<1>1. HandInv'
  BY Survivors DEF DeliverInv, HandInv, Accepted
<1>2. UnstartedInv'
  BY DEF DeliverInv, UnstartedInv
<1>3. \A p \in Partitions : /\ committed'[p] \in {committed[p], stored[p]}
                           /\ stored'[p] = committed'[p] /\ position'[p] = committed'[p]
  BY NewerType DEF Rewind, WorkInv, IInv
<1>4. PositionInv' /\ StoredInv'
  BY <1>3 DEF DeliverInv, StoredInv, PositionInv, Accepted
<1> QED
  BY <1>1, <1>2, <1>4 DEF DeliverInv

\* A new assignment: its queues are still to be taken.
LEMMA AssignStartsDelivers ==
    ASSUME WorkInv, DeliverInv, Survive, NEW parts \in SUBSET Partitions, AssignStarts(parts)
    PROVE  DeliverInv'
<1>1. /\ UNCHANGED <<position, stored, committed, handled, alive, told>>
      /\ client = "open" /\ join = "none" /\ assigned' = parts /\ toAdd' = parts
  BY DEF AssignStarts, consumerVars, offsetVars
<1>2. assigned = {} /\ alive \ told = {}
  BY <1>1 DEF WorkInv, IInv, ControlInv, RoundInv
<1>3. HandInv' /\ UnstartedInv' /\ StoredInv'
  BY <1>1, <1>2, Survivors DEF DeliverInv, HandInv, UnstartedInv, StoredInv, Accepted
<1>4. PositionInv'
  BY <1>1, <1>2 DEF DeliverInv, PositionInv, NoneInHand, Accepted
<1> QED
  BY <1>3, <1>4 DEF DeliverInv

\* A queue is taken before its consumer is started.
LEMMA AddQueueDelivers ==
    ASSUME WorkInv, DeliverInv, Survive, NEW q \in Partitions, AddQueue(q)
    PROVE  DeliverInv'
<1>1. /\ UNCHANGED <<position, stored, committed, handled, alive, told, assigned, round, join,
                     group, task, todo, mailbox>>
      /\ join = "assigning" /\ toAdd' = toAdd \ {q} /\ q \in toAdd
      /\ queue' = [queue EXCEPT ![<<q, round>>] = "private"]
  BY DEF AddQueue, consumerVars, offsetVars, groupVars
<1>2. \A p \in Partitions : Unstarted(p) /\ <<p, round>> \notin alive \ told
  BY <1>1 DEF DeliverInv, UnstartedInv, Unstarted
<1>3. \A c \in Consumers : c # <<q, round>> => queue'[c] = queue[c]
  BY <1>1 DEF WorkInv, IInv, TypeOK
<1>4. HandInv'
  BY <1>1, <1>2, <1>3, Survivors DEF DeliverInv, HandInv, Accepted
<1>5. UnstartedInv' /\ StoredInv'
  BY <1>1, <1>2 DEF DeliverInv, UnstartedInv, StoredInv, Accepted
<1>6. PositionInv'
  <2> SUFFICES ASSUME NEW p \in Partitions, NoneInHand(p)' PROVE NoneInHand(p)
    BY <1>1 DEF DeliverInv, PositionInv, Accepted
  <2>1. CASE p = q
    BY <1>1, <2>1 DEF NoneInHand
  <2>2. CASE p # q /\ p \in assigned
    <3>1. <<p, round>> \in Consumers /\ <<p, round>> # <<q, round>>
      BY <2>2, LastConsumer
    <3> QED
      BY <1>1, <1>2, <1>3, <2>2, <3>1 DEF NoneInHand
  <2>3. CASE p \notin assigned
    BY <2>3 DEF NoneInHand
  <2> QED
    BY <2>1, <2>2, <2>3
<1> QED
  BY <1>4, <1>5, <1>6 DEF DeliverInv

\* What is dropped is of a partition whose queue was given back.
LEMMA DropDelivers ==
    ASSUME ~EarlyFetch, WorkInv, DeliverInv, Survive, NEW q \in Partitions, Drop(q)
    PROVE  DeliverInv'
<1>1. /\ UNCHANGED <<stored, committed, handled, alive, told, assigned, toAdd, round, queue, join,
                     group, task, todo, mailbox>>
      /\ position' = [position EXCEPT ![q] = position[q] + 1]
      /\ q \in assigned /\ q \notin toAdd /\ queue[<<q, round>>] # "private"
  BY DEF Drop, consumerVars, clientVars, groupVars
<1>2. \A p \in Partitions : p # q => position'[p] = position[p]
  BY <1>1, OffsetType DEF WorkInv, IInv
<1>3. HandInv'
  <2>1. \A c \in alive \ told : c[2] = round
    BY DEF WorkInv, IInv, RoundInv
  <2>2. \A c \in Consumers : c[1] \in Partitions /\ c = <<c[1], c[2]>>
    BY InHand
  <2> QED
    BY <1>1, <1>2, <2>1, <2>2, Survivors DEF DeliverInv, HandInv, Accepted
<1>4. UnstartedInv' /\ StoredInv'
  BY <1>1, UnstartedKept DEF DeliverInv, UnstartedInv, StoredInv, Accepted
<1>5. PositionInv'
  <2> SUFFICES ASSUME NEW p \in Partitions, NoneInHand(p)' PROVE Accepted(p, position[p])'
    BY DEF PositionInv
  <2>1. p # q
    BY <1>1 DEF NoneInHand
  <2>2. NoneInHand(p)
    <3>1. CASE p \in assigned
      <4>1. <<p, round>> \in Consumers
        BY <3>1, LastConsumer
      <4>2. ToPoll(<<p, round>>)' => ToPoll(<<p, round>>)
        BY <1>1, <4>1, Survivors DEF ToPoll
      <4> QED
        BY <1>1, <3>1, <4>2, UnstartedKept DEF NoneInHand
    <3> QED
      BY <3>1 DEF NoneInHand
  <2> QED
    BY <1>1, <1>2, <2>1, <2>2 DEF DeliverInv, PositionInv, Accepted
<1> QED
  BY <1>3, <1>4, <1>5 DEF DeliverInv

\* A consumer is started with nothing in hand, when the one before it has ended or
\* was told to.
LEMMA StartConsumerDelivers ==
    ASSUME WorkInv, DeliverInv, Survive, NEW q \in Partitions, StartConsumer(q)
    PROVE  DeliverInv'
<1> DEFINE new == <<q, round>>
<1>1. /\ UNCHANGED <<position, stored, committed, handled, told, assigned, toAdd, round, queue,
                     join, group, mailbox>>
      /\ task = "assign" /\ q \in todo /\ todo' = todo \ {q}
      /\ alive' = alive \union {<<q, current.round>>}
      /\ task' \in {task, "none"}
  BY DEF StartConsumer, clientVars, offsetVars
<1>2. /\ group = "running" /\ current.round = round /\ ~Pending /\ join # "assigning"
      /\ q \in assigned /\ join # "none"
  BY <1>1 DEF WorkInv, IInv, ControlInv, MapInv
<1>3. new \in Consumers /\ alive' = alive \union {new}
  BY <1>1, <1>2, LastConsumer
<1>4. new \notin told
  <2>1. \A c \in told : c[2] < round
    BY <1>1, <1>2 DEF WorkInv, IInv, StopInv
  <2>2. new[2] = round /\ round \in Nat
    BY DEF WorkInv, IInv, TypeOK
  <2> QED
    BY <2>1, <2>2
<1>5. Unstarted(q) /\ new \notin alive
  BY <1>1, <1>2, <1>4 DEF DeliverInv, UnstartedInv, Unstarted
<1>6. work'[new] = "loop"
  BY <1>3, <1>5, Survivors DEF WorkInv, BusyInv
<1>7. HandInv'
  BY <1>1, <1>3, <1>6, Survivors DEF DeliverInv, HandInv, Accepted
<1>8. Pending' <=> Pending
  BY <1>1 DEF Pending, IsAssign, Inbox
<1>9. ~Unstarted(q)' /\ \A p \in Partitions : Unstarted(p)' => Unstarted(p) /\ p # q
  BY <1>1, <1>2, <1>8 DEF Unstarted
<1>10. \A p \in Partitions : p # q => <<p, round>> # new
  OBVIOUS
<1>11. UnstartedInv'
  BY <1>1, <1>3, <1>9, <1>10 DEF DeliverInv, UnstartedInv
<1>12. PositionInv'
  <2> SUFFICES ASSUME NEW p \in Partitions, NoneInHand(p)' PROVE NoneInHand(p)
    BY <1>1 DEF DeliverInv, PositionInv, Accepted
  <2>1. CASE p = q
    BY <1>1, <1>5, <2>1 DEF NoneInHand
  <2>2. CASE p # q /\ p \in assigned
    <3>1. <<p, round>> \in Consumers /\ <<p, round>> # new
      BY <2>2, LastConsumer
    <3>2. ToPoll(<<p, round>>)' => ToPoll(<<p, round>>)
      BY <1>1, <1>3, <3>1, Survivors DEF ToPoll
    <3> QED
      BY <1>1, <1>9, <2>2, <3>2 DEF NoneInHand
  <2>3. CASE p \notin assigned
    BY <2>3 DEF NoneInHand
  <2> QED
    BY <2>1, <2>2, <2>3
<1>13. StoredInv'
  BY <1>1 DEF DeliverInv, StoredInv, Accepted
<1> QED
  BY <1>7, <1>11, <1>12, <1>13 DEF DeliverInv
-----------------------------------------------------------------------------
(* Delivery: the steps of a consumer *)

\* One consumer's work changes, and nothing of the group.
LEMMA PositionKept ==
    ASSUME WorkInv, DeliverInv, NEW c \in Consumers, work[c] # "loop",
           UNCHANGED <<groupVars, mailbox, consumerVars, clientVars, position>>,
           \A d \in Consumers : d # c => work'[d] = work[d],
           \A p \in Partitions : handled[p] \subseteq handled'[p],
           c \in alive \ told /\ work'[c] = "loop" /\ c[1] \in assigned /\ queue[c] = "private" =>
             Accepted(c[1], position[c[1]])'
    PROVE  UnstartedInv' /\ PositionInv'
<1> USE DEF groupVars, consumerVars, clientVars
<1>1. \A p \in Partitions : Unstarted(p)' <=> Unstarted(p)
  BY UnstartedKept
<1>2. UnstartedInv'
  BY <1>1 DEF DeliverInv, UnstartedInv
<1>3. PositionInv'
  <2> SUFFICES ASSUME NEW p \in Partitions, NoneInHand(p)' PROVE Accepted(p, position[p])'
    BY DEF PositionInv
  <2>1. CASE NoneInHand(p)
    BY <2>1 DEF DeliverInv, PositionInv, Accepted
  <2>2. CASE ~NoneInHand(p)
    <3>1. p \in assigned /\ <<p, round>> \in Consumers
      BY <2>2, LastConsumer DEF NoneInHand
    <3>2. ToPoll(<<p, round>>)' /\ ~ToPoll(<<p, round>>) /\ queue[<<p, round>>] = "private"
      BY <1>1, <2>2 DEF NoneInHand
    <3>3. <<p, round>> = c
      BY <3>1, <3>2 DEF ToPoll
    <3>4. c[1] = p /\ c \in alive \ told /\ work'[c] = "loop"
      BY <3>2, <3>3 DEF ToPoll
    <3> QED
      BY <3>1, <3>2, <3>3, <3>4
  <2> QED
    BY <2>1, <2>2
<1> QED
  BY <1>2, <1>3

LEMMA PollDelivers ==
    ASSUME WorkInv, DeliverInv, NEW c \in Consumers, Poll(c)
    PROVE  DeliverInv'
<1> DEFINE q == c[1]
<1>1. /\ UNCHANGED <<groupVars, mailbox, consumerVars, clientVars, stored, committed, handled,
                     mode>>
      /\ c \in alive \ told /\ work[c] = "loop" /\ queue[c] = "private" /\ q \in assigned
      /\ work' = [work EXCEPT ![c] = "process"]
  BY DEF Poll
<1>2. PICK next \in position[q] + 1 .. LogEnd :
         /\ first' = [first EXCEPT ![c] = position[q]] /\ last' = [last EXCEPT ![c] = next]
         /\ position' = [position EXCEPT ![q] = next]
  BY DEF Poll, Takes
<1> USE DEF groupVars, consumerVars, clientVars
<1>3. /\ \A d \in alive \ told : d[2] = round
      /\ \A d \in Consumers : d[1] \in Partitions /\ d = <<d[1], d[2]>>
  BY InHand DEF WorkInv, IInv, RoundInv
<1>4. c = <<q, round>> /\ q \in Partitions
  BY <1>1, <1>3
<1>5. ~Unstarted(q)
  BY <1>1, <1>4 DEF DeliverInv, UnstartedInv
<1>6. NoneInHand(q)
  BY <1>1, <1>4 DEF NoneInHand, ToPoll
<1>7. Accepted(q, position[q])
  BY <1>4, <1>6 DEF DeliverInv, PositionInv
<1>8. /\ work'[c] = "process" /\ first'[c] = position[q] /\ last'[c] = position'[q]
      /\ \A d \in Consumers : d # c => /\ work'[d] = work[d] /\ first'[d] = first[d]
                                       /\ last'[d] = last[d]
      /\ \A p \in Partitions : p # q => position'[p] = position[p]
  BY <1>1, <1>2, <1>4, OffsetType DEF WorkInv, IInv, WorkType
<1>9. HandInv'
  <2> SUFFICES ASSUME NEW d \in Consumers, work'[d] # "loop"
               PROVE  /\ Accepted(d[1], first[d])'
                      /\ work'[d] = "store" => Accepted(d[1], Stored(d))'
                      /\ d \in alive \ told /\ d[1] \in assigned /\ queue[d] = "private" =>
                           last'[d] = position'[d[1]]
    BY <1>1 DEF HandInv
  <2>1. CASE d = c
    BY <1>1, <1>7, <1>8, <2>1 DEF Accepted
  <2>2. CASE d # c
    <3>1. d \in alive \ told => d[1] # q
      BY <1>3, <1>4, <2>2
    <3> QED
      BY <1>1, <1>3, <1>8, <2>2, <3>1 DEF DeliverInv, HandInv, Accepted, Stored
  <2> QED
    BY <2>1, <2>2
<1>10. \A p \in Partitions : Unstarted(p)' <=> Unstarted(p)
  BY <1>1, UnstartedKept
<1>11. UnstartedInv' /\ StoredInv'
  BY <1>1, <1>10 DEF DeliverInv, UnstartedInv, StoredInv, Accepted
<1>12. PositionInv'
  <2> SUFFICES ASSUME NEW p \in Partitions, NoneInHand(p)' PROVE Accepted(p, position[p])'
    BY DEF PositionInv
  <2>1. CASE p = q
    <3>1. q \notin toAdd
      BY <1>5 DEF WorkInv, IInv, ControlInv, Unstarted
    <3>2. ~NoneInHand(q)'
      BY <1>1, <1>4, <1>5, <1>8, <1>10, <3>1 DEF NoneInHand, ToPoll
    <3> QED
      BY <2>1, <3>2
  <2>2. CASE p # q
    <3>1. NoneInHand(p)
      <4>1. CASE p \in assigned
        <5>1. <<p, round>> \in Consumers /\ <<p, round>> # c
          BY <1>4, <2>2, <4>1, LastConsumer
        <5> QED
          BY <1>1, <1>8, <1>10, <4>1, <5>1 DEF NoneInHand, ToPoll
      <4> QED
        BY <4>1 DEF NoneInHand
    <3> QED
      BY <1>1, <1>8, <2>2, <3>1 DEF DeliverInv, PositionInv, Accepted
  <2> QED
    BY <2>1, <2>2
<1> QED
  BY <1>9, <1>11, <1>12 DEF DeliverInv

\* The steps between a poll and a callback that accepts.
LEMMA GoesDelivers ==
    ASSUME WorkInv, DeliverInv, NEW c \in Consumers, UNCHANGED vars, work[c] # "loop",
           NEW to \in {"recv", "callback"}, Goes(c, to)
    PROVE  DeliverInv'
<1> USE DEF vars, offsetVars
<1>1. /\ UNCHANGED <<mode, first, last>> /\ work'[c] = to
      /\ \A d \in Consumers : d # c => work'[d] = work[d]
  BY DEF Goes, WorkInv, WorkType
<1>2. HandInv'
  BY <1>1 DEF DeliverInv, HandInv, Accepted, Stored, consumerVars, clientVars
<1>3. UnstartedInv' /\ PositionInv'
  BY <1>1, PositionKept
<1>4. StoredInv'
  BY DEF DeliverInv, StoredInv, Accepted
<1> QED
  BY <1>2, <1>3, <1>4 DEF DeliverInv

LEMMA CallbackOkDelivers ==
    ASSUME WorkInv, DeliverInv, NEW c \in Consumers, CallbackOk(c)
    PROVE  DeliverInv'
<1> DEFINE q == c[1]
<1>1. /\ UNCHANGED <<groupVars, mailbox, consumerVars, clientVars, position, stored, committed,
                     mode, first, last>>
      /\ work[c] = "callback"
      /\ handled' = [handled EXCEPT ![q] = handled[q] \union
                      IF mode = "one_by_one" THEN {first[c]} ELSE first[c] .. last[c] - 1]
  BY DEF CallbackOk, Goes
<1>2. /\ work'[c] = "store" /\ \A d \in Consumers : d # c => work'[d] = work[d]
  BY DEF CallbackOk, Goes, WorkInv, WorkType
<1>3. q \in Partitions /\ handled \in [Partitions -> SUBSET (0 .. LogEnd - 1)]
  BY InHand DEF WorkInv, IInv, TypeOK
<1>4. \A p \in Partitions : handled[p] \subseteq handled'[p]
  BY <1>1, <1>3
<1>5. \A p \in Partitions : \A offset : Accepted(p, offset) => 0 .. offset - 1 \subseteq handled'[p]
  BY <1>4 DEF Accepted
<1>6. 0 .. Stored(c) - 1 \subseteq handled'[q]
  <2>1. 0 .. first[c] - 1 \subseteq handled'[q]
    BY <1>1, <1>3, <1>5 DEF DeliverInv, HandInv
  <2>2. handled'[q] = handled[q] \union IF mode = "one_by_one" THEN {first[c]}
                                                               ELSE first[c] .. last[c] - 1
    BY <1>1, <1>3
  <2>3. /\ first[c] \in Nat /\ last[c] \in Nat /\ first[c] < last[c]
        /\ mode = "one_by_one" => Stored(c) = first[c] + 1
        /\ mode # "one_by_one" => Stored(c) = last[c]
    BY <1>1, InHand
  <2>4. CASE mode = "one_by_one"
    BY <2>1, <2>2, <2>3, <2>4
  <2>5. CASE mode # "one_by_one"
    BY <2>1, <2>2, <2>3, <2>5
  <2> QED
    BY <2>4, <2>5
<1>7. HandInv'
  <2> SUFFICES ASSUME NEW d \in Consumers, work'[d] # "loop"
               PROVE  /\ 0 .. first[d] - 1 \subseteq handled'[d[1]]
                      /\ work'[d] = "store" => 0 .. Stored(d) - 1 \subseteq handled'[d[1]]
                      /\ d \in alive \ told /\ d[1] \in assigned /\ queue[d] = "private" =>
                           last[d] = position[d[1]]
    BY <1>1 DEF HandInv, Accepted, Stored, consumerVars, clientVars
  <2>1. d[1] \in Partitions /\ work[d] # "loop"
    BY <1>1, <1>2, InHand
  <2>2. CASE d = c
    BY <1>5, <1>6, <2>1, <2>2 DEF DeliverInv, HandInv
  <2>3. CASE d # c
    BY <1>2, <1>5, <2>1, <2>3 DEF DeliverInv, HandInv
  <2> QED
    BY <2>2, <2>3
<1>8. UnstartedInv' /\ PositionInv'
  BY <1>1, <1>2, <1>4, PositionKept
<1>9. StoredInv'
  BY <1>1, <1>5 DEF DeliverInv, StoredInv, Accepted
<1> QED
  BY <1>7, <1>8, <1>9 DEF DeliverInv

\* The consumer's position is where its last message ends.
LEMMA StoreOffsetDelivers ==
    ASSUME WorkInv, DeliverInv, NEW c \in Consumers, StoreOffset(c)
    PROVE  DeliverInv'
<1> DEFINE q == c[1]
<1>1. /\ UNCHANGED <<groupVars, mailbox, consumerVars, clientVars, position, committed, handled,
                     mode>>
      /\ work[c] = "store" /\ stored' = [stored EXCEPT ![q] = Stored(c)]
      /\ IF Stored(c) < last[c]
           THEN work' = [work EXCEPT ![c] = "recv"] /\ Takes(c, Stored(c), last[c])
           ELSE work' = [work EXCEPT ![c] = "loop"] /\ Takes(c, 0, 0)
  BY DEF StoreOffset
<1>2. q \in Partitions /\ Accepted(q, Stored(c)) /\ Stored(c) \in Nat /\ last[c] \in Nat
      /\ Stored(c) <= last[c]
  BY <1>1, InHand DEF DeliverInv, HandInv
<1>3. /\ \A d \in Consumers : d # c => /\ work'[d] = work[d] /\ first'[d] = first[d]
                                       /\ last'[d] = last[d]
      /\ IF Stored(c) < last[c]
           THEN work'[c] = "recv" /\ first'[c] = Stored(c) /\ last'[c] = last[c]
           ELSE work'[c] = "loop"
  BY <1>1 DEF Takes, WorkInv, WorkType
<1>4. HandInv'
  <2> SUFFICES ASSUME NEW d \in Consumers, work'[d] # "loop"
               PROVE  /\ Accepted(d[1], first'[d])
                      /\ work'[d] = "store" => Accepted(d[1], Stored(d)')
                      /\ d \in alive \ told /\ d[1] \in assigned /\ queue[d] = "private" =>
                           last'[d] = position[d[1]]
    BY <1>1 DEF HandInv, Accepted, consumerVars, clientVars
  <2>1. CASE d = c
    BY <1>1, <1>2, <1>3, <2>1 DEF DeliverInv, HandInv
  <2>2. CASE d # c
    BY <1>1, <1>3, <2>2 DEF DeliverInv, HandInv, Stored
  <2> QED
    BY <2>1, <2>2
<1>5. c \in alive \ told /\ work'[c] = "loop" /\ q \in assigned /\ queue[c] = "private" =>
        Accepted(q, position[q])'
  BY <1>1, <1>2, <1>3 DEF DeliverInv, HandInv, Accepted
<1>6. UnstartedInv' /\ PositionInv'
  BY <1>1, <1>3, <1>5, PositionKept
<1>7. StoredInv'
  <2>1. \A p \in Partitions : stored'[p] = IF p = q THEN Stored(c) ELSE stored[p]
    BY <1>1, <1>2, OffsetType DEF WorkInv, IInv
  <2> QED
    BY <1>1, <1>2, <2>1 DEF DeliverInv, StoredInv, Accepted
<1> QED
  BY <1>4, <1>6, <1>7 DEF DeliverInv

\* A consumer that is gone leaves nothing behind but its position.
LEMMA EndQuietly ==
    ASSUME WorkInv, NEW c \in Consumers, Stops(c) \/ KillArrives(c) \/ Dies(c)
    PROVE  Quiet
<1>1. /\ UNCHANGED <<position, stored, committed, handled, round, assigned, toAdd, queue, told,
                     join, group, task, todo>>
      /\ alive' = alive \ {c}
  BY DEF Stops, KillArrives, Dies, groupVars, clientVars, offsetVars
<1>2. UNCHANGED mailbox \/ mailbox' = Sent(ExitOf(c, Cause(c)))
  BY DEF Stops, KillArrives, Dies
<1>3. ExitOf(c, Cause(c)) \in Messages /\ ExitOf(c, Cause(c)).kind # "assign"
  BY MessagesSent DEF ExitOf
<1>4. \A p \in Partitions : Unstarted(p)' => Unstarted(p)
  BY <1>1, <1>2, <1>3, UnstartedKept, UnstartedSent DEF WorkInv
<1> QED
  BY <1>1, <1>4 DEF Quiet

LEMMA StepDeliver ==
    ~EarlyFetch /\ WorkInv /\ DeliverInv /\ [ComposedNext]_allVars => DeliverInv'
<1> SUFFICES ASSUME ~EarlyFetch, WorkInv, DeliverInv, [ComposedNext]_allVars PROVE DeliverInv'
  OBVIOUS
<1>1. CASE GroupStep /\ Survive
  <2>1. IInv /\ IInv'
    BY <1>1, GroupStepIsNext, StepIInv DEF WorkInv
  <2> QED
    BY <1>1, <2>1, GroupMoves, QuietDelivers, FallBackDelivers, AssignStartsDelivers,
       AddQueueDelivers, DropDelivers, StartConsumerDelivers
<1>2. ASSUME NEW c \in Consumers, Poll(c) PROVE DeliverInv'
  BY <1>2, PollDelivers
<1>3. ASSUME NEW c \in Consumers, ProcessMessages(c) \/ RecvNothing(c) \/ CallbackError(c)
      PROVE  DeliverInv'
  <2>1. /\ UNCHANGED vars /\ work[c] # "loop"
        /\ \E to \in {"recv", "callback"} : Goes(c, to)
    BY <1>3 DEF ProcessMessages, RecvNothing, CallbackError
  <2> QED
    BY <2>1, GoesDelivers
<1>4. ASSUME NEW c \in Consumers, CallbackOk(c) PROVE DeliverInv'
  BY <1>4, CallbackOkDelivers
<1>5. ASSUME NEW c \in Consumers, CallbackRaises(c) \/ StoreFails(c) PROVE DeliverInv'
  BY <1>5, EndQuietly, QuietDelivers DEF CallbackRaises, StoreFails
<1>6. ASSUME NEW c \in Consumers, StoreOffset(c) PROVE DeliverInv'
  BY <1>6, StoreOffsetDelivers
<1>7. ASSUME NEW c \in Consumers, StopFound(c) PROVE DeliverInv'
  BY <1>7, EndQuietly, QuietDelivers DEF StopFound
<1>8. ASSUME NEW c \in Consumers, KillArrives(c) /\ Survive PROVE DeliverInv'
  BY <1>8, EndQuietly, QuietDelivers
<1>9. CASE UNCHANGED allVars
  <2>1. UNCHANGED <<position, stored, committed, handled, round, assigned, toAdd, queue, alive,
                    told, join, group, task, todo, mailbox, mode, work, first, last>>
    BY <1>9 DEF allVars, workVars, vars, groupVars, consumerVars, clientVars, offsetVars
  <2>2. HandInv' /\ StoredInv'
    BY <2>1 DEF DeliverInv, HandInv, StoredInv, Accepted, Stored
  <2>3. UnstartedInv' /\ PositionInv'
    BY <2>1, UnstartedKept DEF DeliverInv, UnstartedInv, PositionInv, Accepted, NoneInHand, ToPoll
  <2> QED
    BY <2>2, <2>3 DEF DeliverInv
<1> QED
  BY <1>1, <1>2, <1>3, <1>4, <1>5, <1>6, <1>7, <1>8, <1>9 DEF ComposedNext, Step

LEMMA InitDeliver == ComposedInit => DeliverInv
<1> SUFFICES ASSUME ComposedInit PROVE DeliverInv
  OBVIOUS
<1>1. /\ \A p \in Partitions : position[p] = 0 /\ stored[p] = 0 /\ committed[p] = 0
      /\ alive = {} /\ \A c \in Consumers : work[c] = "loop"
  BY DEF ComposedInit, Init
<1>2. \A p \in Partitions : Accepted(p, 0)
  BY DEF Accepted
<1> QED
  BY <1>1, <1>2 DEF DeliverInv, HandInv, UnstartedInv, PositionInv, StoredInv

LEMMA DeliverInvariance == ASSUME ~EarlyFetch PROVE ComposedSpec => [](WorkInv /\ DeliverInv)
<1>1. ComposedInit => WorkInv /\ DeliverInv
  BY InitWork, InitDeliver
<1>2. WorkInv /\ DeliverInv /\ [ComposedNext]_allVars => WorkInv' /\ DeliverInv'
  BY StepWork, StepDeliver
<1> QED
  BY <1>1, <1>2, PTL DEF ComposedSpec

\* No offset is stored or committed over a message that no callback has accepted,
\* also not by a consumer of an earlier assignment that the kill signal has not
\* reached, provided no message arrives before its queue is taken.
THEOREM NothingIsSkipped == ASSUME ~EarlyFetch PROVE ComposedSpec => []NothingSkipped
<1>1. DeliverInv => NothingSkipped
  BY DEF DeliverInv, StoredInv, Accepted, NothingSkipped
<1> QED
  BY <1>1, DeliverInvariance, PTL

\* A message is offered when all those before it were accepted, whoever did.
THEOREM OfferedInOrder == ASSUME ~EarlyFetch PROVE ComposedSpec => []CallbacksInOrder
<1>1. WorkInv /\ DeliverInv => CallbacksInOrder
  BY DEF WorkInv, IInv, TypeOK, DeliverInv, HandInv, Accepted, CallbacksInOrder
<1> QED
  BY <1>1, DeliverInvariance, PTL
-----------------------------------------------------------------------------
(* The composition implements PartitionDelivery *)

\* What the application has accepted of a partition is an initial segment of it, whoever
\* offered it, and with each callback it grows at its end or not at all.
Segment(p, n) == n \in 0 .. LogEnd /\ handled[p] = 0 .. n - 1
SegmentInv    == \A p \in Partitions : \E n : Segment(p, n)
Reached(p)    == CHOOSE n : Segment(p, n)

\* Seen from outside, the offset that the partition has reached is a cursor that never
\* falls back: what is offered again was accepted before.
Outside(p) == INSTANCE PartitionDelivery
                WITH cursor <- Reached(p), accepted <- handled[p], durable <- committed[p]

DeliversOutside ==
    /\ \A p \in Partitions : Outside(p)!Init
    /\ [][\A p \in Partitions : Outside(p)!Next \/ UNCHANGED Outside(p)!vars]_allVars

\* A segment has one end.
LEMMA SegmentEnds ==
    ASSUME NEW m \in Nat, NEW n \in Nat, 0 .. m - 1 \subseteq 0 .. n - 1
    PROVE  m <= n
<1> SUFFICES ASSUME n < m PROVE FALSE
  OBVIOUS
<1>1. n \in 0 .. m - 1 /\ n \notin 0 .. n - 1
  OBVIOUS
<1> QED
  BY <1>1

LEMMA ReachedIs ==
    ASSUME NEW p, NEW n, Segment(p, n)
    PROVE  Reached(p) = n
<1>1. Segment(p, Reached(p))
  BY DEF Reached
<1>2. n \in Nat /\ Reached(p) \in Nat /\ 0 .. n - 1 = 0 .. Reached(p) - 1
  BY <1>1, ConsumerGroupAssumption DEF Segment
<1>3. n <= Reached(p) /\ Reached(p) <= n
  BY <1>2, SegmentEnds
<1> QED
  BY <1>2, <1>3

LEMMA ReachedNext ==
    ASSUME NEW p, NEW n \in 0 .. LogEnd, handled'[p] = 0 .. n - 1
    PROVE  Segment(p, n)' /\ Reached(p)' = n
<1>1. Segment(p, n)'
  BY DEF Segment
<1>2. Segment(p, Reached(p))'
  BY <1>1 DEF Reached
<1>3. n \in Nat /\ Reached(p)' \in Nat /\ 0 .. n - 1 = 0 .. Reached(p)' - 1
  BY <1>2, ConsumerGroupAssumption DEF Segment
<1>4. n <= Reached(p)' /\ Reached(p)' <= n
  BY <1>3, SegmentEnds
<1> QED
  BY <1>1, <1>3, <1>4

\* Where the partition has got to, and what may be committed of it.
LEMMA ReachedBounds ==
    ASSUME WorkInv, DeliverInv, SegmentInv, NEW p \in Partitions
    PROVE  /\ Segment(p, Reached(p)) /\ Reached(p) \in Nat /\ LogEnd \in Nat
           /\ committed[p] \in Nat /\ committed[p] <= Reached(p)
           /\ Newer(p) \in Nat /\ Newer(p) <= Reached(p) /\ committed[p] <= Newer(p)
<1>1. Segment(p, Reached(p))
  BY ReachedIs DEF SegmentInv
<1>2. Reached(p) \in Nat /\ LogEnd \in Nat /\ handled[p] = 0 .. Reached(p) - 1
  BY <1>1, ConsumerGroupAssumption DEF Segment
<1>3. committed[p] \in Nat /\ stored[p] \in Nat
  BY OffsetType DEF WorkInv, IInv
<1>4. committed[p] <= Reached(p) /\ stored[p] <= Reached(p)
  BY <1>2, <1>3, SegmentEnds DEF DeliverInv, StoredInv, Accepted
<1> QED
  BY <1>1, <1>2, <1>3, <1>4 DEF Newer

\* A step that calls no callback commits at most.
Commits == /\ UNCHANGED handled
           /\ \A p \in Partitions : committed'[p] \in {committed[p], Newer(p)}

LEMMA OthersCommit ==
    ASSUME WorkInv, [ComposedNext]_allVars, \A c \in Consumers : ~CallbackOk(c)
    PROVE  Commits
<1>1. CASE GroupStep /\ Survive
  <2>1. IInv /\ IInv'
    BY <1>1, GroupStepIsNext, StepIInv DEF WorkInv
  <2>2. ASSUME NEW parts \in SUBSET Partitions, AssignStarts(parts) PROVE Commits
    BY <2>2 DEF AssignStarts, Commits, offsetVars
  <2>3. ASSUME NEW p \in Partitions, AddQueue(p) \/ Drop(p) \/ StartConsumer(p) PROVE Commits
    BY <2>3 DEF AddQueue, Drop, StartConsumer, Commits, offsetVars
  <2>4. CASE FallsBack
    BY <2>4 DEF FallsBack, Rewind, Commits
  <2>5. CASE Quiet
    BY <2>5 DEF Quiet, Commits
  <2> QED
    BY <1>1, <2>1, <2>2, <2>3, <2>4, <2>5, GroupMoves
<1>2. ASSUME NEW c \in Consumers, Poll(c) \/ StoreOffset(c) PROVE Commits
  BY <1>2 DEF Poll, StoreOffset, Commits
<1>3. ASSUME NEW c \in Consumers, ProcessMessages(c) \/ RecvNothing(c) \/ CallbackError(c)
      PROVE  Commits
  BY <1>3 DEF ProcessMessages, RecvNothing, CallbackError, Commits, vars, offsetVars
<1>4. ASSUME NEW c \in Consumers, Stops(c) \/ KillArrives(c) \/ Dies(c) PROVE Commits
  BY <1>4, EndQuietly DEF Quiet, Commits
<1>5. CASE UNCHANGED allVars
  BY <1>5 DEF allVars, vars, offsetVars, Commits
<1> QED
  BY <1>1, <1>2, <1>3, <1>4, <1>5
  DEF ComposedNext, Step, CallbackRaises, StoreFails, StopFound

\* A commit, seen from outside.
LEMMA CommitsOutside ==
    ASSUME WorkInv, DeliverInv, SegmentInv, Commits, NEW p \in Partitions
    PROVE  (Outside(p)!Next \/ UNCHANGED Outside(p)!vars) /\ (\E n : Segment(p, n))'
<1>1. /\ Segment(p, Reached(p)) /\ Reached(p) \in Nat
      /\ committed[p] \in Nat /\ committed[p] <= Newer(p)
      /\ Newer(p) \in Nat /\ Newer(p) <= Reached(p)
  BY ReachedBounds
<1>2. UNCHANGED handled /\ committed'[p] \in {committed[p], Newer(p)}
  BY DEF Commits
<1>3. Segment(p, Reached(p))' /\ Reached(p)' = Reached(p)
  BY <1>1, <1>2, ReachedNext DEF Segment
<1>4. committed'[p] = committed[p] \/ committed'[p] \in committed[p] + 1 .. Reached(p)
  BY <1>1, <1>2
<1> QED
  BY <1>2, <1>3, <1>4 DEF Outside!Next, Outside!Commit, Outside!vars

\* A callback that accepts what was not accepted yet takes the partition further.
LEMMA CallbackOutside ==
    ASSUME WorkInv, DeliverInv, SegmentInv, NEW c \in Consumers, CallbackOk(c),
           NEW p \in Partitions
    PROVE  (Outside(p)!Next \/ UNCHANGED Outside(p)!vars) /\ (\E n : Segment(p, n))'
<1> DEFINE q == c[1]
<1>0. PICK n, s : n = Reached(p) /\ s = Stored(c)
  OBVIOUS
<1>1. /\ Segment(p, n) /\ n \in Nat /\ LogEnd \in Nat /\ n \in 0 .. LogEnd
      /\ handled[p] = 0 .. n - 1
  BY <1>0, ReachedBounds DEF Segment
<1>2. /\ work[c] = "callback" /\ UNCHANGED committed
      /\ handled' = [handled EXCEPT ![q] = handled[q] \union
                      IF mode = "one_by_one" THEN {first[c]} ELSE first[c] .. last[c] - 1]
  BY DEF CallbackOk
<1>3. handled \in [Partitions -> SUBSET (0 .. LogEnd - 1)] /\ q \in Partitions
  BY InHand DEF WorkInv, IInv, TypeOK
<1>4. CASE p # q
  <2>1. handled'[p] = handled[p]
    BY <1>2, <1>3, <1>4
  <2>2. Segment(p, n)' /\ Reached(p)' = n
    BY <1>1, <2>1, ReachedNext
  <2> QED
    BY <1>0, <1>2, <2>1, <2>2 DEF Outside!vars
<1>5. CASE p = q
  <2>1. /\ first[c] \in Nat /\ s \in Nat /\ s <= LogEnd /\ first[c] < s
        /\ mode = "one_by_one" => s = first[c] + 1
        /\ mode # "one_by_one" => s = last[c]
    BY <1>0, <1>1, <1>2, InHand
  <2>2. first[c] <= n
    <3>1. 0 .. first[c] - 1 \subseteq 0 .. n - 1
      BY <1>1, <1>2, <1>5 DEF DeliverInv, HandInv, Accepted
    <3> QED
      BY <1>1, <2>1, <3>1, SegmentEnds
  <2>3. handled'[p] = handled[p] \union (first[c] .. s - 1)
    <3>1. handled'[p] = handled[p] \union IF mode = "one_by_one" THEN {first[c]}
                                                                 ELSE first[c] .. last[c] - 1
      BY <1>2, <1>3, <1>5
    <3>2. {first[c]} = first[c] .. (first[c] + 1) - 1
      BY <2>1
    <3> QED
      BY <2>1, <3>1, <3>2
  <2>4. CASE s <= n
    <3>1. handled'[p] = 0 .. n - 1
      BY <1>1, <2>1, <2>2, <2>3, <2>4
    <3>2. Segment(p, n)' /\ Reached(p)' = n
      BY <1>1, <3>1, ReachedNext
    <3> QED
      BY <1>0, <1>1, <1>2, <3>1, <3>2 DEF Outside!vars
  <2>5. CASE n < s
    <3>1. handled'[p] = 0 .. s - 1 /\ s \in 0 .. LogEnd
      BY <1>1, <2>1, <2>2, <2>3, <2>5
    <3>2. Segment(p, s)' /\ Reached(p)' = s
      BY <3>1, ReachedNext
    <3>3. /\ s \in n + 1 .. LogEnd
          /\ handled'[p] = handled[p] \union (n .. s - 1)
      BY <1>1, <2>1, <2>5, <3>1
    <3>4. Outside(p)!Accept
      BY <1>0, <1>2, <3>2, <3>3 DEF Outside!Accept
    <3> QED
      BY <3>2, <3>4 DEF Outside!Next
  <2> QED
    BY <1>1, <2>1, <2>4, <2>5
<1> QED
  BY <1>4, <1>5

\* Over rebalances, crashes, kills, restarts and consumers that outlast their assignment
\* the application accepts each partition in order without a gap, and what is committed
\* moves forward only and never past what was accepted, provided no message arrives
\* before its queue is taken.
THEOREM ComposedDelivers == ASSUME ~EarlyFetch PROVE ComposedSpec => DeliversOutside
<1> DEFINE Inv == WorkInv /\ DeliverInv /\ SegmentInv
<1>1. ComposedInit => Inv /\ \A p \in Partitions : Outside(p)!Init
  <2> SUFFICES ASSUME ComposedInit PROVE Inv /\ \A p \in Partitions : Outside(p)!Init
    OBVIOUS
  <2>1. ASSUME NEW p \in Partitions PROVE Segment(p, 0) /\ handled[p] = {} /\ committed[p] = 0
    BY ConsumerGroupAssumption DEF ComposedInit, Init, Segment
  <2> QED
    BY <2>1, InitWork, InitDeliver, ReachedIs DEF SegmentInv, Outside!Init
<1>2. Inv /\ [ComposedNext]_allVars =>
        /\ SegmentInv'
        /\ \A p \in Partitions : Outside(p)!Next \/ UNCHANGED Outside(p)!vars
  <2> SUFFICES ASSUME Inv, [ComposedNext]_allVars
               PROVE  \A p \in Partitions : /\ Outside(p)!Next \/ UNCHANGED Outside(p)!vars
                                            /\ (\E n : Segment(p, n))'
    BY DEF SegmentInv
  <2>1. CASE Commits
    BY <2>1, CommitsOutside
  <2>2. ASSUME NEW c \in Consumers, CallbackOk(c)
        PROVE  \A p \in Partitions : /\ Outside(p)!Next \/ UNCHANGED Outside(p)!vars
                                     /\ (\E n : Segment(p, n))'
    BY <2>2, CallbackOutside
  <2> QED
    BY <2>1, <2>2, OthersCommit
<1>3. Inv /\ [ComposedNext]_allVars => Inv'
  BY <1>2, StepWork, StepDeliver
<1> QED
  BY <1>1, <1>2, <1>3, PTL DEF ComposedSpec, DeliversOutside
=============================================================================
