--------------------------- MODULE ConsumerProofs ---------------------------
(***************************************************************************)
(* Theorems about Consumer, for every log, dispatch mode, batch size,      *)
(* polling interval, callback duration and granularity of time.            *)
(***************************************************************************)
EXTENDS Consumer, SequenceTheorems, TLAPS

-----------------------------------------------------------------------------
(* The inductive invariant *)

\* The message the consumer has outstanding to itself is tok.
Outstanding(tok) ==
    \/ timer = tok /\ mailbox \in {<< >>, <<"stop">>}
    \/ timer = "none" /\ mailbox \in {<<tok>>, <<tok, "stop">>, <<"stop", tok>>}

\* What each phase says of the mailbox, the timer and the messages in hand.
PhaseInv ==
    /\ phase = "absent" => mailbox = << >> /\ timer = "none" /\ end = 0
    /\ phase \in Busy => /\ timer = "none" /\ mailbox \in {<< >>, <<"stop">>}
                         /\ head < end
    /\ phase = "loop" => \/ Outstanding("poll_events") /\ end = 0
                         \/ Outstanding("process_messages") /\ head < end

\* Where the group's process is while the consumer runs.  A consumer that is
\* waited for or about to be killed still has the stop message, and meets it
\* before any message to itself once stop/1 has waited at all.
StopFirst == phase = "loop" => Head(mailbox) = "stop"

StopInv ==
    /\ replied => stopper = "waiting" /\ phase = "absent"
    /\ stopper = "waiting" => assigned /\ queueLive /\ ~killSent
    /\ stopper \in {"returned", "cleaned"} => assigned
    /\ phase # "absent" /\ ~killSent => assigned /\ queueLive /\ stopper \in {"idle", "waiting"}
    /\ stopper = "idle" /\ assigned => ~killSent /\ ~StopWaits
    /\ stopper = "waiting" /\ ~replied /\ phase # "absent" =>
          StopWaits /\ (patience # StopTimeoutMs => StopFirst)
    /\ killSent /\ phase # "absent" => StopWaits /\ StopFirst

\* The offsets: what the broker has, what librdkafka is to commit, what the
\* consumer has in hand and what its queue hands out next follow each other.
OffsetInv ==
    /\ committed <= stored
    /\ 0 .. stored - 1 \subseteq handled
    /\ phase \in Busy \/ (phase = "loop" /\ end # 0) =>
          /\ stored <= head /\ 0 .. head - 1 \subseteq handled
          /\ assigned => stored = head /\ position = end
    /\ phase = "loop" /\ end = 0 => position = stored
    /\ phase = "store" => head .. Cursor - 1 \subseteq handled

IInv == TypeOK /\ PhaseInv /\ StopInv /\ OffsetInv

-----------------------------------------------------------------------------
(* The constants, and the settings that no step changes *)

LEMMA Settings ==
    ASSUME settings \in TopicSettings
    PROVE  DispatchMode \in {"one_by_one", "batch"} /\ CallbackTimes \subseteq Nat
<1>1. settings \in [dispatch_mode : {"one_by_one", "batch"}, callback_times : SUBSET Nat]
  BY ConsumerAssumption
<1> QED
  BY <1>1 DEF DispatchMode, CallbackTimes

LEMMA Constants == /\ LogEnd \in Nat /\ BatchSize \in Nat \ {0} /\ PollIdle \in Nat
                   /\ Steps \subseteq Nat \ {0}
  BY ConsumerAssumption

LEMMA SettingsKept ==
    ASSUME IInv, [Next]_vars
    PROVE  /\ settings' = settings
           /\ DispatchMode \in {"one_by_one", "batch"} /\ DispatchMode' = DispatchMode
           /\ CallbackTimes \subseteq Nat /\ CallbackTimes' = CallbackTimes
<1>1. settings' = settings
  BY DEF Next, vars
<1> QED
  BY <1>1, Settings DEF IInv, TypeOK, DispatchMode, CallbackTimes

-----------------------------------------------------------------------------
(* What the GenServer's receive and a send do to the few mailboxes there are *)

\* A second message goes behind the first.
LEMMA AppendSecond == ASSUME NEW x, NEW y PROVE Append(<<x>>, y) = <<x, y>>
<1> DEFINE S == {x, y}
           s == Append(<<x>>, y)
           t == <<x, y>>
<1>1. <<x>> \in Seq(S) /\ t \in Seq(S) /\ Len(t) = 2 /\ Len(<<x>>) = 1 /\ t[1] = x /\ t[2] = y
  OBVIOUS
<1>2. s \in Seq(S) /\ Len(s) = 2 /\ s[1] = x /\ s[2] = y
  BY <1>1, AppendProperties
<1> HIDE DEF s, t, S
<1>3. \A i \in 1 .. Len(s) : s[i] = t[i]
  BY <1>1, <1>2
<1>4. s = t
  BY <1>1, <1>2, <1>3, SeqEqual
<1> QED
  BY <1>4 DEF s, t

\* Mailboxes of at most two messages, read and written.
LEMMA MailboxOps ==
    /\ \A x : Head(<<x>>) = x /\ Tail(<<x>>) = << >> /\ Append(<< >>, x) = <<x>>
    /\ \A x, y : Head(<<x, y>>) = x /\ Tail(<<x, y>>) = <<y>> /\ Append(<<x>>, y) = <<x, y>>
    /\ \A x, y : <<x>> # << >> /\ <<x, y>> # << >> /\ <<x, y>> # <<x>>
<1>1. \A x, y : Append(<<x>>, y) = <<x, y>>
  BY AppendSecond
<1>2. \A x : Head(<<x>>) = x /\ Tail(<<x>>) = << >> /\ Append(<< >>, x) = <<x>>
  OBVIOUS
<1>3. \A x, y : Head(<<x, y>>) = x /\ Tail(<<x, y>>) = <<y>>
  OBVIOUS
<1>4. \A x, y : <<x>> # << >> /\ <<x, y>> # << >> /\ <<x, y>> # <<x>>
  OBVIOUS
<1> QED
  BY <1>1, <1>2, <1>3, <1>4

\* The mailboxes, one by one, and which of them hold the stop message.
LEMMA MailboxKinds ==
    /\ << >> \in Mailboxes /\ <<"stop">> \in Mailboxes
    /\ \A t \in Tokens : <<t>> \in Mailboxes /\ <<t, "stop">> \in Mailboxes
                                             /\ <<"stop", t>> \in Mailboxes
    /\ \A m \in Mailboxes : \/ m = << >> \/ m = <<"stop">>
                            \/ \E t \in Tokens : m \in {<<t>>, <<t, "stop">>, <<"stop", t>>}
    /\ ~HasStop(<< >>) /\ HasStop(<<"stop">>)
    /\ \A t \in Tokens : ~HasStop(<<t>>) /\ HasStop(<<t, "stop">>) /\ HasStop(<<"stop", t>>)
<1>1. /\ << >> \in Mailboxes /\ <<"stop">> \in Mailboxes
      /\ \A t \in Tokens : <<t>> \in Mailboxes /\ <<t, "stop">> \in Mailboxes
                                               /\ <<"stop", t>> \in Mailboxes
      /\ \A m \in Mailboxes : \/ m = << >> \/ m = <<"stop">>
                              \/ \E t \in Tokens : m \in {<<t>>, <<t, "stop">>, <<"stop", t>>}
  BY DEF Mailboxes
<1>2. /\ ~HasStop(<< >>) /\ HasStop(<<"stop">>)
      /\ \A t \in Tokens : ~HasStop(<<t>>) /\ HasStop(<<t, "stop">>) /\ HasStop(<<"stop", t>>)
  BY DEF HasStop, Tokens
<1> QED
  BY <1>1, <1>2

\* A mailbox without a stop message takes one, at its end.
LEMMA SendStop ==
    ASSUME NEW m \in Mailboxes, ~HasStop(m)
    PROVE  /\ Append(m, "stop") \in Mailboxes /\ HasStop(Append(m, "stop"))
           /\ m = << >> => Append(m, "stop") = <<"stop">>
           /\ \A t \in Tokens : m = <<t>> => Append(m, "stop") = <<t, "stop">>
<1> USE DEF Tokens
<1>1. CASE m = << >>
  BY <1>1, MailboxOps, MailboxKinds
<1>2. CASE \E t \in Tokens : m = <<t>>
  <2>1. PICK t \in Tokens : m = <<t>>
    BY <1>2
  <2>2. Append(m, "stop") = <<t, "stop">>
    BY <2>1, MailboxOps
  <2>3. \A u \in Tokens : m = <<u>> => u = t
    BY <2>1, MailboxOps
  <2> QED
    BY <2>1, <2>2, <2>3, MailboxOps, MailboxKinds
<1> QED
  BY <1>1, <1>2, MailboxKinds

\* The timer delivers its message behind the stop message, if there is one.
LEMMA SendToken ==
    ASSUME NEW t \in Tokens, NEW m \in {<< >>, <<"stop">>}
    PROVE  /\ Append(m, t) \in Mailboxes /\ (HasStop(Append(m, t)) <=> HasStop(m))
           /\ m = << >> => Append(m, t) = <<t>>
           /\ m = <<"stop">> => Append(m, t) = <<"stop", t>> /\ Head(Append(m, t)) = "stop"
<1>1. CASE m = << >>
  <2>1. Append(m, t) = <<t>> /\ m # <<"stop">>
    BY <1>1, MailboxOps
  <2> QED
    BY <1>1, <2>1, MailboxKinds
<1>2. CASE m = <<"stop">>
  <2>1. Append(m, t) = <<"stop", t>> /\ m # << >>
    BY <1>2, MailboxOps
  <2>2. Head(<<"stop", t>>) = "stop"
    BY MailboxOps
  <2> QED
    BY <1>2, <2>1, <2>2, MailboxKinds
<1> QED
  BY <1>1, <1>2

\* The GenServer takes a message to itself: a stop message stays.
LEMMA ReceiveToken ==
    ASSUME NEW t \in Tokens, NEW m \in Mailboxes, m # << >>, Head(m) = t
    PROVE  /\ m \in {<<t>>, <<t, "stop">>}
           /\ Tail(m) \in {<< >>, <<"stop">>} /\ (HasStop(Tail(m)) <=> HasStop(m))
<1>1. PICK u \in Tokens : m \in {<<u>>, <<u, "stop">>}
  BY MailboxOps, MailboxKinds DEF Tokens
<1>2. u = t
  BY <1>1, MailboxOps
<1>3. CASE m = <<t>>
  <2>1. Tail(m) = << >>
    BY <1>3, MailboxOps
  <2> QED
    BY <1>3, <2>1, MailboxKinds
<1>4. CASE m = <<t, "stop">>
  <2>1. Tail(m) = <<"stop">>
    BY <1>4, MailboxOps
  <2> QED
    BY <1>4, <2>1, MailboxKinds
<1> QED
  BY <1>1, <1>2, <1>3, <1>4

-----------------------------------------------------------------------------
LEMMA InitInv == Init => IInv
<1> SUFFICES ASSUME Init PROVE IInv
  OBVIOUS
<1> USE DEF Init
<1>1. TypeOK
  <2>1. /\ replied \in BOOLEAN /\ killSent \in BOOLEAN
        /\ assigned \in BOOLEAN /\ queueLive \in BOOLEAN
    OBVIOUS
  <2> QED
    BY <2>1, Constants, MailboxKinds DEF TypeOK, Phases, Backoffs, StopTimeoutMs
<1>2. PhaseInv
  BY DEF PhaseInv, Busy
<1>3. StopInv
  BY DEF StopInv
<1>4. OffsetInv
  BY DEF OffsetInv, Busy
<1> QED
  BY <1>1, <1>2, <1>3, <1>4 DEF IInv

-----------------------------------------------------------------------------
(* Every step preserves each part of the invariant *)

LEMMA TypeStep == IInv /\ [Next]_vars => TypeOK'
<1> SUFFICES ASSUME IInv, [Next]_vars PROVE TypeOK'
  OBVIOUS
<1>0. /\ settings' = settings
      /\ DispatchMode \in {"one_by_one", "batch"} /\ DispatchMode' = DispatchMode
      /\ CallbackTimes \subseteq Nat /\ CallbackTimes' = CallbackTimes
  BY SettingsKept
<1> USE <1>0, Constants DEF IInv, TypeOK
<1>1. CASE StartLink
  BY <1>1 DEF StartLink, Phases, Tokens, Schedule, stopVars
<1>2. CASE TimerFires
  <2>1. mailbox' \in Mailboxes
    BY <1>2, SendToken DEF TimerFires, PhaseInv, Outstanding, Phases, Tokens, Busy
  <2> QED
    BY <1>2, <2>1 DEF TimerFires, stopVars, kafkaVars
<1>3. CASE PollNothing
  <2>1. mailbox' \in Mailboxes
    BY <1>3, ReceiveToken, MailboxKinds DEF PollNothing, Receives, IsNext, Tokens
  <2> QED
    BY <1>3, <2>1 DEF PollNothing, Schedule, stopVars, kafkaVars, Tokens
<1>4. CASE PollSome
  <2>1. mailbox' \in Mailboxes
    BY <1>4, ReceiveToken, MailboxKinds DEF PollSome, Receives, IsNext, Tokens
  <2> QED
    BY <1>4, <2>1 DEF PollSome, Schedule, stopVars, Tokens
<1>5. CASE ProcessMessages
  <2>1. mailbox' \in Mailboxes
    BY <1>5, ReceiveToken, MailboxKinds DEF ProcessMessages, Receives, IsNext, Tokens
  <2> QED
    BY <1>5, <2>1 DEF ProcessMessages, Call, stopVars, kafkaVars, Phases, Busy
<1>6. CASE HandleStop
  BY <1>6, MailboxKinds DEF HandleStop, ReplyAndExit, Exit, Phases, Backoffs, kafkaVars
<1>7. CASE RecvStop
  BY <1>7, MailboxKinds DEF RecvStop, ReplyAndExit, Exit, Phases, Backoffs, kafkaVars
<1>8. CASE RecvNothing
  BY <1>8 DEF RecvNothing, Call, Sleep, NextBackoff, MaxBackoff, Phases, Busy, Backoffs, stopVars, kafkaVars
<1>9. CASE CallbackOk
  BY <1>9 DEF CallbackOk, Phases, Busy, stopVars, kafkaVars, PhaseInv
<1>10. CASE CallbackError
  BY <1>10 DEF CallbackError, Sleep, NextBackoff, MaxBackoff, Phases, Busy, Backoffs, stopVars, kafkaVars
<1>11. CASE CallbackRaises
  BY <1>11, MailboxKinds DEF CallbackRaises, Exit, Phases, Backoffs, stopVars, kafkaVars
<1>12. CASE SleepEnds
  BY <1>12 DEF SleepEnds, Call, Phases, Busy, stopVars, kafkaVars
<1>13. CASE StoreOffset
  BY <1>13 DEF StoreOffset, BackToLoop, Schedule, Phases, Busy, Backoffs, Tokens, stopVars, PhaseInv
<1>14. CASE StoreFails
  BY <1>14, MailboxKinds DEF StoreFails, Exit, Phases, Backoffs, stopVars, kafkaVars
<1>15. CASE RequestStop
  <2>1. mailbox' \in Mailboxes
    BY <1>15, SendStop DEF RequestStop, StopInv, StopWaits
  <2>2. CASE phase = "absent"
    BY <1>15, <2>1, <2>2 DEF RequestStop, kafkaVars
  <2>3. CASE phase # "absent"
    BY <1>15, <2>1, <2>3 DEF RequestStop, kafkaVars, StopTimeoutMs
  <2> QED
    BY <2>2, <2>3
<1>16. CASE ReceiveStopped
  <2>1. replied' \in BOOLEAN
    BY <1>16 DEF ReceiveStopped
  <2> QED
    BY <1>16, <2>1 DEF ReceiveStopped, procVars, kafkaVars, StopTimeoutMs
<1>17. CASE StopTimeout
  BY <1>17 DEF StopTimeout, procVars, kafkaVars
<1>18. CASE KillArrives
  <2>1. killSent' \in BOOLEAN
    BY <1>18 DEF KillArrives
  <2> QED
    BY <1>18, <2>1, MailboxKinds DEF KillArrives, Exit, Phases, Backoffs, kafkaVars
<1>19. CASE QueueCleanup
  BY <1>19 DEF QueueCleanup, procVars
<1>20. CASE RevokeCompleted
  BY <1>20 DEF RevokeCompleted, procVars
<1>21. CASE AutoCommit
  BY <1>21 DEF AutoCommit, procVars, stopVars
<1>22. CASE NodeCrash
  <2>1. /\ replied' \in BOOLEAN /\ killSent' \in BOOLEAN
        /\ assigned' \in BOOLEAN /\ queueLive' \in BOOLEAN
    BY <1>22 DEF NodeCrash
  <2> QED
    BY <1>22, <2>1, MailboxKinds DEF NodeCrash, Exit, Phases, Backoffs, StopTimeoutMs
<1>23. CASE \E d \in Steps : Tick(d)
  <2>1. PICK d \in Steps : Tick(d)
    BY <1>23
  <2>2. d \in Nat
    OBVIOUS
  <2>3. timerWait' \in Nat
    BY <2>1, <2>2 DEF Tick
  <2>4. wait' \in Nat
    BY <2>1, <2>2 DEF Tick
  <2>5. patience' \in 0 .. StopTimeoutMs
    <3>1. CASE stopper = "waiting"
      BY <2>1, <2>2, <3>1 DEF Tick, StopTimeoutMs
    <3>2. CASE stopper # "waiting"
      BY <2>1, <3>2 DEF Tick
    <3> QED
      BY <3>1, <3>2
  <2> QED
    BY <2>1, <2>3, <2>4, <2>5 DEF Tick, kafkaVars
<1>24. CASE UNCHANGED vars
  BY <1>24 DEF vars, procVars, stopVars, kafkaVars
<1> QED
  BY <1>1, <1>2, <1>3, <1>4, <1>5, <1>6, <1>7, <1>8, <1>9, <1>10, <1>11, <1>12, <1>13,
     <1>14, <1>15, <1>16, <1>17, <1>18, <1>19, <1>20, <1>21, <1>22, <1>23, <1>24
  DEF Next, Process, Group, Environment

LEMMA PhaseStep == IInv /\ [Next]_vars => PhaseInv'
<1> SUFFICES ASSUME IInv, [Next]_vars PROVE PhaseInv'
  OBVIOUS
<1>0. /\ settings' = settings
      /\ DispatchMode \in {"one_by_one", "batch"} /\ DispatchMode' = DispatchMode
      /\ CallbackTimes \subseteq Nat /\ CallbackTimes' = CallbackTimes
  BY SettingsKept
<1> USE <1>0, Constants DEF IInv, TypeOK
<1>1. CASE StartLink
  BY <1>1 DEF StartLink, Schedule, PhaseInv, Outstanding, Busy
<1>2. CASE TimerFires
  <2>1. PICK t \in Tokens : /\ t = timer /\ phase = "loop" /\ phase' = "loop"
                            /\ mailbox \in {<< >>, <<"stop">>}
                            /\ timer' = "none" /\ mailbox' = Append(mailbox, t)
                            /\ UNCHANGED <<head, end>>
    BY <1>2 DEF TimerFires, PhaseInv, Outstanding, Phases, Tokens, Busy
  <2>2. mailbox' \in {<<t>>, <<"stop", t>>}
    BY <2>1, SendToken
  <2> QED
    BY <2>1, <2>2 DEF PhaseInv, Outstanding, Busy, Tokens
<1>3. CASE PollNothing
  <2>1. mailbox' \in {<< >>, <<"stop">>}
    BY <1>3, ReceiveToken DEF PollNothing, Receives, IsNext, Tokens
  <2>2. end = 0
    BY <1>3, MailboxOps DEF PollNothing, Receives, IsNext, PhaseInv, Outstanding
  <2> QED
    BY <1>3, <2>1, <2>2 DEF PollNothing, Receives, IsNext, Schedule, PhaseInv, Outstanding, Busy
<1>4. CASE PollSome
  <2>1. mailbox' \in {<< >>, <<"stop">>}
    BY <1>4, ReceiveToken DEF PollSome, Receives, IsNext, Tokens
  <2> QED
    BY <1>4, <2>1 DEF PollSome, Receives, IsNext, Schedule, PhaseInv, Outstanding, Busy
<1>5. CASE ProcessMessages
  <2>1. mailbox' \in {<< >>, <<"stop">>}
    BY <1>5, ReceiveToken DEF ProcessMessages, Receives, IsNext, Tokens
  <2>2. timer = "none" /\ head < end
    BY <1>5, MailboxOps DEF ProcessMessages, Receives, IsNext, PhaseInv, Outstanding
  <2> QED
    BY <1>5, <2>1, <2>2 DEF ProcessMessages, Call, PhaseInv, Busy
<1>6. CASE HandleStop
  BY <1>6 DEF HandleStop, ReplyAndExit, Exit, PhaseInv, Busy
<1>7. CASE RecvStop
  BY <1>7 DEF RecvStop, ReplyAndExit, Exit, PhaseInv, Busy
<1>8. CASE RecvNothing
  BY <1>8 DEF RecvNothing, Call, Sleep, PhaseInv, Busy
<1>9. CASE CallbackOk
  BY <1>9 DEF CallbackOk, PhaseInv, Busy
<1>10. CASE CallbackError
  BY <1>10 DEF CallbackError, Sleep, PhaseInv, Busy
<1>11. CASE CallbackRaises
  BY <1>11 DEF CallbackRaises, Exit, PhaseInv, Busy
<1>12. CASE SleepEnds
  BY <1>12 DEF SleepEnds, Call, PhaseInv, Busy
<1>13. CASE StoreOffset
  BY <1>13 DEF StoreOffset, BackToLoop, Schedule, PhaseInv, Outstanding, Busy
<1>14. CASE StoreFails
  BY <1>14 DEF StoreFails, Exit, PhaseInv, Busy
<1>15. CASE RequestStop
  <2>1. CASE phase = "absent"
    BY <1>15, <2>1 DEF RequestStop, PhaseInv, Busy
  <2>2. CASE phase # "absent"
    <3>1. /\ mailbox' = Append(mailbox, "stop") /\ ~HasStop(mailbox) /\ mailbox \in Mailboxes
          /\ UNCHANGED <<phase, timer, head, end>>
      BY <1>15, <2>2 DEF RequestStop, StopInv, StopWaits
    <3>2. /\ mailbox \in {<< >>, <<"stop">>} => mailbox' = <<"stop">>
          /\ \A t \in Tokens : mailbox \in {<<t>>, <<t, "stop">>, <<"stop", t>>}
                                  => mailbox' = <<t, "stop">>
      BY <3>1, SendStop, MailboxKinds
    <3> QED
      BY <2>2, <3>1, <3>2 DEF PhaseInv, Outstanding, Busy, Tokens
  <2> QED
    BY <2>1, <2>2
<1>16. CASE ReceiveStopped
  BY <1>16 DEF ReceiveStopped, procVars, PhaseInv, Outstanding
<1>17. CASE StopTimeout
  BY <1>17 DEF StopTimeout, procVars, PhaseInv, Outstanding
<1>18. CASE KillArrives
  BY <1>18 DEF KillArrives, Exit, PhaseInv, Busy
<1>19. CASE QueueCleanup
  BY <1>19 DEF QueueCleanup, procVars, PhaseInv, Outstanding
<1>20. CASE RevokeCompleted
  BY <1>20 DEF RevokeCompleted, procVars, PhaseInv, Outstanding
<1>21. CASE AutoCommit
  BY <1>21 DEF AutoCommit, procVars, PhaseInv, Outstanding
<1>22. CASE NodeCrash
  BY <1>22 DEF NodeCrash, Exit, PhaseInv, Busy
<1>23. CASE \E d \in Steps : Tick(d)
  BY <1>23 DEF Tick, PhaseInv, Outstanding
<1>24. CASE UNCHANGED vars
  BY <1>24 DEF vars, procVars, PhaseInv, Outstanding
<1> QED
  BY <1>1, <1>2, <1>3, <1>4, <1>5, <1>6, <1>7, <1>8, <1>9, <1>10, <1>11, <1>12, <1>13,
     <1>14, <1>15, <1>16, <1>17, <1>18, <1>19, <1>20, <1>21, <1>22, <1>23, <1>24
  DEF Next, Process, Group, Environment

LEMMA StopStep == IInv /\ [Next]_vars => StopInv'
<1> SUFFICES ASSUME IInv, [Next]_vars PROVE StopInv'
  OBVIOUS
<1>0. /\ settings' = settings
      /\ DispatchMode \in {"one_by_one", "batch"} /\ DispatchMode' = DispatchMode
      /\ CallbackTimes \subseteq Nat /\ CallbackTimes' = CallbackTimes
  BY SettingsKept
<1> USE <1>0, Constants DEF IInv, TypeOK, StopWaits, StopFirst
<1>1. CASE StartLink
  <2>1. mailbox' = << >>
    BY <1>1 DEF StartLink, PhaseInv
  <2> QED
    BY <1>1, <2>1, MailboxKinds DEF StartLink, StopInv, stopVars
<1>2. CASE TimerFires
  <2>1. PICK t \in Tokens : /\ phase = "loop"
                            /\ mailbox \in {<< >>, <<"stop">>}
                            /\ mailbox' = Append(mailbox, t)
                            /\ UNCHANGED <<phase, stopVars, kafkaVars>>
    BY <1>2 DEF TimerFires, PhaseInv, Outstanding, Phases, Tokens, Busy
  <2>2. /\ HasStop(mailbox') <=> HasStop(mailbox)
        /\ HasStop(mailbox) => Head(mailbox') = "stop"
    BY <2>1, SendToken, MailboxKinds
  <2> QED
    BY <2>1, <2>2 DEF StopInv, stopVars, kafkaVars
<1>3. CASE PollNothing
  <2>1. /\ phase = "loop" /\ Head(mailbox) # "stop"
        /\ HasStop(mailbox') <=> HasStop(mailbox)
    BY <1>3, ReceiveToken DEF PollNothing, Receives, IsNext, Tokens
  <2>2. mailbox' \in {<< >>, <<"stop">>}
    BY <1>3, ReceiveToken DEF PollNothing, Receives, IsNext, Tokens
  <2> QED
    BY <1>3, <2>1, <2>2, MailboxOps, MailboxKinds DEF PollNothing, StopInv, stopVars, kafkaVars
<1>4. CASE PollSome
  <2>1. /\ phase = "loop" /\ Head(mailbox) # "stop"
        /\ HasStop(mailbox') <=> HasStop(mailbox)
    BY <1>4, ReceiveToken DEF PollSome, Receives, IsNext, Tokens
  <2>2. mailbox' \in {<< >>, <<"stop">>}
    BY <1>4, ReceiveToken DEF PollSome, Receives, IsNext, Tokens
  <2> QED
    BY <1>4, <2>1, <2>2, MailboxOps, MailboxKinds DEF PollSome, StopInv, stopVars
<1>5. CASE ProcessMessages
  <2>1. /\ phase = "loop" /\ phase' # "loop" /\ phase' # "absent"
        /\ HasStop(mailbox') <=> HasStop(mailbox)
    BY <1>5, ReceiveToken DEF ProcessMessages, Receives, IsNext, Call, Tokens
  <2> QED
    BY <1>5, <2>1 DEF ProcessMessages, StopInv, stopVars, kafkaVars
<1>6. CASE HandleStop
  <2>1. HasStop(mailbox) /\ phase = "loop"
    BY <1>6, MailboxOps, MailboxKinds DEF HandleStop, IsNext, Tokens
  <2> QED
    BY <1>6, <2>1, MailboxKinds DEF HandleStop, ReplyAndExit, Exit, StopInv, kafkaVars
<1>7. CASE RecvStop
  BY <1>7, MailboxKinds DEF RecvStop, ReplyAndExit, Exit, StopInv, kafkaVars
<1>8. CASE RecvNothing
  BY <1>8 DEF RecvNothing, Call, Sleep, StopInv, stopVars, kafkaVars
<1>9. CASE CallbackOk
  BY <1>9 DEF CallbackOk, StopInv, stopVars, kafkaVars
<1>10. CASE CallbackError
  BY <1>10 DEF CallbackError, Sleep, StopInv, stopVars, kafkaVars
<1>11. CASE CallbackRaises
  BY <1>11, MailboxKinds DEF CallbackRaises, Exit, StopInv, stopVars, kafkaVars
<1>12. CASE SleepEnds
  BY <1>12 DEF SleepEnds, Call, StopInv, stopVars, kafkaVars
<1>13. CASE StoreOffset
  <2>1. /\ phase # "absent" /\ phase' # "absent" /\ mailbox' = mailbox
        /\ UNCHANGED <<stopVars, assigned, queueLive>>
        /\ mailbox \in {<< >>, <<"stop">>}
    BY <1>13 DEF StoreOffset, BackToLoop, PhaseInv, Busy
  <2>2. HasStop(mailbox) => Head(mailbox) = "stop"
    BY <2>1, MailboxOps, MailboxKinds
  <2> QED
    BY <2>1, <2>2 DEF StopInv, stopVars
<1>14. CASE StoreFails
  BY <1>14, MailboxKinds DEF StoreFails, Exit, StopInv, stopVars, kafkaVars
<1>15. CASE RequestStop
  <2>1. CASE phase = "absent"
    BY <1>15, <2>1 DEF RequestStop, StopInv, kafkaVars
  <2>2. CASE phase # "absent"
    <3>1. HasStop(mailbox')
      BY <1>15, <2>2, SendStop DEF RequestStop, StopInv
    <3> QED
      BY <1>15, <2>2, <3>1 DEF RequestStop, StopInv, kafkaVars, StopTimeoutMs
  <2> QED
    BY <2>1, <2>2
<1>16. CASE ReceiveStopped
  BY <1>16 DEF ReceiveStopped, procVars, kafkaVars, StopInv
<1>17. CASE StopTimeout
  <2>1. killSent' <=> phase # "absent"
    BY <1>17 DEF StopTimeout
  <2>2. phase # "absent" => HasStop(mailbox) /\ (phase = "loop" => Head(mailbox) = "stop")
    BY <1>17 DEF StopTimeout, StopInv, StopTimeoutMs
  <2> QED
    BY <1>17, <2>1, <2>2 DEF StopTimeout, procVars, kafkaVars, StopInv
<1>18. CASE KillArrives
  BY <1>18, MailboxKinds DEF KillArrives, Exit, StopInv, kafkaVars
<1>19. CASE QueueCleanup
  BY <1>19 DEF QueueCleanup, procVars, StopInv
<1>20. CASE RevokeCompleted
  BY <1>20 DEF RevokeCompleted, procVars, StopInv
<1>21. CASE AutoCommit
  BY <1>21 DEF AutoCommit, procVars, stopVars, StopInv
<1>22. CASE NodeCrash
  BY <1>22, MailboxKinds DEF NodeCrash, Exit, StopInv
<1>23. CASE \E d \in Steps : Tick(d)
  <2>1. PICK d \in Steps : Tick(d)
    BY <1>23
  <2>2. phase = "loop" => ~HasStop(mailbox)
    BY <2>1, MailboxKinds DEF Tick, Due
  <2> QED
    BY <2>1, <2>2 DEF Tick, Due, kafkaVars, StopInv
<1>24. CASE UNCHANGED vars
  BY <1>24 DEF vars, procVars, stopVars, kafkaVars, StopInv
<1> QED
  BY <1>1, <1>2, <1>3, <1>4, <1>5, <1>6, <1>7, <1>8, <1>9, <1>10, <1>11, <1>12, <1>13,
     <1>14, <1>15, <1>16, <1>17, <1>18, <1>19, <1>20, <1>21, <1>22, <1>23, <1>24
  DEF Next, Process, Group, Environment

LEMMA OffsetStep == IInv /\ [Next]_vars => OffsetInv'
<1> SUFFICES ASSUME IInv, [Next]_vars PROVE OffsetInv'
  OBVIOUS
<1>0. /\ settings' = settings
      /\ DispatchMode \in {"one_by_one", "batch"} /\ DispatchMode' = DispatchMode
      /\ CallbackTimes \subseteq Nat /\ CallbackTimes' = CallbackTimes
  BY SettingsKept
<1> USE <1>0, Constants DEF IInv, TypeOK, Busy
<1>1. CASE StartLink
  BY <1>1 DEF StartLink, Schedule, PhaseInv, OffsetInv
<1>2. CASE TimerFires
  BY <1>2 DEF TimerFires, kafkaVars, OffsetInv, Cursor
<1>3. CASE PollNothing
  BY <1>3 DEF PollNothing, Receives, IsNext, kafkaVars, OffsetInv, Cursor
<1>4. CASE PollSome
  <2>1. end = 0
    BY <1>4, MailboxOps DEF PollSome, Receives, IsNext, PhaseInv, Outstanding
  <2> QED
    BY <1>4, <2>1 DEF PollSome, Receives, IsNext, OffsetInv, Cursor
<1>5. CASE ProcessMessages
  <2>1. head < end
    BY <1>5, MailboxOps DEF ProcessMessages, Receives, IsNext, PhaseInv, Outstanding
  <2> QED
    BY <1>5, <2>1 DEF ProcessMessages, Receives, IsNext, Call, kafkaVars, OffsetInv, Cursor
<1>6. CASE HandleStop
  BY <1>6 DEF HandleStop, ReplyAndExit, Exit, kafkaVars, OffsetInv
<1>7. CASE RecvStop
  BY <1>7 DEF RecvStop, ReplyAndExit, Exit, kafkaVars, OffsetInv
<1>8. CASE RecvNothing
  BY <1>8 DEF RecvNothing, Call, Sleep, kafkaVars, OffsetInv
<1>9. CASE CallbackOk
  BY <1>9 DEF CallbackOk, kafkaVars, OffsetInv, Cursor
<1>10. CASE CallbackError
  BY <1>10 DEF CallbackError, Sleep, kafkaVars, OffsetInv
<1>11. CASE CallbackRaises
  BY <1>11 DEF CallbackRaises, Exit, kafkaVars, OffsetInv
<1>12. CASE SleepEnds
  BY <1>12 DEF SleepEnds, Call, kafkaVars, OffsetInv
<1>13. CASE StoreOffset
  BY <1>13 DEF StoreOffset, BackToLoop, PhaseInv, OffsetInv, Cursor
<1>14. CASE StoreFails
  BY <1>14 DEF StoreFails, Exit, kafkaVars, OffsetInv
<1>15. CASE RequestStop
  BY <1>15 DEF RequestStop, kafkaVars, OffsetInv, Cursor
<1>16. CASE ReceiveStopped
  BY <1>16 DEF ReceiveStopped, procVars, kafkaVars, OffsetInv, Cursor
<1>17. CASE StopTimeout
  BY <1>17 DEF StopTimeout, procVars, kafkaVars, OffsetInv, Cursor
<1>18. CASE KillArrives
  BY <1>18 DEF KillArrives, Exit, kafkaVars, OffsetInv
<1>19. CASE QueueCleanup
  BY <1>19 DEF QueueCleanup, procVars, OffsetInv, Cursor
<1>20. CASE RevokeCompleted
  BY <1>20 DEF RevokeCompleted, procVars, OffsetInv, Cursor
<1>21. CASE AutoCommit
  BY <1>21 DEF AutoCommit, procVars, OffsetInv, Cursor
<1>22. CASE NodeCrash
  BY <1>22 DEF NodeCrash, Exit, OffsetInv
<1>23. CASE \E d \in Steps : Tick(d)
  BY <1>23 DEF Tick, kafkaVars, OffsetInv, Cursor
<1>24. CASE UNCHANGED vars
  BY <1>24 DEF vars, procVars, kafkaVars, OffsetInv, Cursor
<1> QED
  BY <1>1, <1>2, <1>3, <1>4, <1>5, <1>6, <1>7, <1>8, <1>9, <1>10, <1>11, <1>12, <1>13,
     <1>14, <1>15, <1>16, <1>17, <1>18, <1>19, <1>20, <1>21, <1>22, <1>23, <1>24
  DEF Next, Process, Group, Environment

-----------------------------------------------------------------------------
LEMMA Invariance == Spec => []IInv
<1>1. IInv /\ [Next]_vars => IInv'
  BY TypeStep, PhaseStep, StopStep, OffsetStep DEF IInv
<1> QED
  BY <1>1, InitInv, PTL DEF Spec

\* Every variable keeps its type, so that no backoff sleeps longer than four seconds.
THEOREM TypeCorrect == Spec => []TypeOK
<1>1. IInv => TypeOK
  BY DEF IInv
<1> QED
  BY <1>1, Invariance, PTL

\* Nothing is stored or committed that the application has not accepted.
THEOREM StoredWasAccepted == Spec => []AtLeastOnce
<1>1. IInv => AtLeastOnce
  BY DEF IInv, OffsetInv, AtLeastOnce
<1> QED
  BY <1>1, Invariance, PTL

\* A consumer that waits in its receive has one message to itself outstanding, in
\* its timer or in its mailbox, whatever path led back to the loop.
THEOREM OneMessageToItself == Spec => []OneToken
<1>1. ASSUME NEW t \in Tokens PROVE t # "stop" /\ t # "none"
  BY DEF Tokens
<1>2. ASSUME PhaseInv, phase = "loop" PROVE \E t \in Tokens : Outstanding(t)
  BY <1>2 DEF PhaseInv, Tokens
<1>3. ASSUME NEW t \in Tokens, Outstanding(t)
      PROVE  LET inMailbox == {i \in 1 .. Len(mailbox) : mailbox[i] \in Tokens}
             IN  \/ timer # "none" /\ inMailbox = {}
                 \/ timer = "none" /\ \E i \in DOMAIN mailbox : inMailbox = {i}
  <2> DEFINE inMailbox == {i \in 1 .. Len(mailbox) : mailbox[i] \in Tokens}
  <2>1. "stop" \notin Tokens
    BY DEF Tokens
  <2>2. CASE timer = t /\ mailbox = << >>
    BY <1>1, <2>2
  <2>3. CASE timer = t /\ mailbox = <<"stop">>
    BY <1>1, <2>1, <2>3
  <2>4. CASE timer = "none" /\ mailbox = <<t>>
    <3>1. inMailbox = {1} /\ 1 \in DOMAIN mailbox
      BY <2>4
    <3> QED
      BY <2>4, <3>1
  <2>5. CASE timer = "none" /\ mailbox = <<t, "stop">>
    <3>1. inMailbox = {1} /\ 1 \in DOMAIN mailbox
      BY <2>1, <2>5
    <3> QED
      BY <2>5, <3>1
  <2>6. CASE timer = "none" /\ mailbox = <<"stop", t>>
    <3>1. inMailbox = {2} /\ 2 \in DOMAIN mailbox
      BY <2>1, <2>6
    <3> QED
      BY <2>6, <3>1
  <2> QED
    BY <1>3, <2>2, <2>3, <2>4, <2>5, <2>6 DEF Outstanding
<1>4. IInv => OneToken
  BY <1>2, <1>3 DEF IInv, OneToken
<1> QED
  BY <1>4, Invariance, PTL

\* Callbacks run in order and never below the committed offset.
THEOREM CallbacksInOrder == Spec => []InOrder
<1>1. IInv => InOrder
  BY DEF IInv, TypeOK, OffsetInv, InOrder, Busy
<1> QED
  BY <1>1, Invariance, PTL

\* What a group that waits in stop/1 waits for is on its way: the answer, or the message
\* itself, unless the consumer is gone; and one that is to be killed is still about to meet
\* it, before anything else it would handle.
StopUnderWay ==
    /\ stopper = "waiting" => replied \/ StopWaits \/ phase = "absent"
    /\ replied => stopper = "waiting" /\ phase = "absent"
    /\ killSent /\ phase = "loop" => Head(mailbox) = "stop"

\* The stop message is not lost between a callback, a poll and a sleep, and no answer is
\* left for a later stop/1: the safety part of StopReturns.
THEOREM StopIsNotLost == Spec => []StopUnderWay
<1>1. IInv => StopUnderWay
  BY DEF IInv, StopInv, StopFirst, StopUnderWay
<1> QED
  BY <1>1, Invariance, PTL

\* A queue that was given back is never polled, however long the callbacks take.
THEOREM NoPollOfADeadQueue == Spec => []PolledQueueIsLive
<1>1. IInv => PolledQueueIsLive
  BY DEF IInv, TypeOK, StopInv, StopFirst, PolledQueueIsLive, IsNext
<1> QED
  BY <1>1, Invariance, PTL

-----------------------------------------------------------------------------
(* Short callbacks: the five seconds of stop/1 are enough *)

\* While stop/1 waits, the time it has left exceeds the time until the consumer
\* runs recv_stop/0 or receives: one by one a sleep may follow the callback and
\* recv_stop/0 comes after it, in batch mode a callback follows the sleep.
Awaited == stopper = "waiting" /\ ~replied /\ phase # "absent"

TimeInv ==
    /\ ~killSent
    /\ phase = "callback" => wait < StopTimeoutMs - MaxBackoff
    /\ phase = "sleep" => wait <= MaxBackoff
    /\ Awaited =>
          /\ patience > 0
          /\ DispatchMode = "one_by_one" => /\ phase = "callback" => patience > wait + MaxBackoff
                                            /\ phase = "sleep" => patience > wait
          /\ DispatchMode = "batch" =>
                /\ phase = "callback" => patience > wait
                /\ phase = "sleep" => patience >= wait + StopTimeoutMs - MaxBackoff

LEMMA TimeStep ==
    ASSUME ShortCallbacks, IInv, TimeInv, [Next]_vars
    PROVE  TimeInv'
<1>0. /\ settings' = settings
      /\ DispatchMode \in {"one_by_one", "batch"} /\ DispatchMode' = DispatchMode
      /\ CallbackTimes \subseteq Nat /\ CallbackTimes' = CallbackTimes
  BY SettingsKept
<1> USE <1>0, Constants DEF IInv, TypeOK, ShortCallbacks, TimeInv, Awaited, StopTimeoutMs, MaxBackoff
<1>1. CASE StartLink
  BY <1>1 DEF StartLink, stopVars
<1>2. CASE TimerFires
  BY <1>2 DEF TimerFires, stopVars
<1>3. CASE PollNothing
  BY <1>3 DEF PollNothing, Receives, IsNext, stopVars
<1>4. CASE PollSome
  BY <1>4 DEF PollSome, Receives, IsNext, stopVars
<1>5. CASE ProcessMessages
  <2>1. Head(mailbox) # "stop" /\ phase = "loop"
    BY <1>5 DEF ProcessMessages, Receives, IsNext
  <2>2. Awaited => patience = 5000
    BY <2>1 DEF StopInv, StopFirst
  <2>3. patience' = patience /\ ~killSent' /\ (Awaited' <=> Awaited)
    BY <1>5, <2>1 DEF ProcessMessages, Call, stopVars
  <2>4. \/ DispatchMode = "one_by_one" /\ phase' = "recv"
        \/ DispatchMode = "batch" /\ phase' = "callback" /\ wait' \in CallbackTimes
    BY <1>5 DEF ProcessMessages, Call
  <2>5. phase' = "callback" => wait' \in Nat /\ wait' < 1000
    <3> SUFFICES ASSUME phase' = "callback" PROVE wait' \in Nat /\ wait' < 1000
      OBVIOUS
    <3>1. wait' \in CallbackTimes
      BY <2>4
    <3> QED
      BY <3>1
  <2> HIDE DEF Awaited, IInv, TypeOK, ShortCallbacks
  <2> QED
    BY <2>2, <2>3, <2>4, <2>5
<1>6. CASE HandleStop
  BY <1>6 DEF HandleStop, ReplyAndExit, Exit
<1>7. CASE RecvStop
  BY <1>7 DEF RecvStop, ReplyAndExit, Exit
<1>8. CASE RecvNothing
  <2>1. ~(stopper = "waiting" /\ ~replied)
    BY <1>8 DEF RecvNothing, StopInv
  <2>2. ~Awaited' /\ ~killSent'
    BY <1>8, <2>1 DEF RecvNothing, stopVars
  <2>3. \/ DispatchMode = "one_by_one" /\ phase' = "callback" /\ wait' \in CallbackTimes
        \/ DispatchMode = "batch" /\ phase' = "sleep" /\ wait' \in Backoffs
    BY <1>8 DEF RecvNothing, Call, Sleep
  <2>4. phase' = "callback" => wait' \in Nat /\ wait' < 1000
    <3> SUFFICES ASSUME phase' = "callback" PROVE wait' \in Nat /\ wait' < 1000
      OBVIOUS
    <3>1. wait' \in CallbackTimes
      BY <2>3
    <3> QED
      BY <3>1
  <2>5. phase' = "sleep" => wait' \in Nat /\ wait' <= 4000
    BY <2>3 DEF Backoffs
  <2> HIDE DEF Awaited, IInv, TypeOK, ShortCallbacks
  <2> QED
    BY <2>2, <2>3, <2>4, <2>5
<1>9. CASE CallbackOk
  BY <1>9 DEF CallbackOk, stopVars
<1>10. CASE CallbackError
  BY <1>10 DEF CallbackError, Sleep, Backoffs, stopVars
<1>11. CASE CallbackRaises
  BY <1>11 DEF CallbackRaises, Exit, stopVars
<1>12. CASE SleepEnds
  <2>1. phase = "sleep" /\ wait = 0 /\ UNCHANGED <<stopper, patience, replied, killSent>>
    BY <1>12 DEF SleepEnds, stopVars
  <2>2. CASE DispatchMode = "one_by_one"
    BY <1>12, <2>1, <2>2 DEF SleepEnds
  <2>3. CASE DispatchMode = "batch"
    <3>1. phase' = "callback" /\ wait' \in CallbackTimes
      BY <1>12, <2>3 DEF SleepEnds, Call
    <3>2. wait' \in Nat /\ wait' < 1000
      BY <3>1
    <3>3. CASE stopper = "waiting" /\ ~replied
      <4>1. patience >= 1000
        BY <2>1, <2>3, <3>3
      <4> QED
        BY <2>1, <2>3, <3>1, <3>2, <3>3, <4>1
    <3>4. CASE ~(stopper = "waiting" /\ ~replied)
      BY <2>1, <2>3, <3>1, <3>2, <3>4
    <3> QED
      BY <3>3, <3>4
  <2> QED
    BY <2>2, <2>3
<1>13. CASE StoreOffset
  BY <1>13 DEF StoreOffset, BackToLoop, stopVars
<1>14. CASE StoreFails
  BY <1>14 DEF StoreFails, Exit, stopVars
<1>15. CASE RequestStop
  BY <1>15 DEF RequestStop
<1>16. CASE ReceiveStopped
  BY <1>16 DEF ReceiveStopped, procVars
<1>17. CASE StopTimeout
  <2>1. phase = "absent"
    BY <1>17 DEF StopTimeout
  <2> QED
    BY <1>17, <2>1 DEF StopTimeout, procVars
<1>18. CASE KillArrives
  BY <1>18 DEF KillArrives
<1>19. CASE QueueCleanup
  BY <1>19 DEF QueueCleanup, procVars
<1>20. CASE RevokeCompleted
  BY <1>20 DEF RevokeCompleted, procVars
<1>21. CASE AutoCommit
  BY <1>21 DEF AutoCommit, procVars, stopVars
<1>22. CASE NodeCrash
  BY <1>22 DEF NodeCrash, Exit
<1>23. CASE \E d \in Steps : Tick(d)
  <2>1. PICK d \in Steps : Tick(d)
    BY <1>23
  <2>2. d \in Nat
    OBVIOUS
  <2>3. phase \in {"callback", "sleep"} => wait' = wait - d
    BY <2>1 DEF Tick
  <2>4. stopper = "waiting" => patience' = patience - d /\ d <= patience
    BY <2>1 DEF Tick
  <2>5. /\ UNCHANGED <<phase, stopper, replied, killSent>>
        /\ stopper = "waiting" /\ ~replied /\ phase # "absent" => phase \in {"callback", "sleep"}
    BY <2>1, MailboxKinds DEF Tick, Due, Phases, Busy, StopInv, StopWaits
  <2>6. phase \in {"callback", "sleep"} => d <= wait
    BY <2>1 DEF Tick
  <2>7. CASE phase \in {"callback", "sleep"} /\ stopper = "waiting"
    BY <2>2, <2>3, <2>4, <2>5, <2>6, <2>7
  <2>8. CASE phase \in {"callback", "sleep"} /\ stopper # "waiting"
    BY <2>2, <2>3, <2>5, <2>6, <2>8
  <2>9. CASE phase \notin {"callback", "sleep"}
    BY <2>5, <2>9
  <2> QED
    BY <2>7, <2>8, <2>9
<1>24. CASE UNCHANGED vars
  BY <1>24 DEF vars, procVars, stopVars
<1> QED
  BY <1>1, <1>2, <1>3, <1>4, <1>5, <1>6, <1>7, <1>8, <1>9, <1>10, <1>11, <1>12, <1>13,
     <1>14, <1>15, <1>16, <1>17, <1>18, <1>19, <1>20, <1>21, <1>22, <1>23, <1>24
  DEF Next, Process, Group, Environment

\* When every callback takes less than a second, stop/1 never has to kill.
THEOREM ShortCallbacksAreNeverKilled == Spec => []NeverKilled
<1> DEFINE CalmInv == ShortCallbacks => TimeInv
<1>1. Init => CalmInv
  BY DEF Init, TimeInv, Awaited
<1>2. IInv /\ CalmInv /\ [Next]_vars => CalmInv'
  <2> SUFFICES ASSUME IInv, CalmInv, [Next]_vars, ShortCallbacks' PROVE TimeInv'
    OBVIOUS
  <2>1. CallbackTimes' = CallbackTimes
    BY SettingsKept
  <2>2. ShortCallbacks
    BY <2>1 DEF ShortCallbacks, StopTimeoutMs, MaxBackoff
  <2> QED
    BY <2>2, TimeStep
<1>3. IInv /\ CalmInv => NeverKilled
  BY DEF IInv, TimeInv, StopInv, NeverKilled
<1> HIDE DEF CalmInv
<1> QED
  BY <1>1, <1>2, <1>3, Invariance, PTL DEF Spec

-----------------------------------------------------------------------------
(* The consumer implements PartitionDelivery *)

\* The cursor lies between what is stored and the end of the log.
LEMMA CursorBounds == IInv => /\ Cursor \in 0 .. LogEnd
                              /\ committed <= stored /\ stored <= Cursor
                              /\ committed \in Nat /\ stored \in Nat
<1> SUFFICES ASSUME IInv PROVE /\ Cursor \in 0 .. LogEnd
                               /\ committed <= stored /\ stored <= Cursor
                               /\ committed \in Nat /\ stored \in Nat
  OBVIOUS
<1> QED
  BY Constants DEF IInv, TypeOK, PhaseInv, OffsetInv, Outstanding, Cursor, Phases, Busy

\* The consumer is gone: what it had not stored is offered again.
LEMMA ExitFallsBack ==
    ASSUME IInv, Exit, UNCHANGED <<stored, committed, handled>>
    PROVE  Delivery!FallBack
<1>1. Cursor' = stored
  BY DEF Exit, Cursor
<1> QED
  BY <1>1, CursorBounds, Constants DEF Delivery!FallBack

LEMMA DeliveryStep == IInv /\ [Next]_vars => [Delivery!Next]_(Delivery!vars)
<1> SUFFICES ASSUME IInv, [Next]_vars
             PROVE  Delivery!Next \/ UNCHANGED <<Cursor, handled, committed>>
  BY DEF Delivery!vars
<1>0. /\ settings' = settings
      /\ DispatchMode \in {"one_by_one", "batch"} /\ DispatchMode' = DispatchMode
      /\ CallbackTimes \subseteq Nat /\ CallbackTimes' = CallbackTimes
  BY SettingsKept
<1> USE <1>0, Constants DEF IInv, Delivery!Next, Delivery!FallBack
<1>1. CASE StartLink
  BY <1>1 DEF StartLink, Schedule, PhaseInv, Cursor, CursorBounds, OffsetInv, TypeOK
<1>2. CASE TimerFires
  BY <1>2 DEF TimerFires, kafkaVars, Cursor
<1>3. CASE PollNothing
  BY <1>3 DEF PollNothing, Receives, kafkaVars, Cursor
<1>4. CASE PollSome
  <2>1. end = 0 /\ phase = "loop"
    BY <1>4, MailboxOps DEF PollSome, Receives, IsNext, PhaseInv, Outstanding
  <2> QED
    BY <1>4, <2>1 DEF PollSome, Receives, Cursor, TypeOK
<1>5. CASE ProcessMessages
  <2>1. head < end /\ phase = "loop"
    BY <1>5, MailboxOps DEF ProcessMessages, Receives, IsNext, PhaseInv, Outstanding
  <2> QED
    BY <1>5, <2>1 DEF ProcessMessages, Call, kafkaVars, Cursor, TypeOK
<1>6. CASE HandleStop
  BY <1>6, ExitFallsBack DEF HandleStop, ReplyAndExit, kafkaVars
<1>7. CASE RecvStop
  BY <1>7, ExitFallsBack DEF RecvStop, ReplyAndExit, kafkaVars
<1>8. CASE RecvNothing
  BY <1>8 DEF RecvNothing, Call, Sleep, kafkaVars, Cursor
<1>9. CASE CallbackOk
  <2>1. Cursor = head /\ head < end /\ UNCHANGED <<head, end, committed>> /\ phase' = "store"
    BY <1>9 DEF CallbackOk, PhaseInv, Busy, kafkaVars, Cursor
  <2>2. head \in Nat /\ end \in 0 .. LogEnd
    BY DEF TypeOK
  <2>3. CASE DispatchMode = "one_by_one"
    <3>1. Cursor' = head + 1 /\ handled' = handled \union (head .. Cursor' - 1)
      BY <1>9, <2>1, <2>2, <2>3 DEF CallbackOk, Cursor
    <3>2. Cursor' \in head + 1 .. LogEnd
      BY <2>1, <2>2, <3>1
    <3> QED
      BY <2>1, <3>1, <3>2 DEF Delivery!Accept
  <2>4. CASE DispatchMode = "batch"
    <3>1. Cursor' = end /\ handled' = handled \union (head .. Cursor' - 1)
      BY <1>9, <2>1, <2>4 DEF CallbackOk, Cursor
    <3>2. Cursor' \in head + 1 .. LogEnd
      BY <2>1, <2>2, <3>1
    <3> QED
      BY <2>1, <3>1, <3>2 DEF Delivery!Accept
  <2> QED
    BY <2>3, <2>4
<1>10. CASE CallbackError
  BY <1>10 DEF CallbackError, Sleep, kafkaVars, Cursor
<1>11. CASE CallbackRaises
  BY <1>11, ExitFallsBack DEF CallbackRaises, kafkaVars
<1>12. CASE SleepEnds
  BY <1>12 DEF SleepEnds, Call, kafkaVars, Cursor
<1>13. CASE StoreOffset
  <2>1. /\ phase = "store" /\ assigned /\ position = end /\ head < end
        /\ UNCHANGED <<position, committed, handled>> /\ head \in Nat /\ end \in Nat
    BY <1>13 DEF StoreOffset, PhaseInv, OffsetInv, Busy, TypeOK
  <2>2. CASE DispatchMode = "one_by_one" /\ head + 1 < end
    BY <1>13, <2>1, <2>2 DEF StoreOffset, Cursor
  <2>3. CASE ~(DispatchMode = "one_by_one" /\ head + 1 < end)
    <3>1. phase' = "loop" /\ end' = 0
      BY <1>13, <2>3 DEF StoreOffset, BackToLoop
    <3>2. Cursor = end
      BY <2>1, <2>3 DEF Cursor
    <3> QED
      BY <2>1, <3>1, <3>2 DEF Cursor
  <2> QED
    BY <2>2, <2>3
<1>14. CASE StoreFails
  BY <1>14, ExitFallsBack DEF StoreFails, kafkaVars
<1>15. CASE RequestStop
  BY <1>15 DEF RequestStop, kafkaVars, Cursor
<1>16. CASE ReceiveStopped
  BY <1>16 DEF ReceiveStopped, procVars, kafkaVars, Cursor
<1>17. CASE StopTimeout
  BY <1>17 DEF StopTimeout, procVars, kafkaVars, Cursor
<1>18. CASE KillArrives
  BY <1>18, ExitFallsBack DEF KillArrives, kafkaVars
<1>19. CASE QueueCleanup
  BY <1>19 DEF QueueCleanup, procVars, Cursor
<1>20. CASE RevokeCompleted
  <2>1. /\ committed' \in {committed, stored} /\ UNCHANGED <<phase, head, end, handled>>
        /\ stored' = committed' /\ position' = committed'
    BY <1>20 DEF RevokeCompleted, procVars
  <2>2. committed' \in committed .. Cursor
    BY <2>1, CursorBounds
  <2>3. CASE Cursor' = Cursor
    <3>1. committed' = committed \/ committed' \in committed + 1 .. Cursor
      BY <2>2, CursorBounds
    <3> QED
      BY <2>1, <2>3, <3>1 DEF Delivery!Commit
  <2>4. CASE Cursor' = committed'
    BY <2>1, <2>2, <2>4 DEF Delivery!CommitAndFallBack
  <2> QED
    BY <2>1, <2>3, <2>4 DEF Cursor
<1>21. CASE AutoCommit
  <2>1. committed' = stored /\ committed' # committed /\ UNCHANGED <<handled, Cursor>>
    BY <1>21 DEF AutoCommit, procVars, Cursor
  <2> QED
    BY <2>1, CursorBounds DEF Delivery!Commit
<1>22. CASE NodeCrash
  <2>1. Cursor' = committed /\ UNCHANGED <<committed, handled>>
    BY <1>22 DEF NodeCrash, Exit, Cursor
  <2> QED
    BY <2>1, CursorBounds
<1>23. CASE \E d \in Steps : Tick(d)
  BY <1>23 DEF Tick, kafkaVars, Cursor
<1>24. CASE UNCHANGED vars
  BY <1>24 DEF vars, procVars, kafkaVars, Cursor
<1> QED
  BY <1>1, <1>2, <1>3, <1>4, <1>5, <1>6, <1>7, <1>8, <1>9, <1>10, <1>11, <1>12, <1>13,
     <1>14, <1>15, <1>16, <1>17, <1>18, <1>19, <1>20, <1>21, <1>22, <1>23, <1>24
  DEF Next, Process, Group, Environment

\* The consumer, seen by the application, delivers in order and at least once.
THEOREM ConsumerDelivers == Spec => DeliversInOrder
<1>1. Init => Delivery!Init
  BY DEF Init, Delivery!Init, Cursor
<1> QED
  BY <1>1, DeliveryStep, Invariance, PTL DEF Spec, DeliversInOrder, Delivery!Spec
=============================================================================
