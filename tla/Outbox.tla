------------------------------- MODULE Outbox -------------------------------
(***************************************************************************)
(* What a producer promises of the messages it is given: a message it has  *)
(* said :ok to is handed to librdkafka at least once.  It may be kept in   *)
(* between; what is kept is handed over in the order of its arrival, and   *)
(* is dropped only afterwards.  An :error promises nothing: the message    *)
(* may be sent all the same.                                               *)
(***************************************************************************)
EXTENDS Sequences

CONSTANTS Messages, Leftover   \* Leftover: what an earlier run has kept

VARIABLES kept,          \* the messages that are kept, oldest first
          offered,       \* the oldest one was handed over and may be dropped
          tried,         \* the messages that were handed over
          answer         \* what the caller of each message was told

vars == <<kept, offered, tried, answer>>

\* The callers that are told of a failure.
Failures == {a \in [Messages -> {"none", "ok", "error"}] :
                \A m \in Messages : a[m] = answer[m] \/ (answer[m] = "none" /\ a[m] = "error")}

Init == /\ kept = Leftover /\ offered = FALSE /\ tried = {}
        /\ answer = [m \in Messages |-> IF \E i \in DOMAIN Leftover : Leftover[i] = m
                                          THEN "ok" ELSE "none"]

\* The message is handed over in its caller's process.
Direct(m) == /\ tried' = tried \union {m}
             /\ answer[m] = "none"
             /\ answer' \in {[answer EXCEPT ![m] = a] : a \in {"none", "ok", "error"}}
             /\ UNCHANGED <<kept, offered>>

\* It is kept; a caller that is still waiting learns of it.
Keep(m) == /\ kept' = Append(kept, m)
           /\ answer' \in {answer} \union
                  (IF answer[m] = "none" THEN {[answer EXCEPT ![m] = "ok"]} ELSE {})
           /\ UNCHANGED <<offered, tried>>

Offer == /\ kept # << >> /\ ~offered
         /\ tried' = tried \union {Head(kept)} /\ offered' = TRUE
         /\ UNCHANGED <<kept, answer>>

Drop == /\ offered /\ kept # << >>
        /\ kept' = Tail(kept) /\ offered' = FALSE
        /\ UNCHANGED <<tried, answer>>

\* A call fails, or the producer crashes: it forgets what it has handed over.
Fail == /\ answer' \in Failures
        /\ offered' \in {offered, FALSE}
        /\ UNCHANGED <<kept, tried>>

Next == \/ \E m \in Messages : Direct(m) \/ Keep(m)
        \/ Offer \/ Drop \/ Fail

Spec == Init /\ [][Next]_vars
=============================================================================
