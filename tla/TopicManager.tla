---------------------------- MODULE TopicManager ----------------------------
(***************************************************************************)
(* The topic handles of one producer (c_src/topicmanager.cc): a std::map   *)
(* from names to rd_kafka_topic_t, filled by every thread that produces.   *)
(*                                                                         *)
(* enif_produce looks its topic up without the lock and creates it, under  *)
(* the lock, when it does not find it; create_topic goes straight to the   *)
(* locked part.  std::map says nothing of a lookup that overlaps an        *)
(* insertion: the insertion is two writes here (the node with an empty     *)
(* value, then the value), and a lookup that overlaps the first one may    *)
(* also miss a node that is already there.                                 *)
(***************************************************************************)
EXTENDS Integers

CONSTANTS
    Producers,       \* threads inside enif_produce or enif_produce_sync
    Manager,         \* the one process that calls create_topic
    Names            \* the topic names

Callers == Producers \union {Manager}
Free    == "free"    \* nobody holds crt_

ASSUME TopicManagerAssumption == Manager \notin Producers /\ Free \notin Callers

Absent == -1         \* the name has no node in topics_
Null   == 0          \* a node without a value; the NULL that is returned
                     \* n > 0: the n-th handle created for the name

VARIABLES
    topics,      \* topics_
    lock,        \* who holds crt_
    pc,          \* where each caller is: see Places
    name,        \* the argument of its current or last call
    torn,        \* its lookup overlaps an insertion
    result,      \* what its last call returned
    made,        \* how many handles rd_kafka_topic_new has made for each name
    failed,      \* rd_kafka_topic_new has failed for the name
    destroyed    \* how many handles of each name were destroyed

vars == <<topics, lock, pc, name, torn, result, made, failed, destroyed>>

\* "find": in the unlocked lookup; "enter": about to take the lock; "search",
\* "link", "set": in AddTopic with the lock; "freed": the producer is gone.
Places == {"idle", "find", "enter", "search", "link", "set", "freed"}
Locked == {"search", "link", "set"}

-----------------------------------------------------------------------------
Init ==
    /\ topics = [n \in Names |-> Absent] /\ lock = Free
    /\ pc = [c \in Callers |-> "idle"] /\ name \in [Callers -> Names]
    /\ torn = [c \in Callers |-> FALSE] /\ result = [c \in Callers |-> Absent]
    /\ made = [n \in Names |-> 0] /\ failed = [n \in Names |-> FALSE]
    /\ destroyed = [n \in Names |-> 0]

\* enif_produce calls GetOrCreateTopic, enif_producer_topic_new AddTopic.
Call(c, n) ==
    /\ pc[c] = "idle"
    /\ pc' = [pc EXCEPT ![c] = IF c = Manager THEN "enter" ELSE "find"]
    /\ name' = [name EXCEPT ![c] = n]
    /\ result' = [result EXCEPT ![c] = Absent]
    /\ UNCHANGED <<topics, lock, torn, made, failed, destroyed>>

Return(c, r) == /\ pc' = [pc EXCEPT ![c] = "idle"]
                /\ result' = [result EXCEPT ![c] = r]

\* The unlocked find comes to its end.
Find(c) ==
    /\ pc[c] = "find"
    /\ \E seen \in {topics[name[c]]} \union (IF torn[c] THEN {Absent} ELSE {}) :
          IF seen = Absent
            THEN pc' = [pc EXCEPT ![c] = "enter"] /\ UNCHANGED result
            ELSE Return(c, seen)
    /\ torn' = [torn EXCEPT ![c] = FALSE]
    /\ UNCHANGED <<topics, lock, name, made, failed, destroyed>>

\* Variant: AddTopic without its lock.
EnterUnlocked(c) ==
    /\ pc[c] = "enter"
    /\ lock' = c
    /\ pc' = [pc EXCEPT ![c] = "search"]
    /\ UNCHANGED <<topics, name, torn, result, made, failed, destroyed>>

Enter(c) ==
    /\ pc[c] = "enter" /\ lock = Free
    /\ lock' = c
    /\ pc' = [pc EXCEPT ![c] = "search"]
    /\ UNCHANGED <<topics, name, torn, result, made, failed, destroyed>>

\* Variant: the lock is kept on the early return.
AlreadyExistsKeepsLock(c) ==
    /\ pc[c] = "search" /\ topics[name[c]] # Absent
    /\ IF c = Manager THEN Return(c, Null)
                      ELSE pc' = [pc EXCEPT ![c] = "find"] /\ UNCHANGED result
    /\ UNCHANGED <<topics, lock, name, torn, made, failed, destroyed>>

\* Variant: the handle is created before the name is looked up.
AlreadyExistsTooLate(c) ==
    /\ pc[c] = "search" /\ topics[name[c]] # Absent
    /\ made' = [made EXCEPT ![name[c]] = @ + 1]
    /\ lock' = Free
    /\ IF c = Manager THEN Return(c, Null)
                      ELSE pc' = [pc EXCEPT ![c] = "find"] /\ UNCHANGED result
    /\ UNCHANGED <<topics, name, torn, failed, destroyed>>

\* already_exist: GetOrCreateTopic starts over, create_topic is an error.
AlreadyExists(c) ==
    /\ pc[c] = "search" /\ topics[name[c]] # Absent
    /\ lock' = Free
    /\ IF c = Manager THEN Return(c, Null)
                      ELSE pc' = [pc EXCEPT ![c] = "find"] /\ UNCHANGED result
    /\ UNCHANGED <<topics, name, torn, made, failed, destroyed>>

TopicNew(c) ==
    /\ pc[c] = "search" /\ topics[name[c]] = Absent
    /\ made' = [made EXCEPT ![name[c]] = @ + 1]
    /\ pc' = [pc EXCEPT ![c] = "link"]
    /\ UNCHANGED <<topics, lock, name, torn, result, failed, destroyed>>

\* Variant: something that is neither NULL nor a handle is returned.
TopicNewFailsGarbage(c) ==
    /\ pc[c] = "search" /\ topics[name[c]] = Absent
    /\ failed' = [failed EXCEPT ![name[c]] = TRUE]
    /\ lock' = Free
    /\ Return(c, Absent - 1)
    /\ UNCHANGED <<topics, name, torn, made, destroyed>>

TopicNewFails(c) ==
    /\ pc[c] = "search" /\ topics[name[c]] = Absent
    /\ failed' = [failed EXCEPT ![name[c]] = TRUE]
    /\ lock' = Free
    /\ Return(c, Null)
    /\ UNCHANGED <<topics, name, torn, made, destroyed>>

\* topics_[name] links a node without a value ...
Link(c) ==
    /\ pc[c] = "link"
    /\ topics' = [topics EXCEPT ![name[c]] = Null]
    /\ torn' = [o \in Callers |-> torn[o] \/ pc[o] = "find"]
    /\ pc' = [pc EXCEPT ![c] = "set"]
    /\ UNCHANGED <<lock, name, result, made, failed, destroyed>>

\* ... and the assignment gives it the handle.
Set(c) ==
    /\ pc[c] = "set"
    /\ topics' = [topics EXCEPT ![name[c]] = made[name[c]]]
    /\ lock' = Free
    /\ Return(c, made[name[c]])
    /\ UNCHANGED <<name, torn, made, failed, destroyed>>

\* The destructor, from enif_producer_free: no call holds the resource.
Cleanup ==
    /\ \A c \in Callers : pc[c] = "idle"
    /\ destroyed' = [n \in Names |-> destroyed[n] + (IF topics[n] = Absent THEN 0 ELSE 1)]
    /\ topics' = [n \in Names |-> Absent]
    /\ pc' = [c \in Callers |-> "freed"]
    /\ UNCHANGED <<lock, name, torn, result, made, failed>>

Step(c) == \/ Find(c) \/ Enter(c) \/ AlreadyExists(c)
           \/ TopicNew(c) \/ TopicNewFails(c) \/ Link(c) \/ Set(c)

Next == \/ \E c \in Callers : Step(c) \/ \E n \in Names : Call(c, n)
        \/ Cleanup

Spec == Init /\ [][Next]_vars

\* The threads run, and a thread that waits for the lock gets it in the end.
Fairness == \A c \in Callers : WF_vars(Step(c)) /\ SF_vars(Enter(c))

LiveSpec == Spec /\ Fairness

-----------------------------------------------------------------------------
(* Properties *)

TypeOK ==
    /\ topics \in [Names -> Nat \union {Absent}] /\ lock \in Callers \union {Free}
    /\ pc \in [Callers -> Places] /\ name \in [Callers -> Names]
    /\ torn \in [Callers -> BOOLEAN] /\ result \in [Callers -> Nat \union {Absent}]
    /\ made \in [Names -> Nat] /\ failed \in [Names -> BOOLEAN]
    /\ destroyed \in [Names -> Nat]

\* However the unlocked lookups fare, a topic has one handle: what one thread
\* has inserted no other inserts again (a second handle would be lost with the
\* configuration create_topic gave it), and every call for the topic that returns
\* a handle returns the one in the map.
OneHandle ==
    /\ \A n \in Names : made[n] <= 1
    /\ \A c \in Callers : pc[c] = "idle" /\ result[c] > 0 => topics[name[c]] = result[c]

\* The producer's end destroys every handle it has made.
NothingLeaks == \A c \in Callers : pc[c] = "freed" => destroyed = made

\* A call always returns: the retry of GetOrCreateTopic ends, because lookups
\* only miss a name while some name is being inserted.
CallsReturn == \A c \in Callers : pc[c] \in Places \ {"idle", "freed"} ~> pc[c] = "idle"

\* topicmanager.cc:43: "it's safe to partially protect it and avoid useless
\* locks".  Then GetOrCreateTopic returns NULL, and enif_produce fails with
\* "failed to create topic object", only if rd_kafka_topic_new has failed.
PartialProtectionIsSafe == \A c \in Producers : result[c] = Null => failed[name[c]]
=============================================================================
